SPECIFICATION MCSpec
CONSTANTS
  HeadLen = 2
  BodyLens <- MCBodyLens
  Endless = Endless
  Counted = 4
  Declared <- MCDeclared
  NoLength = NoLength
  Word = 8
  Retries = 2
  MaxHandle = 2
  MaxSockets = 2
  MaxAttempts = 3
INVARIANTS
  RequestsSound
PROPERTIES
  RequestsEnd
\* the handles are used up, or the component has trapped
CHECK_DEADLOCK FALSE

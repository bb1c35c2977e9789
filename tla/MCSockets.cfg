SPECIFICATION PartSpec
CONSTANTS
  MaxHandle = 3
  MaxSockets = 3
INVARIANTS
  HostAgrees
  ObjectsAgree
PROPERTIES
  OverForGood
\* every handle may have been given out, or the component has ended
CHECK_DEADLOCK FALSE

SPECIFICATION PartSpec
CONSTANTS
  Plugins <- MCPlugins
  MaxVersion = 3
  MaxFaults = 1
  MaxPollables = 5
  Width = 3
  NoKey = NoKey
  MaxTimers = 3
  MaxInstant = 3
  MaxSockets = 20
INVARIANTS
  RecordedMeansBuilt
  TimersSound
  SelectsSound
  SocksInOrder

  
\* the pollables and the timers are used up
CHECK_DEADLOCK FALSE

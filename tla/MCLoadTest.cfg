SPECIFICATION PartSpec
CONSTANTS
  t1 = t1
  t2 = t2
  p1 = p1
  p2 = p2
  http = http
  W = 3
  UsizeMax <- MCUsizeMax
  MaxSpans = 2
  NoAddress = NoAddress
  MaxAddr = 2
  SubInstance <- MCTenants
  SubId <- MCUserIds
  Resource <- MCHttp
  RangeInput = {}
  MaxRanges = 0
  NoIp = NoIp
  NoBinding = NoBinding
  PoolId <- MCPools
  ConfigInput <- MCConfigInput
  User <- MCUser
  Workers = 2
  HttpClient = http
  BadRange = BadRange
INVARIANTS
  LiveUserHoldsItsAddress
  LoadLeasesAtEnd
  WasmServesEveryUser
  RangesSound
PROPERTIES
  DeniedOnlyWhenAllHeld
  LoadProgress
  WasmImplementsConcurrent
\* the load test is over, or its endless users have all workers
CHECK_DEADLOCK FALSE

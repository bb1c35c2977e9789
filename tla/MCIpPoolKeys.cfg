SPECIFICATION Spec
CONSTANTS
  t1 = t1
  t2 = t2
  u1 = u1
  u2 = u2
  r1 = r1
  r2 = r2
  MaxAddr = 2
  SubInstance <- MCSubInstance
  SubId <- MCSubId
  Resource <- MCResource
  RangeInput <- MCWholeRange
  MaxRanges = 1
  NoIp = NoIp
  NoBinding = NoBinding
SYMMETRY Symmetry
PROPERTIES
  AllocateReturnsSameIp

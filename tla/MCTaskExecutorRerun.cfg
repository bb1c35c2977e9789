SPECIFICATION Spec
CONSTANTS
  a = a
  b = b
  c = c
  get = get
  put = put
  d1 = d1
  TaskId <- MCTaskId
  ActionId <- MCActionId
  Def <- MCDef
  EventInput <- MCEvents
  TreeInput <- MCTrees
  MaxEmit = 2
  NoTask = NoTask
  NoAction = NoAction
  NoDef = NoDef
  NoNode = NoNode
INVARIANTS
  FinishedMeansAllExecuted

SPECIFICATION WorkflowSpec
CONSTANTS
  a = a
  b = b
  c = c
  get = get
  d1 = d1
  d2 = d2
  TaskId <- MCTaskId
  ActionId <- MCActionId
  Def <- MCDef
  EventInput <- MCEvents
  TreeInput <- MCTrees
  NoTask = NoTask
  NoAction = NoAction
  NoDef = NoDef
  NoNode = NoNode
INVARIANTS
  WorkflowTypeOK
  SameTasks
  TransitionsAreEdges
PROPERTIES
  MatchLostOnlySo

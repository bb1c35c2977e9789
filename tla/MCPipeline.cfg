SPECIFICATION PartSpec
CONSTANTS
  r1 = r1
  r2 = r2
  r3 = r3
  c1 = c1
  c2 = c2
  start = start
  a = a
  end = end
  act = act
  other = other
  yes = yes
  cond = cond
  answer = answer
  env = env
  user = user
  id = id
  ip = ip
  x = x
  Run <- MCRun
  Component <- MCComponent
  None = None
  NodeId <- MCNodeId
  ActionId <- MCActionId
  Start = start
  Condition <- MCCondition
  OnOutput <- MCOnOutput
  True = yes
  ScenarioInput <- MCScenarioInput
  LifetimeInput <- MCLifetimeInput
  UsizeMax = 3
  MaxWalk = 4
  NoAction = NoAction
  NoTrigger = NoTrigger
  NoCondition = NoCondition
  ResourceId <- MCResourceId
  Property <- MCProperty
  Literal <- MCLiteral
  ResourceInput <- MCResourceInput
  OverrideInput <- MCOverrideInput
  TextInput <- MCTextInput
  Null = Null
INVARIANTS
  CallsAccounted
  WalksSound
  RenderingSound
PROPERTIES
  LifecycleKept
  InterruptEnds
  EndsOrRevisits
\* the process is gone, the text rendered
CHECK_DEADLOCK FALSE

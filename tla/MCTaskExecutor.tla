--------------------------- MODULE MCTaskExecutor ---------------------------
(* Three tasks; a scenario starts with one or two of them.  The events     *)
(* insert, remove, empty and rewire tasks, and some are refused.           *)
EXTENDS TaskExecutor

CONSTANTS a, b, c, get, put, d1

MCTaskId == {a, b, c}
MCActionId == {get, put}
MCDef == {d1}

Calls(x, S) == [action |-> x, outgoing |-> S]
Registry == [x \in MCActionId |-> IF x = get THEN d1 ELSE NoDef]

MCTrees == {
  [order |-> <<a, b>>,
   tasks |-> [t \in MCTaskId |->
     IF t = a THEN Calls(get, {b}) ELSE IF t = b THEN Calls(get, {}) ELSE NoTask],
   actions |-> Registry],
  [order |-> <<b, a>>,
   tasks |-> [t \in MCTaskId |->
     IF t = a THEN Calls(get, {}) ELSE IF t = b THEN Calls(NoAction, {a}) ELSE NoTask],
   actions |-> Registry]}

Insert(t, task) == [type |-> "InsertTask", id |-> t, task |-> task]
Update(t, task) == [type |-> "UpdateTask", id |-> t, task |-> task]

MCEvents == {
  Insert(c, Calls(get, {a})), Insert(c, Calls(put, {})), Insert(b, Calls(get, {})),
  [type |-> "RemoveTask", id |-> b],
  Update(b, Calls(NoAction, {})), Update(c, Calls(get, {})),
  [type |-> "RegisterAction", id |-> put, def |-> d1],
  [type |-> "AddEdge", id |-> b, target |-> c],
  [type |-> "RemoveEdge", id |-> a, target |-> b]}
=============================================================================

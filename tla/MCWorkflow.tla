----------------------------- MODULE MCWorkflow -----------------------------
(* Three tasks and one action of two definitions.  An event inserts or     *)
(* replaces a task with at most one edge; edges lead to b or c.            *)
EXTENDS Workflow, FiniteSets

CONSTANTS a, b, c, get, d1, d2

MCTaskId == {a, b, c}
MCActionId == {get}
MCDef == {d1, d2}

(* A scenario of two nodes, a leading to b. *)
MCTrees ==
  {[order |-> <<a, b>>,
    tasks |-> [t \in MCTaskId |->
                 IF t = a THEN [action |-> get, outgoing |-> {b}]
                 ELSE IF t = b THEN [action |-> NoAction, outgoing |-> {}]
                 ELSE NoTask],
    actions |-> [x \in MCActionId |-> d1]]}

MCEvents == {e \in Event :
  /\ e.type \in {"InsertTask", "UpdateTask"} => e.task.outgoing \in {{}, {b}}
  /\ e.type \in {"AddEdge", "RemoveEdge"} => e.target \in {b, c}}
=============================================================================

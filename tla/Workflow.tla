------------------------------ MODULE Workflow ------------------------------
(***************************************************************************)
(* The two structures a scheduler run works on and the events that change  *)
(* them: WbsTree (core-libs/src/wbs/mod.rs), StateMachine                  *)
(* (core-libs/src/state_machine/mod.rs) and SchedulerEvent::apply          *)
(* (executor/src/lib.rs).  Labels, node kinds and edge conditions are      *)
(* copied from one structure to the other and read by nothing here: they   *)
(* are left out, and the outgoing edges of a task, which are only pushed,  *)
(* retained by target and copied, are the set of their targets.            *)
(***************************************************************************)
EXTENDS Integers, Sequences

CONSTANTS
  TaskId, ActionId,
  Def,         \* what an ActionDef may contain
  EventInput,  \* the events a component may emit
  TreeInput,   \* the trees that WbsTree::build may return
  NoTask, NoAction, NoDef, NoNode

Task == [action : ActionId \cup {NoAction}, outgoing : SUBSET TaskId]

Node == [action : Def \cup {NoDef}, transitions : SUBSET TaskId]

Tree == [order   : Seq(TaskId),
         tasks   : [TaskId -> Task \cup {NoTask}],
         actions : [ActionId -> Def \cup {NoDef}]]

(* enum SchedulerEvent; the "from" of the two edge events is called id. *)
Event ==
       [type : {"RegisterAction"}, id : ActionId, def : Def]
  \cup [type : {"InsertTask", "UpdateTask"}, id : TaskId, task : Task]
  \cup [type : {"RemoveTask"}, id : TaskId]
  \cup [type : {"AddEdge", "RemoveEdge"}, id : TaskId, target : TaskId]

(* The order of an IndexMap lists each key that is present once. *)
Lists(order, tasks) ==
  /\ \A t \in TaskId : tasks[t] # NoTask <=> \E i \in 1 .. Len(order) : order[i] = t
  /\ \A i, j \in 1 .. Len(order) : order[i] = order[j] => i = j

(* Scenario::validate: actions are registered and edges lead to nodes. *)
Validated(tree) ==
  \A t \in TaskId : tree.tasks[t] # NoTask =>
    /\ tree.tasks[t].action # NoAction => tree.actions[tree.tasks[t].action] # NoDef
    /\ \A u \in tree.tasks[t].outgoing : tree.tasks[u] # NoTask

ASSUME WorkflowAssumption ==
  /\ EventInput \subseteq Event
  /\ TreeInput \subseteq Tree
  /\ \A tree \in TreeInput : Lists(tree.order, tree.tasks) /\ Validated(tree)
  /\ NoTask \notin Task /\ NoNode \notin Node
  /\ NoAction \notin ActionId /\ NoDef \notin Def

VARIABLES
  order,    \* WbsTree.tasks: the order of the IndexMap
  tasks,    \* WbsTree.tasks: its contents
  actions,  \* WbsTree.actions
  nodes     \* StateMachine.nodes

treeVars == <<order, tasks, actions, nodes>>

Present == {t \in TaskId : tasks[t] # NoTask}

-----------------------------------------------------------------------------
(* Mistake: the node keeps the name of the action. *)
FromTaskByName(task, registered) ==
  [action |-> task.action, transitions |-> task.outgoing]

(* StateNode::from_task: the action definition is copied into the node.    *)
FromTask(task, registered) ==
  [action |-> IF task.action = NoAction THEN NoDef ELSE registered[task.action],
   transitions |-> task.outgoing]

(* StateMachine::from_wbs(WbsTree::build(scenario)) *)
WorkflowInit ==
  \E tree \in TreeInput :
    /\ order = tree.order
    /\ tasks = tree.tasks
    /\ actions = tree.actions
    /\ nodes = [t \in TaskId |-> IF tree.tasks[t] = NoTask THEN NoNode
                                 ELSE FromTask(tree.tasks[t], tree.actions)]

(* IndexMap::shift_remove keeps the order of the other keys. *)
ShiftRemove(s, t) ==
  LET p == CHOOSE i \in 1 .. Len(s) : s[i] = t
  IN  [i \in 1 .. Len(s) - 1 |-> IF i < p THEN s[i] ELSE s[i + 1]]

(* A task is replaced and its state node is built again from it.           *)
PutAndSync(t, task) ==
  /\ tasks' = [tasks EXCEPT ![t] = task]
  /\ nodes' = [nodes EXCEPT ![t] = FromTask(task, actions)]
  /\ UNCHANGED actions

(* No state node is built again, those of the tasks that use the action    *)
(* included.                                                               *)
RegisterAction(a, def) ==
  /\ actions' = [actions EXCEPT ![a] = def]
  /\ UNCHANGED <<order, tasks, nodes>>

(* IndexMap::insert: a new key goes last, a known one keeps its place.     *)
InsertTask(t, task) ==
  /\ order' = IF t \in Present THEN order ELSE Append(order, t)
  /\ PutAndSync(t, task)

(* Mistake: the state machine is forgotten. *)
RemoveFromTree(t) ==
  IF t \in Present
  THEN /\ order' = ShiftRemove(order, t)
       /\ tasks' = [tasks EXCEPT ![t] = NoTask]
       /\ UNCHANGED <<actions, nodes>>
  ELSE UNCHANGED treeVars

(* The state machine drops the transitions to the task (detach_target);    *)
(* the tree keeps the edges to it.                                         *)
RemoveTask(t) ==
  IF t \in Present
  THEN /\ order' = ShiftRemove(order, t)
       /\ tasks' = [tasks EXCEPT ![t] = NoTask]
       /\ nodes' = [u \in TaskId |->
            IF u = t \/ nodes[u] = NoNode THEN NoNode
            ELSE [nodes[u] EXCEPT !.transitions = @ \ {t}]]
       /\ UNCHANGED actions
  ELSE UNCHANGED treeVars

UpdateTask(t, task) == PutAndSync(t, task) /\ UNCHANGED order

(* Mistakes: the state node is not built again. *)
AddEdgeToTree(t, u) ==
  /\ tasks' = [tasks EXCEPT ![t].outgoing = @ \cup {u}]
  /\ UNCHANGED <<order, actions, nodes>>

RemoveEdgeFromTree(t, u) ==
  /\ tasks' = [tasks EXCEPT ![t].outgoing = @ \ {u}]
  /\ UNCHANGED <<order, actions, nodes>>

AddEdge(t, u) ==
  PutAndSync(t, [tasks[t] EXCEPT !.outgoing = @ \cup {u}]) /\ UNCHANGED order

RemoveEdge(t, u) ==
  PutAndSync(t, [tasks[t] EXCEPT !.outgoing = @ \ {u}]) /\ UNCHANGED order

-----------------------------------------------------------------------------
(* update_task, insert_edge and remove_edge return TaskNotFound.           *)
Refused(e) ==
  e.type \in {"UpdateTask", "AddEdge", "RemoveEdge"} /\ e.id \notin Present

(* SchedulerEvent::apply, when it returns Ok. *)
Apply(e) ==
  /\ ~Refused(e)
  /\ \/ e.type = "RegisterAction" /\ RegisterAction(e.id, e.def)
     \/ e.type = "InsertTask" /\ InsertTask(e.id, e.task)
     \/ e.type = "RemoveTask" /\ RemoveTask(e.id)
     \/ e.type = "UpdateTask" /\ UpdateTask(e.id, e.task)
     \/ e.type = "AddEdge" /\ AddEdge(e.id, e.target)
     \/ e.type = "RemoveEdge" /\ RemoveEdge(e.id, e.target)

WorkflowNext == \E e \in EventInput : Apply(e)

WorkflowSpec == WorkflowInit /\ [][WorkflowNext]_treeVars

-----------------------------------------------------------------------------
WorkflowTypeOK ==
  /\ order \in Seq(TaskId)
  /\ tasks \in [TaskId -> Task \cup {NoTask}]
  /\ actions \in [ActionId -> Def \cup {NoDef}]
  /\ nodes \in [TaskId -> Node \cup {NoNode}]

(* The tree's map and the state machine have the same tasks, and the order *)
(* in which the executor scans the tree lists each of them once.           *)
SameTasks ==
  /\ \A t \in TaskId : tasks[t] # NoTask <=> nodes[t] # NoNode
  /\ Lists(order, tasks)

(* The state machine never has a transition that the tree has no edge for. *)
TransitionsAreEdges ==
  \A t \in TaskId : nodes[t] # NoNode => nodes[t].transitions \subseteq tasks[t].outgoing

(* A node stops matching its task only by the removal of a task it leads   *)
(* to or the registration of the action it runs: every other event leaves  *)
(* in step what was in step.                                               *)
MatchLostOnlySo ==
  [][\A t \in TaskId :
       /\ tasks[t] # NoTask /\ nodes[t] = FromTask(tasks[t], actions)
       /\ tasks'[t] # NoTask /\ nodes'[t] # FromTask(tasks'[t], actions')
       => \/ \E u \in tasks[t].outgoing : tasks[u] # NoTask /\ tasks'[u] = NoTask
          \/ tasks[t].action # NoAction
               /\ actions'[tasks[t].action] # actions[tasks[t].action]]_treeVars
=============================================================================

------------------------- MODULE TaskExecutorProofs -------------------------
(***************************************************************************)
(* Proofs about Workflow.tla and TaskExecutor.tla: the tree and the state  *)
(* machine keep the same tasks, whatever events are applied, for every set *)
(* of tasks, actions, events and initial trees; and the executor loop      *)
(* takes up each action task it discovers once, in the order of its scans, *)
(* whatever events the actions emit.                                       *)
(***************************************************************************)
EXTENDS TaskExecutor, FiniteSetTheorems, TLAPS

(* The workflow: its tree and its state machine. *)
WorkflowInv == WorkflowTypeOK /\ SameTasks /\ TransitionsAreEdges

(* A state node built from a task is a node, with the task's own edges.    *)
LEMMA FromTaskIsNode ==
  ASSUME NEW task \in Task, NEW reg \in [ActionId -> Def \cup {NoDef}]
  PROVE  /\ FromTask(task, reg) \in Node
         /\ FromTask(task, reg) # NoNode
         /\ FromTask(task, reg).transitions = task.outgoing
<1>1. task.action = NoAction \/ reg[task.action] \in Def \cup {NoDef}
  BY DEF Task
<1>2. FromTask(task, reg) \in Node
  BY <1>1 DEF FromTask, Node, Task
<1>3. FromTask(task, reg).transitions = task.outgoing
  BY DEF FromTask
<1> QED BY <1>2, <1>3, WorkflowAssumption

(* shift_remove takes out one key and leaves the others, each listed once. *)
LEMMA ShiftRemoveRemoves ==
  ASSUME NEW s \in Seq(TaskId), NEW t \in TaskId,
         \E i \in 1 .. Len(s) : s[i] = t,
         \A i, j \in 1 .. Len(s) : s[i] = s[j] => i = j
  PROVE  /\ ShiftRemove(s, t) \in Seq(TaskId)
         /\ \A i, j \in 1 .. Len(ShiftRemove(s, t)) :
              ShiftRemove(s, t)[i] = ShiftRemove(s, t)[j] => i = j
         /\ \A u \in TaskId :
              (\E i \in 1 .. Len(ShiftRemove(s, t)) : ShiftRemove(s, t)[i] = u)
              <=> u # t /\ \E i \in 1 .. Len(s) : s[i] = u
<1> DEFINE r == ShiftRemove(s, t)
           n == Len(s)
           p == CHOOSE i \in 1 .. n : s[i] = t
<1>1. n \in Nat /\ p \in 1 .. n /\ s[p] = t /\ \A i \in 1 .. n : s[i] \in TaskId
  OBVIOUS
<1>2. n - 1 \in Nat
  BY <1>1
<1>3. r = [i \in 1 .. n - 1 |-> IF i < p THEN s[i] ELSE s[i + 1]]
  BY DEF ShiftRemove
<1> HIDE DEF p, r
<1>4. r \in Seq(TaskId) /\ Len(r) = n - 1
  BY <1>1, <1>2, <1>3
<1>5. \A i \in 1 .. n - 1 : r[i] = IF i < p THEN s[i] ELSE s[i + 1]
  BY <1>3
<1>6. ASSUME NEW i \in 1 .. n - 1, NEW j \in 1 .. n - 1, r[i] = r[j]
      PROVE  i = j
  BY <1>1, <1>5, <1>6
<1>7. ASSUME NEW i \in 1 .. n - 1
      PROVE  r[i] # t /\ \E j \in 1 .. n : s[j] = r[i]
  <2>1. CASE i < p
    <3>1. r[i] = s[i] /\ i \in 1 .. n
      BY <1>1, <1>5, <2>1
    <3> QED BY <1>1, <2>1, <3>1
  <2>2. CASE ~(i < p)
    <3>1. r[i] = s[i + 1] /\ i + 1 \in 1 .. n /\ i + 1 # p
      BY <1>1, <1>5, <2>2
    <3> QED BY <1>1, <3>1
  <2> QED BY <2>1, <2>2
<1>8. ASSUME NEW i \in 1 .. n, s[i] # t
      PROVE  \E j \in 1 .. n - 1 : r[j] = s[i]
  <2>1. CASE i < p
    BY <1>1, <1>5, <2>1
  <2>2. CASE ~(i < p)
    <3>1. i - 1 \in 1 .. n - 1 /\ ~(i - 1 < p) /\ (i - 1) + 1 = i
      BY <1>1, <1>8, <2>2
    <3> QED BY <1>5, <3>1
  <2> QED BY <2>1, <2>2
<1>9. /\ \A i, j \in 1 .. Len(r) : r[i] = r[j] => i = j
      /\ \A u \in TaskId :
           (\E i \in 1 .. Len(r) : r[i] = u) <=> u # t /\ \E i \in 1 .. n : s[i] = u
  BY <1>4, <1>6, <1>7, <1>8
<1> QED BY <1>4, <1>9 DEF r

(* A new tree and the state machine built from it agree.                   *)
LEMMA InitWorkflowInv == WorkflowInit => WorkflowInv
<1> SUFFICES ASSUME NEW tree \in TreeInput,
                    order = tree.order, tasks = tree.tasks, actions = tree.actions,
                    nodes = [t \in TaskId |-> IF tree.tasks[t] = NoTask THEN NoNode
                                              ELSE FromTask(tree.tasks[t], tree.actions)]
             PROVE  WorkflowInv
  BY DEF WorkflowInit
<1>1. tree \in Tree /\ Lists(tree.order, tree.tasks)
  BY WorkflowAssumption
<1>2. /\ order \in Seq(TaskId)
      /\ tasks \in [TaskId -> Task \cup {NoTask}]
      /\ actions \in [ActionId -> Def \cup {NoDef}]
  BY <1>1 DEF Tree
<1>3. ASSUME NEW t \in TaskId, tasks[t] # NoTask
      PROVE  /\ nodes[t] \in Node /\ nodes[t] # NoNode
             /\ nodes[t].transitions = tasks[t].outgoing
  BY <1>2, <1>3, FromTaskIsNode
<1>4. WorkflowTypeOK
  BY <1>2, <1>3 DEF WorkflowTypeOK
<1>5. SameTasks
  BY <1>1, <1>3 DEF SameTasks
<1>6. TransitionsAreEdges
  BY <1>3 DEF TransitionsAreEdges
<1> QED BY <1>4, <1>5, <1>6 DEF WorkflowInv

(* Replacing or adding a task together with its state node keeps the two   *)
(* structures in step, if the order is kept in step with the tasks.        *)
LEMMA PutAndSyncKeepsInv ==
  ASSUME WorkflowInv, NEW t \in TaskId, NEW task \in Task,
         PutAndSync(t, task),
         order' = IF t \in Present THEN order ELSE Append(order, t)
  PROVE  WorkflowInv'
<1> USE DEF WorkflowInv, WorkflowTypeOK
<1>1. /\ tasks' \in [TaskId -> Task \cup {NoTask}]
      /\ tasks'[t] = task /\ task # NoTask
      /\ \A u \in TaskId \ {t} : tasks'[u] = tasks[u]
  BY WorkflowAssumption DEF PutAndSync
<1>2. FromTask(task, actions) \in Node /\ FromTask(task, actions) # NoNode
      /\ FromTask(task, actions).transitions = task.outgoing
  BY FromTaskIsNode
<1>3. /\ nodes' \in [TaskId -> Node \cup {NoNode}]
      /\ nodes'[t] # NoNode /\ nodes'[t].transitions = task.outgoing
      /\ \A u \in TaskId \ {t} : nodes'[u] = nodes[u]
  BY <1>2 DEF PutAndSync
<1>4. actions' \in [ActionId -> Def \cup {NoDef}]
  BY DEF PutAndSync
<1>5. order' \in Seq(TaskId) /\ Lists(order', tasks')
  <2>1. Lists(order, tasks)
    BY DEF SameTasks
  <2>2. CASE t \in Present
    BY <1>1, <2>1, <2>2 DEF Present, Lists
  <2>3. CASE t \notin Present
    <3>1. order' = Append(order, t) /\ order' \in Seq(TaskId)
      BY <2>3
    <3>2. /\ Len(order') = Len(order) + 1 /\ order'[Len(order) + 1] = t
          /\ \A i \in 1 .. Len(order) : order'[i] = order[i] /\ order[i] # t
      BY <2>1, <2>3, <3>1 DEF Present, Lists
    <3>3. ASSUME NEW u \in TaskId
          PROVE  tasks'[u] # NoTask <=> \E i \in 1 .. Len(order') : order'[i] = u
      BY <1>1, <2>1, <3>2 DEF Lists
    <3>4. ASSUME NEW i \in 1 .. Len(order'), NEW j \in 1 .. Len(order'), order'[i] = order'[j]
          PROVE  i = j
      BY <2>1, <3>2, <3>4 DEF Lists
    <3> QED BY <3>1, <3>3, <3>4 DEF Lists
  <2> QED BY <2>2, <2>3
<1>6. SameTasks'
  BY <1>1, <1>3, <1>5 DEF SameTasks
<1>7. TransitionsAreEdges'
  BY <1>1, <1>3 DEF TransitionsAreEdges
<1> QED BY <1>1, <1>3, <1>4, <1>5, <1>6, <1>7

(* Removing a task removes its node and every transition to it.            *)
LEMMA RemoveTaskKeepsInv ==
  ASSUME WorkflowInv, NEW t \in Present, RemoveTask(t)
  PROVE  WorkflowInv'
<1> USE DEF WorkflowInv, WorkflowTypeOK
<1>1. /\ order' = ShiftRemove(order, t)
      /\ tasks' = [tasks EXCEPT ![t] = NoTask]
      /\ nodes' = [u \in TaskId |->
           IF u = t \/ nodes[u] = NoNode THEN NoNode
           ELSE [nodes[u] EXCEPT !.transitions = @ \ {t}]]
      /\ actions' = actions
  BY DEF RemoveTask
<1>2. t \in TaskId /\ Lists(order, tasks)
  BY DEF Present, SameTasks
<1>3. order' \in Seq(TaskId) /\ Lists(order', tasks')
  <2>1. \E i \in 1 .. Len(order) : order[i] = t
    BY <1>2 DEF Present, Lists
  <2>2. \A i, j \in 1 .. Len(order) : order[i] = order[j] => i = j
    BY <1>2 DEF Lists
  <2>3. \A u \in TaskId : tasks'[u] # NoTask <=> u # t /\ tasks[u] # NoTask
    BY <1>1, <1>2
  <2>4. /\ order' \in Seq(TaskId)
        /\ \A i, j \in 1 .. Len(order') : order'[i] = order'[j] => i = j
        /\ \A u \in TaskId : (\E i \in 1 .. Len(order') : order'[i] = u)
                             <=> u # t /\ \E i \in 1 .. Len(order) : order[i] = u
    <3>1. order' = ShiftRemove(order, t) /\ order \in Seq(TaskId)
      BY <1>1
    <3> HIDE DEF WorkflowInv, WorkflowTypeOK
    <3>2. t \in TaskId
      BY <1>2
    <3>3. /\ ShiftRemove(order, t) \in Seq(TaskId)
          /\ \A i, j \in 1 .. Len(ShiftRemove(order, t)) :
               ShiftRemove(order, t)[i] = ShiftRemove(order, t)[j] => i = j
          /\ \A u \in TaskId :
               (\E i \in 1 .. Len(ShiftRemove(order, t)) : ShiftRemove(order, t)[i] = u)
               <=> u # t /\ \E i \in 1 .. Len(order) : order[i] = u
      BY <3>1, <3>2, <2>1, <2>2, ShiftRemoveRemoves
    <3> QED BY <3>1, <3>3
  <2> QED BY <1>2, <2>3, <2>4 DEF Lists
<1>4. tasks' \in [TaskId -> Task \cup {NoTask}]
  BY <1>1
<1>5. ASSUME NEW u \in TaskId, nodes'[u] # NoNode
      PROVE  /\ nodes[u] # NoNode /\ u # t
             /\ nodes'[u] \in Node
             /\ nodes'[u].transitions \subseteq nodes[u].transitions
  BY <1>1, <1>5 DEF Node
<1>6. ASSUME NEW u \in TaskId, nodes[u] # NoNode, u # t
      PROVE  nodes'[u] # NoNode
  <2>1. nodes'[u] = [nodes[u] EXCEPT !.transitions = @ \ {t}]
    BY <1>1, <1>6
  <2>2. nodes[u] \in Node
    BY <1>6
  <2>3. nodes'[u] \in Node
    BY <2>1, <2>2 DEF Node
  <2> QED BY <2>3, WorkflowAssumption
<1>7. nodes' \in [TaskId -> Node \cup {NoNode}]
  BY <1>1, <1>5
<1>8. SameTasks'
  BY <1>1, <1>2, <1>3, <1>5, <1>6 DEF SameTasks
<1>9. TransitionsAreEdges'
  BY <1>1, <1>5 DEF TransitionsAreEdges
<1> QED BY <1>1, <1>3, <1>4, <1>7, <1>8, <1>9

(* Every event keeps the tree and the state machine in step.               *)
LEMMA ApplyKeepsWorkflowInv ==
  ASSUME WorkflowInv, NEW e \in Event, Apply(e)
  PROVE  WorkflowInv'
<1>1. CASE e.type = "RegisterAction" /\ RegisterAction(e.id, e.def)
  <2>1. e.def \in Def /\ e.id \in ActionId
    BY <1>1 DEF Event
  <2>2. actions' \in [ActionId -> Def \cup {NoDef}] /\ UNCHANGED <<order, tasks, nodes>>
    BY <1>1, <2>1 DEF RegisterAction, WorkflowInv, WorkflowTypeOK
  <2> QED BY <2>2 DEF WorkflowInv, WorkflowTypeOK, SameTasks, TransitionsAreEdges, Lists
<1>2. CASE e.type = "InsertTask" /\ InsertTask(e.id, e.task)
  <2>1. e.id \in TaskId /\ e.task \in Task
    BY <1>2 DEF Event
  <2> QED BY <1>2, <2>1, PutAndSyncKeepsInv DEF InsertTask
<1>3. CASE e.type = "RemoveTask" /\ RemoveTask(e.id)
  <2>1. CASE e.id \in Present
    BY <1>3, <2>1, RemoveTaskKeepsInv
  <2>2. CASE e.id \notin Present
    BY <1>3, <2>2 DEF RemoveTask, treeVars, WorkflowInv, WorkflowTypeOK, SameTasks,
                      TransitionsAreEdges, Lists
  <2> QED BY <2>1, <2>2
<1>4. CASE e.type = "UpdateTask" /\ UpdateTask(e.id, e.task)
  <2>1. e.id \in TaskId /\ e.task \in Task
    BY <1>4 DEF Event
  <2>2. e.id \in Present
    BY <1>4 DEF Apply, Refused
  <2> QED BY <1>4, <2>1, <2>2, PutAndSyncKeepsInv DEF UpdateTask
<1>5. CASE e.type = "AddEdge" /\ AddEdge(e.id, e.target)
  <2>1. e.id \in Present /\ e.id \in TaskId /\ e.target \in TaskId
    BY <1>5 DEF Apply, Refused, Event
  <2>2. tasks[e.id] \in Task
    BY <2>1 DEF Present, WorkflowInv, WorkflowTypeOK
  <2>3. [tasks[e.id] EXCEPT !.outgoing = @ \cup {e.target}] \in Task
    BY <2>1, <2>2 DEF Task
  <2> QED BY <1>5, <2>1, <2>3, PutAndSyncKeepsInv DEF AddEdge
<1>6. CASE e.type = "RemoveEdge" /\ RemoveEdge(e.id, e.target)
  <2>1. e.id \in Present /\ e.id \in TaskId /\ e.target \in TaskId
    BY <1>6 DEF Apply, Refused, Event
  <2>2. tasks[e.id] \in Task
    BY <2>1 DEF Present, WorkflowInv, WorkflowTypeOK
  <2>3. [tasks[e.id] EXCEPT !.outgoing = @ \ {e.target}] \in Task
    BY <2>1, <2>2 DEF Task
  <2> QED BY <1>6, <2>1, <2>3, PutAndSyncKeepsInv DEF RemoveEdge
<1> QED BY <1>1, <1>2, <1>3, <1>4, <1>5, <1>6 DEF Apply

(* A step that touches neither structure keeps them in step.               *)
LEMMA StutterKeepsWorkflowInv == WorkflowInv /\ UNCHANGED treeVars => WorkflowInv'
BY DEF treeVars, WorkflowInv, WorkflowTypeOK, SameTasks, TransitionsAreEdges, Lists

(* Hence every behaviour keeps them in step.                               *)
LEMMA SpecWorkflowInv == WorkflowSpec => []WorkflowInv
<1>1. WorkflowInv /\ [WorkflowNext]_treeVars => WorkflowInv'
  BY ApplyKeepsWorkflowInv, StutterKeepsWorkflowInv, WorkflowAssumption DEF WorkflowNext
<1> QED BY <1>1, InitWorkflowInv, PTL DEF WorkflowSpec

-----------------------------------------------------------------------------
(* Every sequence of events leaves the structures well typed.              *)
THEOREM WorkflowTyping == WorkflowSpec => []WorkflowTypeOK
BY SpecWorkflowInv, PTL DEF WorkflowInv

(* The state machine has a node for each task of the tree and for no other *)
(* one, and the scan order lists each task once.                           *)
THEOREM TreeAndMachineHaveSameTasks == WorkflowSpec => []SameTasks
BY SpecWorkflowInv, PTL DEF WorkflowInv

(* A transition of the state machine is always an edge of the tree.        *)
THEOREM TransitionsComeFromEdges == WorkflowSpec => []TransitionsAreEdges
BY SpecWorkflowInv, PTL DEF WorkflowInv

(* What puts a node out of step with its task, named for the proof below.  *)
InStep(t) == tasks[t] # NoTask /\ nodes[t] = FromTask(tasks[t], actions)

LostTarget(t) == \E u \in tasks[t].outgoing : tasks[u] # NoTask /\ tasks'[u] = NoTask

LostAction(t) ==
  tasks[t].action # NoAction /\ actions'[tasks[t].action] # actions[tasks[t].action]

(* A task that is replaced is in step; the others are as they were.        *)
LEMMA SyncLeavesInStep ==
  ASSUME WorkflowInv, NEW t \in TaskId, InStep(t),
         NEW u \in TaskId, NEW task \in Task, PutAndSync(u, task)
  PROVE  InStep(t)'
<1>1. actions' = actions
  BY DEF PutAndSync
<1>2. tasks' = [tasks EXCEPT ![u] = task] /\ nodes' = [nodes EXCEPT ![u] = FromTask(task, actions)]
  BY DEF PutAndSync
<1>3. DOMAIN tasks = TaskId /\ DOMAIN nodes = TaskId
  BY DEF WorkflowInv, WorkflowTypeOK
<1>4. CASE t = u
  BY <1>1, <1>2, <1>3, <1>4, WorkflowAssumption DEF InStep
<1>5. CASE t # u
  BY <1>1, <1>2, <1>3, <1>5 DEF InStep
<1> QED BY <1>4, <1>5

(* Removing a task spares the nodes with no transition to it.              *)
LEMMA RemoveLosesTarget ==
  ASSUME WorkflowInv, NEW t \in TaskId, InStep(t), tasks'[t] # NoTask,
         NEW u \in TaskId, RemoveTask(u)
  PROVE  InStep(t)' \/ LostTarget(t)
<1>1. CASE u \notin Present
  BY <1>1 DEF RemoveTask, treeVars, InStep
<1>2. CASE u \in Present
  <2>1. /\ tasks' = [tasks EXCEPT ![u] = NoTask] /\ actions' = actions
        /\ tasks \in [TaskId -> Task \cup {NoTask}]
        /\ actions \in [ActionId -> Def \cup {NoDef}]
    BY <1>2 DEF RemoveTask, WorkflowInv, WorkflowTypeOK
  <2>2. t # u /\ tasks'[t] = tasks[t] /\ tasks[t] \in Task
    BY <2>1 DEF InStep
  <2>3. CASE u \in tasks[t].outgoing
    BY <1>2, <2>1, <2>3 DEF LostTarget, Present
  <2>4. CASE u \notin tasks[t].outgoing
    <3>1. nodes[t] = FromTask(tasks[t], actions) /\ nodes[t] \in Node /\ nodes[t] # NoNode
          /\ nodes[t].transitions = tasks[t].outgoing
      BY <2>1, <2>2, FromTaskIsNode DEF InStep
    <3>2. nodes'[t] = [nodes[t] EXCEPT !.transitions = @ \ {u}]
      BY <1>2, <2>2, <3>1 DEF RemoveTask
    <3>3. nodes[t].transitions \ {u} = nodes[t].transitions
      BY <2>4, <3>1
    <3>4. nodes'[t] = nodes[t]
      BY <3>1, <3>2, <3>3 DEF Node
    <3> QED BY <2>1, <2>2, <3>1, <3>4 DEF InStep
  <2> QED BY <2>3, <2>4
<1> QED BY <1>1, <1>2

(* Registering an action spares the nodes that do not run it.              *)
LEMMA RegisterLosesAction ==
  ASSUME WorkflowInv, NEW t \in TaskId, InStep(t),
         NEW a \in ActionId, NEW d \in Def, RegisterAction(a, d)
  PROVE  InStep(t)' \/ LostAction(t)
<1>1. tasks' = tasks /\ nodes' = nodes
  BY DEF RegisterAction
<1>2. CASE tasks[t].action = NoAction
  BY <1>1, <1>2 DEF InStep, FromTask
<1>3. CASE tasks[t].action # NoAction /\ actions'[tasks[t].action] = actions[tasks[t].action]
  BY <1>1, <1>3 DEF InStep, FromTask
<1> QED BY <1>2, <1>3 DEF LostAction

(* A node falls out of step only when a task it leads to is removed or its *)
(* action is registered anew.                                              *)
THEOREM OnlyTwoEventsLoseTheMatch == WorkflowSpec => MatchLostOnlySo
<1> DEFINE Lost == \A t \in TaskId :
             InStep(t) /\ tasks'[t] # NoTask /\ ~InStep(t)' => LostTarget(t) \/ LostAction(t)
<1>1. ASSUME WorkflowInv, NEW e \in EventInput, Apply(e), NEW t \in TaskId,
             InStep(t), tasks'[t] # NoTask
      PROVE  InStep(t)' \/ LostTarget(t) \/ LostAction(t)
  <2>0. e \in Event
    BY WorkflowAssumption
  <2>1. CASE e.type = "RegisterAction" /\ RegisterAction(e.id, e.def)
    BY <1>1, <2>0, <2>1, RegisterLosesAction DEF Event
  <2>2. CASE e.type = "InsertTask" /\ InsertTask(e.id, e.task)
    <3>1. e.id \in TaskId /\ e.task \in Task
      BY <2>0, <2>2 DEF Event
    <3> QED BY <1>1, <2>2, <3>1, SyncLeavesInStep DEF InsertTask
  <2>3. CASE e.type = "RemoveTask" /\ RemoveTask(e.id)
    BY <1>1, <2>0, <2>3, RemoveLosesTarget DEF Event
  <2>4. CASE e.type = "UpdateTask" /\ UpdateTask(e.id, e.task)
    <3>1. e.id \in TaskId /\ e.task \in Task
      BY <2>0, <2>4 DEF Event
    <3> QED BY <1>1, <2>4, <3>1, SyncLeavesInStep DEF UpdateTask
  <2>5. CASE e.type = "AddEdge" /\ AddEdge(e.id, e.target)
    <3>1. e.id \in Present /\ e.id \in TaskId /\ e.target \in TaskId
      BY <1>1, <2>0, <2>5 DEF Apply, Refused, Event
    <3>2. tasks[e.id] \in Task
      BY <1>1, <3>1 DEF Present, WorkflowInv, WorkflowTypeOK
    <3>3. [tasks[e.id] EXCEPT !.outgoing = @ \cup {e.target}] \in Task
      BY <3>1, <3>2 DEF Task
    <3> QED BY <1>1, <2>5, <3>1, <3>3, SyncLeavesInStep DEF AddEdge
  <2>6. CASE e.type = "RemoveEdge" /\ RemoveEdge(e.id, e.target)
    <3>1. e.id \in Present /\ e.id \in TaskId /\ e.target \in TaskId
      BY <1>1, <2>0, <2>6 DEF Apply, Refused, Event
    <3>2. tasks[e.id] \in Task
      BY <1>1, <3>1 DEF Present, WorkflowInv, WorkflowTypeOK
    <3>3. [tasks[e.id] EXCEPT !.outgoing = @ \ {e.target}] \in Task
      BY <3>1, <3>2 DEF Task
    <3> QED BY <1>1, <2>6, <3>1, <3>3, SyncLeavesInStep DEF RemoveEdge
  <2> QED BY <1>1, <2>1, <2>2, <2>3, <2>4, <2>5, <2>6 DEF Apply
<1>2. WorkflowInv /\ [WorkflowNext]_treeVars => [Lost]_treeVars
  BY <1>1 DEF WorkflowNext
<1>3. [Lost]_treeVars => [\A t \in TaskId :
       /\ tasks[t] # NoTask /\ nodes[t] = FromTask(tasks[t], actions)
       /\ tasks'[t] # NoTask /\ nodes'[t] # FromTask(tasks'[t], actions')
       => \/ \E u \in tasks[t].outgoing : tasks[u] # NoTask /\ tasks'[u] = NoTask
          \/ tasks[t].action # NoAction
               /\ actions'[tasks[t].action] # actions[tasks[t].action]]_treeVars
  BY DEF InStep, LostTarget, LostAction
<1> HIDE DEF Lost
<1> QED BY <1>2, <1>3, SpecWorkflowInv, PTL DEF WorkflowSpec, MatchLostOnlySo

-----------------------------------------------------------------------------
(* The executor loop. *)
ExecInv ==
  /\ TypeOK
  /\ WorkflowInv
  /\ ScanBookkeeping
  /\ RunsInScanOrder
  /\ outcome = "finished" => QueuesEmpty

USE DEF EVENT_PRIORITY, ACTION_PRIORITY, Lane

(* What a scan returns: the new action tasks of the tree, each once.       *)
LEMMA ScanFacts ==
  ASSUME NEW tree, NEW ord, NEW known, NEW new \in Scans(tree, ord, known)
  PROVE  /\ new \in Seq(TaskId)
         /\ \A i \in 1 .. Len(new) : new[i] \in NewActionTasks(tree, known)
         /\ \A t \in NewActionTasks(tree, known) : \E i \in 1 .. Len(new) : new[i] = t
         /\ \A i, j \in 1 .. Len(new) : new[i] = new[j] => i = j
<1> DEFINE found == NewActionTasks(tree, known)
<1>1. found \subseteq TaskId
  BY DEF NewActionTasks
<1>2. Cardinality(found) \in Nat
  BY <1>1, ExecutorAssumption, FS_Subset, FS_CardinalityType
<1>3. /\ new \in [1 .. Cardinality(found) -> found]
      /\ \A t \in found : \E i \in DOMAIN new : new[i] = t
      /\ \A i, j \in DOMAIN new : i < j => new[i] # new[j]
  BY DEF Scans
<1> HIDE DEF found
<1>4. new \in Seq(TaskId) /\ Len(new) = Cardinality(found)
  BY <1>1, <1>2, <1>3
<1>5. ASSUME NEW i \in 1 .. Len(new), NEW j \in 1 .. Len(new), new[i] = new[j]
      PROVE  i = j
  <2>1. ~(i < j) /\ ~(j < i)
    BY <1>2, <1>3, <1>4, <1>5
  <2> QED BY <2>1
<1> QED BY <1>3, <1>4, <1>5 DEF found

(* The elements of a concatenation.                                        *)
LEMMA ConcatFacts ==
  ASSUME NEW S, NEW a \in Seq(S), NEW b \in Seq(S)
  PROVE  /\ a \o b \in Seq(S)
         /\ Len(a \o b) = Len(a) + Len(b)
         /\ \A i \in 1 .. Len(a) + Len(b) :
              (a \o b)[i] = IF i <= Len(a) THEN a[i] ELSE b[i - Len(a)]
OBVIOUS

(* A sequence over a set is one over any larger set.                       *)
LEMMA SeqOfLarger ==
  ASSUME NEW S, NEW T, S \subseteq T, NEW s \in Seq(S)
  PROVE  s \in Seq(T)
OBVIOUS

(* Action tasks are queued one for each task id, in order.                 *)
LEMMA ActionTasksFacts ==
  ASSUME NEW new \in Seq(TaskId)
  PROVE  /\ ActionTasks(new) \in Seq(ActionWork)
         /\ Len(ActionTasks(new)) = Len(new)
         /\ \A i \in 1 .. Len(new) : ActionTasks(new)[i] = [kind |-> "action", id |-> new[i]]
<1>1. \A i \in 1 .. Len(new) : [kind |-> "action", id |-> new[i]] \in ActionWork
  BY DEF ActionWork
<1>2. ActionTasks(new) = [i \in 1 .. Len(new) |-> [kind |-> "action", id |-> new[i]]]
  BY DEF ActionTasks
<1> QED BY <1>1, <1>2

(* Appending what a scan found to the scan order and to the lane keeps the *)
(* lane the rest of the scan order.                                        *)
LEMMA LaneFollowsScan ==
  ASSUME NEW s \in Seq(TaskId), NEW lane \in Seq(ActionWork), NEW new \in Seq(TaskId),
         IsRestOf(lane, s)
  PROVE  IsRestOf(lane \o ActionTasks(new), s \o new)
<1> DEFINE more == ActionTasks(new)
           after == lane \o more
           all == s \o new
           d == Len(s) - Len(lane)
<1>1. /\ more \in Seq(ActionWork) /\ Len(more) = Len(new)
      /\ \A i \in 1 .. Len(new) : more[i] = [kind |-> "action", id |-> new[i]]
  BY ActionTasksFacts
<1> HIDE DEF more
<1>0. more \in Seq(ActionWork)
  BY <1>1
<1>2. /\ Len(after) = Len(lane) + Len(new)
      /\ \A i \in 1 .. Len(lane) + Len(new) :
           after[i] = IF i <= Len(lane) THEN lane[i] ELSE more[i - Len(lane)]
  <2>1. Len(more) = Len(new)
    BY <1>1
  <2>2. /\ Len(after) = Len(lane) + Len(more)
        /\ \A i \in 1 .. Len(lane) + Len(more) :
             after[i] = IF i <= Len(lane) THEN lane[i] ELSE more[i - Len(lane)]
    BY <1>0, ConcatFacts
  <2> QED BY <2>1, <2>2
<1>3. /\ Len(all) = Len(s) + Len(new)
      /\ \A i \in 1 .. Len(s) + Len(new) :
           all[i] = IF i <= Len(s) THEN s[i] ELSE new[i - Len(s)]
  BY ConcatFacts
<1>4. /\ Len(s) \in Nat /\ Len(lane) \in Nat /\ Len(new) \in Nat /\ d \in Nat
      /\ \A i \in 1 .. Len(lane) : lane[i] = [kind |-> "action", id |-> s[d + i]]
  BY DEF IsRestOf
<1> HIDE DEF after, all
<1>5. ASSUME NEW i \in 1 .. Len(lane) + Len(new)
      PROVE  after[i] = [kind |-> "action", id |-> all[d + i]]
  <2>1. CASE i <= Len(lane)
    <3>1. i \in 1 .. Len(lane) /\ d + i \in 1 .. Len(s)
      BY <1>4, <2>1
    <3>2. after[i] = lane[i] /\ all[d + i] = s[d + i]
      BY <1>2, <1>3, <1>4, <3>1
    <3> QED BY <1>4, <3>1, <3>2
  <2>2. CASE ~(i <= Len(lane))
    <3>1. i - Len(lane) \in 1 .. Len(new)
      BY <1>4, <2>2
    <3>2. d + i \in 1 .. Len(s) + Len(new) /\ ~(d + i <= Len(s))
          /\ (d + i) - Len(s) = i - Len(lane)
      BY <1>4, <2>2
    <3>3. all[d + i] = new[i - Len(lane)]
      BY <1>3, <3>2
    <3>4. after[i] = more[i - Len(lane)]
      BY <1>2, <2>2
    <3> QED BY <1>1, <3>1, <3>3, <3>4
  <2> QED BY <2>1, <2>2
<1>6. Len(after) <= Len(all) /\ Len(all) - Len(after) = d
  BY <1>1, <1>2, <1>3, <1>4
<1>7. IsRestOf(after, all)
  BY <1>2, <1>5, <1>6 DEF IsRestOf
<1> QED BY <1>7 DEF after, all, more

(* Popping the head of the lane leaves the rest of the scan order too.     *)
LEMMA TailIsRest ==
  ASSUME NEW s \in Seq(TaskId), NEW lane \in Seq(ActionWork), lane # <<>>, IsRestOf(lane, s)
  PROVE  /\ IsRestOf(Tail(lane), s)
         /\ Tail(lane) \in Seq(ActionWork)
         /\ Len(Tail(lane)) = Len(lane) - 1
         /\ Len(s) - Len(lane) + 1 \in 1 .. Len(s)
         /\ Head(lane).id = s[Len(s) - Len(lane) + 1]
<1>1. /\ Tail(lane) \in Seq(ActionWork) /\ Len(Tail(lane)) = Len(lane) - 1
      /\ \A i \in 1 .. Len(lane) - 1 : Tail(lane)[i] = lane[i + 1]
  OBVIOUS
<1>2. Len(lane) \in Nat \ {0} /\ Len(s) \in Nat /\ Head(lane) = lane[1]
  OBVIOUS
<1>3. /\ Len(lane) <= Len(s)
      /\ \A i \in 1 .. Len(lane) :
           lane[i] = [kind |-> "action", id |-> s[Len(s) - Len(lane) + i]]
  BY DEF IsRestOf
<1>4. ASSUME NEW i \in 1 .. Len(lane) - 1
      PROVE  Tail(lane)[i] = [kind |-> "action", id |-> s[Len(s) - (Len(lane) - 1) + i]]
  <2>1. i + 1 \in 1 .. Len(lane)
        /\ Len(s) - Len(lane) + (i + 1) = Len(s) - (Len(lane) - 1) + i
    BY <1>2
  <2> QED BY <1>1, <1>3, <2>1
<1>5. IsRestOf(Tail(lane), s)
  BY <1>1, <1>2, <1>3, <1>4 DEF IsRestOf
<1>6. Head(lane) = [kind |-> "action", id |-> s[Len(s) - Len(lane) + 1]]
  <2>1. 1 \in 1 .. Len(lane)
    BY <1>2
  <2> QED BY <1>2, <1>3, <2>1
<1>7. Head(lane).id = s[Len(s) - Len(lane) + 1]
  BY <1>6
<1>8. Len(s) - Len(lane) + 1 \in 1 .. Len(s)
  BY <1>2, <1>3
<1> QED BY <1>1, <1>5, <1>7, <1>8

(* Events are queued one for each event, in order.                         *)
LEMMA EventTasksFacts ==
  ASSUME NEW es \in Seq(Event)
  PROVE  EventTasks(es) \in Seq(EventWork)
<1>1. \A i \in 1 .. Len(es) : [kind |-> "event", event |-> es[i]] \in EventWork
  BY DEF EventWork
<1>2. EventTasks(es) = [i \in 1 .. Len(es) |-> [kind |-> "event", event |-> es[i]]]
  BY DEF EventTasks
<1> QED BY <1>1, <1>2

(* What is emitted is a sequence of events.                                *)
LEMMA EmissionIsSeq ==
  ASSUME NEW es \in Emission
  PROVE  es \in Seq(Event)
<1>1. PICK n \in 0 .. MaxEmit : es \in [1 .. n -> EventInput]
  BY DEF Emission
<1> QED BY <1>1, ExecutorAssumption, WorkflowAssumption

(* What the executor knows of the task it dispatches: its lane, and that   *)
(* an action is only taken from the action lane, with no event waiting.    *)
LEMMA DispatchLane ==
  ASSUME TypeOK, NEW p \in Lane, NEW kind, Dispatch(p, kind)
  PROVE  /\ outcome = "running" /\ lanes[p] # <<>>
         /\ kind = "action" => p = ACTION_PRIORITY /\ lanes[EVENT_PRIORITY] = <<>>
         /\ kind = "event" => p = EVENT_PRIORITY /\ Head(lanes[p]).event \in Event
<1>1. outcome = "running" /\ lanes[p] # <<>> /\ Head(lanes[p]).kind = kind
      /\ \A q \in Lane : lanes[q] # <<>> => p <= q
  BY DEF Dispatch, Looping, PopsFrom
<1>2. CASE p = EVENT_PRIORITY
  <2>1. lanes[p] \in Seq(EventWork)
    BY <1>2 DEF TypeOK
  <2>2. Head(lanes[p]) \in EventWork
    BY <1>1, <2>1
  <2> QED BY <1>1, <1>2, <2>2 DEF EventWork
<1>3. CASE p = ACTION_PRIORITY
  <2>1. lanes[p] \in Seq(ActionWork)
    BY <1>3 DEF TypeOK
  <2>2. Head(lanes[p]) \in ActionWork
    BY <1>1, <2>1
  <2>3. lanes[EVENT_PRIORITY] = <<>>
    BY <1>1, <1>3
  <2> QED BY <1>1, <1>3, <2>2, <2>3 DEF ActionWork
<1> QED BY <1>2, <1>3

(* What is left of the action lane when the head of lane p is popped.      *)
Rest(p) == IF p = ACTION_PRIORITY THEN Tail(lanes[ACTION_PRIORITY]) ELSE lanes[ACTION_PRIORITY]

(* A scan after a pop: the lanes stay typed and the action lane is again   *)
(* the rest of the scan order, which only grew.                            *)
LEMMA ScanStep ==
  ASSUME TypeOK, ScanBookkeeping, NEW p \in Lane, lanes[p] # <<>>,
         NEW es \in Seq(Event), NEW tree, NEW ord,
         PopPushScan(p, es, tree, ord)
  PROVE  /\ lanes' \in [Lane -> Seq(ActionWork \cup EventWork)]
         /\ lanes'[EVENT_PRIORITY] \in Seq(EventWork)
         /\ lanes'[ACTION_PRIORITY] \in Seq(ActionWork)
         /\ seen' \in Seq(TaskId)
         /\ IsRestOf(lanes'[ACTION_PRIORITY], seen')
         /\ \A i, j \in 1 .. Len(seen') : seen'[i] = seen'[j] => i = j
         /\ \A t \in NewActionTasks(tree, {}) : \E i \in 1 .. Len(seen') : seen'[i] = t
         /\ Len(seen) <= Len(seen')
         /\ \A i \in 1 .. Len(seen) : seen'[i] = seen[i]
         /\ Len(seen') - Len(lanes'[ACTION_PRIORITY]) = Len(seen) - Len(Rest(p))
         /\ \A i \in 1 .. Len(seen') : i > Len(seen) => seen'[i] \in NewActionTasks(tree, SeenTasks)
<1> DEFINE A == lanes[ACTION_PRIORITY]
           E == lanes[EVENT_PRIORITY]
<1>1. /\ lanes \in [Lane -> Seq(ActionWork \cup EventWork)]
      /\ E \in Seq(EventWork) /\ A \in Seq(ActionWork) /\ seen \in Seq(TaskId)
      /\ IsRestOf(A, seen)
      /\ \A i, j \in 1 .. Len(seen) : seen[i] = seen[j] => i = j
  BY DEF TypeOK, ScanBookkeeping
<1>2. PICK new \in Scans(tree, ord, SeenTasks) :
        /\ seen' = seen \o new
        /\ lanes' = [lanes EXCEPT ![p] = Tail(@),
                                  ![EVENT_PRIORITY] = @ \o EventTasks(es),
                                  ![ACTION_PRIORITY] = @ \o ActionTasks(new)]
  BY DEF PopPushScan
<1>3. /\ new \in Seq(TaskId)
      /\ \A i \in 1 .. Len(new) : new[i] \in NewActionTasks(tree, SeenTasks)
      /\ \A t \in NewActionTasks(tree, SeenTasks) : \E i \in 1 .. Len(new) : new[i] = t
      /\ \A i, j \in 1 .. Len(new) : new[i] = new[j] => i = j
  BY ScanFacts
<1>4. /\ EventTasks(es) \in Seq(EventWork)
      /\ ActionTasks(new) \in Seq(ActionWork) /\ Len(ActionTasks(new)) = Len(new)
  BY <1>3, EventTasksFacts, ActionTasksFacts
<1>5. Rest(p) \in Seq(ActionWork) /\ IsRestOf(Rest(p), seen)
  <2>1. CASE p = ACTION_PRIORITY
    BY <1>1, <2>1, TailIsRest DEF Rest
  <2>2. CASE p # ACTION_PRIORITY
    BY <1>1, <2>2 DEF Rest
  <2> QED BY <2>1, <2>2
<1>6. lanes'[ACTION_PRIORITY] = Rest(p) \o ActionTasks(new)
      /\ DOMAIN lanes' = Lane /\ lanes' = [q \in Lane |-> lanes'[q]]
  BY <1>1, <1>2 DEF Rest
<1>7. lanes'[EVENT_PRIORITY] = (IF p = EVENT_PRIORITY THEN Tail(E) ELSE E) \o EventTasks(es)
  BY <1>1, <1>2
<1>8. lanes'[EVENT_PRIORITY] \in Seq(EventWork) /\ lanes'[ACTION_PRIORITY] \in Seq(ActionWork)
  <2>1. (IF p = EVENT_PRIORITY THEN Tail(E) ELSE E) \in Seq(EventWork)
    BY <1>1
  <2>2. lanes'[EVENT_PRIORITY] \in Seq(EventWork)
    BY <1>4, <1>7, <2>1
  <2>3. lanes'[ACTION_PRIORITY] \in Seq(ActionWork)
    BY <1>4, <1>5, <1>6
  <2> QED BY <2>2, <2>3
<1>9. lanes' \in [Lane -> Seq(ActionWork \cup EventWork)]
  <2>1. /\ lanes'[EVENT_PRIORITY] \in Seq(ActionWork \cup EventWork)
        /\ lanes'[ACTION_PRIORITY] \in Seq(ActionWork \cup EventWork)
    BY <1>8, SeqOfLarger
  <2> QED BY <1>6, <2>1
<1>10. /\ seen' \in Seq(TaskId) /\ Len(seen') = Len(seen) + Len(new)
       /\ \A i \in 1 .. Len(seen) + Len(new) :
            seen'[i] = IF i <= Len(seen) THEN seen[i] ELSE new[i - Len(seen)]
       /\ Len(seen) \in Nat /\ Len(new) \in Nat
  BY <1>1, <1>2, <1>3, ConcatFacts
<1>11. IsRestOf(lanes'[ACTION_PRIORITY], seen')
  BY <1>1, <1>2, <1>3, <1>5, <1>6, LaneFollowsScan
<1>12. ASSUME NEW i \in 1 .. Len(seen'), NEW j \in 1 .. Len(seen'), seen'[i] = seen'[j]
       PROVE  i = j
  <2>1. \A k \in 1 .. Len(new) : \A l \in 1 .. Len(seen) : new[k] # seen[l]
    BY <1>1, <1>3 DEF NewActionTasks, SeenTasks
  <2>2. CASE i <= Len(seen) /\ j <= Len(seen)
    BY <1>1, <1>10, <1>12, <2>2
  <2>3. CASE i > Len(seen) /\ j > Len(seen)
    <3>1. i - Len(seen) \in 1 .. Len(new) /\ j - Len(seen) \in 1 .. Len(new)
      BY <1>10, <2>3
    <3>2. new[i - Len(seen)] = new[j - Len(seen)]
      BY <1>10, <1>12, <2>3
    <3>3. i - Len(seen) = j - Len(seen)
      BY <1>3, <3>1, <3>2
    <3> QED BY <1>10, <3>3
  <2>4. CASE i <= Len(seen) /\ j > Len(seen)
    BY <1>10, <1>12, <2>1, <2>4
  <2>5. CASE i > Len(seen) /\ j <= Len(seen)
    BY <1>10, <1>12, <2>1, <2>5
  <2> QED BY <1>10, <2>2, <2>3, <2>4, <2>5
<1>13. ASSUME NEW t \in NewActionTasks(tree, {})
       PROVE  \E i \in 1 .. Len(seen') : seen'[i] = t
  <2>1. CASE t \in SeenTasks
    <3>1. PICK i \in 1 .. Len(seen) : seen[i] = t
      BY <1>1, <2>1 DEF SeenTasks
    <3> QED BY <1>10, <3>1
  <2>2. CASE t \notin SeenTasks
    <3>1. PICK i \in 1 .. Len(new) : new[i] = t
      BY <1>3, <2>2 DEF NewActionTasks
    <3>2. Len(seen) + i \in 1 .. Len(seen') /\ ~(Len(seen) + i <= Len(seen))
          /\ (Len(seen) + i) - Len(seen) = i
      BY <1>10
    <3>3. seen'[Len(seen) + i] = new[i]
      BY <1>10, <3>2
    <3> QED BY <3>1, <3>2, <3>3
  <2> QED BY <2>1, <2>2
<1>14. Len(seen') - Len(lanes'[ACTION_PRIORITY]) = Len(seen) - Len(Rest(p))
  <2>1. Len(lanes'[ACTION_PRIORITY]) = Len(Rest(p)) + Len(ActionTasks(new))
    BY <1>4, <1>5, <1>6, ConcatFacts
  <2>2. Len(Rest(p)) \in Nat
    BY <1>5
  <2> QED BY <1>4, <1>10, <2>1, <2>2
<1>15. \A i \in 1 .. Len(seen') : i > Len(seen) => seen'[i] \in NewActionTasks(tree, SeenTasks)
  <2>1. ASSUME NEW i \in 1 .. Len(seen'), i > Len(seen)
        PROVE  seen'[i] \in NewActionTasks(tree, SeenTasks)
    <3>1. i - Len(seen) \in 1 .. Len(new) /\ seen'[i] = new[i - Len(seen)]
      BY <1>10, <2>1
    <3> QED BY <1>3, <3>1
  <2> QED BY <2>1
<1>16. Len(seen) <= Len(seen') /\ \A i \in 1 .. Len(seen) : seen'[i] = seen[i]
  BY <1>10
<1> QED BY <1>8, <1>9, <1>10, <1>11, <1>12, <1>13, <1>14, <1>15, <1>16

(* A pop without a scan.                                                   *)
LEMMA PopStep ==
  ASSUME TypeOK, ScanBookkeeping, NEW p \in Lane, lanes[p] # <<>>,
         lanes' = [lanes EXCEPT ![p] = Tail(@)], seen' = seen
  PROVE  /\ lanes' \in [Lane -> Seq(ActionWork \cup EventWork)]
         /\ lanes'[EVENT_PRIORITY] \in Seq(EventWork)
         /\ lanes'[ACTION_PRIORITY] \in Seq(ActionWork)
         /\ IsRestOf(lanes'[ACTION_PRIORITY], seen')
         /\ lanes'[ACTION_PRIORITY] = Rest(p)
<1>1. /\ lanes \in [Lane -> Seq(ActionWork \cup EventWork)]
      /\ lanes[EVENT_PRIORITY] \in Seq(EventWork) /\ lanes[ACTION_PRIORITY] \in Seq(ActionWork)
      /\ seen \in Seq(TaskId) /\ IsRestOf(lanes[ACTION_PRIORITY], seen)
  BY DEF TypeOK, ScanBookkeeping
<1>2. Tail(lanes[p]) \in Seq(ActionWork \cup EventWork)
  BY <1>1
<1>3. lanes' \in [Lane -> Seq(ActionWork \cup EventWork)]
  BY <1>1, <1>2
<1>4. CASE p = EVENT_PRIORITY
  BY <1>1, <1>3, <1>4 DEF Rest
<1>5. CASE p = ACTION_PRIORITY
  <2>1. lanes'[ACTION_PRIORITY] = Tail(lanes[ACTION_PRIORITY])
        /\ lanes'[EVENT_PRIORITY] = lanes[EVENT_PRIORITY]
    BY <1>1, <1>5
  <2> QED BY <1>1, <1>3, <1>5, <2>1, TailIsRest DEF Rest
<1> QED BY <1>4, <1>5

(* One more index gives one more element.                                  *)
LEMMA ImageGrows ==
  ASSUME NEW f, NEW d \in Nat
  PROVE  {f[i] : i \in 1 .. d + 1} = {f[i] : i \in 1 .. d} \cup {f[d + 1]}
<1>1. \A i \in 1 .. d : i \in 1 .. d + 1
  OBVIOUS
<1>2. \A i \in 1 .. d + 1 : i \in 1 .. d \/ i = d + 1
  OBVIOUS
<1>3. d + 1 \in 1 .. d + 1
  OBVIOUS
<1> QED BY <1>1, <1>2, <1>3, Zenon

(* Appending adds one element.                                             *)
LEMMA AppendRange ==
  ASSUME NEW S, NEW s \in Seq(S), NEW x \in S
  PROVE  {Append(s, x)[i] : i \in DOMAIN Append(s, x)} = {s[i] : i \in DOMAIN s} \cup {x}
<1> DEFINE r == Append(s, x)
<1>1. /\ DOMAIN s = 1 .. Len(s) /\ DOMAIN r = 1 .. Len(s) + 1 /\ Len(s) \in Nat
      /\ r[Len(s) + 1] = x
      /\ \A i \in 1 .. Len(s) : r[i] = s[i]
  OBVIOUS
<1> HIDE DEF r
<1>2. {r[i] : i \in 1 .. Len(s) + 1} = {r[i] : i \in 1 .. Len(s)} \cup {r[Len(s) + 1]}
  BY <1>1, ImageGrows
<1>3. {r[i] : i \in 1 .. Len(s)} = {s[i] : i \in 1 .. Len(s)}
  BY <1>1
<1> QED BY <1>1, <1>2, <1>3 DEF r

(* What has left the action lane after a step that popped lane p.          *)
LEMMA TakenAfterPop ==
  ASSUME TypeOK, ScanBookkeeping, NEW p \in Lane, lanes[p] # <<>>,
         Len(seen) <= Len(seen'), Len(seen') \in Nat,
         \A i \in 1 .. Len(seen) : seen'[i] = seen[i],
         Len(seen') - Len(lanes'[ACTION_PRIORITY]) = Len(seen) - Len(Rest(p))
  PROVE  TakenTasks' = IF p = ACTION_PRIORITY THEN TakenTasks \cup {Head(lanes[p]).id}
                       ELSE TakenTasks
<1> DEFINE A == lanes[ACTION_PRIORITY]
           d == Len(seen) - Len(A)
<1>1. /\ A \in Seq(ActionWork) /\ seen \in Seq(TaskId) /\ IsRestOf(A, seen)
      /\ d \in Nat /\ d <= Len(seen) /\ Len(seen) \in Nat
      /\ d = Len(seen) - Len(A) /\ Len(A) \in Nat
  BY DEF TypeOK, ScanBookkeeping, IsRestOf
<1>2. Taken = 1 .. d
  BY DEF Taken
<1> HIDE DEF d
<1>3. CASE p = ACTION_PRIORITY
  <2>1. /\ Len(Rest(p)) = Len(A) - 1 /\ d + 1 \in 1 .. Len(seen)
        /\ Head(A).id = seen[d + 1]
    BY <1>1, <1>3, TailIsRest DEF Rest, d
  <2>2. Taken' = 1 .. d + 1
    <3>1. Len(seen') - Len(lanes'[ACTION_PRIORITY]) = Len(seen) - (Len(A) - 1)
      BY <2>1
    <3>2. Len(seen) - (Len(A) - 1) = d + 1
      BY <1>1
    <3> QED BY <3>1, <3>2 DEF Taken
  <2>3. \A i \in 1 .. d + 1 : seen'[i] = seen[i]
    BY <1>1, <2>1
  <2>4. TakenTasks' = {seen[i] : i \in 1 .. d + 1}
    BY <2>2, <2>3 DEF TakenTasks
  <2>5. TakenTasks = {seen[i] : i \in 1 .. d}
    BY <1>2 DEF TakenTasks
  <2>6. d \in Nat
    BY <1>1
  <2>7. {seen[i] : i \in 1 .. d + 1} = {seen[i] : i \in 1 .. d} \cup {seen[d + 1]}
    BY <2>6, ImageGrows
  <2> QED BY <1>3, <2>1, <2>4, <2>5, <2>7
<1>4. CASE p # ACTION_PRIORITY
  <2>1. Taken' = 1 .. d
    BY <1>1, <1>4 DEF Taken, Rest
  <2>2. \A i \in 1 .. d : seen'[i] = seen[i]
    BY <1>1
  <2> QED BY <1>2, <1>4, <2>1, <2>2 DEF TakenTasks
<1> QED BY <1>3, <1>4

(* A longer scan order is still the order of the same traces.              *)
LEMMA LongerScanKeepsOrder ==
  ASSUME TypeOK, RunsInScanOrder, traces' = traces, seen' \in Seq(TaskId),
         Len(seen) <= Len(seen'), \A i \in 1 .. Len(seen) : seen'[i] = seen[i]
  PROVE  RunsInScanOrder'
<1>1. DOMAIN seen = 1 .. Len(seen) /\ DOMAIN seen' = 1 .. Len(seen')
      /\ Len(seen) \in Nat /\ Len(seen') \in Nat
  BY DEF TypeOK
<1>2. ASSUME NEW i \in DOMAIN traces, NEW j \in DOMAIN traces, i < j
      PROVE  \E k, l \in DOMAIN seen' : k < l /\ seen'[k] = traces[i] /\ seen'[l] = traces[j]
  <2>1. PICK k, l \in DOMAIN seen : k < l /\ seen[k] = traces[i] /\ seen[l] = traces[j]
    BY <1>2 DEF RunsInScanOrder
  <2>2. k \in DOMAIN seen' /\ l \in DOMAIN seen' /\ seen'[k] = seen[k] /\ seen'[l] = seen[l]
    BY <1>1
  <2> QED BY <2>1, <2>2
<1> QED BY <1>2 DEF RunsInScanOrder

(* The task at the head of the action lane comes after all that were taken.*)
LEMMA HeadComesNext ==
  ASSUME TypeOK, ScanBookkeeping, RunsInScanOrder, lanes[ACTION_PRIORITY] # <<>>,
         traces' = Append(traces, Head(lanes[ACTION_PRIORITY]).id), seen' \in Seq(TaskId),
         Len(seen) <= Len(seen'), \A i \in 1 .. Len(seen) : seen'[i] = seen[i]
  PROVE  RunsInScanOrder'
<1> DEFINE A == lanes[ACTION_PRIORITY]
           d == Len(seen) - Len(A)
<1>1. /\ A \in Seq(ActionWork) /\ seen \in Seq(TaskId) /\ IsRestOf(A, seen)
      /\ d \in Nat /\ d <= Len(seen) /\ Len(seen) \in Nat /\ traces \in Seq(TaskId)
  BY DEF TypeOK, ScanBookkeeping, IsRestOf
<1> HIDE DEF d
<1>2. d + 1 \in 1 .. Len(seen) /\ Head(A).id = seen[d + 1]
  BY <1>1, TailIsRest DEF d
<1>3. /\ DOMAIN traces' = 1 .. Len(traces) + 1 /\ DOMAIN traces = 1 .. Len(traces)
      /\ Len(traces) \in Nat
      /\ \A i \in DOMAIN traces : traces'[i] = traces[i]
      /\ traces'[Len(traces) + 1] = seen[d + 1]
  <2>1. Head(A).id \in TaskId
    BY <1>1, <1>2
  <2>2. traces' = Append(traces, Head(A).id)
    OBVIOUS
  <2> HIDE DEF A
  <2> QED BY <1>1, <1>2, <2>1, <2>2
<1>4. DOMAIN seen = 1 .. Len(seen) /\ DOMAIN seen' = 1 .. Len(seen') /\ Len(seen') \in Nat
  BY <1>1
<1>5. ASSUME NEW i \in DOMAIN traces', NEW j \in DOMAIN traces', i < j
      PROVE  \E k, l \in DOMAIN seen' : k < l /\ seen'[k] = traces'[i] /\ seen'[l] = traces'[j]
  <2>1. i \in DOMAIN traces
    BY <1>3, <1>5
  <2>2. CASE j \in DOMAIN traces
    <3>1. PICK k, l \in DOMAIN seen : k < l /\ seen[k] = traces[i] /\ seen[l] = traces[j]
      BY <1>5, <2>1, <2>2 DEF RunsInScanOrder
    <3>2. k \in DOMAIN seen' /\ l \in DOMAIN seen' /\ seen'[k] = seen[k] /\ seen'[l] = seen[l]
      BY <1>4
    <3> QED BY <1>3, <2>1, <2>2, <3>1, <3>2
  <2>3. CASE j \notin DOMAIN traces
    <3>0. j = Len(traces) + 1
      BY <1>3, <2>3
    <3>1. traces'[j] = seen[d + 1]
      BY <1>3, <3>0
    <3>2. traces[i] \in TakenTasks
      BY <2>1 DEF ScanBookkeeping, Executed
    <3>3. PICK k \in 1 .. d : seen[k] = traces[i]
      BY <3>2 DEF TakenTasks, Taken, d
    <3>4. k \in 1 .. Len(seen) /\ k < d + 1 /\ 1 .. Len(seen) \subseteq DOMAIN seen'
      BY <1>1, <1>4
    <3>5. seen'[k] = seen[k] /\ seen'[d + 1] = seen[d + 1]
      BY <1>2, <3>4
    <3> QED BY <1>2, <1>3, <2>1, <3>1, <3>3, <3>4, <3>5
  <2> QED BY <2>2, <2>3
<1> QED BY <1>5 DEF RunsInScanOrder

-----------------------------------------------------------------------------
(* A new executor has queued every action task of the tree.                *)
LEMMA InitExecInv == Init => ExecInv
<1> SUFFICES ASSUME Init PROVE ExecInv
  OBVIOUS
<1>1. WorkflowInv
  BY InitWorkflowInv DEF Init
<1>2. /\ seen \in Seq(TaskId)
      /\ \A t \in NewActionTasks(tasks, {}) : \E i \in 1 .. Len(seen) : seen[i] = t
      /\ \A i, j \in 1 .. Len(seen) : seen[i] = seen[j] => i = j
  BY ScanFacts DEF Init
<1>3. /\ lanes[ACTION_PRIORITY] = ActionTasks(seen) /\ lanes[EVENT_PRIORITY] = <<>>
      /\ lanes = [p \in Lane |-> lanes[p]]
      /\ traces = <<>> /\ passed_over = {} /\ outcome = "running"
      /\ idle_spins = 0 /\ shutdown = FALSE
  BY DEF Init
<1>4. /\ ActionTasks(seen) \in Seq(ActionWork) /\ Len(ActionTasks(seen)) = Len(seen)
      /\ \A i \in 1 .. Len(seen) : ActionTasks(seen)[i] = [kind |-> "action", id |-> seen[i]]
  BY <1>2, ActionTasksFacts
<1>5. TypeOK
  <2>1. /\ lanes[EVENT_PRIORITY] \in Seq(EventWork)
        /\ lanes[EVENT_PRIORITY] \in Seq(ActionWork \cup EventWork)
    BY <1>3
  <2>2. /\ lanes[ACTION_PRIORITY] \in Seq(ActionWork)
        /\ lanes[ACTION_PRIORITY] \in Seq(ActionWork \cup EventWork)
    BY <1>3, <1>4, SeqOfLarger
  <2>3. lanes \in [Lane -> Seq(ActionWork \cup EventWork)]
    BY <1>3, <2>1, <2>2
  <2>4. traces \in Seq(TaskId)
    BY <1>3
  <2> QED BY <1>1, <1>2, <1>3, <2>1, <2>2, <2>3, <2>4 DEF TypeOK, WorkflowInv, Outcome
<1>6. IsRestOf(lanes[ACTION_PRIORITY], seen)
  <2>1. Len(seen) \in Nat /\ \A i \in 1 .. Len(seen) : Len(seen) - Len(seen) + i = i
    BY <1>2
  <2> QED BY <1>3, <1>4, <2>1 DEF IsRestOf
<1>7. NewActionTasks(tasks, SeenTasks) = {}
  BY <1>2 DEF NewActionTasks, SeenTasks
<1>8. Executed = {} /\ TakenTasks = {}
  <2>1. Len(seen) - Len(lanes[ACTION_PRIORITY]) = 0
    BY <1>2, <1>3, <1>4
  <2>2. Taken = {}
    BY <2>1 DEF Taken
  <2> QED BY <1>3, <2>2 DEF Executed, TakenTasks
<1>9. ScanBookkeeping
  BY <1>2, <1>3, <1>6, <1>7, <1>8 DEF ScanBookkeeping
<1>10. RunsInScanOrder
  BY <1>3 DEF RunsInScanOrder
<1> QED BY <1>1, <1>3, <1>5, <1>9, <1>10 DEF ExecInv

(* The action tasks that a scan leaves unseen: none.                       *)
LEMMA NothingUnseen ==
  ASSUME seen' \in Seq(TaskId),
         \A t \in NewActionTasks(tasks', {}) : \E i \in 1 .. Len(seen') : seen'[i] = t
  PROVE  NewActionTasks(tasks, SeenTasks)' = {}
BY DEF NewActionTasks, SeenTasks

(* Performing an action, queueing its events and scanning the tree.        *)
LEMMA ExecuteActionInv ==
  ASSUME ExecInv, NEW p \in Lane, NEW es \in Emission, ExecuteAction(p, es)
  PROVE  ExecInv'
<1> DEFINE t == Head(lanes[p]).id
<1>1. TypeOK /\ WorkflowInv /\ ScanBookkeeping /\ RunsInScanOrder
  BY DEF ExecInv
<1>2. /\ Dispatch(p, "action") /\ PopPushScan(p, es, tasks, order)
      /\ traces' = Append(traces, t) /\ UNCHANGED <<treeVars, outcome, passed_over>>
      /\ idle_spins' = 0 /\ shutdown' = shutdown
  BY DEF ExecuteAction, Dispatch
<1>3. outcome = "running" /\ lanes[p] # <<>> /\ p = ACTION_PRIORITY
  BY <1>1, <1>2, DispatchLane
<1>4. es \in Seq(Event)
  BY EmissionIsSeq
<1>5. /\ lanes' \in [Lane -> Seq(ActionWork \cup EventWork)]
      /\ lanes'[EVENT_PRIORITY] \in Seq(EventWork)
      /\ lanes'[ACTION_PRIORITY] \in Seq(ActionWork)
      /\ seen' \in Seq(TaskId)
      /\ IsRestOf(lanes'[ACTION_PRIORITY], seen')
      /\ \A i, j \in 1 .. Len(seen') : seen'[i] = seen'[j] => i = j
      /\ \A u \in NewActionTasks(tasks, {}) : \E i \in 1 .. Len(seen') : seen'[i] = u
      /\ Len(seen) <= Len(seen')
      /\ \A i \in 1 .. Len(seen) : seen'[i] = seen[i]
      /\ Len(seen') - Len(lanes'[ACTION_PRIORITY]) = Len(seen) - Len(Rest(p))
  BY <1>1, <1>2, <1>3, <1>4, ScanStep
<1>6. t \in TaskId
  <2>1. Head(lanes[p]) \in ActionWork
    BY <1>1, <1>3 DEF TypeOK
  <2> QED BY <2>1 DEF ActionWork
<1>7. WorkflowInv'
  BY <1>1, <1>2, StutterKeepsWorkflowInv
<1>8. TypeOK'
  BY <1>1, <1>2, <1>5, <1>6, <1>7 DEF TypeOK, WorkflowInv
<1>9. TakenTasks' = TakenTasks \cup {t}
  BY <1>1, <1>3, <1>5, TakenAfterPop
<1>10. Executed' = Executed \cup {t}
  <2>1. traces \in Seq(TaskId)
    BY <1>1 DEF TypeOK
  <2> QED BY <1>2, <1>6, <2>1, AppendRange DEF Executed
<1>11. NewActionTasks(tasks, SeenTasks)' = {}
  BY <1>2, <1>5, NothingUnseen DEF treeVars
<1>12. ScanBookkeeping'
  <2>1. passed_over' = passed_over /\ outcome' = outcome
    BY <1>2
  <2>2. /\ Executed \cup passed_over \subseteq TakenTasks
        /\ outcome # "failed" => TakenTasks \subseteq Executed \cup passed_over
    BY <1>1 DEF ScanBookkeeping
  <2> QED BY <1>5, <1>9, <1>10, <1>11, <2>1, <2>2 DEF ScanBookkeeping
<1>13. RunsInScanOrder'
  BY <1>1, <1>2, <1>3, <1>5, HeadComesNext
<1> QED BY <1>2, <1>3, <1>7, <1>8, <1>12, <1>13 DEF ExecInv

(* Applying an event and scanning the changed tree.                        *)
LEMMA ExecuteEventInv ==
  ASSUME ExecInv, NEW p \in Lane, ExecuteEvent(p)
  PROVE  ExecInv'
<1>1. TypeOK /\ WorkflowInv /\ ScanBookkeeping /\ RunsInScanOrder
  BY DEF ExecInv
<1>2. /\ Dispatch(p, "event") /\ PopPushScan(p, <<>>, tasks', order')
      /\ Apply(Head(lanes[p]).event) /\ UNCHANGED <<traces, outcome, passed_over>>
      /\ idle_spins' = 0 /\ shutdown' = shutdown
  BY DEF ExecuteEvent, Dispatch
<1>3. outcome = "running" /\ lanes[p] # <<>> /\ p = EVENT_PRIORITY
      /\ Head(lanes[p]).event \in Event
  BY <1>1, <1>2, DispatchLane
<1>4. <<>> \in Seq(Event)
  OBVIOUS
<1>5. /\ lanes' \in [Lane -> Seq(ActionWork \cup EventWork)]
      /\ lanes'[EVENT_PRIORITY] \in Seq(EventWork)
      /\ lanes'[ACTION_PRIORITY] \in Seq(ActionWork)
      /\ seen' \in Seq(TaskId)
      /\ IsRestOf(lanes'[ACTION_PRIORITY], seen')
      /\ \A i, j \in 1 .. Len(seen') : seen'[i] = seen'[j] => i = j
      /\ \A u \in NewActionTasks(tasks', {}) : \E i \in 1 .. Len(seen') : seen'[i] = u
      /\ Len(seen) <= Len(seen')
      /\ \A i \in 1 .. Len(seen) : seen'[i] = seen[i]
      /\ Len(seen') - Len(lanes'[ACTION_PRIORITY]) = Len(seen) - Len(Rest(p))
  BY <1>1, <1>2, <1>3, <1>4, ScanStep
<1>6. WorkflowInv'
  BY <1>1, <1>2, <1>3, ApplyKeepsWorkflowInv
<1>7. TypeOK'
  BY <1>1, <1>2, <1>5, <1>6 DEF TypeOK, WorkflowInv
<1>8. TakenTasks' = TakenTasks
  BY <1>1, <1>3, <1>5, TakenAfterPop
<1>9. NewActionTasks(tasks, SeenTasks)' = {}
  BY <1>5, NothingUnseen
<1>10. ScanBookkeeping'
  <2>1. passed_over' = passed_over /\ outcome' = outcome /\ Executed' = Executed
    BY <1>2 DEF Executed
  <2>2. /\ Executed \cup passed_over \subseteq TakenTasks
        /\ outcome # "failed" => TakenTasks \subseteq Executed \cup passed_over
    BY <1>1 DEF ScanBookkeeping
  <2> QED BY <1>5, <1>8, <1>9, <2>1, <2>2 DEF ScanBookkeeping
<1>11. RunsInScanOrder'
  BY <1>1, <1>2, <1>5, LongerScanKeepsOrder
<1> QED BY <1>2, <1>3, <1>6, <1>7, <1>10, <1>11 DEF ExecInv

(* A pop that neither executes nor scans: the task is passed over, or its  *)
(* failure ends the run.                                                   *)
LEMMA PopOnlyInv ==
  ASSUME ExecInv, NEW p \in Lane, NEW kind, Dispatch(p, kind),
         lanes' = [lanes EXCEPT ![p] = Tail(@)],
         UNCHANGED <<treeVars, seen, traces>>,
         \/ /\ outcome' = "failed" /\ passed_over' = passed_over
         \/ /\ kind = "action" /\ outcome' = outcome
            /\ passed_over' = passed_over \cup {Head(lanes[p]).id}
  PROVE  ExecInv'
<1>1. TypeOK /\ WorkflowInv /\ ScanBookkeeping /\ RunsInScanOrder
  BY DEF ExecInv
<1>2. /\ outcome = "running" /\ lanes[p] # <<>>
      /\ kind = "action" => p = ACTION_PRIORITY
  BY <1>1, DispatchLane
<1>3. /\ lanes' \in [Lane -> Seq(ActionWork \cup EventWork)]
      /\ lanes'[EVENT_PRIORITY] \in Seq(EventWork)
      /\ lanes'[ACTION_PRIORITY] \in Seq(ActionWork)
      /\ IsRestOf(lanes'[ACTION_PRIORITY], seen')
      /\ lanes'[ACTION_PRIORITY] = Rest(p)
  BY <1>1, <1>2, PopStep
<1>4. WorkflowInv'
  BY <1>1, StutterKeepsWorkflowInv
<1>5. idle_spins' = 0 /\ shutdown' = shutdown
  BY DEF Dispatch
<1>6. passed_over' \subseteq TaskId
  <2>1. CASE kind = "action"
    <3>1. Head(lanes[p]) \in ActionWork
      BY <1>1, <1>2, <2>1 DEF TypeOK
    <3>2. Head(lanes[p]).id \in TaskId /\ passed_over \subseteq TaskId
      BY <1>1, <3>1 DEF ActionWork, TypeOK
    <3> QED BY <3>2
  <2>2. CASE kind # "action"
    BY <1>1, <2>2 DEF TypeOK
  <2> QED BY <2>1, <2>2
<1>7. TypeOK'
  BY <1>1, <1>3, <1>4, <1>5, <1>6 DEF TypeOK, WorkflowInv, Outcome
<1>8. TakenTasks' = IF p = ACTION_PRIORITY THEN TakenTasks \cup {Head(lanes[p]).id}
                    ELSE TakenTasks
  <2>1. /\ Len(seen') = Len(seen) /\ Len(seen') \in Nat /\ Len(seen) <= Len(seen')
        /\ \A i \in 1 .. Len(seen) : seen'[i] = seen[i]
    BY <1>1 DEF TypeOK
  <2>2. Len(seen') - Len(lanes'[ACTION_PRIORITY]) = Len(seen) - Len(Rest(p))
    BY <1>3, <2>1
  <2> QED BY <1>1, <1>2, <2>1, <2>2, TakenAfterPop
<1>9. NewActionTasks(tasks, SeenTasks)' = {}
  BY <1>1 DEF ScanBookkeeping, NewActionTasks, SeenTasks, treeVars
<1>10. ScanBookkeeping'
  <2>1. Executed' = Executed
    BY DEF Executed
  <2>2. /\ Executed \cup passed_over \subseteq TakenTasks
        /\ outcome # "failed" => TakenTasks \subseteq Executed \cup passed_over
        /\ \A i, j \in DOMAIN seen : seen[i] = seen[j] => i = j
    BY <1>1 DEF ScanBookkeeping
  <2> QED BY <1>2, <1>3, <1>8, <1>9, <2>1, <2>2 DEF ScanBookkeeping
<1>11. RunsInScanOrder'
  BY <1>1 DEF RunsInScanOrder
<1> QED BY <1>2, <1>4, <1>7, <1>10, <1>11 DEF ExecInv

(* Steps that leave the tree, the lanes, the scan order and the traces     *)
(* alone, and fail no task.                                                *)
LEMMA QuietInv ==
  ASSUME ExecInv, UNCHANGED <<treeVars, lanes, seen, traces, passed_over>>,
         idle_spins' \in Nat, shutdown' \in BOOLEAN, outcome' \in Outcome,
         outcome = "failed" => outcome' = "failed",
         outcome' = "finished" => outcome = "finished" \/ QueuesEmpty
  PROVE  ExecInv'
<1>1. TypeOK /\ WorkflowInv /\ ScanBookkeeping /\ RunsInScanOrder
      /\ (outcome = "finished" => QueuesEmpty)
  BY DEF ExecInv
<1>2. WorkflowInv'
  BY <1>1, StutterKeepsWorkflowInv
<1>3. TypeOK'
  BY <1>1, <1>2 DEF TypeOK, WorkflowInv
<1>4. ScanBookkeeping'
  <2>1. Executed' = Executed /\ TakenTasks' = TakenTasks
    BY DEF Executed, TakenTasks, Taken
  <2>2. NewActionTasks(tasks, SeenTasks)' = NewActionTasks(tasks, SeenTasks)
    BY DEF NewActionTasks, SeenTasks, treeVars
  <2>3. IsRestOf(lanes[ACTION_PRIORITY], seen)' = IsRestOf(lanes[ACTION_PRIORITY], seen)
    BY DEF IsRestOf
  <2> QED BY <1>1, <2>1, <2>2, <2>3 DEF ScanBookkeeping
<1>5. RunsInScanOrder'
  BY <1>1 DEF RunsInScanOrder
<1>6. (outcome = "finished" => QueuesEmpty)'
  BY <1>1 DEF QueuesEmpty
<1> QED BY <1>2, <1>3, <1>4, <1>5, <1>6 DEF ExecInv

(* Every step of the loop keeps the invariant.                             *)
LEMMA NextExecInv == ExecInv /\ [Next]_vars => ExecInv'
<1> SUFFICES ASSUME ExecInv, [Next]_vars PROVE ExecInv'
  OBVIOUS
<1>0. idle_spins \in Nat /\ shutdown \in BOOLEAN /\ outcome \in Outcome
  BY DEF ExecInv, TypeOK
<1>1. CASE Interrupt
  BY <1>0, <1>1, QuietInv DEF Interrupt, Outcome
<1>2. CASE Idle
  <2>1. idle_spins' \in Nat /\ outcome' \in {"running", "finished"}
    BY <1>0, <1>2 DEF Idle
  <2> QED BY <1>0, <1>2, <2>1, QuietInv DEF Idle, Looping, Outcome
<1>3. ASSUME NEW p \in Lane, PassOver(p) PROVE ExecInv'
  <2>1. /\ Dispatch(p, "action") /\ lanes' = [lanes EXCEPT ![p] = Tail(@)]
        /\ passed_over' = passed_over \cup {Head(lanes[p]).id}
        /\ UNCHANGED <<treeVars, seen, traces, outcome>>
    BY <1>3 DEF PassOver
  <2> QED BY <2>1, PopOnlyInv
<1>4. ASSUME NEW p \in Lane, FailAction(p) PROVE ExecInv'
  <2>1. Dispatch(p, "action") /\ Abort(p)
    BY <1>4 DEF FailAction
  <2> QED BY <2>1, PopOnlyInv DEF Abort
<1>5. ASSUME NEW p \in Lane, FailEvent(p) PROVE ExecInv'
  <2>1. Dispatch(p, "event") /\ Abort(p)
    BY <1>5 DEF FailEvent
  <2> QED BY <2>1, PopOnlyInv DEF Abort
<1>6. ASSUME NEW p \in Lane, ExecuteEvent(p) PROVE ExecInv'
  BY <1>6, ExecuteEventInv
<1>7. ASSUME NEW p \in Lane, NEW es \in Emission, ExecuteAction(p, es) PROVE ExecInv'
  BY <1>7, ExecuteActionInv
<1>8. CASE Signal
  BY <1>0, <1>8, QuietInv DEF Signal
<1>9. CASE UNCHANGED vars
  BY <1>0, <1>9, QuietInv DEF vars, execVars
<1> QED BY <1>1, <1>2, <1>3, <1>4, <1>5, <1>6, <1>7, <1>8, <1>9 DEF Next, Step, Returned

(* Hence every run of the executor has the invariant.                      *)
LEMMA SpecExecInv == Spec => []ExecInv
BY InitExecInv, NextExecInv, PTL DEF Spec

-----------------------------------------------------------------------------
(* The queues, the seen tasks and the traces are well typed in every run:  *)
(* in particular only events are queued at priority 4.                     *)
THEOREM ExecutorTyping == Spec => []TypeOK
BY SpecExecInv, PTL DEF ExecInv

(* Every action task of the tree is known to the executor, and what left   *)
(* the action lane, and nothing else, was executed or passed over.         *)
THEOREM NoTaskIsLost == Spec => []ScanBookkeeping
BY SpecExecInv, PTL DEF ExecInv

(* Actions are executed in the order of the scans.                         *)
THEOREM ExecutionFollowsScans == Spec => []RunsInScanOrder
BY SpecExecInv, PTL DEF ExecInv

(* No task is executed twice, even when it is removed and inserted again.  *)
THEOREM ExecutedAtMostOnce == Spec => []AtMostOnce
<1>1. ExecInv => AtMostOnce
  <2> SUFFICES ASSUME ExecInv, NEW i \in DOMAIN traces, NEW j \in DOMAIN traces,
                      traces[i] = traces[j]
               PROVE  i = j
    BY DEF AtMostOnce
  <2>1. ASSUME NEW k \in DOMAIN traces, NEW l \in DOMAIN traces, traces[k] = traces[l]
        PROVE  ~(k < l)
    BY <2>1 DEF ExecInv, ScanBookkeeping, RunsInScanOrder, TypeOK
  <2>2. i \in Int /\ j \in Int
    BY DEF ExecInv, TypeOK
  <2> QED BY <2>1, <2>2
<1> QED BY <1>1, SpecExecInv, PTL

(* A run that ends by itself has emptied its queues and taken up every     *)
(* action task of the tree.                                                *)
THEOREM FinishedRunSettledAll == Spec => []FinishedMeansAllSettled
<1>1. ExecInv => FinishedMeansAllSettled
  <2> SUFFICES ASSUME ExecInv, outcome = "finished"
               PROVE  /\ QueuesEmpty
                      /\ \A t \in Present : tasks[t].action # NoAction => t \in Executed \cup passed_over
    BY DEF FinishedMeansAllSettled
  <2>1. QueuesEmpty /\ lanes[ACTION_PRIORITY] = <<>>
    BY DEF ExecInv, QueuesEmpty
  <2>2. Taken = DOMAIN seen
    BY <2>1 DEF ExecInv, TypeOK, Taken
  <2>3. SeenTasks \subseteq Executed \cup passed_over
    BY <2>2 DEF ExecInv, ScanBookkeeping, TakenTasks, SeenTasks
  <2>4. ASSUME NEW t \in Present, tasks[t].action # NoAction
        PROVE  t \in SeenTasks
    BY <2>4 DEF ExecInv, ScanBookkeeping, NewActionTasks, Present
  <2> QED BY <2>1, <2>3, <2>4
<1> QED BY <1>1, SpecExecInv, PTL

(* An action is executed only when no event is waiting.                    *)
THEOREM EventsBeforeActions == Spec => EventsFirst
<1> DEFINE Only == \A p \in Lane : \A i \in DOMAIN lanes[p] : lanes[p][i].kind = "action"
<1>1. ASSUME ExecInv, NEW p \in Lane, NEW es \in Emission, ExecuteAction(p, es)
      PROVE  Only
  <2>1. lanes[EVENT_PRIORITY] = <<>> /\ lanes[ACTION_PRIORITY] \in Seq(ActionWork)
    BY <1>1, DispatchLane DEF ExecInv, ExecuteAction, TypeOK
  <2>2. \A i \in DOMAIN lanes[ACTION_PRIORITY] : lanes[ACTION_PRIORITY][i] \in ActionWork
    BY <2>1
  <2>3. DOMAIN lanes[EVENT_PRIORITY] = {}
    BY <2>1
  <2> QED BY <2>2, <2>3 DEF ActionWork
<1>2. ASSUME ExecInv, Next, traces' # traces
      PROVE  Only
  <2>1. \E p \in Lane, es \in Emission : ExecuteAction(p, es)
    BY <1>2 DEF Next, Step, Signal, Returned, Interrupt, Idle, PassOver, FailAction, FailEvent,
                ExecuteEvent, Abort, vars, execVars
  <2> QED BY <1>1, <1>2, <2>1
<1>3. ExecInv /\ [Next]_vars => [traces' # traces => Only]_vars
  BY <1>2
<1> QED BY <1>3, SpecExecInv, PTL DEF Spec, EventsFirst

-----------------------------------------------------------------------------
(* The action tasks in the queues are those seen and not taken.            *)
QueuedIsUntaken ==
  /\ Queued = SeenTasks \ TakenTasks
  /\ TakenTasks \subseteq SeenTasks
  /\ Executed \cup passed_over \subseteq TakenTasks
  /\ SeenTasks \subseteq TaskId

(* This follows from the invariant of the loop.                            *)
LEMMA QueuedIsRest == ExecInv => QueuedIsUntaken
<1> SUFFICES ASSUME TypeOK, ScanBookkeeping
             PROVE  QueuedIsUntaken
  BY DEF ExecInv
<1> DEFINE A == lanes[ACTION_PRIORITY]
           d == Len(seen) - Len(A)
<1>1. /\ A \in Seq(ActionWork) /\ seen \in Seq(TaskId)
      /\ lanes[EVENT_PRIORITY] \in Seq(EventWork)
      /\ d \in Nat /\ Len(seen) \in Nat /\ Len(A) \in Nat /\ d + Len(A) = Len(seen)
      /\ \A i \in 1 .. Len(A) : A[i] = [kind |-> "action", id |-> seen[d + i]]
      /\ \A i, j \in 1 .. Len(seen) : seen[i] = seen[j] => i = j
      /\ Taken = 1 .. d
  BY DEF TypeOK, ScanBookkeeping, IsRestOf, Taken
<1>2. \A i \in DOMAIN lanes[EVENT_PRIORITY] : lanes[EVENT_PRIORITY][i].kind = "event"
  <2>1. \A i \in DOMAIN lanes[EVENT_PRIORITY] : lanes[EVENT_PRIORITY][i] \in EventWork
    BY DEF TypeOK
  <2> QED BY <2>1 DEF EventWork
<1> HIDE DEF d, A
<1>3. ASSUME NEW t \in Queued
      PROVE  t \in SeenTasks \ TakenTasks
  <2>1. PICK p \in Lane : \E i \in DOMAIN lanes[p] : lanes[p][i] = [kind |-> "action", id |-> t]
    BY DEF Queued
  <2>2. PICK i \in DOMAIN lanes[p] : lanes[p][i] = [kind |-> "action", id |-> t]
    BY <2>1
  <2>3. p = ACTION_PRIORITY
    <3>1. lanes[p][i].kind = "action"
      BY <2>2
    <3> QED BY <1>2, <3>1
  <2>4. i \in 1 .. Len(A) /\ A[i] = [kind |-> "action", id |-> t]
    BY <1>1, <2>2, <2>3 DEF A
  <2>5. t = seen[d + i]
    <3>1. A[i].id = t
      BY <2>4
    <3>2. A[i] = [kind |-> "action", id |-> seen[d + i]]
      BY <1>1, <2>4
    <3> QED BY <3>1, <3>2
  <2>6. d + i \in 1 .. Len(seen) /\ d + i \notin 1 .. d
    BY <1>1, <2>4
  <2>7. t \in SeenTasks
    BY <1>1, <2>5, <2>6 DEF SeenTasks
  <2>8. ASSUME NEW j \in 1 .. d PROVE seen[j] # t
    BY <1>1, <2>5, <2>6
  <2> QED BY <1>1, <2>7, <2>8 DEF TakenTasks
<1>4. ASSUME NEW t \in SeenTasks, t \notin TakenTasks
      PROVE  t \in Queued
  <2>1. PICK j \in 1 .. Len(seen) : seen[j] = t
    BY <1>1 DEF SeenTasks
  <2>2. j \notin 1 .. d
    BY <1>1, <1>4, <2>1 DEF TakenTasks
  <2>3. j - d \in 1 .. Len(A) /\ d + (j - d) = j
    BY <1>1, <2>2
  <2>4. A[j - d] = [kind |-> "action", id |-> t]
    BY <1>1, <2>1, <2>3
  <2>5. t \in TaskId /\ DOMAIN A = 1 .. Len(A)
    BY <1>1, <2>1
  <2>6. \E i \in DOMAIN lanes[ACTION_PRIORITY] :
          lanes[ACTION_PRIORITY][i] = [kind |-> "action", id |-> t]
    BY <2>3, <2>4, <2>5 DEF A
  <2> QED BY <2>5, <2>6 DEF Queued
<1>5. TakenTasks \subseteq SeenTasks
  <2>1. 1 .. d \subseteq DOMAIN seen
    BY <1>1
  <2> QED BY <1>1, <2>1 DEF TakenTasks, SeenTasks
<1>6. SeenTasks \subseteq TaskId
  BY <1>1 DEF SeenTasks
<1> QED BY <1>3, <1>4, <1>5, <1>6 DEF ScanBookkeeping, QueuedIsUntaken

(* The scan order only grows.                                              *)
LEMMA SeenGrows ==
  ASSUME seen \in Seq(TaskId), seen' \in Seq(TaskId), Len(seen) <= Len(seen'),
         \A i \in 1 .. Len(seen) : seen'[i] = seen[i]
  PROVE  SeenTasks \subseteq SeenTasks'
BY DEF SeenTasks

(* The head of the action lane is one of the queued tasks.                 *)
LEMMA HeadIsQueued ==
  ASSUME TypeOK, lanes[ACTION_PRIORITY] # <<>>
  PROVE  Head(lanes[ACTION_PRIORITY]).id \in Queued
<1>1. lanes[ACTION_PRIORITY] \in Seq(ActionWork)
  BY DEF TypeOK
<1>2. 1 \in DOMAIN lanes[ACTION_PRIORITY] /\ lanes[ACTION_PRIORITY][1] \in ActionWork
      /\ Head(lanes[ACTION_PRIORITY]) = lanes[ACTION_PRIORITY][1]
  BY <1>1
<1> QED BY <1>2 DEF Queued, ActionWork

(* What a step does to the seen and the taken tasks makes it a step of the *)
(* work list that settles what was taken and discovers the rest.           *)
LEMMA ProceedStep ==
  ASSUME ExecInv, ExecInv', NEW taken, taken \subseteq Queued,
         Worklist!AtMostOne(taken),
         SeenTasks \subseteq SeenTasks', TakenTasks' = TakenTasks \cup taken,
         (Executed \cup passed_over)' = (Executed \cup passed_over) \cup taken,
         outcome = "running", outcome' = "running"
  PROVE  Worklist!WorkNext
<1> DEFINE found == SeenTasks' \ SeenTasks
<1>1. /\ Queued = SeenTasks \ TakenTasks /\ TakenTasks \subseteq SeenTasks
      /\ Executed \cup passed_over \subseteq TakenTasks /\ SeenTasks \subseteq TaskId
  BY QueuedIsRest DEF QueuedIsUntaken
<1>2. Queued' = SeenTasks' \ TakenTasks' /\ SeenTasks' \subseteq TaskId
  <2>1. QueuedIsUntaken'
    BY QueuedIsRest, PTL
  <2> QED BY <2>1 DEF QueuedIsUntaken
<1>3. /\ taken \in SUBSET TaskId /\ found \in SUBSET TaskId
      /\ found \cap (Queued \cup (Executed \cup passed_over)) = {}
      /\ Queued' = (Queued \ taken) \cup found
  BY <1>1, <1>2
<1>4. Phase = "open" /\ Phase' = "open"
  BY DEF Phase
<1>5. Worklist!Proceed(taken, found)
  BY <1>3, <1>4 DEF Worklist!Proceed
<1> QED BY <1>3, <1>5 DEF Worklist!WorkNext

(* A run that is cut short keeps what it had settled.                      *)
LEMMA StopStep ==
  ASSUME ExecInv, ExecInv', NEW taken, taken \subseteq Queued,
         Worklist!AtMostOne(taken),
         SeenTasks' = SeenTasks, TakenTasks' = TakenTasks \cup taken,
         (Executed \cup passed_over)' = Executed \cup passed_over,
         outcome = "running", outcome' \in {"failed", "interrupted"}
  PROVE  Worklist!WorkNext
<1>1. Queued = SeenTasks \ TakenTasks /\ SeenTasks \subseteq TaskId
  BY QueuedIsRest DEF QueuedIsUntaken
<1>2. Queued' = SeenTasks' \ TakenTasks'
  <2>1. QueuedIsUntaken'
    BY QueuedIsRest, PTL
  <2> QED BY <2>1 DEF QueuedIsUntaken
<1>3. taken \in SUBSET TaskId /\ Queued' = Queued \ taken
  BY <1>1, <1>2
<1>4. Phase = "open" /\ Phase' = "stopped"
  BY DEF Phase
<1>5. Worklist!Stop(taken)
  BY <1>3, <1>4 DEF Worklist!Stop
<1> QED BY <1>3, <1>5 DEF Worklist!WorkNext

(* Executing an action settles its task and discovers what the scan found. *)
LEMMA ActionIsWork ==
  ASSUME ExecInv, ExecInv', NEW p \in Lane, NEW es \in Emission, ExecuteAction(p, es)
  PROVE  Worklist!WorkNext
<1> DEFINE t == Head(lanes[p]).id
<1>1. TypeOK /\ ScanBookkeeping
  BY DEF ExecInv
<1>2. /\ Dispatch(p, "action") /\ PopPushScan(p, es, tasks, order)
      /\ traces' = Append(traces, t) /\ UNCHANGED <<outcome, passed_over>>
  BY DEF ExecuteAction
<1>3. outcome = "running" /\ lanes[p] # <<>> /\ p = ACTION_PRIORITY
  BY <1>1, <1>2, DispatchLane
<1>4. es \in Seq(Event)
  BY EmissionIsSeq
<1>5. /\ seen \in Seq(TaskId) /\ seen' \in Seq(TaskId)
      /\ Len(seen) <= Len(seen') /\ Len(seen') \in Nat
      /\ \A i \in 1 .. Len(seen) : seen'[i] = seen[i]
      /\ Len(seen') - Len(lanes'[ACTION_PRIORITY]) = Len(seen) - Len(Rest(p))
  BY <1>1, <1>2, <1>3, <1>4, ScanStep DEF TypeOK
<1>6. SeenTasks \subseteq SeenTasks'
  BY <1>5, SeenGrows
<1>7. TakenTasks' = TakenTasks \cup {t}
  BY <1>1, <1>3, <1>5, TakenAfterPop
<1>8. t \in Queued
  BY <1>1, <1>3, HeadIsQueued
<1>9. Executed' = Executed \cup {t}
  <2>1. traces \in Seq(TaskId) /\ t \in TaskId
    BY <1>1, <1>8 DEF TypeOK, Queued
  <2> QED BY <1>2, <2>1, AppendRange DEF Executed
<1>10. (Executed \cup passed_over)' = (Executed \cup passed_over) \cup {t}
  BY <1>2, <1>9
<1>11. {t} \subseteq Queued /\ Worklist!AtMostOne({t})
  BY <1>8 DEF Worklist!AtMostOne
<1> HIDE DEF t
<1> QED BY <1>2, <1>3, <1>6, <1>7, <1>10, <1>11, ProceedStep

(* Applying an event settles nothing and discovers what the scan found.    *)
LEMMA EventIsWork ==
  ASSUME ExecInv, ExecInv', NEW p \in Lane, ExecuteEvent(p)
  PROVE  Worklist!WorkNext
<1>1. TypeOK /\ ScanBookkeeping
  BY DEF ExecInv
<1>2. /\ Dispatch(p, "event") /\ PopPushScan(p, <<>>, tasks', order')
      /\ UNCHANGED <<traces, outcome, passed_over>>
  BY DEF ExecuteEvent
<1>3. outcome = "running" /\ lanes[p] # <<>> /\ p = EVENT_PRIORITY
  BY <1>1, <1>2, DispatchLane
<1>4. <<>> \in Seq(Event)
  OBVIOUS
<1>5. /\ seen \in Seq(TaskId) /\ seen' \in Seq(TaskId)
      /\ Len(seen) <= Len(seen') /\ Len(seen') \in Nat
      /\ \A i \in 1 .. Len(seen) : seen'[i] = seen[i]
      /\ Len(seen') - Len(lanes'[ACTION_PRIORITY]) = Len(seen) - Len(Rest(p))
  <2>1. /\ seen' \in Seq(TaskId)
        /\ Len(seen) <= Len(seen')
        /\ \A i \in 1 .. Len(seen) : seen'[i] = seen[i]
        /\ Len(seen') - Len(lanes'[ACTION_PRIORITY]) = Len(seen) - Len(Rest(p))
    BY <1>1, <1>2, <1>3, <1>4, ScanStep
  <2>2. seen \in Seq(TaskId)
    BY <1>1 DEF TypeOK
  <2> QED BY <2>1, <2>2
<1>6. SeenTasks \subseteq SeenTasks'
  BY <1>5, SeenGrows
<1>7. TakenTasks' = TakenTasks \cup {}
  BY <1>1, <1>3, <1>5, TakenAfterPop
<1>8. (Executed \cup passed_over)' = (Executed \cup passed_over) \cup {}
  BY <1>2 DEF Executed
<1>9. Worklist!AtMostOne({})
  BY DEF Worklist!AtMostOne
<1> QED BY <1>2, <1>3, <1>6, <1>7, <1>8, <1>9, ProceedStep

(* A pop without a scan settles the task, or ends the run.                 *)
LEMMA PopIsWork ==
  ASSUME ExecInv, ExecInv', NEW p \in Lane, NEW kind, kind \in {"action", "event"},
         Dispatch(p, kind), lanes' = [lanes EXCEPT ![p] = Tail(@)],
         UNCHANGED <<seen, traces>>,
         \/ outcome' = "failed" /\ passed_over' = passed_over
         \/ /\ kind = "action" /\ outcome' = outcome
            /\ passed_over' = passed_over \cup {Head(lanes[p]).id}
  PROVE  Worklist!WorkNext
<1> DEFINE taken == IF p = ACTION_PRIORITY THEN {Head(lanes[p]).id} ELSE {}
<1>1. TypeOK /\ ScanBookkeeping
  BY DEF ExecInv
<1>2. /\ outcome = "running" /\ lanes[p] # <<>>
      /\ kind = "action" => p = ACTION_PRIORITY
  BY <1>1, DispatchLane
<1>3. TakenTasks' = TakenTasks \cup taken
  <2>1. lanes'[ACTION_PRIORITY] = Rest(p)
    BY <1>1, <1>2, PopStep
  <2>2. /\ Len(seen') = Len(seen) /\ Len(seen') \in Nat /\ Len(seen) <= Len(seen')
        /\ \A i \in 1 .. Len(seen) : seen'[i] = seen[i]
    BY <1>1 DEF TypeOK
  <2>3. Len(seen') - Len(lanes'[ACTION_PRIORITY]) = Len(seen) - Len(Rest(p))
    BY <2>1, <2>2
  <2> QED BY <1>1, <1>2, <2>2, <2>3, TakenAfterPop
<1>4. taken \subseteq Queued /\ Worklist!AtMostOne(taken)
  BY <1>1, <1>2, HeadIsQueued DEF Worklist!AtMostOne
<1>5. SeenTasks' = SeenTasks /\ Executed' = Executed
  BY DEF SeenTasks, Executed
<1>6. CASE outcome' = "failed" /\ passed_over' = passed_over
  BY <1>2, <1>3, <1>4, <1>5, <1>6, StopStep
<1>7. CASE /\ kind = "action" /\ outcome' = outcome
           /\ passed_over' = passed_over \cup {Head(lanes[p]).id}
  <2>1. (Executed \cup passed_over)' = (Executed \cup passed_over) \cup taken
    BY <1>2, <1>5, <1>7
  <2> QED BY <1>2, <1>3, <1>4, <1>5, <1>7, <2>1, ProceedStep
<1> QED BY <1>6, <1>7

(* Steps that touch none of the queues, the scan order and the traces.     *)
LEMMA QuietIsWork ==
  ASSUME ExecInv, ExecInv', UNCHANGED <<lanes, seen, traces, passed_over>>,
         \/ outcome' = outcome
         \/ outcome = "running" /\ outcome' = "interrupted"
         \/ outcome = "running" /\ outcome' = "finished" /\ QueuesEmpty
  PROVE  [Worklist!WorkNext]_(Worklist!workVars)
<1>1. /\ Queued' = Queued /\ SeenTasks' = SeenTasks /\ TakenTasks' = TakenTasks
      /\ (Executed \cup passed_over)' = Executed \cup passed_over
  BY DEF Queued, SeenTasks, TakenTasks, Taken, Executed
<1>2. CASE outcome' = outcome
  BY <1>1, <1>2 DEF Worklist!workVars, Phase
<1>3. CASE outcome = "running" /\ outcome' = "interrupted"
  <2>1. {} \subseteq Queued /\ Worklist!AtMostOne({}) /\ TakenTasks' = TakenTasks \cup {}
    BY <1>1 DEF Worklist!AtMostOne
  <2> QED BY <1>1, <1>3, <2>1, StopStep
<1>4. CASE outcome = "running" /\ outcome' = "finished" /\ QueuesEmpty
  <2>1. Queued = {}
    BY <1>4 DEF Queued, QueuesEmpty
  <2>2. Worklist!Finish
    BY <1>1, <1>4, <2>1 DEF Worklist!Finish, Phase
  <2> QED BY <2>2 DEF Worklist!WorkNext
<1> QED BY <1>2, <1>3, <1>4

(* Every step of the loop is a step of the work list.                      *)
LEMMA NextIsWork ==
  ASSUME ExecInv, ExecInv', [Next]_vars
  PROVE  [Worklist!WorkNext]_(Worklist!workVars)
<1>1. CASE Interrupt
  BY <1>1, QuietIsWork DEF Interrupt
<1>2. CASE Idle
  <2>1. outcome = "running" /\ QueuesEmpty /\ outcome' \in {"running", "finished"}
    BY <1>2 DEF Idle, Looping
  <2> QED BY <1>2, <2>1, QuietIsWork DEF Idle
<1>3. ASSUME NEW p \in Lane, PassOver(p) PROVE Worklist!WorkNext
  <2>1. /\ Dispatch(p, "action") /\ lanes' = [lanes EXCEPT ![p] = Tail(@)]
        /\ passed_over' = passed_over \cup {Head(lanes[p]).id}
        /\ UNCHANGED <<seen, traces, outcome>>
    BY <1>3 DEF PassOver
  <2> QED BY <2>1, PopIsWork
<1>4. ASSUME NEW p \in Lane, FailAction(p) PROVE Worklist!WorkNext
  <2>1. Dispatch(p, "action") /\ Abort(p)
    BY <1>4 DEF FailAction
  <2> QED BY <2>1, PopIsWork DEF Abort
<1>5. ASSUME NEW p \in Lane, FailEvent(p) PROVE Worklist!WorkNext
  <2>1. Dispatch(p, "event") /\ Abort(p)
    BY <1>5 DEF FailEvent
  <2> QED BY <2>1, PopIsWork DEF Abort
<1>6. ASSUME NEW p \in Lane, ExecuteEvent(p) PROVE Worklist!WorkNext
  BY <1>6, EventIsWork
<1>7. ASSUME NEW p \in Lane, NEW es \in Emission, ExecuteAction(p, es)
      PROVE  Worklist!WorkNext
  BY <1>7, ActionIsWork
<1>8. CASE Signal
  BY <1>8, QuietIsWork DEF Signal
<1>9. CASE UNCHANGED vars
  BY <1>9, QuietIsWork DEF vars, execVars
<1> QED BY <1>1, <1>2, <1>3, <1>4, <1>5, <1>6, <1>7, <1>8, <1>9 DEF Next, Step, Returned

(* A new executor is a new work list.                                      *)
LEMMA InitIsWork == Init => Worklist!WorkInit
BY DEF Init, Worklist!WorkInit, Queued, Executed, Phase

(* The executor implements the work list: what it discovers it takes up    *)
(* once, and a run that ends by itself has taken up everything.            *)
THEOREM ExecutorImplementsWorkList == Spec => ImplementsWorkList
<1>1. ExecInv /\ ExecInv' /\ [Next]_vars => [Worklist!WorkNext]_(Worklist!workVars)
  BY NextIsWork
<1> QED BY <1>1, InitIsWork, SpecExecInv, PTL DEF Spec, ImplementsWorkList, Worklist!WorkSpec
=============================================================================

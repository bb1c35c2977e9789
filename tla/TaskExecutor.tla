---------------------------- MODULE TaskExecutor ----------------------------
(***************************************************************************)
(* scheduler/src/engine.rs: TaskExecutor, the single-threaded loop that    *)
(* runs the actions of a workflow.  It pops the first task of the lowest   *)
(* non-empty priority lane; an action may emit events that change the      *)
(* workflow (Workflow.tla), and after every action and event the tree is   *)
(* scanned for action tasks that were not seen before.  The component that *)
(* performs the actions is the caller's: it may fail, and it may emit any  *)
(* sequence of at most MaxEmit events of EventInput.                       *)
(***************************************************************************)
EXTENDS Workflow, FiniteSets

CONSTANT MaxEmit  \* bound of the model on the events of one do_action

ASSUME ExecutorAssumption ==
  /\ MaxEmit \in Nat
  /\ IsFiniteSet(TaskId)  \* a run meets finitely many task ids

VARIABLES
  lanes,        \* PriorityQueues.lanes
  seen,         \* seen_tasks: an IndexSet, in the order of insertion
  traces,       \* the task_id of each ActionTrace, in order
  idle_spins,
  shutdown,     \* the flag that the Ctrl+C handler sets
  outcome,      \* "running", or how run() ended
  passed_over   \* history: tasks popped when they had nothing to execute

execVars == <<lanes, seen, traces, idle_spins, shutdown, outcome, passed_over>>
vars == <<treeVars, execVars>>

(* Mistakes: events share the lane of the actions, or wait behind them. *)
SharedPriority == 32
LatePriority == 40

EVENT_PRIORITY == 4
ACTION_PRIORITY == 32
IDLE_SPIN_LIMIT == 2

(* Of the PRIORITY_LEVELS lanes, those that anything is pushed to. *)
Lane == {EVENT_PRIORITY, ACTION_PRIORITY}

ActionWork == [kind : {"action"}, id : TaskId]
EventWork == [kind : {"event"}, event : Event]

Outcome == {"running", "finished", "interrupted", "failed"}

QueuesEmpty == \A p \in Lane : lanes[p] = <<>>

(* PriorityQueues::pop takes from the first lane that holds anything. *)
PopsFrom(p) == lanes[p] # <<>> /\ \A q \in Lane : lanes[q] # <<>> => p <= q

-----------------------------------------------------------------------------
SeenTasks == {seen[i] : i \in DOMAIN seen}

(* enqueue_new_action_tasks: new lists, in the order of the tree, the      *)
(* tasks of the tree that have an action and are not known yet.            *)
NewActionTasks(tree, known) ==
  {t \in TaskId : tree[t] # NoTask /\ tree[t].action # NoAction /\ t \notin known}

Before(t, u, ord) == \E i, j \in 1 .. Len(ord) : i < j /\ ord[i] = t /\ ord[j] = u

Scans(tree, ord, known) ==
  LET found == NewActionTasks(tree, known) IN
  {new \in [1 .. Cardinality(found) -> found] :
     /\ \A t \in found : \E i \in DOMAIN new : new[i] = t
     /\ \A i, j \in DOMAIN new : i < j => new[i] # new[j] /\ Before(new[i], new[j], ord)}

ActionTasks(new) == [i \in DOMAIN new |-> [kind |-> "action", id |-> new[i]]]
EventTasks(es) == [i \in DOMAIN es |-> [kind |-> "event", event |-> es[i]]]

(* Mistakes: what was queued is not remembered, or jumps the queue. *)
PopPushForget(p, es, tree, ord) ==
  \E new \in Scans(tree, ord, SeenTasks) :
    /\ seen' = seen
    /\ lanes' = [lanes EXCEPT ![p] = Tail(@),
                              ![EVENT_PRIORITY] = @ \o EventTasks(es),
                              ![ACTION_PRIORITY] = @ \o ActionTasks(new)]

PopPushFront(p, es, tree, ord) ==
  \E new \in Scans(tree, ord, SeenTasks) :
    /\ seen' = seen \o new
    /\ lanes' = [lanes EXCEPT ![p] = Tail(@),
                              ![EVENT_PRIORITY] = @ \o EventTasks(es),
                              ![ACTION_PRIORITY] = ActionTasks(new) \o @]

(* After the head of lane p was popped, es are pushed to the event lane    *)
(* and then the tasks found in the tree to the action lane.                *)
PopPushScan(p, es, tree, ord) ==
  \E new \in Scans(tree, ord, SeenTasks) :
    /\ seen' = seen \o new
    /\ lanes' = [lanes EXCEPT ![p] = Tail(@),
                              ![EVENT_PRIORITY] = @ \o EventTasks(es),
                              ![ACTION_PRIORITY] = @ \o ActionTasks(new)]

-----------------------------------------------------------------------------
(* TaskExecutor::new *)
Init ==
  /\ WorkflowInit
  /\ seen \in Scans(tasks, order, {})
  /\ lanes = [p \in Lane |-> IF p = ACTION_PRIORITY THEN ActionTasks(seen) ELSE <<>>]
  /\ traces = <<>>
  /\ idle_spins = 0
  /\ shutdown = FALSE
  /\ outcome = "running"
  /\ passed_over = {}

(* The signal may arrive at any time; the loop reads the flag before each  *)
(* task.                                                                   *)
Signal ==
  /\ outcome = "running" /\ ~shutdown
  /\ shutdown' = TRUE
  /\ UNCHANGED <<treeVars, lanes, seen, traces, idle_spins, outcome, passed_over>>

Interrupt ==
  /\ outcome = "running" /\ shutdown
  /\ outcome' = "interrupted"
  /\ UNCHANGED <<treeVars, lanes, seen, traces, idle_spins, shutdown, passed_over>>

Looping == outcome = "running" /\ ~shutdown

(* Mistake: an idle turn counts as work. *)
IdleForever ==
  /\ Looping /\ QueuesEmpty
  /\ idle_spins' = 0
  /\ UNCHANGED <<treeVars, lanes, seen, traces, shutdown, outcome, passed_over>>

Idle ==
  /\ Looping /\ QueuesEmpty
  /\ idle_spins' = idle_spins + 1
  /\ outcome' = IF idle_spins' >= IDLE_SPIN_LIMIT THEN "finished" ELSE "running"
  /\ UNCHANGED <<treeVars, lanes, seen, traces, shutdown, passed_over>>

(* What dispatch has popped. *)
Dispatch(p, kind) ==
  /\ Looping /\ PopsFrom(p) /\ Head(lanes[p]).kind = kind
  /\ idle_spins' = 0
  /\ UNCHANGED shutdown

(* The error of a dispatched task ends the run: what was popped is gone.   *)
Abort(p) ==
  /\ outcome' = "failed"
  /\ lanes' = [lanes EXCEPT ![p] = Tail(@)]
  /\ UNCHANGED <<treeVars, seen, traces, passed_over>>

(* The task left the tree, or lost its action, since it was queued.        *)
Runnable(t) == t \in Present /\ tasks[t].action # NoAction

(* Mistake: a task that is passed over is forgotten. *)
PassOverUnseen(p) ==
  /\ Dispatch(p, "action")
  /\ ~Runnable(Head(lanes[p]).id)
  /\ lanes' = [lanes EXCEPT ![p] = Tail(@)]
  /\ seen' = SelectSeq(seen, LAMBDA t : t # Head(lanes[p]).id)
  /\ passed_over' = passed_over \cup {Head(lanes[p]).id}
  /\ UNCHANGED <<treeVars, traces, outcome>>

PassOver(p) ==
  /\ Dispatch(p, "action")
  /\ ~Runnable(Head(lanes[p]).id)
  /\ lanes' = [lanes EXCEPT ![p] = Tail(@)]
  /\ passed_over' = passed_over \cup {Head(lanes[p]).id}
  /\ UNCHANGED <<treeVars, seen, traces, outcome>>

Registered(t) == actions[tasks[t].action] # NoDef

(* do_action returned Ok and left the events es in its context.            *)
ExecuteAction(p, es) ==
  LET t == Head(lanes[p]).id IN
  /\ Dispatch(p, "action")
  /\ Runnable(t) /\ Registered(t)
  /\ traces' = Append(traces, t)
  /\ PopPushScan(p, es, tasks, order)
  /\ UNCHANGED <<treeVars, outcome, passed_over>>

(* ActionNotRegistered, or the error of do_action: the events it emitted   *)
(* are dropped.                                                            *)
FailAction(p) ==
  /\ Dispatch(p, "action")
  /\ Runnable(Head(lanes[p]).id)
  /\ Abort(p)

(* Mistake: the changed tree is not scanned. *)
ExecuteEventUnscanned(p) ==
  /\ Dispatch(p, "event")
  /\ Apply(Head(lanes[p]).event)
  /\ lanes' = [lanes EXCEPT ![p] = Tail(@)]
  /\ UNCHANGED <<seen, traces, outcome, passed_over>>

ExecuteEvent(p) ==
  /\ Dispatch(p, "event")
  /\ Apply(Head(lanes[p]).event)
  /\ PopPushScan(p, <<>>, tasks', order')
  /\ UNCHANGED <<traces, outcome, passed_over>>

FailEvent(p) ==
  /\ Dispatch(p, "event")
  /\ Refused(Head(lanes[p]).event)
  /\ Abort(p)

(* run() returned. *)
Returned == outcome # "running" /\ UNCHANGED vars

-----------------------------------------------------------------------------
Emission == UNION {[1 .. n -> EventInput] : n \in 0 .. MaxEmit}

Step ==
  \/ Interrupt
  \/ Idle
  \/ \E p \in Lane : PassOver(p) \/ FailAction(p) \/ ExecuteEvent(p) \/ FailEvent(p)
  \/ \E p \in Lane, es \in Emission : ExecuteAction(p, es)

Next == Step \/ Signal \/ Returned

Spec == Init /\ [][Next]_vars

(* The thread of the loop runs, and do_action returns (ActionComponent     *)
(* implementations bound their attempts); no signal need ever come.        *)
FairSpec == Spec /\ WF_vars(Step)

-----------------------------------------------------------------------------
TypeOK ==
  /\ WorkflowTypeOK
  /\ lanes \in [Lane -> Seq(ActionWork \cup EventWork)]
  /\ lanes[EVENT_PRIORITY] \in Seq(EventWork)
  /\ lanes[ACTION_PRIORITY] \in Seq(ActionWork)
  /\ seen \in Seq(TaskId)
  /\ traces \in Seq(TaskId)
  /\ idle_spins \in Nat
  /\ shutdown \in BOOLEAN
  /\ outcome \in Outcome
  /\ passed_over \subseteq TaskId

Executed == {traces[i] : i \in DOMAIN traces}

Queued == {t \in TaskId : \E p \in Lane : \E i \in DOMAIN lanes[p] :
             lanes[p][i] = [kind |-> "action", id |-> t]}

(* The part of the scan order that has left the action lane. *)
Taken == 1 .. Len(seen) - Len(lanes[ACTION_PRIORITY])

TakenTasks == {seen[i] : i \in Taken}

(* The lane holds the last Len(lane) tasks of the scan order s. *)
IsRestOf(lane, s) ==
  /\ Len(lane) <= Len(s)
  /\ \A i \in 1 .. Len(lane) : lane[i] = [kind |-> "action", id |-> s[Len(s) - Len(lane) + i]]

(* seen_tasks, the lanes and the traces tell one story: every action task  *)
(* of the tree was seen once, what is seen waits in the action lane in the *)
(* order of the scans, and what left that lane was executed or found empty *)
(* (but for a task whose failure ends the run).                            *)
ScanBookkeeping ==
  /\ \A i, j \in DOMAIN seen : seen[i] = seen[j] => i = j
  /\ NewActionTasks(tasks, SeenTasks) = {}
  /\ IsRestOf(lanes[ACTION_PRIORITY], seen)
  /\ Executed \cup passed_over \subseteq TakenTasks
  /\ outcome # "failed" => TakenTasks \subseteq Executed \cup passed_over

(* Actions are executed in the order in which the scans found their tasks, *)
(* whatever is inserted, removed and inserted again meanwhile: in          *)
(* particular no task is ever executed twice.                              *)
RunsInScanOrder ==
  \A i, j \in DOMAIN traces : i < j =>
    \E k, l \in DOMAIN seen : k < l /\ seen[k] = traces[i] /\ seen[l] = traces[j]

AtMostOnce == \A i, j \in DOMAIN traces : traces[i] = traces[j] => i = j

(* "Uses priority = 4 so mutations are applied before subsequent actions": *)
(* an action is executed only once no event of an earlier one is waiting.  *)
EventsFirst ==
  [][traces' # traces => \A p \in Lane : \A i \in DOMAIN lanes[p] :
       lanes[p][i].kind = "action"]_vars

(* A run that ends by itself leaves nothing behind: every event was        *)
(* applied and every action task of the tree, inserted by whichever event, *)
(* was executed or was found empty when its turn came.                     *)
FinishedMeansAllSettled ==
  outcome = "finished" =>
    /\ QueuesEmpty
    /\ \A t \in Present : tasks[t].action # NoAction => t \in Executed \cup passed_over

(* "The runtime keeps scanning for newly inserted action tasks after every *)
(* action/event, so dynamic fan-out workflows continue in the same         *)
(* session": a run that ends by itself executed every action task.         *)
FinishedMeansAllExecuted ==
  outcome = "finished" =>
    \A t \in Present : tasks[t].action # NoAction => t \in Executed

(* The loop ends: no chain of insertions, removals and updates keeps it    *)
(* busy forever, since a task is taken up once.                            *)
Termination == <>(outcome # "running")

Phase == IF outcome = "running" THEN "open"
         ELSE IF outcome = "finished" THEN "finished" ELSE "stopped"

(* The run is a work list: tasks are found, taken up once, and all of them *)
(* are when the run ends by itself.                                        *)
Worklist == INSTANCE WorkList WITH
  Work <- TaskId,
  pending <- Queued,
  settled <- Executed \cup passed_over,
  phase <- Phase

ImplementsWorkList == Worklist!WorkSpec
=============================================================================

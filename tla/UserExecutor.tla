---------------------------- MODULE UserExecutor ----------------------------
(***************************************************************************)
(* One virtual user of a load test: Scenario::validate                     *)
(* (core-libs/src/dsl/mod.rs) and UserExecutor (scheduler/src/user.rs),    *)
(* which walks the workflow from "start" to an end node, once for every    *)
(* iteration.  A trace is represented by the id of the node whose action   *)
(* it records.  A condition is rendered in a context of the user, tenant,  *)
(* address and workbook, none of which changes during a run.  What actions *)
(* return does not get into that context (a TODO in execute_workflow),     *)
(* although workflows have conditions on it: outputs is what these would   *)
(* come to, and no step of the walk looks at it.                           *)
(***************************************************************************)
EXTENDS Integers, Sequences

CONSTANTS
  NodeId, ActionId,
  Start,          \* the id "start"
  Condition,      \* the conditions of triggers
  OnOutput,       \* those that mention what an action returns
  True,           \* the condition "true"
  ScenarioInput,  \* the scenarios that may be loaded, accepted or not
  LifetimeInput,  \* load.user_lifetime
  UsizeMax,       \* usize::MAX; small here, so that iterations = 0 ends too
  MaxWalk,        \* bound of the model on the actions of one iteration
  NoAction,       \* a node without an action
  NoTrigger,      \* an edge without a trigger
  NoCondition     \* a trigger without a condition

Edge == [to : NodeId, trigger : Condition \cup {NoTrigger, NoCondition}]

Node == [id : NodeId, type : {"action", "end"},
         action : ActionId \cup {NoAction}, edges : Seq(Edge)]

Scenario == [nodes : Seq(Node), actions : SUBSET ActionId]

Lifetime == [mode : {"once", "loop"}, iterations : Nat]

Error == {"NodeNotFound", "NoAction", "ActionNotFound", "ActionFailed", "NoMatchingEdge"}

ASSUME UserAssumption ==
  /\ Start \in NodeId /\ True \in Condition \ OnOutput /\ OnOutput \subseteq Condition
  /\ ScenarioInput \subseteq Scenario /\ LifetimeInput \subseteq Lifetime
  /\ UsizeMax \in Nat \ {0} /\ MaxWalk \in Nat
  /\ \A l \in LifetimeInput : l.iterations <= UsizeMax
  /\ NoAction \notin ActionId /\ {NoTrigger, NoCondition} \cap Condition = {}
  /\ NoTrigger # NoCondition

VARIABLES
  scenario,    \* the scenario that was loaded
  lifetime,    \* how often the user is to repeat it
  holds,       \* the conditions that hold in the context of this user
  outcome,     \* "Loaded", "Rejected", "Running", "Ok" or an error
  iteration,   \* from 0
  current,     \* current_node
  outputs,     \* the conditions that hold of what the actions have returned
  traces,      \* of this iteration
  all_traces   \* of the completed iterations, one sequence for each

userVars ==
  <<scenario, lifetime, holds, outcome, iteration, current, outputs, traces, all_traces>>
inputVars == <<scenario, lifetime, holds>>

-----------------------------------------------------------------------------
HasNode(s, id) == \E i \in DOMAIN s.nodes : s.nodes[i].id = id

(* nodes.iter().find: ids may occur twice, the first node is taken.        *)
FindNode(s, id) ==
  s.nodes[CHOOSE i \in DOMAIN s.nodes :
            s.nodes[i].id = id /\ \A j \in 1 .. i-1 : s.nodes[j].id # id]

(* The conditions that a workflow has. *)
ConditionsOf(s) ==
  {c \in Condition : \E i \in DOMAIN s.nodes :
     \E k \in DOMAIN s.nodes[i].edges : s.nodes[i].edges[k].trigger = c}

(* What may hold of a user's context, and of what actions return. *)
ContextInput(s) == {S \cup {True} : S \in SUBSET ConditionsOf(s)}
OutputInput(s) == SUBSET (OnOutput \cap ConditionsOf(s))

(* Mistake: the targets of edges are not looked up. *)
AcceptsAnyEdge(s) ==
  \A i \in DOMAIN s.nodes : s.nodes[i].action # NoAction => s.nodes[i].action \in s.actions

(* Scenario::validate.  It asks neither for a node "start" nor that an     *)
(* action node has an action or an edge.                                   *)
Accepts(s) ==
  \A i \in DOMAIN s.nodes :
    /\ s.nodes[i].action # NoAction => s.nodes[i].action \in s.actions
    /\ \A k \in DOMAIN s.nodes[i].edges : HasNode(s, s.nodes[i].edges[k].to)

(* 0 iterations stand for as many as a usize can count.                    *)
Iterations == IF lifetime.iterations = 0 THEN UsizeMax ELSE lifetime.iterations

Matches(edge) == edge.trigger = NoTrigger \/ edge.trigger \in holds

(* select_next_node: the first edge that matches. *)
Selects(node, id) ==
  \E k \in DOMAIN node.edges :
    /\ Matches(node.edges[k]) /\ node.edges[k].to = id
    /\ \A j \in 1 .. k-1 : ~Matches(node.edges[j])

NoMatch(node) == \A k \in DOMAIN node.edges : ~Matches(node.edges[k])

Here == FindNode(scenario, current)

AtAction == outcome = "Running" /\ HasNode(scenario, current) /\ Here.type = "action"
AtEnd == outcome = "Running" /\ HasNode(scenario, current) /\ Here.type = "end"

CanPerform == AtAction /\ Here.action \in scenario.actions

-----------------------------------------------------------------------------
UserInit ==
  /\ scenario \in ScenarioInput
  /\ lifetime \in LifetimeInput
  /\ holds \in ContextInput(scenario)
  /\ outcome = "Loaded"
  /\ iteration = 0
  /\ current = Start
  /\ outputs = {}
  /\ traces = <<>>
  /\ all_traces = <<>>

(* load_from_yaml_str, then the user is created and runs. *)
Load ==
  /\ outcome = "Loaded"
  /\ outcome' = IF Accepts(scenario) THEN "Running" ELSE "Rejected"
  /\ UNCHANGED <<inputVars, iteration, current, outputs, traces, all_traces>>

(* Mistake: the traces of earlier iterations are returned all the same. *)
FailButKeep(error) ==
  /\ outcome' = error /\ traces' = <<>>
  /\ UNCHANGED <<inputVars, iteration, current, outputs, all_traces>>

(* `?`: the iteration and all earlier ones leave no traces. *)
Fail(error) ==
  /\ outcome' = error
  /\ traces' = <<>>
  /\ all_traces' = <<>>
  /\ UNCHANGED <<inputVars, iteration, current, outputs>>

MissNode ==
  /\ outcome = "Running"
  /\ ~HasNode(scenario, current)
  /\ Fail("NodeNotFound")

MissAction ==
  /\ AtAction
  /\ \/ Here.action = NoAction /\ Fail("NoAction")
     \/ Here.action # NoAction /\ Here.action \notin scenario.actions /\ Fail("ActionNotFound")

(* do_action returns an error. *)
FailAction == CanPerform /\ Fail("ActionFailed")

(* do_action succeeds, and no edge can be followed. *)
GetStuck == CanPerform /\ NoMatch(Here) /\ Fail("NoMatchingEdge")

(* Mistake: a condition is evaluated anew and may have changed. *)
FollowChanging(id) ==
  /\ CanPerform
  /\ Len(traces) < MaxWalk
  /\ Selects(Here, id)
  /\ traces' = Append(traces, current)
  /\ current' = id
  /\ holds' \in ContextInput(scenario)
  /\ outputs' \in OutputInput(scenario)
  /\ UNCHANGED <<scenario, lifetime, outcome, iteration, all_traces>>

(* do_action succeeds with any output, its trace is recorded, and the next *)
(* node selected, by the conditions that hold in the user's context.       *)
Follow(id) ==
  /\ CanPerform
  /\ Len(traces) < MaxWalk
  /\ Selects(Here, id)
  /\ traces' = Append(traces, current)
  /\ current' = id
  /\ outputs' \in OutputInput(scenario)
  /\ UNCHANGED <<inputVars, outcome, iteration, all_traces>>

(* Mistakes: one iteration too many; the iteration is not counted; the     *)
(* walk is not taken back to the start.                                    *)
FinishUnbounded ==
  /\ AtEnd
  /\ all_traces' = Append(all_traces, traces)
  /\ traces' = <<>>
  /\ current' = Start
  /\ iteration' = iteration + 1
  /\ outcome' = IF iteration = Iterations THEN "Ok" ELSE outcome
  /\ UNCHANGED <<inputVars, outputs>>

RepeatUncounted ==
  /\ AtEnd /\ traces' = <<>> /\ current' = Start
  /\ UNCHANGED <<inputVars, outcome, iteration, outputs, all_traces>>

FinishInPlace ==
  /\ AtEnd
  /\ all_traces' = Append(all_traces, traces)
  /\ traces' = <<>>
  /\ iteration' = iteration + 1
  /\ outcome' = IF iteration + 1 = Iterations THEN "Ok" ELSE outcome
  /\ UNCHANGED <<inputVars, current, outputs>>

(* An end node ends the iteration; the next one starts afresh. *)
FinishIteration ==
  /\ AtEnd
  /\ all_traces' = Append(all_traces, traces)
  /\ traces' = <<>>
  /\ current' = Start
  /\ iteration' = iteration + 1
  /\ outcome' = IF iteration + 1 = Iterations THEN "Ok" ELSE outcome
  /\ UNCHANGED <<inputVars, outputs>>

(* The user is done, or the bound of the model is reached. *)
Halted ==
  /\ outcome \notin {"Loaded", "Running"} \/ Len(traces) = MaxWalk
  /\ UNCHANGED userVars

Walk ==
  \/ Load
  \/ MissNode \/ MissAction \/ FailAction \/ GetStuck
  \/ \E id \in NodeId : Follow(id)
  \/ FinishIteration

UserNext == Walk \/ Halted

UserSpec == UserInit /\ [][UserNext]_userVars

(* One thread that waits for nothing but do_action and a sleep. *)
FairUserSpec == UserSpec /\ WF_userVars(Walk)

-----------------------------------------------------------------------------
UserTypeOK ==
  /\ scenario \in ScenarioInput /\ lifetime \in LifetimeInput
  /\ holds \in SUBSET Condition
  /\ outcome \in {"Loaded", "Rejected", "Running", "Ok"} \cup Error
  /\ iteration \in 0 .. UsizeMax
  /\ current \in NodeId
  /\ outputs \in SUBSET OnOutput
  /\ traces \in Seq(NodeId)
  /\ all_traces \in Seq(Seq(NodeId))

(* A validated scenario can miss no node but "start", and no action: the   *)
(* walk never leaves the nodes that validate has seen.                     *)
LookupsSucceed ==
  /\ outcome # "ActionNotFound"
  /\ outcome = "NodeNotFound" => ~HasNode(scenario, Start)

(* The workflow has no condition on what an action returns.                *)
AsksForNoOutput == OnOutput \cap ConditionsOf(scenario) = {}

(* Then nothing a user does can change how its conditions come out, so an  *)
(* iteration that comes to a node twice never ends: the iterations that do *)
(* end perform each node's action at most once.                            *)
Simple(walk) == \A i, j \in 1 .. Len(walk) : walk[i] = walk[j] => i = j

CompletedWalksAreSimple == \A n \in DOMAIN all_traces : Simple(all_traces[n])

(* And all iterations of a user perform the same actions in the same       *)
(* order, the one that is under way a part of them.                        *)
IterationsRepeat ==
  /\ \A m, n \in DOMAIN all_traces : all_traces[m] = all_traces[n]
  /\ \A n \in DOMAIN all_traces :
       /\ Len(traces) <= Len(all_traces[n])
       /\ \A i \in DOMAIN traces : traces[i] = all_traces[n][i]

(* The caller gets the traces of every iteration, or of none.              *)
TracesOfAllOrNone ==
  /\ outcome = "Ok" => Len(all_traces) = Iterations
  /\ outcome \in Error => all_traces = <<>>

(* A user ends, or its walk comes to a node again. *)
EndsOrRevisits == <>(outcome \notin {"Loaded", "Running"} \/ ~Simple(Append(traces, current)))

(* What a walk through a validated scenario can come to. *)
WalksSound ==
  /\ UserTypeOK /\ LookupsSucceed /\ TracesOfAllOrNone
  /\ AsksForNoOutput => CompletedWalksAreSimple /\ IterationsRepeat

(* What the documents say of conditions on outputs: the edge that is       *)
(* followed from an action is the first that holds with what has been      *)
(* returned.  The code selects without it.                                 *)
HoldsWithOutputs(edge) ==
  edge.trigger = NoTrigger \/ edge.trigger \in (holds \ OnOutput) \cup outputs

=============================================================================

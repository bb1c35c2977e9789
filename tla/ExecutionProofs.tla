-------------------------- MODULE ExecutionProofs ---------------------------
(***************************************************************************)
(* What is proved of the modules that execute scenarios: a call of the     *)
(* pipeline leaves nothing behind but what it reports, the walk of a user  *)
(* through a scenario is sound, and so is the rendering of a text.         *)
(***************************************************************************)
EXTENDS Pipeline, UserExecutor, Template, DataLemmas

(***************************************************************************)
(* The pipeline, for every number of calls and components: what a call of  *)
(* run leaves behind, and that components see the life cycle of            *)
(* ComponentLifecycle.tla.                                                 *)
(***************************************************************************)

(* A component is held open by a call only between its init and its       *)
(* release, or after an error of the handler; two calls that are under     *)
(* way have different components.                                          *)
HoldersKnown ==
  \A r \in Run, c \in Component :
    <<r, c>> \in open => /\ uses[r] = c
                         /\ \/ pc[r] \in {"setup", "loop", "release"}
                            \/ pc[r] = "done" /\ result[r] = "signal"

ActiveHold ==
  \A r \in Run : pc[r] \in {"setup", "loop", "release"} => <<r, uses[r]>> \in open

Exclusive ==
  \A r, s \in Run :
    pc[r] \notin {"idle", "done"} /\ pc[s] \notin {"idle", "done"} /\ uses[r] = uses[s] => r = s

(* What a call has to tell at each place, and what handler says of it. *)
ResultKnown ==
  \A r \in Run :
    /\ pc[r] \in {"idle", "init", "setup", "loop"} => result[r] = "none"
    /\ pc[r] = "release" => result[r] \in {"ok", "action"}
    /\ pc[r] = "done" => result[r] # "none"

RefusedKnown ==
  \A r \in Run :
    /\ r \in refused => pc[r] = "done" /\ result[r] \in {"release", "action"}
    /\ result[r] = "release" => r \in refused

HandlerKnown ==
  \A r \in Run :
    \/ pc[r] \in {"idle", "init", "setup"}
    \/ pc[r] = "done" /\ result[r] \in {"init", "signal"}
    \/ native /\ handler = r
    \/ ~native

PipelineInv ==
  /\ PipelineTypeOK
  /\ HoldersKnown
  /\ ActiveHold
  /\ Exclusive
  /\ ResultKnown
  /\ RefusedKnown
  /\ HandlerKnown

-----------------------------------------------------------------------------
(* The initial states satisfy the invariant. *)
LEMMA InitPipelineInv == PipelineInit => PipelineInv
  BY PipelineAssumption
  DEF PipelineInit, PipelineInv, PipelineTypeOK, HoldersKnown, ActiveHold, Exclusive, ResultKnown,
         RefusedKnown, HandlerKnown, Place, Outcome

(* Every step keeps the types. *)
LEMMA NextTypeOK == PipelineTypeOK /\ [PipelineNext]_pipelineVars => PipelineTypeOK'
<1> SUFFICES ASSUME PipelineTypeOK, [PipelineNext]_pipelineVars PROVE PipelineTypeOK'
  OBVIOUS
<1> USE PipelineAssumption DEF PipelineTypeOK, Place, Outcome
<1>1. ASSUME NEW r \in Run, NEW c \in Component, Call(r, c) PROVE PipelineTypeOK'
  BY <1>1 DEF Call, Go, Borrowed
<1>2. ASSUME NEW r \in Run, Initialise(r) PROVE PipelineTypeOK'
  BY <1>2 DEF Initialise, Go, Return, Record
<1>3. ASSUME NEW r \in Run, Setup(r) PROVE PipelineTypeOK'
  BY <1>3 DEF Setup, Go, Return, Record
<1>4. ASSUME NEW r \in Run, Perform(r) PROVE PipelineTypeOK'
  BY <1>4 DEF Perform
<1>5. ASSUME NEW r \in Run, EndLoop(r) PROVE PipelineTypeOK'
  BY <1>5 DEF EndLoop, Go, Record
<1>6. ASSUME NEW r \in Run, Release(r) PROVE PipelineTypeOK'
  BY <1>6 DEF Release, Go, Record
<1>7. CASE Interrupt
  BY <1>7 DEF Interrupt
<1>8. CASE UNCHANGED pipelineVars
  BY <1>8 DEF pipelineVars
<1>9. QED
  BY <1>1, <1>2, <1>3, <1>4, <1>5, <1>6, <1>7, <1>8 DEF PipelineNext, Step

(* Every step preserves the invariant. *)
LEMMA NextPipelineInv == PipelineInv /\ [PipelineNext]_pipelineVars => PipelineInv'
<1> SUFFICES ASSUME PipelineInv, [PipelineNext]_pipelineVars PROVE PipelineInv'
  OBVIOUS
<1> DEFINE Rest == HoldersKnown /\ ActiveHold /\ Exclusive /\ ResultKnown /\ RefusedKnown /\ HandlerKnown
<1> USE PipelineAssumption
    DEF PipelineInv, PipelineTypeOK, HoldersKnown, ActiveHold, Exclusive, ResultKnown,
            RefusedKnown, HandlerKnown
<1>1. ASSUME NEW r \in Run, NEW c \in Component, Call(r, c) PROVE Rest'
  BY <1>1 DEF Call, Go, Borrowed
<1>2. ASSUME NEW r \in Run, Initialise(r) PROVE Rest'
  BY <1>2 DEF Initialise, Go, Return, Record
<1>3. ASSUME NEW r \in Run, Setup(r) PROVE Rest'
  BY <1>3 DEF Setup, Go, Return, Record
<1>4. ASSUME NEW r \in Run, Perform(r) PROVE Rest'
  BY <1>4 DEF Perform
<1>5. ASSUME NEW r \in Run, EndLoop(r) PROVE Rest'
  BY <1>5 DEF EndLoop, Go, Record
<1>6. ASSUME NEW r \in Run, Release(r) PROVE Rest'
  BY <1>6 DEF Release, Go, Record
<1>7. ASSUME Interrupt PROVE Rest'
  BY <1>7 DEF Interrupt
<1>8. ASSUME UNCHANGED pipelineVars PROVE Rest'
  BY <1>8 DEF pipelineVars
<1>9. Rest'
  BY <1>1, <1>2, <1>3, <1>4, <1>5, <1>6, <1>7, <1>8 DEF PipelineNext, Step
<1>10. QED
  BY <1>9, NextTypeOK

(* PipelineInv is an invariant. *)
THEOREM SpecPipelineInv == PipelineSpec => []PipelineInv
  BY InitPipelineInv, NextPipelineInv, PTL DEF PipelineSpec

(* The variables keep their types, and a call that has begun has a         *)
(* component (SchedulerPipeline::run).                                     *)
THEOREM TypeCorrect == PipelineSpec => []PipelineTypeOK
  BY SpecPipelineInv, PTL DEF PipelineInv

(* Whatever fails in a call of run, the component is released, unless it   *)
(* is the handler of Ctrl+C.                                               *)
THEOREM OnlySignalLeaksAlways == PipelineSpec => []OnlySignalLeaks
<1>1. PipelineInv => OnlySignalLeaks
  BY DEF PipelineInv, HoldersKnown, OnlySignalLeaks
<1>2. QED
  BY <1>1, SpecPipelineInv, PTL

(* One call of a native process at most performs actions. *)
THEOREM OneRunPerProcessAlways == PipelineSpec => []OneRunPerProcess
<1>1. PipelineInv => OneRunPerProcess
  BY PipelineAssumption DEF PipelineInv, PipelineTypeOK, HandlerKnown, OneRunPerProcess
<1>2. QED
  BY <1>1, SpecPipelineInv, PTL

(* A failed release is reported unless an action has failed before. *)
THEOREM RefusalsShowAlways == PipelineSpec => []RefusalsShow
<1>1. PipelineInv => RefusalsShow
  BY DEF PipelineInv, RefusedKnown, RefusalsShow
<1>2. QED
  BY <1>1, SpecPipelineInv, PTL

(* For any calls of run, components and failures: what they leave behind   *)
(* and what they report is accounted for.                                  *)
THEOREM CallsAlwaysAccounted == PipelineSpec => []CallsAccounted
BY TypeCorrect, OnlySignalLeaksAlways, OneRunPerProcessAlways, RefusalsShowAlways, PTL
   DEF CallsAccounted

-----------------------------------------------------------------------------
(* Every step is one of the life cycle, for the component that its call    *)
(* uses, or nothing that a component sees.                                 *)
LEMMA StepIsLifecycleStep ==
  ASSUME PipelineInv, [PipelineNext]_pipelineVars
  PROVE  [Lifecycle!Next]_(Lifecycle!vars)
<1> USE DEF PipelineInv, PipelineTypeOK
<1>1. ASSUME NEW r \in Run, Initialise(r) PROVE [Lifecycle!Next]_(Lifecycle!vars)
  <2>1. uses[r] \in Component /\ \A s \in Run : <<s, uses[r]>> \notin Held
    BY <1>1 DEF Initialise, HoldersKnown, Exclusive, Held
  <2>2. CASE pc' = [pc EXCEPT ![r] = "setup"] /\ open' = open \cup {<<r, uses[r]>>}
    <3>1. Held' = Held \cup {<<r, uses[r]>>}
      BY <1>1, <2>1, <2>2 DEF Initialise, Held
    <3>2. Working' = Working /\ Left' = Left
      BY <1>1, <2>1, <2>2 DEF Initialise, Working, Left
    <3>3. Lifecycle!Initialise(r, uses[r])
      BY <1>1, <2>1, <3>1, <3>2 DEF Initialise, Lifecycle!Initialise
    <3> QED BY <2>1, <3>3 DEF Lifecycle!Next
  <2>3. CASE pc' = [pc EXCEPT ![r] = "done"] /\ open' = open
    <3>1. \A p \in open : p[1] # r
      BY <1>1 DEF Initialise, HoldersKnown
    <3>2. Held' = Held /\ Working' = Working /\ Left' = Left
      BY <2>3, <3>1 DEF Held, Working, Left
    <3> QED BY <1>1, <3>2 DEF Initialise, Lifecycle!vars
  <2> QED BY <1>1, <2>2, <2>3 DEF Initialise, Go, Return
<1>2. ASSUME NEW r \in Run, Setup(r) PROVE [Lifecycle!Next]_(Lifecycle!vars)
  <2>1. /\ uses[r] \in Component /\ <<r, uses[r]>> \in Held \ Working
        /\ \A p \in open : p[1] = r => p = <<r, uses[r]>>
    BY <1>2 DEF Setup, ActiveHold, HoldersKnown, Held, Working
  <2>2. CASE pc' = [pc EXCEPT ![r] = "done"]
    <3>1. Held' = Held \ {<<r, uses[r]>>}
      BY <1>2, <2>1, <2>2 DEF Setup, Held
    <3>2. Left' = Left \cup {<<r, uses[r]>>}
      BY <1>2, <2>1, <2>2 DEF Setup, Held, Left
    <3>3. Working' = Working
      BY <1>2, <2>1, <2>2 DEF Setup, Held, Working
    <3>4. Lifecycle!Leave(r, uses[r])
      BY <1>2, <2>1, <3>1, <3>2, <3>3 DEF Setup, Lifecycle!Leave
    <3> QED BY <2>1, <3>4 DEF Lifecycle!Next
  <2>3. CASE pc' = [pc EXCEPT ![r] = "loop"]
    <3>1. Held' = Held /\ Left' = Left
      BY <1>2, <2>1, <2>3 DEF Setup, Held, Left
    <3>2. Working' = Working \cup {<<r, uses[r]>>}
      BY <1>2, <2>1, <2>3 DEF Setup, Held, Working
    <3>3. Lifecycle!Begin(r, uses[r])
      BY <1>2, <2>1, <3>1, <3>2 DEF Setup, Lifecycle!Begin
    <3> QED BY <2>1, <3>3 DEF Lifecycle!Next
  <2> QED BY <1>2, <2>2, <2>3 DEF Setup, Go, Return
<1>3. ASSUME NEW r \in Run, Perform(r) PROVE [Lifecycle!Next]_(Lifecycle!vars)
  <2>1. uses[r] \in Component /\ <<r, uses[r]>> \in Working
    BY <1>3 DEF Perform, ActiveHold, Working
  <2>2. Held' = Held /\ Working' = Working /\ Left' = Left
    BY <1>3 DEF Perform, Held, Working, Left
  <2>3. Lifecycle!Perform(r, uses[r])
    BY <1>3, <2>1, <2>2 DEF Perform, Lifecycle!Perform
  <2> QED BY <2>1, <2>3 DEF Lifecycle!Next
<1>4. ASSUME NEW r \in Run, EndLoop(r) PROVE [Lifecycle!Next]_(Lifecycle!vars)
  <2>1. Held' = Held /\ Working' = Working /\ Left' = Left
    BY <1>4 DEF EndLoop, Go, Held, Working, Left
  <2> QED BY <1>4, <2>1 DEF EndLoop, Lifecycle!vars
<1>5. ASSUME NEW r \in Run, Release(r) PROVE [Lifecycle!Next]_(Lifecycle!vars)
  <2>1. /\ uses[r] \in Component /\ <<r, uses[r]>> \in Working
        /\ \A p \in open : p[1] = r => p = <<r, uses[r]>>
    BY <1>5 DEF Release, ActiveHold, HoldersKnown, Working
  <2>2. pc' = [pc EXCEPT ![r] = "done"] /\ open' = open \ {<<r, uses[r]>>} /\ turn' = turn
    BY <1>5 DEF Release, Go
  <2>3. Held' = Held \ {<<r, uses[r]>>}
    BY <2>1, <2>2 DEF Held
  <2>4. Working' = Working \ {<<r, uses[r]>>}
    BY <2>1, <2>2 DEF Working
  <2>5. Left' = Left
    BY <1>5, <2>1, <2>2 DEF Release, Left
  <2>6. Lifecycle!Release(r, uses[r])
    BY <2>1, <2>2, <2>3, <2>4, <2>5 DEF Lifecycle!Release
  <2> QED BY <2>1, <2>6 DEF Lifecycle!Next
<1>6. ASSUME NEW r \in Run, NEW c \in Component, Call(r, c) PROVE UNCHANGED Lifecycle!vars
  <2>1. \A p \in open : p[1] # r
    BY <1>6 DEF Call, HoldersKnown
  <2>2. Held' = Held /\ Working' = Working /\ Left' = Left
    BY <1>6, <2>1 DEF Call, Go, Held, Working, Left
  <2> QED BY <1>6, <2>2 DEF Call, Lifecycle!vars
<1>7. ASSUME Interrupt \/ UNCHANGED pipelineVars PROVE UNCHANGED Lifecycle!vars
  BY <1>7 DEF Interrupt, pipelineVars, Lifecycle!vars, Held, Working, Left
<1> QED
  BY <1>1, <1>2, <1>3, <1>4, <1>5, <1>6, <1>7 DEF PipelineNext, Step

(* In every build and process, whatever calls overlap or fail, components  *)
(* see init, actions and release in turn, from one caller at a time; one   *)
(* that is left unreleased has performed no action for the call.           *)
THEOREM RunKeepsLifecycle == PipelineSpec => LifecycleKept
<1>1. PipelineInit => Lifecycle!Init
  BY DEF PipelineInit, Lifecycle!Init, Held, Working, Left
<1>2. PipelineInv /\ [PipelineNext]_pipelineVars => [Lifecycle!Next]_(Lifecycle!vars)
  BY StepIsLifecycleStep
<1>3. QED
  BY <1>1, <1>2, SpecPipelineInv, PTL DEF PipelineSpec, LifecycleKept, Lifecycle!Spec

-----------------------------------------------------------------------------
(***************************************************************************)
(* The walk of a user through any scenario, under any conditions.  The     *)
(* successor of a node is a function of the node: once a walk has come to  *)
(* a node twice it only meets nodes it has visited, which are actions, so  *)
(* no end is in reach; and two walks from the start agree as far as both   *)
(* go, so all iterations are the same.                                     *)
(***************************************************************************)

IsAction(s, id) == HasNode(s, id) /\ FindNode(s, id).type = "action"

(* Selects, of scenario s and the conditions h that hold. *)
Fits(h, edge) == edge.trigger = NoTrigger \/ edge.trigger \in h

Leads(s, h, id, to) ==
  \E k \in DOMAIN FindNode(s, id).edges :
    /\ Fits(h, FindNode(s, id).edges[k]) /\ FindNode(s, id).edges[k].to = to
    /\ \A j \in 1 .. k-1 : ~Fits(h, FindNode(s, id).edges[j])

(* The actions of walk lead from the start to the node last. *)
Walked(s, h, walk, last) ==
  /\ \A i \in 1 .. Len(walk) : IsAction(s, walk[i])
  /\ \A i \in 1 .. Len(walk) - 1 : Leads(s, h, walk[i], walk[i+1])
  /\ Len(walk) = 0 => last = Start
  /\ Len(walk) > 0 => walk[1] = Start /\ Leads(s, h, walk[Len(walk)], last)

(* A walk that met a node twice is at one it has visited. *)
Circles(walk, last) == Simple(walk) \/ \E i \in 1 .. Len(walk) : walk[i] = last

(* A walk that is at last has followed whole so far. *)
Follows(walk, last, whole) ==
  /\ Len(walk) <= Len(whole)
  /\ \A i \in 1 .. Len(walk) : walk[i] = whole[i]
  /\ Len(walk) < Len(whole) => last = whole[Len(walk) + 1]

Complete(s, h, walk) ==
  /\ \E e \in NodeId : Walked(s, h, walk, e) /\ ~IsAction(s, e)
  /\ Simple(walk)

-----------------------------------------------------------------------------
(* What FindNode finds is the first node of that id. *)
LEMMA FindNodeFinds ==
  ASSUME NEW s \in Scenario, NEW id, HasNode(s, id)
  PROVE  \E i \in DOMAIN s.nodes : FindNode(s, id) = s.nodes[i] /\ FindNode(s, id) \in Node
<1>1. s.nodes \in Seq(Node) /\ DOMAIN s.nodes \subseteq Nat
  BY DEF Scenario
<1> DEFINE T == {i \in DOMAIN s.nodes : s.nodes[i].id = id}
<1>2. T \subseteq Nat /\ T # {}
  BY <1>1 DEF HasNode
<1>3. PICK i \in T : \A j \in T : ~(<<j, i>> \in OpToRel(<, Nat))
  BY <1>2, NatLessThanWellFounded, WFMin, Zenon
<1>4. \A j \in T : ~(j < i)
  BY <1>2, <1>3 DEF OpToRel
<1>5. i \in DOMAIN s.nodes /\ s.nodes[i].id = id /\ \A j \in 1 .. i-1 : s.nodes[j].id # id
  BY <1>1, <1>4
<1> HIDE DEF T
<1> DEFINE First == CHOOSE k \in DOMAIN s.nodes :
                      s.nodes[k].id = id /\ \A j \in 1 .. k-1 : s.nodes[j].id # id
<1>6. First \in DOMAIN s.nodes
  BY <1>5
<1>7. FindNode(s, id) = s.nodes[First]
  BY DEF FindNode
<1> HIDE DEF First
<1> QED BY <1>1, <1>6, <1>7

(* No node has two successors. *)
LEMMA OneSuccessor ==
  ASSUME NEW s \in Scenario, NEW h, NEW id, HasNode(s, id),
         NEW a, NEW b, Leads(s, h, id, a), Leads(s, h, id, b)
  PROVE  a = b
<1> DEFINE edges == FindNode(s, id).edges
<1>1. edges \in Seq(Edge)
  BY FindNodeFinds DEF Node
<1>2. PICK k \in DOMAIN edges : /\ Fits(h, edges[k]) /\ edges[k].to = a
                                /\ \A j \in 1 .. k-1 : ~Fits(h, edges[j])
  BY DEF Leads
<1>3. PICK l \in DOMAIN edges : /\ Fits(h, edges[l]) /\ edges[l].to = b
                                /\ \A j \in 1 .. l-1 : ~Fits(h, edges[j])
  BY DEF Leads
<1> HIDE DEF edges
<1>4. k \in 1 .. Len(edges) /\ l \in 1 .. Len(edges)
  BY <1>1
<1>5. ~(k < l) /\ ~(l < k)
  BY <1>1, <1>2, <1>3, <1>4
<1> QED BY <1>1, <1>2, <1>3, <1>4, <1>5

(* An edge of a validated scenario leads to one of its nodes. *)
LEMMA LeadsToNode ==
  ASSUME NEW s \in Scenario, NEW h, NEW id, HasNode(s, id), Accepts(s),
         NEW a, Leads(s, h, id, a)
  PROVE  HasNode(s, a)
  BY FindNodeFinds DEF Leads, Accepts

LEMMA WalkOn ==
  ASSUME NEW s \in Scenario, NEW h, NEW walk \in Seq(NodeId), NEW cur \in NodeId, NEW to,
         Walked(s, h, walk, cur), Circles(walk, cur), IsAction(s, cur), Leads(s, h, cur, to)
  PROVE  Walked(s, h, Append(walk, cur), to) /\ Circles(Append(walk, cur), to)
<1> DEFINE n == Len(walk)
           on == Append(walk, cur)
<1>1. /\ n \in Nat /\ Len(on) = n + 1 /\ on[n+1] = cur
      /\ \A i \in 1 .. n : on[i] = walk[i]
  OBVIOUS
<1>2. Walked(s, h, on, to)
  <2>1. \A i \in 1 .. n + 1 : IsAction(s, on[i])
    BY <1>1 DEF Walked
  <2>2. \A i \in 1 .. n : Leads(s, h, on[i], on[i+1])
    <3> SUFFICES ASSUME NEW i \in 1 .. n PROVE Leads(s, h, on[i], on[i+1])
      OBVIOUS
    <3>1. CASE i < n
      BY <1>1, <3>1 DEF Walked
    <3>2. CASE i = n
      BY <1>1, <3>2 DEF Walked
    <3> QED BY <1>1, <3>1, <3>2
  <2>3. on[1] = Start
    BY <1>1 DEF Walked
  <2> QED BY <1>1, <2>1, <2>2, <2>3 DEF Walked
<1>3. CASE \E i \in 1 .. n : walk[i] = cur
  <2>1. PICK i \in 1 .. n : walk[i] = cur
    BY <1>3
  <2>2. CASE i < n
    <3>1. Leads(s, h, cur, walk[i+1])
      BY <1>1, <2>1, <2>2 DEF Walked
    <3>2. to = walk[i+1]
      BY <3>1, OneSuccessor DEF IsAction
    <3> QED BY <1>1, <1>2, <2>2, <3>2 DEF Circles
  <2>3. CASE i = n
    <3>1. Leads(s, h, cur, cur)
      BY <1>1, <2>1, <2>3 DEF Walked
    <3>2. to = cur
      BY <3>1, OneSuccessor DEF IsAction
    <3> QED BY <1>1, <1>2, <3>2 DEF Circles
  <2> QED BY <1>1, <2>2, <2>3
<1>4. CASE ~\E i \in 1 .. n : walk[i] = cur
  <2>1. Simple(walk)
    BY <1>4 DEF Circles
  <2>2. Simple(on)
    <3> SUFFICES ASSUME NEW i \in 1 .. Len(on), NEW j \in 1 .. Len(on), on[i] = on[j] PROVE i = j
      BY DEF Simple
    <3>1. CASE i <= n /\ j <= n
      BY <1>1, <2>1, <3>1 DEF Simple
    <3>2. CASE i = n + 1 \/ j = n + 1
      BY <1>1, <1>4, <3>2
    <3> QED BY <1>1, <3>1, <3>2
  <2> QED BY <1>2, <2>2 DEF Circles
<1> QED BY <1>3, <1>4

(* A walk that has come to an end has visited no node twice. *)
LEMMA EndedIsComplete ==
  ASSUME NEW s \in Scenario, NEW h, NEW walk \in Seq(NodeId), NEW cur \in NodeId,
         Walked(s, h, walk, cur), Circles(walk, cur), ~IsAction(s, cur)
  PROVE  Complete(s, h, walk)
  BY DEF Complete, Walked, Circles

LEMMA FollowOn ==
  ASSUME NEW s \in Scenario, NEW h, NEW walk \in Seq(NodeId), NEW whole \in Seq(NodeId),
         NEW cur \in NodeId, NEW to, Walked(s, h, walk, cur), Complete(s, h, whole),
         IsAction(s, cur), Leads(s, h, cur, to), Follows(walk, cur, whole)
  PROVE  Follows(Append(walk, cur), to, whole)
<1> DEFINE n == Len(walk)
           on == Append(walk, cur)
<1>1. /\ n \in Nat /\ Len(whole) \in Nat /\ Len(on) = n + 1 /\ on[n+1] = cur
      /\ \A i \in 1 .. n : on[i] = walk[i]
  OBVIOUS
<1>2. PICK e \in NodeId : Walked(s, h, whole, e) /\ ~IsAction(s, e)
  BY DEF Complete
<1>3. n # Len(whole)
  <2> SUFFICES ASSUME n = Len(whole) PROVE cur = e
    BY <1>2
  <2>1. CASE n = 0
    BY <1>2, <2>1 DEF Walked
  <2>2. CASE n > 0
    <3>1. walk[n] = whole[n] /\ IsAction(s, walk[n])
      BY <1>1, <2>2 DEF Follows, Walked
    <3>2. Leads(s, h, walk[n], cur) /\ Leads(s, h, walk[n], e)
      BY <1>1, <1>2, <2>2, <3>1 DEF Walked
    <3> QED BY <3>1, <3>2, OneSuccessor DEF IsAction
  <2> QED BY <1>1, <2>1, <2>2
<1>4. n < Len(whole) /\ cur = whole[n+1]
  BY <1>1, <1>3 DEF Follows
<1>5. \A i \in 1 .. n + 1 : on[i] = whole[i]
  BY <1>1, <1>4 DEF Follows
<1>6. n + 1 < Len(whole) => to = whole[n+2]
  <2> SUFFICES ASSUME n + 1 < Len(whole) PROVE to = whole[n+2]
    OBVIOUS
  <2>1. Leads(s, h, whole[n+1], whole[(n+1)+1])
    BY <1>1, <1>2 DEF Walked
  <2> QED BY <1>1, <1>4, <2>1, OneSuccessor DEF IsAction
<1> QED BY <1>1, <1>4, <1>5, <1>6 DEF Follows

(* A walk that has come to an end is the whole one. *)
LEMMA FollowEnds ==
  ASSUME NEW s \in Scenario, NEW h, NEW walk \in Seq(NodeId), NEW whole \in Seq(NodeId),
         NEW cur \in NodeId, Complete(s, h, whole), ~IsAction(s, cur), Follows(walk, cur, whole)
  PROVE  walk = whole
<1>1. ~(Len(walk) < Len(whole))
  BY DEF Complete, Walked, Follows
<1> QED BY <1>1 DEF Follows

LEMMA FollowFromStart ==
  ASSUME NEW s, NEW h, NEW whole \in Seq(NodeId), Complete(s, h, whole)
  PROVE  Follows(<<>>, Start, whole) /\ Walked(s, h, <<>>, Start) /\ Circles(<<>>, Start)
  BY DEF Complete, Walked, Follows, Circles, Simple

-----------------------------------------------------------------------------
(* What the walk has come to is a node of the scenario, but for the start. *)
Lookups ==
  outcome = "Running" => Accepts(scenario) /\ (current = Start \/ HasNode(scenario, current))

(* How far the user has come, and what is known of each way to stop.       *)
Counted ==
  /\ outcome \in {"Running", "Ok"} => Len(all_traces) = iteration
  /\ outcome \in {"Loaded", "Rejected"} \cup Error => all_traces = <<>>
  /\ outcome = "Running" => iteration < Iterations
  /\ outcome = "Loaded" => iteration = 0 /\ current = Start
  /\ outcome = "Ok" => iteration = Iterations
  /\ outcome # "Running" => traces = <<>>
  /\ outcome # "ActionNotFound"
  /\ outcome = "NodeNotFound" => ~HasNode(scenario, Start)

UnderWay ==
  outcome \in {"Loaded", "Running", "Ok"} =>
    Walked(scenario, holds, traces, current) /\ Circles(traces, current)

Completed == \A n \in DOMAIN all_traces : Complete(scenario, holds, all_traces[n])

Repeating ==
  /\ \A n \in DOMAIN all_traces : Follows(traces, current, all_traces[n])
  /\ \A m, n \in DOMAIN all_traces : all_traces[m] = all_traces[n]

WalkInv == UserTypeOK /\ Lookups /\ Counted /\ UnderWay /\ Completed /\ Repeating

LEMMA WalkInvImplies == WalkInv => WalksSound
<1> SUFFICES ASSUME WalkInv PROVE WalksSound
  OBVIOUS
<1>1. UserTypeOK /\ LookupsSucceed /\ TracesOfAllOrNone
  BY DEF WalkInv, Counted, LookupsSucceed, TracesOfAllOrNone
<1>2. CompletedWalksAreSimple
  BY DEF WalkInv, Completed, Complete, CompletedWalksAreSimple
<1>3. IterationsRepeat
  <2>1. DOMAIN traces = 1 .. Len(traces)
    BY DEF WalkInv, UserTypeOK
  <2>2. \A n \in DOMAIN all_traces : Follows(traces, current, all_traces[n])
    BY DEF WalkInv, Repeating
  <2>3. \A n \in DOMAIN all_traces :
          /\ Len(traces) <= Len(all_traces[n])
          /\ \A i \in DOMAIN traces : traces[i] = all_traces[n][i]
    BY <2>1, <2>2 DEF Follows
  <2> QED BY <2>3 DEF WalkInv, Repeating, IterationsRepeat
<1> QED BY <1>1, <1>2, <1>3 DEF WalksSound

LEMMA InitWalks == UserInit => WalkInv
<1> SUFFICES ASSUME UserInit PROVE WalkInv
  OBVIOUS
<1> USE UserAssumption DEF UserInit
<1>1. holds \in SUBSET Condition
  <2>1. PICK S \in SUBSET ConditionsOf(scenario) : holds = S \cup {True}
    BY DEF ContextInput
  <2> QED BY <2>1 DEF ConditionsOf
<1>2. UserTypeOK
  BY <1>1 DEF UserTypeOK
<1>3. Lookups /\ Counted
  BY DEF Lookups, Counted, Error
<1>4. UnderWay /\ Completed /\ Repeating
  BY DEF UnderWay, Completed, Repeating, Walked, Circles, Simple
<1> QED BY <1>2, <1>3, <1>4 DEF WalkInv

(* A step that ends the walk with an error, or without having begun it. *)
LEMMA FailKeepsWalks ==
  ASSUME WalkInv, outcome = "Running", NEW error \in Error, Fail(error),
         error # "ActionNotFound", error = "NodeNotFound" => ~HasNode(scenario, Start)
  PROVE  WalkInv'
<1>1. UserTypeOK'
  BY DEF WalkInv, UserTypeOK, Fail, inputVars
<1>2. Lookups' /\ Counted' /\ UnderWay' /\ Completed' /\ Repeating'
  BY DEF Fail, inputVars, Lookups, Counted, UnderWay, Completed, Repeating, Error
<1> QED BY <1>1, <1>2 DEF WalkInv

LEMMA LoadKeepsWalks == ASSUME WalkInv, Load PROVE WalkInv'
<1> USE DEF Load, inputVars
<1>1. UserTypeOK'
  BY DEF WalkInv, UserTypeOK
<1>2. lifetime \in Lifetime /\ UsizeMax \in Nat \ {0}
  BY UserAssumption DEF WalkInv, UserTypeOK
<1>3. Iterations' = Iterations /\ Iterations > 0
  BY <1>2 DEF Iterations, Lifetime
<1>4. Lookups' /\ Counted'
  BY <1>2, <1>3 DEF WalkInv, Lookups, Counted, Error, Iterations, Lifetime
<1>5. UnderWay' /\ Completed' /\ Repeating'
  BY DEF WalkInv, UnderWay, Completed, Repeating
<1> QED BY <1>1, <1>4, <1>5 DEF WalkInv

(* What a walk at an action can find. *)
LEMMA AtActionFacts ==
  ASSUME WalkInv, AtAction
  PROVE  /\ scenario \in Scenario /\ IsAction(scenario, current)
         /\ Here.action # NoAction => Here.action \in scenario.actions
         /\ \A id : Selects(Here, id) => Leads(scenario, holds, current, id)
<1>1. scenario \in Scenario /\ HasNode(scenario, current) /\ Accepts(scenario)
  BY UserAssumption DEF WalkInv, UserTypeOK, AtAction, Lookups
<1>2. IsAction(scenario, current)
  BY <1>1 DEF AtAction, IsAction, Here
<1>3. Here.action # NoAction => Here.action \in scenario.actions
  BY <1>1, FindNodeFinds DEF Here, Accepts
<1>4. \A id : Selects(Here, id) => Leads(scenario, holds, current, id)
  BY DEF Selects, Leads, Here, Matches, Fits
<1> QED BY <1>1, <1>2, <1>3, <1>4

LEMMA FollowKeepsWalks ==
  ASSUME WalkInv, NEW id \in NodeId, Follow(id) PROVE WalkInv'
<1>1. /\ outcome = "Running" /\ AtAction /\ Selects(Here, id)
      /\ traces' = Append(traces, current) /\ current' = id
      /\ UNCHANGED <<scenario, lifetime, holds, outcome, iteration, all_traces>>
      /\ outputs' \in SUBSET OnOutput
  BY DEF Follow, CanPerform, AtAction, inputVars, OutputInput
<1>2. /\ scenario \in Scenario /\ traces \in Seq(NodeId) /\ current \in NodeId
      /\ all_traces \in Seq(Seq(NodeId))
  BY UserAssumption DEF WalkInv, UserTypeOK
<1>3. IsAction(scenario, current) /\ Leads(scenario, holds, current, id) /\ Accepts(scenario)
  BY <1>1, AtActionFacts DEF WalkInv, Lookups
<1>4. UserTypeOK'
  BY <1>1, <1>2 DEF WalkInv, UserTypeOK
<1>5. Lookups'
  BY <1>1, <1>2, <1>3, LeadsToNode DEF Lookups, IsAction
<1>6. Counted'
  BY <1>1 DEF WalkInv, Counted, Iterations, Error
<1>7. UnderWay'
  BY <1>1, <1>2, <1>3, WalkOn DEF WalkInv, UnderWay
<1>8. Completed'
  BY <1>1 DEF WalkInv, Completed
<1>9. Repeating'
  <2>1. ASSUME NEW n \in DOMAIN all_traces PROVE Follows(traces, current, all_traces[n])'
    <3>1. all_traces[n] \in Seq(NodeId)
      BY <1>2
    <3>2. /\ Walked(scenario, holds, traces, current) /\ Complete(scenario, holds, all_traces[n])
          /\ Follows(traces, current, all_traces[n])
      BY <1>1 DEF WalkInv, UnderWay, Completed, Repeating
    <3>3. Follows(Append(traces, current), id, all_traces[n])
      BY <1>2, <1>3, <3>1, <3>2, FollowOn
    <3> QED BY <1>1, <3>3
  <2> QED BY <1>1, <2>1 DEF WalkInv, Repeating
<1> QED BY <1>4, <1>5, <1>6, <1>7, <1>8, <1>9 DEF WalkInv

LEMMA FinishKeepsWalks == ASSUME WalkInv, FinishIteration PROVE WalkInv'
<1>1. /\ outcome = "Running" /\ AtEnd
      /\ all_traces' = Append(all_traces, traces) /\ traces' = <<>> /\ current' = Start
      /\ iteration' = iteration + 1
      /\ outcome' = IF iteration + 1 = Iterations THEN "Ok" ELSE outcome
      /\ UNCHANGED <<scenario, lifetime, holds, outputs>>
  BY DEF FinishIteration, AtEnd, inputVars
<1>2. /\ scenario \in Scenario /\ traces \in Seq(NodeId) /\ current \in NodeId /\ Start \in NodeId
      /\ all_traces \in Seq(Seq(NodeId)) /\ lifetime \in Lifetime /\ lifetime.iterations <= UsizeMax
      /\ UsizeMax \in Nat \ {0} /\ iteration \in 0 .. UsizeMax
  BY UserAssumption DEF WalkInv, UserTypeOK
<1>3. Iterations \in Nat /\ Iterations <= UsizeMax /\ Iterations' = Iterations
  BY <1>1, <1>2 DEF Iterations, Lifetime
<1>4. /\ iteration < Iterations /\ Len(all_traces) = iteration
      /\ Walked(scenario, holds, traces, current) /\ Circles(traces, current)
  BY <1>1 DEF WalkInv, Counted, UnderWay
<1>5. ~IsAction(scenario, current)
  BY <1>1 DEF AtEnd, IsAction, Here
<1>6. Complete(scenario, holds, traces)
  BY <1>2, <1>4, <1>5, EndedIsComplete
<1>7. UserTypeOK'
  BY <1>1, <1>2, <1>3, <1>4 DEF WalkInv, UserTypeOK
<1>8. Lookups' /\ Counted'
  BY <1>1, <1>2, <1>3, <1>4 DEF WalkInv, Lookups, Counted, Error
<1>9. /\ Len(all_traces') = Len(all_traces) + 1 /\ all_traces'[Len(all_traces) + 1] = traces
      /\ \A n \in DOMAIN all_traces' : \/ n \in DOMAIN all_traces /\ all_traces'[n] = all_traces[n]
                                       \/ all_traces'[n] = traces
  BY <1>1, <1>2
<1>10. \A n \in DOMAIN all_traces : all_traces[n] = traces
  <2> SUFFICES ASSUME NEW n \in DOMAIN all_traces PROVE traces = all_traces[n]
    OBVIOUS
  <2>1. all_traces[n] \in Seq(NodeId)
    BY <1>2
  <2>2. Complete(scenario, holds, all_traces[n]) /\ Follows(traces, current, all_traces[n])
    BY DEF WalkInv, Completed, Repeating
  <2> QED BY <1>2, <1>5, <2>1, <2>2, FollowEnds
<1>11. \A n \in DOMAIN all_traces' : all_traces'[n] = traces
  BY <1>9, <1>10
<1>12. Completed'
  BY <1>1, <1>6, <1>11 DEF Completed
<1>13. /\ Follows(<<>>, Start, traces)
       /\ Walked(scenario, holds, <<>>, Start) /\ Circles(<<>>, Start)
  BY <1>2, <1>6, FollowFromStart
<1>14. UnderWay'
  BY <1>1, <1>13 DEF UnderWay
<1>15. Repeating'
  BY <1>1, <1>11, <1>13 DEF Repeating
<1> QED BY <1>7, <1>8, <1>12, <1>14, <1>15 DEF WalkInv

LEMMA WalksKept == ASSUME WalkInv, [UserNext]_userVars PROVE WalkInv'
<1>1. CASE Load
  BY <1>1, LoadKeepsWalks
<1>2. CASE MissNode
  BY <1>2, FailKeepsWalks DEF MissNode, Error, WalkInv, Lookups
<1>3. CASE MissAction
  <2>1. Fail("NoAction") /\ outcome = "Running"
    BY <1>3, AtActionFacts DEF MissAction, AtAction
  <2> QED BY <2>1, FailKeepsWalks DEF Error
<1>4. CASE FailAction
  BY <1>4, FailKeepsWalks DEF FailAction, CanPerform, AtAction, Error
<1>5. CASE GetStuck
  BY <1>5, FailKeepsWalks DEF GetStuck, CanPerform, AtAction, Error
<1>6. ASSUME NEW id \in NodeId, Follow(id) PROVE WalkInv'
  BY <1>6, FollowKeepsWalks
<1>7. CASE FinishIteration
  BY <1>7, FinishKeepsWalks
<1>8. CASE UNCHANGED userVars
  BY <1>8 DEF userVars, WalkInv, UserTypeOK, Lookups, Counted, Iterations, UnderWay, Completed, Repeating
<1> QED BY <1>1, <1>2, <1>3, <1>4, <1>5, <1>6, <1>7, <1>8 DEF UserNext, Walk, Halted

-----------------------------------------------------------------------------
(* Whatever the scenario, the conditions and the bounds: a validated walk  *)
(* misses no node but the start and no action, and the caller gets the     *)
(* traces of all iterations or none; in a workflow without conditions on   *)
(* what actions return, an iteration that ends has performed no node       *)
(* twice, and all iterations are the same.                                 *)
THEOREM WalksAlwaysSound == UserSpec => []WalksSound
<1>1. UserInit => WalkInv
  BY InitWalks
<1>2. WalkInv /\ [UserNext]_userVars => WalkInv'
  BY WalksKept
<1>3. WalkInv => WalksSound
  BY WalkInvImplies
<1> QED BY <1>1, <1>2, <1>3, PTL DEF UserSpec

-----------------------------------------------------------------------------
(***************************************************************************)
(* The rendering of a text, for workbooks, variables and texts of any      *)
(* length.                                                                 *)
(***************************************************************************)

(* What one token of a text becomes. *)
Piece(token, e) == IF token = e.key THEN e.value ELSE <<token>>
Pieces(s, e) == [i \in DOMAIN s |-> Piece(s[i], e)]

(* Replacing is by tokens, and keeps a text a text. *)
LEMMA ReplaceIs ==
  ASSUME NEW S, NEW s \in Seq(S), NEW e, e.value \in Seq(S)
  PROVE  /\ Replace(s, e) = FlattenSeq(Pieces(s, e))
         /\ Pieces(s, e) \in Seq(Seq(S)) /\ Len(Pieces(s, e)) = Len(s)
         /\ \A i \in 1 .. Len(s) : Pieces(s, e)[i] = Piece(s[i], e)
         /\ Replace(s, e) \in Seq(S)
<1>1. DOMAIN s = 1 .. Len(s) /\ Len(s) \in Nat /\ \A i \in 1 .. Len(s) : s[i] \in S
  OBVIOUS
<1>2. \A i \in 1 .. Len(s) : Piece(s[i], e) \in Seq(S)
  <2>1. \A i \in 1 .. Len(s) : <<s[i]>> \in Seq(S)
    BY <1>1
  <2> QED BY <2>1 DEF Piece
<1>3. Pieces(s, e) \in [1 .. Len(s) -> Seq(S)]
  BY <1>1, <1>2 DEF Pieces
<1>4. Pieces(s, e) \in Seq(Seq(S)) /\ Len(Pieces(s, e)) = Len(s)
  BY <1>1, <1>3
<1>5. Replace(s, e) = FlattenSeq(Pieces(s, e))
  BY DEF Replace, Pieces, Piece
<1>6. \A i \in 1 .. Len(s) : Pieces(s, e)[i] = Piece(s[i], e)
  BY <1>1 DEF Pieces
<1> QED BY <1>4, <1>5, <1>6, FlattenType

(* Replacing in two texts, one after the other. *)
LEMMA ReplaceConcat ==
  ASSUME NEW S, NEW s \in Seq(S), NEW t \in Seq(S), NEW e, e.value \in Seq(S)
  PROVE  Replace(s \o t, e) = Replace(s, e) \o Replace(t, e)
<1>1. PICK m \in Nat, n \in Nat : m = Len(s) /\ n = Len(t)
  OBVIOUS
<1> DEFINE u == s \o t
           a == Pieces(s, e)
           b == Pieces(t, e)
           c == Pieces(u, e)
<1>2. /\ u \in Seq(S) /\ Len(u) = m + n
      /\ \A i \in 1 .. m + n : u[i] = IF i <= m THEN s[i] ELSE t[i - m]
  BY <1>1, ConcatProperties
<1> HIDE DEF u
<1>3. /\ a \in Seq(Seq(S)) /\ Len(a) = m /\ \A i \in 1 .. m : a[i] = Piece(s[i], e)
      /\ b \in Seq(Seq(S)) /\ Len(b) = n /\ \A i \in 1 .. n : b[i] = Piece(t[i], e)
      /\ c \in Seq(Seq(S)) /\ Len(c) = m + n /\ \A i \in 1 .. m + n : c[i] = Piece(u[i], e)
  <2>1. a \in Seq(Seq(S)) /\ Len(a) = m /\ \A i \in 1 .. m : a[i] = Piece(s[i], e)
    BY <1>1, ReplaceIs
  <2>2. b \in Seq(Seq(S)) /\ Len(b) = n /\ \A i \in 1 .. n : b[i] = Piece(t[i], e)
    BY <1>1, ReplaceIs
  <2>3. c \in Seq(Seq(S)) /\ Len(c) = m + n /\ \A i \in 1 .. m + n : c[i] = Piece(u[i], e)
    BY <1>2, ReplaceIs
  <2> QED BY <2>1, <2>2, <2>3
<1> HIDE DEF a, b, c
<1>4. /\ a \o b \in Seq(Seq(S)) /\ Len(a \o b) = m + n
      /\ \A i \in 1 .. m + n : (a \o b)[i] = IF i <= m THEN a[i] ELSE b[i - m]
  BY <1>3, ConcatProperties
<1>5. \A i \in 1 .. m + n : c[i] = (a \o b)[i]
  <2> TAKE i \in 1 .. m + n
  <2>1. CASE i <= m
    <3>1. i \in 1 .. m
      BY <2>1
    <3>2. u[i] = s[i] /\ (a \o b)[i] = a[i]
      BY <1>2, <1>4, <2>1
    <3>3. c[i] = Piece(u[i], e) /\ a[i] = Piece(s[i], e)
      BY <1>3, <3>1
    <3> QED BY <3>2, <3>3
  <2>2. CASE ~(i <= m)
    <3>1. PICK k \in 1 .. n : k = i - m
      BY <2>2
    <3> QED BY <1>2, <1>3, <1>4, <2>2, <3>1
  <2> QED BY <2>1, <2>2
<1>6. c = a \o b
  BY <1>3, <1>4, <1>5, SeqEqual
<1>7. FlattenSeq(a \o b) = FlattenSeq(a) \o FlattenSeq(b)
  BY <1>3, FlattenConcat
<1> QED BY <1>2, <1>6, <1>7, ReplaceIs DEF a, b, c, u

(* Replacing in a flattening is replacing in each of its parts. *)
LEMMA ReplaceFlatten ==
  ASSUME NEW S, NEW ss \in Seq(Seq(S)), NEW e, e.value \in Seq(S)
  PROVE  /\ [i \in DOMAIN ss |-> Replace(ss[i], e)] \in Seq(Seq(S))
         /\ Replace(FlattenSeq(ss), e) = FlattenSeq([i \in DOMAIN ss |-> Replace(ss[i], e)])
<1>0. \A x, y \in Seq(S) : Replace(x \o y, e) = Replace(x, e) \o Replace(y, e)
  BY ReplaceConcat
<1>1. PICK n \in Nat : n = Len(ss) /\ DOMAIN ss = 1 .. n /\ \A i \in 1 .. n : ss[i] \in Seq(S)
  OBVIOUS
<1>2. PICK f \in [0 .. n -> Seq(S)] : PutTogether(ss, f, n)
  BY <1>1, PartsExist
<1>3. FlattenSeq(ss) = f[n]
  BY <1>1, <1>2, FlattenByParts
<1> DEFINE rs == [i \in DOMAIN ss |-> Replace(ss[i], e)]
           h == [i \in 0 .. n |-> Replace(f[i], e)]
<1>4. /\ \A i \in 1 .. n : Replace(ss[i], e) \in Seq(S)
      /\ \A i \in 0 .. n : f[i] \in Seq(S) /\ h[i] = Replace(f[i], e)
  BY <1>1, ReplaceIs
<1>5. rs \in [1 .. n -> Seq(S)] /\ \A i \in 1 .. n : rs[i] = Replace(ss[i], e)
  BY <1>1, <1>4
<1> HIDE DEF rs, h
<1>6. rs \in Seq(Seq(S)) /\ Len(rs) = n
  BY <1>5
<1>7. ASSUME NEW i \in 1 .. n, NEW j \in Nat, i = j + 1 PROVE h[i] = h[j] \o rs[i]
  <2>1. i \in 0 .. n /\ j \in 0 .. n
    BY <1>7
  <2>2. f[i] = f[j] \o ss[i]
    BY <1>2, <1>7 DEF PutTogether
  <2>3. f[j] \in Seq(S) /\ ss[i] \in Seq(S)
    BY <1>1, <1>4, <2>1
  <2>4. Replace(f[j] \o ss[i], e) = Replace(f[j], e) \o Replace(ss[i], e)
    BY <1>0, <2>3
  <2> QED BY <1>4, <1>5, <2>1, <2>2, <2>4
<1>8. h[0] = << >>
  <2>1. f[0] = << >> /\ 0 \in 0 .. n
    BY <1>2 DEF PutTogether
  <2>2. Replace(<< >>, e) = << >>
    <3>1. Pieces(<< >>, e) = << >>
      <4>1. << >> \in Seq(S) /\ Len(<< >>) = 0
        OBVIOUS
      <4>2. Pieces(<< >>, e) \in Seq(Seq(S)) /\ Len(Pieces(<< >>, e)) = 0
        BY <4>1, ReplaceIs
      <4> QED BY <4>2, EmptySeq
    <3>2. FlattenSeq(<< >>) = << >>
      BY FlattenIs
    <3>3. << >> \in Seq(S)
      OBVIOUS
    <3> QED BY <3>1, <3>2, <3>3, ReplaceIs
  <2> QED BY <1>4, <2>1, <2>2
<1>9. PutTogether(rs, h, n)
  BY <1>7, <1>8 DEF PutTogether
<1>10. FlattenSeq(rs) = h[n]
  BY <1>6, <1>9, FlattenByParts
<1>11. h[n] = Replace(f[n], e)
  BY <1>4
<1> QED BY <1>3, <1>6, <1>10, <1>11 DEF rs

(* A text of one token. *)
LEMMA ReplaceOne ==
  ASSUME NEW S, NEW token \in S, NEW e, e.value \in Seq(S)
  PROVE  Replace(<<token>>, e) = Piece(token, e)
<1> DEFINE s == <<token>>
<1>1. s \in Seq(S) /\ Len(s) = 1 /\ DOMAIN s = {1} /\ s[1] = token
  OBVIOUS
<1>2. Piece(token, e) \in Seq(S)
  BY <1>1 DEF Piece
<1> HIDE DEF s
<1>3. Pieces(s, e) = <<Piece(token, e)>>
  <2>1. Pieces(s, e) = [i \in {1} |-> Piece(token, e)]
    BY <1>1 DEF Pieces
  <2> QED BY <2>1
<1>4. FlattenSeq(<<Piece(token, e)>>) = Piece(token, e)
  BY <1>2, FlattenOne
<1>5. Replace(s, e) = FlattenSeq(Pieces(s, e))
  BY <1>1, ReplaceIs
<1> QED BY <1>3, <1>4, <1>5 DEF s

(* A text without the placeholder stays as it is. *)
LEMMA ReplaceNone ==
  ASSUME NEW S, NEW s \in Seq(S), NEW e, e.value \in Seq(S), ~Mentions(s, e.key)
  PROVE  Replace(s, e) = s
<1>1. Pieces(s, e) = [i \in DOMAIN s |-> <<s[i]>>]
  BY DEF Pieces, Piece, Mentions
<1>2. Replace(s, e) = FlattenSeq(Pieces(s, e))
  BY ReplaceIs
<1> QED BY <1>1, <1>2, FlattenSingletons

(* What a replaced text mentions was there before, or came with the value. *)
LEMMA ReplaceMentions ==
  ASSUME NEW S, NEW s \in Seq(S), NEW e, e.value \in Seq(S), NEW key, Mentions(Replace(s, e), key)
  PROVE  \/ Mentions(s, key) /\ key # e.key
         \/ Mentions(e.value, key)
<1> DEFINE ps == Pieces(s, e)
<1>1. Replace(s, e) = FlattenSeq(ps) /\ ps \in Seq(Seq(S))
  BY ReplaceIs
<1>2. Elements(FlattenSeq(ps)) = UNION {Elements(ps[k]) : k \in DOMAIN ps}
  BY <1>1, FlattenElements
<1>3. key \in Elements(FlattenSeq(ps))
  BY <1>1 DEF Mentions, Elements
<1> HIDE DEF ps
<1>4. PICK k \in DOMAIN ps : key \in Elements(ps[k])
  BY <1>2, <1>3
<1>5. k \in DOMAIN s /\ ps[k] = Piece(s[k], e)
  BY <1>4 DEF ps, Pieces
<1>6. CASE s[k] = e.key
  BY <1>4, <1>5, <1>6 DEF Piece, Elements, Mentions
<1>7. CASE s[k] # e.key
  <2>1. key \in Elements(<<s[k]>>)
    BY <1>4, <1>5, <1>7 DEF Piece
  <2>2. key = s[k]
    BY <2>1 DEF Elements
  <2> QED BY <1>5, <1>7, <2>2 DEF Mentions
<1> QED BY <1>6, <1>7

-----------------------------------------------------------------------------
(* The equation behind a fold of insertions: the last entry of a set comes *)
(* after the others.                                                       *)
InsertSolves(base, seq, D, g) ==
  g = [s \in SUBSET D |-> IF s = {} THEN base ELSE Insert(g[s \ {Max(s)}], seq[Max(s)])]

(* What the library's FoldLeft stands for. *)
LEMMA FoldIs ==
  ASSUME NEW base, NEW seq
  PROVE  FoldLeft(Insert, base, seq) = (CHOOSE g : InsertSolves(base, seq, DOMAIN seq, g))[DOMAIN seq]
  BY DEF FoldLeft, MapThenFoldSet, InsertSolves

(* The greatest number of a set. *)
LEMMA MaxIs ==
  ASSUME NEW k \in Nat, NEW s \in SUBSET (1 .. k), k \in s
  PROVE  Max(s) = k
<1>1. \A y \in s : k >= y
  OBVIOUS
<1>2. \A x \in s : (\A y \in s : x >= y) => x = k
  OBVIOUS
<1> QED BY <1>1, <1>2 DEF Max

(* The equation has a solution, over any number of entries. *)
LEMMA FoldExists ==
  ASSUME NEW base, NEW seq
  PROVE  \A n \in Nat : \E g : InsertSolves(base, seq, 1 .. n, g)
<1> DEFINE I == {n \in Nat : \E g : InsertSolves(base, seq, 1 .. n, g)}
<1>1. 0 \in I
  <2> DEFINE g == [s \in SUBSET (1 .. 0) |-> base]
  <2>1. \A s \in SUBSET (1 .. 0) : s = {}
    OBVIOUS
  <2>2. g = [s \in SUBSET (1 .. 0) |->
               IF s = {} THEN base ELSE Insert(g[s \ {Max(s)}], seq[Max(s)])]
    BY <2>1
  <2> HIDE DEF g
  <2>3. InsertSolves(base, seq, 1 .. 0, g)
    BY <2>2 DEF InsertSolves
  <2> QED BY <2>3
<1>2. ASSUME NEW n \in Nat, n \in I PROVE n + 1 \in I
  <2>1. PICK k \in Nat : k = n + 1
    OBVIOUS
  <2>2. PICK g : InsertSolves(base, seq, 1 .. n, g)
    BY <1>2
  <2> DEFINE D == 1 .. k
             f == [s \in SUBSET D |-> IF k \in s THEN Insert(g[s \ {k}], seq[k]) ELSE g[s]]
  <2>3. \A s \in SUBSET D : k \notin s => s \in SUBSET (1 .. n)
    BY <2>1
  <2>4. \A s \in SUBSET (1 .. n) :
          g[s] = IF s = {} THEN base ELSE Insert(g[s \ {Max(s)}], seq[Max(s)])
    BY <2>2 DEF InsertSolves
  <2>5. ASSUME NEW s \in SUBSET D
        PROVE  f[s] = IF s = {} THEN base ELSE Insert(f[s \ {Max(s)}], seq[Max(s)])
    <3>1. CASE k \in s
      <4>1. Max(s) = k
        BY <3>1, MaxIs
      <4>2. s \ {k} \in SUBSET D /\ k \notin s \ {k} /\ s # {}
        BY <3>1
      <4>3. f[s \ {k}] = g[s \ {k}]
        BY <4>2
      <4>4. f[s] = Insert(g[s \ {k}], seq[k])
        BY <3>1
      <4> QED BY <4>1, <4>2, <4>3, <4>4
    <3>2. CASE k \notin s
      <4>1. f[s] = g[s]
        BY <3>2
      <4>2. s \ {Max(s)} \in SUBSET D /\ k \notin s \ {Max(s)}
        BY <3>2
      <4>3. f[s \ {Max(s)}] = g[s \ {Max(s)}]
        BY <4>2
      <4> QED BY <2>3, <2>4, <3>2, <4>1, <4>3
    <3> QED BY <3>1, <3>2
  <2>6. f = [s \in SUBSET D |-> IF s = {} THEN base ELSE Insert(f[s \ {Max(s)}], seq[Max(s)])]
    BY <2>5
  <2> HIDE DEF f
  <2>7. InsertSolves(base, seq, D, f)
    BY <2>6 DEF InsertSolves
  <2> QED BY <2>1, <2>7
<1> HIDE DEF I
<1>3. Nat \subseteq I
  BY <1>1, <1>2, SetInduction
<1> QED BY <1>3 DEF I

(* An insertion keeps a map a sequence of entries. *)
LEMMA InsertType ==
  ASSUME NEW S, NEW map \in Seq(S), NEW e \in S
  PROVE  Insert(map, e) \in Seq(S)
<1>1. Append(map, e) \in Seq(S)
  BY AppendProperties
<1>2. [i \in DOMAIN map |-> IF map[i].key = e.key THEN e ELSE map[i]] \in Seq(S)
  <2>1. PICK n \in Nat : DOMAIN map = 1 .. n /\ \A i \in 1 .. n : map[i] \in S
    OBVIOUS
  <2>2. [i \in DOMAIN map |-> IF map[i].key = e.key THEN e ELSE map[i]] \in [1 .. n -> S]
    BY <2>1
  <2> QED BY <2>1, <2>2
<1> QED BY <1>1, <1>2 DEF Insert

(* What a fold of insertions has come to after each of the entries.        *)
InsertedOne(base, seq, m, n) ==
  /\ m[0] = base
  /\ \A i \in 1 .. n, j \in Nat : i = j + 1 => m[i] = Insert(m[j], seq[i])

(* A fold inserts one entry after the other. *)
LEMMA FoldByParts ==
  ASSUME NEW S, NEW base \in Seq(S), NEW seq \in Seq(S)
  PROVE  \E m \in [0 .. Len(seq) -> Seq(S)] :
           /\ InsertedOne(base, seq, m, Len(seq))
           /\ FoldLeft(Insert, base, seq) = m[Len(seq)]
<1>1. PICK n \in Nat : n = Len(seq) /\ DOMAIN seq = 1 .. n /\ \A i \in 1 .. n : seq[i] \in S
  OBVIOUS
<1> DEFINE D == 1 .. n
           c == CHOOSE g : InsertSolves(base, seq, D, g)
           m == [i \in 0 .. n |-> c[1 .. i]]
<1>2. InsertSolves(base, seq, D, c)
  BY FoldExists
<1>3. FoldLeft(Insert, base, seq) = c[D]
  BY <1>1, FoldIs
<1> HIDE DEF c
<1>4. \A s \in SUBSET D :
        c[s] = IF s = {} THEN base ELSE Insert(c[s \ {Max(s)}], seq[Max(s)])
  BY <1>2 DEF InsertSolves
<1>5. \A i \in 0 .. n : m[i] = c[1 .. i]
  OBVIOUS
<1>6. DOMAIN m = 0 .. n /\ m = [i \in 0 .. n |-> m[i]]
  OBVIOUS
<1> HIDE DEF m
<1>7. m[0] = base
  <2>1. 1 .. 0 = {} /\ {} \in SUBSET D /\ 0 \in 0 .. n
    OBVIOUS
  <2> QED BY <1>4, <1>5, <2>1
<1>8. ASSUME NEW i \in 1 .. n, NEW j \in Nat, i = j + 1 PROVE m[i] = Insert(m[j], seq[i])
  <2>1. /\ 1 .. i \in SUBSET D /\ i \in 1 .. i /\ i \in Nat /\ i \in 0 .. n /\ j \in 0 .. n
        /\ (1 .. i) \ {i} = 1 .. j
    BY <1>8
  <2>2. Max(1 .. i) = i
    BY <2>1, MaxIs
  <2>3. c[1 .. i] = Insert(c[1 .. j], seq[i])
    BY <1>4, <2>1, <2>2
  <2> QED BY <1>5, <2>1, <2>3
<1>9. InsertedOne(base, seq, m, n)
  BY <1>7, <1>8 DEF InsertedOne
<1> DEFINE I == {i \in Nat : i <= n => m[i] \in Seq(S)}
<1>10. 0 \in I
  BY <1>7
<1>11. ASSUME NEW j \in Nat, j \in I PROVE j + 1 \in I
  <2>1. PICK i \in Nat : i = j + 1
    OBVIOUS
  <2> SUFFICES ASSUME i <= n PROVE m[i] \in Seq(S)
    BY <2>1
  <2>2. i \in 1 .. n /\ j <= n
    BY <2>1
  <2>3. m[j] \in Seq(S) /\ seq[i] \in S
    BY <1>1, <1>11, <2>2
  <2>4. m[i] = Insert(m[j], seq[i])
    BY <1>8, <2>1, <2>2
  <2> QED BY <2>3, <2>4, InsertType
<1> HIDE DEF I
<1>12. Nat \subseteq I
  BY <1>10, <1>11, SetInduction
<1>13. \A i \in 0 .. n : m[i] \in Seq(S)
  BY <1>12 DEF I
<1>14. m \in [0 .. n -> Seq(S)]
  BY <1>6, <1>13
<1>15. m[n] = c[D]
  BY <1>5
<1> QED BY <1>1, <1>3, <1>9, <1>14, <1>15

-----------------------------------------------------------------------------

(* The keys of a map. *)
KeysOf(map) == {x.key : x \in Elements(map)}

(* An insertion takes the entry of the key out and puts the new one in. *)
LEMMA InsertElements ==
  ASSUME NEW S, NEW map \in Seq(S), NEW e \in S
  PROVE  /\ Elements(Insert(map, e)) = {x \in Elements(map) : x.key # e.key} \cup {e}
         /\ KeysOf(Insert(map, e)) = KeysOf(map) \cup {e.key}
         /\ OneEntryPerKey(map) => OneEntryPerKey(Insert(map, e))
<1>1. PICK n \in Nat : DOMAIN map = 1 .. n /\ Len(map) = n
  OBVIOUS
<1>2. CASE \E i \in DOMAIN map : map[i].key = e.key
  <2> DEFINE r == [i \in DOMAIN map |-> IF map[i].key = e.key THEN e ELSE map[i]]
  <2>1. Insert(map, e) = r
    BY <1>2 DEF Insert
  <2>2. /\ DOMAIN r = DOMAIN map
        /\ \A i \in DOMAIN map : r[i] = IF map[i].key = e.key THEN e ELSE map[i]
    OBVIOUS
  <2> HIDE DEF r
  <2>3. Elements(r) = {x \in Elements(map) : x.key # e.key} \cup {e}
    BY <1>2, <2>2 DEF Elements
  <2>4. KeysOf(r) = KeysOf(map) \cup {e.key}
    BY <1>2, <2>3 DEF KeysOf, Elements
  <2>5. OneEntryPerKey(map) => OneEntryPerKey(r)
    BY <2>2 DEF OneEntryPerKey
  <2> QED BY <2>1, <2>3, <2>4, <2>5
<1>3. CASE ~ \E i \in DOMAIN map : map[i].key = e.key
  <2> DEFINE r == Append(map, e)
  <2>1. Insert(map, e) = r
    BY <1>3 DEF Insert
  <2>2. PICK k \in Nat : /\ k = n + 1 /\ DOMAIN r = (1 .. n) \cup {k} /\ r[k] = e
                         /\ \A i \in 1 .. n : r[i] = map[i] /\ i # k
    BY <1>1, AppendProperties
  <2> HIDE DEF r
  <2>3. Elements(r) = Elements(map) \cup {e}
    BY <1>1, <2>2 DEF Elements
  <2>4. \A x \in Elements(map) : x.key # e.key
    BY <1>3 DEF Elements
  <2>5. OneEntryPerKey(map) => OneEntryPerKey(r)
    BY <1>1, <1>3, <2>2 DEF OneEntryPerKey
  <2> QED BY <2>1, <2>3, <2>4, <2>5 DEF KeysOf
<1> QED BY <1>2, <1>3

(* x is the last of the first k entries that has its key. *)
IsLast(seq, k, x) ==
  \E i \in 1 .. k : seq[i] = x /\ \A j \in 1 .. k : seq[j].key = x.key => j <= i

(* None of them has the key. *)
Untouched(seq, k, key) == \A j \in 1 .. k : seq[j].key # key

(* Of the entries with one key the last one stays, in the map that was     *)
(* there if there is none.                                                 *)
LEMMA FoldElements ==
  ASSUME NEW S, NEW base \in Seq(S), NEW seq \in Seq(S)
  PROVE  LET all == FoldLeft(Insert, base, seq)
         IN  /\ all \in Seq(S)
             /\ OneEntryPerKey(base) => OneEntryPerKey(all)
             /\ KeysOf(all) = KeysOf(base) \cup KeysOf(seq)
             /\ \A x \in Elements(all) :
                  \/ IsLast(seq, Len(seq), x)
                  \/ x \in Elements(base) /\ Untouched(seq, Len(seq), x.key)
<1>1. PICK n \in Nat : n = Len(seq) /\ DOMAIN seq = 1 .. n /\ \A i \in 1 .. n : seq[i] \in S
  OBVIOUS
<1>2. PICK m \in [0 .. n -> Seq(S)] :
        InsertedOne(base, seq, m, n) /\ FoldLeft(Insert, base, seq) = m[n]
  BY <1>1, FoldByParts
<1> DEFINE Good(k) ==
             /\ OneEntryPerKey(base) => OneEntryPerKey(m[k])
             /\ KeysOf(m[k]) = KeysOf(base) \cup {seq[i].key : i \in 1 .. k}
             /\ \A x \in Elements(m[k]) :
                  IsLast(seq, k, x) \/ (x \in Elements(base) /\ Untouched(seq, k, x.key))
           I == {k \in Nat : k <= n => Good(k)}
<1>3. 0 \in I
  <2>1. m[0] = base /\ 1 .. 0 = {}
    BY <1>2 DEF InsertedOne
  <2> QED BY <2>1 DEF Untouched
<1>4. ASSUME NEW j \in Nat, j \in I PROVE j + 1 \in I
  <2>1. PICK k \in Nat : k = j + 1
    OBVIOUS
  <2> SUFFICES ASSUME k <= n PROVE Good(k)
    BY <2>1
  <2>2. k \in 1 .. n /\ j <= n /\ j \in 0 .. n /\ Good(j)
    BY <1>4, <2>1
  <2>3. 1 .. k = (1 .. j) \cup {k} /\ k \notin 1 .. j /\ \A i \in 1 .. j : i <= k
    BY <2>1
  <2> DEFINE e == seq[k]
             p == m[j]
  <2>4. m[k] = Insert(p, e) /\ p \in Seq(S) /\ e \in S
    BY <1>1, <1>2, <2>1, <2>2 DEF InsertedOne
  <2>5. /\ Elements(m[k]) = {x \in Elements(p) : x.key # e.key} \cup {e}
        /\ KeysOf(m[k]) = KeysOf(p) \cup {e.key}
        /\ OneEntryPerKey(p) => OneEntryPerKey(m[k])
    BY <2>4, InsertElements
  <2>6. KeysOf(m[k]) = KeysOf(base) \cup {seq[i].key : i \in 1 .. k}
    BY <2>2, <2>3, <2>5
  <2>7. ASSUME NEW x \in Elements(m[k])
        PROVE  IsLast(seq, k, x) \/ (x \in Elements(base) /\ Untouched(seq, k, x.key))
    <3>1. CASE x = e
      <4>1. k \in 1 .. k /\ \A i \in 1 .. k : i <= k
        BY <2>2
      <4>2. seq[k] = x
        BY <3>1
      <4>3. \A i \in 1 .. k : seq[i].key = x.key => i <= k
        BY <4>1
      <4> QED BY <4>1, <4>2, <4>3, Zenon DEF IsLast
    <3>2. CASE x \in Elements(p) /\ x.key # e.key
      BY <2>2, <2>3, <3>2 DEF IsLast, Untouched
    <3> QED BY <2>5, <3>1, <3>2
  <2> QED BY <2>2, <2>5, <2>6, <2>7
<1> HIDE DEF I
<1>5. Nat \subseteq I
  BY <1>3, <1>4, SetInduction
<1>6. Good(n)
  <2>1. n \in I /\ n <= n
    BY <1>5
  <2> HIDE DEF Good
  <2> QED BY <2>1 DEF I
<1>7. KeysOf(seq) = {seq[i].key : i \in 1 .. n}
  BY <1>1 DEF KeysOf, Elements
<1>8. m[n] \in Seq(S)
  OBVIOUS
<1> QED BY <1>1, <1>2, <1>6, <1>7, <1>8

-----------------------------------------------------------------------------
(* The entries of a workbook. *)
Properties == IndexMap(Property, Text \cup {Null})
Entries == [key : ResourceId, value : Properties]

(* The map without an entry. *)
LEMMA EmptyMap ==
  /\ \A S : << >> \in Seq(S)
  /\ Elements(<< >>) = {} /\ KeysOf(<< >>) = {} /\ OneEntryPerKey(<< >>)
  BY DEF Elements, KeysOf, OneEntryPerKey

(* The resource that has the last word on its id. *)
LastOf(list, r) == \A s \in DOMAIN list : list[s].id = list[r].id => s <= r

(* Workbook::from_scenario keeps of each id the last resource. *)
LEMMA WorkbookIs ==
  ASSUME NEW list \in Seq(Resource)
  PROVE  LET w == WorkbookOf(list)
         IN  /\ w \in Seq(Entries) /\ OneEntryPerKey(w)
             /\ KeysOf(w) = {list[r].id : r \in DOMAIN list}
             /\ \A x \in Elements(w) : \E r \in DOMAIN list :
                  /\ LastOf(list, r)
                  /\ x = [key |-> list[r].id, value |-> list[r].properties]
<1> DEFINE seq == [i \in DOMAIN list |-> [key |-> list[i].id, value |-> list[i].properties]]
           w == FoldLeft(Insert, << >>, seq)
<1>1. PICK n \in Nat : DOMAIN list = 1 .. n /\ n = Len(list) /\ \A i \in 1 .. n : list[i] \in Resource
  OBVIOUS
<1>2. \A i \in 1 .. n : [key |-> list[i].id, value |-> list[i].properties] \in Entries
  BY <1>1 DEF Entries, Resource, Properties
<1>3. seq \in [1 .. n -> Entries]
  BY <1>1, <1>2
<1>4. \A i \in 1 .. n : seq[i] = [key |-> list[i].id, value |-> list[i].properties]
  BY <1>1
<1>5. WorkbookOf(list) = w
  BY DEF WorkbookOf
<1> HIDE DEF seq
<1>6. \A i \in 1 .. n : seq[i].key = list[i].id
  <2> TAKE i \in 1 .. n
  <2> DEFINE a == list[i].id
             b == list[i].properties
  <2>1. seq[i] = [key |-> a, value |-> b]
    BY <1>4
  <2> HIDE DEF a, b
  <2>2. seq[i].key = a
    BY <2>1
  <2> QED BY <2>2 DEF a
<1>7. seq \in Seq(Entries) /\ Len(seq) = n /\ DOMAIN seq = 1 .. n
  BY <1>3
<1>8. /\ w \in Seq(Entries)
      /\ OneEntryPerKey(<< >>) => OneEntryPerKey(w)
      /\ KeysOf(w) = KeysOf(<< >>) \cup KeysOf(seq)
      /\ \A x \in Elements(w) :
           \/ IsLast(seq, n, x)
           \/ x \in Elements(<< >>) /\ Untouched(seq, n, x.key)
  BY <1>7, EmptyMap, FoldElements
<1> HIDE DEF w
<1>9. KeysOf(w) = {list[r].id : r \in DOMAIN list}
  <2>1. KeysOf(seq) = {seq[i].key : i \in 1 .. n}
    BY <1>7 DEF KeysOf, Elements
  <2>2. \A i \in 1 .. n : seq[i].key = list[i].id
    BY <1>6
  <2>3. KeysOf(w) = KeysOf(seq)
    BY <1>8, EmptyMap
  <2> QED BY <1>1, <2>1, <2>2, <2>3
<1>10. ASSUME NEW x \in Elements(w)
      PROVE  \E r \in DOMAIN list :
               LastOf(list, r) /\ x = [key |-> list[r].id, value |-> list[r].properties]
  <2>1. IsLast(seq, n, x)
    BY <1>8, <1>10, EmptyMap
  <2>2. PICK r \in 1 .. n : seq[r] = x /\ \A j \in 1 .. n : seq[j].key = x.key => j <= r
    BY <2>1 DEF IsLast
  <2>3. x.key = list[r].id /\ \A j \in 1 .. n : seq[j].key = list[j].id
    BY <1>6, <2>2
  <2>4. LastOf(list, r)
    BY <1>1, <2>2, <2>3 DEF LastOf
  <2> QED BY <1>1, <1>4, <2>2, <2>4
<1> QED BY <1>5, <1>8, <1>9, <1>10, EmptyMap

(* The variables of one resource of a workbook. *)
VariableOf(id, given) == [key |-> <<id, given.key>>, value |-> given.value]
VariableSet(entry) ==
  {VariableOf(entry.key, given) : given \in {p \in Elements(entry.value) : p.value # Null}}

(* One for each property that is not null. *)
LEMMA VariablesAre ==
  ASSUME NEW entry \in Entries
  PROVE  VariablesOf(entry) \in Seq(Variable) /\ Elements(VariablesOf(entry)) = VariableSet(entry)
<1> DEFINE ps == entry.value
           E == [key : Property, value : Text \cup {Null}]
           One(p) == IF p.value = Null THEN << >> ELSE <<VariableOf(entry.key, p)>>
           ss == [i \in DOMAIN ps |-> One(ps[i])]
<1>1. entry.key \in ResourceId /\ ps \in Seq(E)
  BY DEF Entries, Properties, IndexMap
<1> HIDE DEF ps
<1>2. PICK n \in Nat : DOMAIN ps = 1 .. n /\ n = Len(ps) /\ \A i \in 1 .. n : ps[i] \in E
  <2> HIDE DEF E
  <2> QED BY <1>1
<1>3. VariablesOf(entry) = FlattenSeq(ss)
  BY DEF VariablesOf, VariableOf, ps
<1>4. \A i \in 1 .. n : One(ps[i]) \in Seq(Variable)
  <2> TAKE i \in 1 .. n
  <2>1. CASE ps[i].value = Null
    BY <2>1, EmptyMap
  <2>2. CASE ps[i].value # Null
    <3>1. VariableOf(entry.key, ps[i]) \in Variable
      BY <1>1, <1>2, <2>2 DEF VariableOf, Variable, Key
    <3>2. <<VariableOf(entry.key, ps[i])>> \in Seq(Variable)
      BY <3>1
    <3> QED BY <2>2, <3>2
  <2> QED BY <2>1, <2>2
<1>5. DOMAIN ss = 1 .. n /\ \A i \in 1 .. n : ss[i] = One(ps[i])
  BY <1>2
<1>6. ss \in Seq(Seq(Variable))
  <2>1. ss \in [1 .. n -> Seq(Variable)]
    BY <1>2, <1>4
  <2> HIDE DEF ss
  <2> QED BY <2>1
<1> HIDE DEF ss
<1>7. Elements(FlattenSeq(ss)) = UNION {Elements(ss[k]) : k \in 1 .. n}
  BY <1>5, <1>6, FlattenElements
<1>8. \A i \in 1 .. n :
        Elements(ss[i]) = IF ps[i].value = Null THEN {} ELSE {VariableOf(entry.key, ps[i])}
  <2> TAKE i \in 1 .. n
  <2>1. \A x : Elements(<<x>>) = {x}
    BY DEF Elements
  <2> QED BY <1>5, <2>1, EmptyMap
<1>9. UNION {Elements(ss[k]) : k \in 1 .. n} =
        {VariableOf(entry.key, p) : p \in {q \in Elements(ps) : q.value # Null}}
  <2> DEFINE V(p) == VariableOf(entry.key, p)
  <2>1. \A i \in 1 .. n : ps[i] \in Elements(ps)
    BY <1>2 DEF Elements
  <2>2. \A p \in Elements(ps) : \E i \in 1 .. n : p = ps[i]
    BY <1>2 DEF Elements
  <2>3. \A i \in 1 .. n : Elements(ss[i]) = IF ps[i].value = Null THEN {} ELSE {V(ps[i])}
    BY <1>8
  <2> HIDE DEF V
  <2>4. UNION {Elements(ss[k]) : k \in 1 .. n} =
          {V(p) : p \in {q \in Elements(ps) : q.value # Null}}
    <3>1. ASSUME NEW k \in 1 .. n, NEW x \in Elements(ss[k])
          PROVE  \E p \in Elements(ps) : p.value # Null /\ x = V(p)
      <4>1. ps[k].value # Null /\ x = V(ps[k])
        BY <2>3, <3>1
      <4> QED BY <2>1, <4>1
    <3>2. ASSUME NEW p \in Elements(ps), p.value # Null
          PROVE  \E k \in 1 .. n : V(p) \in Elements(ss[k])
      <4>1. PICK k \in 1 .. n : p = ps[k]
        BY <2>2
      <4> QED BY <2>3, <3>2, <4>1
    <3> QED BY <3>1, <3>2
  <2> QED BY <2>4 DEF V
<1>10. FlattenSeq(ss) \in Seq(Variable)
  BY <1>6, FlattenType
<1> QED BY <1>3, <1>7, <1>9, <1>10 DEF VariableSet, ps

(* from_workbook: no two properties make the same variable, so the order   *)
(* of the insertions does not matter.                                      *)
LEMMA FromWorkbookIs ==
  ASSUME NEW w \in Seq(Entries), OneEntryPerKey(w)
  PROVE  /\ FromWorkbook(w) \in Seq(Variable) /\ OneEntryPerKey(FromWorkbook(w))
         /\ Elements(FromWorkbook(w)) = UNION {VariableSet(w[i]) : i \in DOMAIN w}
<1>1. PICK n \in Nat : n = Len(w) /\ DOMAIN w = 1 .. n /\ \A i \in 1 .. n : w[i] \in Entries
  OBVIOUS
<1> DEFINE ss == [i \in DOMAIN w |-> VariablesOf(w[i])]
           flat == FlattenSeq(ss)
           f == FoldLeft(Insert, << >>, flat)
           All == UNION {VariableSet(w[i]) : i \in DOMAIN w}
<1>2. FromWorkbook(w) = f
  BY DEF FromWorkbook
<1>3. \A i \in 1 .. n : VariablesOf(w[i]) \in Seq(Variable) /\ Elements(VariablesOf(w[i])) = VariableSet(w[i])
  BY <1>1, VariablesAre
<1>4. DOMAIN ss = 1 .. n /\ \A i \in 1 .. n : ss[i] = VariablesOf(w[i])
  BY <1>1
<1>5. ss \in Seq(Seq(Variable))
  <2>1. ss \in [1 .. n -> Seq(Variable)]
    BY <1>1, <1>3
  <2> HIDE DEF ss
  <2> QED BY <2>1
<1> HIDE DEF ss
<1>6. flat \in Seq(Variable)
  BY <1>5, FlattenType
<1>7. Elements(flat) = All
  <2>1. Elements(flat) = UNION {Elements(ss[k]) : k \in 1 .. n}
    BY <1>4, <1>5, FlattenElements
  <2> QED BY <1>1, <1>3, <1>4, <2>1
<1> HIDE DEF flat
<1>8. /\ f \in Seq(Variable)
      /\ OneEntryPerKey(<< >>) => OneEntryPerKey(f)
      /\ KeysOf(f) = KeysOf(<< >>) \cup KeysOf(flat)
      /\ \A x \in Elements(f) :
           \/ IsLast(flat, Len(flat), x)
           \/ x \in Elements(<< >>) /\ Untouched(flat, Len(flat), x.key)
  BY <1>6, EmptyMap, FoldElements
<1> HIDE DEF f
<1>9. ASSUME NEW x \in Elements(f) PROVE x \in All
  <2>1. IsLast(flat, Len(flat), x)
    BY <1>8, <1>9, EmptyMap
  <2>2. x \in Elements(flat)
    BY <1>6, <2>1 DEF IsLast, Elements
  <2> QED BY <1>7, <2>2
<1>10. ASSUME NEW x \in All, NEW y \in All, x.key = y.key PROVE x = y
  <2>1. PICK i \in 1 .. n : x \in VariableSet(w[i])
    BY <1>1
  <2>2. PICK j \in 1 .. n : y \in VariableSet(w[j])
    BY <1>1
  <2>3. PICK p \in Elements(w[i].value) : x = VariableOf(w[i].key, p)
    BY <2>1 DEF VariableSet
  <2>4. PICK q \in Elements(w[j].value) : y = VariableOf(w[j].key, q)
    BY <2>2 DEF VariableSet
  <2>5. w[i].key = w[j].key /\ p.key = q.key
    BY <1>10, <2>3, <2>4 DEF VariableOf
  <2>6. i = j
    BY <1>1, <2>5 DEF OneEntryPerKey
  <2>7. OneEntryPerKey(w[i].value)
    BY <1>1 DEF Entries, Properties, IndexMap
  <2>8. p = q
    BY <2>5, <2>6, <2>7 DEF Elements, OneEntryPerKey
  <2> QED BY <2>3, <2>4, <2>6, <2>8
<1>11. ASSUME NEW x \in All PROVE x \in Elements(f)
  <2>1. x.key \in KeysOf(f)
    BY <1>7, <1>8 DEF KeysOf
  <2>2. PICK y \in Elements(f) : y.key = x.key
    BY <2>1 DEF KeysOf
  <2> QED BY <1>9, <1>10, <2>2
<1> QED BY <1>2, <1>8, <1>9, <1>11, EmptyMap

-----------------------------------------------------------------------------
(* How the variables of a user come about. *)
IsContext ==
  /\ resources \in Seq(Resource) /\ overrides \in IndexMap(Key, Text)
  /\ context = Merged(FromWorkbook(WorkbookOf(resources)), overrides)

(* What the workbook gives is what its last resource with the id says. *)
LEMMA WorkbookGivesIs ==
  ASSUME resources \in Seq(Resource), NEW key \in Key, NEW v \in Text
  PROVE  WorkbookGives(key, v) <=>
           [key |-> key, value |-> v] \in Elements(FromWorkbook(WorkbookOf(resources)))
<1> DEFINE w == WorkbookOf(resources)
           x == [key |-> key, value |-> v]
<1>1. /\ w \in Seq(Entries) /\ OneEntryPerKey(w)
      /\ KeysOf(w) = {resources[r].id : r \in DOMAIN resources}
      /\ \A e \in Elements(w) : \E r \in DOMAIN resources :
           LastOf(resources, r) /\ e = [key |-> resources[r].id, value |-> resources[r].properties]
  BY WorkbookIs
<1>2. /\ DOMAIN resources = 1 .. Len(resources) /\ Len(resources) \in Nat
      /\ DOMAIN resources \subseteq Nat
  OBVIOUS
<1>3. key = <<key[1], key[2]>>
  BY DEF Key
<1>4. v # Null
  BY TemplateAssumption
<1> HIDE DEF w
<1>5. Elements(FromWorkbook(w)) = UNION {VariableSet(w[i]) : i \in DOMAIN w}
  BY <1>1, FromWorkbookIs
<1>6. ASSUME WorkbookGives(key, v) PROVE x \in Elements(FromWorkbook(w))
  <2>1. PICK r \in DOMAIN resources :
          /\ resources[r].id = key[1]
          /\ \A later \in r + 1 .. Len(resources) : resources[later].id # key[1]
          /\ \E p \in DOMAIN resources[r].properties :
               resources[r].properties[p] = [key |-> key[2], value |-> v]
    BY <1>6 DEF WorkbookGives
  <2>2. \A s \in DOMAIN resources : resources[s].id = key[1] => s <= r
    <3> SUFFICES ASSUME NEW s \in DOMAIN resources, resources[s].id = key[1], ~(s <= r)
                 PROVE  FALSE
      OBVIOUS
    <3>1. s \in r + 1 .. Len(resources)
      BY <1>2
    <3> QED BY <2>1, <3>1
  <2>3. PICK e \in Elements(w) : e.key = key[1]
    <3>1. key[1] \in KeysOf(w)
      BY <1>1, <2>1
    <3> QED BY <3>1 DEF KeysOf
  <2>4. PICK s \in DOMAIN resources :
          LastOf(resources, s) /\ e = [key |-> resources[s].id, value |-> resources[s].properties]
    BY <1>1
  <2>5. s = r
    <3>1. resources[s].id = key[1]
      BY <2>3, <2>4
    <3>2. s <= r /\ r <= s
      BY <2>1, <2>2, <2>4, <3>1 DEF LastOf
    <3> QED BY <1>2, <3>2
  <2> DEFINE p == [key |-> key[2], value |-> v]
  <2>6. p \in Elements(e.value)
    BY <2>1, <2>4, <2>5 DEF Elements
  <2>7. x = VariableOf(e.key, p) /\ p.value # Null
    BY <1>3, <1>4, <2>3 DEF VariableOf
  <2>8. x \in VariableSet(e)
    BY <2>6, <2>7 DEF VariableSet
  <2> QED BY <1>5, <2>8 DEF Elements
<1>7. ASSUME x \in Elements(FromWorkbook(w)) PROVE WorkbookGives(key, v)
  <2>1. PICK i \in DOMAIN w : x \in VariableSet(w[i])
    BY <1>5, <1>7
  <2>2. PICK r \in DOMAIN resources :
          LastOf(resources, r) /\ w[i] = [key |-> resources[r].id, value |-> resources[r].properties]
    BY <1>1 DEF Elements
  <2>3. w[i].key = resources[r].id /\ w[i].value = resources[r].properties
    BY <2>2
  <2>4. PICK p \in Elements(resources[r].properties) : x = VariableOf(resources[r].id, p)
    BY <2>1, <2>3 DEF VariableSet
  <2>5. key = <<resources[r].id, p.key>> /\ v = p.value
    BY <2>4 DEF VariableOf
  <2>6. resources[r].id = key[1] /\ p.key = key[2]
    BY <2>5
  <2>7. p = [key |-> key[2], value |-> v]
    <3>1. resources[r] \in Resource
      OBVIOUS
    <3>2. resources[r].properties \in Seq([key : Property, value : Text \cup {Null}])
      BY <3>1 DEF Resource, IndexMap
    <3> DEFINE E == [key : Property, value : Text \cup {Null}]
               ps == resources[r].properties
    <3>3. \A q \in Elements(ps) : q \in E
      <4>1. ps \in Seq(E)
        BY <3>2
      <4> HIDE DEF ps, E
      <4> QED BY <4>1 DEF Elements
    <3>4. p \in E
      BY <3>3
    <3>5. p = [key |-> p.key, value |-> p.value]
      BY <3>4
    <3> QED BY <2>5, <2>6, <3>5
  <2>8. \A later \in r + 1 .. Len(resources) : resources[later].id # key[1]
    <3> SUFFICES ASSUME NEW later \in r + 1 .. Len(resources), resources[later].id = key[1]
                 PROVE  FALSE
      OBVIOUS
    <3>1. later \in DOMAIN resources /\ ~(later <= r)
      BY <1>2
    <3> QED BY <2>2, <2>6, <3>1 DEF LastOf
  <2>9. \E q \in DOMAIN resources[r].properties :
          resources[r].properties[q] = [key |-> key[2], value |-> v]
    BY <2>4, <2>7 DEF Elements
  <2> QED BY <2>6, <2>8, <2>9 DEF WorkbookGives
<1> QED BY <1>6, <1>7 DEF w

(* What the user gives. *)
LEMMA UserGivesIs ==
  ASSUME NEW key, NEW v
  PROVE  UserGives(key, v) <=> [key |-> key, value |-> v] \in Elements(overrides)
  BY DEF UserGives, Elements

(* The merged context has exactly what the keys stand for. *)
LEMMA ContextMeans ==
  ASSUME IsContext
  PROVE  /\ context \in IndexMap(Key, Text)
         /\ \A key \in Key, v \in Text :
              StandsFor(key, v) <=> [key |-> key, value |-> v] \in Elements(context)
<1> DEFINE w == WorkbookOf(resources)
           f == FromWorkbook(w)
<1>1. /\ f \in Seq(Variable) /\ OneEntryPerKey(f)
  BY WorkbookIs, FromWorkbookIs DEF IsContext
<1>2. overrides \in Seq(Variable) /\ OneEntryPerKey(overrides)
  BY DEF IsContext, IndexMap, Variable
<1>3. context = FoldLeft(Insert, f, overrides)
  BY DEF IsContext, Merged
<1> HIDE DEF f
<1>4. /\ context \in Seq(Variable) /\ OneEntryPerKey(context)
      /\ KeysOf(context) = KeysOf(f) \cup KeysOf(overrides)
      /\ \A x \in Elements(context) :
           \/ IsLast(overrides, Len(overrides), x)
           \/ x \in Elements(f) /\ Untouched(overrides, Len(overrides), x.key)
  BY <1>1, <1>2, <1>3, FoldElements
<1>5. PICK n \in Nat : n = Len(overrides) /\ DOMAIN overrides = 1 .. n
  BY <1>2
<1>6. \A x : IsLast(overrides, n, x) => x \in Elements(overrides)
  BY <1>5 DEF IsLast, Elements
<1>7. \A key : Untouched(overrides, n, key) <=> key \notin KeysOf(overrides)
  BY <1>5 DEF Untouched, KeysOf, Elements
<1>8. \A x, y \in Elements(overrides) : x.key = y.key => x = y
  BY <1>2 DEF Elements, OneEntryPerKey
<1>9. \A x, y \in Elements(f) : x.key = y.key => x = y
  BY <1>1 DEF Elements, OneEntryPerKey
<1>10. \A x \in Elements(overrides) : x = [key |-> x.key, value |-> x.value]
  <2> SUFFICES ASSUME NEW i \in DOMAIN overrides
               PROVE  overrides[i] = [key |-> overrides[i].key, value |-> overrides[i].value]
    BY DEF Elements
  <2>1. overrides[i] \in Variable
    BY <1>2
  <2> QED BY <2>1 DEF Variable
<1>11. context \in IndexMap(Key, Text)
  BY <1>4 DEF IndexMap, Variable
<1> SUFFICES ASSUME NEW key \in Key, NEW v \in Text
             PROVE  StandsFor(key, v) <=> [key |-> key, value |-> v] \in Elements(context)
  BY <1>11
<1> DEFINE e == [key |-> key, value |-> v]
           UserHas == \E u \in {overrides[i].value : i \in DOMAIN overrides} : UserGives(key, u)
<1>12. e.key = key /\ e.value = v
  OBVIOUS
<1>13. UserGives(key, v) <=> e \in Elements(overrides)
  BY UserGivesIs
<1>14. WorkbookGives(key, v) <=> e \in Elements(f)
  BY WorkbookGivesIs DEF f, IsContext
<1>15. UserHas <=> key \in KeysOf(overrides)
  <2>1. ASSUME UserHas PROVE key \in KeysOf(overrides)
    <3>1. PICK u : UserGives(key, u)
      BY <2>1
    <3>2. [key |-> key, value |-> u] \in Elements(overrides)
      BY <3>1, UserGivesIs
    <3>3. [key |-> key, value |-> u].key = key
      OBVIOUS
    <3> QED BY <3>2, <3>3 DEF KeysOf
  <2>2. ASSUME key \in KeysOf(overrides) PROVE UserHas
    <3>1. PICK x \in Elements(overrides) : x.key = key
      BY <2>2 DEF KeysOf
    <3>2. [key |-> key, value |-> x.value] \in Elements(overrides)
      BY <1>10, <3>1
    <3>3. UserGives(key, x.value)
      BY <3>2, UserGivesIs
    <3>4. x.value \in {overrides[i].value : i \in DOMAIN overrides}
      BY DEF Elements
    <3> QED BY <3>3, <3>4
  <2> QED BY <2>1, <2>2
<1>16. StandsFor(key, v) <=> UserGives(key, v) \/ (~UserHas /\ WorkbookGives(key, v))
  BY DEF StandsFor
<1> HIDE DEF UserHas, e
<1>17. ASSUME e \in Elements(context) PROVE StandsFor(key, v)
  <2>1. CASE IsLast(overrides, n, e)
    BY <1>6, <1>13, <1>16, <2>1
  <2>2. CASE e \in Elements(f) /\ Untouched(overrides, n, e.key)
    BY <1>7, <1>12, <1>14, <1>15, <1>16, <2>2
  <2> QED BY <1>4, <1>5, <1>17, <2>1, <2>2
<1>18. ASSUME StandsFor(key, v) PROVE e \in Elements(context)
  <2>1. CASE e \in Elements(overrides)
    <3>1. key \in KeysOf(overrides)
      BY <1>12, <2>1 DEF KeysOf
    <3>2. PICK y \in Elements(context) : y.key = key
      BY <1>4, <3>1 DEF KeysOf
    <3>3. y \in Elements(overrides)
      BY <1>4, <1>5, <1>6, <1>7, <3>1, <3>2
    <3> QED BY <1>8, <1>12, <2>1, <3>2, <3>3
  <2>2. CASE e \in Elements(f) /\ key \notin KeysOf(overrides)
    <3>1. key \in KeysOf(f)
      BY <1>12, <2>2 DEF KeysOf
    <3>2. PICK y \in Elements(context) : y.key = key
      BY <1>4, <3>1 DEF KeysOf
    <3>3. y \notin Elements(overrides)
      BY <2>2, <3>2 DEF KeysOf
    <3>4. y \in Elements(f)
      BY <1>4, <1>5, <1>6, <3>2, <3>3
    <3> QED BY <1>9, <1>12, <2>2, <3>2, <3>4
  <2> QED BY <1>13, <1>14, <1>15, <1>16, <1>18, <2>1, <2>2
<1> QED BY <1>17, <1>18 DEF e

-----------------------------------------------------------------------------
(* What a token has become once d variables are replaced, as long as no    *)
(* value mentions a variable.                                              *)
ReplacedBy(token, d) ==
  IF \E j \in 1 .. d : context[j].key = token
  THEN context[CHOOSE j \in 1 .. d : context[j].key = token].value
  ELSE <<token>>

(* As long as no value mentions a variable, every token of the text has    *)
(* become what it stands for, as far as the variables have been replaced.  *)
FlatSoFar ==
  Flat => rendered = FlattenSeq([i \in DOMAIN text |-> ReplacedBy(text[i], done)])

(* RenderingSound speaks of the end; this is what the loop keeps. *)
RenderingInv ==
  /\ resources \in ResourceInput /\ overrides \in OverrideInput /\ text \in TextInput
  /\ context = Merged(FromWorkbook(WorkbookOf(resources)), overrides)
  /\ done \in 0 .. Len(context)
  /\ rendered \in Text
  /\ LeftoversComeLater
  /\ FlatSoFar

(* The types of everything, from the types of the inputs. *)
LEMMA RenderingTypes ==
  ASSUME RenderingInv
  PROVE  /\ IsContext /\ text \in Seq(Token)
         /\ context \in Seq(Variable) /\ OneEntryPerKey(context)
         /\ DOMAIN context = 1 .. Len(context) /\ Len(context) \in Nat
         /\ \A i \in DOMAIN context : context[i].key \in Key /\ context[i].value \in Seq(Token)
<1>1. IsContext
  BY TemplateAssumption DEF RenderingInv, IsContext
<1>2. context \in Seq(Variable) /\ OneEntryPerKey(context)
  BY <1>1, ContextMeans DEF IndexMap, Variable
<1>3. text \in Seq(Token)
  BY TemplateAssumption DEF RenderingInv, Text
<1>4. DOMAIN context = 1 .. Len(context) /\ Len(context) \in Nat
  BY <1>2
<1>5. \A i \in DOMAIN context : context[i] \in Variable
  BY <1>2
<1>6. \A i \in DOMAIN context : context[i].key \in Key /\ context[i].value \in Seq(Token)
  BY <1>5 DEF Variable, Text
<1> QED BY <1>1, <1>2, <1>3, <1>4, <1>6

(* One more variable is replaced in what the tokens have become. *)
LEMMA ReplacedStep ==
  ASSUME context \in Seq(Variable), OneEntryPerKey(context), Flat,
         NEW d \in Nat, NEW k \in DOMAIN context, k = d + 1, NEW token \in Token
  PROVE  /\ ReplacedBy(token, d) \in Seq(Token)
         /\ Replace(ReplacedBy(token, d), context[k]) = ReplacedBy(token, k)
<1> DEFINE e == context[k]
<1>1. /\ DOMAIN context = 1 .. Len(context) /\ Len(context) \in Nat
      /\ \A i \in DOMAIN context : context[i].key \in Key /\ context[i].value \in Seq(Token)
  <2>1. \A i \in DOMAIN context : context[i] \in Variable
    OBVIOUS
  <2> QED BY <2>1 DEF Variable, Text
<1>2. e.key \in Key /\ e.value \in Seq(Token)
  BY <1>1
<1>3. 1 .. k = (1 .. d) \cup {k} /\ k \notin 1 .. d /\ 1 .. k \subseteq DOMAIN context
  BY <1>1
<1>4. CASE \E j \in 1 .. d : context[j].key = token
  <2>1. PICK j \in 1 .. d : context[j].key = token
    BY <1>4
  <2>2. \A i \in 1 .. k : context[i].key = token => i = j
    BY <1>3, <2>1 DEF OneEntryPerKey
  <2>3. (CHOOSE i \in 1 .. d : context[i].key = token) = j
    BY <1>3, <2>1, <2>2
  <2>4. (CHOOSE i \in 1 .. k : context[i].key = token) = j
    BY <1>3, <2>1, <2>2
  <2>5. ReplacedBy(token, d) = context[j].value /\ ReplacedBy(token, k) = context[j].value
    BY <1>3, <2>1, <2>3, <2>4 DEF ReplacedBy
  <2>6. j \in DOMAIN context
    BY <1>3
  <2>7. ~Mentions(context[j].value, e.key)
    BY <2>6 DEF Flat
  <2> DEFINE v == context[j].value
  <2>8. v \in Seq(Token)
    BY <1>1, <2>6
  <2> HIDE DEF v, e
  <2>9. Replace(v, e) = v
    BY <1>2, <2>7, <2>8, ReplaceNone DEF v
  <2> QED BY <2>5, <2>8, <2>9 DEF v, e
<1>5. CASE ~ \E j \in 1 .. d : context[j].key = token
  <2>1. ReplacedBy(token, d) = <<token>>
    BY <1>5 DEF ReplacedBy
  <2>2. Replace(<<token>>, e) = Piece(token, e)
    <3> HIDE DEF e
    <3> QED BY <1>2, ReplaceOne
  <2>3. Piece(token, e) = ReplacedBy(token, k)
    <3>1. CASE token = e.key
      <4>1. (CHOOSE i \in 1 .. k : context[i].key = token) = k
        BY <1>3, <1>5, <3>1
      <4> QED BY <1>3, <3>1, <4>1 DEF Piece, ReplacedBy
    <3>2. CASE token # e.key
      BY <1>3, <1>5, <3>2 DEF Piece, ReplacedBy
    <3> QED BY <3>1, <3>2
  <2> QED BY <2>1, <2>2, <2>3
<1> QED BY <1>4, <1>5

(* One turn of the loop keeps it. *)
LEMMA RenderStep ==
  ASSUME RenderingInv, RenderNext
  PROVE  RenderingInv'
<1>1. /\ text \in Seq(Token)
      /\ context \in Seq(Variable) /\ OneEntryPerKey(context)
      /\ DOMAIN context = 1 .. Len(context) /\ Len(context) \in Nat
      /\ \A i \in DOMAIN context : context[i].key \in Key /\ context[i].value \in Seq(Token)
  BY RenderingTypes
<1>2. PICK d \in Nat, k \in DOMAIN context : d = done /\ k = d + 1
  <2>1. done \in Nat /\ done < Len(context)
    BY DEF RenderingInv, RenderNext
  <2>2. done + 1 \in DOMAIN context
    BY <1>1, <2>1
  <2> QED BY <2>1, <2>2
<1> DEFINE e == context[k]
<1>3. /\ done' = k /\ rendered' = Replace(rendered, e)
      /\ resources' = resources /\ overrides' = overrides /\ text' = text /\ context' = context
  BY <1>2 DEF RenderNext
<1>4. e.key \in Key /\ e.value \in Seq(Token)
  BY <1>1
<1>5. k \in 0 .. Len(context)
  BY <1>1
<1>6. rendered \in Seq(Token)
  BY DEF RenderingInv, Text
<1> HIDE DEF e
<1>7. rendered' \in Text
  BY <1>3, <1>4, <1>6, ReplaceIs DEF Text
<1>8. LeftoversComeLater'
  <2> SUFFICES ASSUME NEW i \in 1 .. k, Mentions(rendered', context[i].key)
               PROVE  \E j \in i .. k : Mentions(context[j].value, context[i].key)
    BY <1>3 DEF LeftoversComeLater, Mentions
  <2> DEFINE key == context[i].key
  <2>1. Mentions(Replace(rendered, e), key)
    BY <1>3 DEF Mentions
  <2> HIDE DEF key
  <2>2. \/ Mentions(rendered, key) /\ key # e.key
        \/ Mentions(e.value, key)
    BY <1>4, <1>6, <2>1, ReplaceMentions
  <2>3. CASE Mentions(e.value, key)
    <3>1. k \in i .. k
      BY <1>2
    <3> QED BY <2>3, <3>1 DEF e, key
  <2>4. CASE Mentions(rendered, key) /\ key # e.key
    <3>1. i # k
      BY <2>4 DEF e, key
    <3>2. i \in 1 .. d
      BY <1>2, <3>1
    <3>3. PICK j \in i .. d : Mentions(context[j].value, key)
      BY <1>2, <2>4, <3>2 DEF RenderingInv, LeftoversComeLater, key
    <3>4. j \in i .. k
      BY <1>2
    <3> QED BY <3>3, <3>4 DEF key
  <2> QED BY <2>2, <2>3, <2>4
<1>9. FlatSoFar'
  <2>1. Flat' = Flat
    BY <1>3 DEF Flat, Mentions
  <2>2. \A token, n : ReplacedBy(token, n)' = ReplacedBy(token, n)
    BY <1>3 DEF ReplacedBy
  <2> SUFFICES ASSUME Flat
               PROVE  rendered' = FlattenSeq([i \in DOMAIN text |-> ReplacedBy(text[i], k)])
    BY <1>3, <2>1 DEF FlatSoFar, ReplacedBy
  <2> DEFINE ss == [i \in DOMAIN text |-> ReplacedBy(text[i], d)]
             rs == [i \in DOMAIN text |-> ReplacedBy(text[i], k)]
  <2>3. PICK n \in Nat : n = Len(text) /\ DOMAIN text = 1 .. n /\ \A i \in 1 .. n : text[i] \in Token
    BY <1>1
  <2>4. \A i \in 1 .. n : /\ ReplacedBy(text[i], d) \in Seq(Token)
                          /\ Replace(ReplacedBy(text[i], d), e) = ReplacedBy(text[i], k)
    BY <1>1, <1>2, <2>3, ReplacedStep DEF e
  <2>5. DOMAIN ss = 1 .. n /\ ss \in [1 .. n -> Seq(Token)]
    BY <2>3, <2>4
  <2>6. \A i \in DOMAIN ss : Replace(ss[i], e) = ReplacedBy(text[i], k)
    BY <2>3, <2>4
  <2>7. [i \in DOMAIN ss |-> Replace(ss[i], e)] = rs
    BY <2>3, <2>5, <2>6
  <2>8. rendered = FlattenSeq(ss)
    BY <1>2 DEF RenderingInv, FlatSoFar
  <2> HIDE DEF ss, rs
  <2>9. ss \in Seq(Seq(Token))
    BY <2>5
  <2>10. Replace(FlattenSeq(ss), e) = FlattenSeq([i \in DOMAIN ss |-> Replace(ss[i], e)])
    BY <1>4, <2>9, ReplaceFlatten
  <2> QED BY <1>3, <2>7, <2>8, <2>10 DEF rs
<1> QED BY <1>3, <1>5, <1>7, <1>8, <1>9 DEF RenderingInv

(* Before the first turn nothing has been replaced. *)
LEMMA RenderInit == TemplateInit => RenderingInv
<1> SUFFICES ASSUME TemplateInit PROVE RenderingInv
  OBVIOUS
<1>1. /\ resources \in ResourceInput /\ overrides \in OverrideInput /\ text \in TextInput
      /\ context = Merged(FromWorkbook(WorkbookOf(resources)), overrides)
      /\ done = 0 /\ rendered = text
  BY DEF TemplateInit
<1>2. IsContext /\ text \in Seq(Token)
  BY <1>1, TemplateAssumption DEF IsContext, Text
<1>3. 0 \in 0 .. Len(context)
  <2>1. context \in Seq(Variable)
    BY <1>2, ContextMeans DEF IndexMap, Variable
  <2> QED BY <2>1
<1>4. \A token : ReplacedBy(token, 0) = <<token>>
  <2>1. 1 .. 0 = {}
    OBVIOUS
  <2> QED BY <2>1 DEF ReplacedBy
<1>5. FlattenSeq([i \in DOMAIN text |-> <<text[i]>>]) = text
  BY <1>2, FlattenSingletons
<1>6. FlatSoFar
  BY <1>1, <1>4, <1>5 DEF FlatSoFar
<1>7. LeftoversComeLater
  BY <1>1 DEF LeftoversComeLater
<1> QED BY <1>1, <1>2, <1>3, <1>6, <1>7 DEF RenderingInv, Text

(* In the end a token has become what it stands for. *)
LEMMA ReplacedIsMeant ==
  ASSUME IsContext, NEW token \in Token
  PROVE  ReplacedBy(token, Len(context)) =
           IF ValuesOf(token) = {} THEN <<token>> ELSE CHOOSE v \in ValuesOf(token) : TRUE
<1>1. /\ context \in Seq(Variable) /\ OneEntryPerKey(context)
      /\ \A key \in Key, v \in Text :
           StandsFor(key, v) <=> [key |-> key, value |-> v] \in Elements(context)
  BY ContextMeans DEF IndexMap, Variable
<1>2. PICK n \in Nat : /\ n = Len(context) /\ DOMAIN context = 1 .. n
                       /\ \A i \in 1 .. n : context[i] \in Variable
  BY <1>1
<1>3. \A i \in 1 .. n : /\ context[i].key \in Key /\ context[i].value \in Text
                        /\ context[i] = [key |-> context[i].key, value |-> context[i].value]
  BY <1>2 DEF Variable
<1>4. \A v : v \in ValuesOf(token) <=> \E i \in 1 .. n : context[i].key = token /\ context[i].value = v
  <2> TAKE v
  <2>1. ASSUME v \in ValuesOf(token)
        PROVE  \E i \in 1 .. n : context[i].key = token /\ context[i].value = v
    <3>1. StandsFor(token, v) /\ v \in Text
      BY <1>2, <1>3, <2>1 DEF ValuesOf
    <3>2. token \in Key
      BY <3>1 DEF StandsFor
    <3>3. [key |-> token, value |-> v] \in Elements(context)
      BY <1>1, <3>1, <3>2
    <3>4. PICK i \in 1 .. n : context[i] = [key |-> token, value |-> v]
      BY <1>2, <3>3 DEF Elements
    <3> QED BY <3>4
  <2>2. ASSUME NEW i \in 1 .. n, context[i].key = token, context[i].value = v
        PROVE  v \in ValuesOf(token)
    <3>1. token \in Key /\ v \in Text /\ context[i] = [key |-> token, value |-> v]
      BY <1>3, <2>2
    <3>2. [key |-> token, value |-> v] \in Elements(context)
      BY <1>2, <3>1 DEF Elements
    <3>3. StandsFor(token, v)
      BY <1>1, <3>1, <3>2
    <3> QED BY <1>2, <2>2, <3>3 DEF ValuesOf
  <2> QED BY <2>1, <2>2
<1>5. CASE \E j \in 1 .. n : context[j].key = token
  <2>1. PICK j \in 1 .. n : context[j].key = token
    BY <1>5
  <2>2. \A i \in 1 .. n : context[i].key = token => i = j
    BY <1>1, <1>2, <2>1 DEF OneEntryPerKey
  <2>3. (CHOOSE i \in 1 .. n : context[i].key = token) = j
    BY <2>1, <2>2
  <2>4. ReplacedBy(token, n) = context[j].value
    BY <2>1, <2>3 DEF ReplacedBy
  <2>5. ValuesOf(token) = {context[j].value}
    BY <1>4, <2>1, <2>2
  <2> QED BY <1>2, <2>4, <2>5
<1>6. CASE ~ \E j \in 1 .. n : context[j].key = token
  <2>1. ValuesOf(token) = {}
    BY <1>4, <1>6
  <2>2. ReplacedBy(token, n) = <<token>>
    BY <1>6 DEF ReplacedBy
  <2> QED BY <1>2, <2>1, <2>2
<1> QED BY <1>5, <1>6

(* After the last turn it is what RenderingSound says. *)
LEMMA RenderingInvIsSound == RenderingInv => RenderingSound
<1> SUFFICES ASSUME RenderingInv PROVE RenderingSound
  OBVIOUS
<1>1. IsContext /\ text \in Seq(Token)
  BY RenderingTypes
<1>2. TemplateTypeOK
  BY <1>1, ContextMeans DEF TemplateTypeOK, RenderingInv
<1>3. FlatIsSubstitution
  <2> SUFFICES ASSUME Flat, done = Len(context)
               PROVE  rendered = FlattenSeq([i \in DOMAIN text |->
                        IF ValuesOf(text[i]) = {} THEN <<text[i]>>
                        ELSE CHOOSE v \in ValuesOf(text[i]) : TRUE])
    BY DEF FlatIsSubstitution
  <2>1. rendered = FlattenSeq([i \in DOMAIN text |-> ReplacedBy(text[i], Len(context))])
    BY DEF RenderingInv, FlatSoFar
  <2>2. \A i \in DOMAIN text : text[i] \in Token
    BY <1>1
  <2>3. \A i \in DOMAIN text :
          ReplacedBy(text[i], Len(context)) =
            IF ValuesOf(text[i]) = {} THEN <<text[i]>> ELSE CHOOSE v \in ValuesOf(text[i]) : TRUE
    BY <1>1, <2>2, ReplacedIsMeant
  <2> QED BY <2>1, <2>3
<1> QED BY <1>2, <1>3 DEF RenderingSound, RenderingInv

(* Whatever the workbook, the user's variables and the text: if no value   *)
(* mentions a variable, rendering is substitution of what the keys stand   *)
(* for, and in any case a placeholder only survives through its own value  *)
(* or a later one.                                                         *)
THEOREM RenderingIsSound == TemplateSpec => []RenderingSound
<1>1. RenderingInv /\ [RenderNext]_templateVars => RenderingInv'
  <2>1. ASSUME RenderingInv, UNCHANGED templateVars PROVE RenderingInv'
    BY <2>1 DEF templateVars, RenderingInv, LeftoversComeLater, FlatSoFar, Flat, ReplacedBy, Mentions
  <2> QED BY <2>1, RenderStep
<1> QED BY <1>1, RenderInit, RenderingInvIsSound, PTL DEF TemplateSpec
=============================================================================

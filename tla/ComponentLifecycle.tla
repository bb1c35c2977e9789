------------------------- MODULE ComponentLifecycle -------------------------
(***************************************************************************)
(* What an ActionComponent may rely on when SchedulerPipeline drives it    *)
(* (executor/src/lib.rs): a caller initialises it, then performs actions,  *)
(* then releases it, and no other caller comes in between.  A caller may   *)
(* leave it without releasing it only before the first action.             *)
(***************************************************************************)
EXTENDS Naturals

CONSTANTS Caller, Component

VARIABLES
  held,     \* the pairs of a caller and a component it has initialised and not released
  working,  \* those of them that perform actions
  left,     \* the pairs of a caller that is over and a component it did not release
  turn      \* how many actions a component has performed, modulo 2

vars == <<held, working, left, turn>>

Init == held = {} /\ working = {} /\ left = {} /\ turn = [c \in Component |-> 0]

Initialise(u, c) ==
  /\ \A v \in Caller : <<v, c>> \notin held
  /\ held' = held \cup {<<u, c>>}
  /\ UNCHANGED <<working, left, turn>>

Begin(u, c) ==
  /\ <<u, c>> \in held \ working
  /\ working' = working \cup {<<u, c>>}
  /\ UNCHANGED <<held, left, turn>>

Perform(u, c) ==
  /\ <<u, c>> \in working
  /\ turn' = [turn EXCEPT ![c] = 1 - @]
  /\ UNCHANGED <<held, working, left>>

Release(u, c) ==
  /\ <<u, c>> \in working
  /\ held' = held \ {<<u, c>>} /\ working' = working \ {<<u, c>>}
  /\ UNCHANGED <<left, turn>>

Leave(u, c) ==
  /\ <<u, c>> \in held \ working
  /\ held' = held \ {<<u, c>>} /\ left' = left \cup {<<u, c>>}
  /\ UNCHANGED <<working, turn>>

Next ==
  \E u \in Caller, c \in Component :
    Initialise(u, c) \/ Begin(u, c) \/ Perform(u, c) \/ Release(u, c) \/ Leave(u, c)

Spec == Init /\ [][Next]_vars
=============================================================================

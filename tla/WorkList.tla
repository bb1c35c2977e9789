------------------------------ MODULE WorkList ------------------------------
(***************************************************************************)
(* What a scheduler run promises, without queues, priorities, events or a  *)
(* workflow: work is discovered, taken up once, and never discovered       *)
(* again; a run that comes to its end has taken up all that it discovered. *)
(* TaskExecutor.tla implements this specification.                         *)
(***************************************************************************)

CONSTANT Work

VARIABLES
  pending,  \* discovered and waiting
  settled,  \* taken up
  phase     \* "open", "finished" (nothing was left) or "stopped" (cut short)

workVars == <<pending, settled, phase>>

WorkInit ==
  /\ pending \subseteq Work
  /\ settled = {}
  /\ phase = "open"

(* One piece of work, or none, is taken up; what is discovered is new.     *)
Proceed(taken, found) ==
  /\ phase = "open"
  /\ taken \subseteq pending
  /\ found \cap (pending \cup settled) = {}
  /\ pending' = (pending \ taken) \cup found
  /\ settled' = settled \cup taken
  /\ UNCHANGED phase

Finish ==
  /\ phase = "open"
  /\ pending = {}
  /\ phase' = "finished"
  /\ UNCHANGED <<pending, settled>>

(* The run is cut short, possibly by the work it was just taking up.       *)
Stop(taken) ==
  /\ phase = "open"
  /\ taken \subseteq pending
  /\ pending' = pending \ taken
  /\ phase' = "stopped"
  /\ UNCHANGED settled

AtMostOne(S) == \A t, u \in S : t = u

WorkNext ==
  \/ \E taken, found \in SUBSET Work : AtMostOne(taken) /\ Proceed(taken, found)
  \/ \E taken \in SUBSET Work : AtMostOne(taken) /\ Stop(taken)
  \/ Finish

WorkSpec == WorkInit /\ [][WorkNext]_workVars
=============================================================================

------------------------------ MODULE Pipeline ------------------------------
(***************************************************************************)
(* SchedulerPipeline::run (scheduler/src/engine.rs): calls of run, one     *)
(* after the other or in several threads of a process, each with a         *)
(* component it borrows for as long as it lasts.  A call initialises the   *)
(* component, sets up the flag by which Ctrl+C stops it, performs actions  *)
(* until the loop ends, and releases the component.  Natively the handler  *)
(* of Ctrl+C can be set once in a process; a WASM build has no handler.    *)
(* The loop itself is the module TaskExecutor.  Load tests do not call run *)
(* (nor does the WASM component of the scheduler, which only knows load    *)
(* tests): they perform actions on components that nobody initialises.     *)
(***************************************************************************)
EXTENDS Naturals

CONSTANTS
  Run,        \* the calls of run a process makes
  Component,
  None

ASSUME PipelineAssumption == None \notin Run \cup Component

VARIABLES
  native,     \* the build: not WASM
  pc,         \* where the call is in run
  uses,       \* the component it borrows
  result,     \* what it returns
  open,       \* the pairs of a call and a component it has initialised and not released
  turn,       \* how many actions a component has performed, modulo 2
  refused,    \* the calls whose release failed
  handler,    \* the call whose flag Ctrl+C sets
  flag,       \* the flag shutdown of each call
  alive       \* the process

pipelineVars == <<native, pc, uses, result, open, turn, refused, handler, flag, alive>>

Place == {"idle", "init", "setup", "loop", "release", "done"}
Outcome == {"none", "ok", "init", "signal", "action", "release"}

PipelineInit ==
  /\ native \in BOOLEAN
  /\ pc = [r \in Run |-> "idle"]
  /\ uses = [r \in Run |-> None]
  /\ result = [r \in Run |-> "none"]
  /\ open = {}
  /\ turn = [c \in Component |-> 0]
  /\ refused = {}
  /\ handler = None
  /\ flag = [r \in Run |-> FALSE]
  /\ alive = TRUE

Go(r, place) == pc' = [pc EXCEPT ![r] = place]
Record(r, outcome) == result' = [result EXCEPT ![r] = outcome]
Return(r, outcome) == Go(r, "done") /\ Record(r, outcome)

Borrowed(c) == \E r \in Run : uses[r] = c /\ pc[r] \notin {"idle", "done"}

-----------------------------------------------------------------------------
(* Mistake: the next call counts on the component of the one before. *)
CallUnbound(r, c) ==
  /\ alive /\ pc[r] = "idle" /\ ~Borrowed(c)
  /\ Go(r, "init")
  /\ UNCHANGED <<native, uses, result, open, turn, refused, handler, flag, alive>>

(* run(&mut component): no two calls borrow one component.  run_default    *)
(* makes a component of its own.                                           *)
Call(r, c) ==
  /\ alive /\ pc[r] = "idle" /\ ~Borrowed(c)
  /\ Go(r, "init")
  /\ uses' = [uses EXCEPT ![r] = c]
  /\ UNCHANGED <<native, result, open, turn, refused, handler, flag, alive>>

Initialise(r) ==
  /\ alive /\ pc[r] = "init"
  /\ \/ Go(r, "setup") /\ open' = open \cup {<<r, uses[r]>>} /\ UNCHANGED result
     \/ Return(r, "init") /\ UNCHANGED open
  /\ UNCHANGED <<native, uses, turn, refused, handler, flag, alive>>

(* Mistake: the handler of an earlier call is replaced. *)
SetupReplacing(r) ==
  /\ alive /\ pc[r] = "setup"
  /\ Go(r, "loop")
  /\ handler' = IF native THEN r ELSE handler
  /\ UNCHANGED <<native, uses, result, open, turn, refused, flag, alive>>

(* setup_shutdown_flag: ctrlc::set_handler fails if the process has a      *)
(* handler, and run returns at once.                                       *)
Setup(r) ==
  /\ alive /\ pc[r] = "setup"
  /\ IF native /\ handler # None
     THEN Return(r, "signal") /\ UNCHANGED handler
     ELSE Go(r, "loop") /\ UNCHANGED result /\ handler' = IF native THEN r ELSE handler
  /\ UNCHANGED <<native, uses, open, turn, refused, flag, alive>>

(* Mistake: the flag is not looked at. *)
PerformAnyway(r) ==
  /\ alive /\ pc[r] = "loop"
  /\ turn' = [turn EXCEPT ![uses[r]] = 1 - @]
  /\ UNCHANGED <<native, pc, uses, result, open, refused, handler, flag, alive>>

(* A turn of the loop that performs an action. *)
Perform(r) ==
  /\ alive /\ pc[r] = "loop" /\ ~flag[r]
  /\ turn' = [turn EXCEPT ![uses[r]] = 1 - @]
  /\ UNCHANGED <<native, pc, uses, result, open, refused, handler, flag, alive>>

(* Mistake: the ? of a failed action leaves run. *)
EndLoopEarly(r) ==
  /\ alive /\ pc[r] = "loop"
  /\ \/ Go(r, "release") /\ Record(r, "ok")
     \/ Return(r, "action")
  /\ UNCHANGED <<native, uses, open, turn, refused, handler, flag, alive>>

(* The loop has nothing left to do, or finds its flag set, or fails. *)
EndLoop(r) ==
  /\ alive /\ pc[r] = "loop"
  /\ Go(r, "release")
  /\ \/ Record(r, "ok")
     \/ Record(r, "action") /\ ~flag[r]
  /\ UNCHANGED <<native, uses, open, turn, refused, handler, flag, alive>>

(* Mistake: an error of release is dropped. *)
ReleaseSilently(r) ==
  /\ alive /\ pc[r] = "release"
  /\ Go(r, "done")
  /\ open' = open \ {<<r, uses[r]>>}
  /\ \E failed \in BOOLEAN : refused' = IF failed THEN refused \cup {r} ELSE refused
  /\ UNCHANGED <<native, uses, result, turn, handler, flag, alive>>

(* The error of release is returned only if the loop had none. *)
Release(r) ==
  /\ alive /\ pc[r] = "release"
  /\ Go(r, "done")
  /\ open' = open \ {<<r, uses[r]>>}
  /\ \/ UNCHANGED <<native, result, refused>>
     \/ /\ refused' = refused \cup {r}
        /\ IF result[r] = "ok" THEN Record(r, "release") ELSE UNCHANGED result
  /\ UNCHANGED <<native, uses, turn, handler, flag, alive>>

(* Ctrl+C.  The handler sets the flag it was made with, also when that     *)
(* call is over.  Without a handler the signal ends the process.           *)
Interrupt ==
  /\ alive
  /\ IF handler = None
     THEN alive' = FALSE /\ UNCHANGED flag
     ELSE flag' = [flag EXCEPT ![handler] = TRUE] /\ UNCHANGED alive
  /\ UNCHANGED <<native, pc, uses, result, open, turn, refused, handler>>

Step(r) == Initialise(r) \/ Setup(r) \/ Perform(r) \/ EndLoop(r) \/ Release(r)

PipelineNext == Interrupt \/ \E r \in Run : Step(r) \/ \E c \in Component : Call(r, c)

PipelineSpec == PipelineInit /\ [][PipelineNext]_pipelineVars

(* The thread of a call runs; whether the loop ends is not fair: workflows *)
(* may be endless.  That the components answer is assumed.                 *)
FairPipelineSpec == PipelineSpec /\ \A r \in Run : WF_pipelineVars(Step(r))

-----------------------------------------------------------------------------
PipelineTypeOK ==
  /\ native \in BOOLEAN
  /\ pc \in [Run -> Place]
  /\ uses \in [Run -> Component \cup {None}]
  /\ \A r \in Run : pc[r] # "idle" => uses[r] \in Component
  /\ result \in [Run -> Outcome]
  /\ open \subseteq Run \X Component
  /\ turn \in [Component -> {0, 1}]
  /\ refused \subseteq Run
  /\ handler \in Run \cup {None}
  /\ flag \in [Run -> BOOLEAN]
  /\ alive \in BOOLEAN

(* A call that has returned has released what it initialised, whatever     *)
(* failed on the way, with one exception: the error of the handler.        *)
OnlySignalLeaks ==
  \A r \in Run, c \in Component :
    pc[r] = "done" /\ <<r, c>> \in open => result[r] = "signal"

(* In a native process one call at most gets as far as performing actions: *)
(* all later ones fail after they have initialised their component.        *)
OneRunPerProcess ==
  native => \A r, s \in Run :
              {pc[r], pc[s]} \subseteq {"loop", "release", "done"}
              /\ {result[r], result[s]} \cap {"init", "signal"} = {} => r = s

(* A failed release is never reported as a success, but an earlier error   *)
(* hides it; and without a failed release none is reported.                *)
RefusalsShow ==
  \A r \in Run : pc[r] = "done" =>
    /\ r \in refused => result[r] \in {"release", "action"}
    /\ result[r] = "release" => r \in refused

(* Of the components that calls have initialised: those that calls under   *)
(* way hold, those of calls in their loop, and those that calls have left. *)
Held == {p \in open : pc[p[1]] # "done"}
Working == {p \in open : pc[p[1]] \in {"loop", "release"}}
Left == {p \in open : pc[p[1]] = "done"}

(* Components see the life cycle they rely on, however calls of run follow *)
(* each other, overlap and fail: every step is one of it.  A component     *)
(* that run leaves without release, as it does when the handler cannot be  *)
(* set, has performed nothing for that call; and though the next call      *)
(* initialises it again, nobody does so while a call holds it.             *)
Lifecycle == INSTANCE ComponentLifecycle
               WITH Caller <- Run, held <- Held, working <- Working, left <- Left

LifecycleKept == Lifecycle!Spec

(* Ctrl+C ends the call whose handler it is, even if its loop would not.   *)
InterruptEnds == \A r \in Run : flag[r] ~> pc[r] = "done"

(* However calls overlap, fail and are interrupted, what they leave behind *)
(* and what they report is accounted for.                                  *)
CallsAccounted == PipelineTypeOK /\ OnlySignalLeaks /\ OneRunPerProcess /\ RefusalsShow
=============================================================================

--------------------------- MODULE TimerRegistry ----------------------------
(***************************************************************************)
(* The timers of corelib (plugins/mvp/corelib/src/timer/mod.rs): a map     *)
(* from ids to entries, and handles that the guests hold.  The registry is *)
(* behind a mutex and the build has one thread: a call is one step.        *)
(* Several timers may have the same deadline.  created_at, a second read   *)
(* of the clock, is only printed.                                          *)
(***************************************************************************)
EXTENDS Integers, Functions

CONSTANTS
  MaxTimers,   \* bound: timers scheduled in all
  MaxInstant   \* the last instant of the clock, 2^64 - 1 in the code

ASSUME TimerAssumption == MaxTimers \in Nat /\ MaxInstant \in Nat

VARIABLES
  now,       \* the monotonic clock
  entries,   \* TIMER_REGISTRY: of each entry the deadline, and (history) from when it
             \* counts: the instant of schedule_after, 0 for schedule_at
  nextId,    \* NEXT_TIMER_ID
  held,      \* the ids whose handle a guest still holds
  cancelled  \* the ids that were given to cancel

timerVars == <<now, entries, nextId, held, cancelled>>

TimerId == 1 .. MaxTimers
Instant == 0 .. MaxInstant
Entry == [deadline : Instant, from : Instant]

TimerInit == now = 0 /\ entries = << >> /\ nextId = 1 /\ held = {} /\ cancelled = {}

-----------------------------------------------------------------------------
(* Mistake: the counter is incremented first. *)
NextTimerIdAhead == nextId + 1

NextTimerId == nextId

Schedule(deadline, from) ==
  /\ nextId <= MaxTimers
  /\ LET id == NextTimerId
     IN  /\ entries' = [i \in DOMAIN entries \cup {id} |->
                          IF i = id THEN [deadline |-> deadline, from |-> from] ELSE entries[i]]
         /\ held' = held \cup {id}
  /\ nextId' = nextId + 1
  /\ UNCHANGED <<now, cancelled>>

(* The instant may be past: such a timer is due at once. *)
ScheduleAt(at) == Schedule(at, 0)

(* Mistake: the sum wraps around. *)
WrappingAdd(delay) == (now + delay) % (MaxInstant + 1)

SaturatingAdd(delay) == IF now + delay > MaxInstant THEN MaxInstant ELSE now + delay

ScheduleAfter(delay) == Schedule(SaturatingAdd(delay), now)

(* Mistake: the entry is looked for by its deadline. *)
CancelByDeadline(id) ==
  /\ id \in held
  /\ entries' = IF id \in DOMAIN entries
                THEN Restrict(entries, {i \in DOMAIN entries : entries[i].deadline # entries[id].deadline})
                ELSE entries
  /\ cancelled' = cancelled \cup {id}
  /\ UNCHANGED <<now, nextId, held>>

(* cancel borrows the handle: the guest can call it again. *)
Cancel(id) ==
  /\ id \in held
  /\ entries' = Restrict(entries, DOMAIN entries \ {id})
  /\ cancelled' = cancelled \cup {id}
  /\ UNCHANGED <<now, nextId, held>>

(* The handle has no destructor: its entry stays. *)
DropHandle(id) ==
  /\ id \in held /\ held' = held \ {id}
  /\ UNCHANGED <<now, entries, nextId, cancelled>>

Tick == now < MaxInstant /\ now' = now + 1 /\ UNCHANGED <<entries, nextId, held, cancelled>>

TimerNext ==
  \/ \E at \in Instant : ScheduleAt(at)
  \/ \E delay \in Instant : ScheduleAfter(delay)
  \/ \E id \in TimerId : Cancel(id) \/ DropHandle(id)
  \/ Tick

(* Time goes on. *)
TimerSpec == TimerInit /\ [][TimerNext]_timerVars /\ WF_timerVars(Tick)

-----------------------------------------------------------------------------
TimerTypeOK ==
  /\ now \in Instant /\ nextId \in 1 .. MaxTimers + 1
  /\ DOMAIN entries \subseteq TimerId /\ \A id \in DOMAIN entries : entries[id] \in Entry
  /\ held \subseteq TimerId /\ cancelled \subseteq TimerId

(* Exactly the timers that nobody cancelled are in the registry: no cancel *)
(* reaches another timer, however often and late it is called.             *)
CancelExact == DOMAIN entries = {id \in TimerId : id < nextId} \ cancelled

(* No entry of schedule_after has a deadline before the call that made it, *)
(* also when its delay does not fit on the clock.  Of schedule_at nothing  *)
(* like it holds.                                                          *)
NeverDueBeforeItsCall == \A id \in DOMAIN entries : entries[id].deadline >= entries[id].from

(* The registry holds the timers that it should, and delays count from the *)
(* call.                                                                   *)
TimersSound == TimerTypeOK /\ CancelExact /\ NeverDueBeforeItsCall
=============================================================================

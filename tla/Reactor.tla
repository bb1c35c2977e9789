------------------------------ MODULE Reactor -------------------------------
(***************************************************************************)
(* The reactor of the runner (plugins/runner/src: runtime.rs, polling.rs,  *)
(* macros.rs): one thread, one slab of pollables that are waited for and a *)
(* waker for each.  The program awaits one select after the other; to      *)
(* sleep is to select among one.  Pollables are timers of the host, which  *)
(* become ready at any time and stay so.                                   *)
(***************************************************************************)
EXTENDS Integers, Sequences, SequencesExt, Functions

CONSTANTS
  MaxPollables,  \* bound: pollables subscribed in all
  Width,         \* bound: the alternatives of one select
  NoKey

ASSUME ReactorAssumption ==
  MaxPollables \in Nat /\ Width \in Nat \ {0} /\ NoKey \notin 0 .. MaxPollables

VARIABLES
  thread,      \* "idle", "poll", "block" or "panicked"
  futures,     \* the wait_for futures of the current select
  polling,     \* the future that is polled next
  chosen,      \* the index that the last select returned
  targets,     \* Poller.targets: the pollable at each key of the slab
  slots,       \* the length of the slab, vacant entries included
  wakers,      \* InnerReactor.wakers: the keys that have one
  subscribed,  \* pollables 1 .. subscribed have been subscribed
  order        \* the ready pollables, in the order in which they became so

reactorVars == <<thread, futures, polling, chosen, targets, slots, wakers, subscribed, order>>

Key == 0 .. MaxPollables - 1
Future == [pollable : 1 .. MaxPollables, key : Key \cup {NoKey}]
IsReady(p) == \E i \in DOMAIN order : order[i] = p

ReactorInit ==
  /\ thread = "idle" /\ futures = << >> /\ polling = 1 /\ chosen = 0
  /\ targets = << >> /\ slots = 0 /\ wakers = {}
  /\ subscribed = 0 /\ order = << >>

-----------------------------------------------------------------------------
(* select_index makes a future for each pollable; nothing is registered    *)
(* before a future is polled.                                              *)
Select(n) ==
  /\ thread = "idle" /\ subscribed + n <= MaxPollables
  /\ futures' = [i \in 1 .. n |-> [pollable |-> subscribed + i, key |-> NoKey]]
  /\ subscribed' = subscribed + n
  /\ thread' = "poll" /\ polling' = 1
  /\ UNCHANGED <<chosen, targets, slots, wakers, order>>

Vacant == (0 .. slots - 1) \ DOMAIN targets

(* The slab fills its vacant entries before it grows. *)
SlabKey(key) == IF Vacant # {} THEN key \in Vacant ELSE key = slots

(* Mistake: the pollable is registered anew at every poll. *)
KeyOfAnew(future, key) == SlabKey(key)

(* The key of a future: its own, or that of a new entry. *)
KeyOf(future, key) == IF future.key # NoKey THEN key = future.key ELSE SlabKey(key)

With(key, p) == [k \in DOMAIN targets \cup {key} |-> IF k = key THEN p ELSE targets[k]]

(* Mistake: the slab is taken to be as long as before. *)
LargerNever(key) == slots

Larger(key) == IF key < slots THEN slots ELSE key + 1

(* Mistake: the waker is removed, the pollable stays. *)
FinishLeaving(key, p) ==
  /\ targets' = With(key, p) /\ wakers' = wakers \ {key}
  /\ chosen' = polling /\ thread' = "idle" /\ futures' = << >> /\ polling' = 1

(* The select returns, and its other futures are dropped as they are.      *)
Finish(key, p) ==
  /\ targets' = Restrict(targets, DOMAIN targets \ {key}) /\ wakers' = wakers \ {key}
  /\ chosen' = polling /\ thread' = "idle" /\ futures' = << >> /\ polling' = 1

Wait(key, p) ==
  /\ targets' = With(key, p) /\ wakers' = wakers \cup {key}
  /\ futures' = [futures EXCEPT ![polling].key = key]
  /\ IF polling = Len(futures) THEN thread' = "block" /\ UNCHANGED polling
                            ELSE polling' = polling + 1 /\ UNCHANGED thread
  /\ UNCHANGED chosen

(* wait_for, polled once *)
PollFuture ==
  /\ thread = "poll"
  /\ LET p == futures[polling].pollable
     IN  \E key \in 0 .. slots :
           /\ KeyOf(futures[polling], key)
           /\ slots' = Larger(key)
           /\ IF IsReady(p) THEN Finish(key, p) ELSE Wait(key, p)
  /\ UNCHANGED <<subscribed, order>>

ReadyKeys == {k \in DOMAIN targets : IsReady(targets[k])}


(* block_until of the reactor: the host returns when an entry of the slab  *)
(* is ready; with an empty slab the call returns at once.  A ready key     *)
(* without a waker is a panic.                                             *)
BlockUntil ==
  /\ thread = "block" /\ (targets = << >> \/ ReadyKeys # {})
  /\ IF ReadyKeys \subseteq wakers THEN thread' = "poll" /\ polling' = 1
                                   ELSE thread' = "panicked" /\ UNCHANGED polling
  /\ UNCHANGED <<futures, chosen, targets, slots, wakers, subscribed, order>>

BecomeReady(p) ==
  /\ p \in 1 .. subscribed /\ ~IsReady(p)
  /\ order' = Append(order, p)
  /\ UNCHANGED <<thread, futures, polling, chosen, targets, slots, wakers, subscribed>>

ReactorNext ==
  \/ \E n \in 1 .. Width : Select(n)
  \/ PollFuture \/ BlockUntil
  \/ \E p \in 1 .. MaxPollables : BecomeReady(p)

(* The thread runs on, and every timer goes off. *)
ReactorSpec ==
  /\ ReactorInit /\ [][ReactorNext]_reactorVars
  /\ WF_reactorVars(PollFuture \/ BlockUntil)
  /\ \A p \in 1 .. MaxPollables : WF_reactorVars(BecomeReady(p))

-----------------------------------------------------------------------------
ReactorTypeOK ==
  /\ thread \in {"idle", "poll", "block", "panicked"}
  /\ futures \in BoundedSeq(Future, Width)
  /\ polling \in 1 .. Width /\ chosen \in 0 .. Width
  /\ slots \in 0 .. MaxPollables
  /\ DOMAIN targets \subseteq 0 .. slots - 1 /\ \A k \in DOMAIN targets : targets[k] \in 1 .. subscribed
  /\ wakers \subseteq Key /\ subscribed \in 0 .. MaxPollables

(* A future that has been polled finds its own pollable under its key,     *)
(* whatever was dropped, removed and reused before; no pollable is         *)
(* registered twice.  When the thread blocks, every future is registered.  *)
KeysOwned ==
  /\ \A i \in DOMAIN futures :
       /\ futures[i].key # NoKey =>
            futures[i].key \in DOMAIN targets /\ targets[futures[i].key] = futures[i].pollable
       /\ thread = "block" => futures[i].key # NoKey
  /\ \A j, k \in DOMAIN targets : targets[j] = targets[k] => j = k

(* "tried to wake the waker for non-existent" is never reached. *)
NeverPanics == thread # "panicked"

(* Every select returns, also next to entries that nobody waits for any    *)
(* more and that make every block end at once.                             *)
SelectReturns == thread = "poll" ~> thread = "idle"

(* Every select finds its own pollables and panics at none. *)
SelectsSound == ReactorTypeOK /\ KeysOwned /\ NeverPanics
=============================================================================

------------------------- MODULE LoadTestSequential -------------------------
(***************************************************************************)
(* run_scenario_impl (scheduler/src/component.rs): the load test as a WASM *)
(* component, without threads.  A user runs to its end and releases its    *)
(* address, whatever the strategy, before the next is spawned; a panic is  *)
(* a trap that ends the call.                                              *)
(***************************************************************************)
EXTENDS LoadTest

VARIABLE wasm  \* TRUE: the component makes the load test, FALSE: main.rs

NobodyRuns == \A u \in SubId : user[u] \in {"Unspawned", "Exited"}

(* Mistake: the strategy is heeded as in main.rs. *)
ExitAsStrategySays(u) == ExitUser(u)

ExitSequential(u) ==
  /\ Becomes(u, "Releasing", "Exited")
  /\ IF config.enabled /\ ip[u] # NoIp THEN ReleaseByIp(ip[u]) ELSE UNCHANGED poolVars
  /\ UNCHANGED <<config, main, spawned, ip, saved>>

(* Mistake: the next user is spawned while the last one still runs. *)
SpawnWhileRunning == SpawnUser

SpawnSequential == NobodyRuns /\ SpawnUser

(* The call returns when all users have exited. *)
FinishSequential == NobodyRuns /\ AwaitAll

SequentialNext ==
  \/ ConfigurePool \/ SpawnSequential \/ FinishSequential
  \/ \E u \in SubId :
       StartUser(u) \/ RunSucceeds(u) \/ RunFails(u) \/ Panic(u)
         \/ SaveTraces(u) \/ ExitSequential(u)

SequentialSpec == LoadInit /\ [][SequentialNext]_vars

(* Either build of the load test. *)
eitherVars == <<vars, wasm>>

EitherInit == LoadInit /\ wasm \in BOOLEAN

EitherNext ==
  /\ UNCHANGED wasm
  /\ \/ ~wasm /\ LoadNext
     \/ wasm /\ SequentialNext

EitherSpec == EitherInit /\ [][EitherNext]_eitherVars

-----------------------------------------------------------------------------
(* A run of the component is one that the concurrent program may make with *)
(* the strategy per_user.                                                  *)
PerUser(c) == [c EXCEPT !.strategy = "per_user"]

Concurrent == INSTANCE LoadTest WITH
  ConfigInput <- {PerUser(c) : c \in ConfigInput}, config <- PerUser(config)

ImplementsConcurrent == Concurrent!LoadSpec

(* A load test of the component is one that the concurrent program may     *)
(* make with the strategy per_user.                                        *)
WasmImplementsConcurrent ==
  /\ Concurrent!LoadInit
  /\ [][wasm => Concurrent!LoadNext]_(Concurrent!vars)

(* One address is enough: if the pool has any, every user that is spawned  *)
(* gets one, however many users there are.                                 *)
EveryUserServed ==
  config.enabled /\ (\E a \in Addr : InPool(a)) =>
    \A u \in SubId : user[u] # "Unspawned" => ip[u] # NoIp

(* One address serves all users of the component, one after the other.     *)
WasmServesEveryUser == wasm => EveryUserServed

(* When the load test of main.rs is over, exactly the addresses of users   *)
(* that panicked, or with per_task all, are still leased.                  *)
LoadLeasesAtEnd == ~wasm => FinalLeases
=============================================================================

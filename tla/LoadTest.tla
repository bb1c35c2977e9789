------------------------------ MODULE LoadTest ------------------------------
(***************************************************************************)
(* run_load_test (scheduler/src/main.rs): the main task configures the     *)
(* address pool, allocates an address for one user after the other and     *)
(* spawns them as tasks of the tokio runtime.  A task occupies a worker    *)
(* for its whole run, which does not await, then saves its traces and      *)
(* releases its address; each of these takes a lock that the main task and *)
(* the other users also take.  The phases of the ramp-up only delay the    *)
(* spawns, which may happen at any time here: User lists the users of all  *)
(* phases in the order in which they are spawned.  What the code parses    *)
(* and never reads is left out: max_concurrent_users, release_on and       *)
(* ip_pool_override.                                                       *)
(***************************************************************************)
EXTENDS IpPool

CONSTANTS
  PoolId,
  ConfigInput,    \* the configurations that may be loaded
  User,           \* the tenant of each user, in the order in which they are spawned
  Workers,        \* the worker threads of the runtime
  HttpClient,     \* the resource every user's binding names
  BadRange        \* a range that from_cidr refuses

PoolDef == [id : PoolId, ranges : Seq(IpRange \cup {BadRange})]

(* Of the workbook and of load: ip_pools and ip_binding; whether           *)
(* parse_duration takes the think_time; and the users whose walk through   *)
(* the workflow does not end.                                              *)
Config == [ip_pools : Seq(PoolDef), pool_id : PoolId, enabled : BOOLEAN,
           strategy : {"per_user", "shared", "per_task"},
           think_time : BOOLEAN, endless : SUBSET SubId]

ASSUME LoadAssumption ==
  /\ ConfigInput \subseteq Config
  /\ User \in Seq(SubInstance)
  /\ SubId = DOMAIN User
  /\ Workers \in Nat \ {0}
  /\ HttpClient \in Resource
  /\ BadRange \notin IpRange

VARIABLES
  config,   \* the configuration, which does not change
  main,     \* the main task: "Configuring", "Spawning", "Done" or "Failed"
  spawned,  \* user_id_counter
  user,     \* what each user's task is doing
  ip,       \* allocated_ip of each user
  saved     \* the users whose traces are in all_traces

loadVars == <<config, main, spawned, user, ip, saved>>
vars == <<poolVars, loadVars>>

Stage == {"Unspawned", "Queued", "Running", "Saving", "Releasing", "Exited", "Panicked"}

(* Mistake: a worker whose task panicked is lost. *)
BusyOrLost == {u \in SubId : user[u] \in {"Running", "Saving", "Releasing", "Panicked"}}

(* The users that occupy a worker. *)
Busy == {u \in SubId : user[u] \in {"Running", "Saving", "Releasing"}}

(* A user that has been given its address and has not released it yet.     *)
Live == {u \in SubId : user[u] \in {"Queued", "Running", "Saving", "Releasing"}}

BindingOf(u) == [subinstance |-> User[u], subid |-> u, subtype |-> HttpClient]

-----------------------------------------------------------------------------
LoadInit ==
  /\ Init
  /\ config \in ConfigInput
  /\ main = "Configuring"
  /\ spawned = 0
  /\ user = [u \in SubId |-> "Unspawned"]
  /\ ip = [u \in SubId |-> NoIp]
  /\ saved = {}

(* The definitions of the used pool: initialize_from_config makes a pool   *)
(* of each, and the last replaces the others.                              *)
Chosen == SelectSeq(config.ip_pools, LAMBDA d : d.id = config.pool_id)

Refuses(def) == \E i \in DOMAIN def.ranges : def.ranges[i] = BadRange

ConfigurePool ==
  /\ main = "Configuring"
  /\ IF config.enabled /\ (Chosen = <<>> \/ \E i \in DOMAIN Chosen : Refuses(Chosen[i]))
     THEN main' = "Failed" /\ UNCHANGED ranges
     ELSE /\ main' = IF config.think_time THEN "Spawning" ELSE "Failed"
          /\ ranges' = IF config.enabled THEN Chosen[Len(Chosen)].ranges ELSE <<>>
  /\ UNCHANGED <<reserved, bindVars, config, spawned, user, ip, saved>>

(* Mistake: the key of the tenant's first user is used for all.            *)
SpawnUnderOneKey ==
  /\ main = "Spawning" /\ spawned < Len(User)
  /\ LET u == spawned + 1
     IN  /\ Allocate(User[u], 1, HttpClient)
         /\ ip' = [ip EXCEPT ![u] = subid_index'[<<User[u], 1>>]]
         /\ user' = [user EXCEPT ![u] = "Queued"]
         /\ spawned' = u
  /\ UNCHANGED <<config, main, saved>>

(* The next user gets an address, or none if the pool is full, and a task. *)
SpawnUser ==
  /\ main = "Spawning" /\ spawned < Len(User)
  /\ LET u == spawned + 1
         t == User[u]
     IN  /\ IF config.enabled
            THEN /\ Allocate(t, u, HttpClient)
                 /\ ip' = [ip EXCEPT ![u] = subid_index'[<<t, u>>]]
            ELSE UNCHANGED <<poolVars, ip>>
         /\ user' = [user EXCEPT ![u] = "Queued"]
         /\ spawned' = u
  /\ UNCHANGED <<config, main, saved>>

Becomes(u, from, to) == user[u] = from /\ user' = [user EXCEPT ![u] = to]

(* A free worker takes any of the queued tasks. *)
StartUser(u) ==
  /\ Cardinality(Busy) < Workers
  /\ Becomes(u, "Queued", "Running")
  /\ UNCHANGED <<poolVars, config, main, spawned, ip, saved>>

(* executor.run returns traces, or an error, or panics: then the task is   *)
(* gone with what it still had to do.                                      *)
RunSucceeds(u) ==
  /\ u \notin config.endless
  /\ Becomes(u, "Running", "Saving")
  /\ UNCHANGED <<poolVars, config, main, spawned, ip, saved>>

(* Mistake: a failed user returns without releasing its address. *)
RunFailsAtOnce(u) ==
  /\ u \notin config.endless
  /\ Becomes(u, "Running", "Exited")
  /\ UNCHANGED <<poolVars, config, main, spawned, ip, saved>>

RunFails(u) ==
  /\ u \notin config.endless
  /\ Becomes(u, "Running", "Releasing")
  /\ UNCHANGED <<poolVars, config, main, spawned, ip, saved>>

Panic(u) ==
  /\ u \notin config.endless
  /\ Becomes(u, "Running", "Panicked")
  /\ UNCHANGED <<poolVars, config, main, spawned, ip, saved>>

SaveTraces(u) ==
  /\ Becomes(u, "Saving", "Releasing")
  /\ saved' = saved \cup {u}
  /\ UNCHANGED <<poolVars, config, main, spawned, ip>>

(* Only the strategy per_task keeps the address: release_on is not read.   *)
ExitUser(u) ==
  /\ Becomes(u, "Releasing", "Exited")
  /\ IF config.enabled /\ config.strategy # "per_task" /\ ip[u] # NoIp
     THEN ReleaseByIp(ip[u])
     ELSE UNCHANGED poolVars
  /\ UNCHANGED <<config, main, spawned, ip, saved>>

(* All tasks are awaited; that one has panicked goes unnoticed.            *)
AwaitAll ==
  /\ main = "Spawning" /\ spawned = Len(User)
  /\ \A u \in SubId : user[u] \in {"Exited", "Panicked"}
  /\ main' = "Done"
  /\ UNCHANGED <<poolVars, config, spawned, user, ip, saved>>

Main == ConfigurePool \/ SpawnUser \/ AwaitAll

Task(u) ==
  \/ StartUser(u)
  \/ RunSucceeds(u) \/ RunFails(u) \/ Panic(u)
  \/ SaveTraces(u) \/ ExitUser(u)

LoadNext == Main \/ \E u \in SubId : Task(u)

LoadSpec == LoadInit /\ [][LoadNext]_vars

(* The main task has a thread of its own; a worker that is free takes      *)
(* queued tasks in turn, and a run that is not endless returns.            *)
FairLoadSpec ==
  /\ LoadSpec
  /\ WF_vars(Main)
  /\ \A u \in SubId : WF_vars(Task(u))

-----------------------------------------------------------------------------
LoadTypeOK ==
  /\ main \in {"Configuring", "Spawning", "Done", "Failed"}
  /\ spawned \in 0 .. Len(User)
  /\ user \in [SubId -> Stage]
  /\ ip \in [SubId -> Addr \cup {NoIp}]
  /\ saved \subseteq SubId

(* "Every user has an IP of its own until it exits": as long as a user's   *)
(* task may use its address, the pool has it bound to that very user, so   *)
(* no spawn and no release of another user can have touched it.            *)
LiveUserHoldsItsAddress ==
  \A u \in Live : ip[u] # NoIp => allocated[ip[u]] = BindingOf(u)

(* Who still stands behind a binding: a live user, one whose panic took    *)
(* the release with it, or any at all with the strategy per_task.          *)
Holder(u) == u \in Live \/ user[u] = "Panicked" \/ (config.strategy = "per_task" /\ user[u] = "Exited")

(* A user is spawned without an address only when every address of the     *)
(* pool has a holder at that time.                                         *)
DeniedOnlyWhenAllHeld ==
  [][config.enabled /\ spawned' # spawned /\ ip'[spawned'] = NoIp =>
       \A a \in Addr : InPool(a) => \E u \in SubId : ip[u] = a /\ Holder(u)]_vars

(* When the load test is over the pool has leased exactly the addresses of *)
(* the users that panicked, or with per_task all that were ever used.      *)
FinalLeases ==
  main = "Done" => Allocated = {ip[u] : u \in {v \in SubId : Holder(v)}} \ {NoIp}

(* A user that never starts has been kept waiting by endless users on      *)
(* every worker; nothing else can.                                         *)
StarvedOnlyByEndless ==
  \A u \in SubId :
    [](user[u] = "Queued" =>
         <>(user[u] # "Queued"
              \/ Cardinality({v \in config.endless : user[v] = "Running"}) = Workers))

(* The load test ends, unless it cannot be configured or an endless user   *)
(* has started.                                                            *)
EndsUnlessEndless ==
  <>(main \in {"Done", "Failed"} \/ \E u \in config.endless : user[u] = "Running")
=============================================================================

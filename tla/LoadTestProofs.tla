--------------------------- MODULE LoadTestProofs ---------------------------
(***************************************************************************)
(* The leases of a load test, for any number of users, tenants, workers    *)
(* and addresses.  The proof keeps account of who stands behind each       *)
(* binding: keys of users that are still to come are in no index, so a     *)
(* spawn binds a free address or none, and a release can only reach the    *)
(* address of the user that makes it.  Then the load test of the WASM      *)
(* component: it is one that the program may make, and serves every user.  *)
(* Last, either of them, as MCLoadTest runs them.                          *)
(***************************************************************************)
EXTENDS LoadTestSequential, TLAPS

(* What of the pool the load test depends on. *)
PoolTyped ==
  /\ allocated \in [Addr -> Binding \cup {NoBinding}]
  /\ subid_index \in [Key -> Addr \cup {NoIp}]
  /\ reserved = {}

(* Users are spawned in their order, and a user's key is not used before.  *)
ToCome ==
  \A u \in SubId :
    /\ user[u] = "Unspawned" <=> u > spawned
    /\ u > spawned => ip[u] = NoIp /\ \A t \in SubInstance : subid_index[<<t, u>>] = NoIp

(* Every binding is that of a user that stands behind it. *)
HoldersBound == \A u \in SubId : Holder(u) /\ ip[u] # NoIp => allocated[ip[u]] = BindingOf(u)

AllHeld == \A a \in Allocated : \E u \in SubId : ip[u] = a /\ Holder(u)

(* Without the binding of addresses nobody has one. *)
NoneIfDisabled == ~config.enabled => \A u \in SubId : ip[u] = NoIp

(* What spawns in order keep, however the users before them run. *)
Ordered == LoadTypeOK /\ PoolTyped /\ ToCome

LeaseInv == Ordered /\ HoldersBound /\ AllHeld /\ NoneIfDisabled

-----------------------------------------------------------------------------
LEMMA UserFacts ==
  /\ Len(User) \in Nat
  /\ SubId = 1 .. Len(User)
  /\ \A u \in SubId : User[u] \in SubInstance /\ BindingOf(u) \in Binding
<1>1. Len(User) \in Nat /\ SubId = 1 .. Len(User)
  BY LoadAssumption
<1>2. \A u \in SubId : User[u] \in SubInstance
  BY LoadAssumption
<1> QED BY <1>1, <1>2, LoadAssumption DEF BindingOf, Binding

(* The bindings of two users are never the same. *)
LEMMA BindingsDiffer ==
  ASSUME NEW u \in SubId, NEW v \in SubId, u # v PROVE BindingOf(u) # BindingOf(v)
  BY DEF BindingOf

LEMMA BindingIsBinding == \A u \in SubId : BindingOf(u) # NoBinding
  BY UserFacts, IpPoolAssumption

LEMMA InitLeases == LoadInit => LeaseInv
<1> SUFFICES ASSUME LoadInit PROVE LeaseInv
  OBVIOUS
<1> USE UserFacts, IpPoolAssumption DEF LoadInit, Init
<1>1. LoadTypeOK
  BY DEF LoadTypeOK, Stage
<1>2. PoolTyped
  BY DEF PoolTyped
<1>3. ToCome
  BY DEF ToCome, Key
<1>4. HoldersBound /\ NoneIfDisabled
  BY DEF HoldersBound, NoneIfDisabled
<1>5. AllHeld
  BY DEF AllHeld, Allocated
<1> QED BY <1>1, <1>2, <1>3, <1>4, <1>5 DEF LeaseInv, Ordered

(* A user for whom an address is bound gets a free one. *)
LEMMA SpawnBinds ==
  ASSUME SpawnUser, NEW u \in SubId, u = spawned + 1,
         NEW a \in Addr, IsFirstFit(a), Bind(a, User[u], u, HttpClient)
  PROVE  /\ allocated[a] = NoBinding
         /\ allocated' = [allocated EXCEPT ![a] = BindingOf(u)]
         /\ subid_index' = [subid_index EXCEPT ![<<User[u], u>>] = a]
         /\ UNCHANGED <<ranges, reserved>>
  BY DEF IsFirstFit, Usable, Allocated, Bind, BindingOf

(* The two ways a spawn can go. *)
LEMMA SpawnKinds ==
  ASSUME Ordered, SpawnUser, NEW u \in SubId, u = spawned + 1
  PROVE  \/ UNCHANGED poolVars /\ ip'[u] = NoIp /\ (config.enabled => PoolFull)
         \/ \E a \in Addr : /\ config.enabled /\ ip'[u] = a
                            /\ IsFirstFit(a) /\ Bind(a, User[u], u, HttpClient)
<1> USE UserFacts DEF Ordered, LoadTypeOK, PoolTyped
<1>1. <<User[u], u>> \in Key /\ subid_index[<<User[u], u>>] = NoIp /\ ip[u] = NoIp
  BY DEF ToCome, Key
<1>2. CASE ~config.enabled
  BY <1>1, <1>2 DEF SpawnUser
<1>3. CASE config.enabled
  <2>1. Allocate(User[u], u, HttpClient) /\ ip'[u] = subid_index'[<<User[u], u>>]
    BY <1>3 DEF SpawnUser
  <2>2. CASE PoolFull /\ UNCHANGED poolVars
    BY <1>1, <2>1, <2>2 DEF poolVars
  <2>3. ASSUME NEW a \in Addr, IsFirstFit(a), Bind(a, User[u], u, HttpClient)
        PROVE  ip'[u] = a
    BY <1>1, <2>1, <2>3 DEF Bind
  <2> QED BY <1>1, <1>3, <2>1, <2>2, <2>3 DEF Allocate
<1> QED BY <1>2, <1>3

(* A spawn keeps users in their order; of the others it touches nothing.   *)
LEMMA SpawnKeepsOrder ==
  ASSUME Ordered, SpawnUser, NEW u \in SubId, u = spawned + 1
  PROVE  /\ Ordered'
         /\ user[u] = "Unspawned" /\ ip[u] = NoIp
         /\ spawned' = u /\ user' = [user EXCEPT ![u] = "Queued"]
         /\ config' = config /\ main' = main /\ saved' = saved
         /\ \A v \in SubId : v # u => ip'[v] = ip[v] /\ user'[v] = user[v]
<1>1. u > spawned /\ spawned \in Nat
  BY UserFacts DEF Ordered, LoadTypeOK
<1>2. /\ spawned' = u /\ user' = [user EXCEPT ![u] = "Queued"]
      /\ config' = config /\ main' = main /\ saved' = saved
  BY DEF SpawnUser
<1>3. \A v \in SubId : v # u => ip'[v] = ip[v] /\ user'[v] = user[v]
  BY DEF SpawnUser, Ordered, LoadTypeOK
<1>4. ip' \in [SubId -> Addr \cup {NoIp}]
  <2>1. CASE UNCHANGED ip
    BY <2>1 DEF Ordered, LoadTypeOK
  <2>2. CASE ip' = [ip EXCEPT ![u] = subid_index'[<<User[u], u>>]]
    <3>1. ip'[u] \in Addr \cup {NoIp}
      BY SpawnKinds
    <3>2. PICK x : ip' = [ip EXCEPT ![u] = x]
      BY <2>2
    <3>3. ip \in [SubId -> Addr \cup {NoIp}]
      BY DEF Ordered, LoadTypeOK
    <3>4. x \in Addr \cup {NoIp}
      BY <3>1, <3>2, <3>3
    <3> QED BY <3>2, <3>3, <3>4
  <2> QED BY <2>1, <2>2 DEF SpawnUser
<1>5. LoadTypeOK'
  BY <1>2, <1>4, UserFacts DEF Ordered, LoadTypeOK, Stage
<1>6. user[u] = "Unspawned" /\ ip[u] = NoIp
  BY <1>1 DEF Ordered, ToCome
<1>7. PoolTyped' /\ ToCome'
  <2>1. CASE UNCHANGED poolVars /\ ip'[u] = NoIp
    <3>1. PoolTyped'
      BY <2>1 DEF Ordered, PoolTyped, poolVars
    <3>2. ToCome'
      BY <1>1, <1>2, <1>3, <2>1, UserFacts DEF Ordered, ToCome, LoadTypeOK, poolVars
    <3> QED BY <3>1, <3>2
  <2>2. ASSUME NEW a \in Addr, IsFirstFit(a), Bind(a, User[u], u, HttpClient)
        PROVE  PoolTyped' /\ ToCome'
    <3>1. /\ allocated' = [allocated EXCEPT ![a] = BindingOf(u)]
          /\ subid_index' = [subid_index EXCEPT ![<<User[u], u>>] = a]
          /\ UNCHANGED <<ranges, reserved>>
      BY <2>2, SpawnBinds
    <3>2. PoolTyped'
      BY <3>1, UserFacts DEF Ordered, PoolTyped, Key
    <3>3. \A v \in SubId, t \in SubInstance : v # u => subid_index'[<<t, v>>] = subid_index[<<t, v>>]
      BY <3>1, UserFacts DEF Ordered, PoolTyped, Key
    <3>4. ToCome'
      BY <1>1, <1>2, <1>3, <3>3, UserFacts DEF Ordered, ToCome, LoadTypeOK
    <3> QED BY <3>2, <3>4
  <2> QED BY <2>1, <2>2, SpawnKinds
<1> QED BY <1>2, <1>3, <1>5, <1>6, <1>7 DEF Ordered

LEMMA SpawnKeepsLeases == ASSUME LeaseInv, SpawnUser PROVE LeaseInv'
<1>0. PICK u \in SubId : u = spawned + 1
  BY UserFacts DEF SpawnUser, LeaseInv, Ordered, LoadTypeOK
<1>1. /\ Ordered /\ Ordered'
      /\ user[u] = "Unspawned" /\ ip[u] = NoIp
      /\ spawned' = u /\ user' = [user EXCEPT ![u] = "Queued"]
      /\ config' = config /\ main' = main /\ saved' = saved
      /\ \A v \in SubId : v # u => ip'[v] = ip[v] /\ user'[v] = user[v]
  BY <1>0, SpawnKeepsOrder DEF LeaseInv
<1>2. \A v \in SubId : v # u => (Holder(v)' <=> Holder(v))
  BY <1>1 DEF Holder, Live
<1>3. Holder(u)' /\ ~Holder(u)
  BY <1>1 DEF Holder, Live, Ordered, LoadTypeOK
<1>4. ASSUME UNCHANGED poolVars, ip'[u] = NoIp PROVE LeaseInv'
  <2>1. HoldersBound' /\ NoneIfDisabled'
    BY <1>1, <1>2, <1>4 DEF LeaseInv, HoldersBound, NoneIfDisabled, poolVars, BindingOf
  <2>2. AllHeld'
    BY <1>1, <1>2, <1>3, <1>4, IpPoolAssumption DEF LeaseInv, AllHeld, Allocated, poolVars
  <2> QED BY <1>1, <2>1, <2>2 DEF LeaseInv
<1>5. ASSUME NEW a \in Addr, config.enabled, ip'[u] = a, IsFirstFit(a),
             Bind(a, User[u], u, HttpClient)
      PROVE  LeaseInv'
  <2>1. /\ allocated[a] = NoBinding
        /\ allocated' = [allocated EXCEPT ![a] = BindingOf(u)]
    BY <1>0, <1>5, SpawnBinds
  <2>2. \A v \in SubId : v # u /\ Holder(v) /\ ip[v] # NoIp => ip[v] # a
    BY <2>1, BindingIsBinding DEF LeaseInv, HoldersBound
  <2>3. HoldersBound'
    <3> SUFFICES ASSUME NEW v \in SubId, Holder(v)', ip'[v] # NoIp
                 PROVE  allocated'[ip'[v]] = BindingOf(v)
      BY DEF HoldersBound, BindingOf
    <3>1. CASE v = u
      BY <1>1, <1>5, <2>1, <3>1 DEF Ordered, PoolTyped
    <3>2. CASE v # u
      <4>1. ip'[v] = ip[v] /\ Holder(v) /\ ip[v] \in Addr /\ ip[v] # a
        BY <1>1, <1>2, <2>2, <3>2 DEF Ordered, LoadTypeOK
      <4>2. allocated[ip[v]] = BindingOf(v)
        BY <4>1, IpPoolAssumption DEF LeaseInv, HoldersBound
      <4> QED BY <1>1, <2>1, <4>1, <4>2 DEF Ordered, PoolTyped
    <3> QED BY <3>1, <3>2
  <2>4. AllHeld'
    <3> SUFFICES ASSUME NEW b \in Allocated' PROVE \E v \in SubId : ip'[v] = b /\ Holder(v)'
      BY DEF AllHeld
    <3>1. CASE b = a
      BY <1>3, <1>5, <3>1
    <3>2. CASE b # a
      <4>1. b \in Allocated
        BY <1>1, <2>1, <3>2 DEF Allocated, Ordered, PoolTyped
      <4>2. PICK v \in SubId : ip[v] = b /\ Holder(v)
        BY <4>1 DEF LeaseInv, AllHeld
      <4> QED BY <1>1, <1>2, <1>3, <4>2
    <3> QED BY <3>1, <3>2
  <2>5. NoneIfDisabled'
    BY <1>1, <1>5 DEF NoneIfDisabled
  <2> QED BY <1>1, <2>3, <2>4, <2>5 DEF LeaseInv
<1> QED BY <1>0, <1>1, <1>4, <1>5, SpawnKinds

(* A step that leaves the bindings and whoever stands behind them alone. *)
LEMMA QuietKeepsLeases ==
  ASSUME LeaseInv, LoadTypeOK',
         UNCHANGED <<allocated, subid_index, reserved, config, spawned, ip>>,
         \A v \in SubId : user'[v] = "Unspawned" <=> user[v] = "Unspawned",
         \A v \in SubId : ip[v] # NoIp => (Holder(v)' <=> Holder(v))
  PROVE  LeaseInv'
<1>1. PoolTyped' /\ ToCome' /\ NoneIfDisabled'
  BY DEF LeaseInv, Ordered, PoolTyped, ToCome, NoneIfDisabled
<1>2. HoldersBound'
  BY DEF LeaseInv, HoldersBound, BindingOf
<1>3. AllHeld'
  <2>1. \A a \in Addr : a # NoIp
    BY IpPoolAssumption
  <2> QED BY <2>1 DEF LeaseInv, AllHeld, Allocated
<1> QED BY <1>1, <1>2, <1>3 DEF LeaseInv, Ordered

LEMMA ConfigureKeepsLeases == ASSUME LeaseInv, ConfigurePool PROVE LeaseInv'
<1>1. LoadTypeOK'
  BY DEF LeaseInv, Ordered, LoadTypeOK, ConfigurePool
<1>2. \A v \in SubId : Holder(v)' <=> Holder(v)
  BY DEF ConfigurePool, Holder, Live
<1> QED BY <1>1, <1>2, QuietKeepsLeases DEF ConfigurePool, bindVars

(* The steps of a task before its last, and the end of the main task. *)
LEMMA TaskKeepsLeases ==
  ASSUME LeaseInv, NEW u \in SubId,
         StartUser(u) \/ RunSucceeds(u) \/ RunFails(u) \/ Panic(u) \/ SaveTraces(u)
  PROVE  LeaseInv'
<1>1. /\ user[u] \in {"Queued", "Running", "Saving"}
      /\ \E s \in {"Running", "Saving", "Releasing", "Panicked"} : user' = [user EXCEPT ![u] = s]
      /\ UNCHANGED <<poolVars, config, main, spawned, ip>>
      /\ saved' \in {saved, saved \cup {u}}
  BY DEF StartUser, RunSucceeds, RunFails, Panic, SaveTraces, Becomes
<1>2. LoadTypeOK'
  BY <1>1 DEF LeaseInv, Ordered, LoadTypeOK, Stage
<1>3. \A v \in SubId : /\ user'[v] = "Unspawned" <=> user[v] = "Unspawned"
                       /\ Holder(v)' <=> Holder(v)
  BY <1>1 DEF LeaseInv, Ordered, LoadTypeOK, Holder, Live
<1> QED BY <1>1, <1>2, <1>3, QuietKeepsLeases DEF poolVars

LEMMA AwaitKeepsLeases == ASSUME LeaseInv, AwaitAll PROVE LeaseInv'
<1>1. LoadTypeOK'
  BY DEF LeaseInv, Ordered, LoadTypeOK, AwaitAll
<1>2. \A v \in SubId : Holder(v)' <=> Holder(v)
  BY DEF AwaitAll, Holder, Live
<1> QED BY <1>1, <1>2, QuietKeepsLeases DEF AwaitAll, poolVars

(* The address that a task releases is bound to its own user. *)
LEMMA ExitKeepsLeases == ASSUME LeaseInv, NEW u \in SubId, ExitUser(u) PROVE LeaseInv'
<1>1. /\ user[u] = "Releasing" /\ user' = [user EXCEPT ![u] = "Exited"]
      /\ UNCHANGED <<config, main, spawned, ip, saved>>
  BY DEF ExitUser, Becomes
<1>2. LoadTypeOK'
  BY <1>1 DEF LeaseInv, Ordered, LoadTypeOK, Stage
<1>3. /\ Holder(u) /\ (Holder(u)' <=> config.strategy = "per_task")
      /\ \A v \in SubId : /\ user'[v] = "Unspawned" <=> user[v] = "Unspawned"
                          /\ v # u => (Holder(v)' <=> Holder(v))
  BY <1>1 DEF LeaseInv, Ordered, LoadTypeOK, Holder, Live
<1>4. CASE ~(config.enabled /\ config.strategy # "per_task" /\ ip[u] # NoIp)
  <2>1. UNCHANGED poolVars
    BY <1>4 DEF ExitUser
  <2>2. \A v \in SubId : ip[v] # NoIp => (Holder(v)' <=> Holder(v))
    BY <1>3, <1>4 DEF LeaseInv, NoneIfDisabled
  <2> QED BY <1>1, <1>2, <1>3, <2>1, <2>2, QuietKeepsLeases DEF poolVars
<1>5. CASE config.enabled /\ config.strategy # "per_task" /\ ip[u] # NoIp
  <2>1. PICK a \in Addr : ip[u] = a
    BY <1>5 DEF LeaseInv, Ordered, LoadTypeOK
  <2>2. allocated[a] = BindingOf(u)
    BY <1>3, <1>5, <2>1 DEF LeaseInv, HoldersBound
  <2>3. a \in Allocated
    BY <2>2, BindingIsBinding DEF Allocated
  <2>4. /\ allocated' = [b \in Addr |-> IF b \in {a} THEN NoBinding ELSE allocated[b]]
        /\ subid_index' = KeysWithout({a})
        /\ reserved' = reserved
    BY <1>5, <2>1, <2>3 DEF ExitUser, ReleaseByIp, Unbind
  <2>5. \A b \in Addr : allocated'[b] = IF b = a THEN NoBinding ELSE allocated[b]
    BY <2>4
  <2>6. \A k \in Key : subid_index'[k] \in {NoIp, subid_index[k]}
    BY <2>4 DEF KeysWithout
  <2>7. PoolTyped'
    <3>1. allocated' \in [Addr -> Binding \cup {NoBinding}]
      BY <2>4 DEF LeaseInv, Ordered, PoolTyped
    <3>2. subid_index' \in [Key -> Addr \cup {NoIp}]
      BY <2>4 DEF LeaseInv, Ordered, PoolTyped, KeysWithout
    <3> QED BY <2>4, <3>1, <3>2 DEF LeaseInv, Ordered, PoolTyped
  <2>8. ToCome'
    <3>1. \A v \in SubId, t \in SubInstance : <<t, v>> \in Key
      BY DEF Key
    <3> QED BY <1>1, <1>3, <2>6, <3>1 DEF LeaseInv, Ordered, ToCome
  <2>9. HoldersBound'
    <3> SUFFICES ASSUME NEW v \in SubId, Holder(v)', ip'[v] # NoIp
                 PROVE  allocated'[ip'[v]] = BindingOf(v)
      BY DEF HoldersBound, BindingOf
    <3>1. v # u /\ Holder(v) /\ ip'[v] = ip[v]
      BY <1>1, <1>3, <1>5
    <3>2. ip[v] \in Addr /\ allocated[ip[v]] = BindingOf(v)
      BY <3>1 DEF LeaseInv, Ordered, LoadTypeOK, HoldersBound
    <3>3. ip[v] # a
      BY <2>2, <3>1, <3>2, BindingsDiffer
    <3> QED BY <2>5, <3>1, <3>2, <3>3
  <2>10. AllHeld'
    <3> SUFFICES ASSUME NEW b \in Allocated' PROVE \E v \in SubId : ip'[v] = b /\ Holder(v)'
      BY DEF AllHeld
    <3>1. b \in Allocated /\ b # a
      BY <2>5 DEF Allocated
    <3>2. PICK v \in SubId : ip[v] = b /\ Holder(v)
      BY <3>1 DEF LeaseInv, AllHeld
    <3> QED BY <1>1, <1>3, <2>1, <3>1, <3>2
  <2>11. NoneIfDisabled'
    BY <1>1 DEF LeaseInv, NoneIfDisabled
  <2> QED BY <1>2, <2>7, <2>8, <2>9, <2>10, <2>11 DEF LeaseInv, Ordered
<1> QED BY <1>4, <1>5

-----------------------------------------------------------------------------
LEMMA LeasesKept == ASSUME LeaseInv, [LoadNext]_vars PROVE LeaseInv'
<1>1. CASE Main
  BY <1>1, ConfigureKeepsLeases, SpawnKeepsLeases, AwaitKeepsLeases DEF Main
<1>2. ASSUME NEW u \in SubId, Task(u) PROVE LeaseInv'
  BY <1>2, TaskKeepsLeases, ExitKeepsLeases DEF Task
<1>3. CASE UNCHANGED vars
  <2>1. LoadTypeOK'
    BY <1>3 DEF LeaseInv, Ordered, LoadTypeOK, vars, loadVars
  <2>2. \A v \in SubId : Holder(v)' <=> Holder(v)
    BY <1>3 DEF vars, loadVars, Holder, Live
  <2> QED BY <1>3, <2>1, <2>2, QuietKeepsLeases DEF vars, loadVars, poolVars
<1> QED BY <1>1, <1>2, <1>3 DEF LoadNext

LEMMA LeaseInvariant == LoadSpec => []LeaseInv
  BY InitLeases, LeasesKept, PTL DEF LoadSpec

(* The variables of the load test keep their types, for any users, workers *)
(* and configurations.                                                     *)
THEOREM LoadTyping == LoadSpec => []LoadTypeOK
<1>1. LeaseInv => LoadTypeOK
  BY DEF LeaseInv, Ordered
<1> QED BY <1>1, LeaseInvariant, PTL

(* "Every user has an IP of its own until it exits": whatever the others   *)
(* allocate and release, the address of a live user stays bound to it.     *)
THEOREM LiveUsersHoldTheirAddresses == LoadSpec => []LiveUserHoldsItsAddress
<1>1. LeaseInv => LiveUserHoldsItsAddress
  BY DEF LeaseInv, HoldersBound, Holder, Live, LiveUserHoldsItsAddress
<1> QED BY <1>1, LeaseInvariant, PTL

(* A spawn that finds no address finds all of the pool leased.             *)
LEMMA DenialMeansHeld ==
  ASSUME Ordered, SpawnUser, config.enabled, ip'[spawned'] = NoIp,
         NEW a \in Addr, InPool(a)
  PROVE  a \in Allocated
<1>1. PICK u \in SubId : u = spawned + 1
  BY UserFacts DEF SpawnUser, Ordered, LoadTypeOK
<1>2. spawned' = u
  BY <1>1 DEF SpawnUser
<1>3. ASSUME NEW b \in Addr, ip'[u] = b PROVE FALSE
  BY <1>2, <1>3, IpPoolAssumption
<1>4. PoolFull
  BY <1>1, <1>3, SpawnKinds
<1> QED BY <1>4 DEF PoolFull, Usable, Ordered, PoolTyped

(* A user goes without an address only when each address of the pool has   *)
(* a user standing behind it.                                              *)
THEOREM DenialsAreJustified == LoadSpec => DeniedOnlyWhenAllHeld
<1> DEFINE Justified ==
      config.enabled /\ spawned' # spawned /\ ip'[spawned'] = NoIp =>
        \A a \in Addr : InPool(a) => \E u \in SubId : ip[u] = a /\ Holder(u)
<1>1. ASSUME LeaseInv, [LoadNext]_vars PROVE [Justified]_vars
  <2>1. spawned' # spawned => SpawnUser
    BY <1>1 DEF LoadNext, Main, Task, ConfigurePool, AwaitAll, StartUser, RunSucceeds, RunFails,
       Panic, SaveTraces, ExitUser, vars, loadVars
  <2> QED BY <1>1, <2>1, DenialMeansHeld DEF LeaseInv, AllHeld
<1>2. []LeaseInv /\ [][LoadNext]_vars => [][Justified]_vars
  BY <1>1, PTL
<1> QED BY <1>2, LeaseInvariant, PTL DEF LoadSpec, DeniedOnlyWhenAllHeld

LEMMA LeasesAreHeld == LeaseInv => FinalLeases
<1> SUFFICES ASSUME LeaseInv PROVE FinalLeases
  OBVIOUS
<1>1. ASSUME NEW a \in Allocated
      PROVE  a \in {ip[u] : u \in {v \in SubId : Holder(v)}} \ {NoIp}
  BY IpPoolAssumption DEF LeaseInv, AllHeld, Allocated
<1>2. ASSUME NEW u \in SubId, Holder(u), ip[u] # NoIp PROVE ip[u] \in Allocated
  BY <1>2, BindingIsBinding DEF LeaseInv, Ordered, HoldersBound, LoadTypeOK, Allocated
<1> QED BY <1>1, <1>2 DEF FinalLeases

(* When the load test is over the addresses still leased are those of the  *)
(* users that stand behind one: panicked ones, or with per_task all.       *)
THEOREM LeasesAtEnd == LoadSpec => []FinalLeases
  BY LeasesAreHeld, LeaseInvariant, PTL

-----------------------------------------------------------------------------
(* The load test of the WASM component.  Nobody runs when a user is        *)
(* spawned, and the last user but one has given its address back: behind   *)
(* every binding stands a user that has not come to its end.               *)
StandsBehind == \A a \in Allocated : \E u \in SubId : ip[u] = a /\ user[u] \notin {"Unspawned", "Exited"}

(* The address of such a user is bound to it. *)
BoundToUser ==
  \A u \in SubId :
    user[u] \notin {"Unspawned", "Exited"} /\ ip[u] # NoIp => allocated[ip[u]] = BindingOf(u)

ConfigKnown == config \in ConfigInput /\ (main = "Configuring" => spawned = 0)

SequentialInv ==
  Ordered /\ ConfigKnown /\ NoneIfDisabled /\ StandsBehind /\ BoundToUser /\ EveryUserServed

LEMMA InitSequential == LoadInit => SequentialInv
<1> SUFFICES ASSUME LoadInit PROVE SequentialInv
  OBVIOUS
<1>1. Ordered /\ NoneIfDisabled
  BY InitLeases DEF LeaseInv
<1>2. ConfigKnown /\ StandsBehind /\ BoundToUser /\ EveryUserServed
  BY DEF LoadInit, Init, ConfigKnown, StandsBehind, BoundToUser, EveryUserServed, Allocated
<1> QED BY <1>1, <1>2 DEF SequentialInv

(* A step that neither spawns nor binds. *)
LEMMA QuietKeepsSequential ==
  ASSUME SequentialInv, LoadTypeOK',
         UNCHANGED <<allocated, subid_index, reserved, config, spawned, ip>>,
         main' # "Configuring" \/ main' = main,
         UNCHANGED ranges \/ spawned = 0,
         \A v \in SubId : /\ user'[v] = "Unspawned" <=> user[v] = "Unspawned"
                          /\ user'[v] = "Exited" <=> user[v] = "Exited"
  PROVE  SequentialInv'
<1>1. Ordered'
  BY DEF SequentialInv, Ordered, PoolTyped, ToCome
<1>2. ConfigKnown' /\ NoneIfDisabled' /\ StandsBehind' /\ BoundToUser'
  BY DEF SequentialInv, ConfigKnown, NoneIfDisabled, StandsBehind, BoundToUser, BindingOf, Allocated
<1>3. EveryUserServed'
  <2>1. CASE UNCHANGED ranges
    BY <2>1 DEF SequentialInv, EveryUserServed, InPool
  <2>2. CASE spawned = 0
    BY <1>1, <2>2, UserFacts DEF Ordered, ToCome, EveryUserServed
  <2> QED BY <2>1, <2>2
<1> QED BY <1>1, <1>2, <1>3 DEF SequentialInv

LEMMA SpawnServes == ASSUME SequentialInv, SpawnSequential PROVE SequentialInv'
<1>0. PICK u \in SubId : u = spawned + 1
  BY UserFacts DEF SpawnSequential, SpawnUser, SequentialInv, Ordered, LoadTypeOK
<1>1. Ordered /\ SpawnUser
  BY DEF SequentialInv, SpawnSequential
<1>2. /\ Ordered'
      /\ user[u] = "Unspawned" /\ ip[u] = NoIp
      /\ spawned' = u /\ user' = [user EXCEPT ![u] = "Queued"]
      /\ config' = config /\ main' = main
      /\ \A v \in SubId : v # u => ip'[v] = ip[v] /\ user'[v] = user[v]
  BY <1>0, <1>1, SpawnKeepsOrder
<1>3. ConfigKnown'
  BY <1>1, <1>2 DEF SequentialInv, ConfigKnown, SpawnUser
<1>4. Allocated = {}
  BY DEF SequentialInv, StandsBehind, SpawnSequential, NobodyRuns
<1>5. user'[u] = "Queued"
  BY <1>0, <1>2 DEF Ordered, LoadTypeOK
<1>6. UNCHANGED ranges
  BY <1>1 DEF SpawnUser, Allocate, Bind, poolVars
<1>9. \A v \in SubId : v # u => user'[v] \in {"Unspawned", "Exited"}
  BY <1>2 DEF SpawnSequential, NobodyRuns
<1>7. CASE UNCHANGED poolVars /\ ip'[u] = NoIp /\ (config.enabled => PoolFull)
  <2>1. StandsBehind'
    BY <1>4, <1>7 DEF StandsBehind, Allocated, poolVars
  <2>2. config.enabled => \A a \in Addr : ~InPool(a)
    BY <1>1, <1>4, <1>7 DEF PoolFull, Usable, Ordered, PoolTyped
  <2>3. EveryUserServed'
    BY <1>2, <1>6, <2>2 DEF EveryUserServed, InPool
  <2>4. NoneIfDisabled'
    BY <1>2, <1>7 DEF SequentialInv, NoneIfDisabled
  <2>5. BoundToUser'
    BY <1>7, <1>9 DEF BoundToUser
  <2> QED BY <1>2, <1>3, <2>1, <2>3, <2>4, <2>5 DEF SequentialInv
<1>8. ASSUME NEW a \in Addr, config.enabled, ip'[u] = a, IsFirstFit(a),
             Bind(a, User[u], u, HttpClient)
      PROVE  SequentialInv'
  <2>1. allocated' = [allocated EXCEPT ![a] = BindingOf(u)]
    BY <1>0, <1>1, <1>8, SpawnBinds
  <2>2. Allocated' \subseteq {a}
    BY <1>1, <1>4, <2>1 DEF Allocated, Ordered, PoolTyped
  <2>3. StandsBehind'
    BY <1>5, <1>8, <2>2 DEF StandsBehind
  <2>4. ip'[u] # NoIp
    BY <1>8, IpPoolAssumption
  <2>5. EveryUserServed'
    BY <1>2, <1>6, <2>4 DEF SequentialInv, EveryUserServed, InPool
  <2>6. BoundToUser'
    BY <1>1, <1>8, <1>9, <2>1 DEF BoundToUser, BindingOf, Ordered, PoolTyped
  <2> QED BY <1>2, <1>3, <1>8, <2>3, <2>5, <2>6 DEF SequentialInv, NoneIfDisabled
<1> QED BY <1>0, <1>1, <1>7, <1>8, SpawnKinds

(* The address of the last user is free again. *)
LEMMA ExitServes == ASSUME SequentialInv, NEW u \in SubId, ExitSequential(u) PROVE SequentialInv'
<1>1. /\ user[u] = "Releasing" /\ user' = [user EXCEPT ![u] = "Exited"]
      /\ UNCHANGED <<config, main, spawned, ip, saved>>
  BY DEF ExitSequential, Becomes
<1>2. LoadTypeOK'
  BY <1>1 DEF SequentialInv, Ordered, LoadTypeOK, Stage
<1>3. /\ user'[u] = "Exited"
      /\ \A v \in SubId : v # u => user'[v] = user[v]
      /\ \A v \in SubId : user'[v] = "Unspawned" <=> user[v] = "Unspawned"
  BY <1>1 DEF SequentialInv, Ordered, LoadTypeOK
<1>4. UNCHANGED ranges
  BY DEF ExitSequential, ReleaseByIp, Unbind, poolVars
<1>5. /\ \A a \in Addr : allocated'[a] = IF a = ip[u] THEN NoBinding ELSE allocated[a]
      /\ PoolTyped'
      /\ \A k \in Key : subid_index'[k] \in {NoIp, subid_index[k]}
  <2> USE DEF SequentialInv, Ordered, PoolTyped
  <2>1. CASE config.enabled /\ ip[u] # NoIp /\ ip[u] \in Allocated
    <3>1. /\ allocated' = [a \in Addr |-> IF a \in {ip[u]} THEN NoBinding ELSE allocated[a]]
          /\ subid_index' = KeysWithout({ip[u]})
          /\ reserved' = reserved
      BY <2>1 DEF ExitSequential, ReleaseByIp, Unbind
    <3>2. allocated' \in [Addr -> Binding \cup {NoBinding}]
      BY <3>1
    <3>3. subid_index' \in [Key -> Addr \cup {NoIp}]
      BY <3>1 DEF KeysWithout
    <3>4. \A k \in Key : subid_index'[k] \in {NoIp, subid_index[k]}
      BY <3>1 DEF KeysWithout
    <3> QED BY <3>1, <3>2, <3>3, <3>4
  <2>2. CASE ~(config.enabled /\ ip[u] # NoIp)
    <3>1. UNCHANGED poolVars /\ ip[u] = NoIp
      BY <2>2 DEF ExitSequential, NoneIfDisabled
    <3> QED BY <3>1, IpPoolAssumption DEF poolVars
  <2>3. CASE ip[u] \notin Allocated
    <3>1. UNCHANGED poolVars
      BY <2>3 DEF ExitSequential, ReleaseByIp
    <3> QED BY <2>3, <3>1 DEF Allocated, poolVars
  <2> QED BY <2>1, <2>2, <2>3
<1>6. Ordered'
  <2>1. \A v \in SubId, t \in SubInstance : <<t, v>> \in Key
    BY DEF Key
  <2>2. ToCome'
    BY <1>1, <1>3, <1>5, <2>1 DEF SequentialInv, Ordered, ToCome
  <2> QED BY <1>2, <1>5, <2>2 DEF Ordered
<1>7. StandsBehind'
  <2> SUFFICES ASSUME NEW a \in Allocated'
               PROVE  \E v \in SubId : ip'[v] = a /\ user'[v] \notin {"Unspawned", "Exited"}
    BY DEF StandsBehind
  <2>1. a \in Allocated /\ a # ip[u]
    BY <1>5 DEF Allocated
  <2>2. PICK v \in SubId : ip[v] = a /\ user[v] \notin {"Unspawned", "Exited"}
    BY <2>1 DEF SequentialInv, StandsBehind
  <2> QED BY <1>1, <1>3, <2>1, <2>2
<1>9. BoundToUser'
  <2> SUFFICES ASSUME NEW v \in SubId, user'[v] \notin {"Unspawned", "Exited"}, ip'[v] # NoIp
               PROVE  allocated'[ip'[v]] = BindingOf(v)
    BY DEF BoundToUser, BindingOf
  <2>1. v # u /\ ip'[v] = ip[v] /\ user[v] = user'[v]
    BY <1>1, <1>3
  <2>2. ip[v] \in Addr /\ allocated[ip[v]] = BindingOf(v)
    BY <2>1 DEF SequentialInv, Ordered, LoadTypeOK, BoundToUser
  <2>3. ip[v] # ip[u]
    <3>1. ip[u] # NoIp => allocated[ip[u]] = BindingOf(u)
      BY <1>1 DEF SequentialInv, BoundToUser
    <3> QED BY <2>1, <2>2, <3>1, BindingsDiffer
  <2> QED BY <1>5, <2>1, <2>2, <2>3
<1>8. ConfigKnown' /\ NoneIfDisabled' /\ EveryUserServed'
  BY <1>1, <1>3, <1>4 DEF SequentialInv, ConfigKnown, NoneIfDisabled, EveryUserServed, InPool
<1> QED BY <1>6, <1>7, <1>8, <1>9 DEF SequentialInv

LEMMA SequentialKept == ASSUME SequentialInv, [SequentialNext]_vars PROVE SequentialInv'
<1> USE DEF SequentialInv, Ordered
<1>1. CASE ConfigurePool
  <2>1. LoadTypeOK'
    BY <1>1 DEF LoadTypeOK, ConfigurePool
  <2>2. spawned = 0
    BY <1>1 DEF ConfigKnown, ConfigurePool
  <2> QED BY <1>1, <2>1, <2>2, QuietKeepsSequential DEF ConfigurePool, bindVars
<1>2. CASE SpawnSequential
  BY <1>2, SpawnServes
<1>3. CASE FinishSequential
  <2>1. LoadTypeOK'
    BY <1>3 DEF LoadTypeOK, FinishSequential, AwaitAll
  <2> QED BY <1>3, <2>1, QuietKeepsSequential DEF FinishSequential, AwaitAll, poolVars
<1>4. ASSUME NEW u \in SubId,
             StartUser(u) \/ RunSucceeds(u) \/ RunFails(u) \/ Panic(u) \/ SaveTraces(u)
      PROVE  SequentialInv'
  <2>1. /\ user[u] \in {"Queued", "Running", "Saving"}
        /\ \E s \in {"Running", "Saving", "Releasing", "Panicked"} : user' = [user EXCEPT ![u] = s]
        /\ UNCHANGED <<poolVars, config, main, spawned, ip>>
        /\ saved' \in {saved, saved \cup {u}}
    BY <1>4 DEF StartUser, RunSucceeds, RunFails, Panic, SaveTraces, Becomes
  <2>2. LoadTypeOK'
    BY <2>1 DEF LoadTypeOK, Stage
  <2>3. \A v \in SubId : /\ user'[v] = "Unspawned" <=> user[v] = "Unspawned"
                         /\ user'[v] = "Exited" <=> user[v] = "Exited"
    BY <2>1 DEF LoadTypeOK
  <2> QED BY <2>1, <2>2, <2>3, QuietKeepsSequential DEF poolVars
<1>5. ASSUME NEW u \in SubId, ExitSequential(u) PROVE SequentialInv'
  BY <1>5, ExitServes
<1>6. CASE UNCHANGED vars
  <2>1. LoadTypeOK'
    BY <1>6 DEF LoadTypeOK, vars, loadVars
  <2> QED BY <1>6, <2>1, QuietKeepsSequential DEF vars, loadVars, poolVars
<1> QED BY <1>1, <1>2, <1>3, <1>4, <1>5, <1>6 DEF SequentialNext

LEMMA SequentialInvariant == SequentialSpec => []SequentialInv
  BY InitSequential, SequentialKept, PTL DEF SequentialSpec

(* One address is enough for the component: if the pool has any, every     *)
(* user that is spawned has one, however many users there are.             *)
THEOREM EveryUserIsServed == SequentialSpec => []EveryUserServed
<1>1. SequentialInv => EveryUserServed
  BY DEF SequentialInv
<1> QED BY <1>1, SequentialInvariant, PTL

-----------------------------------------------------------------------------
(* Of a configuration the strategy alone is different when it is per_user. *)
LEMMA PerUserKeeps ==
  ASSUME NEW c \in ConfigInput
  PROVE  /\ PerUser(c).ip_pools = c.ip_pools /\ PerUser(c).pool_id = c.pool_id
         /\ PerUser(c).enabled = c.enabled /\ PerUser(c).endless = c.endless
         /\ PerUser(c).think_time = c.think_time
         /\ PerUser(c).strategy = "per_user"
<1>1. c \in Config
  BY LoadAssumption
<1> QED BY <1>1 DEF PerUser, Config

LEMMA ConcurrentInit == LoadInit => Concurrent!LoadInit
<1> SUFFICES ASSUME LoadInit PROVE Concurrent!LoadInit
  OBVIOUS
<1>1. PerUser(config) \in {PerUser(c) : c \in ConfigInput}
  BY DEF LoadInit
<1>2. Concurrent!Init
  BY DEF LoadInit, Init, Concurrent!Init, Concurrent!Addr, Addr, Concurrent!Key, Key
<1> QED BY <1>1, <1>2 DEF LoadInit, Concurrent!LoadInit

(* The pool is used in the same way. *)
LEMMA SamePool ==
  /\ \A t \in SubInstance, u \in SubId, r \in Resource : Allocate(t, u, r) => Concurrent!Allocate(t, u, r)
  /\ \A a : ReleaseByIp(a) => Concurrent!ReleaseByIp(a)
<1> USE DEF Addr, Concurrent!Addr, poolVars, Concurrent!poolVars, Allocated, Concurrent!Allocated
<1>1. \A a \in Addr : (Usable(a) <=> Concurrent!Usable(a)) /\ (InPool(a) <=> Concurrent!InPool(a))
  BY DEF Usable, Concurrent!Usable, InPool, Concurrent!InPool, RangeContains, Concurrent!RangeContains
<1>2. PoolFull <=> Concurrent!PoolFull
  BY <1>1 DEF PoolFull, Concurrent!PoolFull
<1>3. \A a \in Addr : IsFirstFit(a) <=> Concurrent!IsFirstFit(a)
  BY <1>1 DEF IsFirstFit, Concurrent!IsFirstFit, RangeContains, Concurrent!RangeContains
<1>4. \A a, t, u, r : Bind(a, t, u, r) => Concurrent!Bind(a, t, u, r)
  BY DEF Bind, Concurrent!Bind
<1>5. ASSUME NEW a, ReleaseByIp(a) PROVE Concurrent!ReleaseByIp(a)
  BY <1>5 DEF ReleaseByIp, Concurrent!ReleaseByIp, Unbind, Concurrent!Unbind, ListsWithout,
     Concurrent!ListsWithout, KeysWithout, Concurrent!KeysWithout, ResourcesWithout,
     Concurrent!ResourcesWithout, KeyOf, Concurrent!KeyOf, Key, Concurrent!Key
<1>6. ASSUME NEW t \in SubInstance, NEW u \in SubId, NEW r \in Resource, Allocate(t, u, r)
      PROVE  Concurrent!Allocate(t, u, r)
  BY <1>2, <1>3, <1>4, <1>6 DEF Allocate, Concurrent!Allocate
<1> QED BY <1>5, <1>6

(* Every step of the component is one that the program may make.           *)
LEMMA ConcurrentStep ==
  ASSUME SequentialInv, [SequentialNext]_vars PROVE [Concurrent!LoadNext]_(Concurrent!vars)
<1> DEFINE c == PerUser(config)
<1>0. /\ c.ip_pools = config.ip_pools /\ c.pool_id = config.pool_id
      /\ c.enabled = config.enabled /\ c.endless = config.endless
      /\ c.think_time = config.think_time /\ c.strategy = "per_user"
  BY PerUserKeeps DEF SequentialInv, ConfigKnown
<1> HIDE DEF c
<1>7. config' = config
  BY DEF SequentialNext, ConfigurePool, SpawnSequential, SpawnUser, FinishSequential, AwaitAll, StartUser,
     RunSucceeds, RunFails, Panic, SaveTraces, ExitSequential, vars, loadVars
<1>8. PerUser(config)' = PerUser(config)
  BY <1>7 DEF PerUser
<1> USE SamePool, <1>8 DEF poolVars, Concurrent!poolVars
<1>1. CASE ConfigurePool
  <2>1. Chosen = Concurrent!Chosen
    BY <1>0 DEF Chosen, Concurrent!Chosen, c
  <2>2. Concurrent!ConfigurePool
    BY <1>0, <1>1, <2>1 DEF ConfigurePool, Concurrent!ConfigurePool, Refuses, Concurrent!Refuses,
       bindVars, Concurrent!bindVars, c
  <2> QED BY <2>2 DEF Concurrent!LoadNext, Concurrent!Main
<1>2. CASE SpawnSequential
  <2>1. PICK u \in SubId : u = spawned + 1
    BY <1>2, UserFacts DEF SpawnSequential, SpawnUser, SequentialInv, Ordered, LoadTypeOK
  <2>2. User[u] \in SubInstance /\ HttpClient \in Resource
    BY UserFacts, LoadAssumption
  <2>3. Concurrent!SpawnUser
    BY <1>0, <1>2, <2>1, <2>2 DEF SpawnSequential, SpawnUser, Concurrent!SpawnUser, c
  <2> QED BY <2>3 DEF Concurrent!LoadNext, Concurrent!Main
<1>3. CASE FinishSequential
  BY <1>3 DEF FinishSequential, AwaitAll, Concurrent!AwaitAll, Concurrent!LoadNext, Concurrent!Main
<1>4. ASSUME NEW u \in SubId,
             StartUser(u) \/ RunSucceeds(u) \/ RunFails(u) \/ Panic(u) \/ SaveTraces(u)
      PROVE  Concurrent!Task(u)
  <2> USE DEF Becomes, Concurrent!Becomes
  <2>1. CASE StartUser(u)
    <3>1. Concurrent!Cardinality(Concurrent!Busy) = Cardinality(Busy)
      BY DEF Cardinality, Concurrent!Cardinality, Busy, Concurrent!Busy
    <3> QED BY <2>1, <3>1 DEF StartUser, Concurrent!StartUser, Concurrent!Task
  <2>2. CASE RunSucceeds(u)
    BY <1>0, <2>2 DEF RunSucceeds, Concurrent!RunSucceeds, Concurrent!Task, c
  <2>3. CASE RunFails(u)
    BY <1>0, <2>3 DEF RunFails, Concurrent!RunFails, Concurrent!Task, c
  <2>4. CASE Panic(u)
    BY <1>0, <2>4 DEF Panic, Concurrent!Panic, Concurrent!Task, c
  <2>5. CASE SaveTraces(u)
    BY <2>5 DEF SaveTraces, Concurrent!SaveTraces, Concurrent!Task
  <2> QED BY <1>4, <2>1, <2>2, <2>3, <2>4, <2>5
<1>5. ASSUME NEW u \in SubId, ExitSequential(u) PROVE Concurrent!Task(u)
  <2>1. Concurrent!ExitUser(u)
    BY <1>0, <1>5 DEF ExitSequential, Concurrent!ExitUser, Becomes, Concurrent!Becomes, c
  <2> QED BY <2>1 DEF Concurrent!Task
<1>6. CASE UNCHANGED vars
  BY <1>6 DEF vars, loadVars, Concurrent!vars, Concurrent!loadVars
<1> QED BY <1>1, <1>2, <1>3, <1>4, <1>5, <1>6 DEF SequentialNext, Concurrent!LoadNext

(* Without threads nothing new can happen: a load test of the component is *)
(* one that the program may make with the strategy per_user.               *)
THEOREM ComponentImplementsProgram == SequentialSpec => ImplementsConcurrent
<1>1. LoadInit => Concurrent!LoadInit
  BY ConcurrentInit
<1>2. SequentialInv /\ [SequentialNext]_vars => [Concurrent!LoadNext]_(Concurrent!vars)
  BY ConcurrentStep
<1> QED
  BY <1>1, <1>2, SequentialInvariant, PTL DEF SequentialSpec, ImplementsConcurrent, Concurrent!LoadSpec

-----------------------------------------------------------------------------
(* Either build of the load test, as it is model-checked. *)
EitherInv == (~wasm => LeaseInv) /\ (wasm => SequentialInv)

LEMMA EitherKept == ASSUME EitherInv, [EitherNext]_eitherVars PROVE EitherInv'
<1>1. CASE ~wasm /\ wasm' = wasm /\ [LoadNext]_vars
  BY <1>1, LeasesKept DEF EitherInv
<1>2. CASE wasm /\ wasm' = wasm /\ [SequentialNext]_vars
  BY <1>2, SequentialKept DEF EitherInv
<1> QED BY <1>1, <1>2 DEF EitherNext, eitherVars

LEMMA EitherInvariant == EitherSpec => []EitherInv
<1>1. EitherInit => EitherInv
  BY InitLeases, InitSequential DEF EitherInit, EitherInv
<1> QED BY <1>1, EitherKept, PTL DEF EitherSpec

(* Whichever build runs, whatever the other users do: the address of a     *)
(* live user stays bound to it.                                            *)
THEOREM EitherKeepsLiveLeases == EitherSpec => []LiveUserHoldsItsAddress
<1>1. LeaseInv => LiveUserHoldsItsAddress
  BY DEF LeaseInv, HoldersBound, Holder, Live, LiveUserHoldsItsAddress
<1>2. SequentialInv => LiveUserHoldsItsAddress
  BY DEF SequentialInv, BoundToUser, Live, LiveUserHoldsItsAddress
<1>3. EitherInv => LiveUserHoldsItsAddress
  BY <1>1, <1>2 DEF EitherInv
<1> QED BY <1>3, EitherInvariant, PTL

(* Whichever build runs, a user goes without an address only when each     *)
(* address of the pool has a user standing behind it.                      *)
THEOREM EitherDenialsAreJustified == EitherSpec => DeniedOnlyWhenAllHeld
<1> DEFINE Justified ==
      config.enabled /\ spawned' # spawned /\ ip'[spawned'] = NoIp =>
        \A a \in Addr : InPool(a) => \E u \in SubId : ip[u] = a /\ Holder(u)
<1>1. ASSUME EitherInv, [EitherNext]_eitherVars PROVE [Justified]_vars
  <2>1. spawned' # spawned => SpawnUser
    BY <1>1 DEF EitherNext, eitherVars, LoadNext, Main, Task, SequentialNext, SpawnSequential,
       ConfigurePool, FinishSequential, AwaitAll, StartUser, RunSucceeds, RunFails, Panic, SaveTraces, ExitUser,
       ExitSequential, vars, loadVars
  <2>2. \A a \in Allocated : \E u \in SubId : ip[u] = a /\ Holder(u)
    <3>1. CASE LeaseInv
      BY <3>1 DEF LeaseInv, AllHeld
    <3>2. CASE SequentialInv
      <4>1. \A u \in SubId : user[u] \notin {"Unspawned", "Exited"} => Holder(u)
        BY <3>2 DEF SequentialInv, Ordered, LoadTypeOK, Stage, Holder, Live
      <4> QED BY <3>2, <4>1 DEF SequentialInv, StandsBehind
    <3> QED BY <1>1, <3>1, <3>2 DEF EitherInv
  <2>3. Ordered
    BY <1>1 DEF EitherInv, LeaseInv, SequentialInv
  <2> QED BY <2>1, <2>2, <2>3, DenialMeansHeld
<1>2. []EitherInv /\ [][EitherNext]_eitherVars => [][Justified]_vars
  BY <1>1, PTL
<1> QED BY <1>2, EitherInvariant, PTL DEF EitherSpec, DeniedOnlyWhenAllHeld

(* When the load test of main.rs is over the addresses still leased are    *)
(* those of the users that stand behind one.                               *)
THEOREM EitherLeasesAtEnd == EitherSpec => []LoadLeasesAtEnd
<1>1. EitherInv => LoadLeasesAtEnd
  BY LeasesAreHeld DEF EitherInv, LoadLeasesAtEnd
<1> QED BY <1>1, EitherInvariant, PTL

(* Every user of the component has an address if the pool has one at all.  *)
THEOREM EitherServesEveryUser == EitherSpec => []WasmServesEveryUser
<1>1. EitherInv => WasmServesEveryUser
  BY DEF EitherInv, SequentialInv, WasmServesEveryUser
<1> QED BY <1>1, EitherInvariant, PTL

(* Every step of the component is one of the program with the strategy     *)
(* per_user.                                                               *)
THEOREM EitherImplementsProgram == EitherSpec => WasmImplementsConcurrent
<1>1. EitherInit => Concurrent!LoadInit
  BY ConcurrentInit DEF EitherInit
<1>2. EitherInv /\ [EitherNext]_eitherVars => [wasm => Concurrent!LoadNext]_(Concurrent!vars)
  BY ConcurrentStep DEF EitherInv, EitherNext, eitherVars
<1> QED BY <1>1, <1>2, EitherInvariant, PTL DEF EitherSpec, WasmImplementsConcurrent
=============================================================================

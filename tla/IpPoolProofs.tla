---------------------------- MODULE IpPoolProofs ----------------------------
(***************************************************************************)
(* Proofs about IpPool.tla: type correctness, what the indices guarantee,  *)
(* that the pool implements the lease table of IpLease.tla, and that the   *)
(* figures of IpPoolStats.tla never promise too much; and about the ranges *)
(* of CidrRange.tla: masks, scan and total.                                *)
(***************************************************************************)
EXTENDS IpPoolStats, CidrRange, DataLemmas

(* The three facts about the indices keep each other true: a release       *)
(* empties the entries of a binding's key and resource, and only soundness *)
(* says that no other entry still names the freed address.                 *)
IndexInv ==
  /\ TypeOK
  /\ SubidIndexSound
  /\ ResourceIndexSound
  /\ SubinstanceIndexExact
  /\ AllocatedInPool

-----------------------------------------------------------------------------
(* What Bind does to an address that was free. *)
LEMMA BindKeepsIndexInv ==
  ASSUME IndexInv,
         NEW ip \in Addr, NEW si \in SubInstance, NEW sid \in SubId, NEW r \in Resource,
         InPool(ip), Usable(ip), Bind(ip, si, sid, r)
  PROVE  IndexInv'
<1> USE IpPoolAssumption DEF Key, KeyOf
<1> DEFINE b == [subinstance |-> si, subid |-> sid, subtype |-> r]
<1>1. b \in Binding
  BY DEF Binding
<1>2. /\ allocated' = [allocated EXCEPT ![ip] = b]
      /\ subinstance_index' = [subinstance_index EXCEPT ![si][ip] = @ + 1]
      /\ subid_index' = [subid_index EXCEPT ![<<si, sid>>] = ip]
      /\ resource_index' = [resource_index EXCEPT ![r] = ip]
      /\ ranges' = ranges /\ reserved' = reserved
  BY DEF Bind
<1>3. allocated[ip] = NoBinding
  BY DEF Usable, Allocated
<1>4. Allocated' = Allocated \cup {ip}
  BY <1>1, <1>2 DEF Allocated, IndexInv, TypeOK
<1>5. TypeOK'
  BY <1>1, <1>2 DEF IndexInv, TypeOK
<1>6. SubidIndexSound'
  <2> SUFFICES ASSUME NEW k \in Key, subid_index'[k] # NoIp
               PROVE  /\ subid_index'[k] \in Allocated'
                      /\ KeyOf(allocated'[subid_index'[k]]) = k
    BY DEF SubidIndexSound
  <2>1. CASE k = <<si, sid>>
    BY <2>1, <1>1, <1>2, <1>4 DEF IndexInv, TypeOK
  <2>2. CASE k # <<si, sid>>
    <3>1. subid_index'[k] = subid_index[k]
      BY <2>2, <1>2 DEF IndexInv, TypeOK
    <3>2. subid_index[k] \in Allocated /\ KeyOf(allocated[subid_index[k]]) = k
      BY <3>1 DEF IndexInv, SubidIndexSound
    <3>3. subid_index[k] # ip
      BY <3>2, <1>3 DEF Allocated
    <3> QED
      BY <3>1, <3>2, <3>3, <1>2, <1>4 DEF IndexInv, TypeOK, Allocated
  <2> QED
    BY <2>1, <2>2
<1>7. ResourceIndexSound'
  <2> SUFFICES ASSUME NEW q \in Resource, resource_index'[q] # NoIp
               PROVE  /\ resource_index'[q] \in Allocated'
                      /\ allocated'[resource_index'[q]].subtype = q
    BY DEF ResourceIndexSound
  <2>1. CASE q = r
    BY <2>1, <1>1, <1>2, <1>4 DEF IndexInv, TypeOK
  <2>2. CASE q # r
    <3>1. resource_index'[q] = resource_index[q]
      BY <2>2, <1>2 DEF IndexInv, TypeOK
    <3>2. resource_index[q] \in Allocated /\ allocated[resource_index[q]].subtype = q
      BY <3>1 DEF IndexInv, ResourceIndexSound
    <3>3. resource_index[q] # ip
      BY <3>2, <1>3 DEF Allocated
    <3> QED
      BY <3>1, <3>2, <3>3, <1>2, <1>4 DEF IndexInv, TypeOK, Allocated
  <2> QED
    BY <2>1, <2>2
<1>8. SubinstanceIndexExact'
  <2> SUFFICES ASSUME NEW s \in SubInstance, NEW a \in Addr
               PROVE  subinstance_index'[s][a] =
                        IF a \in Allocated' /\ allocated'[a].subinstance = s THEN 1 ELSE 0
    BY DEF SubinstanceIndexExact
  <2>1. subinstance_index[s][a] =
          IF a \in Allocated /\ allocated[a].subinstance = s THEN 1 ELSE 0
    BY DEF IndexInv, SubinstanceIndexExact
  <2>2. CASE a # ip
    BY <2>1, <2>2, <1>2, <1>4 DEF IndexInv, TypeOK
  <2>3. CASE a = ip /\ s = si
    BY <2>1, <2>3, <1>2, <1>3, <1>4 DEF IndexInv, TypeOK, Allocated
  <2>4. CASE a = ip /\ s # si
    BY <2>1, <2>4, <1>2, <1>3, <1>4 DEF IndexInv, TypeOK, Allocated
  <2> QED
    BY <2>2, <2>3, <2>4
<1>9. AllocatedInPool'
  BY <1>2, <1>4 DEF IndexInv, AllocatedInPool, InPool, RangeContains
<1> QED
  BY <1>5, <1>6, <1>7, <1>8, <1>9 DEF IndexInv

(* What releasing addresses does: provided that the lists that are dropped *)
(* list nothing that stays allocated.                                      *)
LEMMA UnbindKeepsIndexInv ==
  ASSUME IndexInv,
         NEW S \in SUBSET Allocated, NEW D \in SUBSET SubInstance,
         \A a \in Allocated : allocated[a].subinstance \in D => a \in S,
         Unbind(S, D)
  PROVE  IndexInv'
<1> USE IpPoolAssumption
<1>1. /\ allocated' = [a \in Addr |-> IF a \in S THEN NoBinding ELSE allocated[a]]
      /\ subinstance_index' = [s \in SubInstance |-> [a \in Addr |->
           IF s \in D \/ (a \in S /\ allocated[a].subinstance = s)
           THEN 0 ELSE subinstance_index[s][a]]]
      /\ subid_index' = [k \in Key |->
           IF \E a \in S : KeyOf(allocated[a]) = k THEN NoIp ELSE subid_index[k]]
      /\ resource_index' = [r \in Resource |->
           IF \E a \in S : allocated[a].subtype = r THEN NoIp ELSE resource_index[r]]
      /\ ranges' = ranges /\ reserved' = reserved
  BY DEF Unbind, ListsWithout, KeysWithout, ResourcesWithout
<1>2. Allocated' = Allocated \ S
  BY <1>1 DEF Allocated
<1>3. \A a \in Allocated \ S : allocated'[a] = allocated[a]
  BY <1>1 DEF Allocated
<1>4. TypeOK'
  BY <1>1 DEF IndexInv, TypeOK
<1>5. SubidIndexSound'
  <2> SUFFICES ASSUME NEW k \in Key, subid_index'[k] # NoIp
               PROVE  /\ subid_index'[k] \in Allocated'
                      /\ KeyOf(allocated'[subid_index'[k]]) = k
    BY <1>1 DEF SubidIndexSound
  <2>1. subid_index'[k] = subid_index[k] /\ ~ \E a \in S : KeyOf(allocated[a]) = k
    BY <1>1
  <2>2. subid_index[k] \in Allocated /\ KeyOf(allocated[subid_index[k]]) = k
    BY <2>1 DEF IndexInv, SubidIndexSound
  <2> QED
    BY <2>1, <2>2, <1>2, <1>3
<1>6. ResourceIndexSound'
  <2> SUFFICES ASSUME NEW q \in Resource, resource_index'[q] # NoIp
               PROVE  /\ resource_index'[q] \in Allocated'
                      /\ allocated'[resource_index'[q]].subtype = q
    BY DEF ResourceIndexSound
  <2>1. resource_index'[q] = resource_index[q] /\ ~ \E a \in S : allocated[a].subtype = q
    BY <1>1
  <2>2. resource_index[q] \in Allocated /\ allocated[resource_index[q]].subtype = q
    BY <2>1 DEF IndexInv, ResourceIndexSound
  <2> QED
    BY <2>1, <2>2, <1>2, <1>3
<1>7. SubinstanceIndexExact'
  <2> SUFFICES ASSUME NEW s \in SubInstance, NEW a \in Addr
               PROVE  subinstance_index'[s][a] =
                        IF a \in Allocated' /\ allocated'[a].subinstance = s THEN 1 ELSE 0
    BY DEF SubinstanceIndexExact
  <2>1. subinstance_index[s][a] =
          IF a \in Allocated /\ allocated[a].subinstance = s THEN 1 ELSE 0
    BY DEF IndexInv, SubinstanceIndexExact
  <2>2. subinstance_index'[s][a] =
          IF s \in D \/ (a \in S /\ allocated[a].subinstance = s)
          THEN 0 ELSE subinstance_index[s][a]
    BY <1>1
  <2>3. CASE a \in Allocated \ S
    BY <2>1, <2>2, <2>3, <1>2, <1>3
  <2>4. CASE a \notin Allocated \ S
    BY <2>1, <2>2, <2>4, <1>2
  <2> QED
    BY <2>3, <2>4
<1>8. AllocatedInPool'
  BY <1>1, <1>2 DEF IndexInv, AllocatedInPool, InPool, RangeContains
<1> QED
  BY <1>4, <1>5, <1>6, <1>7, <1>8 DEF IndexInv

-----------------------------------------------------------------------------
(* A new pool has nothing to keep in step.                                 *)
LEMMA InitIndexInv == Init => IndexInv
<1> SUFFICES ASSUME Init PROVE IndexInv
  OBVIOUS
<1> USE IpPoolAssumption DEF Init
<1>1. TypeOK
  BY DEF TypeOK
<1>2. Allocated = {}
  BY DEF Allocated
<1> QED
  BY <1>1, <1>2 DEF IndexInv, SubidIndexSound, ResourceIndexSound,
                    SubinstanceIndexExact, AllocatedInPool

(* What the configuration calls leave alone is all that the invariant      *)
(* speaks of, but for the ranges, which only grow.                         *)
LEMMA ConfigureKeepsIndexInv ==
  ASSUME IndexInv, Configure
  PROVE  IndexInv' /\ UNCHANGED bindVars /\ (\A a \in Addr : InPool(a) => InPool(a)')
<1> USE IpPoolAssumption
<1>1. UNCHANGED bindVars
  BY DEF Configure, AddRange, ReserveIp, UnreserveIp
<1>2. reserved' \subseteq Addr
  BY DEF Configure, AddRange, ReserveIp, UnreserveIp, IndexInv, TypeOK
<1>3. ranges' = ranges \/ \E r \in RangeInput : ranges' = Append(ranges, r)
  BY DEF Configure, AddRange, ReserveIp, UnreserveIp
<1>4. ranges' \in Seq(IpRange)
  <2>1. ranges \in Seq(IpRange)
    BY DEF IndexInv, TypeOK
  <2>2. \A r \in RangeInput : Append(ranges, r) \in Seq(IpRange)
    BY <2>1
  <2> QED
    BY <1>3, <2>1, <2>2
<1>5. \A a \in Addr : InPool(a) => InPool(a)'
  <2>1. CASE ranges' = ranges
    BY <2>1 DEF InPool
  <2>2. ASSUME NEW r \in RangeInput, ranges' = Append(ranges, r)
        PROVE  \A i \in DOMAIN ranges : i \in DOMAIN ranges' /\ ranges'[i] = ranges[i]
    BY <2>2 DEF IndexInv, TypeOK
  <2> QED
    BY <1>3, <2>1, <2>2 DEF InPool
<1>6. Allocated' = Allocated
  BY <1>1 DEF Allocated, bindVars
<1> QED
  BY <1>1, <1>2, <1>4, <1>5, <1>6 DEF IndexInv, TypeOK, bindVars, SubidIndexSound,
     ResourceIndexSound, SubinstanceIndexExact, AllocatedInPool, Allocated

(* A step that allocates binds one usable address of the pool. *)
LEMMA AllocateBinds ==
  ASSUME NEW si \in SubInstance, NEW sid \in SubId, NEW r \in Resource,
         Allocate(si, sid, r) \/ (\E ip \in Addr : AllocateSpecific(ip, si, sid, r))
  PROVE  \/ UNCHANGED poolVars
         \/ \E ip \in Addr : InPool(ip) /\ Usable(ip) /\ Bind(ip, si, sid, r)
<1>1. \A ip \in Addr : IsFirstFit(ip) => InPool(ip) /\ Usable(ip)
  BY DEF IsFirstFit, InPool
<1> QED
  BY <1>1 DEF Allocate, AllocateSpecific

(* A step that releases frees one allocated address, or exactly the        *)
(* addresses of a subinstance.                                             *)
LEMMA ReleaseUnbinds ==
  ASSUME IndexInv, Release
  PROVE  \/ UNCHANGED poolVars
         \/ \E ip \in Allocated : Unbind({ip}, {})
         \/ \E si \in SubInstance :
              Unbind({a \in Allocated : allocated[a].subinstance = si}, {si})
<1>1. ASSUME NEW ip \in Addr, ReleaseByIp(ip)
      PROVE  UNCHANGED poolVars \/ \E a \in Allocated : Unbind({a}, {})
  BY <1>1 DEF ReleaseByIp
<1>2. ASSUME NEW si \in SubInstance, NEW sid \in SubId, ReleaseBySubid(si, sid)
      PROVE  UNCHANGED poolVars \/ \E a \in Allocated : Unbind({a}, {})
  BY <1>2, <1>1 DEF ReleaseBySubid, IndexInv, TypeOK, Key
<1>3. ASSUME NEW si \in SubInstance, ReleaseBySubinstance(si)
      PROVE  Unbind({a \in Allocated : allocated[a].subinstance = si}, {si})
  <2>1. Listed(si) \cap Allocated = {a \in Allocated : allocated[a].subinstance = si}
    BY DEF Listed, IndexInv, SubinstanceIndexExact, Allocated
  <2> QED
    BY <1>3, <2>1 DEF ReleaseBySubinstance
<1> QED
  BY <1>1, <1>2, <1>3 DEF Release

(* Every step is one of the four kinds that the lease table knows. *)
LEMMA StepKinds ==
  ASSUME IndexInv, [Next]_poolVars
  PROVE  \/ UNCHANGED poolVars
         \/ Configure
         \/ \E ip \in Addr, si \in SubInstance, sid \in SubId, r \in Resource :
              InPool(ip) /\ Usable(ip) /\ Bind(ip, si, sid, r)
         \/ \E ip \in Allocated : Unbind({ip}, {})
         \/ \E si \in SubInstance :
              Unbind({a \in Allocated : allocated[a].subinstance = si}, {si})
  BY AllocateBinds, ReleaseUnbinds DEF Next

(* Every operation keeps the bindings and the indices in step.             *)
LEMMA NextIndexInv ==
  ASSUME IndexInv, [Next]_poolVars
  PROVE  IndexInv'
<1>1. CASE UNCHANGED poolVars
  BY <1>1 DEF poolVars, IndexInv, TypeOK, SubidIndexSound, ResourceIndexSound,
     SubinstanceIndexExact, AllocatedInPool, Allocated, InPool
<1>2. CASE Configure
  BY <1>2, ConfigureKeepsIndexInv
<1>3. ASSUME NEW ip \in Addr, NEW si \in SubInstance, NEW sid \in SubId, NEW r \in Resource,
             InPool(ip), Usable(ip), Bind(ip, si, sid, r)
      PROVE  IndexInv'
  BY <1>3, BindKeepsIndexInv
<1>4. ASSUME NEW ip \in Allocated, Unbind({ip}, {})
      PROVE  IndexInv'
  BY <1>4, UnbindKeepsIndexInv
<1>5. ASSUME NEW si \in SubInstance,
             Unbind({a \in Allocated : allocated[a].subinstance = si}, {si})
      PROVE  IndexInv'
  BY <1>5, UnbindKeepsIndexInv
<1> QED
  BY StepKinds, <1>1, <1>2, <1>3, <1>4, <1>5

(* Hence they are in step in every behaviour of the pool.                  *)
LEMMA SpecIndexInv == Spec => []IndexInv
  BY InitIndexInv, NextIndexInv, PTL DEF Spec

-----------------------------------------------------------------------------
(* Every variable of the pool keeps its type. *)
THEOREM PoolTyping == Spec => []TypeOK
  BY SpecIndexInv, PTL DEF IndexInv

(* find_by_subid and release_by_subid only ever reach an address that is   *)
(* allocated to the key they were asked for.                               *)
THEOREM SubidLookupIsSound == Spec => []SubidIndexSound
  BY SpecIndexInv, PTL DEF IndexInv

(* find_by_resource only returns an address bound to the resource. *)
THEOREM ResourceLookupIsSound == Spec => []ResourceIndexSound
  BY SpecIndexInv, PTL DEF IndexInv

(* The list of a subinstance is exactly what is allocated to it. *)
THEOREM SubinstanceListIsExact == Spec => []SubinstanceIndexExact
  BY SpecIndexInv, PTL DEF IndexInv

(* No address outside the configured ranges is ever allocated. *)
THEOREM OnlyPoolAddressesAllocated == Spec => []AllocatedInPool
  BY SpecIndexInv, PTL DEF IndexInv

(* The three indices and the ranges vouch for what is allocated, in any    *)
(* order of the calls.                                                     *)
THEOREM BookkeepingIsSound == Spec => []BookkeepingSound
  BY PoolTyping, SubidLookupIsSound, ResourceLookupIsSound, SubinstanceListIsExact,
     OnlyPoolAddressesAllocated, PTL DEF BookkeepingSound

(* release_by_subinstance frees the whole tenant and nobody else. *)
THEOREM SubinstanceReleaseIsExact == Spec => SubinstanceReleaseExact
<1>1. ASSUME IndexInv, NEW si \in SubInstance, ReleaseBySubinstance(si), NEW a \in Allocated
      PROVE  (allocated'[a] = NoBinding) <=> (allocated[a].subinstance = si)
  <2>1. Listed(si) \cap Allocated = {b \in Allocated : allocated[b].subinstance = si}
    BY <1>1 DEF Listed, IndexInv, SubinstanceIndexExact, Allocated
  <2> QED
    BY <1>1, <2>1 DEF ReleaseBySubinstance, Unbind, ListsWithout, KeysWithout, ResourcesWithout,
                    Allocated
<1>2. IndexInv =>
        [\A si \in SubInstance : ReleaseBySubinstance(si) =>
           \A a \in Allocated :
             (allocated'[a] = NoBinding) <=> (allocated[a].subinstance = si)]_poolVars
  BY <1>1
<1> QED
  BY <1>2, SpecIndexInv, PTL DEF SubinstanceReleaseExact

-----------------------------------------------------------------------------
(* The refinement: under the mapping of Leases every step of the pool is a *)
(* step of the lease table, or changes nothing there.                      *)
Owners == [a \in Addr |-> IF a \in Allocated THEN KeyOf(allocated[a]) ELSE NoBinding]

(* The key of a binding is a lease owner, and belongs to its subinstance.  *)
LEMMA KeysAreOwners ==
  ASSUME IndexInv, NEW a \in Allocated
  PROVE  /\ KeyOf(allocated[a]) \in Key
         /\ KeyOf(allocated[a]) # NoBinding
         /\ \A si \in SubInstance :
              KeyOf(allocated[a]) \in {si} \X SubId <=> allocated[a].subinstance = si
<1>1. allocated[a] \in Binding
  BY DEF IndexInv, TypeOK, Allocated
<1> QED
  BY <1>1, IpPoolAssumption DEF Binding, Key, KeyOf

(* Binding a usable address of the pool is leasing it.                     *)
LEMMA BindIsLease ==
  ASSUME IndexInv,
         NEW ip \in Addr, NEW si \in SubInstance, NEW sid \in SubId, NEW r \in Resource,
         InPool(ip), Usable(ip), Bind(ip, si, sid, r)
  PROVE  Leases!Lease(ip, <<si, sid>>)
<1> DEFINE b == [subinstance |-> si, subid |-> sid, subtype |-> r]
<1>1. b \in Binding /\ KeyOf(b) = <<si, sid>>
  BY DEF Binding, KeyOf
<1>2. allocated' = [allocated EXCEPT ![ip] = b] /\ ranges' = ranges /\ reserved' = reserved
  BY DEF Bind
<1>3. Allocated' = Allocated \cup {ip} /\ ip \notin Allocated
  BY <1>1, <1>2, IpPoolAssumption DEF Allocated, Usable, IndexInv, TypeOK
<1>4. \A a \in Addr : a # ip => allocated'[a] = allocated[a]
  BY <1>2 DEF IndexInv, TypeOK
<1>5. allocated'[ip] = b
  BY <1>2 DEF IndexInv, TypeOK
<1>6. Owners' = [Owners EXCEPT ![ip] = <<si, sid>>]
  BY <1>1, <1>3, <1>4, <1>5 DEF Owners
<1>7. Owners[ip] = NoBinding
  BY <1>3 DEF Owners
<1>8. {a \in Addr : InPool(a)}' = {a \in Addr : InPool(a)}
  BY <1>2 DEF InPool, RangeContains
<1> QED
  BY <1>2, <1>6, <1>7, <1>8 DEF Leases!Lease, Owners, Usable

(* Freeing the addresses S frees their owners, and no one else's. *)
LEMMA UnbindFreesOwners ==
  ASSUME IndexInv, NEW S \in SUBSET Allocated, NEW D, Unbind(S, D)
  PROVE  /\ Owners' = [a \in Addr |-> IF a \in S THEN NoBinding ELSE Owners[a]]
         /\ {a \in Addr : InPool(a)}' = {a \in Addr : InPool(a)}
         /\ reserved' = reserved
<1>1. /\ allocated' = [a \in Addr |-> IF a \in S THEN NoBinding ELSE allocated[a]]
      /\ ranges' = ranges /\ reserved' = reserved
  BY DEF Unbind, ListsWithout, KeysWithout, ResourcesWithout
<1>2. Allocated' = Allocated \ S
  BY <1>1 DEF Allocated
<1>3. \A a \in Addr : a \notin S => allocated'[a] = allocated[a]
  BY <1>1
<1>4. Owners' = [a \in Addr |-> IF a \in S THEN NoBinding ELSE Owners[a]]
  BY <1>2, <1>3 DEF Owners
<1> QED
  BY <1>1, <1>4 DEF InPool, RangeContains

(* Every step of the pool is a step of the lease table.                    *)
LEMMA StepIsLeaseStep ==
  ASSUME IndexInv, [Next]_poolVars
  PROVE  [Leases!LeaseNext]_(Leases!leaseVars)
<1>1. CASE UNCHANGED poolVars
  BY <1>1 DEF poolVars, Leases!leaseVars, InPool, RangeContains, Allocated, KeyOf
<1>2. CASE Configure
  <2>1. /\ UNCHANGED bindVars
        /\ \A a \in Addr : InPool(a) => InPool(a)'
    BY <1>2, ConfigureKeepsIndexInv
  <2>2. Owners' = Owners
    BY <2>1 DEF Owners, bindVars, Allocated, KeyOf
  <2>3. CASE reserved' = reserved
    <3> DEFINE P == {a \in Addr : InPool(a)}
    <3>1. P' = P \cup P' /\ P' \in SUBSET Addr
      BY <2>1
    <3>2. Leases!Extend(P')
      BY <2>2, <2>3, <3>1 DEF Leases!Extend, Owners
    <3> QED
      BY <3>1, <3>2 DEF Leases!LeaseNext
  <2>4. CASE ranges' = ranges
    <3>1. reserved' \in SUBSET Addr
      BY <1>2, ConfigureKeepsIndexInv DEF IndexInv, TypeOK
    <3>2. Leases!SetReserved(reserved')
      BY <2>2, <2>4 DEF Leases!SetReserved, Owners, InPool, RangeContains
    <3> QED
      BY <3>1, <3>2 DEF Leases!LeaseNext
  <2> QED
    BY <1>2, <2>3, <2>4 DEF Configure, AddRange, ReserveIp, UnreserveIp
<1>3. ASSUME NEW ip \in Addr, NEW si \in SubInstance, NEW sid \in SubId, NEW r \in Resource,
             InPool(ip), Usable(ip), Bind(ip, si, sid, r)
      PROVE  Leases!LeaseNext
  BY <1>3, BindIsLease DEF Leases!LeaseNext, Leases!Owner
<1>4. ASSUME NEW ip \in Allocated, Unbind({ip}, {})
      PROVE  Leases!LeaseNext
  <2>1. Owners' = [a \in Addr |-> IF a \in {ip} THEN NoBinding ELSE Owners[a]]
    BY <1>4, UnbindFreesOwners
  <2>2. Owners' = [Owners EXCEPT ![ip] = NoBinding]
    BY <2>1 DEF Owners
  <2>3. Leases!GiveBack(ip)
    BY <1>4, <2>2, UnbindFreesOwners DEF Leases!GiveBack, Owners
  <2> QED
    BY <2>3 DEF Leases!LeaseNext, Allocated
<1>5. ASSUME NEW si \in SubInstance,
             Unbind({a \in Allocated : allocated[a].subinstance = si}, {si})
      PROVE  Leases!LeaseNext
  <2> DEFINE S == {a \in Allocated : allocated[a].subinstance = si}
  <2>1. /\ Owners' = [a \in Addr |-> IF a \in S THEN NoBinding ELSE Owners[a]]
        /\ {a \in Addr : InPool(a)}' = {a \in Addr : InPool(a)}
        /\ reserved' = reserved
    BY <1>5, UnbindFreesOwners
  <2>2. \A a \in Addr : a \in S <=> a \in Allocated /\ Owners[a] \in {si} \X SubId
    BY KeysAreOwners DEF Owners
  <2>3. \A a \in Addr : a \notin Allocated => Owners[a] = NoBinding
    BY DEF Owners
  <2>4. Owners' = [a \in Addr |->
                     IF Owners[a] \in {si} \X SubId THEN NoBinding ELSE Owners[a]]
    BY <2>1, <2>2, <2>3
  <2>5. Leases!GiveBackGroup(si)
    BY <2>1, <2>4 DEF Leases!GiveBackGroup, Owners
  <2> QED
    BY <2>5 DEF Leases!LeaseNext
<1> QED
  BY StepKinds, <1>1, <1>2, <1>3, <1>4, <1>5

(* A new pool is a new lease table.                                        *)
LEMMA InitIsLeaseInit == Init => Leases!LeaseInit
<1> SUFFICES ASSUME Init PROVE Leases!LeaseInit
  OBVIOUS
<1>1. Allocated = {} /\ reserved = {} /\ {a \in Addr : InPool(a)} = {}
  BY DEF Init, Allocated, InPool
<1> QED
  BY <1>1 DEF Leases!LeaseInit

(* The pool implements the lease table: an address has one owner, is       *)
(* granted only while it is free and not reserved, and whole tenants are   *)
(* freed at once.                                                          *)
THEOREM PoolImplementsLeases == Spec => ImplementsLeases
  BY InitIsLeaseInit, StepIsLeaseStep, SpecIndexInv, PTL
     DEF Spec, ImplementsLeases, Leases!LeaseSpec

(* No address changes hands without being released first. *)
THEOREM NoLeaseIsTakenOver == Spec => NoTakeover
<1>1. ASSUME Leases!LeaseNext
      PROVE  \A a \in Addr : Owners[a] # NoBinding => Owners'[a] \in {Owners[a], NoBinding}
  BY <1>1 DEF Leases!LeaseNext, Leases!Extend, Leases!SetReserved, Leases!Lease,
     Leases!GiveBack, Leases!GiveBackGroup, Owners
<1>2. ASSUME IndexInv, [Next]_poolVars
      PROVE  [\A a \in Addr : Owners[a] # NoBinding =>
                Owners'[a] \in {Owners[a], NoBinding}]_(Leases!leaseVars)
  BY <1>1, <1>2, StepIsLeaseStep
<1> QED
  BY <1>2, SpecIndexInv, PTL DEF Spec, NoTakeover, Leases!NoTakeover, Owners

-----------------------------------------------------------------------------
(* The pool as the scheduler uses it: one address per key. *)
LEMMA FirstFitStep ==
  ASSUME IndexInv, OneIpPerKey, [NextFirstFit]_poolVars
  PROVE  IndexInv' /\ OneIpPerKey'
<1>1. [Next]_poolVars
  BY DEF Next, NextFirstFit
<1>2. IndexInv'
  BY <1>1, NextIndexInv
<1> SUFFICES OneIpPerKey'
  BY <1>2
<1>3. ASSUME UNCHANGED bindVars PROVE OneIpPerKey'
  BY <1>3 DEF bindVars, OneIpPerKey, Allocated, KeyOf
<1>4. ASSUME NEW S \in SUBSET Allocated, NEW D, Unbind(S, D)
      PROVE  OneIpPerKey'
  <2>1. /\ allocated' = [a \in Addr |-> IF a \in S THEN NoBinding ELSE allocated[a]]
        /\ subid_index' = [k \in Key |->
             IF \E a \in S : KeyOf(allocated[a]) = k THEN NoIp ELSE subid_index[k]]
    BY <1>4 DEF Unbind, ListsWithout, KeysWithout, ResourcesWithout
  <2> SUFFICES ASSUME NEW a \in Allocated'
               PROVE  subid_index'[KeyOf(allocated'[a])] = a
    BY DEF OneIpPerKey
  <2>2. a \in Allocated /\ a \notin S /\ allocated'[a] = allocated[a]
    BY <2>1 DEF Allocated
  <2>3. KeyOf(allocated[a]) \in Key /\ subid_index[KeyOf(allocated[a])] = a
    BY <2>2, KeysAreOwners DEF OneIpPerKey
  <2>4. \A b \in S : KeyOf(allocated[b]) # KeyOf(allocated[a])
    BY <2>2, <2>3 DEF OneIpPerKey
  <2> QED
    BY <2>1, <2>2, <2>3, <2>4
<1>5. ASSUME NEW si \in SubInstance, NEW sid \in SubId, NEW r \in Resource,
             Allocate(si, sid, r)
      PROVE  OneIpPerKey'
  <2>1. CASE UNCHANGED poolVars
    BY <2>1, <1>3 DEF poolVars, bindVars
  <2>2. ASSUME NEW ip \in Addr, subid_index[<<si, sid>>] = NoIp,
               IsFirstFit(ip), Bind(ip, si, sid, r)
        PROVE  OneIpPerKey'
    <3> DEFINE b == [subinstance |-> si, subid |-> sid, subtype |-> r]
    <3>1. b \in Binding /\ KeyOf(b) = <<si, sid>> /\ <<si, sid>> \in Key
      BY DEF Binding, KeyOf, Key
    <3>2. /\ allocated' = [allocated EXCEPT ![ip] = b]
          /\ subid_index' = [subid_index EXCEPT ![<<si, sid>>] = ip]
      BY <2>2 DEF Bind
    <3> SUFFICES ASSUME NEW a \in Allocated'
                 PROVE  subid_index'[KeyOf(allocated'[a])] = a
      BY DEF OneIpPerKey
    <3>3. CASE a = ip
      BY <3>1, <3>2, <3>3 DEF IndexInv, TypeOK
    <3>4. CASE a # ip
      <4>1. a \in Allocated /\ allocated'[a] = allocated[a]
        BY <3>2, <3>4 DEF Allocated, IndexInv, TypeOK
      <4>2. KeyOf(allocated[a]) \in Key /\ subid_index[KeyOf(allocated[a])] = a
        BY <4>1, KeysAreOwners DEF OneIpPerKey
      <4>3. KeyOf(allocated[a]) # <<si, sid>>
        BY <4>2, <2>2, IpPoolAssumption DEF Allocated
      <4> QED
        BY <4>1, <4>2, <4>3, <3>2 DEF IndexInv, TypeOK
    <3> QED
      BY <3>3, <3>4
  <2> QED
    BY <1>5, <2>1, <2>2 DEF Allocate
<1>6. CASE Configure
  BY <1>6, <1>3, ConfigureKeepsIndexInv
<1>7. CASE Release
  <2>1. CASE UNCHANGED poolVars
    BY <2>1, <1>3 DEF poolVars, bindVars
  <2> QED
    BY <1>4, <1>7, <2>1, ReleaseUnbinds
<1>8. CASE UNCHANGED poolVars
  BY <1>8, <1>3 DEF poolVars, bindVars
<1> QED
  BY <1>2, <1>5, <1>6, <1>7, <1>8 DEF NextFirstFit

(* As long as allocate alone chooses addresses, a key holds at most one    *)
(* address, and allocate finds it again.                                   *)
THEOREM FirstFitGivesOneIpPerKey == SpecFirstFit => []OneIpPerKey
<1>1. Init => IndexInv /\ OneIpPerKey
  BY InitIndexInv DEF Init, OneIpPerKey, Allocated
<1> QED
  BY <1>1, FirstFitStep, PTL DEF SpecFirstFit

-----------------------------------------------------------------------------
(* The figures. *)

(* The addresses of a range, and what the ranges of a set cover. *)
Size(r) == r.end - r.start + 1
Covered(s) == {a \in Addr : \E i \in s : RangeContains(ranges[i], a)}

(* Ranges are finitely many, and so are addresses. *)
LEMMA RangesFinite ==
  ASSUME ranges \in Seq(IpRange)
  PROVE  IsFiniteSet(DOMAIN ranges) /\ \A i \in DOMAIN ranges : ranges[i] \in IpRange
<1>1. PICK n \in Nat : DOMAIN ranges = 1 .. n
  OBVIOUS
<1>2. IsFiniteSet(1 .. n)
  BY FS_Interval
<1> QED BY <1>1, <1>2

LEMMA AddrFinite == IsFiniteSet(Addr)
  BY FS_Interval, IpPoolAssumption DEF Addr

(* A range covers as many addresses as it counts. *)
LEMMA OneCovered ==
  ASSUME ranges \in Seq(IpRange), NEW i \in DOMAIN ranges
  PROVE  IsFiniteSet(Covered({i})) /\ Cardinality(Covered({i})) = Size(ranges[i])
<1> DEFINE r == ranges[i]
<1>1. r \in IpRange
  BY RangesFinite
<1> HIDE DEF r
<1>2. r.start \in Int /\ r.end \in Int /\ r.start <= r.end /\ 0 <= r.start /\ r.end <= MaxAddr
  BY <1>1, IpPoolAssumption DEF IpRange, Addr
<1>3. {a \in Addr : RangeContains(r, a)} = r.start .. r.end
  BY <1>2, IpPoolAssumption DEF RangeContains, Addr
<1>4. Covered({i}) = r.start .. r.end
  BY <1>3 DEF Covered, r
<1>5. /\ IsFiniteSet(r.start .. r.end)
      /\ Cardinality(r.start .. r.end) = r.end - r.start + 1
  <2>1. PICK lo \in Int, hi \in Int : lo = r.start /\ hi = r.end /\ lo <= hi
    BY <1>2
  <2>2. IsFiniteSet(lo .. hi) /\ Cardinality(lo .. hi) = hi - lo + 1
    <3>1. /\ IsFiniteSet(lo .. hi)
          /\ Cardinality(lo .. hi) = IF lo > hi THEN 0 ELSE hi - lo + 1
      BY FS_Interval, Zenon
    <3> QED BY <2>1, <3>1
  <2> QED BY <2>1, <2>2
<1> QED BY <1>4, <1>5 DEF Size, r

(* The sum of the sizes of the ranges is at least the number of addresses  *)
(* they cover, and that number if they do not overlap.                     *)
LEMMA CountIsCovered ==
  ASSUME ranges \in Seq(IpRange)
  PROVE  /\ CountTotalIps \in Nat
         /\ CountTotalIps >= Cardinality(Covered(DOMAIN ranges))
         /\ RangesDisjoint => CountTotalIps = Cardinality(Covered(DOMAIN ranges))
<1> DEFINE D == DOMAIN ranges
           f == [i \in D |-> Size(ranges[i])]
<1>1. IsFiniteSet(D)
  BY RangesFinite
<1>2. DOMAIN f = D
  OBVIOUS
<1>3. CountTotalIps = SumFunction(f)
  BY DEF CountTotalIps, Size
<1>4. \A i \in D : f[i] = Size(ranges[i])
  OBVIOUS
<1> HIDE DEF f
<1>5. PICK g : /\ SumFunction(f) = g[D]
               /\ \A s \in SUBSET D : g[s] = SumStep(f, g, s)
  BY <1>1, <1>2, SumUnfolds
<1> DEFINE Counted(s) == /\ g[s] \in Nat
                         /\ g[s] >= Cardinality(Covered(s))
                         /\ RangesDisjoint => g[s] = Cardinality(Covered(s))
           S == {n \in Nat : \A s \in SUBSET D : Cardinality(s) = n => Counted(s)}
<1>6. 0 \in S
  <2> SUFFICES ASSUME NEW s \in SUBSET D, Cardinality(s) = 0
               PROVE  Counted(s)
    OBVIOUS
  <2>1. s = {}
    BY <1>1, FS_Subset, FS_EmptySet
  <2>2. Covered(s) = {}
    BY <2>1 DEF Covered
  <2>3. g[s] = 0
    BY <1>5, <2>1 DEF SumStep
  <2>4. Cardinality(Covered(s)) = 0
    BY <2>2, FS_EmptySet
  <2> QED BY <2>3, <2>4
<1>7. ASSUME NEW n \in Nat, n \in S PROVE n + 1 \in S
  <2> SUFFICES ASSUME NEW s \in SUBSET D, Cardinality(s) = n + 1
               PROVE  Counted(s)
    OBVIOUS
  <2> DEFINE x == Chosen(s)
             t == s \ {x}
  <2>1. IsFiniteSet(s)
    BY <1>1, FS_Subset
  <2>2. s # {}
    BY <2>1, FS_EmptySet
  <2>3. x \in s /\ x \in D
    BY <2>2, ChosenIn
  <2>4. Cardinality(t) = n
    <3>1. Cardinality(t) = Cardinality(s) - 1
      BY <2>1, <2>3, FS_RemoveElement
    <3>2. Cardinality(s) - 1 = n
      OBVIOUS
    <3> QED BY <3>1, <3>2
  <2>5. Counted(t)
    BY <1>7, <2>4
  <2>6. g[s] = f[x] + g[t]
    BY <1>5, <2>2 DEF SumStep
  <2> HIDE DEF x
  <2> DEFINE A == Covered({x})
             B == Covered(t)
  <2>7. IsFiniteSet(A) /\ Cardinality(A) = f[x] /\ f[x] \in Nat
    BY <1>4, <2>3, OneCovered, FS_CardinalityType
  <2>8. IsFiniteSet(B)
    BY AddrFinite, FS_Subset DEF Covered
  <2>9. Covered(s) = A \cup B
    BY <2>3 DEF Covered
  <2>10. RangesDisjoint => A \cap B = {}
    BY <2>3 DEF Covered, RangesDisjoint
  <2> HIDE DEF A, B
  <2>11. /\ Cardinality(A \cup B) = Cardinality(A) + Cardinality(B) - Cardinality(A \cap B)
         /\ Cardinality(A \cap B) \in Nat
         /\ Cardinality(A \cup B) \in Nat
    BY <2>7, <2>8, FS_Union, FS_Intersection, FS_CardinalityType
  <2>12. RangesDisjoint => Cardinality(A \cap B) = 0
    BY <2>10, FS_EmptySet
  <2>13. PICK u \in Nat, v \in Nat, w \in Nat, z \in Nat :
           /\ Cardinality(A \cup B) = u /\ f[x] = v /\ Cardinality(B) = w
           /\ Cardinality(A \cap B) = z
    BY <2>7, <2>8, <2>11, FS_CardinalityType
  <2>14. u = v + w - z /\ (RangesDisjoint => z = 0)
    BY <2>7, <2>11, <2>12, <2>13
  <2>15. g[t] \in Nat /\ g[t] >= w /\ (RangesDisjoint => g[t] = w)
    BY <2>5, <2>13 DEF B
  <2>16. PICK q \in Nat : g[t] = q /\ q >= w /\ (RangesDisjoint => q = w)
    BY <2>15
  <2>17. g[s] = v + q /\ Cardinality(Covered(s)) = u
    BY <2>6, <2>9, <2>13, <2>16
  <2>18. v + q \in Nat /\ v + q >= u /\ (RangesDisjoint => v + q = u)
    BY <2>14, <2>16
  <2> QED BY <2>17, <2>18
<1> HIDE DEF S
<1>8. Nat \subseteq S
  BY <1>6, <1>7, SetInduction
<1>9. Cardinality(D) \in S
  BY <1>1, <1>8, FS_CardinalityType
<1>10. Counted(D)
  BY <1>9 DEF S
<1> QED BY <1>3, <1>5, <1>10

(* What the ranges cover is free, allocated or reserved. *)
LEMMA StatsAreConservative ==
  ASSUME ranges \in Seq(IpRange), reserved \subseteq Addr
  PROVE  StatsConservative
<1> DEFINE C == Covered(DOMAIN ranges)
<1>1. /\ CountTotalIps \in Nat /\ CountTotalIps >= Cardinality(C)
      /\ RangesDisjoint => CountTotalIps = Cardinality(C)
      /\ CoveredIps = C
  BY CountIsCovered DEF CoveredIps, InPool, Covered
<1>2. /\ IsFiniteSet(C) /\ IsFiniteSet(Allocated) /\ IsFiniteSet(reserved)
      /\ IsFiniteSet(FreeIps)
  BY AddrFinite, FS_Subset DEF Covered, Allocated, FreeIps
<1>3. C \subseteq FreeIps \cup (Allocated \cup reserved)
  BY DEF Covered, FreeIps, InPool, Usable
<1> HIDE DEF C
<1>4. PICK c \in Nat, a \in Nat, r \in Nat, f \in Nat :
        /\ Cardinality(C) = c /\ Cardinality(Allocated) = a
        /\ Cardinality(reserved) = r /\ Cardinality(FreeIps) = f
  BY <1>2, FS_CardinalityType
<1> DEFINE B == Allocated \cup reserved
<1>5. IsFiniteSet(B) /\ Cardinality(B) <= a + r /\ Cardinality(B) \in Nat
  <2>1. IsFiniteSet(B) /\ Cardinality(B) = a + r - Cardinality(Allocated \cap reserved)
    BY <1>2, <1>4, FS_Union
  <2>2. Cardinality(Allocated \cap reserved) \in Nat
    BY <1>2, FS_Intersection, FS_CardinalityType
  <2> QED BY <2>1, <2>2, FS_CardinalityType
<1> HIDE DEF B
<1>6. /\ IsFiniteSet(FreeIps \cup B)
      /\ Cardinality(FreeIps \cup B) <= f + Cardinality(B)
  <2>1. /\ IsFiniteSet(FreeIps \cup B)
        /\ Cardinality(FreeIps \cup B) = f + Cardinality(B) - Cardinality(FreeIps \cap B)
    BY <1>2, <1>4, <1>5, FS_Union
  <2>2. Cardinality(FreeIps \cap B) \in Nat
    BY <1>2, FS_Intersection, FS_CardinalityType
  <2> QED BY <1>5, <2>1, <2>2
<1>7. c <= Cardinality(FreeIps \cup B)
  BY <1>3, <1>4, <1>6, FS_Subset DEF B
<1>8. Cardinality(FreeIps \cup B) \in Nat
  BY <1>6, FS_CardinalityType
<1>9. c <= f + a + r
  BY <1>5, <1>6, <1>7, <1>8
<1>10. PICK n \in Nat : CountTotalIps = n /\ n >= c /\ (RangesDisjoint => n = c)
  BY <1>1, <1>4
<1>11. CountedAgain = n - c
  BY <1>1, <1>4, <1>10 DEF CountedAgain
<1>12. StatsAvailable = SaturatingSub(SaturatingSub(n, a), r)
  BY <1>4, <1>10 DEF StatsAvailable
<1>13. SaturatingSub(SaturatingSub(n, a), r) <= f + (n - c)
  BY <1>9, <1>10 DEF SaturatingSub
<1> QED BY <1>4, <1>10, <1>11, <1>12, <1>13 DEF StatsConservative

(* "available" exceeds what allocate could give by the addresses counted   *)
(* again where ranges overlap, at most: in every behaviour of the pool,    *)
(* and of the pool as the scheduler uses it.                               *)
THEOREM FiguresAreConservative ==
  /\ Spec => []StatsConservative
  /\ SpecFirstFit => []StatsConservative
<1>1. IndexInv => StatsConservative
  BY StatsAreConservative DEF IndexInv, TypeOK
<1>2. SpecFirstFit => []IndexInv
  <2>1. Init => IndexInv
    BY InitIndexInv
  <2>2. IndexInv /\ [NextFirstFit]_poolVars => IndexInv'
    BY NextIndexInv DEF Next, NextFirstFit
  <2> QED
    BY <2>1, <2>2, PTL DEF SpecFirstFit
<1> QED
  BY <1>1, <1>2, SpecIndexInv, PTL

-----------------------------------------------------------------------------
(* The ranges.  A word of CidrRange.tla is a set of bits, and & and | are  *)
(* those of sets: the two representations are each other's inverse.        *)
BitSet == 0 .. W - 1

LEMMA BitSetFinite == IsFiniteSet(BitSet) /\ W \in Nat
  BY FS_Interval, CidrAssumption DEF BitSet

LEMMA WordsTabled ==
  \E v : /\ v \in [SUBSET BitSet -> Nat]
         /\ v[{}] = 0
         /\ \A s \in SUBSET BitSet : \A k \in s : v[s] = 2^k + v[s \ {k}]
         /\ \A s \in SUBSET BitSet : WordOf(s) = v[s]
<1> DEFINE f == [k \in BitSet |-> 2^k]
<1>1. f \in [BitSet -> Nat] /\ \A k \in BitSet : f[k] = 2^k /\ k \in Nat
  BY PowerPositive, BitSetFinite DEF BitSet
<1> HIDE DEF f
<1>2. PICK v : SumTable(BitSet, f, v)
  BY <1>1, BitSetFinite, SumsTabled
<1>3. /\ v \in [SUBSET BitSet -> Nat] /\ v[{}] = 0
      /\ \A s \in SUBSET BitSet : \A k \in s : v[s] = 2^k + v[s \ {k}]
  BY <1>1, <1>2 DEF SumTable
<1>4. ASSUME NEW s \in SUBSET BitSet PROVE WordOf(s) = v[s]
  <2> DEFINE h == [k \in s |-> 2^k]
             c == [t \in SUBSET s |-> v[t]]
  <2>1. h \in [s -> Nat] /\ \A k \in s : h[k] = 2^k /\ 2^k \in Nat
    BY <1>1
  <2>2. IsFiniteSet(s)
    BY BitSetFinite, FS_Subset
  <2>3. \A t \in SUBSET s : c[t] = v[t] /\ v[t] \in Nat
    BY <1>3
  <2>4. \A k \in s : c[{k}] = h[k]
    <3> TAKE k \in s
    <3>1. {k} \in SUBSET BitSet /\ {k} \ {k} = {}
      OBVIOUS
    <3>2. v[{k}] = 2^k + 0
      BY <1>3, <3>1
    <3> QED BY <2>1, <2>3, <3>2
  <2>5. c \in [SUBSET s -> Int]
    <3>1. \A t \in SUBSET s : v[t] \in Int
      <4>1. \A t \in SUBSET s : t \in SUBSET BitSet
        OBVIOUS
      <4> QED BY <1>3, <4>1
    <3> QED BY <3>1
  <2>6. \A t \in SUBSET s : \A k \in t : c[t] = c[{k}] + c[t \ {k}]
    <3> TAKE t \in SUBSET s
    <3> TAKE k \in t
    <3>1. v[t] = 2^k + v[t \ {k}]
      BY <1>3
    <3>2. c[{k}] = 2^k
      BY <2>1, <2>4
    <3>3. t \ {k} \in SUBSET s
      OBVIOUS
    <3> QED BY <2>3, <3>1, <3>2, <3>3
  <2>7. c[{}] = 0
    BY <1>3
  <2> HIDE DEF c, h
  <2>8. AddsUp(s, c)
    BY <2>5, <2>6, <2>7 DEF AddsUp
  <2>9. \A k \in s : h[k] <= c[{k}]
    BY <2>1, <2>4
  <2>10. SumFunction(h) = c[s]
    BY <2>1, <2>2, <2>4, <2>8, <2>9, SumCompared
  <2>11. WordOf(s) = SumFunction(h)
    BY DEF WordOf, h
  <2> QED BY <2>3, <2>10, <2>11
<1> QED BY <1>3, <1>4

LEMMA WordEmpty == WordOf({}) = 0
  BY WordsTabled

LEMMA WordType == \A s \in SUBSET BitSet : WordOf(s) \in Nat
  BY WordsTabled

LEMMA WordTake ==
  ASSUME NEW s \in SUBSET BitSet, NEW k \in s
  PROVE  WordOf(s) = 2^k + WordOf(s \ {k})
<1>1. s \ {k} \in SUBSET BitSet
  OBVIOUS
<1> QED BY <1>1, WordsTabled

(* The words of sets without a common bit are added. *)
LEMMA WordUnion ==
  ASSUME NEW s \in SUBSET BitSet, NEW t \in SUBSET BitSet, s \cap t = {}
  PROVE  WordOf(s \cup t) = WordOf(s) + WordOf(t)
<1> DEFINE I == {n \in Nat : \A u \in SUBSET t : Cardinality(u) = n =>
                   WordOf(s \cup u) = WordOf(s) + WordOf(u)}
<1>1. \A u \in SUBSET t : IsFiniteSet(u) /\ Cardinality(u) \in Nat
  BY BitSetFinite, FS_Subset, FS_CardinalityType
<1>2. 0 \in I
  <2> SUFFICES ASSUME NEW u \in SUBSET t, Cardinality(u) = 0
               PROVE  WordOf(s \cup u) = WordOf(s) + WordOf(u)
    OBVIOUS
  <2>1. u = {} /\ s \cup u = s
    BY <1>1, FS_EmptySet
  <2>2. WordOf(s) \in Nat
    BY WordType
  <2> QED BY <2>1, <2>2, WordEmpty
<1>3. ASSUME NEW n \in Nat, n \in I PROVE n + 1 \in I
  <2> SUFFICES ASSUME NEW u \in SUBSET t, Cardinality(u) = n + 1
               PROVE  WordOf(s \cup u) = WordOf(s) + WordOf(u)
    OBVIOUS
  <2>1. PICK k \in u : TRUE
    <3>1. Cardinality(u) # 0
      OBVIOUS
    <3>2. Cardinality({}) = 0
      BY FS_EmptySet
    <3> QED BY <3>1, <3>2
  <2> DEFINE w == u \ {k}
  <2>2. w \in SUBSET t /\ Cardinality(w) = n
    <3>1. Cardinality(w) = Cardinality(u) - 1
      BY <1>1, FS_RemoveElement
    <3> QED BY <3>1
  <2>3. WordOf(s \cup w) = WordOf(s) + WordOf(w)
    BY <1>3, <2>2
  <2>4. WordOf(u) = 2^k + WordOf(w)
    BY WordTake
  <2>5. (s \cup u) \ {k} = s \cup w
    OBVIOUS
  <2> HIDE DEF w
  <2>6. WordOf(s \cup u) = 2^k + WordOf(s \cup w)
    BY <2>5, WordTake
  <2>7. 2^k \in Nat /\ WordOf(s) \in Nat /\ WordOf(w) \in Nat
    BY <2>2, WordType, PowerPositive, BitSetFinite DEF BitSet
  <2> QED BY <2>3, <2>4, <2>6, <2>7
<1> HIDE DEF I
<1>4. Nat \subseteq I
  BY <1>2, <1>3, SetInduction
<1> QED BY <1>1, <1>4 DEF I

(* The bits below n make less than 2^n. *)
LEMMA LowBits ==
  \A n \in Nat : \A s \in SUBSET (0 .. n - 1) : n <= W => WordOf(s) < 2^n
<1> DEFINE I == {n \in Nat : \A s \in SUBSET (0 .. n - 1) : n <= W => WordOf(s) < 2^n}
<1>1. 0 \in I
  <2>1. \A s \in SUBSET (0 .. 0 - 1) : s = {}
    OBVIOUS
  <2>2. WordOf({}) < 2^0
    BY WordEmpty, PowerZero
  <2> QED BY <2>1, <2>2
<1>2. ASSUME NEW n \in Nat, n \in I PROVE n + 1 \in I
  <2> SUFFICES ASSUME NEW s \in SUBSET (0 .. (n + 1) - 1), n + 1 <= W
               PROVE  WordOf(s) < 2^(n + 1)
    OBVIOUS
  <2> DEFINE t == s \ {n}
  <2>1. t \in SUBSET (0 .. n - 1) /\ n <= W /\ t \in SUBSET BitSet /\ s \in SUBSET BitSet
    BY BitSetFinite DEF BitSet
  <2>2. WordOf(t) < 2^n /\ WordOf(t) \in Nat /\ 2^n \in Nat
    BY <1>2, <2>1, WordType, PowerPositive
  <2>3. 2^(n + 1) = 2^n + 2^n
    BY PowerNext
  <2>4. n \in s => WordOf(s) = 2^n + WordOf(t)
    BY <2>1, WordTake
  <2>5. n \notin s => s = t
    OBVIOUS
  <2> HIDE DEF t
  <2> QED BY <2>2, <2>3, <2>4, <2>5
<1> HIDE DEF I
<1>3. Nat \subseteq I
  BY <1>1, <1>2, SetInduction
<1> QED BY <1>3 DEF I

(* All of them make 2^n - 1. *)
LEMMA AllLowBits == \A n \in Nat : n <= W => WordOf(0 .. n - 1) = 2^n - 1
<1> DEFINE I == {n \in Nat : n <= W => WordOf(0 .. n - 1) = 2^n - 1}
<1>1. 0 \in I
  <2>1. 0 .. 0 - 1 = {}
    OBVIOUS
  <2> QED BY <2>1, WordEmpty, PowerZero
<1>2. ASSUME NEW n \in Nat, n \in I PROVE n + 1 \in I
  <2> SUFFICES ASSUME n + 1 <= W PROVE WordOf(0 .. (n + 1) - 1) = 2^(n + 1) - 1
    OBVIOUS
  <2> DEFINE s == 0 .. (n + 1) - 1
  <2>1. s \in SUBSET BitSet /\ n \in s /\ s \ {n} = 0 .. n - 1 /\ n <= W
    BY BitSetFinite DEF BitSet
  <2> HIDE DEF s
  <2>2. WordOf(s) = 2^n + (2^n - 1)
    BY <1>2, <2>1, WordTake
  <2>3. 2^(n + 1) = 2^n + 2^n /\ 2^n \in Nat
    BY PowerNext, PowerPositive
  <2> QED BY <2>2, <2>3 DEF s
<1> HIDE DEF I
<1>3. Nat \subseteq I
  BY <1>1, <1>2, SetInduction
<1> QED BY <1>3 DEF I

(* The bits from n on make a multiple of 2^n. *)
LEMMA HighBits ==
  ASSUME NEW n \in 0 .. W, NEW s \in SUBSET (n .. W - 1)
  PROVE  \E q \in Nat : WordOf(s) = 2^n * q
<1> DEFINE I == {j \in Nat : \A m \in 0 .. W : \A u \in SUBSET (m .. W - 1) :
                   W = m + j => \E q \in Nat : WordOf(u) = 2^m * q}
<1>1. 0 \in I
  <2> SUFFICES ASSUME NEW m \in 0 .. W, NEW u \in SUBSET (m .. W - 1), W = m + 0
               PROVE  \E q \in Nat : WordOf(u) = 2^m * q
    OBVIOUS
  <2>1. u = {} /\ m \in Nat
    BY BitSetFinite
  <2>2. 2^m * 0 = 0
    BY <2>1, PowerPositive
  <2> QED BY <2>1, <2>2, WordEmpty
<1>2. ASSUME NEW j \in Nat, j \in I PROVE j + 1 \in I
  <2> SUFFICES ASSUME NEW m \in 0 .. W, NEW u \in SUBSET (m .. W - 1), W = m + (j + 1)
               PROVE  \E q \in Nat : WordOf(u) = 2^m * q
    OBVIOUS
  <2> DEFINE t == u \ {m}
  <2>1. /\ m + 1 \in 0 .. W /\ t \in SUBSET (m + 1 .. W - 1) /\ W = (m + 1) + j
        /\ u \in SUBSET BitSet /\ m \in Nat
    BY BitSetFinite DEF BitSet
  <2>2. PICK q \in Nat : WordOf(t) = 2^(m + 1) * q
    BY <1>2, <2>1
  <2>3. PICK p \in Nat : p = 2^m /\ 2^(m + 1) = p + p
    BY <2>1, PowerNext, PowerPositive
  <2>4. WordOf(t) = p * (q + q)
    BY <2>2, <2>3
  <2>5. CASE m \in u
    <3>1. WordOf(u) = p + WordOf(t)
      BY <2>1, <2>3, <2>5, WordTake
    <3>2. WordOf(u) = p * (q + q + 1) /\ q + q + 1 \in Nat
      BY <2>4, <3>1
    <3> QED BY <2>3, <3>2
  <2>6. CASE m \notin u
    <3>1. u = t /\ q + q \in Nat
      BY <2>6
    <3> QED BY <2>3, <2>4, <3>1
  <2> QED BY <2>5, <2>6
<1> HIDE DEF I
<1>3. Nat \subseteq I
  BY <1>1, <1>2, SetInduction
<1>4. W - n \in Nat /\ W = n + (W - n)
  BY BitSetFinite
<1>5. W - n \in I
  BY <1>3, <1>4
<1> QED BY <1>4, <1>5 DEF I

(* A word has the bits it was made of. *)
LEMMA BitsOfWord ==
  ASSUME NEW s \in SUBSET BitSet PROVE BitsOf(WordOf(s)) = s
<1> SUFFICES ASSUME NEW k \in BitSet
             PROVE  (WordOf(s) \div 2^k) % 2 = 1 <=> k \in s
  BY DEF BitsOf, BitSet
<1> DEFINE low == s \cap (0 .. k - 1)
           high == s \cap (k + 1 .. W - 1)
           own == s \cap {k}
<1>1. k \in Nat /\ k <= W /\ k + 1 \in 0 .. W
  BY BitSetFinite DEF BitSet
<1>2. /\ low \in SUBSET (0 .. k - 1) /\ high \in SUBSET (k + 1 .. W - 1) /\ own \in SUBSET {k}
      /\ low \in SUBSET BitSet /\ high \in SUBSET BitSet /\ own \in SUBSET BitSet
      /\ own \cup high \in SUBSET BitSet
      /\ low \cap (own \cup high) = {} /\ own \cap high = {}
      /\ s = low \cup (own \cup high)
  <2>1. s \subseteq 0 .. W - 1
    BY DEF BitSet
  <2>2. ASSUME NEW i \in s PROVE i \in 0 .. k - 1 \/ i = k \/ i \in k + 1 .. W - 1
    <3>1. i \in 0 .. W - 1 /\ W \in Nat
      BY <2>1, BitSetFinite
    <3> QED BY <1>1, <3>1
  <2>3. s = low \cup (own \cup high)
    BY <2>2
  <2>4. low \cap (own \cup high) = {} /\ own \cap high = {}
    BY <1>1
  <2> QED BY <2>3, <2>4
<1>3. own = IF k \in s THEN {k} ELSE {}
  OBVIOUS
<1> HIDE DEF low, own, high
<1>4. PICK p \in Nat \ {0} : p = 2^k /\ 2^(k + 1) = p + p
  BY <1>1, PowerNext, PowerPositive
<1>5. PICK q \in Nat : WordOf(high) = (p + p) * q
  BY <1>1, <1>2, <1>4, HighBits
<1>6. PICK r \in 0 .. p - 1 : WordOf(low) = r
  <2>1. WordOf(low) < p /\ WordOf(low) \in Nat
    BY <1>1, <1>2, <1>4, LowBits, WordType
  <2> QED BY <2>1
<1>7. PICK b \in 0 .. 1 : (b = 1 <=> k \in s) /\ WordOf(own) = p * b
  <2>1. CASE k \in s
    <3>1. WordOf({k}) = 2^k + WordOf({k} \ {k})
      BY <1>2, <1>3, <2>1, WordTake
    <3>2. WordOf({k}) = p
      BY <1>4, <3>1, WordEmpty
    <3>3. WordOf(own) = p * 1
      BY <1>3, <2>1, <3>2
    <3> QED BY <2>1, <3>3
  <2>2. CASE k \notin s
    <3>1. WordOf(own) = p * 0
      BY <1>3, <2>2, WordEmpty
    <3> QED BY <2>2, <3>1
  <2> QED BY <2>1, <2>2
<1>8. WordOf(s) = r + (p * b + (p + p) * q)
  <2>1. WordOf(own \cup high) = WordOf(own) + WordOf(high)
    BY <1>2, WordUnion
  <2>2. WordOf(s) = WordOf(low) + WordOf(own \cup high)
    BY <1>2, WordUnion
  <2> QED BY <1>5, <1>6, <1>7, <2>1, <2>2
<1>9. WordOf(s) = p * (2 * q + b) + r /\ 2 * q + b \in Nat
  BY <1>8
<1>10. WordOf(s) \div p = 2 * q + b
  BY <1>9, DividesOneWay
<1>11. (2 * q + b) % 2 = b
  OBVIOUS
<1> QED BY <1>4, <1>7, <1>10, <1>11

(* And it is made of the bits it has. *)
LEMMA WordOfBits ==
  ASSUME NEW x \in Word PROVE WordOf(BitsOf(x)) = x
<1> DEFINE Below(n) == {k \in 0 .. n - 1 : (x \div 2^k) % 2 = 1}
           I == {n \in Nat : n <= W => WordOf(Below(n)) = x % 2^n}
<1>1. x \in Nat /\ x < 2^W /\ 2^W \in Nat \ {0}
  BY BitSetFinite, PowerPositive DEF Word
<1>2. 0 \in I
  <2>1. Below(0) = {}
    OBVIOUS
  <2>2. x % 2^0 = 0
    BY <1>1, PowerZero
  <2> QED BY <2>1, <2>2, WordEmpty
<1>3. ASSUME NEW n \in Nat, n \in I PROVE n + 1 \in I
  <2> SUFFICES ASSUME n + 1 <= W PROVE WordOf(Below(n + 1)) = x % 2^(n + 1)
    OBVIOUS
  <2>1. PICK p \in Nat \ {0} : p = 2^n /\ 2^(n + 1) = p + p
    BY PowerNext, PowerPositive
  <2>2. PICK q \in Nat, r \in 0 .. p - 1 : x = p * q + r /\ x \div p = q /\ x % p = r
    BY <1>1, Divides
  <2>3. PICK h \in Nat, b \in 0 .. 1 : q = 2 * h + b /\ q % 2 = b
    <3>1. q \div 2 \in Nat /\ q % 2 \in 0 .. 1 /\ q = 2 * (q \div 2) + (q % 2)
      OBVIOUS
    <3> QED BY <3>1
  <2>4. x % (p + p) = p * b + r
    <3>1. x = (p + p) * h + (p * b + r)
      BY <2>2, <2>3
    <3>2. p * b + r \in 0 .. (p + p) - 1
      BY <2>3
    <3>3. p + p \in Nat \ {0}
      OBVIOUS
    <3> QED BY <3>1, <3>2, <3>3, DividesOneWay
  <2>5. WordOf(Below(n)) = r
    <3>1. n \in I /\ n <= W /\ x % 2^n = r
      BY <1>3, <2>1, <2>2, BitSetFinite
    <3> QED BY <3>1
  <2>6. WordOf(Below(n + 1)) = p * b + r
    <3>1. /\ Below(n + 1) \in SUBSET BitSet
          /\ n \in Below(n + 1) <=> b = 1
          /\ Below(n + 1) \ {n} = Below(n)
      BY <2>1, <2>2, <2>3, BitSetFinite DEF BitSet
    <3> HIDE DEF Below
    <3>2. CASE b = 1
      <4>1. WordOf(Below(n + 1)) = p + r
        BY <2>1, <2>5, <3>1, <3>2, WordTake
      <4> QED BY <3>2, <4>1
    <3>3. CASE b = 0
      <4>1. n \notin Below(n + 1)
        BY <3>1, <3>3
      <4>2. Below(n + 1) \ {n} = Below(n + 1)
        BY <4>1
      <4>3. Below(n + 1) = Below(n)
        BY <3>1, <4>2
      <4> QED BY <2>5, <3>3, <4>3
    <3> QED BY <3>2, <3>3
  <2> QED BY <2>1, <2>4, <2>6
<1> HIDE DEF I
<1>4. Nat \subseteq I
  BY <1>2, <1>3, SetInduction
<1>5. WordOf(Below(W)) = x % 2^W
  BY <1>4, BitSetFinite DEF I
<1>6. x % 2^W = x
  BY <1>1
<1>7. BitsOf(x) = Below(W)
  BY DEF BitsOf
<1> QED BY <1>5, <1>6, <1>7

-----------------------------------------------------------------------------
(* The host bits of a prefix: none for /0, where a release build shifts by *)
(* the width modulo the width.                                             *)
HostBits(prefix) == IF prefix = 0 THEN 0 ELSE W - prefix

LEMMA HostBitsAre ==
  ASSUME NEW prefix \in 0 .. W
  PROVE  /\ HostBits(prefix) \in Nat /\ HostBits(prefix) < W
         /\ HostBits(prefix) = (W - prefix) % W
<1>1. W \in Nat \ {0} /\ prefix \in Nat /\ prefix <= W
  BY CidrAssumption
<1>2. CASE prefix = 0
  <2>1. HostBits(prefix) = 0 /\ W - prefix = W
    BY <1>1, <1>2 DEF HostBits
  <2>2. W % W = 0
    BY <1>1
  <2> QED BY <1>1, <2>1, <2>2
<1>3. CASE prefix # 0
  <2>1. HostBits(prefix) = W - prefix /\ W - prefix \in 0 .. W - 1
    BY <1>1, <1>3 DEF HostBits
  <2>2. (W - prefix) % W = W - prefix
    BY <1>1, <2>1
  <2> QED BY <1>1, <2>1, <2>2
<1> QED BY <1>2, <1>3

(* The mask has the bits of the prefix. *)
LEMMA MaskIs ==
  ASSUME NEW prefix \in 0 .. W
  PROVE  /\ Mask(prefix) = WordOf(HostBits(prefix) .. W - 1)
         /\ AllOnes - Mask(prefix) = WordOf(0 .. HostBits(prefix) - 1)
<1>1. PICK m \in Nat : m = HostBits(prefix) /\ m = (W - prefix) % W /\ m < W
  BY HostBitsAre
<1>2. PICK p \in Nat \ {0}, top \in Nat \ {0} : p = 2^m /\ top = 2^W /\ p <= top
  <2>1. m \in 0 .. W
    BY <1>1, BitSetFinite
  <2> QED BY <1>1, <2>1, BitSetFinite, PowerPositive, PowersGrow
<1>3. Mask(prefix) = top - p
  <2>1. Mask(prefix) = ((top - 1) * p) % top
    BY <1>1, <1>2 DEF Mask, ShiftLeft, AllOnes
  <2>2. (top - 1) * p = top * (p - 1) + (top - p)
    OBVIOUS
  <2>3. p - 1 \in Nat /\ top - p \in 0 .. top - 1
    BY <1>2
  <2>4. (top * (p - 1) + (top - p)) % top = top - p
    BY <2>3, DividesOneWay
  <2> QED BY <2>1, <2>2, <2>4
<1>4. WordOf(0 .. m - 1) = p - 1 /\ WordOf(0 .. W - 1) = top - 1
  BY <1>1, <1>2, AllLowBits, BitSetFinite
<1>5. WordOf(0 .. W - 1) = WordOf(0 .. m - 1) + WordOf(m .. W - 1)
  <2> DEFINE s == 0 .. m - 1
             t == m .. W - 1
  <2>1. s \in SUBSET BitSet /\ t \in SUBSET BitSet /\ s \cap t = {} /\ 0 .. W - 1 = s \cup t
    BY <1>1, BitSetFinite DEF BitSet
  <2> HIDE DEF s, t
  <2>2. WordOf(s \cup t) = WordOf(s) + WordOf(t)
    BY <2>1, WordUnion
  <2> QED BY <2>1, <2>2 DEF s, t
<1>6. WordOf(m .. W - 1) \in Nat
  <2>1. m .. W - 1 \in SUBSET BitSet
    BY <1>1 DEF BitSet
  <2> QED BY <2>1, WordType
<1>7. AllOnes = top - 1
  BY <1>2 DEF AllOnes
<1>8. WordOf(m .. W - 1) = top - p
  BY <1>4, <1>5, <1>6
<1>9. AllOnes - Mask(prefix) = p - 1
  BY <1>3, <1>7
<1> QED BY <1>1, <1>3, <1>4, <1>8, <1>9

(* The first address of a prefix is the multiple of a power of two, the    *)
(* last is one short of the next.                                          *)
LEMMA BoundsAre ==
  ASSUME NEW ip \in Word, NEW prefix \in 0 .. W
  PROVE  LET p == 2^HostBits(prefix)
         IN  \E q \in Nat :
               /\ ip \div p = q
               /\ CidrBounds(ip, prefix) = [start |-> p * q, end |-> p * q + (p - 1)]
               /\ p \in Nat \ {0} /\ p * q + (p - 1) \in Word
<1>1. PICK m \in Nat : m = HostBits(prefix) /\ m \in 0 .. W /\ m < W
  BY BitSetFinite, HostBitsAre
<1> DEFINE low == BitsOf(ip) \cap (0 .. m - 1)
           high == BitsOf(ip) \cap (m .. W - 1)
           rest == 0 .. m - 1
           net == m .. W - 1
<1>2. /\ low \in SUBSET (0 .. m - 1) /\ high \in SUBSET (m .. W - 1)
      /\ low \in SUBSET BitSet /\ high \in SUBSET BitSet
      /\ rest \in SUBSET BitSet /\ net \in SUBSET BitSet
      /\ low \cap high = {} /\ high \cap rest = {}
      /\ BitsOf(ip) = low \cup high
      /\ high = BitsOf(ip) \cap net
  <2>1. BitsOf(ip) \subseteq 0 .. W - 1
    BY DEF BitsOf
  <2>2. ASSUME NEW i \in BitsOf(ip) PROVE i \in 0 .. m - 1 \/ i \in m .. W - 1
    <3>1. i \in 0 .. W - 1 /\ W \in Nat
      BY <2>1, BitSetFinite
    <3> QED BY <1>1, <3>1
  <2>3. BitsOf(ip) = low \cup high
    BY <2>2
  <2>4. low \cap high = {} /\ high \cap rest = {}
    BY <1>1
  <2>5. rest \in SUBSET BitSet /\ net \in SUBSET BitSet
    BY <1>1, BitSetFinite DEF BitSet
  <2> QED BY <2>3, <2>4, <2>5
<1>3. Mask(prefix) = WordOf(net) /\ AllOnes - Mask(prefix) = WordOf(rest)
  BY <1>1, MaskIs
<1> HIDE DEF low, high, net
<1>4. PICK p \in Nat \ {0} : p = 2^m
  BY <1>1, PowerPositive
<1>5. WordOf(rest) = p - 1
  BY <1>1, <1>4, AllLowBits
<1> HIDE DEF rest
<1>6. PICK q \in Nat : WordOf(high) = p * q
  BY <1>1, <1>2, <1>4, HighBits
<1>7. PICK r \in 0 .. p - 1 : WordOf(low) = r
  <2>1. WordOf(low) < p /\ WordOf(low) \in Nat
    BY <1>1, <1>2, <1>4, LowBits, WordType
  <2> QED BY <2>1
<1>8. ip = p * q + r
  <2>1. ip = WordOf(low \cup high)
    BY <1>2, WordOfBits
  <2>2. WordOf(low \cup high) = WordOf(low) + WordOf(high)
    BY <1>2, WordUnion
  <2> QED BY <1>6, <1>7, <2>1, <2>2
<1>9. ip \div p = q
  BY <1>8, DividesOneWay
<1>10. ip & Mask(prefix) = WordOf(high)
  <2>1. BitsOf(Mask(prefix)) = net
    BY <1>2, <1>3, BitsOfWord
  <2> QED BY <1>2, <2>1 DEF &
<1>11. WordOf(high) | (AllOnes - Mask(prefix)) = p * q + (p - 1)
  <2>1. BitsOf(WordOf(high)) = high /\ BitsOf(AllOnes - Mask(prefix)) = rest
    BY <1>2, <1>3, BitsOfWord
  <2>2. WordOf(high) | (AllOnes - Mask(prefix)) = WordOf(high \cup rest)
    BY <2>1 DEF |
  <2>3. WordOf(high \cup rest) = WordOf(high) + WordOf(rest)
    BY <1>2, WordUnion
  <2> QED BY <1>5, <1>6, <2>2, <2>3
<1>12. p * q + (p - 1) \in Word
  <2>1. high \cup rest \in SUBSET (0 .. W - 1)
    BY <1>2 DEF BitSet
  <2>2. WordOf(high \cup rest) < 2^W
    BY <2>1, LowBits, BitSetFinite
  <2>3. WordOf(high \cup rest) = p * q + (p - 1)
    BY <1>2, <1>5, <1>6, WordUnion
  <2>4. 2^W \in Nat /\ p * q + (p - 1) \in Nat
    BY BitSetFinite, PowerPositive
  <2> QED BY <2>2, <2>3, <2>4 DEF Word
<1>13. CidrBounds(ip, prefix) = [start |-> p * q, end |-> p * q + (p - 1)]
  BY <1>6, <1>10, <1>11 DEF CidrBounds
<1> QED BY <1>1, <1>4, <1>9, <1>12, <1>13

(* The masks select the block of the prefix. *)
LEMMA BoundsAreBlock == CidrIsBlock
<1> SUFFICES ASSUME NEW ip \in Word, NEW prefix \in 1 .. W
             PROVE  AddressesOf(CidrBounds(ip, prefix)) = PrefixBlock(ip, prefix)
  BY DEF CidrIsBlock
<1>1. prefix \in 0 .. W /\ HostBits(prefix) = W - prefix
  BY BitSetFinite DEF HostBits
<1>2. PICK p : p = 2^HostBits(prefix)
  OBVIOUS
<1>3. PICK q \in Nat : /\ ip \div p = q
                       /\ CidrBounds(ip, prefix) = [start |-> p * q, end |-> p * q + (p - 1)]
                       /\ p \in Nat \ {0} /\ p * q + (p - 1) \in Word
  BY <1>1, <1>2, BoundsAre
<1>4. AddressesOf(CidrBounds(ip, prefix)) = p * q .. p * q + (p - 1)
  BY <1>3 DEF AddressesOf
<1>5. PrefixBlock(ip, prefix) = {a \in Word : a \div p = q}
  BY <1>1, <1>2, <1>3 DEF PrefixBlock
<1>6. 2^W \in Nat /\ p * q \in Nat
  BY <1>3, BitSetFinite, PowerPositive
<1>7. ASSUME NEW a \in p * q .. p * q + (p - 1) PROVE a \in Word /\ a \div p = q
  <2>1. a \in Word
    BY <1>3, <1>6 DEF Word
  <2>2. PICK r \in 0 .. p - 1 : a = p * q + r
    <3>1. a - p * q \in 0 .. p - 1 /\ a = p * q + (a - p * q)
      BY <1>3, <1>6
    <3> QED BY <3>1
  <2> QED BY <1>3, <2>1, <2>2, DividesOneWay
<1>8. ASSUME NEW a \in Word, a \div p = q PROVE a \in p * q .. p * q + (p - 1)
  <2>1. a \in Nat
    BY <1>6 DEF Word
  <2>2. a % p \in 0 .. p - 1 /\ a = p * q + (a % p)
    BY <1>3, <1>8, <2>1, Divides
  <2> QED BY <1>3, <1>6, <2>1, <2>2
<1> QED BY <1>4, <1>5, <1>7, <1>8

-----------------------------------------------------------------------------
(* The scan. *)
WordSpan == {r \in [start : Word, end : Word] : r.start <= r.end}

(* What has been scanned of the first n ranges, and of a range up to c. *)
ScannedOf(ss, n) == FlattenSeq([i \in 1 .. n |-> InOrder(ss[i])])
UpTo(range, c) == [k \in 1 .. c - range.start |-> range.start + k - 1]

(* Past the last address comes none. *)
Reached == IF current = NoAddress THEN AllOnes + 1 ELSE current

(* Within a range the scan has put together those before it, and the       *)
(* addresses of the range up to the current one.                           *)
CidrInv ==
  /\ family \in {"v4", "v6"} /\ build \in {"debug", "release"}
  /\ spans \in Seq(WordSpan) /\ Len(spans) <= MaxSpans
  /\ status \in {"Open", "Scanning", "Scanned", "Panicked"}
  /\ yielded \in Seq(Word)
  /\ \A k \in DOMAIN yielded : \E i \in DOMAIN spans : yielded[k] \in AddressesOf(spans[i])
  /\ status \in {"Open", "Panicked"} => index = 0 /\ current = NoAddress /\ yielded = << >>
  /\ status = "Scanning" =>
       /\ index \in 1 .. Len(spans) /\ current \in Word \cup {NoAddress}
       /\ spans[index].start <= Reached /\ Reached <= spans[index].end + 1
       /\ yielded = ScannedOf(spans, index - 1) \o UpTo(spans[index], Reached)
  /\ status = "Scanned" =>
       index = Len(spans) + 1 /\ current = NoAddress /\ yielded = ScannedOf(spans, Len(spans))

LEMMA WordsAre ==
  /\ 2^W \in Nat \ {0} /\ AllOnes \in Word /\ AllOnes = 2^W - 1
  /\ \A a : a \in Word <=> a \in Nat /\ a <= AllOnes
  /\ Word \subseteq Int /\ 0 \in Word
<1>1. 2^W \in Nat \ {0}
  BY BitSetFinite, PowerPositive
<1> QED BY <1>1 DEF Word, AllOnes

LEMMA SpanFacts ==
  ASSUME NEW r \in WordSpan
  PROVE  /\ r.start \in Word /\ r.end \in Word /\ r.start \in Nat /\ r.end \in Nat
         /\ r.start <= r.end /\ r.end <= AllOnes
  BY WordsAre DEF WordSpan

LEMMA UpToType ==
  ASSUME NEW r \in WordSpan, NEW c \in Nat, r.start <= c, c <= r.end + 1
  PROVE  UpTo(r, c) \in Seq(Word) /\ Len(UpTo(r, c)) = c - r.start
<1>1. PICK a \in Nat, b \in Nat : a = r.start /\ b = r.end /\ b <= AllOnes
  BY SpanFacts
<1>2. c - a \in Nat
  BY <1>1
<1>3. \A k \in 1 .. c - a : a + k - 1 \in Word
  BY <1>1, WordsAre
<1>4. UpTo(r, c) \in [1 .. c - a -> Word]
  BY <1>1, <1>3 DEF UpTo
<1> QED BY <1>1, <1>2, <1>4

LEMMA UpToStart == ASSUME NEW r \in WordSpan PROVE UpTo(r, r.start) = << >>
<1>1. r.start \in Nat /\ r.start <= r.end + 1
  BY SpanFacts
<1>2. UpTo(r, r.start) \in Seq(Word) /\ Len(UpTo(r, r.start)) = 0
  BY <1>1, UpToType
<1> QED BY <1>2

LEMMA UpToAll == ASSUME NEW r, NEW c, c - r.start = SizeOf(r) PROVE UpTo(r, c) = InOrder(r)
  BY Zenon DEF UpTo, InOrder

LEMMA UpToEnd == ASSUME NEW r \in WordSpan PROVE UpTo(r, r.end + 1) = InOrder(r)
<1>1. PICK c : c = r.end + 1 /\ c - r.start = SizeOf(r)
  BY SpanFacts DEF SizeOf
<1>2. UpTo(r, c) = InOrder(r)
  BY <1>1, UpToAll, Zenon
<1> QED BY <1>1, <1>2, Zenon

LEMMA InOrderType == ASSUME NEW r \in WordSpan PROVE InOrder(r) \in Seq(Word)
<1>1. r.end + 1 \in Nat /\ r.start <= r.end + 1
  BY SpanFacts
<1> QED BY <1>1, UpToType, UpToEnd

LEMMA UpToNext ==
  ASSUME NEW r \in WordSpan, NEW c \in Nat, r.start <= c, c <= r.end
  PROVE  UpTo(r, c + 1) = Append(UpTo(r, c), c)
<1>1. PICK a \in Nat, b \in Nat : a = r.start /\ b = r.end /\ b <= AllOnes
  BY SpanFacts
<1>2. /\ UpTo(r, c) \in Seq(Word) /\ Len(UpTo(r, c)) = c - a
      /\ UpTo(r, c + 1) \in Seq(Word) /\ Len(UpTo(r, c + 1)) = c + 1 - a
  <2>1. c + 1 \in Nat /\ r.start <= c + 1 /\ c + 1 <= r.end + 1 /\ c <= r.end + 1
    BY <1>1
  <2> QED BY <1>1, <2>1, UpToType
<1>3. c \in Word
  BY <1>1, WordsAre
<1>4. /\ \A k \in 1 .. c - a : UpTo(r, c)[k] = a + k - 1
      /\ \A k \in 1 .. c + 1 - a : UpTo(r, c + 1)[k] = a + k - 1
  BY <1>1 DEF UpTo
<1> DEFINE s == UpTo(r, c)
           t == UpTo(r, c + 1)
<1> HIDE DEF s, t
<1>5. /\ Append(s, c) \in Seq(Word) /\ Len(Append(s, c)) = c - a + 1
      /\ \A k \in 1 .. c - a + 1 : Append(s, c)[k] = IF k <= c - a THEN s[k] ELSE c
  BY <1>2, <1>3 DEF s
<1>6. t \in Seq(Word) /\ Len(t) = c - a + 1
  BY <1>2 DEF t
<1>7. \A k \in 1 .. c - a + 1 : t[k] = Append(s, c)[k]
  <2>1. /\ \A k \in 1 .. c - a : s[k] = a + k - 1
        /\ \A k \in 1 .. c - a + 1 : t[k] = a + k - 1
    <3>1. c + 1 - a = c - a + 1
      BY <1>1
    <3> QED BY <1>4, <3>1 DEF s, t
  <2> TAKE k \in 1 .. c - a + 1
  <2>2. CASE k <= c - a
    <3>1. k \in 1 .. c - a
      BY <2>2
    <3> QED BY <1>5, <2>1, <2>2, <3>1
  <2>3. CASE ~(k <= c - a)
    <3>1. k = c - a + 1 /\ a + k - 1 = c
      BY <1>1, <2>3
    <3> QED BY <1>5, <2>1, <2>3, <3>1
  <2> QED BY <2>2, <2>3
<1>8. t = Append(s, c)
  BY <1>5, <1>6, <1>7, SeqEqual
<1> QED BY <1>8 DEF s, t

LEMMA ScannedNext ==
  ASSUME NEW ss \in Seq(WordSpan), NEW n \in Nat, n + 1 <= Len(ss)
  PROVE  /\ ScannedOf(ss, n) \in Seq(Word)
         /\ ScannedOf(ss, n + 1) = ScannedOf(ss, n) \o InOrder(ss[n + 1])
<1> DEFINE f == [i \in 1 .. n + 1 |-> InOrder(ss[i])]
           p == [i \in 1 .. n |-> f[i]]
<1>1. \A i \in 1 .. n + 1 : f[i] = InOrder(ss[i]) /\ InOrder(ss[i]) \in Seq(Word)
  <2> TAKE i \in 1 .. n + 1
  <2>1. ss[i] \in WordSpan
    OBVIOUS
  <2> QED BY <2>1, InOrderType
<1>2. p = [i \in 1 .. n |-> InOrder(ss[i])] /\ [i \in 1 .. n + 1 |-> f[i]] = f
  OBVIOUS
<1>3. p \in Seq(Seq(Word))
  <2>1. p \in [1 .. n -> Seq(Word)]
    BY <1>1
  <2> HIDE DEF p
  <2> QED BY <2>1, FunctionIsSeq
<1>4. ScannedOf(ss, n + 1) = FlattenSeq(f)
  BY DEF ScannedOf
<1>5. n + 1 \in 1 .. n + 1
  OBVIOUS
<1> HIDE DEF f
<1>6. FlattenSeq([i \in 1 .. n + 1 |-> f[i]]) = FlattenSeq(p) \o f[n + 1]
  BY <1>1, FlattenNext
<1>7. FlattenSeq(p) \in Seq(Word)
  BY <1>3, FlattenType
<1> HIDE DEF p
<1>8. ScannedOf(ss, n) = FlattenSeq(p)
  BY <1>2 DEF ScannedOf
<1> QED BY <1>1, <1>2, <1>4, <1>5, <1>6, <1>7, <1>8

LEMMA ScannedNone == \A ss : ScannedOf(ss, 0) = << >>
<1> TAKE ss
<1>1. [i \in 1 .. 0 |-> InOrder(ss[i])] = << >>
  OBVIOUS
<1> QED BY <1>1, FlattenEmpty DEF ScannedOf

(* However many ranges. *)
LEMMA ScannedType ==
  ASSUME NEW ss \in Seq(WordSpan), NEW n \in 0 .. Len(ss)
  PROVE  ScannedOf(ss, n) \in Seq(Word)
<1>1. CASE n = 0
  <2>1. << >> \in Seq(Word)
    OBVIOUS
  <2> QED BY <1>1, <2>1, ScannedNone
<1>2. CASE n # 0
  <2>1. PICK m \in Nat : n = m + 1 /\ m + 1 <= Len(ss)
    <3>1. n - 1 \in Nat /\ n = (n - 1) + 1
      BY <1>2
    <3> QED BY <3>1
  <2>2. m + 1 \in 1 .. Len(ss)
    BY <2>1
  <2>3. ss[m + 1] \in WordSpan
    BY <2>2
  <2>4. InOrder(ss[m + 1]) \in Seq(Word)
    BY <2>3, InOrderType
  <2> QED BY <2>1, <2>4, ScannedNext, ConcatProperties
<1> QED BY <1>1, <1>2

LEMMA SpansAre ==
  ASSUME CidrInv
  PROVE  /\ spans \in Seq(WordSpan) /\ Len(spans) \in Nat /\ Len(spans) <= MaxSpans
         /\ DOMAIN spans = 1 .. Len(spans) /\ \A i \in 1 .. Len(spans) : spans[i] \in WordSpan
         /\ MaxSpans \in Nat
  BY CidrAssumption DEF CidrInv

LEMMA CidrInvStarts == CidrInit => CidrInv
<1> SUFFICES ASSUME CidrInit PROVE CidrInv
  OBVIOUS
<1>1. /\ spans = << >> /\ yielded = << >> /\ status = "Open" /\ index = 0 /\ current = NoAddress
      /\ family \in {"v4", "v6"} /\ build \in {"debug", "release"}
  BY DEF CidrInit
<1>2. /\ << >> \in Seq(WordSpan) /\ << >> \in Seq(Word) /\ Len(<< >>) = 0
      /\ MaxSpans \in Nat /\ 0 <= MaxSpans
  BY CidrAssumption
<1>3. DOMAIN << >> = {}
  OBVIOUS
<1> QED BY <1>1, <1>2, <1>3 DEF CidrInv

(* A range is added before the scan. *)
LEMMA AddKeeps ==
  ASSUME CidrInv, NEW r \in WordSpan, CanAdd, Add(r)
  PROVE  CidrInv'
<1>1. /\ status = "Open" /\ status' = "Open" /\ yielded = << >> /\ yielded' = << >>
      /\ index' = 0 /\ current' = NoAddress /\ yielded' \in Seq(Word)
      /\ family' \in {"v4", "v6"} /\ build' \in {"debug", "release"}
  BY DEF CidrInv, CanAdd, Add, scanVars
<1>2. spans' = Append(spans, r) /\ Len(spans) < MaxSpans
  BY DEF CanAdd, Add
<1>3. spans' \in Seq(WordSpan) /\ Len(spans') = Len(spans) + 1
  BY <1>2, SpansAre, AppendProperties
<1>4. Len(spans') <= MaxSpans
  BY <1>2, <1>3, SpansAre
<1>5. DOMAIN yielded' = {}
  BY <1>1
<1> QED BY <1>1, <1>3, <1>4, <1>5 DEF CidrInv

LEMMA ShiftPanicKeeps ==
  ASSUME CidrInv, CanAdd, status' = "Panicked", UNCHANGED <<family, build, spans, scanVars>>
  PROVE  CidrInv'
  BY DEF CidrInv, CanAdd, scanVars

(* The scan of a range begins when those before it have been scanned. *)
LEMMA ScanRangeKeeps ==
  ASSUME CidrInv, NEW n \in Nat, n <= Len(spans), yielded = ScannedOf(spans, n),
         ScanRange(n + 1)
  PROVE  CidrInv'
<1>1. /\ index' = n + 1 /\ family' = family /\ build' = build /\ spans' = spans
      /\ yielded' = yielded
  BY DEF ScanRange
<1>2. /\ family \in {"v4", "v6"} /\ build \in {"debug", "release"} /\ yielded \in Seq(Word)
      /\ \A k \in DOMAIN yielded : \E i \in DOMAIN spans : yielded[k] \in AddressesOf(spans[i])
  BY DEF CidrInv
<1>3. CASE n + 1 <= Len(spans)
  <2>1. /\ status' = "Scanning" /\ current' = spans[n + 1].start
        /\ n + 1 \in 1 .. Len(spans)
    BY <1>3, SpansAre DEF ScanRange
  <2>2. PICK r \in WordSpan : r = spans[n + 1]
    BY <2>1, SpansAre
  <2>3. current' \in Word /\ current' # NoAddress /\ Reached' = r.start
    BY <2>1, <2>2, SpanFacts, CidrAssumption DEF Reached
  <2>4. r.start <= r.start /\ r.start <= r.end + 1
    BY <2>2, SpanFacts
  <2>5. yielded = ScannedOf(spans, n) \o UpTo(r, r.start)
    BY <1>2, <2>2, UpToStart, ConcatEmptySeq
  <2>6. index' - 1 = n /\ spans'[index'] = r
    BY <1>1, <2>2
  <2>7. yielded' = ScannedOf(spans', index' - 1) \o UpTo(spans'[index'], Reached')
    BY <1>1, <2>3, <2>5, <2>6
  <2> QED BY <1>1, <1>2, <2>1, <2>3, <2>4, <2>6, <2>7, SpansAre DEF CidrInv
<1>4. CASE ~(n + 1 <= Len(spans))
  <2>1. status' = "Scanned" /\ current' = NoAddress
    BY <1>4 DEF ScanRange
  <2>2. n = Len(spans)
    <3>1. Len(spans) \in Nat
      BY SpansAre
    <3> QED BY <1>4, <3>1
  <2> QED BY <1>1, <1>2, <2>1, <2>2, SpansAre DEF CidrInv
<1> QED BY <1>3, <1>4

LEMMA StartScanKeeps == ASSUME CidrInv, StartScan PROVE CidrInv'
<1>1. yielded = << >> /\ ScanRange(0 + 1)
  BY DEF CidrInv, StartScan
<1>2. yielded = ScannedOf(spans, 0)
  BY <1>1, ScannedNone
<1>3. 0 \in Nat /\ 0 <= Len(spans)
  BY SpansAre
<1> QED BY <1>1, <1>2, <1>3, ScanRangeKeeps

(* While a range is scanned. *)
LEMMA ScanFacts ==
  ASSUME CidrInv, status = "Scanning"
  PROVE  \E n \in Nat, r \in WordSpan :
           /\ index = n + 1 /\ n + 1 \in 1 .. Len(spans) /\ r = spans[n + 1] /\ spans[index] = r
           /\ Reached \in Nat /\ r.start <= Reached /\ Reached <= r.end + 1
           /\ current \in Word \cup {NoAddress}
           /\ ScannedOf(spans, n) \in Seq(Word) /\ UpTo(r, Reached) \in Seq(Word)
           /\ ScannedOf(spans, n + 1) = ScannedOf(spans, n) \o InOrder(r)
           /\ yielded = ScannedOf(spans, n) \o UpTo(r, Reached)
<1>1. /\ index \in 1 .. Len(spans) /\ current \in Word \cup {NoAddress}
      /\ spans[index].start <= Reached /\ Reached <= spans[index].end + 1
      /\ yielded = ScannedOf(spans, index - 1) \o UpTo(spans[index], Reached)
  BY DEF CidrInv
<1>2. PICK n \in Nat : n = index - 1 /\ index = n + 1
  <2>1. index - 1 \in Nat /\ index = (index - 1) + 1
    BY <1>1, SpansAre
  <2> QED BY <2>1
<1>3. PICK r \in WordSpan : r = spans[index]
  BY <1>1, SpansAre
<1>4. Reached \in Nat
  <2>1. CASE current = NoAddress
    BY <2>1, WordsAre DEF Reached
  <2>2. CASE current # NoAddress
    BY <1>1, <2>2, WordsAre DEF Reached
  <2> QED BY <2>1, <2>2
<1>5. UpTo(r, Reached) \in Seq(Word)
  BY <1>1, <1>3, <1>4, UpToType
<1>6. n + 1 <= Len(spans)
  BY <1>1, <1>2, SpansAre
<1>7. /\ ScannedOf(spans, n) \in Seq(Word)
      /\ ScannedOf(spans, n + 1) = ScannedOf(spans, n) \o InOrder(r)
  BY <1>2, <1>3, <1>6, SpansAre, ScannedNext
<1> QED BY <1>1, <1>2, <1>3, <1>4, <1>5, <1>7

(* At the end of a range, or past the last address there is, all of the    *)
(* range has been looked at.                                               *)
LEMMA NextRangeKeeps == ASSUME CidrInv, NextRange PROVE CidrInv'
<1>1. status = "Scanning" /\ Exhausted /\ ScanRange(index + 1)
  BY DEF NextRange
<1>2. PICK n \in Nat, r \in WordSpan :
           /\ index = n + 1 /\ n + 1 \in 1 .. Len(spans) /\ spans[index] = r
           /\ Reached \in Nat /\ r.start <= Reached /\ Reached <= r.end + 1
           /\ current \in Word \cup {NoAddress}
           /\ ScannedOf(spans, n + 1) = ScannedOf(spans, n) \o InOrder(r)
           /\ yielded = ScannedOf(spans, n) \o UpTo(r, Reached)
  BY <1>1, ScanFacts
<1>3. Reached = r.end + 1
  <2>1. Reached > r.end
    <3>1. CASE current = NoAddress
      BY <3>1, SpanFacts, WordsAre DEF Reached
    <3>2. CASE current # NoAddress
      BY <1>1, <1>2, <3>2 DEF Reached, Exhausted
    <3> QED BY <3>1, <3>2
  <2> QED BY <1>2, <2>1, SpanFacts
<1>4. yielded = ScannedOf(spans, n + 1)
  BY <1>2, <1>3, UpToEnd
<1>5. n + 1 \in Nat /\ n + 1 <= Len(spans)
  BY <1>2, SpansAre
<1> QED BY <1>1, <1>2, <1>4, <1>5, ScanRangeKeeps

LEMMA YieldKeeps == ASSUME CidrInv, Yield PROVE CidrInv'
<1>1. /\ status = "Scanning" /\ status' = status /\ ~Exhausted
      /\ yielded' = Append(yielded, current) /\ current' = CheckedNext(current)
      /\ family' = family /\ build' = build /\ spans' = spans /\ index' = index
  BY DEF Yield
<1>2. PICK n \in Nat, r \in WordSpan :
           /\ index = n + 1 /\ n + 1 \in 1 .. Len(spans) /\ spans[index] = r
           /\ Reached \in Nat /\ r.start <= Reached /\ Reached <= r.end + 1
           /\ current \in Word \cup {NoAddress}
           /\ ScannedOf(spans, n) \in Seq(Word) /\ UpTo(r, Reached) \in Seq(Word)
           /\ yielded = ScannedOf(spans, n) \o UpTo(r, Reached)
  BY <1>1, ScanFacts
<1>3. current # NoAddress /\ ~(current > r.end) /\ current \in Word /\ Reached = current
  BY <1>1, <1>2 DEF Exhausted, Reached
<1>4. PICK c \in Nat : c = current /\ r.start <= c /\ c <= r.end /\ c <= AllOnes
  BY <1>2, <1>3, SpanFacts, WordsAre
<1>5. Reached' = c + 1 /\ current' \in Word \cup {NoAddress}
  <2>1. CASE c = AllOnes
    BY <1>1, <1>4, <2>1 DEF Reached, CheckedNext
  <2>2. CASE c # AllOnes
    <3>1. c + 1 \in Word
      BY <1>4, <2>2, WordsAre
    <3>2. current' = c + 1
      BY <1>1, <1>4, <2>2 DEF CheckedNext
    <3>3. current' # NoAddress
      BY <3>1, <3>2, CidrAssumption
    <3> QED BY <3>1, <3>2, <3>3 DEF Reached
  <2> QED BY <2>1, <2>2
<1>6. yielded' = ScannedOf(spans, n) \o UpTo(r, c + 1)
  <2>1. PICK s \in Seq(Word), u \in Seq(Word) : s = ScannedOf(spans, n) /\ u = UpTo(r, c)
    BY <1>2, <1>3, <1>4
  <2>2. UpTo(r, c + 1) = Append(u, c)
    BY <1>4, <2>1, UpToNext
  <2>3. yielded' = Append(s \o u, c)
    BY <1>1, <1>2, <1>3, <1>4, <2>1
  <2>4. Append(s \o u, c) = s \o Append(u, c)
    <3>1. c \in Word /\ s \o u \in Seq(Word) /\ <<c>> \in Seq(Word)
      BY <1>3, <1>4, ConcatProperties
    <3>2. Append(s \o u, c) = (s \o u) \o <<c>> /\ Append(u, c) = u \o <<c>>
      BY <3>1, AppendIsConcat
    <3>3. (s \o u) \o <<c>> = s \o (u \o <<c>>)
      BY <3>1, ConcatAssociative
    <3> QED BY <3>2, <3>3
  <2> QED BY <2>1, <2>2, <2>3, <2>4
<1>7. index' - 1 = n /\ spans'[index'] = r /\ index' \in 1 .. Len(spans')
  BY <1>1, <1>2
<1>8. yielded' = ScannedOf(spans', index' - 1) \o UpTo(spans'[index'], Reached')
  BY <1>1, <1>5, <1>6, <1>7
<1>9. r.start <= c + 1 /\ c + 1 <= r.end + 1
  BY <1>4, SpanFacts
<1>10. yielded' \in Seq(Word) /\
       \A k \in DOMAIN yielded' : \E i \in DOMAIN spans' : yielded'[k] \in AddressesOf(spans'[i])
  <2>1. yielded \in Seq(Word) /\
        \A k \in DOMAIN yielded : \E i \in DOMAIN spans : yielded[k] \in AddressesOf(spans[i])
    BY DEF CidrInv
  <2>2. yielded' \in Seq(Word) /\ Len(yielded') = Len(yielded) + 1
    BY <1>1, <1>3, <2>1, AppendProperties
  <2>3. ASSUME NEW k \in DOMAIN yielded'
        PROVE  \E i \in DOMAIN spans' : yielded'[k] \in AddressesOf(spans'[i])
    <3>1. k \in 1 .. Len(yielded) + 1 /\ Len(yielded) \in Nat /\ DOMAIN yielded = 1 .. Len(yielded)
      BY <2>1, <2>2
    <3>2. CASE k \in 1 .. Len(yielded)
      <4>1. yielded'[k] = yielded[k]
        BY <1>1, <1>3, <2>1, <3>2, AppendProperties
      <4> QED BY <1>1, <2>1, <3>1, <3>2, <4>1
    <3>3. CASE k = Len(yielded) + 1
      <4>1. yielded'[k] = c
        BY <1>1, <1>3, <1>4, <2>1, <3>3, AppendProperties
      <4>2. c \in AddressesOf(r)
        BY <1>4, SpanFacts DEF AddressesOf
      <4>3. index \in DOMAIN spans /\ spans[index] = r
        BY <1>2, SpansAre
      <4> QED BY <1>1, <4>1, <4>2, <4>3
    <3> QED BY <3>1, <3>2, <3>3
  <2> QED BY <2>2, <2>3
<1> QED BY <1>1, <1>5, <1>7, <1>8, <1>9, <1>10, SpansAre DEF CidrInv

LEMMA AddSpanKeeps ==
  ASSUME CidrInv, NEW s \in Word, NEW e \in Word, AddSpan(s, e)
  PROVE  CidrInv'
<1>1. [start |-> s, end |-> e] \in WordSpan
  BY DEF AddSpan, WordSpan
<1> QED BY <1>1, AddKeeps DEF AddSpan

LEMMA BoundsType ==
  ASSUME NEW ip \in Word, NEW prefix \in 0 .. W
  PROVE  CidrBounds(ip, prefix) \in WordSpan
<1>1. PICK p : p = 2^HostBits(prefix)
  OBVIOUS
<1>2. PICK q \in Nat :
        /\ CidrBounds(ip, prefix) = [start |-> p * q, end |-> p * q + (p - 1)]
        /\ p \in Nat \ {0} /\ p * q + (p - 1) \in Word
  BY <1>1, BoundsAre
<1>3. PICK m \in Nat : m = p * q
  BY <1>2
<1>4. m \in Word /\ m + (p - 1) \in Word /\ m <= m + (p - 1)
  BY <1>2, <1>3, WordsAre
<1> QED BY <1>2, <1>3, <1>4 DEF WordSpan

LEMMA AddCidrKeeps ==
  ASSUME CidrInv, NEW ip \in Word, NEW prefix \in 0 .. W, AddCidr(ip, prefix)
  PROVE  CidrInv'
<1>1. CASE ShiftPanics(W - prefix)
  BY <1>1, ShiftPanicKeeps DEF AddCidr
<1>2. CASE ~ShiftPanics(W - prefix)
  BY <1>2, BoundsType, AddKeeps DEF AddCidr
<1> QED BY <1>1, <1>2

LEMMA CidrInvStutters == ASSUME CidrInv, UNCHANGED cidrVars PROVE CidrInv'
<1>1. /\ family' = family /\ build' = build /\ spans' = spans /\ status' = status
      /\ index' = index /\ current' = current /\ yielded' = yielded
  BY DEF cidrVars
<1>2. Reached' = Reached
  BY <1>1 DEF Reached
<1> QED BY <1>1, <1>2 DEF CidrInv

LEMMA CidrInvHolds == CidrSpec => []CidrInv
<1>1. CidrInv /\ [CidrNext]_cidrVars => CidrInv'
  <2> SUFFICES ASSUME CidrInv, [CidrNext]_cidrVars PROVE CidrInv'
    OBVIOUS
  <2>1. ASSUME NEW s \in Word, NEW e \in Word, AddSpan(s, e) PROVE CidrInv'
    BY <2>1, AddSpanKeeps
  <2>2. ASSUME NEW ip \in Word, NEW prefix \in 0 .. W, AddCidr(ip, prefix) PROVE CidrInv'
    BY <2>2, AddCidrKeeps
  <2>3. CASE StartScan
    BY <2>3, StartScanKeeps
  <2>4. CASE Yield
    BY <2>4, YieldKeeps
  <2>5. CASE NextRange
    BY <2>5, NextRangeKeeps
  <2>6. CASE UNCHANGED cidrVars
    BY <2>6, CidrInvStutters
  <2> QED BY <2>1, <2>2, <2>3, <2>4, <2>5, <2>6 DEF CidrNext, Scan
<1> QED BY <1>1, CidrInvStarts, PTL DEF CidrSpec

LEMMA CidrInvTypes == CidrInv => CidrTypeOK
<1> SUFFICES ASSUME CidrInv PROVE CidrTypeOK
  OBVIOUS
<1>1. spans \in Seq([start : Word, end : Word]) /\ Len(spans) <= MaxSpans
  <2>1. WordSpan \subseteq [start : Word, end : Word]
    BY DEF WordSpan
  <2>2. spans \in [1 .. Len(spans) -> [start : Word, end : Word]]
    BY <2>1, SpansAre
  <2>3. spans \in Seq([start : Word, end : Word])
    BY <2>2, FunctionIsSeq, SpansAre
  <2> QED BY <2>3, SpansAre
<1>2. index \in 0 .. MaxSpans + 1
  <2>1. index \in 0 .. Len(spans) + 1
    <3>1. Len(spans) \in Nat
      BY SpansAre
    <3> QED BY <3>1 DEF CidrInv
  <2> QED BY <2>1, SpansAre
<1>3. current \in Word \cup {NoAddress}
  BY DEF CidrInv
<1> QED BY <1>1, <1>2, <1>3 DEF CidrInv, CidrTypeOK

LEMMA CidrInvScans == CidrInv => ScanIsExact
<1> SUFFICES ASSUME CidrInv PROVE ScanIsExact
  OBVIOUS
<1>1. \A k \in DOMAIN yielded : \E i \in DOMAIN spans : yielded[k] \in AddressesOf(spans[i])
  BY DEF CidrInv
<1>2. ASSUME status = "Scanned"
      PROVE  yielded = FlattenSeq([i \in DOMAIN spans |-> InOrder(spans[i])])
  <2>1. yielded = ScannedOf(spans, Len(spans))
    BY <1>2 DEF CidrInv
  <2>2. yielded = FlattenSeq([i \in 1 .. Len(spans) |-> InOrder(spans[i])])
    BY <2>1, Zenon DEF ScannedOf
  <2>3. DOMAIN spans = 1 .. Len(spans)
    BY SpansAre
  <2> QED BY <2>2, <2>3, Zenon
<1> QED BY <1>1, <1>2 DEF ScanIsExact

-----------------------------------------------------------------------------
(* What the ranges of s cover; its size, and the size less one address of  *)
(* each range, as count_total_ips does for IPv6.                           *)
CoveredBy(s) == UNION {AddressesOf(spans[i]) : i \in s}
CoveredCounts(D) == [s \in SUBSET D |-> Cardinality(CoveredBy(s))]
ShortCounts(D) == [s \in SUBSET D |-> Cardinality(CoveredBy(s)) - Cardinality(s)]

LEMMA WordFinite ==
  /\ IsFiniteSet(Word) /\ Cardinality(Word) = AllOnes + 1
  /\ AllOnes \in Nat /\ 2^W = AllOnes + 1 /\ UsizeMax["v4"] \in Nat /\ UsizeMax["v6"] \in Nat
  /\ AllOnes <= UsizeMax["v4"]
<1>1. AllOnes \in Nat /\ Word = 0 .. AllOnes /\ 2^W = AllOnes + 1
  BY WordsAre DEF Word, AllOnes
<1>2. IsFiniteSet(Word) /\ Cardinality(Word) = AllOnes + 1
  BY <1>1, FS_Interval
<1> QED BY <1>1, <1>2, CidrAssumption, WordsAre

LEMMA AddressesCounted ==
  ASSUME NEW r \in WordSpan
  PROVE  /\ AddressesOf(r) \subseteq Word
         /\ Cardinality(AddressesOf(r)) = SizeOf(r)
         /\ SizeOf(r) \in Nat \ {0} /\ SizeOf(r) <= AllOnes + 1
         /\ SizeOf(r) = AllOnes + 1 => AddressesOf(r) = Word
<1>1. PICK a \in Nat, b \in Nat : a = r.start /\ b = r.end /\ a <= b /\ b <= AllOnes
  BY SpanFacts
<1>2. AllOnes \in Nat /\ Word = 0 .. AllOnes
  BY WordsAre DEF Word, AllOnes
<1>3. AddressesOf(r) = a .. b /\ SizeOf(r) = b - a + 1
  BY <1>1 DEF AddressesOf, SizeOf
<1>4. Cardinality(a .. b) = b - a + 1
  <2>1. Cardinality(a .. b) = IF a > b THEN 0 ELSE b - a + 1
    BY FS_Interval
  <2> QED BY <1>1, <2>1
<1>5. b - a + 1 \in Nat \ {0} /\ b - a + 1 <= AllOnes + 1 /\ a .. b \subseteq 0 .. AllOnes
  BY <1>1, <1>2
<1>6. ASSUME b - a + 1 = AllOnes + 1 PROVE a = 0 /\ b = AllOnes
  BY <1>1, <1>2, <1>6
<1> QED BY <1>2, <1>3, <1>4, <1>5, <1>6

LEMMA CoveredFinite ==
  ASSUME CidrInv, NEW s \in SUBSET DOMAIN spans
  PROVE  /\ CoveredBy(s) \subseteq Word /\ IsFiniteSet(CoveredBy(s))
         /\ Cardinality(CoveredBy(s)) \in Nat
<1>1. \A i \in s : AddressesOf(spans[i]) \subseteq Word
  BY SpansAre, AddressesCounted
<1>2. CoveredBy(s) \subseteq Word
  BY <1>1 DEF CoveredBy
<1> QED BY <1>2, WordFinite, FS_Subset, FS_CardinalityType

(* The cardinalities of disjoint ranges add up. *)
LEMMA CoveredAddsUp ==
  ASSUME CidrInv, Disjoint
  PROVE  AddsUp(DOMAIN spans, CoveredCounts(DOMAIN spans))
<1> DEFINE D == DOMAIN spans
           c == CoveredCounts(D)
<1>1. c \in [SUBSET D -> Int]
  BY CoveredFinite DEF CoveredCounts
<1>2. \A s \in SUBSET D : c[s] = Cardinality(CoveredBy(s))
  BY DEF CoveredCounts
<1>3. c[{}] = 0
  <2>1. CoveredBy({}) = {} /\ {} \in SUBSET D
    BY DEF CoveredBy
  <2> QED BY <1>2, <2>1, FS_EmptySet
<1>4. ASSUME NEW s \in SUBSET D, NEW x \in s PROVE c[s] = c[{x}] + c[s \ {x}]
  <2> DEFINE A == CoveredBy({x})
             B == CoveredBy(s \ {x})
  <2>1. {x} \in SUBSET D /\ s \ {x} \in SUBSET D
    OBVIOUS
  <2>2. /\ IsFiniteSet(A) /\ IsFiniteSet(B) /\ Cardinality(A) \in Nat /\ Cardinality(B) \in Nat
    BY <2>1, CoveredFinite
  <2>3. CoveredBy(s) = A \cup B
    BY DEF CoveredBy
  <2>4. A \cap B = {}
    <3>1. \A i \in s \ {x} : AddressesOf(spans[x]) \cap AddressesOf(spans[i]) = {}
      BY DEF Disjoint
    <3> QED BY <3>1 DEF CoveredBy
  <2> HIDE DEF A, B
  <2>5. Cardinality(A \cup B) = Cardinality(A) + Cardinality(B)
    <3>1. Cardinality(A \cap B) = 0
      BY <2>4, FS_EmptySet
    <3>2. Cardinality(A \cup B) = Cardinality(A) + Cardinality(B) - Cardinality(A \cap B)
      BY <2>2, FS_Union
    <3> QED BY <2>2, <3>1, <3>2
  <2> QED BY <1>2, <2>1, <2>3, <2>5 DEF A, B
<1> HIDE DEF c
<1> QED BY <1>1, <1>3, <1>4 DEF AddsUp, c

LEMMA SingletonCovered ==
  ASSUME CidrInv, NEW x \in DOMAIN spans
  PROVE  /\ CoveredCounts(DOMAIN spans)[{x}] = SizeOf(spans[x])
         /\ ShortCounts(DOMAIN spans)[{x}] = SizeOf(spans[x]) - 1
<1>1. CoveredBy({x}) = AddressesOf(spans[x]) /\ {x} \in SUBSET DOMAIN spans
  BY DEF CoveredBy
<1>2. spans[x] \in WordSpan
  BY SpansAre
<1>3. Cardinality(CoveredBy({x})) = SizeOf(spans[x])
  BY <1>1, <1>2, AddressesCounted
<1>4. Cardinality({x}) = 1
  BY FS_Singleton
<1> QED BY <1>1, <1>3, <1>4 DEF CoveredCounts, ShortCounts

LEMMA DomainFinite ==
  ASSUME CidrInv
  PROVE  IsFiniteSet(DOMAIN spans) /\ Cardinality(DOMAIN spans) = Len(spans)
<1>1. DOMAIN spans = 1 .. Len(spans) /\ Len(spans) \in Nat
  BY SpansAre
<1>2. PICK n \in Nat : n = Len(spans)
  BY <1>1
<1>3. /\ IsFiniteSet(1 .. n)
      /\ Cardinality(1 .. n) = IF 1 > n THEN 0 ELSE n - 1 + 1
  BY FS_Interval
<1>4. IsFiniteSet(1 .. n) /\ Cardinality(1 .. n) = n
  BY <1>3
<1> QED BY <1>1, <1>2, <1>4

LEMMA ShortAddsUp ==
  ASSUME CidrInv, Disjoint
  PROVE  AddsUp(DOMAIN spans, ShortCounts(DOMAIN spans))
<1> DEFINE D == DOMAIN spans
           c == CoveredCounts(D)
           d == ShortCounts(D)
<1>1. \A s \in SUBSET D : IsFiniteSet(s) /\ Cardinality(s) \in Nat
  BY DomainFinite, FS_Subset, FS_CardinalityType
<1>2. /\ c \in [SUBSET D -> Int] /\ c[{}] = 0
      /\ \A s \in SUBSET D : \A x \in s : c[s] = c[{x}] + c[s \ {x}]
  BY CoveredAddsUp DEF AddsUp
<1>3. \A s \in SUBSET D : d[s] = c[s] - Cardinality(s)
  BY DEF CoveredCounts, ShortCounts
<1>4. d \in [SUBSET D -> Int]
  <2>1. d = [s \in SUBSET D |-> d[s]]
    BY DEF ShortCounts
  <2> HIDE DEF c, d
  <2>2. \A s \in SUBSET D : d[s] \in Int
    BY <1>1, <1>2, <1>3
  <2> QED BY <2>1, <2>2
<1>5. d[{}] = 0
  <2>1. {} \in SUBSET D /\ Cardinality({}) = 0
    BY FS_EmptySet
  <2> HIDE DEF c, d
  <2> QED BY <1>2, <1>3, <2>1
<1>6. ASSUME NEW s \in SUBSET D, NEW x \in s PROVE d[s] = d[{x}] + d[s \ {x}]
  <2>1. {x} \in SUBSET D /\ s \ {x} \in SUBSET D
    OBVIOUS
  <2>2. Cardinality({x}) = 1 /\ Cardinality(s \ {x}) = Cardinality(s) - 1
    BY <1>1, FS_Singleton, FS_RemoveElement
  <2> HIDE DEF c, d
  <2>3. PICK m \in Int, n \in Int, k \in Nat :
             m = c[{x}] /\ n = c[s \ {x}] /\ k = Cardinality(s)
    BY <1>1, <1>2, <2>1
  <2>4. c[s] = m + n
    BY <1>2, <2>3
  <2>5. d[s] = m + n - k /\ d[{x}] = m - 1 /\ d[s \ {x}] = n - (k - 1)
    BY <1>3, <2>1, <2>2, <2>3, <2>4
  <2> QED BY <2>3, <2>5
<1> HIDE DEF d
<1> QED BY <1>4, <1>5, <1>6 DEF AddsUp, d

LEMMA RestIsNoMore ==
  ASSUME NEW x \in Nat, NEW m \in Nat \ {0}
  PROVE  x % m \in Nat /\ x % m <= x /\ (x < m => x % m = x)
  OBVIOUS

LEMMA CountBounds ==
  ASSUME CidrInv, NEW x \in DOMAIN spans
  PROVE  /\ CountOf(spans[x]) \in Nat
         /\ family = "v4" => CountOf(spans[x]) <= SizeOf(spans[x])
         /\ family = "v4" /\ Addresses # Word => CountOf(spans[x]) = SizeOf(spans[x])
         /\ family = "v6" => CountOf(spans[x]) <= SizeOf(spans[x]) - 1
<1>1. PICK r \in WordSpan : r = spans[x]
  BY SpansAre
<1>2. PICK n \in Nat \ {0} : /\ n = SizeOf(r) /\ n <= AllOnes + 1
                             /\ n = AllOnes + 1 => AddressesOf(r) = Word
                             /\ AddressesOf(r) \subseteq Word
  BY AddressesCounted
<1>3. PICK top \in Nat \ {0} : top = 2^W /\ top = AllOnes + 1
  BY WordFinite
<1>4. CASE family = "v4"
  <2>1. CountOf(r) = n % top
    BY <1>2, <1>3, <1>4 DEF CountOf
  <2>2. ASSUME Addresses # Word PROVE n < top
    <3>1. Addresses \subseteq Word
      <4>1. CoveredBy(DOMAIN spans) \subseteq Word
        BY CoveredFinite
      <4> QED BY <4>1 DEF CoveredBy, Addresses
    <3>2. AddressesOf(r) \subseteq Addresses
      BY <1>1 DEF Addresses
    <3>3. AddressesOf(r) # Word
      BY <2>2, <3>1, <3>2
    <3> QED BY <1>2, <1>3, <3>3
  <2> QED BY <1>1, <1>2, <1>4, <2>1, <2>2, RestIsNoMore
<1>5. CASE family # "v4"
  <2>1. PICK u \in Nat : u = UsizeMax["v6"]
    BY WordFinite
  <2>2. CountOf(r) = IF n - 1 > u THEN u ELSE n - 1
    BY <1>2, <1>5, <2>1 DEF CountOf
  <2>3. CountOf(r) \in Nat /\ CountOf(r) <= n - 1
    BY <2>2
  <2> QED BY <1>1, <1>2, <1>5, <2>3
<1>6. QED BY <1>4, <1>5

(* The figures of the ranges are added, and taken modulo the word size.    *)
LEMMA CidrInvCounts == CidrInv => TotalAccounted
<1> SUFFICES ASSUME CidrInv, Disjoint
             PROVE  /\ TotalIps <= Cardinality(Addresses)
                    /\ family = "v4" /\ Addresses # Word => TotalIps = Cardinality(Addresses)
                    /\ family = "v6" => TotalIps + Len(spans) <= Cardinality(Addresses)
  BY DEF TotalAccounted
<1> DEFINE D == DOMAIN spans
           f == [i \in D |-> CountOf(spans[i])]
<1>1. f \in [D -> Nat] /\ \A i \in D : f[i] = CountOf(spans[i])
  BY CountBounds
<1>2. TotalIps = SumFunction(f) % (UsizeMax[family] + 1)
  BY DEF TotalIps
<1> HIDE DEF f
<1>3. PICK sum \in Nat : sum = SumFunction(f)
  BY <1>1, DomainFinite, SumType
<1>4. family \in {"v4", "v6"}
  BY DEF CidrInv
<1>5. PICK u \in Nat \ {0} : u = UsizeMax[family] + 1 /\ (family = "v4" => AllOnes + 1 <= u)
  <2>1. CASE family = "v4"
    BY <2>1, WordFinite
  <2>2. CASE family = "v6"
    BY <2>2, WordFinite
  <2> QED BY <1>4, <2>1, <2>2
<1>6. PICK t \in Nat : t = TotalIps /\ t <= sum /\ (sum < u => t = sum)
  BY <1>2, <1>3, <1>5, RestIsNoMore
<1>7. Addresses = CoveredBy(D) /\ D \in SUBSET D
  BY DEF Addresses, CoveredBy
<1>8. PICK n \in Nat : n = Cardinality(Addresses) /\ CoveredCounts(D)[D] = n
  <2>1. CoveredCounts(D)[D] = Cardinality(CoveredBy(D))
    BY <1>7 DEF CoveredCounts
  <2> QED BY <1>7, <2>1, CoveredFinite
<1>9. PICK k \in Nat : k = Len(spans) /\ ShortCounts(D)[D] = n - k
  <2>1. ShortCounts(D)[D] = Cardinality(CoveredBy(D)) - Cardinality(D)
    BY <1>7 DEF ShortCounts
  <2> QED BY <1>7, <1>8, <2>1, DomainFinite, SpansAre
<1>10. CASE family = "v4"
  <2>1. \A x \in D : f[x] <= CoveredCounts(D)[{x}]
    BY <1>1, <1>10, SingletonCovered, CountBounds
  <2>2. /\ sum <= n
        /\ (\A x \in D : f[x] = CoveredCounts(D)[{x}]) => sum = n
    <3> DEFINE c == CoveredCounts(D)
    <3>1. AddsUp(D, c) /\ IsFiniteSet(D) /\ c[D] = n /\ \A x \in D : f[x] <= c[{x}]
      BY <1>8, <2>1, CoveredAddsUp, DomainFinite
    <3> HIDE DEF c, D
    <3>2. /\ SumFunction(f) <= c[D]
          /\ (\A x \in D : f[x] = c[{x}]) => SumFunction(f) = c[D]
      BY <1>1, <3>1, SumCompared, Zenon
    <3> QED BY <1>3, <3>1, <3>2 DEF c
  <2>3. ASSUME Addresses # Word PROVE t = n
    <3>1. \A x \in D : f[x] = CoveredCounts(D)[{x}]
      BY <1>1, <1>10, <2>3, SingletonCovered, CountBounds
    <3>2. sum = n
      BY <2>2, <3>1
    <3>3. n < AllOnes + 1
      <4>1. Addresses \subseteq Word /\ IsFiniteSet(Addresses)
        BY <1>7, CoveredFinite
      <4>2. Cardinality(Addresses) <= Cardinality(Word)
        BY <4>1, WordFinite, FS_Subset
      <4>3. Cardinality(Addresses) # Cardinality(Word)
        BY <2>3, <4>1, WordFinite, FS_Subset
      <4> QED BY <1>8, <4>2, <4>3, WordFinite
    <3> QED BY <1>5, <1>6, <1>10, <3>2, <3>3, WordFinite
  <2> QED BY <1>6, <1>8, <1>10, <2>2, <2>3
<1>11. CASE family = "v6"
  <2>1. \A x \in D : f[x] <= ShortCounts(D)[{x}]
    BY <1>1, <1>11, SingletonCovered, CountBounds
  <2>2. sum <= n - k
    <3> DEFINE c == ShortCounts(D)
    <3>1. AddsUp(D, c) /\ IsFiniteSet(D) /\ c[D] = n - k /\ \A x \in D : f[x] <= c[{x}]
      BY <1>9, <2>1, ShortAddsUp, DomainFinite
    <3> HIDE DEF c, D
    <3>2. SumFunction(f) <= c[D]
      BY <1>1, <3>1, SumCompared, Zenon
    <3> QED BY <1>3, <3>1, <3>2
  <2>3. t + k <= n /\ t <= n
    BY <1>6, <1>8, <1>9, <2>2
  <2> QED BY <1>6, <1>8, <1>9, <1>11, <2>3
<1> QED BY <1>4, <1>10, <1>11

(* Ranges are the blocks they are asked for, are scanned from end to end   *)
(* and are counted no higher than they are (from_cidr, IpRangeIterator and *)
(* count_total_ips), for every width of a word and number of ranges.       *)
THEOREM RangesAreSound == CidrSpec => []RangesSound
<1>1. CidrInv => RangesSound
  BY CidrInvTypes, CidrInvScans, CidrInvCounts, BoundsAreBlock DEF RangesSound
<1> QED BY <1>1, CidrInvHolds, PTL

(* The /0 of a release build, where the shift by the width does nothing,    *)
(* is the one address it is written with.                                  *)
THEOREM ZeroPrefixIsOneAddress ==
  \A ip \in Word : CidrBounds(ip, 0) = [start |-> ip, end |-> ip]
<1> TAKE ip \in Word
<1>1. 0 \in 0 .. W /\ HostBits(0) = 0 /\ ip \in Nat
  BY BitSetFinite, WordsAre DEF HostBits
<1>2. PICK p \in Nat : p = 1 /\ p = 2^HostBits(0)
  BY <1>1, PowerZero
<1>3. PICK q \in Nat : /\ ip \div p = q
                       /\ CidrBounds(ip, 0) = [start |-> p * q, end |-> p * q + (p - 1)]
  BY <1>1, <1>2, BoundsAre
<1>4. p * q = q /\ q + (p - 1) = q /\ ip = q
  BY <1>1, <1>2, <1>3
<1> QED BY <1>3, <1>4
=============================================================================

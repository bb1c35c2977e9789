------------------------------- MODULE IpPool -------------------------------
(***************************************************************************)
(* plugins/scheduler/core-libs/src/ip/mod.rs: struct IpPool.  The pool     *)
(* keeps the bindings of the allocated addresses and three indices that    *)
(* its lookups and releases trust.  Addresses are numbers of one family    *)
(* (contains() never matches across families).  A HashMap is a function    *)
(* whose value is NoIp or NoBinding where the key is absent; the Vec<IpAddr>*)
(* of a subinstance is the multiset of its elements (their order only      *)
(* decides in which order release_by_subinstance lists what it freed).     *)
(***************************************************************************)
EXTENDS Integers, Sequences, FiniteSets

CONSTANTS
  MaxAddr,      \* the largest address: 2^32-1 or 2^128-1 in the code
  SubInstance,  \* tenants
  SubId,        \* identifiers inside a tenant
  Resource,     \* "<type>:<identifier>" keys of ResourceType values
  RangeInput,   \* the ranges a caller may add
  MaxRanges,    \* bound of the model on the number of ranges
  NoIp,         \* an index has no entry
  NoBinding     \* an address is not allocated

Addr == 0 .. MaxAddr

(* IpRange::new and from_cidr only build ranges with start <= end. *)
IpRange == {r \in [start : Addr, end : Addr] : r.start <= r.end}

Binding == [subinstance : SubInstance, subid : SubId, subtype : Resource]

Key == SubInstance \X SubId

ASSUME IpPoolAssumption ==
  /\ MaxAddr \in Nat
  /\ MaxRanges \in Nat
  /\ RangeInput \subseteq IpRange
  /\ NoIp \notin Addr
  /\ NoBinding \notin Binding \cup Key

VARIABLES
  ranges,             \* Vec<IpRange>
  allocated,          \* HashMap<IpAddr, IpBinding>
  reserved,           \* HashSet<IpAddr>
  subinstance_index,  \* HashMap<String, Vec<IpAddr>>: how often each occurs
  subid_index,        \* HashMap<(String, String), IpAddr>
  resource_index      \* HashMap<String, IpAddr>

poolVars == <<ranges, allocated, reserved, subinstance_index, subid_index, resource_index>>
bindVars == <<allocated, subinstance_index, subid_index, resource_index>>

KeyOf(b) == <<b.subinstance, b.subid>>

Allocated == {a \in Addr : allocated[a] # NoBinding}

-----------------------------------------------------------------------------
RangeContains(r, a) == r.start <= a /\ a <= r.end

InPool(a) == \E i \in DOMAIN ranges : RangeContains(ranges[i], a)

(* Mistake: reserved addresses are handed out. *)
UsableIfReserved(a) == a \notin Allocated

Usable(a) == a \notin Allocated /\ a \notin reserved

(* find_available_ip: ranges in the order they were added, the addresses of *)
(* a range in ascending order, the first one neither allocated nor reserved.*)
IsFirstFit(a) ==
  \E i \in DOMAIN ranges :
    /\ RangeContains(ranges[i], a) /\ Usable(a)
    /\ \A b \in Addr : RangeContains(ranges[i], b) /\ Usable(b) => a <= b
    /\ \A j \in 1 .. i-1 : \A b \in Addr : RangeContains(ranges[j], b) => ~Usable(b)

PoolFull == \A a \in Addr : InPool(a) => ~Usable(a)

(* The insertions shared by allocate and allocate_specific. *)
Bind(ip, si, sid, r) ==
  /\ allocated' = [allocated EXCEPT ![ip] =
                     [subinstance |-> si, subid |-> sid, subtype |-> r]]
  /\ subinstance_index' = [subinstance_index EXCEPT ![si][ip] = @ + 1]
  /\ subid_index' = [subid_index EXCEPT ![<<si, sid>>] = ip]
  /\ resource_index' = [resource_index EXCEPT ![r] = ip]
  /\ UNCHANGED <<ranges, reserved>>

(* Mistakes: every list shrinks, or none does; the entry of the key, or of *)
(* the resource, stays.                                                    *)
ListsShrunk(S, dropped) ==
  [s \in SubInstance |-> [a \in Addr |-> subinstance_index[s][a] - IF a \in S THEN 1 ELSE 0]]

ListsKept(S, dropped) == subinstance_index
KeysKept(S) == subid_index
ResourcesKept(S) == resource_index

(* Releasing the addresses S: each leaves the list of its subinstance, the *)
(* lists of the subinstances in dropped go altogether, and the entries of  *)
(* its key and of its resource are removed WHATEVER address they hold.     *)
ListsWithout(S, dropped) ==
  [s \in SubInstance |-> [a \in Addr |->
     IF s \in dropped \/ (a \in S /\ allocated[a].subinstance = s)
     THEN 0 ELSE subinstance_index[s][a]]]

KeysWithout(S) ==
  [k \in Key |-> IF \E a \in S : KeyOf(allocated[a]) = k THEN NoIp ELSE subid_index[k]]

ResourcesWithout(S) ==
  [r \in Resource |-> IF \E a \in S : allocated[a].subtype = r THEN NoIp ELSE resource_index[r]]

(* release_by_ip for each of the allocated addresses S. *)
Unbind(S, dropped) ==
  /\ allocated' = [a \in Addr |-> IF a \in S THEN NoBinding ELSE allocated[a]]
  /\ subinstance_index' = ListsWithout(S, dropped)
  /\ subid_index' = KeysWithout(S)
  /\ resource_index' = ResourcesWithout(S)
  /\ UNCHANGED <<ranges, reserved>>

-----------------------------------------------------------------------------
(* IpPool::new *)
Init ==
  /\ ranges = <<>>
  /\ reserved = {}
  /\ allocated = [a \in Addr |-> NoBinding]
  /\ subinstance_index = [s \in SubInstance |-> [a \in Addr |-> 0]]
  /\ subid_index = [k \in Key |-> NoIp]
  /\ resource_index = [r \in Resource |-> NoIp]

AddRange(r) ==
  /\ Len(ranges) < MaxRanges
  /\ ranges' = Append(ranges, r)
  /\ UNCHANGED <<reserved, bindVars>>

(* No check against the allocated addresses, nor against the ranges. *)
ReserveIp(a) ==
  /\ reserved' = reserved \cup {a}
  /\ UNCHANGED <<ranges, bindVars>>

UnreserveIp(a) ==
  /\ reserved' = reserved \ {a}
  /\ UNCHANGED <<ranges, bindVars>>

(* Mistake: the key is not looked up first. *)
AllocateAlways(si, sid, r) ==
  \/ PoolFull /\ UNCHANGED poolVars
  \/ \E ip \in Addr : IsFirstFit(ip) /\ Bind(ip, si, sid, r)

(* allocate: the address already indexed for the key is returned as it is; *)
(* otherwise the first fit is bound, or the pool is full.                  *)
Allocate(si, sid, r) ==
  \/ /\ subid_index[<<si, sid>>] # NoIp \/ PoolFull
     /\ UNCHANGED poolVars
  \/ /\ subid_index[<<si, sid>>] = NoIp
     /\ \E ip \in Addr : IsFirstFit(ip) /\ Bind(ip, si, sid, r)

(* Mistakes: the ranges, or the bindings, are not consulted. *)
AllocateAnywhere(ip, si, sid, r) ==
  IF Usable(ip) THEN Bind(ip, si, sid, r) ELSE UNCHANGED poolVars

AllocateOverBinding(ip, si, sid, r) ==
  IF InPool(ip) /\ ip \notin reserved THEN Bind(ip, si, sid, r) ELSE UNCHANGED poolVars

(* allocate_specific: IpNotFound, IpAlreadyAllocated and IpNotAvailable    *)
(* leave the pool as it is.  Unlike allocate it never looks at subid_index.*)
AllocateSpecific(ip, si, sid, r) ==
  IF InPool(ip) /\ Usable(ip)
  THEN Bind(ip, si, sid, r)
  ELSE UNCHANGED poolVars

ReleaseByIp(ip) ==
  IF ip \in Allocated
  THEN Unbind({ip}, {})
  ELSE UNCHANGED poolVars

ReleaseBySubid(si, sid) ==
  IF subid_index[<<si, sid>>] # NoIp
  THEN ReleaseByIp(subid_index[<<si, sid>>])
  ELSE UNCHANGED poolVars

(* The list is copied, each of its addresses is released (those that are   *)
(* not allocated are passed over), and the list itself is dropped.         *)
Listed(si) == {a \in Addr : subinstance_index[si][a] > 0}

(* Mistake: the list is dropped before it is read. *)
DropListFirst(si) == Unbind({}, {si})

ReleaseBySubinstance(si) == Unbind(Listed(si) \cap Allocated, {si})

-----------------------------------------------------------------------------
Configure ==
  \/ \E r \in RangeInput : AddRange(r)
  \/ \E a \in Addr : ReserveIp(a) \/ UnreserveIp(a)

Release ==
  \/ \E ip \in Addr : ReleaseByIp(ip)
  \/ \E si \in SubInstance : ReleaseBySubinstance(si)
  \/ \E si \in SubInstance, sid \in SubId : ReleaseBySubid(si, sid)

Next ==
  \/ Configure
  \/ Release
  \/ \E si \in SubInstance, sid \in SubId, r \in Resource : Allocate(si, sid, r)
  \/ \E ip \in Addr, si \in SubInstance, sid \in SubId, r \in Resource :
       AllocateSpecific(ip, si, sid, r)

Spec == Init /\ [][Next]_poolVars

(* The scheduler's own use of the pool (IpPoolManager): addresses are      *)
(* chosen by allocate only.                                                *)
NextFirstFit ==
  \/ Configure
  \/ Release
  \/ \E si \in SubInstance, sid \in SubId, r \in Resource : Allocate(si, sid, r)

SpecFirstFit == Init /\ [][NextFirstFit]_poolVars

-----------------------------------------------------------------------------
(* Every variable has the type its Rust field has. *)
TypeOK ==
  /\ ranges \in Seq(IpRange)
  /\ allocated \in [Addr -> Binding \cup {NoBinding}]
  /\ reserved \subseteq Addr
  /\ subinstance_index \in [SubInstance -> [Addr -> Nat]]
  /\ subid_index \in [Key -> Addr \cup {NoIp}]
  /\ resource_index \in [Resource -> Addr \cup {NoIp}]

(* What find_by_subid returns is allocated, and to that very key: without  *)
(* it allocate would hand a tenant the address of another one, and         *)
(* release_by_subid would free it under its feet.                          *)
SubidIndexSound ==
  \A k \in Key : subid_index[k] # NoIp =>
    /\ subid_index[k] \in Allocated
    /\ KeyOf(allocated[subid_index[k]]) = k

(* What find_by_resource returns is allocated and bound to that resource.  *)
ResourceIndexSound ==
  \A r \in Resource : resource_index[r] # NoIp =>
    /\ resource_index[r] \in Allocated
    /\ allocated[resource_index[r]].subtype = r

(* The list of a subinstance holds each of the addresses allocated to it   *)
(* once, and nothing else: release_by_subinstance and list_by_subinstance  *)
(* look nowhere else.                                                      *)
SubinstanceIndexExact ==
  \A s \in SubInstance, a \in Addr :
    subinstance_index[s][a] =
      IF a \in Allocated /\ allocated[a].subinstance = s THEN 1 ELSE 0

(* Only addresses of some range are allocated. *)
AllocatedInPool == \A a \in Allocated : InPool(a)

(* What all lookups and releases rely on, in any order of the calls. *)
BookkeepingSound ==
  TypeOK /\ SubidIndexSound /\ ResourceIndexSound /\ SubinstanceIndexExact /\ AllocatedInPool

(* "Allocating with same subinstance+subid returns the same IP": allocate   *)
(* grants nothing to a key that already holds an address.                  *)
AllocateReturnsSameIp ==
  [][\A si \in SubInstance, sid \in SubId, r \in Resource :
       /\ Allocate(si, sid, r)
       /\ \E a \in Allocated : KeyOf(allocated[a]) = <<si, sid>>
       => UNCHANGED allocated]_poolVars

(* As long as allocate alone chooses addresses, a key holds at most one,   *)
(* and subid_index finds it.                                               *)
OneIpPerKey ==
  \A a \in Allocated : subid_index[KeyOf(allocated[a])] = a

(* release_by_subinstance frees every address of the tenant and none of    *)
(* any other tenant.                                                       *)
SubinstanceReleaseExact ==
  [][\A si \in SubInstance : ReleaseBySubinstance(si) =>
       \A a \in Allocated :
         (allocated'[a] = NoBinding) <=> (allocated[a].subinstance = si)]_poolVars

-----------------------------------------------------------------------------
(* What the pool promises: the lease of an address is its binding's key.   *)
Leases == INSTANCE IpLease WITH
  Address <- Addr, Group <- SubInstance, Member <- SubId, NoOwner <- NoBinding,
  pool <- {a \in Addr : InPool(a)},
  reserved <- reserved,
  owner <- [a \in Addr |-> IF a \in Allocated THEN KeyOf(allocated[a]) ELSE NoBinding]

(* Every operation of the pool is a step of the abstract lease table. *)
ImplementsLeases == Leases!LeaseSpec

(* No address passes to another owner without being free in between. *)
NoTakeover == Leases!NoTakeover
=============================================================================

------------------------------ MODULE IpLease ------------------------------
(***************************************************************************)
(* What an IP pool promises its tenants, with none of the indices that     *)
(* core-libs/src/ip/mod.rs keeps to answer quickly: every address has at   *)
(* most one owner, an owner is given only addresses of the pool that are   *)
(* neither owned nor reserved, and an address changes hands only by being  *)
(* released first.  IpPool.tla implements this specification.              *)
(***************************************************************************)

CONSTANTS
  Address,   \* addresses of one family, IPv4 or IPv6
  Group,     \* the tenants ("subinstance" in the code)
  Member,    \* the members of a tenant ("subid")
  NoOwner    \* not an owner: the address is free

Owner == Group \X Member

VARIABLES
  pool,      \* the addresses that may be leased
  reserved,  \* the addresses that must not be leased
  owner      \* who holds each address

leaseVars == <<pool, reserved, owner>>

LeaseTypeOK ==
  /\ pool \subseteq Address
  /\ reserved \subseteq Address
  /\ owner \in [Address -> Owner \cup {NoOwner}]

LeaseInit ==
  /\ pool = {}
  /\ reserved = {}
  /\ owner = [a \in Address |-> NoOwner]

-----------------------------------------------------------------------------
Extend(S) ==
  /\ pool' = pool \cup S
  /\ UNCHANGED <<reserved, owner>>

SetReserved(S) ==
  /\ reserved' = S
  /\ UNCHANGED <<pool, owner>>

Lease(a, o) ==
  /\ a \in pool \ reserved
  /\ owner[a] = NoOwner
  /\ owner' = [owner EXCEPT ![a] = o]
  /\ UNCHANGED <<pool, reserved>>

GiveBack(a) ==
  /\ owner' = [owner EXCEPT ![a] = NoOwner]
  /\ UNCHANGED <<pool, reserved>>

(* A tenant leaves: every address it holds is freed, and no other one. *)
GiveBackGroup(g) ==
  /\ owner' = [a \in Address |->
                 IF owner[a] \in {g} \X Member THEN NoOwner ELSE owner[a]]
  /\ UNCHANGED <<pool, reserved>>

LeaseNext ==
  \/ \E S \in SUBSET Address : Extend(S) \/ SetReserved(S)
  \/ \E a \in Address : GiveBack(a) \/ \E o \in Owner : Lease(a, o)
  \/ \E g \in Group : GiveBackGroup(g)

LeaseSpec == LeaseInit /\ [][LeaseNext]_leaseVars

-----------------------------------------------------------------------------
(* An address never passes from one owner to another without being free in *)
(* between, whatever the pool's operations are interleaved with.           *)
NoTakeover ==
  [][\A a \in Address : owner[a] # NoOwner => owner'[a] \in {owner[a], NoOwner}]_leaseVars
=============================================================================

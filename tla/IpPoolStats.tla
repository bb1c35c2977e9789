---------------------------- MODULE IpPoolStats ----------------------------
(* IpPool::stats, the figures that the load tester prints.                 *)
EXTENDS IpPool, Functions

(* count_total_ips for IPv4: a range counts all of its addresses, the      *)
(* network and broadcast ones too, and an address of two ranges counts     *)
(* twice.                                                                  *)
CountTotalIps == SumFunction([i \in DOMAIN ranges |-> ranges[i].end - ranges[i].start + 1])

SaturatingSub(x, y) == IF x < y THEN 0 ELSE x - y

(* Mistake: reserved addresses count as available. *)
AvailableIfReserved == SaturatingSub(CountTotalIps, Cardinality(Allocated))

StatsAvailable ==
  SaturatingSub(SaturatingSub(CountTotalIps, Cardinality(Allocated)), Cardinality(reserved))

-----------------------------------------------------------------------------
FreeIps == {a \in Addr : InPool(a) /\ Usable(a)}

RangesDisjoint ==
  \A i, j \in DOMAIN ranges : i # j =>
    \A a \in Addr : ~(RangeContains(ranges[i], a) /\ RangeContains(ranges[j], a))

CoveredIps == {a \in Addr : InPool(a)}

(* How often count_total_ips counts an address that it has counted before. *)
CountedAgain == CountTotalIps - Cardinality(CoveredIps)

(* The figure "available" of IpPool::stats exceeds the number of addresses *)
(* that allocate could give by no more than the addresses counted again    *)
(* where ranges overlap, and not at all while no ranges do.  That holds    *)
(* whatever was reserved: a reserved address that is allocated, or lies    *)
(* outside every range, only makes the figure smaller.                     *)
StatsConservative ==
  /\ StatsAvailable <= Cardinality(FreeIps) + CountedAgain
  /\ RangesDisjoint => StatsAvailable <= Cardinality(FreeIps)
=============================================================================

------------------------------ MODULE MCIpPool ------------------------------
(* Three addresses, two tenants of two members each, two resources.        *)
EXTENDS IpPoolStats, TLC

CONSTANTS t1, t2, u1, u2, r1, r2

MCSubInstance == {t1, t2}
MCSubId == {u1, u2}
MCResource == {r1, r2}

(* One range with every address; or ranges of which some overlap in the    *)
(* middle address or the last, and two do not.                             *)
MCWholeRange == {[start |-> 0, end |-> 2]}
MCSomeRanges ==
  {[start |-> 0, end |-> 1], [start |-> 1, end |-> 2], [start |-> 2, end |-> 2]}

Symmetry ==
  Permutations(MCSubInstance) \cup Permutations(MCSubId) \cup Permutations(MCResource)
=============================================================================

----------------------------- MODULE MCLoadTest -----------------------------
(***************************************************************************)
(* A load test of three or four users of two tenants on two workers, run   *)
(* by the program or by the WASM component; and, in behaviours of its own, *)
(* the arithmetic of the ranges that its pools are made of.  The used pool *)
(* is defined twice, the second time with the addresses 0 and 1; address 2 *)
(* belongs to another pool.                                                *)
(***************************************************************************)
EXTENDS LoadTestSequential, CidrRange

CONSTANTS t1, t2, p1, p2, http

VARIABLE part  \* what a behaviour is about: "load" or "cidr"

partVars == <<part, eitherVars, cidrVars>>

(* Words of three bits, in which usize has six or two. *)
MCUsizeMax == [v4 |-> 63, v6 |-> 3]

MCTenants == {t1, t2}
MCPools == {p1, p2}
MCHttp == {http}
MCUserIds == 1 .. 4
MCUser == <<t1, t1, t2, t1>>

Block(from, to) == [start |-> from, end |-> to]

PoolDefs ==
  <<[id |-> p1, ranges |-> <<Block(2, 2)>>],
    [id |-> p2, ranges |-> <<Block(2, 2)>>],
    [id |-> p1, ranges |-> <<Block(0, 0), Block(0, 1)>>]>>

BadDefs == <<[id |-> p1, ranges |-> <<Block(0, 0), BadRange>>]>>

Configs(defs, enabled, strategies, endless) ==
  [ip_pools : {defs}, pool_id : {p1}, enabled : enabled, strategy : strategies,
   think_time : {TRUE}, endless : endless]

MCConfigInput ==
  Configs(PoolDefs, {TRUE}, {"per_user", "shared", "per_task"}, {{}})
  \cup Configs(PoolDefs, {TRUE}, {"per_user"}, {{2}, {2, 3}})
  \cup Configs(BadDefs, BOOLEAN, {"per_user"}, {{}})
  \cup Configs(<<>>, BOOLEAN, {"per_user"}, {{}})
  \cup {[c EXCEPT !.think_time = FALSE] : c \in Configs(PoolDefs, BOOLEAN, {"per_user"}, {{}})}

-----------------------------------------------------------------------------
(* The part that a behaviour is not about stays in one state. *)
PartInit ==
  /\ EitherInit /\ CidrInit
  /\ \/ part = "load" /\ family = "v4" /\ build = "debug"
     \/ part = "cidr" /\ wasm = FALSE /\ config = CHOOSE c \in ConfigInput : TRUE

PartNext ==
  \/ part = "load" /\ EitherNext /\ UNCHANGED <<part, cidrVars>>
  \/ part = "cidr" /\ CidrNext /\ UNCHANGED <<part, eitherVars>>

(* The fairness of main.rs and of a scan, as their modules state it. *)
Native(A) == part = "load" /\ ~wasm /\ A /\ UNCHANGED <<part, wasm, cidrVars>>

PartSpec ==
  /\ PartInit /\ [][PartNext]_partVars
  /\ WF_partVars(Native(Main))
  /\ \A u \in SubId : WF_partVars(Native(Task(u)))
  /\ WF_partVars(part = "cidr" /\ Scan /\ UNCHANGED <<part, eitherVars>>)

-----------------------------------------------------------------------------
(* A queued user waits for endless users only, and without one that runs   *)
(* the load test of main.rs ends.  A scan of the pool's ranges ends.       *)
LoadProgress ==
  /\ part = "load" /\ ~wasm => StarvedOnlyByEndless /\ EndsUnlessEndless
  /\ ScanEnds
=============================================================================

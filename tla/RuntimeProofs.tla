------------------------- MODULE RuntimeProofs ------------------------------
(***************************************************************************)
(* What is proved of the small components around the runtime, in this      *)
(* order: the state file of the build script vouches for builds only; the  *)
(* selects of the reactor find their own pollables; the registry holds the *)
(* timers that nobody cancelled; the socks of the early plugins keep one   *)
(* connection.  Each proof is an invariant of its component alone.         *)
(***************************************************************************)
EXTENDS PluginBuild, Reactor, TimerRegistry, CoreSock, FiniteSetTheorems, TLAPS

(***************************************************************************)
(* The build script.  The proof follows a hash from the directory to the   *)
(* file: versions are new when they are given, so an edit makes every hash *)
(* taken before it stale; and while the script runs, the hash of a plugin  *)
(* that is not, or no longer, to be built is the hash of something built.  *)
(***************************************************************************)

(* A hash that is the present one belongs to something that was built, or  *)
(* to a plugin that a disabled run passed over.                            *)
Vouched(hash, p) ==
  hash[p] = tree[p] /\ tree[p] # 0 => built[p] = tree[p] \/ p \in skipped

(* No hash is ahead of the versions that were given. *)
NotAhead ==
  \A p \in Plugin : tree[p] <= version /\ recorded[p] <= version /\ hashes[p] <= version

(* The hashes of a run that may be written. *)
HashesVouched == phase # "idle" => \A p \in Plugin \ changed : Vouched(hashes, p)

AllBuiltAtWrite == phase = "write" => changed = {}

BuildInv == BuildTypeOK /\ NotAhead /\ HashesVouched /\ AllBuiltAtWrite /\ RecordedMeansBuilt

-----------------------------------------------------------------------------
LEMMA PluginOfLine == ASSUME NEW i \in 1 .. Len(Plugins) PROVE Plugins[i] \in Plugin
  BY PluginBuildAssumption DEF Plugin

LEMMA BuildBounds == Len(Plugins) \in Nat /\ MaxVersion \in Nat \ {0} /\ MaxFaults \in Nat
  BY PluginBuildAssumption

LEMMA NoHashesTyped == NoHashes \in Hashes
  BY BuildBounds DEF NoHashes, Hashes

LEMMA BuildInitTyped == BuildInit => BuildTypeOK
<1>1. BuildInit => 0 \in 0 .. MaxVersion /\ 1 \in 0 .. MaxVersion /\ 0 \in 0 .. MaxFaults
                   /\ 1 \in 1 .. Len(Plugins) + 1
  BY BuildBounds
<1>2. BuildInit => tree \in Hashes
  BY <1>1 DEF BuildInit, Hashes
<1> QED BY <1>1, <1>2, NoHashesTyped DEF BuildInit, BuildTypeOK

(* What the variables of the script are when it has ended.                 *)
LEMMA EndedTyped ==
  ASSUME Ended
  PROVE  /\ phase' = "idle" /\ disabled' \in BOOLEAN /\ hashes' \in Hashes
         /\ changed' \subseteq Plugin /\ line' \in 1 .. Len(Plugins) + 1
<1>1. 1 \in 1 .. Len(Plugins) + 1
  BY BuildBounds
<1> QED BY <1>1, NoHashesTyped DEF Ended

LEMMA WarnTyped == ASSUME BuildTypeOK, Warn, UNCHANGED <<tree, version, built, skipped, cargo>> PROVE BuildTypeOK'
<1>1. unseen' \subseteq Plugin /\ faults' \in 0 .. MaxFaults
  BY BuildBounds DEF Warn, Fault, BuildTypeOK
<1> QED BY <1>1, EndedTyped DEF Warn, cargo, BuildTypeOK

LEMMA BuildStepTyped == BuildTypeOK /\ [BuildNext]_buildVars => BuildTypeOK'
<1> SUFFICES ASSUME BuildTypeOK, [BuildNext]_buildVars PROVE BuildTypeOK'
  OBVIOUS
<1> USE BuildBounds
<1>1. ASSUME NEW p \in Plugin, Edit(p) PROVE BuildTypeOK'
  <2>1. unseen' \subseteq Plugin /\ due' \in BOOLEAN
    BY <1>1 DEF Edit, Seen, NotSeen, BuildTypeOK
  <2>2. tree' \in Hashes /\ version' \in 0 .. MaxVersion
    BY <1>1 DEF Edit, BuildTypeOK, Hashes
  <2> QED BY <1>1, <2>1, <2>2 DEF Edit, BuildTypeOK, script
<1>2. ASSUME NEW p \in Plugin, Delete(p) PROVE BuildTypeOK'
  <2>1. unseen' \subseteq Plugin /\ due' \in BOOLEAN
    BY <1>2 DEF Delete, Seen, NotSeen, BuildTypeOK
  <2> QED BY <1>2, <2>1 DEF Delete, BuildTypeOK, Hashes, script
<1>3. CASE Begin
  <2>1. PICK files \in FilesToWatch, old \in ReadState, new \in HashDirs :
          /\ faults' = faults \/ Fault
          /\ watched' = files /\ hashes' = new /\ changed' = {p \in Plugin : old[p] # new[p]}
          /\ unseen' = {p \in Plugin : new[p] # tree[p]}
    BY <1>3 DEF Begin
  <2>2. new \in Hashes
    <3>1. tree \in Hashes /\ \A p \in Plugin : [tree EXCEPT ![p] = 0] \in Hashes
      BY DEF Hashes, BuildTypeOK
    <3> QED BY <3>1 DEF HashDirs
  <2>3. faults' \in 0 .. MaxFaults
    BY <2>1 DEF Fault, BuildTypeOK
  <2>4. watched' \subseteq Plugin /\ unseen' \subseteq Plugin /\ changed' \subseteq Plugin
    BY <2>1 DEF FilesToWatch, Present
  <2>5. 1 \in 1 .. Len(Plugins) + 1
    OBVIOUS
  <2>6. /\ phase' = "build" /\ disabled' \in BOOLEAN /\ due' = FALSE /\ line' = 1
        /\ UNCHANGED <<tree, version, built, skipped, recorded>>
    BY <1>3 DEF Begin
  <2> QED BY <2>1, <2>2, <2>3, <2>4, <2>5, <2>6 DEF BuildTypeOK
<1>4. CASE Build
  <2>1. PICK p \in changed : Skip(p) \/ Succeed(p) \/ Fail(p)
    BY <1>4 DEF Build
  <2>2. p \in Plugin
    BY DEF BuildTypeOK
  <2>3. CASE Skip(p)
    BY <1>4, <2>2, <2>3 DEF Build, Skip, GoOn, BuildTypeOK
  <2>4. CASE Succeed(p)
    BY <1>4, <2>2, <2>4 DEF Build, Succeed, GoOn, BuildTypeOK, Hashes
  <2>5. CASE Fail(p)
    BY <1>4, <2>2, <2>5, EndedTyped DEF Build, Fail, Fault, BuildTypeOK
  <2> QED BY <2>1, <2>3, <2>4, <2>5
<1>5. CASE CreateFile
  <2>1. CASE Warn
    BY <1>5, <2>1, WarnTyped DEF CreateFile
  <2>2. CASE ~Warn
    BY <1>5, <2>2, NoHashesTyped DEF CreateFile, cargo, BuildTypeOK
  <2> QED BY <2>1, <2>2
<1>6. CASE WriteLine
  <2>1. CASE Warn
    BY <1>6, <2>1, WarnTyped DEF WriteLine
  <2>2. CASE Ended /\ UNCHANGED <<recorded, faults, unseen>>
    BY <1>6, <2>2, EndedTyped DEF WriteLine, cargo, BuildTypeOK
  <2>3. CASE /\ line <= Len(Plugins)
             /\ recorded' = [recorded EXCEPT ![Plugins[line]] = hashes[Plugins[line]]]
             /\ line' = line + 1 /\ UNCHANGED <<phase, disabled, hashes, changed, faults, unseen>>
    <3>1. Plugins[line] \in Plugin
      BY <2>3, PluginOfLine DEF BuildTypeOK
    <3>2. recorded' \in Hashes
      BY <2>3, <3>1 DEF BuildTypeOK, Hashes
    <3>3. line' \in 1 .. Len(Plugins) + 1
      BY <2>3 DEF BuildTypeOK
    <3> QED BY <1>6, <2>3, <3>2, <3>3 DEF WriteLine, cargo, BuildTypeOK
  <2> QED BY <1>6, <2>1, <2>2, <2>3 DEF WriteLine
<1>7. CASE Kill
  BY <1>7, EndedTyped DEF Kill, Fault, history, BuildTypeOK
<1>8. CASE UNCHANGED buildVars
  BY <1>8 DEF buildVars, script, cargo, history, BuildTypeOK
<1> QED BY <1>1, <1>2, <1>3, <1>4, <1>5, <1>6, <1>7, <1>8 DEF BuildNext, Steps

(* Every variable of the script and the file keeps its type, for any       *)
(* sequence of plugins and any number of edits and faults.                 *)
THEOREM BuildTyping == BuildSpec => []BuildTypeOK
  BY BuildInitTyped, BuildStepTyped, PTL DEF BuildSpec

-----------------------------------------------------------------------------
LEMMA InitVouched == BuildInit => BuildInv
<1> SUFFICES ASSUME BuildInit PROVE BuildInv
  OBVIOUS
<1>1. \A p \in Plugin : NoHashes[p] = 0 /\ tree[p] \in {0, 1}
  BY DEF BuildInit, NoHashes
<1>2. NotAhead
  BY <1>1 DEF BuildInit, NotAhead
<1>3. HashesVouched /\ AllBuiltAtWrite /\ RecordedMeansBuilt
  BY <1>1 DEF BuildInit, HashesVouched, AllBuiltAtWrite, RecordedMeansBuilt
<1> QED BY <1>2, <1>3, BuildInitTyped DEF BuildInv

(* When the script ends, its hashes go.                                    *)
LEMMA EndedKeepsInv ==
  ASSUME BuildInv, Ended, UNCHANGED <<tree, version, built, recorded, skipped>>, BuildTypeOK'
  PROVE  BuildInv'
<1> USE DEF BuildInv
<1>1. \A p \in Plugin : hashes'[p] = 0 /\ hashes[p] \in Nat /\ version \in Nat
  BY BuildBounds DEF Ended, NoHashes, BuildTypeOK, Hashes
<1>2. NotAhead'
  BY <1>1 DEF NotAhead
<1>3. HashesVouched' /\ AllBuiltAtWrite' /\ RecordedMeansBuilt'
  BY DEF Ended, HashesVouched, AllBuiltAtWrite, RecordedMeansBuilt
<1> QED BY <1>2, <1>3

(* An edit gives a version that no hash has; a deletion makes no hash the  *)
(* present one of a directory that exists.                                 *)
LEMMA FilesKeepInv ==
  ASSUME BuildInv, NEW p \in Plugin, Edit(p) \/ Delete(p), BuildTypeOK' PROVE BuildInv'
<1> USE BuildBounds DEF BuildInv, BuildTypeOK, Hashes
<1>1. CASE Edit(p)
  <2>1. \A q \in Plugin : tree'[q] = IF q = p THEN version + 1 ELSE tree[q]
    BY <1>1 DEF Edit
  <2>2. NotAhead'
    BY <1>1, <2>1 DEF Edit, NotAhead, script
  <2>3. \A q \in Plugin : Vouched(hashes, q) => Vouched(hashes, q)'
    BY <1>1, <2>1 DEF Edit, NotAhead, Vouched, script
  <2>4. HashesVouched'
    BY <1>1, <2>3 DEF Edit, HashesVouched, script
  <2>5. RecordedMeansBuilt'
    BY <1>1, <2>1 DEF Edit, NotAhead, RecordedMeansBuilt
  <2> QED BY <1>1, <2>2, <2>4, <2>5 DEF Edit, AllBuiltAtWrite, script
<1>2. CASE Delete(p)
  <2>1. \A q \in Plugin : tree'[q] = IF q = p THEN 0 ELSE tree[q]
    BY <1>2 DEF Delete
  <2>2. NotAhead'
    BY <1>2, <2>1 DEF Delete, NotAhead, script
  <2>3. HashesVouched'
    BY <1>2, <2>1 DEF Delete, HashesVouched, Vouched, script
  <2>4. RecordedMeansBuilt'
    BY <1>2, <2>1 DEF Delete, RecordedMeansBuilt
  <2> QED BY <1>2, <2>2, <2>3, <2>4 DEF Delete, AllBuiltAtWrite, script
<1> QED BY <1>1, <1>2

(* What the comparison finds unchanged was vouched for by the file that it *)
(* read; an empty file vouches for nothing and finds nothing unchanged.    *)
LEMMA BeginKeepsInv == ASSUME BuildInv, Begin, BuildTypeOK' PROVE BuildInv'
<1> USE BuildBounds DEF BuildInv, BuildTypeOK, Hashes
<1>1. PICK old \in ReadState, new \in HashDirs :
        hashes' = new /\ changed' = {p \in Plugin : old[p] # new[p]}
  BY DEF Begin
<1>2. \A p \in Plugin : new[p] = tree[p] \/ new[p] = 0
  <2>1. \A p, q \in Plugin : LET h == [tree EXCEPT ![p] = 0] IN h[q] = tree[q] \/ h[q] = 0
    OBVIOUS
  <2> QED BY <2>1 DEF HashDirs
<1>3. NotAhead'
  <2>1. 0 <= version /\ \A p \in Plugin : tree[p] <= version
    BY DEF NotAhead
  <2> HIDE DEF BuildInv, BuildTypeOK, Hashes
  <2>2. ASSUME NEW p \in Plugin PROVE new[p] <= version
    <3>1. CASE new[p] = tree[p]
      BY <2>1, <3>1
    <3>2. CASE new[p] = 0
      BY <2>1, <3>2
    <3> QED BY <1>2, <3>1, <3>2
  <2>3. UNCHANGED <<tree, version, recorded>> /\ hashes' = new
    BY <1>1 DEF Begin
  <2> QED BY <2>2, <2>3 DEF BuildInv, NotAhead
<1>4. ASSUME NEW p \in Plugin, old[p] = new[p] PROVE Vouched(hashes, p)'
  <2>1. CASE old = recorded
    BY <1>1, <1>4, <2>1 DEF Begin, Vouched, RecordedMeansBuilt
  <2>2. CASE old = NoHashes
    BY <1>1, <1>4, <2>2 DEF Begin, Vouched, NoHashes
  <2> QED BY <2>1, <2>2 DEF ReadState
<1>5. HashesVouched'
  BY <1>1, <1>4 DEF HashesVouched
<1> QED BY <1>3, <1>5 DEF Begin, AllBuiltAtWrite, RecordedMeansBuilt

LEMMA BuildKeepsInv == ASSUME BuildInv, Build, BuildTypeOK' PROVE BuildInv'
<1> USE DEF BuildInv, BuildTypeOK, Hashes
<1>1. PICK p \in changed : Skip(p) \/ Succeed(p) \/ Fail(p)
  BY DEF Build
<1>3. CASE Skip(p)
  <2>1. \A q \in Plugin : Vouched(hashes, q) \/ q = p => Vouched(hashes, q)'
    BY <1>3 DEF Build, Skip, GoOn, Vouched
  <2>2. NotAhead'
    BY <1>3 DEF Build, Skip, GoOn, NotAhead
  <2> QED BY <1>3, <2>1, <2>2
          DEF Build, Skip, GoOn, HashesVouched, AllBuiltAtWrite, RecordedMeansBuilt
<1>4. CASE Succeed(p)
  <2>1. \A q \in Plugin : built'[q] = IF q = p THEN tree[q] ELSE built[q]
    BY <1>4 DEF Build, Succeed
  <2>2. \A q \in Plugin : Vouched(hashes, q) \/ q = p => Vouched(hashes, q)'
    BY <1>4, <2>1 DEF Build, Succeed, GoOn, Vouched
  <2>3. RecordedMeansBuilt'
    BY <1>4, <2>1 DEF Build, Succeed, RecordedMeansBuilt
  <2>4. NotAhead'
    BY <1>4 DEF Build, Succeed, GoOn, NotAhead
  <2> QED BY <1>4, <2>2, <2>3, <2>4 DEF Build, Succeed, GoOn, HashesVouched, AllBuiltAtWrite
<1>5. CASE Fail(p)
  BY <1>5, EndedKeepsInv DEF Build, Fail
<1> QED BY <1>1, <1>3, <1>4, <1>5

(* A line is written when there is nothing left to build, so it vouches.   *)
LEMMA WriteKeepsInv ==
  ASSUME BuildInv, CreateFile \/ WriteLine \/ Kill, BuildTypeOK' PROVE BuildInv'
<1> USE BuildBounds DEF BuildInv, BuildTypeOK, Hashes
<1>1. CASE CreateFile
  <2>1. CASE Warn
    BY <1>1, <2>1, EndedKeepsInv DEF CreateFile, Warn
  <2>2. CASE ~Warn
    BY <1>1, <2>2 DEF CreateFile, NotAhead, HashesVouched, Vouched, AllBuiltAtWrite,
                      RecordedMeansBuilt, NoHashes
  <2> QED BY <2>1, <2>2
<1>2. CASE WriteLine
  <2>1. CASE Ended /\ UNCHANGED recorded
    BY <1>2, <2>1, EndedKeepsInv DEF WriteLine
  <2>2. CASE /\ line <= Len(Plugins)
             /\ recorded' = [recorded EXCEPT ![Plugins[line]] = hashes[Plugins[line]]]
             /\ UNCHANGED <<phase, hashes, changed>>
    <3>1. Plugins[line] \in Plugin
      BY <2>2, PluginOfLine
    <3>2. \A q \in Plugin : recorded'[q] = IF q = Plugins[line] THEN hashes[q] ELSE recorded[q]
      BY <2>2, <3>1
    <3>3. \A q \in Plugin : Vouched(hashes, q)
      BY <1>2 DEF WriteLine, HashesVouched, AllBuiltAtWrite
    <3>4. NotAhead'
      BY <1>2, <2>2, <3>2 DEF WriteLine, NotAhead
    <3>5. RecordedMeansBuilt'
      BY <1>2, <3>2, <3>3 DEF WriteLine, RecordedMeansBuilt, Vouched
    <3>6. HashesVouched' /\ AllBuiltAtWrite'
      BY <1>2, <2>2, <3>3 DEF WriteLine, HashesVouched, AllBuiltAtWrite, Vouched
    <3> QED BY <3>4, <3>5, <3>6
  <2> QED BY <1>2, <2>1, <2>2 DEF WriteLine, Warn
<1>3. CASE Kill
  BY <1>3, EndedKeepsInv DEF Kill, history
<1> QED BY <1>1, <1>2, <1>3

LEMMA StepVouched == BuildInv /\ [BuildNext]_buildVars => BuildInv'
<1> SUFFICES ASSUME BuildInv, [BuildNext]_buildVars PROVE BuildInv'
  OBVIOUS
<1>1. BuildTypeOK'
  BY BuildStepTyped DEF BuildInv
<1>2. CASE UNCHANGED buildVars
  BY <1>1, <1>2
  DEF buildVars, script, history, BuildInv, NotAhead, HashesVouched, Vouched, AllBuiltAtWrite,
      RecordedMeansBuilt
<1> QED BY <1>1, <1>2, FilesKeepInv, BeginKeepsInv, BuildKeepsInv, WriteKeepsInv
    DEF BuildNext, Steps

(* For any plugins, edits, failures and kills: the state file never has    *)
(* the present hash of a directory that was not built as it is, unless a   *)
(* disabled run passed it over.                                            *)
THEOREM RecordedIsBuilt == BuildSpec => []RecordedMeansBuilt
<1>1. BuildInv => RecordedMeansBuilt
  BY DEF BuildInv
<1> QED BY <1>1, InitVouched, StepVouched, PTL DEF BuildSpec

-----------------------------------------------------------------------------
(***************************************************************************)
(* The reactor.  Dropping a select leaves entries in the slab, so what a   *)
(* key stands for depends on all selects before: the invariant says that a *)
(* future's key is its own from its first poll on, and that the wakers are *)
(* those of the entries, hence a ready key always has one.                 *)
(***************************************************************************)

(* The futures of a select are for pollables of their own, and one that    *)
(* has not been polled yet is for a pollable that is not registered.       *)
FuturesApart ==
  /\ \A i \in DOMAIN futures :
       /\ futures[i].pollable <= subscribed
       /\ futures[i].key = NoKey => \A k \in DOMAIN targets : targets[k] # futures[i].pollable
  /\ \A i, j \in DOMAIN futures : futures[i].pollable = futures[j].pollable => i = j

(* The futures before the one that is polled next have been polled. *)
PolledInTurn ==
  /\ thread = "poll" => polling \in DOMAIN futures
  /\ thread = "poll" => \A i \in DOMAIN futures : i < polling => futures[i].key # NoKey
  /\ thread = "block" => 1 \in DOMAIN futures

WakersMatch == wakers = DOMAIN targets

SelectsInv == SelectsSound /\ FuturesApart /\ PolledInTurn /\ WakersMatch

-----------------------------------------------------------------------------
LEMMA ReactorBounds == MaxPollables \in Nat /\ Width \in Nat \ {0} /\ NoKey \notin 0 .. MaxPollables
  BY ReactorAssumption

LEMMA FuturesBounded ==
  \A fs : fs \in BoundedSeq(Future, Width) <=> \E m \in 0 .. Width : fs \in [1 .. m -> Future]
  BY DEF BoundedSeq, SeqOf

LEMMA NoFutures == << >> \in BoundedSeq(Future, Width)
<1>1. 0 \in 0 .. Width /\ << >> \in [1 .. 0 -> Future]
  BY ReactorBounds
<1> QED BY <1>1, FuturesBounded

LEMMA LenOfFutures ==
  ASSUME NEW m \in Nat, NEW fs \in [1 .. m -> Future]
  PROVE  Len(fs) = m /\ DOMAIN fs = 1 .. m
  OBVIOUS

LEMMA SelectsInit == ReactorInit => SelectsInv
<1> SUFFICES ASSUME ReactorInit PROVE SelectsInv
  OBVIOUS
<1> USE ReactorBounds DEF ReactorInit
<1>1. futures \in BoundedSeq(Future, Width)
  BY NoFutures
<1>2. ReactorTypeOK
  BY <1>1 DEF ReactorTypeOK, Key
<1> QED BY <1>2
    DEF SelectsInv, SelectsSound, KeysOwned, NeverPanics, FuturesApart, PolledInTurn, WakersMatch

LEMMA SelectKeeps == ASSUME SelectsInv, NEW n \in 1 .. Width, Select(n) PROVE SelectsInv'
<1> USE ReactorBounds DEF Select, SelectsInv, SelectsSound, ReactorTypeOK
<1>1. \A i \in 1 .. n : subscribed + i \in 1 .. MaxPollables /\ subscribed + i > subscribed
  OBVIOUS
<1>2. futures' \in [1 .. n -> Future]
  BY <1>1 DEF Future
<1>3. futures' \in BoundedSeq(Future, Width)
  <2>1. n \in 0 .. Width
    OBVIOUS
  <2> HIDE DEF Select, SelectsInv, SelectsSound, ReactorTypeOK
  <2> QED BY <1>2, <2>1, FuturesBounded
<1>4. ReactorTypeOK'
  BY <1>3
<1>5. KeysOwned' /\ NeverPanics'
  BY DEF KeysOwned, NeverPanics
<1>6. FuturesApart'
  BY DEF FuturesApart
<1>7. PolledInTurn' /\ WakersMatch'
  BY DEF PolledInTurn, WakersMatch
<1> QED BY <1>4, <1>5, <1>6, <1>7

(* A vacant entry is at hand as long as the slab is as long as there are   *)
(* other pollables: no pollable is registered twice.                       *)
LEMMA SlabFits ==
  ASSUME SelectsInv, Vacant = {}, NEW p \in 1 .. subscribed,
         \A k \in DOMAIN targets : targets[k] # p
  PROVE  slots < subscribed
<1> USE ReactorBounds DEF SelectsInv, SelectsSound, ReactorTypeOK
<1> DEFINE S == 0 .. slots - 1
           T == (1 .. subscribed) \ {p}
           f == [k \in S |-> targets[k]]
<1>1. DOMAIN targets = S
  BY DEF Vacant
<1>2. IsFiniteSet(S) /\ Cardinality(S) = slots
  BY FS_Interval
<1>3. IsFiniteSet(T) /\ Cardinality(T) = subscribed - 1
  <2>1. IsFiniteSet(1 .. subscribed) /\ Cardinality(1 .. subscribed) = subscribed
    BY FS_Interval
  <2> QED BY <2>1, FS_RemoveElement
<1>4. f \in [S -> T]
  BY <1>1
<1>5. \A j, k \in S : f[j] = f[k] => j = k
  BY <1>1 DEF KeysOwned
<1> HIDE DEF S, T, f
<1>6. ~(Cardinality(T) < Cardinality(S))
  BY <1>2, <1>3, <1>4, <1>5, FS_PigeonHole
<1> QED BY <1>2, <1>3, <1>6

(* The key of the future that is polled is its own, or that of an entry    *)
(* that nobody has.                                                        *)
LEMMA PolledKey ==
  ASSUME SelectsInv, thread = "poll", NEW key \in 0 .. slots, KeyOf(futures[polling], key)
  PROVE  /\ key \in Key /\ Larger(key) \in 0 .. MaxPollables
         /\ key < Larger(key) /\ slots <= Larger(key)
         /\ IF futures[polling].key # NoKey
            THEN /\ key = futures[polling].key /\ key \in DOMAIN targets
                 /\ targets[key] = futures[polling].pollable
            ELSE key \notin DOMAIN targets
<1> USE ReactorBounds DEF SelectsInv, SelectsSound, ReactorTypeOK
<1>1. PICK m \in 0 .. Width : futures \in [1 .. m -> Future]
  BY FuturesBounded
<1>2. polling \in DOMAIN futures /\ futures[polling] \in Future
  BY <1>1 DEF PolledInTurn
<1>3. CASE futures[polling].key # NoKey
  BY <1>2, <1>3 DEF KeyOf, KeysOwned, Larger, Key
<1>4. CASE futures[polling].key = NoKey
  <2>1. SlabKey(key)
    BY <1>4 DEF KeyOf
  <2>2. CASE Vacant # {}
    BY <1>4, <2>1, <2>2 DEF SlabKey, Vacant, Larger, Key
  <2>3. CASE Vacant = {}
    <3>1. key = slots
      BY <2>1, <2>3 DEF SlabKey
    <3>2. slots < subscribed
      BY <1>2, <1>4, <2>3, SlabFits DEF FuturesApart, Future
    <3> QED BY <1>4, <3>1, <3>2 DEF Larger, Key
  <2> QED BY <2>2, <2>3
<1> QED BY <1>3, <1>4

LEMMA FinishKeeps ==
  ASSUME SelectsInv, PollFuture, NEW key \in 0 .. slots, KeyOf(futures[polling], key),
         slots' = Larger(key), Finish(key, futures[polling].pollable)
  PROVE  SelectsInv'
<1> USE ReactorBounds DEF SelectsInv, SelectsSound, ReactorTypeOK
<1>1. /\ key \in Key /\ slots' \in 0 .. MaxPollables /\ slots <= slots'
  BY PolledKey DEF PollFuture
<1>2. /\ DOMAIN targets' = DOMAIN targets \ {key}
      /\ \A k \in DOMAIN targets' : targets'[k] = targets[k]
  BY DEF Finish, Restrict
<1>3. futures' = << >> /\ futures' \in BoundedSeq(Future, Width)
  BY NoFutures DEF Finish
<1>4. ReactorTypeOK'
  <2>1. /\ DOMAIN targets' \subseteq 0 .. slots' - 1
        /\ \A k \in DOMAIN targets' : targets'[k] \in 1 .. subscribed
    BY <1>1, <1>2
  <2>2. /\ subscribed' = subscribed /\ thread' = "idle" /\ polling' = 1 /\ chosen' = polling
        /\ wakers' \subseteq wakers
    BY DEF PollFuture, Finish
  <2> QED BY <1>1, <1>3, <2>1, <2>2
<1>5. KeysOwned' /\ NeverPanics'
  <2>1. DOMAIN futures' = {} /\ thread' = "idle"
    BY <1>3 DEF Finish
  <2>2. \A j, k \in DOMAIN targets' : targets'[j] = targets'[k] => j = k
    BY <1>2 DEF KeysOwned
  <2> QED BY <2>1, <2>2 DEF KeysOwned, NeverPanics
<1>6. FuturesApart' /\ PolledInTurn'
  BY <1>3 DEF FuturesApart, PolledInTurn, Finish
<1>7. WakersMatch'
  BY <1>2 DEF WakersMatch, Finish
<1> QED BY <1>4, <1>5, <1>6, <1>7

LEMMA WaitKeeps ==
  ASSUME SelectsInv, PollFuture, NEW key \in 0 .. slots, KeyOf(futures[polling], key),
         slots' = Larger(key), Wait(key, futures[polling].pollable)
  PROVE  SelectsInv'
<1> USE ReactorBounds DEF SelectsInv, SelectsSound, ReactorTypeOK
<1> DEFINE p == futures[polling].pollable
<1>1. PICK m \in 0 .. Width : futures \in [1 .. m -> Future]
  BY FuturesBounded
<1>2. /\ polling \in 1 .. m /\ futures[polling] \in Future
      /\ Len(futures) = m /\ DOMAIN futures = 1 .. m
  BY <1>1, LenOfFutures DEF PolledInTurn, PollFuture
<1>3. /\ key \in Key /\ slots' \in 0 .. MaxPollables /\ key < slots' /\ slots <= slots'
      /\ IF futures[polling].key # NoKey
         THEN key = futures[polling].key /\ key \in DOMAIN targets /\ targets[key] = p
         ELSE key \notin DOMAIN targets
  BY PolledKey DEF PollFuture
<1>4. DOMAIN targets' = DOMAIN targets \cup {key} /\ targets'[key] = p
      /\ \A k \in DOMAIN targets : k # key => targets'[k] = targets[k]
  BY DEF Wait, With
<1>5. /\ futures' \in [1 .. m -> Future]
      /\ futures'[polling].key = key
      /\ \A i \in 1 .. m : futures'[i].pollable = futures[i].pollable
      /\ \A i \in 1 .. m : i # polling => futures'[i] = futures[i]
  BY <1>1, <1>2, <1>3 DEF Wait, Future
<1>6. futures' \in BoundedSeq(Future, Width)
  BY <1>5, FuturesBounded
<1>7. p \in 1 .. subscribed /\ key # NoKey
  BY <1>2, <1>3 DEF FuturesApart, Future, Key
<1>8. ReactorTypeOK'
  BY <1>2, <1>3, <1>4, <1>6, <1>7 DEF PollFuture, Wait
<1>9. \A k \in DOMAIN targets : k # key => targets[k] # p
  BY <1>2, <1>3 DEF FuturesApart, KeysOwned
<1>10. FuturesApart'
  <2>1. ASSUME NEW i \in 1 .. m, futures'[i].key = NoKey, NEW k \in DOMAIN targets'
        PROVE  targets'[k] # futures'[i].pollable
    <3>1. i # polling /\ futures[i].key = NoKey /\ futures'[i].pollable = futures[i].pollable
      BY <1>5, <1>7, <2>1
    <3>2. CASE k = key
      BY <1>2, <1>4, <3>1, <3>2 DEF FuturesApart
    <3>3. CASE k # key
      BY <1>2, <1>4, <3>1, <3>3 DEF FuturesApart
    <3> QED BY <3>2, <3>3
  <2>2. DOMAIN futures' = 1 .. m /\ subscribed' = subscribed
    BY <1>5 DEF PollFuture
  <2> QED BY <1>2, <1>5, <2>1, <2>2 DEF FuturesApart
<1>11. PolledInTurn'
  BY <1>2, <1>5, <1>7 DEF PolledInTurn, Wait, PollFuture
<1>12. KeysOwned'
  <2>1. ASSUME NEW i \in 1 .. m, futures'[i].key # NoKey
        PROVE  /\ futures'[i].key \in DOMAIN targets'
               /\ targets'[futures'[i].key] = futures'[i].pollable
    <3>1. CASE i = polling
      BY <1>2, <1>4, <1>5, <3>1
    <3>2. CASE i # polling
      <4>1. futures[i].key \in DOMAIN targets /\ targets[futures[i].key] = futures[i].pollable
        BY <1>2, <1>5, <2>1, <3>2 DEF KeysOwned
      <4>2. futures[i].pollable # p
        BY <1>2, <3>2 DEF FuturesApart
      <4>3. futures[i].key # key
        BY <1>3, <4>1, <4>2
      <4> QED BY <1>4, <1>5, <3>2, <4>1, <4>3
    <3> QED BY <3>1, <3>2
  <2>2. thread' = "block" => \A i \in 1 .. m : futures'[i].key # NoKey
    BY <1>2, <1>5, <1>7 DEF PolledInTurn, Wait, PollFuture
  <2>3. \A j, k \in DOMAIN targets' : targets'[j] = targets'[k] => j = k
    BY <1>4, <1>9 DEF KeysOwned
  <2>4. DOMAIN futures' = 1 .. m
    BY <1>5
  <2> QED BY <2>1, <2>2, <2>3, <2>4 DEF KeysOwned
<1>13. NeverPanics' /\ WakersMatch'
  BY <1>4 DEF NeverPanics, WakersMatch, Wait, PollFuture
<1> QED BY <1>8, <1>10, <1>11, <1>12, <1>13

LEMMA SelectsStep == SelectsInv /\ [ReactorNext]_reactorVars => SelectsInv'
<1> SUFFICES ASSUME SelectsInv, [ReactorNext]_reactorVars PROVE SelectsInv'
  OBVIOUS
<1> USE DEF SelectsInv, SelectsSound
<1>1. CASE PollFuture
  <2>1. PICK key \in 0 .. slots :
          /\ KeyOf(futures[polling], key) /\ slots' = Larger(key)
          /\ Finish(key, futures[polling].pollable) \/ Wait(key, futures[polling].pollable)
    BY <1>1 DEF PollFuture
  <2> QED BY <1>1, <2>1, FinishKeeps, WaitKeeps
<1>2. CASE BlockUntil
  <2>1. ReadyKeys \subseteq wakers
    BY DEF WakersMatch, ReadyKeys
  <2> QED BY <1>2, <2>1, ReactorBounds
      DEF BlockUntil, ReactorTypeOK, KeysOwned, NeverPanics, FuturesApart, PolledInTurn, WakersMatch
<1>3. ASSUME NEW q \in 1 .. MaxPollables, BecomeReady(q) PROVE SelectsInv'
  BY <1>3
  DEF BecomeReady, ReactorTypeOK, KeysOwned, NeverPanics, FuturesApart, PolledInTurn, WakersMatch
<1>4. CASE UNCHANGED reactorVars
  BY <1>4
  DEF reactorVars, ReactorTypeOK, KeysOwned, NeverPanics, FuturesApart, PolledInTurn, WakersMatch
<1> QED BY <1>1, <1>2, <1>3, <1>4, SelectKeeps DEF ReactorNext

(* For any number of pollables and any width: after every sequence of      *)
(* selects, dropped as they are, a polled future finds its own pollable,   *)
(* none is registered twice, and the reactor never panics.                 *)
THEOREM SelectsFindTheirOwn == ReactorSpec => []SelectsSound
<1>1. SelectsInv => SelectsSound
  BY DEF SelectsInv
<1> QED BY <1>1, SelectsInit, SelectsStep, PTL DEF ReactorSpec

-----------------------------------------------------------------------------
(***************************************************************************)
(* The timers.  Ids are given out once, so a late or repeated cancel finds *)
(* its own timer or none.                                                  *)
(***************************************************************************)

(* Only ids that were given out are held or were cancelled. *)
OnlyGivenOut == \A id \in held \cup cancelled : id < nextId

TimersInv == TimersSound /\ OnlyGivenOut

LEMMA TimersInit == TimerInit => TimersInv
<1> SUFFICES ASSUME TimerInit PROVE TimersInv
  OBVIOUS
<1>1. TimerTypeOK
  BY TimerAssumption DEF TimerInit, TimerTypeOK, Instant, TimerId
<1>2. CancelExact
  BY DEF TimerInit, CancelExact, TimerId
<1>3. NeverDueBeforeItsCall
  BY DEF TimerInit, NeverDueBeforeItsCall
<1> QED BY <1>1, <1>2, <1>3 DEF TimersInv, TimersSound, OnlyGivenOut, TimerInit

(* A sum that does not fit is the last instant, which is never past. *)
LEMMA SaturatedSum ==
  \A n, delay \in Instant : (IF n + delay > MaxInstant THEN MaxInstant ELSE n + delay) >= n
  BY TimerAssumption DEF Instant

LEMMA ScheduleKeeps ==
  ASSUME TimersInv, NEW deadline \in Instant, NEW from \in Instant, deadline >= from,
         Schedule(deadline, from)
  PROVE  TimersInv'
<1> USE TimerAssumption DEF TimersInv, TimersSound
<1> DEFINE entry == [deadline |-> deadline, from |-> from]
<1>1. nextId \in TimerId
  BY DEF Schedule, TimerTypeOK, TimerId
<1>2. DOMAIN entries' = DOMAIN entries \cup {nextId}
  BY DEF Schedule, NextTimerId
<1>3. entry \in Entry /\ entry.deadline >= entry.from
  BY DEF Entry
<1>4. \A i \in DOMAIN entries' : entries'[i] = IF i = nextId THEN entry ELSE entries[i]
  BY DEF Schedule, NextTimerId
<1> HIDE DEF entry
<1>5. nextId' = nextId + 1 /\ held' = held \cup {nextId} /\ UNCHANGED <<now, cancelled>>
  BY DEF Schedule, NextTimerId
<1>6. TimerTypeOK'
  <2>1. \A i \in DOMAIN entries' : entries'[i] \in Entry
    BY <1>2, <1>3, <1>4 DEF TimerTypeOK
  <2>2. Entry' = Entry /\ Instant' = Instant
    BY DEF Entry, Instant
  <2> QED BY <1>1, <1>2, <1>5, <2>1, <2>2 DEF TimerTypeOK, TimerId
<1>7. CancelExact' /\ OnlyGivenOut'
  BY <1>1, <1>2, <1>5 DEF CancelExact, OnlyGivenOut, TimerTypeOK, TimerId
<1>8. NeverDueBeforeItsCall'
  BY <1>2, <1>3, <1>4 DEF NeverDueBeforeItsCall
<1> QED BY <1>6, <1>7, <1>8

LEMMA CancelKeeps ==
  ASSUME TimersInv, NEW id \in TimerId, Cancel(id) \/ DropHandle(id) PROVE TimersInv'
<1> USE TimerAssumption DEF TimersInv, TimersSound
<1>1. TimerTypeOK'
  BY DEF Cancel, DropHandle, TimerTypeOK, TimerId, Restrict
<1>2. CancelExact'
  BY DEF Cancel, DropHandle, CancelExact, Restrict
<1>3. OnlyGivenOut'
  BY DEF Cancel, DropHandle, OnlyGivenOut
<1>4. NeverDueBeforeItsCall'
  BY DEF Cancel, DropHandle, NeverDueBeforeItsCall, Restrict
<1> QED BY <1>1, <1>2, <1>3, <1>4

LEMMA TimersStep == TimersInv /\ [TimerNext]_timerVars => TimersInv'
<1> SUFFICES ASSUME TimersInv, [TimerNext]_timerVars PROVE TimersInv'
  OBVIOUS
<1>1. now \in Instant /\ 0 \in Instant
  BY TimerAssumption DEF TimersInv, TimersSound, TimerTypeOK, Instant
<1>2. ASSUME NEW at \in Instant, ScheduleAt(at) PROVE TimersInv'
  <2>1. at >= 0
    BY DEF Instant
  <2> QED BY <1>1, <1>2, <2>1, ScheduleKeeps DEF ScheduleAt
<1>3. ASSUME NEW delay \in Instant, ScheduleAfter(delay) PROVE TimersInv'
  <2>1. SaturatingAdd(delay) \in Instant /\ SaturatingAdd(delay) >= now
    BY <1>1, SaturatedSum, TimerAssumption DEF SaturatingAdd, Instant
  <2> QED BY <1>1, <1>3, <2>1, ScheduleKeeps DEF ScheduleAfter
<1>4. CASE Tick
  BY <1>4, TimerAssumption
     DEF Tick, TimersInv, TimersSound, TimerTypeOK, Instant, CancelExact, OnlyGivenOut, NeverDueBeforeItsCall
<1>5. CASE UNCHANGED timerVars
  BY <1>5 DEF timerVars, TimersInv, TimersSound, TimerTypeOK, CancelExact, NeverDueBeforeItsCall,
              OnlyGivenOut
<1> QED BY <1>2, <1>3, <1>4, <1>5, CancelKeeps DEF TimerNext

(* For any number of timers and any clock: exactly the timers that were    *)
(* scheduled and not cancelled are in the registry, and no entry that was  *)
(* made for a delay, also one that does not fit the clock, has a deadline  *)
(* before the call that made it.                                           *)
THEOREM TimersAreExact == TimerSpec => []TimersSound
<1>1. TimersInv => TimersSound
  BY DEF TimersInv
<1> QED BY <1>1, TimersInit, TimersStep, PTL DEF TimerSpec

-----------------------------------------------------------------------------
(***************************************************************************)
(* The socks of the early plugins.  The three fields always agree; that    *)
(* none is replaced while its streams live depends on where the client is. *)
(***************************************************************************)

(* As the client calls it, nothing is held before bind has connected. *)
FreshAtBind ==
  ~anyOrder => (position \in {1, 2} \/ sockState = "connecting" => sock = 0)
               /\ (sockState = "connecting" => position = 3)

(* The invariant that is proved. *)
SocksInv == SocksInOrder /\ FreshAtBind

LEMMA SocksInit == CoreInit => SocksInv
  BY CoreSockAssumption
  DEF CoreInit, SocksInv, SocksInOrder, CoreTypeOK, OneConnection, ChildrenFirst, FreshAtBind,
      HostSocket, Action

LEMMA Positions ==
  ASSUME CoreTypeOK, NEW method \in {"newsock", "bind", "send", "recv", "close"}, Called(method)
  PROVE  /\ position' \in 1 .. 5
         /\ \/ anyOrder
            \/ position = 1 /\ method = "newsock"
            \/ position = 2 /\ method = "bind"
            \/ position \in {3, 4} /\ method \in {"send", "recv"}
            \/ position = 5 /\ method = "close"
         /\ sockState = "idle"
         /\ position' = IF position = 5 THEN 1 ELSE position + 1
<1>1. Len(Action) = 5 /\ position \in 1 .. 5
  BY DEF Action, CoreTypeOK
<1>2. position \in {1, 2, 3, 4, 5}
  BY <1>1
<1> QED BY <1>1, <1>2 DEF Called, Action

LEMMA SocksStep == SocksInv /\ [CoreNext]_coreVars => SocksInv'
<1> SUFFICES ASSUME SocksInv, [CoreNext]_coreVars PROVE SocksInv'
  OBVIOUS
<1> USE CoreSockAssumption
    DEF SocksInv, SocksInOrder, OneConnection, ChildrenFirst, FreshAtBind, HostSocket
<1>0. Len(Action) = 5
  BY DEF Action
<1>1. ASSUME NEW t \in 0 .. 1, NewSock(t) PROVE SocksInv'
  BY <1>0, <1>1, Positions DEF NewSock, CoreTypeOK
<1>2. CASE Bind
  BY <1>0, <1>2, Positions DEF Bind, CoreTypeOK
<1>3. CASE FinishConnect
  BY <1>0, <1>3 DEF FinishConnect, Connected, CoreTypeOK
<1>4. CASE Send \/ Recv
  BY <1>0, <1>4, Positions DEF Send, Recv, CoreTypeOK
<1>5. CASE Close
  BY <1>0, <1>5, Positions DEF Close, CoreTypeOK
<1>6. CASE UNCHANGED coreVars
  BY <1>0, <1>6 DEF coreVars, CoreTypeOK
<1> QED BY <1>1, <1>2, <1>3, <1>4, <1>5, <1>6 DEF CoreNext

(* For any number of sockets: the streams that are held belong to the      *)
(* socket that is held, in whatever order the methods are called; called   *)
(* as tcp-client does, no socket is ever dropped under its streams.        *)
THEOREM SocksAreInOrder == CoreSpec => []SocksInOrder
<1>1. SocksInv => SocksInOrder
  BY DEF SocksInv
<1> QED BY <1>1, SocksInit, SocksStep, PTL DEF CoreSpec
=============================================================================

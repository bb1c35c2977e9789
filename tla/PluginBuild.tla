---------------------------- MODULE PluginBuild -----------------------------
(***************************************************************************)
(* The build script (src/build.rs): it builds the plugins whose directory  *)
(* has changed since the hashes in its state file, and writes the file     *)
(* anew.  A hash stands for a version of a directory, 0 for a directory    *)
(* that is missing or cannot be read.  Files are edited at any time, and   *)
(* the script can be killed between any two steps.  When cargo has to run  *)
(* it again is what the script prints: the files that it found.            *)
(***************************************************************************)
EXTENDS Integers, Sequences

CONSTANTS
  Plugins,     \* the sequence of the plugins
  MaxVersion,  \* bound: versions of the directories
  MaxFaults    \* bound: failed steps and kills

ASSUME PluginBuildAssumption ==
  Plugins \in Seq(STRING) /\ MaxVersion \in Nat \ {0} /\ MaxFaults \in Nat

VARIABLES
  tree,      \* the version of each plugin's directory
  version,   \* the last version given
  built,     \* the version that was last built, 0 before
  recorded,  \* the hashes in the state file; 0 for a plugin without a line
  phase,     \* "idle", "build" or "write"
  disabled,  \* disable_plugin_builds
  watched,   \* the plugins whose files the last run printed to be watched
  due,       \* whether cargo has a reason to run the script
  skipped,   \* history: plugins that a disabled run passed over, not built since
  unseen,    \* history: plugins with a change that gives cargo no reason, or on
             \* which the last word of the last run was a warning
  hashes,    \* new_state
  changed,   \* changed: the plugins that are still to be built
  line,      \* the line of the state file that is written next
  faults

script == <<phase, disabled, hashes, changed, line>>
cargo == <<watched, due>>
history == <<built, skipped, unseen>>
buildVars == <<tree, version, recorded, script, cargo, history, faults>>

Plugin == {Plugins[i] : i \in DOMAIN Plugins}
Hashes == [Plugin -> 0 .. MaxVersion]
NoHashes == [p \in Plugin |-> 0]

(* Of the directories some are there before the first run.                 *)
BuildInit ==
  /\ tree \in [Plugin -> {0, 1}] /\ version = 1
  /\ built = NoHashes /\ skipped = {} /\ unseen = {} /\ recorded = NoHashes
  /\ phase = "idle" /\ disabled = FALSE /\ hashes = NoHashes /\ changed = {} /\ line = 1
  /\ watched = {} /\ due = TRUE
  /\ faults = 0

-----------------------------------------------------------------------------
Fault == faults < MaxFaults /\ faults' = faults + 1

(* cargo looks at the watched files only: it sees when one of them changes *)
(* or is gone, and neither a new file nor a new directory.                 *)
Seen(p) == due' = TRUE /\ UNCHANGED unseen
NotSeen(p) == unseen' = unseen \cup {p} /\ UNCHANGED due

Edit(p) ==
  /\ version < MaxVersion
  /\ version' = version + 1 /\ tree' = [tree EXCEPT ![p] = version + 1]
  /\ (p \in watched /\ Seen(p)) \/ NotSeen(p)
  /\ UNCHANGED <<watched, built, skipped, recorded, script, faults>>

Delete(p) ==
  /\ tree[p] # 0
  /\ tree' = [tree EXCEPT ![p] = 0]
  /\ IF p \in watched THEN Seen(p) ELSE NotSeen(p)
  /\ UNCHANGED <<version, watched, built, skipped, recorded, script, faults>>

(* read_state: a file that cannot be read counts as empty. *)
ReadState == {recorded, NoHashes}

(* compute_dir_hash for all plugins: a directory that cannot be read is 0. *)
HashDirs == {tree} \cup {[tree EXCEPT ![p] = 0] : p \in Plugin}

(* walk_files for all plugins that are there: a directory that cannot be   *)
(* read is not watched.                                                    *)
Present == {p \in Plugin : tree[p] # 0}
FilesToWatch == {Present} \cup {Present \ {p} : p \in Plugin}

(* The script prints the files to watch, reads the old state, hashes and   *)
(* compares.  cargo may run it for reasons of its own.                     *)
Begin ==
  /\ phase = "idle" /\ phase' = "build"
  /\ disabled' \in BOOLEAN
  /\ \E files \in FilesToWatch, old \in ReadState, new \in HashDirs :
       /\ IF files = Present /\ old = recorded /\ new = tree THEN UNCHANGED faults ELSE Fault
       /\ watched' = files
       /\ hashes' = new
       /\ changed' = {p \in Plugin : old[p] # new[p]}
       /\ unseen' = {p \in Plugin : new[p] # tree[p]}
  /\ due' = FALSE /\ line' = 1
  /\ UNCHANGED <<tree, version, built, skipped, recorded>>

(* The changed plugins are taken in the order in which they are listed.    *)
IsFirst(p) ==
  \E i \in DOMAIN Plugins : Plugins[i] = p /\ \A j \in 1 .. i-1 : Plugins[j] \notin changed

(* The script ends, and with it what it has in its variables.              *)
Ended ==
  /\ phase' = "idle" /\ disabled' = FALSE
  /\ hashes' = NoHashes /\ changed' = {} /\ line' = 1

GoOn == UNCHANGED <<phase, disabled, hashes, line>>

Skip(p) ==
  /\ disabled
  /\ changed' = changed \ {p} /\ skipped' = skipped \cup {p}
  /\ GoOn /\ UNCHANGED <<due, built, faults>>

Succeed(p) ==
  /\ ~disabled /\ tree[p] # 0
  /\ built' = [built EXCEPT ![p] = tree[p]]
  /\ changed' = changed \ {p} /\ skipped' = skipped \ {p}
  /\ GoOn /\ UNCHANGED <<due, faults>>

(* Mistake: a failed build is only a warning. *)
WarnOnly(p) ==
  /\ ~disabled
  /\ IF tree[p] = 0 THEN UNCHANGED faults ELSE Fault
  /\ changed' = changed \ {p}
  /\ GoOn /\ UNCHANGED <<due, built, skipped>>

(* A build that fails, as it does in a missing directory, is a panic: the  *)
(* script ends before it writes the state, and cargo takes it as not run.  *)
Fail(p) ==
  /\ ~disabled
  /\ IF tree[p] = 0 THEN UNCHANGED faults ELSE Fault
  /\ Ended /\ due' = TRUE
  /\ UNCHANGED <<built, skipped>>

Build ==
  /\ phase = "build"
  /\ \E p \in changed : IsFirst(p) /\ (Skip(p) \/ Succeed(p) \/ Fail(p))
  /\ UNCHANGED <<tree, version, recorded, watched, unseen>>

(* The state is not written, or not to its end: a warning, and the script  *)
(* has run.                                                                *)
Warn ==
  /\ Ended /\ Fault
  /\ unseen' = unseen \cup {p \in Plugin : recorded[p] # hashes[p]}
  /\ UNCHANGED recorded

(* File::create empties the file. *)
CreateFile ==
  /\ phase = "build" /\ changed = {}
  /\ \/ /\ phase' = "write" /\ recorded' = NoHashes
        /\ UNCHANGED <<disabled, hashes, changed, line, faults, unseen>>
     \/ Warn
  /\ UNCHANGED <<tree, version, built, skipped, cargo>>

(* Mistake: the last plugin has no line. *)
WriteAllButLast ==
  /\ phase = "write"
  /\ IF line >= Len(Plugins) THEN Ended /\ UNCHANGED recorded
     ELSE /\ recorded' = [recorded EXCEPT ![Plugins[line]] = hashes[Plugins[line]]]
          /\ line' = line + 1 /\ UNCHANGED <<phase, disabled, hashes, changed>>
  /\ UNCHANGED <<tree, version, history, cargo, faults>>

(* One line of the state. *)
WriteLine ==
  /\ phase = "write"
  /\ \/ line > Len(Plugins) /\ Ended /\ UNCHANGED <<recorded, faults, unseen>>
     \/ /\ line <= Len(Plugins)
        /\ recorded' = [recorded EXCEPT ![Plugins[line]] = hashes[Plugins[line]]]
        /\ line' = line + 1 /\ UNCHANGED <<phase, disabled, hashes, changed, faults, unseen>>
     \/ line <= Len(Plugins) /\ Warn
  /\ UNCHANGED <<tree, version, built, skipped, cargo>>

(* The script is killed: cargo takes it as not run. *)
Kill ==
  /\ phase # "idle" /\ Ended /\ due' = TRUE /\ Fault
  /\ UNCHANGED <<tree, version, history, recorded, watched>>

Steps == Build \/ CreateFile \/ WriteLine

BuildNext == (\E p \in Plugin : Edit(p) \/ Delete(p)) \/ Begin \/ Steps \/ Kill

BuildSpec == BuildInit /\ [][BuildNext]_buildVars

(* A run goes on to its end, and as long as cargo has a reason to run the  *)
(* script somebody calls cargo.                                            *)
FairBuildSpec == BuildSpec /\ WF_buildVars(Steps) /\ WF_buildVars(due /\ Begin)

-----------------------------------------------------------------------------
BuildTypeOK ==
  /\ tree \in Hashes /\ built \in Hashes /\ recorded \in Hashes /\ hashes \in Hashes
  /\ version \in 0 .. MaxVersion /\ faults \in 0 .. MaxFaults
  /\ phase \in {"idle", "build", "write"} /\ disabled \in BOOLEAN
  /\ changed \subseteq Plugin /\ skipped \subseteq Plugin /\ unseen \subseteq Plugin
  /\ watched \subseteq Plugin /\ due \in BOOLEAN
  /\ line \in 1 .. Len(Plugins) + 1

(* The state file vouches for what was built: where it has the hash of a   *)
(* directory as it is, that directory has been built, although files are   *)
(* edited during a build and the script may end anywhere.  The exception   *)
(* are plugins that a run with DISABLE_PLUGIN_BUILDS has recorded and not  *)
(* built: later runs take them as unchanged.                               *)
RecordedMeansBuilt ==
  \A p \in Plugin :
    recorded[p] = tree[p] /\ tree[p] # 0 => built[p] = tree[p] \/ p \in skipped

(* Once nobody edits, the state file agrees with the directories and what  *)
(* is there is built, whatever failed or was killed before.  This leaves   *)
(* out disabled plugins as above, those for which cargo has no reason to   *)
(* run the script again, and a directory that is gone and was recorded:    *)
(* then every run fails.                                                   *)
Settles ==
  <>[](\/ \E p \in Plugin : tree[p] = 0 /\ recorded[p] # 0
       \/ \A p \in Plugin \ unseen :
            /\ tree[p] # 0 => built[p] = tree[p] \/ p \in skipped
            /\ phase = "idle" => recorded[p] = tree[p])
=============================================================================

----------------------------- MODULE MCRuntime ------------------------------
(***************************************************************************)
(* Four small components, each in behaviours of its own.  The build        *)
(* script: two plugins, three versions and one fault, enough for an edit   *)
(* during a build, a failure of the second plugin or a kill in the middle  *)
(* of the state file, and a repair.  The reactor: selects among            *)
(* up to three timers, five timers in all, hence at least two selects, the *)
(* later ones beside what the earlier ones left.  The timer registry:      *)
(* three timers on a clock of four instants, so that deadlines coincide,   *)
(* pass and saturate.  And the socks of the early plugins: twenty sockets  *)
(* of the host, asked for by their client or in any order.                 *)
(***************************************************************************)
EXTENDS PluginBuild, Reactor, TimerRegistry, CoreSock

VARIABLE part  \* what a behaviour is about: "build", "reactor", "timers" or "socks"

partVars == <<part, buildVars, reactorVars, timerVars, coreVars>>

MCPlugins == <<"core", "demo">>

-----------------------------------------------------------------------------
(* The parts that a behaviour is not about stay in one initial state.      *)
PartInit ==
  /\ part \in {"build", "reactor", "timers", "socks"}
  /\ BuildInit /\ ReactorInit /\ TimerInit /\ CoreInit
  /\ anyOrder => part = "socks"
  /\ tree # NoHashes => part = "build"

InBuild(A) == part = "build" /\ A /\ UNCHANGED <<part, reactorVars, timerVars, coreVars>>
InReactor(A) == part = "reactor" /\ A /\ UNCHANGED <<part, buildVars, timerVars, coreVars>>
InSocks(A) == part = "socks" /\ A /\ UNCHANGED <<part, buildVars, reactorVars, timerVars>>

PartNext ==
  \/ part = "build" /\ BuildNext /\ UNCHANGED <<part, reactorVars, timerVars, coreVars>>
  \/ part = "reactor" /\ ReactorNext /\ UNCHANGED <<part, buildVars, timerVars, coreVars>>
  \/ part = "timers" /\ TimerNext /\ UNCHANGED <<part, buildVars, reactorVars, coreVars>>
  \/ part = "socks" /\ CoreNext /\ UNCHANGED <<part, buildVars, reactorVars, timerVars>>

(* The fairness of each part, as its module states it; nothing that is     *)
(* checked of the timers depends on any.                                   *)
PartSpec ==
  /\ PartInit /\ [][PartNext]_partVars
  /\ WF_partVars(InBuild(Steps)) /\ WF_partVars(InBuild(due /\ Begin))
  /\ WF_partVars(InReactor(PollFuture \/ BlockUntil))
  /\ \A p \in 1 .. MaxPollables : WF_partVars(InReactor(BecomeReady(p)))
  /\ WF_partVars(InSocks(CoreNext))

-----------------------------------------------------------------------------
=============================================================================

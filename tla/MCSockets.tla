----------------------------- MODULE MCSockets ------------------------------
(***************************************************************************)
(* Sockets, each kind in behaviours of its own: three handles of the       *)
(* registry over the host; and as many objects of the type Socket, over    *)
(* either registry.                                                        *)
(***************************************************************************)
EXTENDS WasiSockets, SocketApi

VARIABLE part   \* what a behaviour is about: "wasi" or "api"

partVars == <<part, wasiVars, socketVars>>

-----------------------------------------------------------------------------
(* The part that a behaviour is not about stays in its initial state.      *)
PartInit ==
  /\ part \in {"wasi", "api"} /\ WasiInit /\ SocketInit
  /\ native => part = "api"

PartNext ==
  \/ part = "wasi" /\ WasiNext /\ UNCHANGED <<part, socketVars>>
  \/ part = "api" /\ SocketNext /\ UNCHANGED <<part, wasiVars>>

PartSpec == PartInit /\ [][PartNext]_partVars
=============================================================================

---------------------------- MODULE HttpClients -----------------------------
(***************************************************************************)
(* The two clients of HTTP actions, each in behaviours of its own: the     *)
(* function of the program over registry numbers, and the function of the  *)
(* WASM component over objects.  They never run together and share the     *)
(* exchange; the client that a behaviour is not about stays as it was.     *)
(***************************************************************************)
EXTENDS HttpSend, HttpComponent

VARIABLE client   \* what a behaviour is about: "send" or "component"

sendOnly == <<pc, request, handle, emptyReads, results, wasiVars>>
componentOnly == <<method, action, socket, attempts, ended, socketVars>>
clientVars == <<client, sendVars, componentOnly>>

ClientInit == client \in {"send", "component"} /\ SendInit /\ ComponentInit

ClientNext ==
  /\ UNCHANGED client
  /\ \/ client = "send" /\ SendNext /\ UNCHANGED componentOnly
     \/ client = "component" /\ ComponentNext /\ UNCHANGED sendOnly

ClientSpec == ClientInit /\ [][ClientNext]_clientVars

(* The fairness of each client, as its module states it. *)
ClientFairness ==
  /\ WF_clientVars(client = "send" /\ Client /\ UNCHANGED <<client, componentOnly>>)
  /\ WF_clientVars(client = "component" /\ ComponentClient /\ UNCHANGED <<client, sendOnly>>)

-----------------------------------------------------------------------------
(* The sockets that outlive their request are, of the function of the      *)
(* program, those that were refused, of the component none; and neither    *)
(* client reads past the announced end.                                    *)
RequestsSound ==
  /\ SendTypeOK /\ OnlyRefusalsLeak /\ NoReadPastEnd
  /\ ComponentTypeOK /\ NothingLeft /\ ComponentReadsToEnd

(* Each request of the component comes back, whatever the peer does and    *)
(* also if it does nothing; each request of the program does unless a peer *)
(* that announces no length never ceases to send.                          *)
RequestsEnd == EveryRequestEnds /\ EveryActionEnds
=============================================================================

--------------------------- MODULE SocketRegistry ---------------------------
(***************************************************************************)
(* The registry that stands in for sockets in a native build               *)
(* (core-libs/src/socket/mod.rs, the functions under                       *)
(* not(target_arch = "wasm32")).  Nothing is sent anywhere: the functions  *)
(* keep flags, and those of data and options do not look at the handle.    *)
(* Every call holds the mutex of the registry and is one step.             *)
(***************************************************************************)
EXTENDS Integers, Functions

CONSTANT MaxHandle   \* bound: the registry hands out 1 .. MaxHandle

VARIABLES
  sockets,  \* SocketRegistry.sockets
  next,     \* SocketRegistry.next_handle
  answer    \* the last call: its operation, the handle and the result

Handle == 1 .. MaxHandle
SocketInfo == [protocol : {"tcp", "udp"}, connected : BOOLEAN, bound : BOOLEAN, listening : BOOLEAN]

Init ==
  /\ sockets = << >>
  /\ next = 1
  /\ answer = [op |-> "none", handle |-> 0, result |-> "ok"]

-----------------------------------------------------------------------------
Registered(h) == h \in DOMAIN sockets
IsTcp(h) == Registered(h) /\ sockets[h].protocol = "tcp"
Reply(op, h, result) == answer' = [op |-> op, handle |-> h, result |-> result]

(* The call sets a flag of the entry, or refuses. *)
SetFlag(op, h, allowed, flag) ==
  /\ Reply(op, h, IF allowed THEN "ok" ELSE "invalid")
  /\ sockets' = IF allowed THEN [sockets EXCEPT ![h][flag] = TRUE] ELSE sockets
  /\ UNCHANGED next

CreateSocket(protocol) ==
  /\ next <= MaxHandle
  /\ sockets' = [h \in DOMAIN sockets \cup {next} |->
                   IF h = next THEN [protocol |-> protocol, connected |-> FALSE,
                                     bound |-> FALSE, listening |-> FALSE]
                   ELSE sockets[h]]
  /\ next' = next + 1
  /\ Reply("create", next, "ok")

Connect(h) == SetFlag("connect", h, IsTcp(h), "connected")
Bind(h) == SetFlag("bind", h, Registered(h), "bound")
Listen(h) == SetFlag("listen", h, IsTcp(h) /\ sockets[h].bound, "listening")

Accept(h) == Reply("accept", h, "would-block") /\ UNCHANGED <<sockets, next>>

(* send reports everything as sent, receive an empty answer. *)
Send(h) == Reply("send", h, "ok") /\ UNCHANGED <<sockets, next>>
Receive(h) == Reply("receive", h, "ok") /\ UNCHANGED <<sockets, next>>

(* send_to and receive_from *)
SendToOrReceiveFrom(h) == Reply("datagram", h, "ok") /\ UNCHANGED <<sockets, next>>

Close(h) ==
  /\ Reply("close", h, IF Registered(h) THEN "ok" ELSE "invalid")
  /\ sockets' = Restrict(sockets, DOMAIN sockets \ {h})
  /\ UNCHANGED next
=============================================================================

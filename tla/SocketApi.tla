----------------------------- MODULE SocketApi ------------------------------
(***************************************************************************)
(* The type Socket (core-libs/src/socket/api.rs) over either registry: the *)
(* one of a native build or, in a WASM build, the one over the sockets of  *)
(* the host.  An object is named by its handle, which is never given out   *)
(* twice.  A method that the state of the object forbids answers           *)
(* InvalidInput and changes nothing: that is a stuttering step.            *)
(***************************************************************************)
EXTENDS Integers, Functions

CONSTANT MaxSockets   \* bound: the registry hands out 1 .. MaxSockets

ASSUME SocketApiAssumption == MaxSockets \in Nat

VARIABLES
  native,   \* which build: the registry of mod.rs, or of wasi_impl_real.rs
  objects,  \* the objects that exist, dropped ones removed
  entries, nextHandle, hostSockets, trapped, reply  \* the registry and the host

raw == <<entries, nextHandle, hostSockets, trapped, reply>>
socketVars == <<native, objects, entries, nextHandle, hostSockets, trapped, reply>>

InProcess == INSTANCE SocketRegistry WITH
  MaxHandle <- MaxSockets, sockets <- entries, next <- nextHandle, answer <- reply
OnHost == INSTANCE WasiSockets WITH
  MaxHandle <- MaxSockets, sockets <- entries, next <- nextHandle,
  host <- hostSockets, trap <- trapped, answer <- reply

ObjectHandle == 1 .. MaxSockets
SocketState == {"Created", "Bound", "Listening", "Connected", "Closed"}

(* local says whether bound_ip and bound_port are set, remote whether      *)
(* remote_addr is.                                                         *)
Object == [protocol : {"tcp", "udp"}, state : SocketState, local : BOOLEAN, remote : BOOLEAN]

SocketInit == native \in BOOLEAN /\ objects = << >> /\ OnHost!WasiInit

-----------------------------------------------------------------------------
(* What a method calls, and what it was answered. *)
Raw(inProcess, onHost) ==
  IF native THEN inProcess /\ UNCHANGED <<hostSockets, trapped>> ELSE onHost

Answered == reply'.result = "ok"
Exists(h) == h \in DOMAIN objects
InState(h, states) == Exists(h) /\ objects[h].state \in states
Tcp(h) == Exists(h) /\ objects[h].protocol = "tcp"
Udp(h) == Exists(h) /\ objects[h].protocol = "udp"

Became(h, changed) == objects' = [objects EXCEPT ![h] = changed]

(* The object is changed if the call succeeded. *)
OnSuccess(h, changed) == objects' = IF Answered THEN [objects EXCEPT ![h] = changed] ELSE objects

Add(h, object) == objects' = [o \in DOMAIN objects \cup {h} |-> IF o = h THEN object ELSE objects[o]]

(* new_tcp, new_udp and the four constructors that call them *)
New(protocol) ==
  /\ Raw(InProcess!CreateSocket(protocol), OnHost!CreateSocket(protocol))
  /\ IF Answered
     THEN Add(nextHandle, [protocol |-> protocol, state |-> "Created", local |-> FALSE, remote |-> FALSE])
     ELSE UNCHANGED objects

(* Mistake: the state is changed even if the call failed. *)
BindToIpAnyway(h) ==
  /\ InState(h, {"Created"})
  /\ Raw(InProcess!Bind(h), OnHost!Bind(h, TRUE))
  /\ Became(h, [objects[h] EXCEPT !.state = "Bound", !.local = TRUE])

(* bind_to_ip and bind_with_binding *)
SocketBindToIp(h) ==
  /\ InState(h, {"Created"})
  /\ Raw(InProcess!Bind(h), OnHost!Bind(h, TRUE))
  /\ OnSuccess(h, [objects[h] EXCEPT !.state = "Bound", !.local = TRUE])

(* bind keeps the address before it asks for it. *)
SocketBind(h, isAddress) ==
  /\ InState(h, {"Created"})
  /\ Raw(InProcess!Bind(h), OnHost!Bind(h, isAddress))
  /\ Became(h, [objects[h] EXCEPT !.state = IF Answered THEN "Bound" ELSE @,
                                  !.local = @ \/ isAddress])

(* Mistake: the state of the object is not asked for. *)
ListenUnbound(h) ==
  /\ Tcp(h) /\ InState(h, {"Created", "Bound"})
  /\ Raw(InProcess!Listen(h), OnHost!Listen(h))
  /\ OnSuccess(h, [objects[h] EXCEPT !.state = "Listening"])

SocketListen(h) ==
  /\ Tcp(h) /\ InState(h, {"Bound"})
  /\ Raw(InProcess!Listen(h), OnHost!Listen(h))
  /\ OnSuccess(h, [objects[h] EXCEPT !.state = "Listening"])

SocketConnect(h, isAddress) ==
  /\ Tcp(h) /\ InState(h, {"Created", "Bound"})
  /\ Raw(InProcess!Connect(h), OnHost!Connect(h, isAddress))
  /\ OnSuccess(h, [objects[h] EXCEPT !.state = "Connected", !.remote = TRUE])

(* Mistake: the accepted object takes the handle after the new one. *)
AcceptAhead(h) ==
  /\ Tcp(h) /\ InState(h, {"Listening"})
  /\ Raw(InProcess!Accept(h), OnHost!Accept(h))
  /\ IF Answered
     THEN Add(nextHandle', [objects[h] EXCEPT !.state = "Connected", !.remote = FALSE])
     ELSE UNCHANGED objects

SocketAccept(h) ==
  /\ Tcp(h) /\ InState(h, {"Listening"})
  /\ Raw(InProcess!Accept(h), OnHost!Accept(h))
  /\ IF Answered
     THEN Add(nextHandle, [objects[h] EXCEPT !.state = "Connected", !.remote = FALSE])
     ELSE UNCHANGED objects

MayTransfer(h) == InState(h, {"Connected"}) \/ (Udp(h) /\ InState(h, {"Bound"}))

SocketSend(h) == MayTransfer(h) /\ Raw(InProcess!Send(h), OnHost!Send(h)) /\ UNCHANGED objects
SocketRecv(h) == MayTransfer(h) /\ Raw(InProcess!Receive(h), OnHost!Receive(h)) /\ UNCHANGED objects

(* send_to and recv_from *)
SocketSendToOrRecvFrom(h) ==
  /\ Udp(h) /\ InState(h, {"Bound"})
  /\ Raw(InProcess!SendToOrReceiveFrom(h), OnHost!SendToOrReceiveFrom(h))
  /\ UNCHANGED objects

SocketClose(h) ==
  /\ Exists(h) /\ ~InState(h, {"Closed"})
  /\ Raw(InProcess!Close(h), OnHost!Close(h))
  /\ OnSuccess(h, [objects[h] EXCEPT !.state = "Closed"])

(* Mistake: an object that goes out of scope closes nothing. *)
DropSilently(h) ==
  /\ Exists(h)
  /\ UNCHANGED raw
  /\ objects' = Restrict(objects, DOMAIN objects \ {h})

(* Drop: close, whose error is ignored. *)
SocketDrop(h) ==
  /\ Exists(h)
  /\ IF InState(h, {"Closed"}) THEN UNCHANGED raw
     ELSE Raw(InProcess!Close(h), OnHost!Close(h))
  /\ objects' = Restrict(objects, DOMAIN objects \ {h})

Method(h) ==
  \/ \E isAddress \in BOOLEAN : SocketBind(h, isAddress) \/ SocketConnect(h, isAddress)
  \/ SocketBindToIp(h) \/ SocketListen(h) \/ SocketAccept(h) \/ SocketSend(h) \/ SocketRecv(h)
  \/ SocketSendToOrRecvFrom(h) \/ SocketClose(h) \/ SocketDrop(h)

SocketNext ==
  /\ (\E p \in {"tcp", "udp"} : New(p)) \/ \E h \in ObjectHandle : Method(h)
  /\ UNCHANGED native

SocketSpec == SocketInit /\ [][SocketNext]_socketVars

-----------------------------------------------------------------------------
SocketTypeOK ==
  /\ native \in BOOLEAN
  /\ DOMAIN objects \subseteq ObjectHandle
  /\ \A h \in DOMAIN objects : objects[h] \in Object
  /\ nextHandle \in 1 .. MaxSockets + 1
  /\ native => \A h \in DOMAIN entries : entries[h] \in InProcess!SocketInfo

(* Nothing leaks and nothing is shared: the registry holds exactly the     *)
(* sockets of the objects that are alive and not closed, whatever failed   *)
(* before they were closed or dropped.                                     *)
OneObjectPerSocket ==
  DOMAIN entries = {h \in DOMAIN objects : objects[h].state # "Closed"}

(* What the host may have come to while the object believes in a state:    *)
(* an operation that failed or timed out leaves the object as it was.      *)
Believes(state, onHost) ==
  \/ state = "Created" /\ onHost \in {"unbound", "bind-in-progress", "connect-in-progress", "closed"}
  \/ state = "Bound" /\ onHost \in {"bound", "connect-in-progress", "listen-in-progress", "closed"}
  \/ state = "Listening" /\ onHost = "listening"
  \/ state = "Connected" /\ onHost = "connected"
  \/ state = "Closed" /\ onHost = "none"

(* The object never claims what its socket has not got: is_connected and   *)
(* is_listening are exact, and is_bound is never true of an unbound one.   *)
StatesAgree ==
  \A h \in DOMAIN objects :
    IF native
    THEN objects[h].state # "Closed" =>
           /\ entries[h].connected <=> objects[h].state = "Connected"
           /\ entries[h].listening <=> objects[h].state = "Listening"
           /\ objects[h].state = "Bound" => entries[h].bound
    ELSE Believes(objects[h].state, hostSockets[h])

(* The checks of the object make those of the native registry unnecessary: *)
(* no call that it lets through is ever answered with InvalidInput.        *)
ChecksSuffice == native => reply.result # "invalid"

(* Objects, registry and host agree, whatever failed half-way: no object   *)
(* of the type Socket claims, shares or leaks what its socket has not got, *)
(* over either registry.                                                   *)
ObjectsAgree == SocketTypeOK /\ OneObjectPerSocket /\ StatesAgree /\ ChecksSuffice
=============================================================================

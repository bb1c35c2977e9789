---------------------------- MODULE WasiSockets -----------------------------
(***************************************************************************)
(* The socket registry of the WASM build (socket/wasi_impl_real.rs) over   *)
(* the sockets of the host, as the WIT files of the repository define      *)
(* them (core-libs/wit/deps).  The build has one thread, and every call    *)
(* holds the lock of the registry: a call is one step, which begins an     *)
(* operation of the host and asks up to MAX_ASYNC_SPINS times whether it   *)
(* is finished.  What the host answers is its choice.                      *)
(***************************************************************************)
EXTENDS Integers, Functions

CONSTANT MaxHandle   \* bound: the registry hands out 1 .. MaxHandle

ASSUME WasiAssumption == MaxHandle \in Nat

VARIABLES
  sockets,  \* SocketRegistry.sockets: what it holds of each registered socket
  next,     \* SocketRegistry.next_id
  host,     \* the state of the socket of the host that belongs to an id
  trap,     \* why the host has ended the component, or "no"
  answer    \* the last call: its operation, the id and the result

wasiVars == <<sockets, next, host, trap, answer>>

Handle == 1 .. MaxHandle
Protocol == {"tcp", "udp"}

(* TcpState and UdpState; the two streams of a connection come together. *)
Entry == [protocol : Protocol, streams : BOOLEAN]

HostState == {"unbound", "bind-in-progress", "bound", "connect-in-progress", "connected",
              "listen-in-progress", "listening", "closed"}
InProgress == {"bind-in-progress", "connect-in-progress", "listen-in-progress"}

(* Codes of the host after convert_error, which makes invalid-state and    *)
(* concurrency-conflict "other".                                           *)
HostError == {"refused", "timeout"}
Operation == {"none", "create", "bind", "connect", "listen", "accept", "send", "receive",
              "datagram", "address", "close"}
Result == {"ok", "invalid", "other", "reset"} \cup HostError
Answer == [op : Operation, handle : Handle \cup {0}, result : Result]

WasiInit ==
  /\ sockets = << >>
  /\ next = 1
  /\ host = [h \in Handle |-> "none"]
  /\ trap = "no"
  /\ answer = [op |-> "none", handle |-> 0, result |-> "ok"]

-----------------------------------------------------------------------------
Registered(h) == h \in DOMAIN sockets
IsTcp(h) == Registered(h) /\ sockets[h].protocol = "tcp"

Reply(op, h, result) == answer' = [op |-> op, handle |-> h, result |-> result]
Reject(op, h) == Reply(op, h, "invalid") /\ UNCHANGED <<sockets, next, host, trap>>

(* Mistake: the number is incremented first. *)
RegisterAhead(entry, state) ==
  /\ sockets' = [h \in DOMAIN sockets \cup {next + 1} |-> IF h = next + 1 THEN entry ELSE sockets[h]]
  /\ host' = [host EXCEPT ![next + 1] = state]
  /\ next' = next + 1

(* Mistake: the smallest number that is not in use is taken again. *)
RegisterReusing(entry, state) ==
  LET id == CHOOSE i \in Handle : i \notin DOMAIN sockets /\ \A j \in 1 .. i-1 : j \in DOMAIN sockets
  IN  /\ sockets' = [h \in DOMAIN sockets \cup {id} |-> IF h = id THEN entry ELSE sockets[h]]
      /\ host' = [host EXCEPT ![id] = state]
      /\ next' = next + 1

(* SocketRegistry::register. *)
Register(entry, state) ==
  /\ sockets' = [h \in DOMAIN sockets \cup {next} |-> IF h = next THEN entry ELSE sockets[h]]
  /\ host' = [host EXCEPT ![next] = state]
  /\ next' = next + 1

(* Mistake: an operation that is in progress is waited for again. *)
SpinWaitResuming(state, from, pending, reached, failed) ==
  IF state \notin from \cup {pending} THEN {<<state, "other">>}
  ELSE {<<reached, "ok">>, <<pending, "timeout">>} \cup (failed \X HostError)

(* spin_wait: the states and results after an operation that the host      *)
(* accepts in the states from.  The operation is reached, or fails, or is  *)
(* still in progress when the call gives up.                               *)
SpinWait(state, from, pending, reached, failed) ==
  IF state \notin from THEN {<<state, "other">>}
  ELSE {<<reached, "ok">>, <<pending, "timeout">>} \cup (failed \X HostError)

HostSteps(op, h, outcomes) ==
  \E outcome \in outcomes :
    /\ host' = [host EXCEPT ![h] = outcome[1]]
    /\ Reply(op, h, outcome[2])

BindOutcomes(h) == SpinWait(host[h], {"unbound"}, "bind-in-progress", "bound", {"unbound"})
ConnectOutcomes(h) == SpinWait(host[h], {"unbound", "bound"}, "connect-in-progress", "connected", {host[h], "closed"})
ListenOutcomes(h) == SpinWait(host[h], {"bound"}, "listen-in-progress", "listening", {"bound", "closed"})

-----------------------------------------------------------------------------
CreateSocket(protocol) ==
  /\ trap = "no" /\ next <= MaxHandle
  /\ \/ Register([protocol |-> protocol, streams |-> FALSE], "unbound") /\ Reply("create", next, "ok")
     \/ Reply("create", 0, "other") /\ UNCHANGED <<sockets, next, host>>
  /\ UNCHANGED trap

(* A host name is not an address: parse_socket_address refuses it. *)
Bind(h, isAddress) ==
  /\ trap = "no"
  /\ IF isAddress /\ Registered(h)
     THEN HostSteps("bind", h, BindOutcomes(h)) /\ UNCHANGED <<sockets, next, trap>>
     ELSE Reject("bind", h)

(* Mistake: the streams are kept in mind before the result is known. *)
ConnectEagerly(h, isAddress) ==
  /\ trap = "no"
  /\ IF isAddress /\ IsTcp(h)
     THEN /\ HostSteps("connect", h, ConnectOutcomes(h))
          /\ sockets' = [sockets EXCEPT ![h].streams = TRUE]
          /\ UNCHANGED <<next, trap>>
     ELSE Reject("connect", h)

Connect(h, isAddress) ==
  /\ trap = "no"
  /\ IF isAddress /\ IsTcp(h)
     THEN /\ HostSteps("connect", h, ConnectOutcomes(h))
          /\ sockets' = IF answer'.result = "ok" THEN [sockets EXCEPT ![h].streams = TRUE] ELSE sockets
          /\ UNCHANGED <<next, trap>>
     ELSE Reject("connect", h)

Listen(h) ==
  /\ trap = "no"
  /\ IF IsTcp(h)
     THEN HostSteps("listen", h, ListenOutcomes(h)) /\ UNCHANGED <<sockets, next, trap>>
     ELSE Reject("listen", h)

(* A client that has gone before its address is asked for is dropped, its  *)
(* streams first.                                                          *)
Accept(h) ==
  /\ trap = "no"
  /\ IF ~IsTcp(h) THEN Reject("accept", h)
     ELSE IF host[h] # "listening"
     THEN Reply("accept", h, "other") /\ UNCHANGED <<sockets, next, host, trap>>
     ELSE /\ UNCHANGED trap
          /\ \/ /\ next <= MaxHandle
                /\ Register([protocol |-> "tcp", streams |-> TRUE], "connected")
                /\ Reply("accept", h, "ok")
             \/ /\ \E e \in HostError \cup {"other"} : Reply("accept", h, e)
                /\ UNCHANGED <<sockets, next, host>>

(* output.write without check_write: the host may accept it, report that   *)
(* the stream is closed, or trap.                                          *)
Send(h) ==
  /\ trap = "no"
  /\ IF IsTcp(h) /\ sockets[h].streams
     THEN /\ UNCHANGED <<sockets, next, host>>
          /\ \/ (\E r \in {"ok", "reset", "other"} : Reply("send", h, r)) /\ UNCHANGED trap
             \/ trap' = "unpermitted write" /\ UNCHANGED answer
     ELSE Reject("send", h)

(* A closed stream reads as an empty answer. *)
Receive(h) ==
  /\ trap = "no"
  /\ IF IsTcp(h) /\ sockets[h].streams
     THEN /\ \E r \in {"ok", "other"} : Reply("receive", h, r)
          /\ UNCHANGED <<sockets, next, host, trap>>
     ELSE Reject("receive", h)

SendToOrReceiveFrom(h) ==
  /\ trap = "no"
  /\ Reply("datagram", h, "other")
  /\ UNCHANGED <<sockets, next, host, trap>>

(* get_peer_address and get_local_address *)
Address(h, peer) ==
  LET known == IF peer THEN {"connected"} ELSE HostState \ {"unbound", "bind-in-progress", "closed"}
  IN  /\ trap = "no"
      /\ IF IsTcp(h) \/ (Registered(h) /\ ~peer)
         THEN /\ Reply("address", h, IF host[h] \in known THEN "ok" ELSE "other")
              /\ UNCHANGED <<sockets, next, host, trap>>
         ELSE Reject("address", h)

(* Dropping a socket of the host while its streams exist is a trap. *)
DropSocket(h, streams) ==
  /\ host' = [host EXCEPT ![h] = "none"]
  /\ trap' = IF streams THEN "live children" ELSE trap

(* Mistake: the fields of the state are dropped in their order. *)
CloseInOrder(h) ==
  /\ trap = "no"
  /\ IF Registered(h)
     THEN /\ sockets' = Restrict(sockets, DOMAIN sockets \ {h})
          /\ DropSocket(h, sockets[h].streams)
          /\ Reply("close", h, "ok") /\ UNCHANGED next
     ELSE Reject("close", h)

(* Mistake: the entry goes and the socket stays. *)
CloseLeaking(h) ==
  /\ trap = "no"
  /\ IF Registered(h)
     THEN /\ sockets' = Restrict(sockets, DOMAIN sockets \ {h})
          /\ Reply("close", h, "ok") /\ UNCHANGED <<next, host, trap>>
     ELSE Reject("close", h)

(* The streams are taken out of the entry and dropped first. *)
Close(h) ==
  /\ trap = "no"
  /\ IF Registered(h)
     THEN /\ sockets' = Restrict(sockets, DOMAIN sockets \ {h})
          /\ DropSocket(h, FALSE)
          /\ Reply("close", h, "ok") /\ UNCHANGED next
     ELSE Reject("close", h)

WasiNext ==
  \/ \E p \in Protocol : CreateSocket(p)
  \/ \E h \in Handle :
       \/ \E isAddress \in BOOLEAN : Bind(h, isAddress) \/ Connect(h, isAddress)
       \/ Listen(h) \/ Accept(h) \/ Send(h) \/ Receive(h) \/ SendToOrReceiveFrom(h)
       \/ \E peer \in BOOLEAN : Address(h, peer)
       \/ Close(h)

WasiSpec == WasiInit /\ [][WasiNext]_wasiVars

-----------------------------------------------------------------------------
WasiTypeOK ==
  /\ DOMAIN sockets \subseteq Handle
  /\ \A h \in DOMAIN sockets : sockets[h] \in Entry
  /\ next \in 1 .. MaxHandle + 1
  /\ host \in [Handle -> HostState \cup {"none"}]
  /\ trap \in {"no", "unpermitted write", "live children"}
  /\ answer \in Answer

(* No socket of the host is lost or shared: there is one for each entry of *)
(* the registry and no other.                                              *)
HostSocketsOwned == \A h \in Handle : Registered(h) <=> host[h] # "none"

(* The registry has the streams of a socket exactly if the host has it     *)
(* connected, however connect and accept failed before.                    *)
StreamsOfConnections == \A h \in DOMAIN sockets : sockets[h].streams <=> host[h] = "connected"

(* No socket of the host is dropped before the streams that depend on it. *)
ChildrenFirst == trap # "live children"

(* A number that has been given back is never given out again: a call with *)
(* it is refused and reaches no other socket.                              *)
NotReused == \A h \in Handle : ~Registered(h) /\ h < next => h \notin DOMAIN sockets'

NumbersNotReused == [][NotReused]_wasiVars

(* After a bind, connect or listen that timed out the operation is still   *)
(* in progress at the host.  As every retry begins with start-..., which   *)
(* the host refuses, none ever succeeds: all that is left is close.        *)
OnlyClosed ==
  \A h \in DOMAIN sockets : host[h] \in InProgress =>
    \/ host'[h] = host[h]
    \/ answer'.op = "close" /\ answer'.handle = h

TimedOutForGood == [][OnlyClosed]_wasiVars

(* Registry and host agree about what exists and what is connected.        *)
HostAgrees == WasiTypeOK /\ HostSocketsOwned /\ StreamsOfConnections /\ ChildrenFirst

(* What is over stays over: a closed number, an operation that timed out.  *)
OverForGood == [][NotReused /\ OnlyClosed]_wasiVars
=============================================================================

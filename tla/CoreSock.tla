------------------------------ MODULE CoreSock ------------------------------
(***************************************************************************)
(* The early plugins: the resource sock of core (plugins/core/src/lib.rs)  *)
(* over the sockets of the host, and its client: the action of tcp-client  *)
(* (plugins/tcp-client/src/lib.rs), which demo and its like call.  The     *)
(* components have one thread.  The arguments id, ip and port are left     *)
(* out: the client gives the id that bind checks, send, recv and close do  *)
(* not look at it, and bind always connects to one address.                *)
(***************************************************************************)
EXTENDS Integers, Sequences

CONSTANT MaxSockets   \* bound: sockets of the host made in all

ASSUME CoreSockAssumption == MaxSockets \in Nat

VARIABLES
  anyOrder,   \* whether the methods are called in any order, or as tcp-client does
  sockState,  \* "idle", "connecting", "panicked", "trapped" by a write, or "orphaned"
               \* by the drop of a socket under its streams, a trap too
  sockType,   \* sock_type
  sock,       \* the socket of the host that is held, or 0
  input,      \* the connection whose input stream is held, or 0
  output,     \* the connection whose output stream is held, or 0
  lastMade,   \* the last socket made
  position    \* the position of the client in its action

coreVars == <<anyOrder, sockState, sockType, sock, input, output, lastMade, position>>

HostSocket == 0 .. MaxSockets

(* TcpClient::do_action *)
Action == <<"newsock", "bind", "send", "recv", "close">>

CoreInit ==
  /\ anyOrder \in BOOLEAN
  /\ sockState = "idle" /\ sockType = 0
  /\ sock = 0 /\ input = 0 /\ output = 0 /\ lastMade = 0
  /\ position = 1

-----------------------------------------------------------------------------
(* Mistake: the client does not come to its end. *)
CalledOn(method) ==
  /\ sockState = "idle"
  /\ anyOrder \/ Action[position] = method
  /\ position' = position + 1

(* Mistake: the client begins again with the second method. *)
CalledAgain(method) ==
  /\ sockState = "idle"
  /\ anyOrder \/ Action[position] = method
  /\ position' = IF position = Len(Action) THEN 2 ELSE position + 1

(* A method is called; the client goes on to the next. *)
Called(method) ==
  /\ sockState = "idle"
  /\ anyOrder \/ Action[position] = method
  /\ position' = IF position = Len(Action) THEN 1 ELSE position + 1

NewSock(t) ==
  /\ Called("newsock") /\ (anyOrder \/ t = 1) /\ lastMade < MaxSockets
  /\ sockType' = t
  /\ UNCHANGED <<anyOrder, sockState, sock, input, output, lastMade>>

(* bind makes a socket and begins to connect it. *)
Bind ==
  /\ Called("bind")
  /\ IF sockType = 1
     THEN /\ lastMade < MaxSockets /\ lastMade' = lastMade + 1
          /\ sockState' \in {"connecting", "panicked"}
     ELSE UNCHANGED <<lastMade, sockState>>
  /\ UNCHANGED <<anyOrder, sockType, sock, input, output>>

(* The socket is replaced before its streams: an old one that still has    *)
(* streams is dropped under them.                                          *)
Connected ==
  IF sock # 0 /\ sock \in {input, output}
  THEN sockState' = "orphaned" /\ UNCHANGED <<sock, input, output>>
  ELSE sockState' = "idle" /\ sock' = lastMade /\ input' = lastMade /\ output' = lastMade

(* Mistake: the input stream is not kept. *)
FinishConnectOnce ==
  /\ sockState = "connecting" /\ sockState' = "idle"
  /\ sock' = lastMade /\ output' = lastMade
  /\ UNCHANGED <<anyOrder, sockType, input, lastMade, position>>

(* finish_connect is called without a pause until it answers; a would-     *)
(* block is a stuttering step.                                             *)
FinishConnect ==
  /\ sockState = "connecting"
  /\ Connected \/ (sockState' = "panicked" /\ UNCHANGED <<sock, input, output>>)
  /\ UNCHANGED <<anyOrder, sockType, lastMade, position>>

(* Without a stream nothing is sent and nothing received; with one an      *)
(* error is printed.  write is called without check-write before it, on    *)
(* which the host may trap.                                                *)
Send ==
  /\ Called("send")
  /\ UNCHANGED sockState \/ (output # 0 /\ sockState' = "trapped")
  /\ UNCHANGED <<anyOrder, sockType, sock, input, output, lastMade>>
Recv == Called("recv") /\ UNCHANGED <<anyOrder, sockState, sockType, sock, input, output, lastMade>>

(* Mistake: the fields are emptied in their order. *)
CloseInOrder ==
  /\ Called("close")
  /\ IF sock # 0 /\ sock \in {input, output} THEN sockState' = "orphaned" ELSE UNCHANGED sockState
  /\ sock' = 0 /\ input' = 0 /\ output' = 0
  /\ UNCHANGED <<anyOrder, sockType, lastMade>>

(* The streams are dropped first. *)
Close ==
  /\ Called("close")
  /\ sock' = 0 /\ input' = 0 /\ output' = 0
  /\ UNCHANGED <<anyOrder, sockState, sockType, lastMade>>

CoreNext == (\E t \in 0 .. 1 : NewSock(t)) \/ Bind \/ FinishConnect \/ Send \/ Recv \/ Close

(* The action goes on, and the host answers in the end. *)
CoreSpec == CoreInit /\ [][CoreNext]_coreVars /\ WF_coreVars(CoreNext)

-----------------------------------------------------------------------------
CoreTypeOK ==
  /\ anyOrder \in BOOLEAN
  /\ sockState \in {"idle", "connecting", "panicked", "trapped", "orphaned"}
  /\ sockType \in 0 .. 1 /\ position \in 1 .. Len(Action)
  /\ {sock, input, output, lastMade} \subseteq HostSocket

(* The streams that are held are those of the socket that is held, in      *)
(* whatever order the methods are called.                                  *)
OneConnection == sock = input /\ input = output

(* As tcp-client calls it no socket is ever dropped under its streams,     *)
(* however often the action is repeated.                                   *)
ChildrenFirst == ~anyOrder => sockState # "orphaned"

(* Every action comes to its end, to a panic or to the trap of a write. *)
ActionEnds == position # 1 ~> (position = 1 \/ sockState \in {"panicked", "trapped"} \/ anyOrder)

(* Socks keep one connection and are closed in order.                      *)
SocksInOrder == CoreTypeOK /\ OneConnection /\ ChildrenFirst
=============================================================================

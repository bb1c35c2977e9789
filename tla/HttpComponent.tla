--------------------------- MODULE HttpComponent ----------------------------
(***************************************************************************)
(* execute_http_request of the HTTP action as a WASM component             *)
(* (actions-http/src/component.rs), over objects of the type Socket: one   *)
(* request after the other as do_http_action makes them.  An action whose  *)
(* URL holds an unresolved template is skipped, one whose URL does not     *)
(* parse or is https fails before there is a socket: nothing happens.  The *)
(* registry is the one over the host.                                      *)
(***************************************************************************)
EXTENDS HttpExchange, SocketApi

CONSTANT MaxAttempts   \* MAX_ATTEMPTS

ASSUME HttpComponentAssumption == MaxAttempts \in Nat

VARIABLES
  method,    \* the method of the socket that is called next; "idle" between requests
  action,    \* whether the host of the URL is an address; whether there is a bind_ip
  socket,    \* the handle of socket
  attempts,  \* attempts
  ended      \* why the reading loop was left

componentVars == <<method, action, socket, attempts, ended, socketVars, exchangeVars>>

Action == [isAddress : BOOLEAN, bind : BOOLEAN]
MethodName == {"idle", "new", "bind", "connect", "send", "recv", "close", "drop"}
Ending == {"none", "empty", "whole", "attempts", "error"}

ComponentInit ==
  /\ method = "idle" /\ action \in Action /\ socket = 0 /\ attempts = 0 /\ ended = "none"
  /\ SocketInit /\ ~native /\ ExchangeInit

-----------------------------------------------------------------------------
BeginAction ==
  /\ method = "idle" /\ trapped = "no" /\ nextHandle <= MaxSockets
  /\ action' \in Action /\ NewExchange
  /\ method' = "new" /\ socket' = 0 /\ attempts' = 0 /\ ended' = "none"
  /\ UNCHANGED socketVars

NewSocket ==
  /\ method = "new" /\ New("tcp")
  /\ IF Answered
     THEN socket' = nextHandle /\ method' = IF action.bind THEN "bind" ELSE "connect"
     ELSE socket' = 0 /\ method' = "idle"
  /\ UNCHANGED <<action, attempts, ended, exchangeVars>>

(* Mistake: the error path leaves without the object going out of scope. *)
GoOnForgetting(step) ==
  /\ method' = IF Answered THEN step ELSE "idle"
  /\ UNCHANGED <<action, socket, attempts, ended, exchangeVars>>

(* The operator ? : an error leaves the function, which drops the object. *)
GoOnOrDrop(step) ==
  /\ method' = IF Answered THEN step ELSE "drop"
  /\ UNCHANGED <<action, socket, attempts, ended, exchangeVars>>

BindSocket == method = "bind" /\ SocketBindToIp(socket) /\ GoOnOrDrop("connect")
ConnectSocket == method = "connect" /\ SocketConnect(socket, action.isAddress) /\ GoOnOrDrop("send")

SendRequest ==
  /\ method = "send" /\ SocketSend(socket)
  /\ IF trapped' = "no" THEN GoOnOrDrop("recv")
     ELSE UNCHANGED <<method, action, socket, attempts, ended, exchangeVars>>

Leave(ending) == method' = "close" /\ ended' = ending

(* Mistake: an empty read is no ending, and the attempts start again. *)
RecvEndless ==
  /\ method = "recv" /\ SocketRecv(socket)
  /\ attempts' = IF attempts = MaxAttempts THEN 0 ELSE attempts + 1
  /\ IF ~Answered THEN Leave("error") /\ UNCHANGED exchangeVars
     ELSE \/ ReadEmpty /\ UNCHANGED <<method, ended>>
          \/ ReadChunk /\ IF Whole(received') THEN Leave("whole") ELSE UNCHANGED <<method, ended>>
  /\ UNCHANGED <<action, socket>>

(* Mistake: the limit is compared after one attempt too many. *)
RecvOnceMore ==
  /\ method = "recv" /\ attempts' = attempts + 1
  /\ IF attempts > MaxAttempts THEN Leave("attempts") /\ UNCHANGED <<socketVars, exchangeVars>>
     ELSE /\ SocketRecv(socket)
          /\ IF Answered
             THEN \/ ReadEmpty /\ Leave("empty")
                  \/ ReadChunk /\ IF Whole(received') THEN Leave("whole") ELSE UNCHANGED <<method, ended>>
             ELSE Leave("error") /\ UNCHANGED exchangeVars
  /\ UNCHANGED <<action, socket>>

(* One turn of the loop.  Any empty read ends it. *)
RecvResponse ==
  /\ method = "recv" /\ attempts' = attempts + 1
  /\ IF attempts = MaxAttempts THEN Leave("attempts") /\ UNCHANGED <<socketVars, exchangeVars>>
     ELSE /\ SocketRecv(socket)
          /\ IF Answered
             THEN \/ ReadEmpty /\ Leave("empty")
                  \/ ReadChunk /\ IF Whole(received') THEN Leave("whole") ELSE UNCHANGED <<method, ended>>
             ELSE /\ method' = IF received = 0 THEN "drop" ELSE "close"
                  /\ ended' = "error" /\ UNCHANGED exchangeVars
  /\ UNCHANGED <<action, socket>>

(* close, and then the result: no data or a head that does not parse is an *)
(* error.                                                                  *)
CloseSocket ==
  /\ method = "close" /\ SocketClose(socket) /\ method' = "drop"
  /\ UNCHANGED <<action, socket, attempts, ended, exchangeVars>>

LeaveScope ==
  /\ method = "drop" /\ SocketDrop(socket) /\ method' = "idle"
  /\ UNCHANGED <<action, socket, attempts, ended, exchangeVars>>

ComponentClient ==
  /\ NewSocket \/ BindSocket \/ ConnectSocket \/ SendRequest \/ RecvResponse
       \/ CloseSocket \/ LeaveScope
  /\ UNCHANGED native

ComponentPeer ==
  /\ method \in {"send", "recv"}
  /\ PeerSends \/ PeerCloses
  /\ UNCHANGED <<method, action, socket, attempts, ended, socketVars>>

ComponentNext == BeginAction \/ ComponentClient \/ ComponentPeer

(* The component runs on; nothing is assumed of the peer. *)
ComponentSpec == ComponentInit /\ [][ComponentNext]_componentVars /\ WF_componentVars(ComponentClient)

-----------------------------------------------------------------------------
ComponentTypeOK ==
  /\ method \in MethodName /\ action \in Action /\ ended \in Ending
  /\ socket \in 0 .. MaxSockets /\ attempts \in 0 .. MaxAttempts + 1
  /\ ExchangeTypeOK

(* Between requests there is no object and no socket, however the request  *)
(* before ended: what the guide asks of its callers the type does here.    *)
NothingLeft ==
  method = "idle" => objects = << >> /\ entries = << >> /\ \A h \in DOMAIN hostSockets : hostSockets[h] = "none"

(* When the whole announced response is there nothing more is read. *)
ComponentReadsToEnd ==
  method = "recv" /\ HeadRead(received) /\ response.declared # NoLength
    => received < HeadLen + response.declared

(* Every request comes back, whatever the peer does or leaves undone: the  *)
(* limit of the attempts holds for a peer that never ceases to send, too.  *)
EveryActionEnds == method # "idle" ~> (method = "idle" \/ trapped # "no")
=============================================================================

------------------------------ MODULE HttpSend ------------------------------
(***************************************************************************)
(* send_http_request of the HTTP actions (actions-http/src/lib.rs), one    *)
(* request after the other as do_action makes them, over the sockets of    *)
(* the host.  Each call of the registry is a step; the peer moves between  *)
(* them.  A URL that does not parse and one with https return before there *)
(* is a socket: nothing happens.                                           *)
(***************************************************************************)
EXTENDS HttpExchange, WasiSockets

CONSTANT Retries   \* EMPTY_READ_RETRIES

ASSUME HttpSendAssumption == Retries \in Nat

VARIABLES
  pc,          \* the call of send_http_request that is next; "idle" between requests
  request,     \* whether the host of the URL is an address; what to bind to
  handle,      \* socket
  emptyReads,  \* empty_reads
  results      \* what became of the request on each handle

sendVars == <<pc, request, handle, emptyReads, results, wasiVars, exchangeVars>>

Request == [isAddress : BOOLEAN, bind : {"no", "address", "text"}]
Step == {"idle", "create", "bind", "connect", "send", "receive", "close"}

SendInit ==
  /\ pc = "idle" /\ request \in Request /\ handle = 0 /\ emptyReads = 0
  /\ results = [h \in Handle |-> "none"]
  /\ WasiInit /\ ExchangeInit

-----------------------------------------------------------------------------
Succeeded == answer'.result = "ok"

(* do_action reads the request off the action and calls send_http_request. *)
Begin ==
  /\ pc = "idle" /\ trap = "no" /\ next <= MaxHandle
  /\ request' \in Request /\ NewExchange
  /\ pc' = "create" /\ handle' = 0 /\ emptyReads' = 0
  /\ UNCHANGED <<results, wasiVars>>

CallCreate ==
  /\ pc = "create" /\ CreateSocket("tcp")
  /\ IF Succeeded
     THEN handle' = next /\ pc' = IF request.bind = "no" THEN "connect" ELSE "bind"
     ELSE handle' = 0 /\ pc' = "idle"
  /\ UNCHANGED <<request, emptyReads, results, exchangeVars>>

(* An error returns at once, and nothing closes the socket. *)
GoOn(step) ==
  /\ pc' = IF Succeeded THEN step ELSE "idle"
  /\ results' = IF Succeeded THEN results ELSE [results EXCEPT ![handle] = "refused"]
  /\ UNCHANGED <<request, handle, emptyReads, exchangeVars>>

CallBind == pc = "bind" /\ Bind(handle, request.bind = "address") /\ GoOn("connect")
CallConnect == pc = "connect" /\ Connect(handle, request.isAddress) /\ GoOn("send")

CallSend ==
  /\ pc = "send" /\ Send(handle)
  /\ IF trap' = "no" THEN GoOn("receive")
     ELSE UNCHANGED <<pc, request, handle, emptyReads, results, exchangeVars>>

(* Mistake: the count of the retries starts again when it is used up. *)
EmptyForever ==
  /\ ReadEmpty
  /\ emptyReads' = IF emptyReads = Retries THEN 0 ELSE emptyReads + 1
  /\ UNCHANGED pc

(* Mistake: one retry more than are allowed. *)
EmptyOnceMore ==
  /\ ReadEmpty
  /\ IF received = 0 /\ emptyReads <= Retries
     THEN emptyReads' = emptyReads + 1 /\ UNCHANGED pc
     ELSE pc' = "close" /\ UNCHANGED emptyReads

(* Empty reads are tried again before the first byte only. *)
Empty ==
  /\ ReadEmpty
  /\ IF received = 0 /\ emptyReads < Retries
     THEN emptyReads' = emptyReads + 1 /\ UNCHANGED pc
     ELSE pc' = "close" /\ UNCHANGED emptyReads

Chunk ==
  /\ ReadChunk
  /\ emptyReads' = 0
  /\ pc' = IF Whole(received') THEN "close" ELSE "receive"

(* Mistake: an error of receive returns, whatever has been read. *)
ReceiveReturning ==
  /\ pc = "receive" /\ Receive(handle)
  /\ IF Succeeded THEN (Empty \/ Chunk) /\ UNCHANGED results
     ELSE /\ pc' = "idle"
          /\ results' = [results EXCEPT ![handle] = IF received = 0 THEN "refused" ELSE "error"]
          /\ UNCHANGED <<emptyReads, exchangeVars>>
  /\ UNCHANGED <<request, handle>>

(* An error of receive returns only if nothing has been read. *)
CallReceive ==
  /\ pc = "receive" /\ Receive(handle)
  /\ IF Succeeded THEN (Empty \/ Chunk) /\ UNCHANGED results
     ELSE /\ pc' = IF received = 0 THEN "idle" ELSE "close"
          /\ results' = IF received = 0 THEN [results EXCEPT ![handle] = "refused"] ELSE results
          /\ UNCHANGED <<emptyReads, exchangeVars>>
  /\ UNCHANGED <<request, handle>>

(* The result: an incomplete head is an error, and so is a status line     *)
(* that does not parse.                                                    *)
CallClose ==
  /\ pc = "close" /\ Close(handle)
  /\ pc' = "idle"
  /\ \E r \in IF HeadRead(received) THEN {"success", "failed", "error"} ELSE {"error"} :
       results' = [results EXCEPT ![handle] = r]
  /\ UNCHANGED <<request, handle, emptyReads, exchangeVars>>

Client == CallCreate \/ CallBind \/ CallConnect \/ CallSend \/ CallReceive \/ CallClose

Peer ==
  /\ pc \in {"send", "receive"}
  /\ PeerSends \/ PeerCloses
  /\ UNCHANGED <<pc, request, handle, emptyReads, results, wasiVars>>

SendNext == Begin \/ Client \/ Peer

(* The client runs on; nothing is assumed of the peer. *)
SendSpec == SendInit /\ [][SendNext]_sendVars /\ WF_sendVars(Client)

-----------------------------------------------------------------------------
SendTypeOK ==
  /\ pc \in Step /\ request \in Request
  /\ handle \in Handle \cup {0} /\ emptyReads \in 0 .. Retries
  /\ results \in [Handle -> {"none", "refused", "error", "success", "failed"}]
  /\ ExchangeTypeOK

(* The only sockets left behind are those of requests that were refused    *)
(* before a byte of the response was read: every other ending closes.      *)
OnlyRefusalsLeak ==
  \A h \in DOMAIN sockets : (h = handle /\ pc # "idle") \/ results[h] = "refused"

(* When the whole announced response is there nothing more is read: on a   *)
(* connection that stays open that read would find nothing.                *)
NoReadPastEnd ==
  pc = "receive" /\ HeadRead(received) /\ response.declared # NoLength
    => received < HeadLen + response.declared

(* Every request comes back to do_action, also when the peer does nothing: *)
(* the retries are counted, the pauses are not waited, and an announced    *)
(* length is reached.  The one way to hold it is a peer that announces no  *)
(* length and never ceases to send: nothing limits the loop's chunks.  A   *)
(* trap ends the component.                                                *)
HeldByPeer == pc = "receive" /\ surplus /\ response.declared = NoLength
EveryRequestEnds == []<>HeldByPeer \/ (pc # "idle" ~> (pc = "idle" \/ trap # "no"))
=============================================================================

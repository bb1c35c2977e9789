----------------------------- MODULE HttpProofs ------------------------------
(***************************************************************************)
(* Proofs about the two clients of HTTP actions, for any response, any     *)
(* number of retries and attempts and whatever peer and host do: what is   *)
(* left of a request, and that nothing is read past the announced end.     *)
(* The proof for the component rests on that of the objects it uses.       *)
(***************************************************************************)
EXTENDS HttpClients, SocketsProofs

(* The remainder is no greater than what is divided. *)
LEMMA ModBelow == ASSUME NEW n \in Nat, NEW w \in Nat \ {0} PROVE n % w <= n
<1>1. n % w \in 0 .. w - 1 /\ (n < w => n % w = n)
  OBVIOUS
<1> QED BY <1>1

LEMMA TotalIsNat == \A r \in Response : Total(r) \in Nat
<1> TAKE r \in Response
<1>1. r.body \in BodyLens \cup {Endless}
  BY DEF Response
<1>2. (r.body # Endless => r.body \in Nat) /\ HeadLen \in Nat /\ Counted \in Nat
  BY <1>1, ExchangeAssumption
<1> QED BY <1>2 DEF Total

LEMMA ExchangeStarts == ExchangeInit => ExchangeTypeOK
<1> SUFFICES ASSUME ExchangeInit PROVE ExchangeTypeOK
  OBVIOUS
<1> DEFINE n == Total(response)
<1>1. n \in Nat
  BY TotalIsNat DEF ExchangeInit
<1>2. response \in Response /\ sent = 0 /\ received = 0 /\ surplus = FALSE /\ peerClosed = FALSE
  BY DEF ExchangeInit
<1> HIDE DEF n
<1>3. sent \in 0 .. n /\ received \in 0 .. sent
  BY <1>1, <1>2
<1> QED BY <1>2, <1>3 DEF ExchangeTypeOK, n

(* Sent and received never run ahead of what there is. *)
LEMMA ExchangeKept ==
  ASSUME ExchangeTypeOK,
         NewExchange \/ PeerSends \/ PeerCloses \/ ReadEmpty \/ ReadChunk \/ UNCHANGED exchangeVars
  PROVE  ExchangeTypeOK'
<1> DEFINE n == Total(response)
           m == Total(response')
<1>0. /\ n \in Nat /\ response \in Response /\ sent \in 0 .. n /\ received \in 0 .. sent
      /\ surplus \in BOOLEAN /\ peerClosed \in BOOLEAN
  BY TotalIsNat DEF ExchangeTypeOK
<1>1. CASE NewExchange
  <2>1. /\ response' \in Response /\ m \in Nat /\ sent' = 0 /\ received' = 0
      /\ surplus' = FALSE /\ peerClosed' = FALSE
    BY <1>1, TotalIsNat DEF NewExchange
  <2> HIDE DEF n, m
  <2>2. sent' \in 0 .. m /\ received' \in 0 .. sent'
    BY <2>1
  <2>3. m = Total(response)'
    BY DEF m, Total
  <2> QED BY <2>1, <2>2, <2>3 DEF ExchangeTypeOK
<1>2. ASSUME UNCHANGED response, sent' \in 0 .. n, received' \in 0 .. sent',
             surplus' \in BOOLEAN, peerClosed' \in BOOLEAN
      PROVE  ExchangeTypeOK'
  <2>1. Total(response)' = n /\ response' \in Response
    BY <1>0, <1>2 DEF Total
  <2> HIDE DEF n
  <2> QED BY <1>2, <2>1 DEF ExchangeTypeOK
<1>3. CASE PeerSends
  <2>1. UNCHANGED <<response, received, peerClosed>>
    BY <1>3 DEF PeerSends
  <2>2. CASE sent' \in sent + 1 .. n /\ UNCHANGED surplus
    <3> HIDE DEF n
    <3>1. sent' \in 0 .. n /\ received \in 0 .. sent'
      BY <1>0, <2>2
    <3> QED BY <1>0, <1>2, <2>1, <2>2, <3>1
  <2>3. CASE surplus' = TRUE /\ UNCHANGED sent
    <3> HIDE DEF n
    <3> QED BY <1>0, <1>2, <2>1, <2>3
  <2> QED BY <1>3, <2>2, <2>3 DEF PeerSends
<1>4. CASE PeerCloses \/ ReadEmpty \/ UNCHANGED exchangeVars
  <2>1. UNCHANGED <<response, sent, surplus, received>> /\ peerClosed' \in BOOLEAN
    BY <1>0, <1>4 DEF PeerCloses, ReadEmpty, exchangeVars
  <2> HIDE DEF n
  <2> QED BY <1>0, <1>2, <2>1
<1>5. CASE ReadChunk
  <2>1. UNCHANGED <<response, sent, peerClosed>>
    BY <1>5 DEF ReadChunk
  <2>2. CASE received' \in received + 1 .. sent /\ UNCHANGED surplus
    <3> HIDE DEF n
    <3>1. received' \in 0 .. sent
      BY <1>0, <2>2
    <3> QED BY <1>0, <1>2, <2>1, <2>2, <3>1
  <2>3. CASE surplus' = FALSE /\ UNCHANGED received
    <3> HIDE DEF n
    <3> QED BY <1>0, <1>2, <2>1, <2>3
  <2> QED BY <1>5, <2>2, <2>3 DEF ReadChunk
<1> QED BY <1>1, <1>3, <1>4, <1>5

(* The loop has not seen the whole response: it is not there.              *)
LEMMA NotWhole ==
  ASSUME ExchangeTypeOK, ~Whole(received), HeadRead(received), response.declared # NoLength
  PROVE  received < HeadLen + response.declared
<1>1. HeadLen \in Nat /\ response.declared \in Nat /\ Word \in Nat \ {0}
  BY ExchangeAssumption DEF ExchangeTypeOK, Response
<1>2. received \in Nat
  BY TotalIsNat DEF ExchangeTypeOK
<1> DEFINE n == HeadLen + response.declared
<1>3. n \in Nat /\ ~(received >= n % Word)
  BY <1>1 DEF Whole, ExpectedLen
<1> HIDE DEF n
<1>4. n % Word <= n /\ n % Word \in Nat
  BY <1>1, <1>3, ModBelow
<1>5. received < n
  BY <1>2, <1>3, <1>4
<1> QED BY <1>5 DEF n

LEMMA NothingIsNotWhole == ASSUME received = 0 PROVE ~Whole(received)
  BY ExchangeAssumption DEF Whole, HeadRead

-----------------------------------------------------------------------------
(* The function of the program.  Nothing has been read before it receives, *)
(* and it receives only while the whole response is not there.             *)
LeftBehind ==
  \A h \in DOMAIN sockets :
    h \in Handle /\ ((h = handle /\ pc \notin {"idle", "create"}) \/ results[h] = "refused")

SendInv ==
  /\ SendTypeOK
  /\ next \in 1 .. MaxHandle + 1
  /\ pc \in {"bind", "connect", "send", "receive", "close"} => handle \in Handle
  /\ pc \in {"create", "bind", "connect", "send"} => received = 0
  /\ pc = "receive" => ~Whole(received)
  /\ LeftBehind

LEMMA SendIsSound == SendInv => SendTypeOK /\ OnlyRefusalsLeak /\ NoReadPastEnd
<1> SUFFICES ASSUME SendInv PROVE OnlyRefusalsLeak /\ NoReadPastEnd
  BY DEF SendInv
<1>1. OnlyRefusalsLeak
  BY DEF SendInv, LeftBehind, OnlyRefusalsLeak
<1>2. NoReadPastEnd
  BY NotWhole DEF SendInv, SendTypeOK, NoReadPastEnd
<1> QED BY <1>1, <1>2

LEMMA InitSendInv == SendInit => SendInv
<1> SUFFICES ASSUME SendInit PROVE SendInv
  OBVIOUS
<1>1. ExchangeTypeOK
  BY ExchangeStarts DEF SendInit
<1>2. SendTypeOK
  BY <1>1, HttpSendAssumption DEF SendInit, SendTypeOK, Step
<1>3. DOMAIN sockets = {}
  BY DEF SendInit, WasiInit
<1> QED BY <1>2, <1>3, WasiAssumption DEF SendInit, WasiInit, SendInv, LeftBehind

(* The calls that neither make nor close a socket. *)
LEMMA SameSockets ==
  ASSUME NEW h, NEW isAddress, Bind(h, isAddress) \/ Connect(h, isAddress) \/ Send(h) \/ Receive(h)
  PROVE  DOMAIN sockets' = DOMAIN sockets /\ UNCHANGED next
<1>1. CASE Connect(h, isAddress)
  BY <1>1 DEF Connect, Reject
<1> QED BY <1>1 DEF Bind, Send, Receive, Reject

(* A call that goes on, or leaves the socket behind as refused. *)
LEMMA GoOnKeeps ==
  ASSUME SendInv, pc \in {"bind", "connect", "send"}, NEW step \in {"connect", "send", "receive"},
         GoOn(step), DOMAIN sockets' = DOMAIN sockets, UNCHANGED next
  PROVE  SendInv'
<1>1. UNCHANGED <<request, handle, emptyReads, response, sent, surplus, peerClosed, received>>
  BY DEF GoOn, exchangeVars
<1>2. received = 0 /\ handle \in Handle /\ ExchangeTypeOK
  BY DEF SendInv, SendTypeOK
<1>3. ExchangeTypeOK'
  BY <1>1, <1>2, ExchangeKept DEF exchangeVars
<1>4. ~Whole(received)'
  BY <1>1, <1>2, ExchangeAssumption DEF Whole, HeadRead
<1>5. CASE Succeeded
  <2>1. pc' = step /\ UNCHANGED results
    BY <1>5 DEF GoOn
  <2>2. SendTypeOK'
    BY <1>1, <1>3, <2>1 DEF SendInv, SendTypeOK, Step
  <2>3. LeftBehind'
    BY <1>1, <2>1 DEF SendInv, LeftBehind
  <2> QED BY <1>1, <1>2, <1>4, <2>1, <2>2, <2>3 DEF SendInv
<1>6. CASE ~Succeeded
  <2>1. pc' = "idle" /\ results' = [results EXCEPT ![handle] = "refused"]
    BY <1>6 DEF GoOn
  <2>2. SendTypeOK'
    BY <1>1, <1>3, <2>1 DEF SendInv, SendTypeOK, Step
  <2>3. LeftBehind'
    BY <1>1, <2>1 DEF SendInv, SendTypeOK, LeftBehind
  <2> QED BY <1>1, <2>1, <2>2, <2>3 DEF SendInv
<1> QED BY <1>5, <1>6

LEMMA RequestBeginKeeps == ASSUME SendInv, Begin PROVE SendInv'
<1>1. ExchangeTypeOK'
  BY ExchangeKept DEF SendInv, SendTypeOK, Begin
<1>2. SendTypeOK'
  BY <1>1, HttpSendAssumption DEF SendInv, SendTypeOK, Begin, Step
<1>3. LeftBehind'
  BY DEF SendInv, LeftBehind, Begin, wasiVars
<1> QED BY <1>2, <1>3 DEF SendInv, Begin, NewExchange, wasiVars

LEMMA CallCreateKeeps == ASSUME SendInv, CallCreate PROVE SendInv'
<1>1. UNCHANGED <<request, emptyReads, results, response, sent, surplus, peerClosed, received>>
  BY DEF CallCreate, exchangeVars
<1>2. received = 0 /\ ExchangeTypeOK /\ pc = "create"
  BY DEF SendInv, SendTypeOK, CallCreate
<1>3. ExchangeTypeOK'
  BY <1>1, <1>2, ExchangeKept DEF exchangeVars
<1>4. CASE Succeeded
  <2>1. handle' = next /\ pc' \in {"bind", "connect"}
    BY <1>4 DEF CallCreate
  <2>2. next \in Handle
    BY WasiAssumption DEF SendInv, CallCreate, CreateSocket, Handle
  <2>3. DOMAIN sockets' = DOMAIN sockets \cup {next} /\ next' = next + 1
    BY <1>4 DEF CallCreate, CreateSocket, Register, Succeeded, Reply
  <2>4. SendTypeOK'
    BY <1>1, <1>3, <2>1, <2>2 DEF SendInv, SendTypeOK, Step
  <2>5. LeftBehind'
    BY <1>1, <1>2, <2>1, <2>2, <2>3 DEF SendInv, LeftBehind
  <2>6. next' \in 1 .. MaxHandle + 1
    BY <2>2, <2>3, WasiAssumption DEF Handle
  <2>7. received' = 0 /\ handle' \in Handle
    BY <1>1, <1>2, <2>1, <2>2
  <2> QED BY <2>1, <2>4, <2>5, <2>6, <2>7 DEF SendInv
<1>5. CASE ~Succeeded
  <2>1. handle' = 0 /\ pc' = "idle"
    BY <1>5 DEF CallCreate
  <2>2. UNCHANGED <<sockets, next>>
    BY <1>5 DEF CallCreate, CreateSocket, Succeeded, Reply
  <2>3. SendTypeOK'
    BY <1>1, <1>3, <2>1 DEF SendInv, SendTypeOK, Step
  <2>4. LeftBehind'
    BY <1>1, <1>2, <2>1, <2>2 DEF SendInv, LeftBehind
  <2> QED BY <2>1, <2>2, <2>3, <2>4 DEF SendInv
<1> QED BY <1>4, <1>5

LEMMA CallsKeep == ASSUME SendInv, CallBind \/ CallConnect \/ CallSend PROVE SendInv'
<1>1. CASE CallBind
  BY <1>1, SameSockets, GoOnKeeps DEF CallBind
<1>2. CASE CallConnect
  BY <1>2, SameSockets, GoOnKeeps DEF CallConnect
<1>3. CASE CallSend
  <2>1. DOMAIN sockets' = DOMAIN sockets /\ UNCHANGED next
    BY <1>3, SameSockets DEF CallSend
  <2>2. CASE trap' = "no"
    BY <1>3, <2>1, <2>2, GoOnKeeps DEF CallSend
  <2>3. CASE UNCHANGED <<pc, request, handle, emptyReads, results, exchangeVars>>
    <3>1. ExchangeTypeOK'
      BY <2>3, ExchangeKept DEF SendInv, SendTypeOK
    <3>2. SendTypeOK' /\ LeftBehind'
      BY <2>1, <2>3, <3>1 DEF SendInv, SendTypeOK, LeftBehind
    <3> QED BY <1>3, <2>1, <2>3, <3>2 DEF CallSend, SendInv, exchangeVars
  <2> QED BY <1>3, <2>2, <2>3 DEF CallSend
<1> QED BY <1>1, <1>2, <1>3

LEMMA ReceiveKeeps == ASSUME SendInv, CallReceive PROVE SendInv'
<1>1. /\ pc = "receive" /\ handle \in Handle /\ UNCHANGED <<request, handle>>
      /\ DOMAIN sockets' = DOMAIN sockets /\ UNCHANGED next
  BY SameSockets DEF SendInv, CallReceive
<1>2. CASE ~Succeeded
  <2>1. UNCHANGED <<emptyReads, response, sent, surplus, peerClosed, received>>
    BY <1>2 DEF CallReceive, exchangeVars
  <2>2. ExchangeTypeOK'
    BY <2>1, ExchangeKept DEF SendInv, SendTypeOK, exchangeVars
  <2>3. \/ pc' = "idle" /\ results' = [results EXCEPT ![handle] = "refused"]
        \/ pc' = "close" /\ UNCHANGED results
    BY <1>2 DEF CallReceive
  <2>4. SendTypeOK'
    BY <1>1, <2>1, <2>2, <2>3 DEF SendInv, SendTypeOK, Step
  <2>5. LeftBehind'
    BY <1>1, <2>3 DEF SendInv, SendTypeOK, LeftBehind
  <2> QED BY <1>1, <2>1, <2>3, <2>4, <2>5 DEF SendInv
<1>3. CASE Succeeded
  <2>1. (Empty \/ Chunk) /\ UNCHANGED results
    BY <1>3 DEF CallReceive
  <2>2. ExchangeTypeOK'
    BY <2>1, ExchangeKept DEF SendInv, SendTypeOK, Empty, Chunk
  <2>3. /\ pc' \in {"receive", "close"} /\ emptyReads' \in 0 .. Retries
        /\ pc' = "receive" => ~Whole(received)'
    <3>1. CASE Empty
      BY <1>1, <3>1, HttpSendAssumption
         DEF SendInv, SendTypeOK, Empty, ReadEmpty, exchangeVars, Whole, HeadRead, ExpectedLen
    <3>2. CASE Chunk
      BY <1>1, <3>2, HttpSendAssumption DEF Chunk, ReadChunk, Whole, HeadRead, ExpectedLen
    <3> QED BY <2>1, <3>1, <3>2
  <2>4. SendTypeOK'
    BY <1>1, <2>1, <2>2, <2>3 DEF SendInv, SendTypeOK, Step
  <2>5. LeftBehind'
    BY <1>1, <2>1, <2>3 DEF SendInv, LeftBehind
  <2> QED BY <1>1, <2>3, <2>4, <2>5 DEF SendInv
<1> QED BY <1>2, <1>3

LEMMA EndKeeps == ASSUME SendInv, CallClose PROVE SendInv'
<1>1. pc = "close" /\ handle \in Handle /\ pc' = "idle" /\ UNCHANGED <<request, handle, emptyReads, exchangeVars>>
  BY DEF SendInv, CallClose
<1>2. DOMAIN sockets' = DOMAIN sockets \ {handle} /\ UNCHANGED next
  BY DEF CallClose, Close, Registered, Restrict, Reject
<1>3. PICK r \in {"success", "failed", "error"} : results' = [results EXCEPT ![handle] = r]
  BY DEF CallClose
<1>4. ExchangeTypeOK'
  BY <1>1, ExchangeKept DEF SendInv, SendTypeOK
<1>5. SendTypeOK'
  BY <1>1, <1>3, <1>4 DEF SendInv, SendTypeOK, Step
<1>6. LeftBehind'
  BY <1>1, <1>2, <1>3 DEF SendInv, SendTypeOK, LeftBehind
<1> QED BY <1>1, <1>2, <1>5, <1>6 DEF SendInv

LEMMA PeerKeeps == ASSUME SendInv, Peer PROVE SendInv'
<1>1. UNCHANGED <<pc, request, handle, emptyReads, results, sockets, next, response, received>>
  BY DEF Peer, wasiVars, PeerSends, PeerCloses
<1>2. ExchangeTypeOK'
  BY ExchangeKept DEF SendInv, SendTypeOK, Peer
<1>3. SendTypeOK' /\ LeftBehind'
  BY <1>1, <1>2 DEF SendInv, SendTypeOK, LeftBehind
<1>4. Whole(received)' <=> Whole(received)
  BY <1>1 DEF Whole, HeadRead, ExpectedLen
<1> QED BY <1>1, <1>3, <1>4 DEF SendInv

LEMMA SendKept == ASSUME SendInv, SendNext \/ UNCHANGED sendVars PROVE SendInv'
<1>1. CASE UNCHANGED sendVars
  <2>1. UNCHANGED <<pc, request, handle, emptyReads, results, sockets, next, exchangeVars>>
    BY <1>1 DEF sendVars, wasiVars
  <2>2. ExchangeTypeOK'
    BY <2>1, ExchangeKept DEF SendInv, SendTypeOK
  <2>3. SendTypeOK' /\ LeftBehind'
    BY <2>1, <2>2 DEF SendInv, SendTypeOK, LeftBehind
  <2>4. Whole(received)' <=> Whole(received)
    BY <2>1 DEF Whole, HeadRead, ExpectedLen, exchangeVars
  <2> QED BY <2>1, <2>3, <2>4 DEF SendInv, exchangeVars
<1>2. CASE SendNext
  BY <1>2, RequestBeginKeeps, CallCreateKeeps, CallsKeep, ReceiveKeeps, EndKeeps, PeerKeeps DEF SendNext, Client
<1> QED BY <1>1, <1>2

LEMMA SendInvariant == SendSpec => []SendInv
<1>1. SendInv /\ [SendNext]_sendVars => SendInv'
  BY SendKept
<1> QED BY <1>1, InitSendInv, PTL DEF SendSpec

-----------------------------------------------------------------------------
(* The function of the WASM component.  There is an object exactly while   *)
(* the function is inside its scope.                                       *)
Functional ==
  /\ objects = [h \in DOMAIN objects |-> objects[h]]
  /\ entries = [h \in DOMAIN entries |-> entries[h]]

InScope == DOMAIN objects = IF method \in {"idle", "new"} THEN {} ELSE {socket}

ReadingInv ==
  /\ method \in {"new", "bind", "connect", "send"} => attempts = 0 /\ received = 0
  /\ method = "recv" => attempts <= MaxAttempts /\ ~Whole(received)

ComponentInv ==
  /\ ComponentTypeOK
  /\ SocketInv /\ ~native
  /\ Functional
  /\ InScope
  /\ ReadingInv

LEMMA EmptyFunction == ASSUME NEW f, f = [x \in DOMAIN f |-> f[x]], DOMAIN f = {} PROVE f = << >>
  OBVIOUS

LEMMA ComponentIsSound == ComponentInv => ComponentTypeOK /\ NothingLeft /\ ComponentReadsToEnd
<1> SUFFICES ASSUME ComponentInv PROVE NothingLeft /\ ComponentReadsToEnd
  BY DEF ComponentInv
<1>1. ASSUME method = "idle"
      PROVE  objects = << >> /\ entries = << >> /\ \A h \in DOMAIN hostSockets : hostSockets[h] = "none"
  <2>1. DOMAIN objects = {}
    BY <1>1 DEF ComponentInv, InScope
  <2>2. DOMAIN entries = {}
    BY <2>1 DEF ComponentInv, SocketInv, OneObjectPerSocket
  <2>3. objects = << >> /\ entries = << >>
    BY <2>1, <2>2, EmptyFunction DEF ComponentInv, Functional
  <2> QED BY <2>2, <2>3 DEF ComponentInv, SocketInv, HostKnown
<1>2. ComponentReadsToEnd
  BY NotWhole DEF ComponentInv, ComponentTypeOK, ReadingInv, ComponentReadsToEnd
<1> QED BY <1>1, <1>2 DEF NothingLeft

LEMMA InitComponentInv == ComponentInit => ComponentInv
<1> SUFFICES ASSUME ComponentInit PROVE ComponentInv
  OBVIOUS
<1>1. ExchangeTypeOK /\ SocketInv
  BY ExchangeStarts, InitSocketInv DEF ComponentInit
<1>2. ComponentTypeOK
  BY <1>1, HttpComponentAssumption, SocketApiAssumption
     DEF ComponentInit, ComponentTypeOK, MethodName, Ending
<1>3. objects = << >> /\ entries = << >>
  BY DEF ComponentInit, SocketInit, OnHost!WasiInit
<1>4. Functional /\ InScope
  BY <1>3 DEF Functional, InScope, ComponentInit
<1> QED BY <1>1, <1>2, <1>4 DEF ComponentInit, ComponentInv, ReadingInv

LEMMA NewInScope ==
  ASSUME Functional, ~native, New("tcp")
  PROVE  /\ Functional'
         /\ Answered => nextHandle <= MaxSockets /\ DOMAIN objects' = DOMAIN objects \cup {nextHandle}
         /\ ~Answered => UNCHANGED objects
<1>1. OnHost!CreateSocket("tcp")
  BY DEF New, Raw
<1>2. entries' = [h \in DOMAIN entries' |-> entries'[h]] /\ nextHandle <= MaxSockets
  BY <1>1 DEF OnHost!CreateSocket, OnHost!Register, Functional
<1>3. objects' = [h \in DOMAIN objects' |-> objects'[h]]
  BY DEF New, Add, Functional
<1> QED BY <1>2, <1>3 DEF New, Add, Functional

LEMMA MethodInScope ==
  ASSUME Functional, ~native, NEW h, NEW isAddress,
         \/ SocketBindToIp(h) \/ SocketConnect(h, isAddress)
         \/ SocketSend(h) \/ SocketRecv(h) \/ SocketClose(h)
  PROVE  Functional' /\ DOMAIN objects' = DOMAIN objects
<1>1. CASE SocketBindToIp(h)
  <2>1. UNCHANGED entries
    BY <1>1 DEF SocketBindToIp, Raw, OnHost!Bind, OnHost!Reject
  <2> QED BY <1>1, <2>1 DEF SocketBindToIp, OnSuccess, Functional
<1>2. CASE SocketConnect(h, isAddress)
  <2>1. entries' \in {entries, [entries EXCEPT ![h].streams = TRUE]}
    BY <1>2 DEF SocketConnect, Raw, OnHost!Connect, OnHost!Reject
  <2> QED BY <1>2, <2>1 DEF SocketConnect, OnSuccess, Functional
<1>3. CASE SocketSend(h) \/ SocketRecv(h)
  <2>1. UNCHANGED <<objects, entries>>
    BY <1>3 DEF SocketSend, SocketRecv, Raw, OnHost!Send, OnHost!Receive, OnHost!Reject
  <2> QED BY <2>1 DEF Functional
<1>4. CASE SocketClose(h)
  <2>1. entries' = [k \in DOMAIN entries' |-> entries'[k]]
    BY <1>4 DEF SocketClose, Raw, OnHost!Close, OnHost!Reject, OnHost!Restrict, Functional
  <2> QED BY <1>4, <2>1 DEF SocketClose, OnSuccess, Functional
<1> QED BY <1>1, <1>2, <1>3, <1>4

LEMMA DropInScope ==
  ASSUME Functional, ~native, NEW h, SocketDrop(h)
  PROVE  Functional' /\ DOMAIN objects' = DOMAIN objects \ {h}
<1>1. entries' = [k \in DOMAIN entries' |-> entries'[k]]
  BY DEF SocketDrop, Raw, raw, OnHost!Close, OnHost!Reject, OnHost!Restrict, Functional
<1> QED BY <1>1 DEF SocketDrop, Restrict, Functional

LEMMA BeginActionKeeps == ASSUME ComponentInv, BeginAction PROVE ComponentInv'
<1>1. SocketInv'
  BY SocketKept DEF ComponentInv, BeginAction
<1>2. UNCHANGED <<native, objects, entries>>
  BY DEF BeginAction, socketVars
<1>3. ExchangeTypeOK'
  BY ExchangeKept DEF ComponentInv, ComponentTypeOK, BeginAction
<1>4. ComponentTypeOK'
  BY <1>3, HttpComponentAssumption, SocketApiAssumption DEF ComponentTypeOK, BeginAction, MethodName, Ending
<1>5. Functional' /\ InScope' /\ ReadingInv'
  BY <1>2 DEF ComponentInv, Functional, InScope, ReadingInv, BeginAction, NewExchange
<1> QED BY <1>1, <1>2, <1>4, <1>5 DEF ComponentInv

LEMMA NewSocketKeeps == ASSUME ComponentInv, NewSocket, UNCHANGED native PROVE ComponentInv'
<1>1. SocketInv'
  BY NewKeeps DEF ComponentInv, NewSocket
<1>2. UNCHANGED <<action, attempts, ended, response, sent, surplus, peerClosed, received>> /\ method = "new"
  BY DEF NewSocket, exchangeVars
<1>3. ExchangeTypeOK'
  BY <1>2, ExchangeKept DEF ComponentInv, ComponentTypeOK, exchangeVars
<1>4. /\ Functional'
      /\ Answered => nextHandle <= MaxSockets /\ DOMAIN objects' = {nextHandle}
      /\ ~Answered => DOMAIN objects' = {}
  <2>1. DOMAIN objects = {}
    BY <1>2 DEF ComponentInv, InScope
  <2> QED BY <2>1, NewInScope DEF ComponentInv, NewSocket
<1>5. \/ Answered /\ socket' = nextHandle /\ method' \in {"bind", "connect"}
      \/ ~Answered /\ socket' = 0 /\ method' = "idle"
  BY DEF NewSocket
<1>6. socket' \in 0 .. MaxSockets
  BY <1>4, <1>5, SocketApiAssumption DEF ComponentInv, SocketInv
<1>7. ComponentTypeOK'
  BY <1>2, <1>3, <1>5, <1>6 DEF ComponentInv, ComponentTypeOK, MethodName
<1>8. InScope'
  BY <1>4, <1>5 DEF InScope
<1>9. ReadingInv'
  BY <1>2, <1>5 DEF ComponentInv, ReadingInv
<1> QED BY <1>1, <1>4, <1>7, <1>8, <1>9 DEF ComponentInv

(* A call on the object, and where the function goes. *)
LEMMA CallInScope ==
  ASSUME ComponentInv, SocketInv', UNCHANGED <<native, action, socket>>, ExchangeTypeOK',
         Functional', DOMAIN objects' = DOMAIN objects,
         method \notin {"idle", "new"}, method' \in MethodName \ {"idle", "new"},
         attempts' \in 0 .. MaxAttempts + 1, ended' \in Ending, ReadingInv'
  PROVE  ComponentInv'
<1>1. ComponentTypeOK'
  BY DEF ComponentInv, ComponentTypeOK
<1>2. InScope'
  BY DEF ComponentInv, InScope
<1> QED BY <1>1, <1>2 DEF ComponentInv

LEMMA GoOnOrDropKeeps ==
  ASSUME ComponentInv, SocketInv', UNCHANGED native, Functional', DOMAIN objects' = DOMAIN objects,
         method \in {"bind", "connect", "send"}, NEW step \in {"connect", "send", "recv"},
         GoOnOrDrop(step)
  PROVE  ComponentInv'
<1>1. /\ UNCHANGED <<action, socket, attempts, ended, response, sent, surplus, peerClosed, received>>
      /\ method' \in {step, "drop"}
  BY DEF GoOnOrDrop, exchangeVars
<1>2. ExchangeTypeOK'
  BY <1>1, ExchangeKept DEF ComponentInv, ComponentTypeOK, exchangeVars
<1>3. attempts = 0 /\ received = 0
  BY DEF ComponentInv, ReadingInv
<1>4. ~Whole(received)'
  BY <1>1, <1>3, ExchangeAssumption DEF Whole, HeadRead
<1>5. ReadingInv'
  BY <1>1, <1>3, <1>4, HttpComponentAssumption DEF ReadingInv
<1>6. attempts' \in 0 .. MaxAttempts + 1 /\ ended' \in Ending
  BY <1>1 DEF ComponentInv, ComponentTypeOK
<1>7. method' \in MethodName \ {"idle", "new"}
  BY <1>1 DEF MethodName
<1> QED BY <1>1, <1>2, <1>5, <1>6, <1>7, CallInScope

LEMMA ComponentCallsKeep ==
  ASSUME ComponentInv, BindSocket \/ ConnectSocket \/ SendRequest, UNCHANGED native PROVE ComponentInv'
<1>0. SocketInv /\ Functional /\ ~native /\ action.isAddress \in BOOLEAN
  BY DEF ComponentInv, ComponentTypeOK, Action
<1>1. CASE BindSocket
  <2>1. SocketInv' /\ Functional' /\ DOMAIN objects' = DOMAIN objects
    BY <1>0, <1>1, OpenKeeps, MethodInScope DEF BindSocket
  <2> QED BY <1>1, <2>1, GoOnOrDropKeeps DEF BindSocket
<1>2. CASE ConnectSocket
  <2>1. SocketInv' /\ Functional' /\ DOMAIN objects' = DOMAIN objects
    BY <1>0, <1>2, OpenKeeps, MethodInScope DEF ConnectSocket
  <2> QED BY <1>2, <2>1, GoOnOrDropKeeps DEF ConnectSocket
<1>3. CASE SendRequest
  <2>1. SocketInv' /\ Functional' /\ DOMAIN objects' = DOMAIN objects
    BY <1>0, <1>3, SocketTrafficKeeps, MethodInScope DEF SendRequest
  <2>2. CASE GoOnOrDrop("recv")
    BY <1>3, <2>1, <2>2, GoOnOrDropKeeps DEF SendRequest
  <2>3. CASE UNCHANGED <<method, action, socket, attempts, ended, exchangeVars>>
    <3>1. ExchangeTypeOK'
      BY <2>3, ExchangeKept DEF ComponentInv, ComponentTypeOK
    <3>2. method = "send" /\ ReadingInv'
      BY <1>3, <2>3 DEF SendRequest, ComponentInv, ReadingInv, exchangeVars
    <3>3. method' \in MethodName \ {"idle", "new"} /\ attempts' \in 0 .. MaxAttempts + 1 /\ ended' \in Ending
      BY <2>3, <3>2 DEF ComponentInv, ComponentTypeOK, MethodName
    <3> QED BY <2>1, <2>3, <3>1, <3>2, <3>3, CallInScope
  <2> QED BY <1>3, <2>2, <2>3 DEF SendRequest
<1> QED BY <1>1, <1>2, <1>3

LEMMA RecvKeeps == ASSUME ComponentInv, RecvResponse, UNCHANGED native PROVE ComponentInv'
<1>0. /\ SocketInv /\ Functional /\ ~native /\ ExchangeTypeOK
      /\ method = "recv" /\ attempts \in 0 .. MaxAttempts /\ ~Whole(received)
      /\ UNCHANGED <<action, socket>>
  BY HttpComponentAssumption DEF ComponentInv, ComponentTypeOK, ReadingInv, RecvResponse
<1>1. attempts' = attempts + 1
  BY DEF RecvResponse
<1>2. attempts' \in 0 .. MaxAttempts + 1 /\ (attempts # MaxAttempts => attempts' <= MaxAttempts)
  BY <1>0, <1>1, HttpComponentAssumption
<1>3. CASE attempts = MaxAttempts
  <2>1. UNCHANGED <<socketVars, exchangeVars>> /\ method' = "close" /\ ended' = "attempts"
    BY <1>3 DEF RecvResponse, Leave
  <2>2. SocketInv' /\ ExchangeTypeOK'
    BY <1>0, <2>1, SocketKept, ExchangeKept
  <2>3. Functional' /\ DOMAIN objects' = DOMAIN objects
    BY <1>0, <2>1 DEF Functional, socketVars
  <2>4. ReadingInv' /\ method' \in MethodName \ {"idle", "new"} /\ ended' \in Ending
    BY <2>1 DEF ReadingInv, MethodName, Ending
  <2> QED BY <1>0, <1>2, <2>2, <2>3, <2>4, CallInScope
<1>4. CASE attempts # MaxAttempts
  <2>1. SocketInv' /\ Functional' /\ DOMAIN objects' = DOMAIN objects
    BY <1>0, <1>4, SocketTrafficKeeps, MethodInScope DEF RecvResponse
  <2>2. \/ ReadEmpty /\ Leave("empty")
        \/ ReadChunk /\ Whole(received') /\ Leave("whole")
        \/ ReadChunk /\ ~Whole(received') /\ UNCHANGED <<method, ended>>
        \/ method' \in {"drop", "close"} /\ ended' = "error" /\ UNCHANGED exchangeVars
    BY <1>4 DEF RecvResponse
  <2>3. ExchangeTypeOK'
    BY <1>0, <2>2, ExchangeKept
  <2>4. /\ method' \in MethodName \ {"idle", "new"} /\ ended' \in Ending
        /\ method' # "new" /\ method' \notin {"bind", "connect", "send"}
    BY <1>0, <2>2 DEF Leave, MethodName, Ending, ComponentInv, ComponentTypeOK
  <2>5. method' = "recv" => ~Whole(received)'
    BY <2>2 DEF Leave, ReadChunk, Whole, HeadRead, ExpectedLen
  <2>6. ReadingInv'
    BY <1>2, <1>4, <2>4, <2>5 DEF ReadingInv
  <2> QED BY <1>0, <1>2, <2>1, <2>3, <2>4, <2>6, CallInScope
<1> QED BY <1>3, <1>4

LEMMA CloseSocketKeeps == ASSUME ComponentInv, CloseSocket, UNCHANGED native PROVE ComponentInv'
<1>1. /\ UNCHANGED <<action, socket, attempts, ended, exchangeVars>> /\ SocketClose(socket)
      /\ method = "close" /\ method' = "drop"
  BY DEF CloseSocket
<1>2. SocketInv' /\ Functional' /\ DOMAIN objects' = DOMAIN objects
  BY <1>1, SocketCloseKeeps, MethodInScope DEF ComponentInv
<1>3. ExchangeTypeOK'
  BY <1>1, ExchangeKept DEF ComponentInv, ComponentTypeOK
<1>4. /\ method' \in MethodName \ {"idle", "new"} /\ ReadingInv'
      /\ attempts' \in 0 .. MaxAttempts + 1 /\ ended' \in Ending
  BY <1>1 DEF ComponentInv, ComponentTypeOK, MethodName, ReadingInv
<1> QED BY <1>1, <1>2, <1>3, <1>4, CallInScope

LEMMA LeaveScopeKeeps == ASSUME ComponentInv, LeaveScope, UNCHANGED native PROVE ComponentInv'
<1>1. /\ UNCHANGED <<action, socket, attempts, ended, exchangeVars>> /\ SocketDrop(socket)
      /\ method = "drop" /\ method' = "idle"
  BY DEF LeaveScope
<1>2. SocketInv' /\ Functional' /\ DOMAIN objects' = DOMAIN objects \ {socket}
  BY <1>1, DropKeeps, DropInScope DEF ComponentInv
<1>3. DOMAIN objects = {socket}
  BY <1>1 DEF ComponentInv, InScope
<1>4. InScope' /\ ReadingInv'
  BY <1>1, <1>2, <1>3 DEF InScope, ReadingInv
<1>5. ExchangeTypeOK'
  BY <1>1, ExchangeKept DEF ComponentInv, ComponentTypeOK
<1>6. ComponentTypeOK'
  BY <1>1, <1>5 DEF ComponentInv, ComponentTypeOK, MethodName
<1> QED BY <1>2, <1>4, <1>6 DEF ComponentInv

LEMMA OthersKeep ==
  ASSUME ComponentInv, ComponentPeer \/ UNCHANGED componentVars PROVE ComponentInv'
<1>1. /\ UNCHANGED <<method, action, socket, attempts, ended, socketVars, response, received>>
      /\ ExchangeTypeOK'
  <2>1. UNCHANGED <<method, action, socket, attempts, ended, socketVars, response, received>>
    BY DEF ComponentPeer, PeerSends, PeerCloses, componentVars, exchangeVars
  <2>2. PeerSends \/ PeerCloses \/ UNCHANGED exchangeVars
    BY DEF ComponentPeer, componentVars
  <2> QED BY <2>1, <2>2, ExchangeKept DEF ComponentInv, ComponentTypeOK
<1>2. SocketInv'
  BY <1>1, SocketKept DEF ComponentInv
<1>3. Functional' /\ InScope'
  BY <1>1 DEF ComponentInv, Functional, InScope, socketVars
<1>4. ReadingInv'
  <2>1. Whole(received)' <=> Whole(received)
    BY <1>1 DEF Whole, HeadRead, ExpectedLen
  <2> QED BY <1>1, <2>1 DEF ComponentInv, ReadingInv
<1>5. ComponentTypeOK'
  BY <1>1 DEF ComponentInv, ComponentTypeOK
<1> QED BY <1>1, <1>2, <1>3, <1>4, <1>5 DEF ComponentInv, socketVars

LEMMA ComponentKept == ASSUME ComponentInv, ComponentNext \/ UNCHANGED componentVars PROVE ComponentInv'
  BY BeginActionKeeps, NewSocketKeeps, ComponentCallsKeep, RecvKeeps, CloseSocketKeeps, LeaveScopeKeeps,
     OthersKeep DEF ComponentNext, ComponentClient

-----------------------------------------------------------------------------
(* Each client in behaviours of its own: the other one is idle.            *)
ClientInv ==
  /\ client \in {"send", "component"}
  /\ SendInv /\ ComponentInv
  /\ client = "send" => method = "idle"
  /\ client = "component" => pc = "idle"

(* A client that is idle is indifferent to the exchange. *)
LEMMA SendIdle ==
  ASSUME SendInv, pc = "idle", UNCHANGED sendOnly, ExchangeTypeOK' PROVE SendInv'
<1>1. UNCHANGED <<pc, request, handle, emptyReads, results, sockets, next>>
  BY DEF sendOnly, wasiVars
<1>2. SendTypeOK' /\ LeftBehind'
  BY <1>1 DEF SendInv, SendTypeOK, LeftBehind
<1> QED BY <1>1, <1>2 DEF SendInv

LEMMA ComponentIdle ==
  ASSUME ComponentInv, method = "idle", UNCHANGED componentOnly, ExchangeTypeOK' PROVE ComponentInv'
<1>1. UNCHANGED <<method, action, socket, attempts, ended, socketVars, native, objects, entries>>
  BY DEF componentOnly, socketVars
<1>2. SocketInv'
  BY <1>1, SocketKept DEF ComponentInv
<1>3. ComponentTypeOK' /\ Functional' /\ InScope' /\ ReadingInv'
  BY <1>1 DEF ComponentInv, ComponentTypeOK, Functional, InScope, ReadingInv
<1> QED BY <1>1, <1>2, <1>3 DEF ComponentInv

LEMMA ClientKept == ASSUME ClientInv, [ClientNext]_clientVars PROVE ClientInv'
<1>1. CASE UNCHANGED clientVars
  <2>1. UNCHANGED <<client, pc, method, sendVars, componentVars>>
    BY <1>1 DEF clientVars, sendVars, componentOnly, componentVars
  <2> QED BY <2>1, SendKept, ComponentKept DEF ClientInv
<1>2. CASE UNCHANGED client /\ SendNext /\ UNCHANGED componentOnly /\ client = "send"
  <2>1. SendInv'
    BY <1>2, SendKept DEF ClientInv
  <2>2. ComponentInv'
    BY <1>2, <2>1, ComponentIdle DEF ClientInv, SendInv, SendTypeOK
  <2> QED BY <1>2, <2>1, <2>2 DEF ClientInv, componentOnly
<1>3. CASE UNCHANGED client /\ ComponentNext /\ UNCHANGED sendOnly /\ client = "component"
  <2>1. ComponentInv'
    BY <1>3, ComponentKept DEF ClientInv
  <2>2. SendInv'
    BY <1>3, <2>1, SendIdle DEF ClientInv, ComponentInv, ComponentTypeOK
  <2> QED BY <1>3, <2>1, <2>2 DEF ClientInv, sendOnly
<1> QED BY <1>1, <1>2, <1>3 DEF ClientNext

LEMMA ClientInvariant == ClientSpec => []ClientInv
<1>1. ClientInit => ClientInv
  BY InitSendInv, InitComponentInv DEF ClientInit, ClientInv, SendInit, ComponentInit
<1>2. ClientInv /\ [ClientNext]_clientVars => ClientInv'
  BY ClientKept
<1> QED BY <1>1, <1>2, PTL DEF ClientSpec

(* Whatever the peer, the host and the registry do: the function of the    *)
(* program leaves a socket behind only of a request that was refused, the  *)
(* component none and no object either, and neither reads on when the      *)
(* announced response is there (send_http_request, actions-http/src/lib.rs *)
(* and execute_http_request, component.rs).                                *)
THEOREM RequestsAlwaysSound == ClientSpec => []RequestsSound
<1>1. ClientInv => RequestsSound
  BY SendIsSound, ComponentIsSound DEF ClientInv, RequestsSound
<1> QED BY <1>1, ClientInvariant, PTL

-----------------------------------------------------------------------------
(* A step of the client is a call of the registry or none. *)
LEMMA SendCallsRegistry ==
  ASSUME SendInv, SendNext \/ UNCHANGED sendVars PROVE WasiNext \/ UNCHANGED wasiVars
<1>1. CASE CallCreate
  BY <1>1 DEF CallCreate, WasiNext, Protocol
<1>2. CASE CallBind \/ CallConnect \/ CallSend \/ CallReceive \/ CallClose
  <2>1. handle \in Handle /\ request.isAddress \in BOOLEAN /\ (request.bind = "address") \in BOOLEAN
    BY <1>2 DEF SendInv, SendTypeOK, Request, CallBind, CallConnect, CallSend, CallReceive, CallClose
  <2>2. \/ Bind(handle, request.bind = "address") \/ Connect(handle, request.isAddress)
        \/ Send(handle) \/ Receive(handle) \/ Close(handle)
    BY <1>2 DEF CallBind, CallConnect, CallSend, CallReceive, CallClose
  <2> QED BY <2>1, <2>2 DEF WasiNext
<1>3. CASE Begin \/ Peer \/ UNCHANGED sendVars
  BY <1>3 DEF Begin, Peer, sendVars
<1> QED BY <1>1, <1>2, <1>3 DEF SendNext, Client

(* The requests use the registry only as it allows: whatever becomes of    *)
(* them, registry and host agree, and what is over stays over.             *)
THEOREM RequestsUseTheRegistry == SendSpec => WasiSpec /\ []HostAgrees /\ OverForGood
<1>1. SendInv /\ [SendNext]_sendVars => [WasiNext]_wasiVars
  BY SendCallsRegistry
<1>2. SendInit => WasiInit
  BY DEF SendInit
<1>3. SendSpec => WasiSpec
  BY <1>1, <1>2, SendInvariant, PTL DEF SendSpec, WasiSpec
<1> QED BY <1>3, HostAlwaysAgrees, OverStaysOver, PTL
=============================================================================

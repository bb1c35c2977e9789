---------------------------- MODULE SocketsProofs ----------------------------
(***************************************************************************)
(* Proofs about WasiSockets.tla: the registry and the host agree, for any  *)
(* number of sockets and whatever the host answers.  Then about            *)
(* SocketApi.tla: objects of the type Socket agree with the registry they  *)
(* are made over, the native one or the one over the host.                 *)
(***************************************************************************)
EXTENDS WasiSockets, SocketApi, TLAPS

(* Numbers that have not been given out have no socket, and the datagram   *)
(* sockets are never connected, connecting or listening.                   *)
FutureUnused == \A h \in Handle : h >= next => ~Registered(h)

DatagramsUnconnected ==
  \A h \in DOMAIN sockets :
    sockets[h].protocol = "udp" => host[h] \in {"unbound", "bind-in-progress", "bound"}

WasiInv ==
  /\ WasiTypeOK
  /\ HostSocketsOwned
  /\ StreamsOfConnections
  /\ ChildrenFirst
  /\ FutureUnused
  /\ DatagramsUnconnected

USE WasiAssumption DEF Handle

-----------------------------------------------------------------------------
(* Whatever an operation of the host comes to, it is a state of a socket   *)
(* and a result of a call; it comes to "ok" only in the state reached.     *)
LEMMA OutcomesKnown ==
  ASSUME NEW h \in Handle, host[h] \in HostState,
         NEW outcome \in BindOutcomes(h) \cup ConnectOutcomes(h) \cup ListenOutcomes(h)
  PROVE  outcome[1] \in HostState /\ outcome[2] \in Result
BY DEF BindOutcomes, ConnectOutcomes, ListenOutcomes, SpinWait, HostState, Result, HostError

LEMMA BindOutcome ==
  ASSUME NEW h \in Handle, NEW outcome \in BindOutcomes(h)
  PROVE  \/ outcome[1] = host[h]
         \/ host[h] = "unbound" /\ outcome[1] \in {"unbound", "bind-in-progress", "bound"}
BY DEF BindOutcomes, SpinWait

LEMMA ListenOutcome ==
  ASSUME NEW h \in Handle, NEW outcome \in ListenOutcomes(h)
  PROVE  \/ outcome[1] = host[h]
         \/ host[h] = "bound" /\ outcome[1] \in {"bound", "closed", "listen-in-progress", "listening"}
BY DEF ListenOutcomes, SpinWait

LEMMA ConnectOutcome ==
  ASSUME NEW h \in Handle, NEW outcome \in ConnectOutcomes(h)
  PROVE  \/ outcome[1] = host[h] /\ outcome[2] # "ok"
         \/ /\ host[h] \in {"unbound", "bound"}
            /\ outcome[1] \in {"closed", "connect-in-progress", "connected"}
            /\ outcome[2] = "ok" <=> outcome[1] = "connected"
BY DEF ConnectOutcomes, SpinWait, HostError

LEMMA ReplyIsAnswer ==
  ASSUME NEW op \in Operation, NEW h \in Handle \cup {0}, NEW r \in Result, Reply(op, h, r)
  PROVE  answer' \in Answer
BY DEF Reply, Answer

(* The number that is given out next has no entry yet. *)
LEMMA NextUnregistered ==
  ASSUME WasiInv, next \in Handle
  PROVE  next \notin DOMAIN sockets
<1>1. next \in Int /\ next >= next
  BY DEF Handle
<1>2. QED
  BY <1>1 DEF WasiInv, FutureUnused, Registered

(* What a new entry leaves as it was. *)
LEMMA RegisterKeeps ==
  ASSUME WasiInv, next \in Handle, NEW entry \in Entry, NEW state \in HostState,
         Register(entry, state), UNCHANGED trap,
         entry.streams <=> state = "connected",
         entry.protocol = "udp" => state = "unbound",
         answer' \in Answer
  PROVE  WasiInv'
<1>1. next \notin DOMAIN sockets
  BY NextUnregistered
<1>2. DOMAIN sockets' = DOMAIN sockets \cup {next} /\ sockets'[next] = entry
  BY DEF Register
<1>3. \A h \in DOMAIN sockets : h # next /\ sockets'[h] = sockets[h] /\ host'[h] = host[h]
  BY <1>1 DEF Register, WasiInv, WasiTypeOK
<1>4. host' \in [Handle -> HostState \cup {"none"}] /\ host'[next] = state
  BY DEF Register, WasiInv, WasiTypeOK
<1>5. WasiTypeOK'
  <2>1. next' \in 1 .. MaxHandle + 1
    BY DEF Register
  <2>2. DOMAIN sockets' \subseteq Handle /\ \A h \in DOMAIN sockets' : sockets'[h] \in Entry
    BY <1>2, <1>3 DEF WasiInv, WasiTypeOK
  <2>3. QED
    BY <2>1, <2>2, <1>4 DEF WasiInv, WasiTypeOK
<1>6. HostSocketsOwned'
  <2>1. state # "none"
    BY DEF HostState
  <2>2. \A h \in Handle : h # next => host'[h] = host[h]
    BY DEF Register, WasiInv, WasiTypeOK
  <2>3. QED
    BY <1>2, <1>4, <2>1, <2>2 DEF WasiInv, HostSocketsOwned, Registered
<1>7. StreamsOfConnections' /\ DatagramsUnconnected'
  BY <1>2, <1>3, <1>4 DEF WasiInv, StreamsOfConnections, DatagramsUnconnected
<1>8. FutureUnused' /\ ChildrenFirst'
  <2>1. ASSUME NEW h \in Handle, h >= next' PROVE h \notin DOMAIN sockets'
    <3>1. next' = next + 1 /\ next \in Int /\ h \in Int
      BY DEF Register
    <3>2. h >= next /\ h # next
      BY <2>1, <3>1
    <3>3. QED
      BY <1>2, <3>2 DEF WasiInv, FutureUnused, Registered
  <2>2. QED
    BY <2>1 DEF WasiInv, FutureUnused, ChildrenFirst, Registered
<1>9. QED
  BY <1>5, <1>6, <1>7, <1>8 DEF WasiInv

(* A call that changes at most the answer and the trap of a write. *)
LEMMA AnswerOnlyKeeps ==
  ASSUME WasiInv, UNCHANGED <<sockets, next, host>>,
         trap' \in {trap, "unpermitted write"},
         answer' = answer \/ answer' \in Answer
  PROVE  WasiInv'
BY DEF WasiInv, WasiTypeOK, HostSocketsOwned, StreamsOfConnections, ChildrenFirst, FutureUnused,
       DatagramsUnconnected, Registered

(* A step of the host on a registered socket that is neither connected nor *)
(* becomes so.                                                             *)
LEMMA HostStepKeeps ==
  ASSUME WasiInv, NEW h \in DOMAIN sockets, NEW state \in HostState,
         host' = [host EXCEPT ![h] = state], UNCHANGED <<sockets, next, trap>>,
         host[h] = "connected" <=> state = "connected",
         sockets[h].protocol = "udp" => state \in {"unbound", "bind-in-progress", "bound"},
         answer' \in Answer
  PROVE  WasiInv'
<1> USE DEF WasiInv, WasiTypeOK, HostSocketsOwned, StreamsOfConnections, ChildrenFirst,
            FutureUnused, DatagramsUnconnected, Registered
<1>1. WasiTypeOK'
  OBVIOUS
<1>2. HostSocketsOwned'
  BY DEF HostState
<1>3. StreamsOfConnections' /\ DatagramsUnconnected'
  OBVIOUS
<1>4. QED
  BY <1>1, <1>2, <1>3

-----------------------------------------------------------------------------
LEMMA InitWasiInv == WasiInit => WasiInv
BY DEF WasiInit, WasiInv, WasiTypeOK, Answer, Operation, HostSocketsOwned, StreamsOfConnections, ChildrenFirst,
       FutureUnused, DatagramsUnconnected, Registered, Result, HostError

(* Registered sockets have a host socket, so a state. *)
LEMMA RegisteredHasState ==
  ASSUME WasiInv, NEW h \in DOMAIN sockets
  PROVE  h \in Handle /\ host[h] \in HostState /\ sockets[h] \in Entry
BY DEF WasiInv, WasiTypeOK, HostSocketsOwned, Registered

LEMMA RejectKeeps ==
  ASSUME WasiInv, NEW op \in Operation, NEW h \in Handle, Reject(op, h)
  PROVE  WasiInv'
BY AnswerOnlyKeeps DEF Reject, Reply, Result, Answer

(* One step for each operation of the registry. *)
LEMMA CreateKeeps == ASSUME WasiInv, NEW p \in Protocol, CreateSocket(p) PROVE WasiInv'
<1>1. CASE Register([protocol |-> p, streams |-> FALSE], "unbound") /\ Reply("create", next, "ok")
  <2>1. next \in Handle
    BY DEF CreateSocket, WasiInv, WasiTypeOK
  <2>2. [protocol |-> p, streams |-> FALSE] \in Entry
    BY DEF Entry
  <2>3. QED
    BY <1>1, <2>1, <2>2, RegisterKeeps DEF CreateSocket, Reply, Result, Answer, Operation, HostState
<1>2. CASE Reply("create", 0, "other") /\ UNCHANGED <<sockets, next, host>>
  BY <1>2, AnswerOnlyKeeps DEF CreateSocket, Reply, Result, Answer, Operation
<1>3. QED
  BY <1>1, <1>2 DEF CreateSocket

LEMMA BindKeeps ==
  ASSUME WasiInv, NEW h \in Handle, NEW isAddress \in BOOLEAN, Bind(h, isAddress)
  PROVE  WasiInv'
<1>1. CASE isAddress /\ Registered(h)
  <2>1. PICK outcome \in BindOutcomes(h) :
          host' = [host EXCEPT ![h] = outcome[1]] /\ Reply("bind", h, outcome[2])
    BY <1>1 DEF Bind, HostSteps
  <2>2. h \in DOMAIN sockets /\ host[h] \in HostState
    BY <1>1, RegisteredHasState DEF Registered
  <2>3. outcome[1] \in HostState /\ outcome[2] \in Result
    BY <2>2, OutcomesKnown
  <2>4. sockets[h].protocol = "udp" => outcome[1] \in {"unbound", "bind-in-progress", "bound"}
    BY <2>2, BindOutcome DEF WasiInv, DatagramsUnconnected
  <2>5. host[h] = "connected" <=> outcome[1] = "connected"
    BY BindOutcome
  <2>6. QED
    BY <1>1, <2>1, <2>2, <2>3, <2>4, <2>5, HostStepKeeps DEF Bind, Reply, Answer, Operation
<1>2. CASE ~(isAddress /\ Registered(h))
  BY <1>2, RejectKeeps DEF Bind, Operation
<1>3. QED
  BY <1>1, <1>2

LEMMA ListenKeeps == ASSUME WasiInv, NEW h \in Handle, Listen(h) PROVE WasiInv'
<1>1. CASE IsTcp(h)
  <2>1. PICK outcome \in ListenOutcomes(h) :
          host' = [host EXCEPT ![h] = outcome[1]] /\ Reply("listen", h, outcome[2])
    BY <1>1 DEF Listen, HostSteps
  <2>2. h \in DOMAIN sockets /\ host[h] \in HostState /\ sockets[h].protocol # "udp"
    BY <1>1, RegisteredHasState DEF Registered, IsTcp
  <2>3. outcome[1] \in HostState /\ outcome[2] \in Result
    BY <2>2, OutcomesKnown
  <2>4. host[h] = "connected" <=> outcome[1] = "connected"
    BY ListenOutcome
  <2>5. QED
    BY <1>1, <2>1, <2>2, <2>3, <2>4, HostStepKeeps DEF Listen, Reply, Answer, Operation
<1>2. CASE ~IsTcp(h)
  BY <1>2, RejectKeeps DEF Listen, Operation
<1>3. QED
  BY <1>1, <1>2

LEMMA ConnectKeeps ==
  ASSUME WasiInv, NEW h \in Handle, NEW isAddress \in BOOLEAN, Connect(h, isAddress)
  PROVE  WasiInv'
<1>1. CASE isAddress /\ IsTcp(h)
  <2>1. PICK outcome \in ConnectOutcomes(h) :
          host' = [host EXCEPT ![h] = outcome[1]] /\ Reply("connect", h, outcome[2])
    BY <1>1 DEF Connect, HostSteps
  <2>2. h \in DOMAIN sockets /\ host[h] \in HostState /\ sockets[h] \in Entry
        /\ sockets[h].protocol # "udp"
    BY <1>1, RegisteredHasState DEF Registered, IsTcp
  <2>3. outcome[1] \in HostState /\ outcome[2] \in Result
    BY <2>2, OutcomesKnown
  <2>4. CASE outcome[2] # "ok"
    <3>1. host[h] = "connected" <=> outcome[1] = "connected"
      BY <2>4, ConnectOutcome
    <3>2. UNCHANGED <<sockets, next, trap>>
      BY <1>1, <2>1, <2>4 DEF Connect, Reply
    <3>3. QED
      BY <2>1, <2>2, <2>3, <3>1, <3>2, HostStepKeeps DEF Reply, Answer, Operation
  <2>5. CASE outcome[2] = "ok"
    <3>1. sockets' = [sockets EXCEPT ![h].streams = TRUE] /\ UNCHANGED <<next, trap>>
      BY <1>1, <2>1, <2>5 DEF Connect, Reply
    <3>2. host' = [host EXCEPT ![h] = "connected"]
      BY <2>1, <2>5, ConnectOutcome
    <3>3. DOMAIN sockets' = DOMAIN sockets
          /\ \A k \in DOMAIN sockets : k # h => sockets'[k] = sockets[k] /\ host'[k] = host[k]
      BY <3>1, <3>2 DEF WasiInv, WasiTypeOK
    <3>4. sockets'[h].streams = TRUE /\ sockets'[h].protocol = sockets[h].protocol
          /\ sockets'[h] \in Entry /\ host'[h] = "connected"
      BY <2>2, <3>1, <3>2 DEF WasiInv, WasiTypeOK, Entry, Protocol
    <3>5. WasiTypeOK'
      <4>1. answer' \in Answer
        BY <2>1, <2>3, ReplyIsAnswer DEF Operation
      <4>2. host' \in [Handle -> HostState \cup {"none"}]
        BY <2>2, <3>2 DEF WasiInv, WasiTypeOK, HostState
      <4>3. \A k \in DOMAIN sockets' : sockets'[k] \in Entry
        BY <3>3, <3>4 DEF WasiInv, WasiTypeOK
      <4>4. QED
        BY <3>1, <3>3, <4>1, <4>2, <4>3 DEF WasiInv, WasiTypeOK
    <3>6. HostSocketsOwned'
      BY <2>2, <3>2, <3>3 DEF WasiInv, WasiTypeOK, HostSocketsOwned, Registered, HostState
    <3>7. StreamsOfConnections' /\ DatagramsUnconnected'
      BY <2>2, <3>3, <3>4 DEF WasiInv, StreamsOfConnections, DatagramsUnconnected
    <3>8. FutureUnused' /\ ChildrenFirst'
      BY <3>1, <3>3 DEF WasiInv, FutureUnused, ChildrenFirst, Registered
    <3>9. QED
      BY <3>5, <3>6, <3>7, <3>8 DEF WasiInv
  <2>6. QED
    BY <2>4, <2>5
<1>2. CASE ~(isAddress /\ IsTcp(h))
  BY <1>2, RejectKeeps DEF Connect, Operation
<1>3. QED
  BY <1>1, <1>2

LEMMA AcceptKeeps == ASSUME WasiInv, NEW h \in Handle, Accept(h) PROVE WasiInv'
<1> DEFINE client == [protocol |-> "tcp", streams |-> TRUE]
<1>1. CASE next <= MaxHandle /\ Register(client, "connected") /\ Reply("accept", h, "ok")
           /\ UNCHANGED trap
  <2>1. next \in Handle
    <3>1. next \in 1 .. MaxHandle + 1
      BY DEF WasiInv, WasiTypeOK
    <3>2. QED
      BY <1>1, <3>1
  <2>11. client \in Entry
    BY DEF Entry, Protocol
  <2>2. client.streams /\ client.protocol # "udp" /\ "connected" \in HostState
    BY DEF HostState
  <2>3. answer' \in Answer
    BY <1>1 DEF Reply, Result, Answer, Operation
  <2>4. QED
    BY <1>1, <2>1, <2>11, <2>2, <2>3, RegisterKeeps
<1>2. CASE UNCHANGED <<sockets, next, host, trap>>
           /\ \E e \in HostError \cup {"other"} : Reply("accept", h, e)
  BY <1>2, AnswerOnlyKeeps DEF Reply, Result, Answer, Operation
<1>3. CASE Reject("accept", h)
  BY <1>3, RejectKeeps DEF Operation
<1>4. QED
  BY <1>1, <1>2, <1>3 DEF Accept

LEMMA TrafficKeeps ==
  ASSUME WasiInv, NEW h \in Handle, NEW peer \in BOOLEAN,
         Send(h) \/ Receive(h) \/ SendToOrReceiveFrom(h) \/ Address(h, peer)
  PROVE  WasiInv'
<1>1. CASE Send(h)
  <2>1. CASE Reject("send", h)
    BY <2>1, RejectKeeps DEF Operation
  <2>2. CASE UNCHANGED <<sockets, next, host>>
    <3>1. CASE UNCHANGED trap /\ \E r \in {"ok", "reset", "other"} : Reply("send", h, r)
      BY <2>2, <3>1, AnswerOnlyKeeps DEF Reply, Result, Answer, Operation
    <3>2. CASE trap' = "unpermitted write" /\ UNCHANGED answer
      BY <2>2, <3>2, AnswerOnlyKeeps
    <3>3. QED
      BY <1>1, <2>1, <3>1, <3>2 DEF Send
  <2>3. QED
    BY <1>1, <2>1, <2>2 DEF Send
<1>2. CASE Receive(h)
  <2>1. CASE Reject("receive", h)
    BY <2>1, RejectKeeps DEF Operation
  <2>2. CASE UNCHANGED <<sockets, next, host, trap>> /\ \E r \in {"ok", "other"} : Reply("receive", h, r)
    BY <2>2, AnswerOnlyKeeps DEF Reply, Result, Answer, Operation
  <2>3. QED
    BY <1>2, <2>1, <2>2 DEF Receive
<1>3. CASE SendToOrReceiveFrom(h)
  BY <1>3, AnswerOnlyKeeps DEF SendToOrReceiveFrom, Reply, Result, Answer, Operation
<1>4. CASE Address(h, peer)
  <2>1. CASE Reject("address", h)
    BY <2>1, RejectKeeps DEF Operation
  <2>2. CASE UNCHANGED <<sockets, next, host, trap>> /\ \E r \in {"ok", "other"} : Reply("address", h, r)
    BY <2>2, AnswerOnlyKeeps DEF Reply, Result, Answer, Operation
  <2>3. QED
    BY <1>4, <2>1, <2>2 DEF Address
<1>5. QED
  BY <1>1, <1>2, <1>3, <1>4

LEMMA CloseKeeps == ASSUME WasiInv, NEW h \in Handle, Close(h) PROVE WasiInv'
<1>1. CASE Registered(h)
  <2>1. sockets' = [k \in DOMAIN sockets \ {h} |-> sockets[k]]
        /\ host' = [host EXCEPT ![h] = "none"] /\ UNCHANGED <<next, trap>>
        /\ Reply("close", h, "ok")
    BY <1>1 DEF Close, DropSocket, Restrict
  <2>2. DOMAIN sockets' = DOMAIN sockets \ {h}
        /\ \A k \in DOMAIN sockets' : sockets'[k] = sockets[k] /\ host'[k] = host[k]
    BY <2>1 DEF WasiInv, WasiTypeOK
  <2>3. WasiTypeOK'
    BY <2>1, <2>2 DEF WasiInv, WasiTypeOK, Reply, Result, Answer, Operation
  <2>4. HostSocketsOwned'
    BY <2>1, <2>2 DEF WasiInv, WasiTypeOK, HostSocketsOwned, Registered
  <2>5. StreamsOfConnections' /\ DatagramsUnconnected' /\ FutureUnused' /\ ChildrenFirst'
    BY <2>1, <2>2 DEF WasiInv, StreamsOfConnections, DatagramsUnconnected, FutureUnused,
                      ChildrenFirst, Registered
  <2>6. QED
    BY <2>3, <2>4, <2>5 DEF WasiInv
<1>2. CASE ~Registered(h)
  BY <1>2, RejectKeeps DEF Close, Operation
<1>3. QED
  BY <1>1, <1>2

LEMMA NextWasiInv == WasiInv /\ [WasiNext]_wasiVars => WasiInv'
<1> SUFFICES ASSUME WasiInv, [WasiNext]_wasiVars PROVE WasiInv'
  OBVIOUS
<1>1. CASE UNCHANGED wasiVars
  BY <1>1, AnswerOnlyKeeps DEF wasiVars
<1>2. CASE WasiNext
  <2>1. ASSUME NEW p \in Protocol, CreateSocket(p) PROVE WasiInv'
    BY <2>1, CreateKeeps
  <2>2. ASSUME NEW h \in Handle, NEW isAddress \in BOOLEAN,
               Bind(h, isAddress) \/ Connect(h, isAddress) PROVE WasiInv'
    BY <2>2, BindKeeps, ConnectKeeps
  <2>3. ASSUME NEW h \in Handle, Listen(h) \/ Accept(h) \/ Close(h) PROVE WasiInv'
    BY <2>3, ListenKeeps, AcceptKeeps, CloseKeeps
  <2>4. ASSUME NEW h \in Handle, Send(h) \/ Receive(h) \/ SendToOrReceiveFrom(h) PROVE WasiInv'
    BY <2>4, TrafficKeeps
  <2>5. ASSUME NEW h \in Handle, NEW peer \in BOOLEAN, Address(h, peer) PROVE WasiInv'
    BY <2>5, TrafficKeeps
  <2>6. QED
    BY <1>2, <2>1, <2>2, <2>3, <2>4, <2>5 DEF WasiNext
<1>3. QED
  BY <1>1, <1>2

-----------------------------------------------------------------------------
(* WasiInv is an invariant of the registry. *)
THEOREM SpecWasiInv == WasiSpec => []WasiInv
BY InitWasiInv, NextWasiInv, PTL DEF WasiSpec

(* The fields of the registry keep their types. *)
THEOREM WasiTyping == WasiSpec => []WasiTypeOK
BY SpecWasiInv, PTL DEF WasiInv

(* Registry and host have the same sockets: nothing leaks below the        *)
(* registry, whatever fails (create_socket, accept, close).                *)
THEOREM HostSocketsAlwaysOwned == WasiSpec => []HostSocketsOwned
BY SpecWasiInv, PTL DEF WasiInv

(* Streams are there exactly for connections (connect, accept).            *)
THEOREM StreamsAlwaysOfConnections == WasiSpec => []StreamsOfConnections
BY SpecWasiInv, PTL DEF WasiInv

(* No socket of the host is dropped before its streams (close). *)
THEOREM ChildrenAlwaysFirst == WasiSpec => []ChildrenFirst
BY SpecWasiInv, PTL DEF WasiInv

(* A number that has been given back is not given out again (register).    *)
LEMMA NoStepReuses == ASSUME WasiInv, [WasiNext]_wasiVars PROVE [NotReused]_wasiVars
<1> SUFFICES ASSUME WasiInv, WasiNext, NEW h \in Handle, ~Registered(h), h < next
             PROVE  h \notin DOMAIN sockets'
  BY DEF NotReused
<1>1. DOMAIN sockets' \subseteq DOMAIN sockets \cup {next}
  <2>1. ASSUME NEW p \in Protocol, CreateSocket(p) PROVE DOMAIN sockets' \subseteq DOMAIN sockets \cup {next}
    BY <2>1 DEF CreateSocket, Register
  <2>2. ASSUME NEW k \in Handle, Accept(k) PROVE DOMAIN sockets' \subseteq DOMAIN sockets \cup {next}
    BY <2>2 DEF Accept, Reject, Register
  <2>3. ASSUME NEW k \in Handle, NEW isAddress \in BOOLEAN, Connect(k, isAddress)
        PROVE DOMAIN sockets' \subseteq DOMAIN sockets
    BY <2>3 DEF Connect, Reject
  <2>4. ASSUME NEW k \in Handle, Close(k) PROVE DOMAIN sockets' \subseteq DOMAIN sockets
    BY <2>4 DEF Close, Reject, Restrict
  <2>5. ASSUME NEW k \in Handle, NEW isAddress \in BOOLEAN, NEW peer \in BOOLEAN,
               Bind(k, isAddress) \/ Listen(k) \/ Send(k) \/ Receive(k) \/ SendToOrReceiveFrom(k)
               \/ Address(k, peer)
        PROVE UNCHANGED sockets
    BY <2>5 DEF Bind, Listen, Send, Receive, SendToOrReceiveFrom, Address, Reject
  <2>6. QED
    BY <2>1, <2>2, <2>3, <2>4, <2>5 DEF WasiNext
<1>2. h # next
  <2>1. h \in Int
    OBVIOUS
  <2>2. QED
    BY <2>1
<1>3. QED
  BY <1>1, <1>2 DEF Registered

(* After a timeout the operation stays in progress until close (spin_wait). *)
LEMMA NoStepResumes == ASSUME WasiInv, [WasiNext]_wasiVars PROVE [OnlyClosed]_wasiVars
<1> DEFINE Stays(h) ==
           \/ host'[h] = host[h]
           \/ answer'.op = "close" /\ answer'.handle = h
<1> SUFFICES ASSUME WasiInv, WasiNext, NEW h \in DOMAIN sockets, host[h] \in InProgress
             PROVE  Stays(h)
  BY DEF OnlyClosed
<1>1. h \in Handle /\ h # next /\ host \in [Handle -> HostState \cup {"none"}]
  <2>1. h \in Handle /\ host \in [Handle -> HostState \cup {"none"}]
    BY DEF WasiInv, WasiTypeOK
  <2>2. h # next
    BY <2>1, NextUnregistered
  <2>3. QED
    BY <2>1, <2>2
<1>2. ASSUME NEW k \in Handle, NEW op,
             NEW outcomes \in {BindOutcomes(k), ConnectOutcomes(k), ListenOutcomes(k)},
             HostSteps(op, k, outcomes)
      PROVE  Stays(h)
  <2>1. PICK outcome \in outcomes : host' = [host EXCEPT ![k] = outcome[1]]
    BY <1>2 DEF HostSteps
  <2>2. k = h => outcome[1] = host[h]
    BY <1>2, BindOutcome, ConnectOutcome, ListenOutcome DEF InProgress
  <2>3. QED
    BY <1>1, <2>1, <2>2
<1>3. ASSUME NEW p \in Protocol, CreateSocket(p) PROVE Stays(h)
  BY <1>1, <1>3 DEF CreateSocket, Register
<1>4. ASSUME NEW k \in Handle, Accept(k) PROVE Stays(h)
  BY <1>1, <1>4 DEF Accept, Reject, Register
<1>5. ASSUME NEW k \in Handle, NEW isAddress \in BOOLEAN, Connect(k, isAddress) \/ Bind(k, isAddress) \/ Listen(k)
      PROVE  Stays(h)
  <2>1. UNCHANGED host \/ HostSteps("connect", k, ConnectOutcomes(k))
        \/ HostSteps("bind", k, BindOutcomes(k)) \/ HostSteps("listen", k, ListenOutcomes(k))
    BY <1>5 DEF Connect, Bind, Listen, Reject
  <2>2. QED
    BY <1>2, <2>1
<1>6. ASSUME NEW k \in Handle, Close(k) PROVE Stays(h)
  BY <1>1, <1>6 DEF Close, Reject, Reply, DropSocket
<1>7. ASSUME NEW k \in Handle, NEW peer \in BOOLEAN,
             Send(k) \/ Receive(k) \/ SendToOrReceiveFrom(k) \/ Address(k, peer)
      PROVE  Stays(h)
  BY <1>7 DEF Send, Receive, SendToOrReceiveFrom, Address, Reject
<1>8. QED
  BY <1>3, <1>4, <1>5, <1>6, <1>7 DEF WasiNext

-----------------------------------------------------------------------------
(* For any number of handles, calls and answers of the host: the registry  *)
(* and the host agree about sockets, connections and their end.            *)
THEOREM HostAlwaysAgrees == WasiSpec => []HostAgrees
BY WasiTyping, HostSocketsAlwaysOwned, StreamsAlwaysOfConnections, ChildrenAlwaysFirst, PTL
   DEF HostAgrees

(* A closed number and a timed-out operation are over for good.            *)
THEOREM OverStaysOver == WasiSpec => OverForGood
<1>1. ASSUME WasiInv, [WasiNext]_wasiVars PROVE [NotReused /\ OnlyClosed]_wasiVars
  BY <1>1, NoStepReuses, NoStepResumes
<1>2. WasiInv /\ [WasiNext]_wasiVars => [NotReused /\ OnlyClosed]_wasiVars
  BY <1>1
<1> QED BY <1>2, SpecWasiInv, PTL DEF WasiSpec, OverForGood

-----------------------------------------------------------------------------
(* Objects of the type Socket.  The entry of the native registry and the object say the same. *)
Faithful(o, e) ==
  /\ e \in InProcess!SocketInfo
  /\ e.protocol = o.protocol
  /\ e.connected <=> o.state = "Connected"
  /\ e.listening <=> o.state = "Listening"
  /\ o.state = "Bound" => e.bound

EntriesFaithful == native => \A h \in DOMAIN entries : Faithful(objects[h], entries[h])

(* What the objects believe of the host, and that it has no other sockets. *)
HostKnown ==
  ~native => /\ DOMAIN hostSockets = ObjectHandle
             /\ \A h \in DOMAIN objects : Believes(objects[h].state, hostSockets[h])
             /\ \A h \in ObjectHandle \ DOMAIN entries : hostSockets[h] = "none"

(* Handles that have not been given out name no object.                    *)
ObjectsGivenOut == \A h \in DOMAIN objects : h \in ObjectHandle /\ h < nextHandle /\ objects[h] \in Object

SocketInv ==
  /\ native \in BOOLEAN /\ nextHandle \in 1 .. MaxSockets + 1
  /\ ObjectsGivenOut
  /\ OneObjectPerSocket
  /\ EntriesFaithful
  /\ HostKnown
  /\ ChecksSuffice

LEMMA SocketInvAgrees == SocketInv => ObjectsAgree
<1> SUFFICES ASSUME SocketInv PROVE ObjectsAgree
  OBVIOUS
<1>1. SocketTypeOK
  BY DEF SocketInv, ObjectsGivenOut, EntriesFaithful, Faithful, SocketTypeOK
<1>2. StatesAgree
  BY DEF SocketInv, OneObjectPerSocket, EntriesFaithful, Faithful, HostKnown, StatesAgree
<1> QED BY <1>1, <1>2 DEF SocketInv, ObjectsAgree

LEMMA InitSocketInv == SocketInit => SocketInv
<1> SUFFICES ASSUME SocketInit PROVE SocketInv
  OBVIOUS
<1>1. /\ native \in BOOLEAN /\ objects = << >> /\ entries = << >> /\ nextHandle = 1
      /\ hostSockets = [h \in ObjectHandle |-> "none"] /\ reply.result = "ok"
  BY DEF SocketInit, OnHost!WasiInit, OnHost!Handle, ObjectHandle
<1>2. DOMAIN objects = {} /\ DOMAIN entries = {}
  BY <1>1
<1> QED BY <1>1, <1>2, SocketApiAssumption
        DEF SocketInv, ObjectsGivenOut, OneObjectPerSocket, EntriesFaithful, HostKnown, ChecksSuffice

(* A method changes its own object and what belongs to it. *)
LEMMA MethodKeeps ==
  ASSUME SocketInv, NEW h \in DOMAIN objects, objects[h].state # "Closed",
         NEW o \in Object, DOMAIN objects' = DOMAIN objects, objects'[h] = o,
         UNCHANGED <<native, nextHandle>>,
         DOMAIN entries' = IF o.state = "Closed" THEN DOMAIN entries \ {h} ELSE DOMAIN entries,
         \A k \in DOMAIN objects \ {h} : objects'[k] = objects[k],
         \A k \in ObjectHandle \ {h} : hostSockets'[k] = hostSockets[k],
         \A k \in DOMAIN entries \ {h} : entries'[k] = entries[k],
         native => reply'.result # "invalid" /\ (o.state # "Closed" => Faithful(o, entries'[h])),
         ~native => DOMAIN hostSockets' = DOMAIN hostSockets /\ Believes(o.state, hostSockets'[h])
  PROVE  SocketInv'
<1>1. ObjectsGivenOut'
  BY DEF SocketInv, ObjectsGivenOut
<1>2. OneObjectPerSocket'
  <2>1. \A k \in DOMAIN objects' : objects'[k].state # "Closed" <=> k \in DOMAIN entries'
    BY DEF SocketInv, OneObjectPerSocket
  <2>2. DOMAIN entries' \subseteq DOMAIN objects'
    BY DEF SocketInv, OneObjectPerSocket
  <2> QED BY <2>1, <2>2 DEF OneObjectPerSocket
<1>3. EntriesFaithful'
  <2> SUFFICES ASSUME native, NEW k \in DOMAIN entries' PROVE Faithful(objects'[k], entries'[k])
    BY DEF EntriesFaithful, Faithful
  <2>1. k \in DOMAIN entries /\ k \in DOMAIN objects
    BY DEF SocketInv, OneObjectPerSocket
  <2>2. CASE k = h
    BY <2>2
  <2>3. CASE k # h
    BY <2>1, <2>3 DEF SocketInv, EntriesFaithful
  <2> QED BY <2>2, <2>3
<1>4. HostKnown'
  <2> SUFFICES ASSUME ~native PROVE HostKnown'
    BY DEF HostKnown
  <2>1. \A k \in DOMAIN objects' : Believes(objects'[k].state, hostSockets'[k])
    BY DEF SocketInv, HostKnown, ObjectsGivenOut
  <2>2. o.state = "Closed" => hostSockets'[h] = "none"
    BY DEF Believes
  <2>3. \A k \in ObjectHandle \ DOMAIN entries' : hostSockets'[k] = "none"
    BY <2>2 DEF SocketInv, HostKnown, OneObjectPerSocket
  <2> QED BY <2>1, <2>3 DEF SocketInv, HostKnown, ObjectHandle
<1>5. ChecksSuffice'
  BY DEF ChecksSuffice
<1> QED BY <1>1, <1>2, <1>3, <1>4, <1>5 DEF SocketInv

(* A new object has a handle of its own. *)
LEMMA AddKeeps ==
  ASSUME SocketInv, nextHandle <= MaxSockets, NEW o \in Object, o.state # "Closed",
         Add(nextHandle, o),
         native' = native, nextHandle' = nextHandle + 1,
         DOMAIN entries' = DOMAIN entries \cup {nextHandle},
         \A k \in ObjectHandle \ {nextHandle} : hostSockets'[k] = hostSockets[k],
         \A k \in DOMAIN entries : entries'[k] = entries[k],
         native => reply'.result # "invalid" /\ Faithful(o, entries'[nextHandle]),
         ~native => DOMAIN hostSockets' = DOMAIN hostSockets /\ Believes(o.state, hostSockets'[nextHandle])
  PROVE  SocketInv'
<1>1. /\ DOMAIN objects' = DOMAIN objects \cup {nextHandle} /\ objects'[nextHandle] = o
      /\ \A k \in DOMAIN objects : k # nextHandle /\ objects'[k] = objects[k]
  BY DEF Add, SocketInv, ObjectsGivenOut
<1>2. nextHandle \in ObjectHandle /\ nextHandle' \in 1 .. MaxSockets + 1
  BY SocketApiAssumption DEF SocketInv, ObjectHandle
<1>3. ObjectsGivenOut'
  <2>1. nextHandle < nextHandle' /\ \A k \in ObjectHandle : k < nextHandle => k < nextHandle'
    BY DEF SocketInv, ObjectHandle
  <2>2. ASSUME NEW k \in DOMAIN objects' PROVE k \in ObjectHandle /\ k < nextHandle' /\ objects'[k] \in Object
    <3>1. CASE k = nextHandle
      BY <1>1, <1>2, <2>1, <3>1
    <3>2. CASE k # nextHandle
      BY <1>1, <2>1, <3>2 DEF SocketInv, ObjectsGivenOut
    <3> QED BY <3>1, <3>2
  <2> QED BY <2>2 DEF ObjectsGivenOut, ObjectHandle
<1>4. OneObjectPerSocket'
  <2>1. \A k \in DOMAIN objects' : objects'[k].state # "Closed" <=> k \in DOMAIN entries'
    BY <1>1 DEF SocketInv, OneObjectPerSocket
  <2>2. DOMAIN entries' \subseteq DOMAIN objects'
    BY <1>1 DEF SocketInv, OneObjectPerSocket
  <2> QED BY <2>1, <2>2 DEF OneObjectPerSocket
<1>5. EntriesFaithful'
  <2> SUFFICES ASSUME native, NEW k \in DOMAIN entries' PROVE Faithful(objects'[k], entries'[k])
    BY DEF EntriesFaithful, Faithful
  <2>1. CASE k = nextHandle
    BY <1>1, <2>1
  <2>2. CASE k # nextHandle
    BY <1>1, <2>2 DEF SocketInv, OneObjectPerSocket, EntriesFaithful
  <2> QED BY <2>1, <2>2
<1>6. HostKnown'
  <2> SUFFICES ASSUME ~native PROVE HostKnown'
    BY DEF HostKnown
  <2>1. \A k \in DOMAIN objects' : Believes(objects'[k].state, hostSockets'[k])
    BY <1>1 DEF SocketInv, HostKnown, ObjectsGivenOut
  <2>2. \A k \in ObjectHandle \ DOMAIN entries' : hostSockets'[k] = "none"
    BY DEF SocketInv, HostKnown
  <2> QED BY <2>1, <2>2 DEF SocketInv, HostKnown, ObjectHandle
<1>7. ChecksSuffice'
  BY DEF ChecksSuffice
<1> QED BY <1>2, <1>3, <1>4, <1>5, <1>6, <1>7 DEF SocketInv

(* A call that leaves registry and host alone. *)
LEMMA ReplyKeeps ==
  ASSUME SocketInv, UNCHANGED <<native, objects, entries, nextHandle, hostSockets>>,
         native => reply'.result # "invalid"
  PROVE  SocketInv'
  BY DEF SocketInv, ObjectsGivenOut, OneObjectPerSocket, EntriesFaithful, Faithful, HostKnown,
         ChecksSuffice, ObjectHandle, InProcess!SocketInfo

-----------------------------------------------------------------------------
LEMMA ObjectKnown ==
  ASSUME SocketInv, NEW h, Exists(h)
  PROVE  /\ h \in DOMAIN objects /\ h \in ObjectHandle /\ objects[h] \in Object
         /\ h \in DOMAIN entries <=> objects[h].state # "Closed"
         /\ native /\ h \in DOMAIN entries => Faithful(objects[h], entries[h])
         /\ ~native => Believes(objects[h].state, hostSockets[h]) /\ h \in DOMAIN hostSockets
  BY DEF SocketInv, ObjectsGivenOut, OneObjectPerSocket, EntriesFaithful, HostKnown, Exists

LEMMA NextIsNew ==
  ASSUME SocketInv PROVE nextHandle \notin DOMAIN objects /\ nextHandle \notin DOMAIN entries
<1>1. nextHandle \notin DOMAIN objects
  BY DEF SocketInv, ObjectsGivenOut, ObjectHandle
<1> QED BY <1>1 DEF SocketInv, OneObjectPerSocket

(* An object for a socket that the host has just made. *)
LEMMA ObjectForRegistered ==
  ASSUME SocketInv, ~native, UNCHANGED native, nextHandle <= MaxSockets,
         NEW o \in Object, Add(nextHandle, o), o.state # "Closed",
         NEW entry, NEW onHost, OnHost!Register(entry, onHost), Believes(o.state, onHost)
  PROVE  SocketInv'
<1>1. nextHandle \in DOMAIN hostSockets
  BY DEF SocketInv, HostKnown, ObjectHandle
<1>2. /\ nextHandle' = nextHandle + 1
      /\ DOMAIN entries' = DOMAIN entries \cup {nextHandle}
      /\ \A k \in DOMAIN entries : entries'[k] = entries[k]
      /\ DOMAIN hostSockets' = DOMAIN hostSockets /\ hostSockets'[nextHandle] = onHost
      /\ \A k \in ObjectHandle \ {nextHandle} : hostSockets'[k] = hostSockets[k]
  BY <1>1, NextIsNew DEF OnHost!Register, SocketInv, HostKnown
<1> QED BY <1>2, AddKeeps

LEMMA NewKeeps ==
  ASSUME SocketInv, NEW p \in {"tcp", "udp"}, New(p), UNCHANGED native PROVE SocketInv'
<1> DEFINE o == [protocol |-> p, state |-> "Created", local |-> FALSE, remote |-> FALSE]
<1>1. o \in Object /\ o.state = "Created" /\ o.protocol = p
  BY DEF Object, SocketState
<1>2. CASE native
  <2>1. /\ nextHandle <= MaxSockets /\ nextHandle' = nextHandle + 1 /\ reply'.result = "ok"
        /\ entries' = [k \in DOMAIN entries \cup {nextHandle} |->
             IF k = nextHandle THEN [protocol |-> p, connected |-> FALSE, bound |-> FALSE, listening |-> FALSE]
             ELSE entries[k]]
        /\ UNCHANGED <<hostSockets, trapped>>
    BY <1>2 DEF New, Raw, InProcess!CreateSocket, InProcess!Reply
  <2>2. Add(nextHandle, o)
    BY <2>1 DEF New, Answered
  <2>3. Faithful(o, entries'[nextHandle])
    BY <1>1, <2>1 DEF Faithful, InProcess!SocketInfo
  <2>4. \A k \in DOMAIN entries : entries'[k] = entries[k]
    BY <2>1, NextIsNew
  <2> HIDE DEF o
  <2> QED BY <1>1, <1>2, <2>1, <2>2, <2>3, <2>4, AddKeeps
<1>3. CASE ~native
  <2>1. OnHost!CreateSocket(p) /\ (reply'.result = "ok" => Add(nextHandle, o))
        /\ (reply'.result # "ok" => UNCHANGED objects)
    BY <1>3 DEF New, Raw, Answered
  <2> DEFINE entry == [protocol |-> p, streams |-> FALSE]
  <2>2. CASE OnHost!Register(entry, "unbound") /\ OnHost!Reply("create", nextHandle, "ok")
    <3>1. nextHandle <= MaxSockets /\ Add(nextHandle, o)
      BY <2>1, <2>2 DEF OnHost!CreateSocket, OnHost!Reply
    <3>2. Believes("Created", "unbound")
      BY DEF Believes
    <3> HIDE DEF o, entry
    <3> QED BY <1>1, <1>3, <2>2, <3>1, <3>2, ObjectForRegistered
  <2>3. CASE OnHost!Reply("create", 0, "other") /\ UNCHANGED <<entries, nextHandle, hostSockets>>
    <3>1. UNCHANGED objects
      BY <2>1, <2>3 DEF OnHost!Reply
    <3> QED BY <1>3, <2>3, <3>1, ReplyKeeps
  <2> QED BY <2>1, <2>2, <2>3 DEF OnHost!CreateSocket
<1> QED BY <1>2, <1>3

-----------------------------------------------------------------------------
(* What a call for an object has done: it has brought its socket to what   *)
(* the state reached stands for, or left it at what its own stands for.    *)
Outcome(h, reached) == IF reply'.result = "ok" THEN reached ELSE objects[h].state

Called(h, reached) ==
  /\ UNCHANGED nextHandle
  /\ DOMAIN entries' = DOMAIN entries
  /\ \A k \in DOMAIN entries \ {h} : entries'[k] = entries[k]
  /\ \A k \in ObjectHandle \ {h} : hostSockets'[k] = hostSockets[k]
  /\ native => /\ reply'.result = "ok"
               /\ \A o \in Object : o.protocol = objects[h].protocol /\ o.state = reached
                                      => Faithful(o, entries'[h])
  /\ ~native => /\ DOMAIN hostSockets' = DOMAIN hostSockets
                /\ Believes(Outcome(h, reached), hostSockets'[h])

LEMMA CallKeeps ==
  ASSUME SocketInv, UNCHANGED native, NEW h, Exists(h), objects[h].state # "Closed",
         NEW reached, reached # "Closed", Called(h, reached),
         NEW o \in Object, o.protocol = objects[h].protocol, o.state = Outcome(h, reached),
         DOMAIN objects' = DOMAIN objects, objects'[h] = o,
         \A k \in DOMAIN objects \ {h} : objects'[k] = objects[k]
  PROVE  SocketInv'
<1>1. o.state # "Closed"
  BY DEF Outcome
<1>2. native => reply'.result # "invalid" /\ Faithful(o, entries'[h])
  BY DEF Called, Outcome
<1> QED BY <1>1, <1>2, MethodKeeps DEF Called, Exists

(* A flag of the native registry. *)
LEMMA FlagSet ==
  ASSUME NEW h \in DOMAIN entries, NEW flag, NEW op, NEW allowed, allowed,
         InProcess!SetFlag(op, h, allowed, flag)
  PROVE  /\ reply'.result = "ok" /\ UNCHANGED nextHandle
         /\ DOMAIN entries' = DOMAIN entries
         /\ entries'[h] = [entries[h] EXCEPT ![flag] = TRUE]
         /\ \A k \in DOMAIN entries \ {h} : entries'[k] = entries[k]
  BY DEF InProcess!SetFlag, InProcess!Reply

(* What the host comes to. *)
LEMMA HostStepped ==
  ASSUME SocketInv, NEW h \in DOMAIN hostSockets, NEW op, NEW outcomes, OnHost!HostSteps(op, h, outcomes)
  PROVE  \E outcome \in outcomes :
           /\ reply'.result = outcome[2] /\ hostSockets'[h] = outcome[1]
           /\ DOMAIN hostSockets' = DOMAIN hostSockets
           /\ \A k : k # h => hostSockets'[k] = hostSockets[k]
  BY DEF OnHost!HostSteps, OnHost!Reply

LEMMA BindCalled ==
  ASSUME SocketInv, NEW h, InState(h, {"Created"}), NEW isAddress \in BOOLEAN,
         Raw(InProcess!Bind(h), OnHost!Bind(h, isAddress))
  PROVE  Called(h, "Bound")
<1>0. Exists(h) /\ objects[h].state = "Created" /\ h \in DOMAIN entries
  BY ObjectKnown DEF InState
<1>1. CASE native
  <2>1. InProcess!Bind(h) /\ UNCHANGED hostSockets
    BY <1>1 DEF Raw
  <2>2. /\ reply'.result = "ok" /\ UNCHANGED nextHandle
        /\ DOMAIN entries' = DOMAIN entries
        /\ entries'[h] = [entries[h] EXCEPT !["bound"] = TRUE]
        /\ \A k \in DOMAIN entries \ {h} : entries'[k] = entries[k]
    BY <1>0, <2>1, FlagSet DEF InProcess!Bind, InProcess!Registered
  <2>3. Faithful(objects[h], entries[h])
    BY <1>0, <1>1, ObjectKnown
  <2>4. \A o \in Object : o.protocol = objects[h].protocol /\ o.state = "Bound" => Faithful(o, entries'[h])
    BY <1>0, <2>2, <2>3 DEF Faithful, InProcess!SocketInfo
  <2> QED BY <1>1, <2>1, <2>2, <2>4 DEF Called
<1>2. CASE ~native
  <2>1. OnHost!Bind(h, isAddress)
    BY <1>2 DEF Raw
  <2>2. Believes("Created", hostSockets[h]) /\ h \in DOMAIN hostSockets
    BY <1>0, <1>2, ObjectKnown
  <2>3. CASE OnHost!Reject("bind", h)
    BY <1>0, <1>2, <2>2, <2>3 DEF OnHost!Reject, OnHost!Reply, Called, Outcome
  <2>4. CASE OnHost!HostSteps("bind", h, OnHost!BindOutcomes(h)) /\ UNCHANGED <<entries, nextHandle>>
    <3>1. PICK outcome \in OnHost!BindOutcomes(h) :
            /\ reply'.result = outcome[2] /\ hostSockets'[h] = outcome[1]
            /\ DOMAIN hostSockets' = DOMAIN hostSockets
            /\ \A k : k # h => hostSockets'[k] = hostSockets[k]
      BY <2>2, <2>4, HostStepped
    <3>2. Believes(Outcome(h, "Bound"), outcome[1])
      BY <1>0, <2>2, <3>1 DEF OnHost!BindOutcomes, OnHost!SpinWait, OnHost!HostError, Believes, Outcome
    <3> QED BY <1>2, <2>4, <3>1, <3>2 DEF Called
  <2> QED BY <2>1, <2>3, <2>4 DEF OnHost!Bind
<1> QED BY <1>1, <1>2

LEMMA ListenCalled ==
  ASSUME SocketInv, NEW h, Tcp(h), InState(h, {"Bound"}), Raw(InProcess!Listen(h), OnHost!Listen(h))
  PROVE  Called(h, "Listening")
<1>0. Exists(h) /\ objects[h].state = "Bound" /\ h \in DOMAIN entries /\ objects[h].protocol = "tcp"
  BY ObjectKnown DEF InState, Tcp
<1>1. CASE native
  <2>1. InProcess!Listen(h) /\ UNCHANGED hostSockets
    BY <1>1 DEF Raw
  <2>2. Faithful(objects[h], entries[h])
    BY <1>0, <1>1, ObjectKnown
  <2>3. /\ reply'.result = "ok" /\ UNCHANGED nextHandle
        /\ DOMAIN entries' = DOMAIN entries
        /\ entries'[h] = [entries[h] EXCEPT !["listening"] = TRUE]
        /\ \A k \in DOMAIN entries \ {h} : entries'[k] = entries[k]
    BY <1>0, <2>1, <2>2, FlagSet DEF InProcess!Listen, InProcess!IsTcp, InProcess!Registered, Faithful
  <2>4. \A o \in Object : o.protocol = objects[h].protocol /\ o.state = "Listening" => Faithful(o, entries'[h])
    BY <1>0, <2>2, <2>3 DEF Faithful, InProcess!SocketInfo
  <2> QED BY <1>1, <2>1, <2>3, <2>4 DEF Called
<1>2. CASE ~native
  <2>1. OnHost!Listen(h)
    BY <1>2 DEF Raw
  <2>2. Believes("Bound", hostSockets[h]) /\ h \in DOMAIN hostSockets
    BY <1>0, <1>2, ObjectKnown
  <2>3. CASE OnHost!Reject("listen", h)
    BY <1>0, <1>2, <2>2, <2>3 DEF OnHost!Reject, OnHost!Reply, Called, Outcome
  <2>4. CASE OnHost!HostSteps("listen", h, OnHost!ListenOutcomes(h)) /\ UNCHANGED <<entries, nextHandle>>
    <3>1. PICK outcome \in OnHost!ListenOutcomes(h) :
            /\ reply'.result = outcome[2] /\ hostSockets'[h] = outcome[1]
            /\ DOMAIN hostSockets' = DOMAIN hostSockets
            /\ \A k : k # h => hostSockets'[k] = hostSockets[k]
      BY <2>2, <2>4, HostStepped
    <3>2. Believes(Outcome(h, "Listening"), outcome[1])
      BY <1>0, <2>2, <3>1 DEF OnHost!ListenOutcomes, OnHost!SpinWait, OnHost!HostError, Believes, Outcome
    <3> QED BY <1>2, <2>4, <3>1, <3>2 DEF Called
  <2> QED BY <2>1, <2>3, <2>4 DEF OnHost!Listen
<1> QED BY <1>1, <1>2

LEMMA ConnectCalled ==
  ASSUME SocketInv, NEW h, Tcp(h), InState(h, {"Created", "Bound"}), NEW isAddress \in BOOLEAN,
         Raw(InProcess!Connect(h), OnHost!Connect(h, isAddress))
  PROVE  Called(h, "Connected")
<1>0. /\ Exists(h) /\ objects[h].state \in {"Created", "Bound"}
      /\ h \in DOMAIN entries /\ objects[h].protocol = "tcp"
  BY ObjectKnown DEF InState, Tcp
<1>1. CASE native
  <2>1. InProcess!Connect(h) /\ UNCHANGED hostSockets
    BY <1>1 DEF Raw
  <2>2. Faithful(objects[h], entries[h])
    BY <1>0, <1>1, ObjectKnown
  <2>3. /\ reply'.result = "ok" /\ UNCHANGED nextHandle
        /\ DOMAIN entries' = DOMAIN entries
        /\ entries'[h] = [entries[h] EXCEPT !["connected"] = TRUE]
        /\ \A k \in DOMAIN entries \ {h} : entries'[k] = entries[k]
    BY <1>0, <2>1, <2>2, FlagSet DEF InProcess!Connect, InProcess!IsTcp, InProcess!Registered, Faithful
  <2>4. \A o \in Object : o.protocol = objects[h].protocol /\ o.state = "Connected" => Faithful(o, entries'[h])
    BY <1>0, <2>2, <2>3 DEF Faithful, InProcess!SocketInfo
  <2> QED BY <1>1, <2>1, <2>3, <2>4 DEF Called
<1>2. CASE ~native
  <2>1. OnHost!Connect(h, isAddress)
    BY <1>2 DEF Raw
  <2>2. Believes(objects[h].state, hostSockets[h]) /\ h \in DOMAIN hostSockets
    BY <1>0, <1>2, ObjectKnown
  <2>3. CASE OnHost!Reject("connect", h)
    BY <1>0, <1>2, <2>2, <2>3 DEF OnHost!Reject, OnHost!Reply, Called, Outcome
  <2>4. CASE /\ OnHost!HostSteps("connect", h, OnHost!ConnectOutcomes(h)) /\ UNCHANGED nextHandle
             /\ entries' = IF reply'.result = "ok" THEN [entries EXCEPT ![h].streams = TRUE] ELSE entries
    <3>1. PICK outcome \in OnHost!ConnectOutcomes(h) :
            /\ reply'.result = outcome[2] /\ hostSockets'[h] = outcome[1]
            /\ DOMAIN hostSockets' = DOMAIN hostSockets
            /\ \A k : k # h => hostSockets'[k] = hostSockets[k]
      BY <2>2, <2>4, HostStepped
    <3>2. Believes(Outcome(h, "Connected"), outcome[1])
      BY <1>0, <2>2, <3>1 DEF OnHost!ConnectOutcomes, OnHost!SpinWait, OnHost!HostError, Believes, Outcome
    <3>3. DOMAIN entries' = DOMAIN entries /\ \A k \in DOMAIN entries \ {h} : entries'[k] = entries[k]
      BY <2>4
    <3> QED BY <1>2, <2>4, <3>1, <3>2, <3>3 DEF Called
  <2> QED BY <2>1, <2>3, <2>4 DEF OnHost!Connect
<1> QED BY <1>1, <1>2

(* The object after the call. *)
LEMMA OnSuccessKeeps ==
  ASSUME SocketInv, UNCHANGED native, NEW h, Exists(h), objects[h].state # "Closed",
         NEW reached \in SocketState, reached # "Closed", Called(h, reached),
         NEW o \in Object, o.protocol = objects[h].protocol, o.state = reached, OnSuccess(h, o)
  PROVE  SocketInv'
<1>1. objects[h] \in Object
  BY ObjectKnown
<1>2. CASE Answered
  <2>1. /\ DOMAIN objects' = DOMAIN objects /\ objects'[h] = o
        /\ \A k \in DOMAIN objects \ {h} : objects'[k] = objects[k]
    BY <1>2 DEF OnSuccess, Exists
  <2>2. o.state = Outcome(h, reached)
    BY <1>2 DEF Outcome, Answered
  <2> QED BY <2>1, <2>2, CallKeeps
<1>3. CASE ~Answered
  <2>1. objects' = objects /\ objects[h].state = Outcome(h, reached)
    BY <1>3 DEF OnSuccess, Outcome, Answered
  <2> QED BY <1>1, <2>1, CallKeeps
<1> QED BY <1>2, <1>3

LEMMA OpenKeeps ==
  ASSUME SocketInv, UNCHANGED native, NEW h, NEW isAddress \in BOOLEAN,
         SocketBindToIp(h) \/ SocketBind(h, isAddress) \/ SocketListen(h) \/ SocketConnect(h, isAddress)
  PROVE  SocketInv'
<1>1. CASE SocketBindToIp(h)
  <2> DEFINE o == [objects[h] EXCEPT !.state = "Bound", !.local = TRUE]
  <2>1. Exists(h) /\ objects[h].state = "Created" /\ objects[h] \in Object
    BY <1>1, ObjectKnown DEF SocketBindToIp, InState
  <2>2. o \in Object /\ o.state = "Bound" /\ o.protocol = objects[h].protocol
    BY <2>1 DEF Object, SocketState
  <2>3. Called(h, "Bound") /\ OnSuccess(h, o)
    BY <1>1, BindCalled DEF SocketBindToIp
  <2> HIDE DEF o
  <2> QED BY <2>1, <2>2, <2>3, OnSuccessKeeps DEF SocketState
<1>2. CASE SocketBind(h, isAddress)
  <2> DEFINE o == [objects[h] EXCEPT !.state = IF Answered THEN "Bound" ELSE @, !.local = @ \/ isAddress]
  <2>1. Exists(h) /\ objects[h].state = "Created" /\ objects[h] \in Object
    BY <1>2, ObjectKnown DEF SocketBind, InState
  <2>2. Called(h, "Bound") /\ objects' = [objects EXCEPT ![h] = o]
    BY <1>2, BindCalled DEF SocketBind, Became
  <2>3. o \in Object /\ o.protocol = objects[h].protocol
    BY <2>1 DEF Object, SocketState
  <2>4. o.state = Outcome(h, "Bound")
    BY <2>1 DEF Outcome, Answered, Object
  <2> HIDE DEF o
  <2>5. /\ DOMAIN objects' = DOMAIN objects /\ objects'[h] = o
        /\ \A k \in DOMAIN objects \ {h} : objects'[k] = objects[k]
    BY <2>1, <2>2 DEF Exists
  <2> QED BY <2>1, <2>2, <2>3, <2>4, <2>5, CallKeeps
<1>3. CASE SocketListen(h)
  <2> DEFINE o == [objects[h] EXCEPT !.state = "Listening"]
  <2>1. Exists(h) /\ objects[h].state = "Bound" /\ objects[h] \in Object
    BY <1>3, ObjectKnown DEF SocketListen, InState
  <2>2. o \in Object /\ o.state = "Listening" /\ o.protocol = objects[h].protocol
    BY <2>1 DEF Object, SocketState
  <2>3. Called(h, "Listening") /\ OnSuccess(h, o)
    BY <1>3, ListenCalled DEF SocketListen
  <2> HIDE DEF o
  <2> QED BY <2>1, <2>2, <2>3, OnSuccessKeeps DEF SocketState
<1>4. CASE SocketConnect(h, isAddress)
  <2> DEFINE o == [objects[h] EXCEPT !.state = "Connected", !.remote = TRUE]
  <2>1. Exists(h) /\ objects[h].state # "Closed" /\ objects[h] \in Object
    BY <1>4, ObjectKnown DEF SocketConnect, InState
  <2>2. o \in Object /\ o.state = "Connected" /\ o.protocol = objects[h].protocol
    BY <2>1 DEF Object, SocketState
  <2>3. Called(h, "Connected") /\ OnSuccess(h, o)
    BY <1>4, ConnectCalled DEF SocketConnect
  <2> HIDE DEF o
  <2> QED BY <2>1, <2>2, <2>3, OnSuccessKeeps DEF SocketState
<1> QED BY <1>1, <1>2, <1>3, <1>4

LEMMA SocketAcceptKeeps == ASSUME SocketInv, UNCHANGED native, NEW h, SocketAccept(h) PROVE SocketInv'
<1>0. Exists(h) /\ objects[h].state = "Listening" /\ objects[h] \in Object
  BY ObjectKnown DEF SocketAccept, InState
<1>1. CASE native
  <2>1. UNCHANGED <<entries, nextHandle, hostSockets>> /\ reply'.result = "would-block"
    BY <1>1 DEF SocketAccept, Raw, InProcess!Accept, InProcess!Reply
  <2>2. UNCHANGED objects
    BY <2>1 DEF SocketAccept, Answered
  <2> QED BY <2>1, <2>2, ReplyKeeps
<1>2. CASE ~native
  <2>1. OnHost!Accept(h)
    BY <1>2 DEF SocketAccept, Raw
  <2> DEFINE o == [objects[h] EXCEPT !.state = "Connected", !.remote = FALSE]
             entry == [protocol |-> "tcp", streams |-> TRUE]
  <2>2. CASE reply'.result # "ok" /\ UNCHANGED <<entries, nextHandle, hostSockets>>
    <3>1. UNCHANGED objects
      BY <2>2 DEF SocketAccept, Answered
    <3> QED BY <1>2, <2>2, <3>1, ReplyKeeps
  <2>3. CASE nextHandle <= MaxSockets /\ OnHost!Register(entry, "connected") /\ OnHost!Reply("accept", h, "ok")
    <3>1. Add(nextHandle, o)
      BY <2>3 DEF SocketAccept, Answered, OnHost!Reply
    <3>2. o \in Object /\ o.state = "Connected" /\ Believes("Connected", "connected")
      BY <1>0 DEF Object, SocketState, Believes
    <3> HIDE DEF o, entry
    <3> QED BY <1>2, <2>3, <3>1, <3>2, ObjectForRegistered
  <2>4. ASSUME NEW e \in OnHost!HostError \cup {"other"}, OnHost!Reply("accept", h, e) PROVE reply'.result # "ok"
    BY <2>4 DEF OnHost!HostError, OnHost!Reply
  <2>5. OnHost!Reject("accept", h) \/ OnHost!Reply("accept", h, "other") => reply'.result # "ok"
    BY DEF OnHost!Reject, OnHost!Reply
  <2> QED BY <2>1, <2>2, <2>3, <2>4, <2>5 DEF OnHost!Accept, OnHost!Reject
<1> QED BY <1>1, <1>2

(* Traffic changes nothing that the registry keeps. *)
LEMMA SocketTrafficKeeps ==
  ASSUME SocketInv, UNCHANGED native, NEW h,
         SocketSend(h) \/ SocketRecv(h) \/ SocketSendToOrRecvFrom(h)
  PROVE  SocketInv'
<1>1. UNCHANGED objects
  BY DEF SocketSend, SocketRecv, SocketSendToOrRecvFrom
<1>2. CASE native
  <2>1. UNCHANGED <<entries, nextHandle, hostSockets>> /\ reply'.result = "ok"
    BY <1>2 DEF SocketSend, SocketRecv, SocketSendToOrRecvFrom, Raw, InProcess!Send,
       InProcess!Receive, InProcess!SendToOrReceiveFrom, InProcess!Reply
  <2> QED BY <1>1, <2>1, ReplyKeeps
<1>3. CASE ~native
  <2>1. OnHost!Send(h) \/ OnHost!Receive(h) \/ OnHost!SendToOrReceiveFrom(h)
    BY <1>3 DEF SocketSend, SocketRecv, SocketSendToOrRecvFrom, Raw
  <2>2. UNCHANGED <<entries, nextHandle, hostSockets>>
    BY <2>1 DEF OnHost!Send, OnHost!Receive, OnHost!SendToOrReceiveFrom, OnHost!Reject
  <2> QED BY <1>1, <1>3, <2>2, ReplyKeeps
<1> QED BY <1>2, <1>3

(* The socket goes with its entry. *)
LEMMA Closes ==
  ASSUME SocketInv, NEW h \in DOMAIN entries, Raw(InProcess!Close(h), OnHost!Close(h))
  PROVE  /\ DOMAIN entries' = DOMAIN entries \ {h} /\ UNCHANGED nextHandle
         /\ \A k \in DOMAIN entries \ {h} : entries'[k] = entries[k]
         /\ reply'.result = "ok"
         /\ native => UNCHANGED hostSockets
         /\ ~native => hostSockets' = [hostSockets EXCEPT ![h] = "none"]
<1>1. CASE native
  BY <1>1 DEF Raw, InProcess!Close, InProcess!Registered, InProcess!Reply, InProcess!Restrict
<1>2. CASE ~native
  BY <1>2 DEF Raw, OnHost!Close, OnHost!Registered, OnHost!Reply, OnHost!DropSocket, OnHost!Restrict
<1> QED BY <1>1, <1>2

LEMMA SocketCloseKeeps == ASSUME SocketInv, UNCHANGED native, NEW h, SocketClose(h) PROVE SocketInv'
<1> DEFINE o == [objects[h] EXCEPT !.state = "Closed"]
<1>1. /\ Exists(h) /\ objects[h].state # "Closed" /\ objects[h] \in Object
      /\ h \in DOMAIN entries /\ (~native => h \in DOMAIN hostSockets)
  BY ObjectKnown DEF SocketClose, InState
<1>2. o \in Object /\ o.state = "Closed"
  BY <1>1 DEF Object, SocketState
<1>3. /\ DOMAIN entries' = DOMAIN entries \ {h} /\ UNCHANGED nextHandle
      /\ \A k \in DOMAIN entries \ {h} : entries'[k] = entries[k]
      /\ reply'.result = "ok"
      /\ native => UNCHANGED hostSockets
      /\ ~native => hostSockets' = [hostSockets EXCEPT ![h] = "none"]
  BY <1>1, Closes DEF SocketClose
<1>4. /\ DOMAIN objects' = DOMAIN objects /\ objects'[h] = o
      /\ \A k \in DOMAIN objects \ {h} : objects'[k] = objects[k]
  BY <1>1, <1>3 DEF SocketClose, OnSuccess, Answered, Exists
<1>5. ~native => DOMAIN hostSockets' = DOMAIN hostSockets /\ Believes("Closed", hostSockets'[h])
  BY <1>1, <1>3 DEF Believes
<1>6. \A k \in ObjectHandle \ {h} : hostSockets'[k] = hostSockets[k]
  BY <1>3 DEF SocketInv, HostKnown
<1> HIDE DEF o
<1> QED BY <1>1, <1>2, <1>3, <1>4, <1>5, <1>6, MethodKeeps DEF Exists

LEMMA DropKeeps == ASSUME SocketInv, UNCHANGED native, NEW h, SocketDrop(h) PROVE SocketInv'
<1>1. /\ DOMAIN objects' = DOMAIN objects \ {h}
      /\ \A k \in DOMAIN objects' : objects'[k] = objects[k]
  BY DEF SocketDrop, Restrict
<1>2. /\ DOMAIN entries' = DOMAIN entries \ {h} /\ UNCHANGED nextHandle
      /\ \A k \in DOMAIN entries' : entries'[k] = entries[k]
      /\ \A k \in ObjectHandle \ {h} : hostSockets'[k] = hostSockets[k]
      /\ ~native => /\ DOMAIN hostSockets' = DOMAIN hostSockets
                    /\ h \in ObjectHandle => hostSockets'[h] = "none"
      /\ native => reply'.result # "invalid"
  <2>1. CASE InState(h, {"Closed"})
    <3>1. UNCHANGED raw
      BY <2>1 DEF SocketDrop
    <3>2. h \notin DOMAIN entries
      BY <2>1, ObjectKnown DEF InState
    <3> QED BY <3>1, <3>2 DEF raw, SocketInv, HostKnown, ChecksSuffice
  <2>2. CASE ~InState(h, {"Closed"})
    <3>1. h \in DOMAIN entries
      BY <2>2, ObjectKnown DEF SocketDrop, InState
    <3>2. /\ DOMAIN entries' = DOMAIN entries \ {h} /\ UNCHANGED nextHandle
          /\ \A k \in DOMAIN entries \ {h} : entries'[k] = entries[k]
          /\ reply'.result = "ok"
          /\ native => UNCHANGED hostSockets
          /\ ~native => hostSockets' = [hostSockets EXCEPT ![h] = "none"]
      BY <2>2, <3>1, Closes DEF SocketDrop
    <3> QED BY <1>1, <3>2 DEF SocketInv, HostKnown, ObjectsGivenOut
  <2> QED BY <2>1, <2>2
<1>3. ObjectsGivenOut' /\ OneObjectPerSocket'
  BY <1>1, <1>2 DEF SocketInv, ObjectsGivenOut, OneObjectPerSocket
<1>4. EntriesFaithful'
  <2> SUFFICES ASSUME native, NEW k \in DOMAIN entries' PROVE Faithful(objects'[k], entries'[k])
    BY DEF EntriesFaithful, Faithful
  <2>1. k \in DOMAIN entries /\ k \in DOMAIN objects'
    BY <1>1, <1>2 DEF SocketInv, OneObjectPerSocket
  <2> QED BY <1>1, <1>2, <2>1 DEF SocketInv, EntriesFaithful
<1>5. HostKnown'
  <2> SUFFICES ASSUME ~native PROVE HostKnown'
    BY DEF HostKnown
  <2>1. \A k \in DOMAIN objects' : Believes(objects'[k].state, hostSockets'[k])
    BY <1>1, <1>2 DEF SocketInv, HostKnown, ObjectsGivenOut
  <2>2. \A k \in ObjectHandle \ DOMAIN entries' : hostSockets'[k] = "none"
    BY <1>2 DEF SocketInv, HostKnown
  <2> QED BY <1>2, <2>1, <2>2 DEF SocketInv, HostKnown, ObjectHandle
<1>6. ChecksSuffice'
  BY <1>2 DEF ChecksSuffice
<1> QED BY <1>2, <1>3, <1>4, <1>5, <1>6 DEF SocketInv

LEMMA SocketKept == ASSUME SocketInv, [SocketNext]_socketVars PROVE SocketInv'
<1>1. CASE UNCHANGED socketVars
  BY <1>1, ReplyKeeps DEF socketVars, SocketInv, ChecksSuffice
<1>2. ASSUME NEW p \in {"tcp", "udp"}, New(p), UNCHANGED native PROVE SocketInv'
  BY <1>2, NewKeeps
<1>3. ASSUME NEW h \in ObjectHandle, Method(h), UNCHANGED native PROVE SocketInv'
  BY <1>3, OpenKeeps, SocketAcceptKeeps, SocketTrafficKeeps, SocketCloseKeeps, DropKeeps DEF Method
<1> QED BY <1>1, <1>2, <1>3 DEF SocketNext

LEMMA SocketInvariant == SocketSpec => []SocketInv
  BY InitSocketInv, SocketKept, PTL DEF SocketSpec

(* For any number of objects and calls, over either registry and whatever  *)
(* fails half-way: nothing leaks, nothing is shared, and no object claims  *)
(* what its socket has not got (Socket, api.rs).                           *)
THEOREM ObjectsAlwaysAgree == SocketSpec => []ObjectsAgree
  BY SocketInvariant, SocketInvAgrees, PTL

(* Over the host a step of an object is one call of the registry, or none  *)
(* when an object is dropped that was closed.                              *)
LEMMA ObjectCallsRegistry ==
  ASSUME ~native, SocketNext \/ UNCHANGED socketVars PROVE OnHost!WasiNext \/ UNCHANGED OnHost!wasiVars
<1>1. ASSUME NEW p \in {"tcp", "udp"}, New(p) PROVE OnHost!WasiNext
  BY <1>1 DEF New, Raw, OnHost!WasiNext, OnHost!Protocol
<1>2. ASSUME NEW h \in ObjectHandle, NEW isAddress \in BOOLEAN,
             SocketBindToIp(h) \/ SocketBind(h, isAddress) \/ SocketConnect(h, isAddress)
      PROVE  OnHost!WasiNext
  <2>1. \E given \in BOOLEAN : OnHost!Bind(h, given) \/ OnHost!Connect(h, given)
    BY <1>2 DEF SocketBindToIp, SocketBind, SocketConnect, Raw
  <2> QED BY <2>1 DEF OnHost!WasiNext, OnHost!Handle, ObjectHandle
<1>3. ASSUME NEW h \in ObjectHandle,
             \/ SocketListen(h) \/ SocketAccept(h) \/ SocketSend(h) \/ SocketRecv(h)
             \/ SocketSendToOrRecvFrom(h) \/ SocketClose(h) \/ SocketDrop(h)
      PROVE  OnHost!WasiNext \/ UNCHANGED OnHost!wasiVars
  <2>1. \/ OnHost!Listen(h) \/ OnHost!Accept(h) \/ OnHost!Send(h) \/ OnHost!Receive(h)
        \/ OnHost!SendToOrReceiveFrom(h) \/ OnHost!Close(h) \/ UNCHANGED raw
    BY <1>3 DEF SocketListen, SocketAccept, SocketSend, SocketRecv, SocketSendToOrRecvFrom,
                SocketClose, SocketDrop, Raw
  <2> QED BY <2>1 DEF OnHost!WasiNext, OnHost!wasiVars, OnHost!Handle, ObjectHandle, raw
<1>4. ASSUME UNCHANGED socketVars PROVE UNCHANGED OnHost!wasiVars
  BY <1>4 DEF socketVars, OnHost!wasiVars
<1> QED BY <1>1, <1>2, <1>3, <1>4 DEF SocketNext, Method

(* The objects of a WASM build call the registry over the host only as it  *)
(* is specified: their behaviours are behaviours of the registry.          *)
THEOREM ObjectsUseTheRegistry == SocketSpec /\ ~native => OnHost!WasiSpec
<1>1. SocketInit => OnHost!WasiInit
  BY DEF SocketInit
<1>2. ~native /\ [SocketNext]_socketVars => (~native)' /\ [OnHost!WasiNext]_OnHost!wasiVars
  BY ObjectCallsRegistry DEF SocketNext, socketVars
<1> QED BY <1>1, <1>2, PTL DEF SocketSpec, OnHost!WasiSpec
=============================================================================

---------------------------- MODULE HttpExchange ----------------------------
(***************************************************************************)
(* One response on a connection, counted in bytes: HeadLen bytes up to and *)
(* including the blank line, then a body, which may be endless.  The peer  *)
(* is a server on the network: it sends in pieces of any size, pauses, and *)
(* may close early.                                                        *)
(***************************************************************************)
EXTENDS Integers

CONSTANTS
  HeadLen,   \* bytes of the head
  BodyLens,  \* bound: the lengths a body can have
  Endless,   \* or it goes on for as long as the connection
  Counted,   \* bound: the bytes of an endless response that are counted one by one
  Declared,  \* bound: the lengths a head can announce; NoLength if it has none
  NoLength,
  Word       \* the number of values of a usize

ASSUME ExchangeAssumption ==
  /\ HeadLen \in Nat \ {0} /\ Word \in Nat \ {0}
  /\ BodyLens \subseteq Nat /\ Endless \notin Nat
  /\ Declared \subseteq Nat \cup {NoLength} /\ NoLength \notin Nat
  /\ Counted \in Nat /\ Counted >= HeadLen
  /\ \A d \in Declared \ {NoLength} : (HeadLen + d) % Word <= Counted

VARIABLES
  response,    \* what the peer has to say
  sent,        \* bytes the peer has sent
  surplus,     \* whether bytes beyond those counted have been sent and not read
  peerClosed,  \* whether the peer has closed the connection
  received     \* response_data: bytes the client has read

exchangeVars == <<response, sent, surplus, peerClosed, received>>

Response == [declared : Declared, body : BodyLens \cup {Endless}]
Total(r) == IF r.body = Endless THEN Counted ELSE HeadLen + r.body

ExchangeInit ==
  /\ response \in Response
  /\ sent = 0 /\ surplus = FALSE /\ peerClosed = FALSE /\ received = 0

NewExchange ==
  /\ response' \in Response
  /\ sent' = 0 /\ surplus' = FALSE /\ peerClosed' = FALSE /\ received' = 0

PeerSends ==
  /\ ~peerClosed
  /\ \/ sent' \in sent + 1 .. Total(response) /\ UNCHANGED surplus
     \/ response.body = Endless /\ sent = Total(response) /\ surplus' = TRUE /\ UNCHANGED sent
  /\ UNCHANGED <<response, peerClosed, received>>

PeerCloses ==
  /\ ~peerClosed /\ peerClosed' = TRUE
  /\ UNCHANGED <<response, sent, surplus, received>>

-----------------------------------------------------------------------------
(* A read takes what there is, or a part of it; with nothing there it is   *)
(* empty, whether the peer pauses or has closed.                           *)
ReadEmpty == sent = received /\ ~surplus /\ UNCHANGED exchangeVars
ReadChunk ==
  /\ \/ received' \in received + 1 .. sent /\ UNCHANGED surplus
     \/ received = sent /\ surplus /\ surplus' = FALSE /\ UNCHANGED received
  /\ UNCHANGED <<response, sent, peerClosed>>

HeadRead(n) == n >= HeadLen

(* The expected length is a usize: a length near its limit wraps around    *)
(* (in a debug build it panics).                                           *)
ExpectedLen == (HeadLen + response.declared) % Word

(* Mistake: one byte more than announced is waited for. *)
WholeAndMore(n) ==
  HeadRead(n) /\ response.declared # NoLength /\ n > ExpectedLen

(* The length that ends the loop. *)
Whole(n) == HeadRead(n) /\ response.declared # NoLength /\ n >= ExpectedLen

ExchangeTypeOK ==
  /\ response \in Response
  /\ sent \in 0 .. Total(response) /\ received \in 0 .. sent
  /\ surplus \in BOOLEAN /\ peerClosed \in BOOLEAN
=============================================================================

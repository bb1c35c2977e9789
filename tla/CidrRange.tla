----------------------------- MODULE CidrRange -----------------------------
(***************************************************************************)
(* The arithmetic of struct IpRange, IpRangeIterator and count_total_ips   *)
(* (core-libs/src/ip/mod.rs) on words of W bits: 32 for an IPv4 address,   *)
(* 128 for an IPv6 one.  Where an operation overflows a debug build panics *)
(* and a release build goes on with what the machine computes.             *)
(***************************************************************************)
EXTENDS Integers, Sequences, FiniteSets, SequencesExt, Functions

CONSTANTS
  W,          \* bits of an address
  UsizeMax,   \* usize::MAX, by family: above an IPv4 address, below an IPv6 one
  MaxSpans,   \* bound of the model on the number of ranges
  NoAddress   \* no current address

Word == 0 .. 2^W - 1
AllOnes == 2^W - 1

ASSUME CidrAssumption ==
  /\ W \in Nat \ {0} /\ MaxSpans \in Nat
  /\ UsizeMax["v4"] \in Nat /\ UsizeMax["v4"] >= AllOnes
  /\ UsizeMax["v6"] \in Word
  /\ NoAddress \notin Word

VARIABLES
  family,   \* "v4" or "v6"
  build,    \* "debug" or "release"
  spans,    \* the ranges of a pool: [start, end]
  status,   \* "Open", "Scanning", "Scanned" or "Panicked"
  index,    \* the range that is being scanned
  current,  \* IpRangeIterator.current
  yielded   \* the addresses the scan has looked at

cidrVars == <<family, build, spans, status, index, current, yielded>>
scanVars == <<index, current, yielded>>

-----------------------------------------------------------------------------
(* A word is the sum of the powers of two that its bits stand for; & and | *)
(* are taken bit by bit.                                                   *)
BitsOf(x) == {k \in 0 .. W-1 : (x \div 2^k) % 2 = 1}
WordOf(bits) == SumFunction([k \in bits |-> 2^k])

x & y == WordOf(BitsOf(x) \cap BitsOf(y))
x | y == WordOf(BitsOf(x) \cup BitsOf(y))

(* x << k: the amount must be smaller than the width. *)
ShiftPanics(k) == build = "debug" /\ k >= W
ShiftLeft(x, k) == (x * 2^(k % W)) % 2^W

(* Mistake: one bit too few. *)
ShortMask(prefix) == ShiftLeft(AllOnes, IF prefix = 0 THEN W - 1 ELSE W - prefix + 1)

Mask(prefix) == ShiftLeft(AllOnes, W - prefix)

(* calculate_ipv4_range, calculate_ipv6_range *)
CidrBounds(ip, prefix) ==
  LET mask == Mask(prefix)
      network == ip & mask
  IN  [start |-> network, end |-> network | (AllOnes - mask)]

(* Mistakes: it wraps; it runs past the last address. *)
WrappingNext(a) == (a + 1) % 2^W
UncheckedNext(a) == a + 1

(* u32::checked_add(1), u128::checked_add(1) *)
CheckedNext(a) == IF a = AllOnes THEN NoAddress ELSE a + 1

-----------------------------------------------------------------------------
CidrInit ==
  /\ family \in {"v4", "v6"}
  /\ build \in {"debug", "release"}
  /\ spans = <<>>
  /\ status = "Open"
  /\ index = 0 /\ current = NoAddress /\ yielded = <<>>

Add(range) ==
  /\ spans' = Append(spans, range)
  /\ UNCHANGED <<family, build, status, scanVars>>

CanAdd == status = "Open" /\ Len(spans) < MaxSpans

(* add_range(IpRange::new(s, e)): InvalidRange leaves the pool as it is. *)
AddSpan(s, e) == CanAdd /\ s <= e /\ Add([start |-> s, end |-> e])

(* add_cidr_range: a prefix above the width is an InvalidSubnet. *)
AddCidr(ip, prefix) ==
  /\ CanAdd /\ prefix <= W
  /\ IF ShiftPanics(W - prefix)
     THEN status' = "Panicked" /\ UNCHANGED <<family, build, spans, scanVars>>
     ELSE Add(CidrBounds(ip, prefix))

(* find_available_ip when no address it looks at is usable: the iterators  *)
(* of all ranges, one after the other.                                     *)
ScanRange(i) ==
  /\ index' = i
  /\ current' = IF i <= Len(spans) THEN spans[i].start ELSE NoAddress
  /\ status' = IF i <= Len(spans) THEN "Scanning" ELSE "Scanned"
  /\ UNCHANGED <<family, build, spans, yielded>>

StartScan == status = "Open" /\ ScanRange(1)

(* IpRangeIterator::next *)
Exhausted == current # NoAddress => current > spans[index].end

Yield ==
  /\ status = "Scanning" /\ ~Exhausted
  /\ Len(yielded) <= MaxSpans * 2^W
  /\ yielded' = Append(yielded, current)
  /\ current' = CheckedNext(current)
  /\ UNCHANGED <<family, build, spans, status, index>>

(* Mistake: the index is not advanced. *)
RescanRange == status = "Scanning" /\ Exhausted /\ ScanRange(index)

NextRange == status = "Scanning" /\ Exhausted /\ ScanRange(index + 1)

Scan == StartScan \/ Yield \/ NextRange

CidrNext ==
  \/ \E s, e \in Word : AddSpan(s, e)
  \/ \E ip \in Word, prefix \in 0 .. W : AddCidr(ip, prefix)
  \/ Scan

CidrSpec == CidrInit /\ [][CidrNext]_cidrVars

(* The scan is a loop of one thread. *)
FairCidrSpec == CidrSpec /\ WF_cidrVars(Scan)

-----------------------------------------------------------------------------
SizeOf(range) == range.end - range.start + 1

(* One range's share of count_total_ips, and whether the sum of IPv4       *)
(* panics; the addition of 1 is missing for IPv6.                          *)
CountOf(range) ==
  IF family = "v4" THEN SizeOf(range) % 2^W
  ELSE IF SizeOf(range) - 1 > UsizeMax["v6"] THEN UsizeMax["v6"] ELSE SizeOf(range) - 1

CountPanics ==
  build = "debug" /\
    \/ family = "v4" /\ \E i \in DOMAIN spans : SizeOf(spans[i]) > AllOnes
    \/ SumFunction([i \in DOMAIN spans |-> CountOf(spans[i])]) > UsizeMax[family]

(* Mistake: the last address is counted in both families. *)
CountSizes == SumFunction([i \in DOMAIN spans |-> SizeOf(spans[i])]) + Len(spans)

TotalIps ==
  SumFunction([i \in DOMAIN spans |-> CountOf(spans[i])]) % (UsizeMax[family] + 1)

-----------------------------------------------------------------------------
CidrTypeOK ==
  /\ family \in {"v4", "v6"} /\ build \in {"debug", "release"}
  /\ spans \in Seq([start : Word, end : Word]) /\ Len(spans) <= MaxSpans
  /\ status \in {"Open", "Scanning", "Scanned", "Panicked"}
  /\ index \in 0 .. MaxSpans + 1
  /\ current \in Word \cup {NoAddress}
  /\ yielded \in Seq(Word)

AddressesOf(range) == range.start .. range.end

(* The addresses that agree with ip in the first bits. *)
PrefixBlock(ip, prefix) == {a \in Word : a \div 2^(W - prefix) = ip \div 2^(W - prefix)}

(* Whatever the address and the length of its prefix, short of 0, the      *)
(* masks select the block of the prefix and nothing else.                  *)
CidrIsBlock ==
  \A ip \in Word, prefix \in 1 .. W : AddressesOf(CidrBounds(ip, prefix)) = PrefixBlock(ip, prefix)

(* The scan looks at the addresses of each range once, in order, from the  *)
(* first to the last, and stops at the last address there is.              *)
InOrder(range) == [k \in 1 .. SizeOf(range) |-> range.start + k - 1]

ScanIsExact ==
  /\ status = "Scanned" => yielded = FlattenSeq([i \in DOMAIN spans |-> InOrder(spans[i])])
  /\ \A k \in DOMAIN yielded : \E i \in DOMAIN spans : yielded[k] \in AddressesOf(spans[i])

(* A scan that has begun ends, at the top of the address space too. *)
ScanEnds == [](status = "Scanning" => <>(status = "Scanned"))

Disjoint ==
  \A i, j \in DOMAIN spans : i # j => AddressesOf(spans[i]) \cap AddressesOf(spans[j]) = {}

Addresses == UNION {AddressesOf(spans[i]) : i \in DOMAIN spans}

(* Of disjoint ranges the figure "total" is never above the number of      *)
(* addresses.  For IPv4 it is that number, unless a range is the whole     *)
(* address space; for IPv6 every range is short of at least one.           *)
TotalAccounted ==
  Disjoint /\ ~CountPanics =>
    /\ TotalIps <= Cardinality(Addresses)
    /\ family = "v4" /\ Addresses # Word => TotalIps = Cardinality(Addresses)
    /\ family = "v6" => TotalIps + Len(spans) <= Cardinality(Addresses)

(* Ranges are the blocks they are asked for, are scanned from end to end,  *)
(* and are counted no higher than they are.                                *)
RangesSound == CidrTypeOK /\ ScanIsExact /\ TotalAccounted /\ CidrIsBlock
=============================================================================

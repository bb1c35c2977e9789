----------------------------- MODULE DataLemmas -----------------------------
(***************************************************************************)
(* What the proofs need to know of sums over finite sets, powers of two,   *)
(* remainders and flattened sequences.  SumFunction and FlattenSeq are     *)
(* defined by recursive functions: that the equation has a solution, and   *)
(* what it is, is by induction over the size of the data.  Induction is    *)
(* stated for a set, the numbers that a proposition holds of, so that it   *)
(* can be used with a proposition of any kind.                             *)
(***************************************************************************)
EXTENDS Integers, Sequences, FiniteSets, SequencesExt, Functions,
        SequenceTheorems, FiniteSetTheorems, WellFoundedInduction, TLAPS

(* A set with 0 and with the successors of its numbers has all of Nat. *)
LEMMA SetInduction ==
  ASSUME NEW S, 0 \in S, \A n \in Nat : n \in S => n + 1 \in S
  PROVE  Nat \subseteq S
<1> SUFFICES ASSUME Nat \ S # {} PROVE FALSE
  OBVIOUS
<1> DEFINE T == Nat \ S
           R == OpToRel(<, Nat)
<1>1. IsWellFoundedOn(R, Nat)
  BY NatLessThanWellFounded
<1>2. T \subseteq Nat /\ T # {}
  OBVIOUS
<1> HIDE DEF T, R
<1>3. PICK n \in T : \A m \in T : ~(<<m, n>> \in R)
  BY <1>1, <1>2, WFMin
<1>4. \A m \in T : ~(m < n)
  BY <1>2, <1>3 DEF R, OpToRel
<1>5. n \in Nat /\ n # 0 /\ n \notin S
  BY DEF T
<1>6. n - 1 \in Nat /\ n - 1 \notin T
  BY <1>4, <1>5
<1>7. n - 1 \in S
  BY <1>6 DEF T
<1> QED BY <1>5, <1>6, <1>7

-----------------------------------------------------------------------------
(* Sums over finite sets. *)
Chosen(s) == CHOOSE x \in s : TRUE

(* The sum of the function over a set, from those over smaller sets; and   *)
(* the function that is such a sum over the sets of up to n elements.      *)
SumStep(f, g, s) == IF s = {} THEN 0 ELSE f[Chosen(s)] + g[s \ {Chosen(s)}]
Small(D, n) == {s \in SUBSET D : Cardinality(s) <= n}
Sums(f, D, g, n) == g = [s \in Small(D, n) |-> SumStep(f, g, s)]

(* What the library's SumFunction stands for, folds unfolded. *)
LEMMA SumIs ==
  ASSUME NEW f
  PROVE  SumFunction(f) = (CHOOSE g : g = [s \in SUBSET DOMAIN f |-> SumStep(f, g, s)])[DOMAIN f]
  BY DEF SumFunction, SumFunctionOnSet, FoldFunctionOnSet, MapThenFoldSet, Chosen, SumStep

(* The element taken out is one of the set. *)
LEMMA ChosenIn == \A s : s # {} => Chosen(s) \in s
  BY DEF Chosen

(* Without it the set is smaller. *)
LEMMA SmallerSet ==
  ASSUME NEW D, IsFiniteSet(D), NEW n \in Nat, NEW s \in Small(D, n + 1), s # {}
  PROVE  s \ {Chosen(s)} \in Small(D, n)
<1>1. IsFiniteSet(s) /\ Chosen(s) \in s
  BY FS_Subset, ChosenIn DEF Small
<1>2. Cardinality(s \ {Chosen(s)}) = Cardinality(s) - 1 /\ Cardinality(s) \in Nat
  BY <1>1, FS_RemoveElement, FS_CardinalityType
<1> QED BY <1>2 DEF Small

(* The equation for such a function has a solution, at every size: what    *)
(* the CHOOSE in SumFunction needs in order to stand for the sum.          *)
LEMMA SumsExist ==
  ASSUME NEW f, NEW D, IsFiniteSet(D) PROVE \A n \in Nat : \E g : Sums(f, D, g, n)
<1> DEFINE S == {n \in Nat : \E g : Sums(f, D, g, n)}
<1>1. 0 \in S
  <2> DEFINE g == [s \in Small(D, 0) |-> 0]
  <2>1. \A s \in Small(D, 0) : s = {}
    <3> TAKE s \in Small(D, 0)
    <3>1. IsFiniteSet(s) /\ Cardinality(s) <= 0
      BY FS_Subset DEF Small
    <3>2. Cardinality(s) = 0
      BY <3>1, FS_CardinalityType
    <3> QED BY <3>1, <3>2, FS_EmptySet
  <2>2. g = [s \in Small(D, 0) |-> SumStep(f, g, s)]
    BY <2>1 DEF SumStep
  <2> HIDE DEF g
  <2>3. Sums(f, D, g, 0)
    BY <2>2 DEF Sums
  <2> QED BY <2>3
<1>2. ASSUME NEW n \in Nat, n \in S PROVE n + 1 \in S
  <2>1. PICK g : Sums(f, D, g, n)
    BY <1>2
  <2> DEFINE h == [s \in Small(D, n + 1) |-> SumStep(f, g, s)]
  <2>2. ASSUME NEW s \in Small(D, n + 1), s # {}
        PROVE  g[s \ {Chosen(s)}] = h[s \ {Chosen(s)}]
    <3> DEFINE t == s \ {Chosen(s)}
    <3>1. t \in Small(D, n)
      BY <2>2, SmallerSet
    <3>2. t \in Small(D, n + 1)
      <4>1. IsFiniteSet(t)
        BY <3>1, FS_Subset DEF Small
      <4>2. Cardinality(t) \in Nat
        BY <4>1, FS_CardinalityType
      <4> QED BY <3>1, <4>2 DEF Small
    <3> HIDE DEF t
    <3>3. g[t] = SumStep(f, g, t)
      BY <2>1, <3>1 DEF Sums
    <3>4. h[t] = SumStep(f, g, t)
      BY <3>2
    <3> QED BY <3>3, <3>4 DEF t
  <2>3. \A s \in Small(D, n + 1) : SumStep(f, g, s) = SumStep(f, h, s)
    BY <2>2 DEF SumStep
  <2>4. h = [s \in Small(D, n + 1) |-> SumStep(f, h, s)]
    BY <2>3
  <2> HIDE DEF h
  <2>5. Sums(f, D, h, n + 1)
    BY <2>4 DEF Sums
  <2> QED BY <2>5
<1> HIDE DEF S
<1>3. Nat \subseteq S
  BY <1>1, <1>2, SetInduction
<1> QED BY <1>3 DEF S

(* SumFunction of the community modules is a sum: of the smaller sets, and *)
(* nothing over the empty one.                                             *)
LEMMA SumUnfolds ==
  ASSUME NEW f, IsFiniteSet(DOMAIN f)
  PROVE  \E g : /\ SumFunction(f) = g[DOMAIN f]
                /\ \A s \in SUBSET DOMAIN f : g[s] = SumStep(f, g, s)
<1> DEFINE D == DOMAIN f
           n == Cardinality(D)
<1>1. n \in Nat
  BY FS_CardinalityType
<1>2. Small(D, n) = SUBSET D
  <2>1. \A s \in SUBSET D : Cardinality(s) <= n
    BY FS_Subset
  <2> QED BY <2>1 DEF Small
<1>3. PICK g : Sums(f, D, g, n)
  BY <1>1, SumsExist
<1>4. g = [s \in SUBSET D |-> SumStep(f, g, s)]
  BY <1>2, <1>3 DEF Sums
<1> DEFINE h == CHOOSE k : k = [s \in SUBSET D |-> SumStep(f, k, s)]
<1>5. h = [s \in SUBSET D |-> SumStep(f, h, s)]
  BY <1>4
<1>6. SumFunction(f) = h[D]
  BY SumIs
<1> HIDE DEF h
<1>7. \A s \in SUBSET D : h[s] = SumStep(f, h, s)
  BY <1>5
<1> QED BY <1>6, <1>7

(* A table of the sums of f over the subsets of D. *)
SumTable(D, f, g) ==
  /\ g \in [SUBSET D -> Nat]
  /\ g[{}] = 0
  /\ \A s \in SUBSET D : \A x \in s : g[s] = f[x] + g[s \ {x}]

(* Whatever element is taken out first, the sum is the same. *)
LEMMA SumsTabled ==
  ASSUME NEW D, IsFiniteSet(D), NEW f \in [D -> Nat]
  PROVE  \E g : SumTable(D, f, g) /\ SumFunction(f) = g[D]
<1>1. DOMAIN f = D
  OBVIOUS
<1>2. PICK h : /\ SumFunction(f) = h[D]
               /\ \A s \in SUBSET D : h[s] = SumStep(f, h, s)
  BY <1>1, SumUnfolds
<1> DEFINE Good(s) == /\ h[s] \in Nat
                      /\ \A x \in s : h[s \ {x}] \in Nat /\ h[s] = f[x] + h[s \ {x}]
           I == {n \in Nat : \A s \in SUBSET D : Cardinality(s) = n => Good(s)}
<1>3. \A s \in SUBSET D : IsFiniteSet(s) /\ Cardinality(s) \in Nat
  BY FS_Subset, FS_CardinalityType
<1>4. 0 \in I
  <2> SUFFICES ASSUME NEW s \in SUBSET D, Cardinality(s) = 0 PROVE Good(s)
    OBVIOUS
  <2>1. s = {}
    BY <1>3, FS_EmptySet
  <2>2. h[s] = 0
    BY <1>2, <2>1 DEF SumStep
  <2> QED BY <2>1, <2>2
<1>5. ASSUME NEW n \in Nat, n \in I PROVE n + 1 \in I
  <2> SUFFICES ASSUME NEW s \in SUBSET D, Cardinality(s) = n + 1 PROVE Good(s)
    OBVIOUS
  <2> DEFINE c == Chosen(s)
  <2>1. s # {}
    BY FS_EmptySet
  <2>2. c \in s
    BY <2>1, ChosenIn
  <2>3. h[s] = f[c] + h[s \ {c}]
    BY <1>2, <2>1 DEF SumStep
  <2> HIDE DEF c
  <2>4. \A x \in s : Cardinality(s \ {x}) = n
    <3> TAKE x \in s
    <3>1. Cardinality(s \ {x}) = Cardinality(s) - 1
      BY <1>3, FS_RemoveElement
    <3> QED BY <3>1
  <2>5. \A x \in s : Good(s \ {x})
    BY <1>5, <2>4
  <2> HIDE DEF I
  <2>6. f[c] \in Nat /\ h[s \ {c}] \in Nat
    BY <2>2, <2>5
  <2>7. ASSUME NEW x \in s, x # c PROVE h[s] = f[x] + h[s \ {x}]
    <3> DEFINE t == (s \ {c}) \ {x}
    <3>1. (s \ {x}) \ {c} = t
      OBVIOUS
    <3> HIDE DEF t
    <3>2. h[s \ {c}] = f[x] + h[t]
      BY <2>2, <2>5, <2>7 DEF t
    <3>3. h[s \ {x}] = f[c] + h[t]
      BY <2>2, <2>5, <2>7, <3>1
    <3>4. h[t] \in Nat
      BY <2>2, <2>5, <2>7 DEF t
    <3>5. f[x] \in Nat
      OBVIOUS
    <3> QED BY <2>3, <2>6, <3>2, <3>3, <3>4, <3>5
  <2>8. h[s] \in Nat
    BY <2>3, <2>6
  <2> QED BY <2>3, <2>5, <2>7, <2>8
<1> HIDE DEF I
<1>6. Nat \subseteq I
  BY <1>4, <1>5, SetInduction
<1>7. \A s \in SUBSET D : Good(s)
  BY <1>3, <1>6 DEF I
<1> DEFINE g == [s \in SUBSET D |-> h[s]]
<1>8. SumTable(D, f, g)
  <2>1. g[{}] = 0
    BY <1>2 DEF SumStep
  <2>2. g \in [SUBSET D -> Nat]
    BY <1>7
  <2>3. \A s \in SUBSET D : \A x \in s : g[s] = f[x] + g[s \ {x}]
    BY <1>7
  <2> QED BY <2>1, <2>2, <2>3 DEF SumTable
<1>9. g[D] = h[D]
  OBVIOUS
<1> HIDE DEF g
<1> QED BY <1>2, <1>8, <1>9

(* A sum of natural numbers is one. *)
LEMMA SumType ==
  ASSUME NEW D, IsFiniteSet(D), NEW f \in [D -> Nat] PROVE SumFunction(f) \in Nat
<1>1. PICK g : SumTable(D, f, g) /\ SumFunction(f) = g[D]
  BY SumsTabled
<1> QED BY <1>1 DEF SumTable

(* A sum is bounded by any measure of the sets that adds up and bounds the *)
(* summands, and is that measure if the summands are.                      *)
AddsUp(D, c) ==
  /\ c \in [SUBSET D -> Int]
  /\ c[{}] = 0
  /\ \A s \in SUBSET D : \A x \in s : c[s] = c[{x}] + c[s \ {x}]

LEMMA SumCompared ==
  ASSUME NEW D, IsFiniteSet(D), NEW f \in [D -> Nat],
         NEW c, AddsUp(D, c), \A x \in D : f[x] <= c[{x}]
  PROVE  /\ SumFunction(f) <= c[D]
         /\ (\A x \in D : f[x] = c[{x}]) => SumFunction(f) = c[D]
<1>1. PICK g : SumTable(D, f, g) /\ SumFunction(f) = g[D]
  BY SumsTabled
<1> DEFINE I == {n \in Nat : \A s \in SUBSET D : Cardinality(s) = n =>
                   /\ g[s] <= c[s]
                   /\ (\A x \in D : f[x] = c[{x}]) => g[s] = c[s]}
<1>2. \A s \in SUBSET D : IsFiniteSet(s) /\ Cardinality(s) \in Nat
  BY FS_Subset, FS_CardinalityType
<1>3. 0 \in I
  <2> SUFFICES ASSUME NEW s \in SUBSET D, Cardinality(s) = 0
               PROVE  g[s] = 0 /\ c[s] = 0
    OBVIOUS
  <2>1. s = {}
    BY <1>2, FS_EmptySet
  <2> QED BY <1>1, <2>1 DEF SumTable, AddsUp
<1>4. ASSUME NEW n \in Nat, n \in I PROVE n + 1 \in I
  <2> SUFFICES ASSUME NEW s \in SUBSET D, Cardinality(s) = n + 1
               PROVE  /\ g[s] <= c[s]
                      /\ (\A x \in D : f[x] = c[{x}]) => g[s] = c[s]
    OBVIOUS
  <2>1. PICK x \in s : TRUE
    <3>1. Cardinality(s) # 0
      OBVIOUS
    <3>2. Cardinality({}) = 0
      BY FS_EmptySet
    <3> QED BY <3>1, <3>2
  <2> DEFINE t == s \ {x}
  <2>2. t \in SUBSET D /\ Cardinality(t) = n
    <3>1. Cardinality(t) = Cardinality(s) - 1
      BY <1>2, FS_RemoveElement
    <3> QED BY <3>1
  <2>3. g[s] = f[x] + g[t] /\ c[s] = c[{x}] + c[t]
    BY <1>1 DEF SumTable, AddsUp
  <2>4. g[t] <= c[t] /\ ((\A y \in D : f[y] = c[{y}]) => g[t] = c[t])
    BY <1>4, <2>2
  <2> HIDE DEF t
  <2>5. g[t] \in Int /\ c[t] \in Int /\ f[x] \in Int /\ c[{x}] \in Int
    BY <1>1, <2>2 DEF SumTable, AddsUp
  <2>6. x \in D /\ f[x] <= c[{x}]
    OBVIOUS
  <2>7. g[s] <= c[s]
    BY <2>3, <2>4, <2>5, <2>6
  <2>8. ASSUME \A y \in D : f[y] = c[{y}] PROVE g[s] = c[s]
    <3>1. f[x] = c[{x}] /\ g[t] = c[t]
      BY <2>4, <2>6, <2>8
    <3> QED BY <2>3, <3>1
  <2> QED BY <2>7, <2>8
<1> HIDE DEF I
<1>5. Nat \subseteq I
  BY <1>3, <1>4, SetInduction
<1> QED BY <1>1, <1>2, <1>5 DEF I

-----------------------------------------------------------------------------
(* Powers of two: they count the subsets of a set. *)
LEMMA PowerNext == ASSUME NEW k \in Nat PROVE 2^(k + 1) = 2^k + 2^k
<1> DEFINE S == 1 .. k
           T == 1 .. k + 1
           A == SUBSET S
           B == {s \cup {k + 1} : s \in A}
           f == [s \in A |-> s \cup {k + 1}]
<1>1. IsFiniteSet(S) /\ Cardinality(S) = k /\ IsFiniteSet(T) /\ Cardinality(T) = k + 1
  BY FS_Interval
<1>2. /\ IsFiniteSet(A) /\ Cardinality(A) = 2^k
      /\ IsFiniteSet(SUBSET T) /\ Cardinality(SUBSET T) = 2^(k + 1)
  BY <1>1, FS_SUBSET
<1>3. f \in Bijection(A, B)
  <2>1. \A s, t \in A : s \cup {k + 1} = t \cup {k + 1} => s = t
    OBVIOUS
  <2>2. f \in [A -> B] /\ \A s \in A : f[s] = s \cup {k + 1}
    OBVIOUS
  <2>3. \A b \in B : \E s \in A : b = s \cup {k + 1}
    OBVIOUS
  <2> HIDE DEF A, B, f
  <2>4. IsInjective(f)
    BY <2>1, <2>2 DEF IsInjective
  <2>5. \A b \in B : \E s \in A : f[s] = b
    BY <2>2, <2>3
  <2> QED BY <2>2, <2>4, <2>5 DEF Bijection, Injection, Surjection
<1>4. IsFiniteSet(B) /\ Cardinality(B) = 2^k
  <2>1. ExistsBijection(A, B)
    BY <1>3 DEF ExistsBijection
  <2> QED BY <1>2, <2>1, FS_Bijection
<1>5. SUBSET T = A \cup B /\ A \cap B = {}
  <2>1. ASSUME NEW t \in SUBSET T PROVE t \in A \cup B
    <3>1. k + 1 \in t => t \ {k + 1} \in A /\ t = (t \ {k + 1}) \cup {k + 1}
      OBVIOUS
    <3>2. k + 1 \notin t => t \in A
      OBVIOUS
    <3> QED BY <3>1, <3>2
  <2>2. A \cup B \subseteq SUBSET T
    <3>1. S \subseteq T /\ k + 1 \in T
      OBVIOUS
    <3> HIDE DEF S, T
    <3> QED BY <3>1
  <2>3. A \cap B = {}
    OBVIOUS
  <2> QED BY <2>1, <2>2, <2>3
<1> HIDE DEF A, B
<1>6. Cardinality(A \cup B) = Cardinality(A) + Cardinality(B) - Cardinality(A \cap B)
  BY <1>2, <1>4, FS_Union
<1>7. Cardinality(A \cap B) = 0
  BY <1>5, FS_EmptySet
<1>8. PICK n \in Nat : n = 2^k
  BY <1>2, FS_CardinalityType
<1> QED
  <2> HIDE DEF S, T
  <2>1. Cardinality(SUBSET T) = Cardinality(A \cup B)
    BY <1>5
  <2>2. Cardinality(A \cup B) = n + n - 0
    BY <1>2, <1>4, <1>6, <1>7, <1>8, Zenon
  <2> QED BY <1>2, <1>8, <2>1, <2>2

LEMMA PowerZero == 2^0 = 1
  OBVIOUS

LEMMA PowerPositive == \A k \in Nat : 2^k \in Nat \ {0}
<1> DEFINE I == {k \in Nat : 2^k \in Nat \ {0}}
<1>1. 0 \in I
  BY PowerZero
<1>2. ASSUME NEW k \in Nat, k \in I PROVE k + 1 \in I
  BY <1>2, PowerNext
<1> HIDE DEF I
<1>3. Nat \subseteq I
  BY <1>1, <1>2, SetInduction
<1> QED BY <1>3 DEF I

LEMMA PowersGrow == \A k \in Nat : \A j \in 0 .. k : 2^j <= 2^k
<1> DEFINE I == {k \in Nat : \A j \in 0 .. k : 2^j <= 2^k}
<1>1. 0 \in I
  <2>1. ASSUME NEW j \in 0 .. 0 PROVE 2^j <= 2^0
    <3>1. j = 0
      OBVIOUS
    <3>2. 2^j = 1
      BY <3>1, PowerZero
    <3> QED BY <3>2, PowerZero
  <2> QED BY <2>1
<1>2. ASSUME NEW k \in Nat, k \in I PROVE k + 1 \in I
  <2>1. 2^(k + 1) = 2^k + 2^k /\ 2^k \in Nat
    BY PowerNext, PowerPositive
  <2> SUFFICES ASSUME NEW j \in 0 .. k + 1 PROVE 2^j <= 2^(k + 1)
    OBVIOUS
  <2>2. CASE j = k + 1
    BY <2>1, <2>2
  <2>3. CASE j \in 0 .. k
    <3>1. 2^j <= 2^k /\ 2^j \in Nat
      BY <1>2, <2>3, PowerPositive
    <3> QED BY <2>1, <3>1
  <2> QED BY <2>2, <2>3
<1> HIDE DEF I
<1>3. Nat \subseteq I
  BY <1>1, <1>2, SetInduction
<1> QED BY <1>3 DEF I

-----------------------------------------------------------------------------
(* Division with remainder. *)
LEMMA Divides ==
  ASSUME NEW x \in Nat, NEW b \in Nat \ {0}
  PROVE  x \div b \in Nat /\ x % b \in 0 .. b - 1 /\ x = b * (x \div b) + (x % b)
  OBVIOUS

LEMMA DividesOneWay ==
  ASSUME NEW b \in Nat \ {0}, NEW q \in Nat, NEW r \in 0 .. b - 1
  PROVE  (b * q + r) \div b = q /\ (b * q + r) % b = r
  OBVIOUS

-----------------------------------------------------------------------------
(* Flattened sequences. *)
(* What a flattening has put together after each of its parts. *)
Flattens(ss, g) == g = [i \in 1 .. Len(ss) |-> IF i = 1 THEN ss[i] ELSE g[i - 1] \o ss[i]]

PutTogether(ss, h, n) ==
  h[0] = << >> /\ \A i \in 1 .. n, j \in Nat : i = j + 1 => h[i] = h[j] \o ss[i]

(* What the library's FlattenSeq stands for. *)
LEMMA FlattenIs ==
  ASSUME NEW ss
  PROVE  FlattenSeq(ss) = IF Len(ss) = 0 THEN ss ELSE (CHOOSE g : Flattens(ss, g))[Len(ss)]
  BY DEF FlattenSeq, Flattens

(* However the parts have been put together, they are the flattening.      *)
LEMMA FlattenByParts ==
  ASSUME NEW S, NEW ss \in Seq(Seq(S)), NEW h, PutTogether(ss, h, Len(ss))
  PROVE  FlattenSeq(ss) = h[Len(ss)]
<1> DEFINE n == Len(ss)
<1>1. n \in Nat /\ \A i \in 1 .. n : ss[i] \in Seq(S)
  OBVIOUS
<1>2. CASE n = 0
  <2>1. ss = << >>
    BY <1>2
  <2> QED BY <1>2, <2>1, FlattenIs DEF PutTogether
<1>3. CASE n # 0
  <2> DEFINE g == [i \in 1 .. n |-> h[i]]
             c == CHOOSE k : Flattens(ss, k)
  <2>1. h[1] = ss[1]
    <3>1. 1 \in 1 .. n /\ 0 \in Nat /\ 1 = 0 + 1
      BY <1>1, <1>3
    <3>2. h[1] = h[0] \o ss[1] /\ h[0] = << >>
      BY <3>1 DEF PutTogether
    <3>3. << >> \o ss[1] = ss[1]
      BY <1>1, <3>1, ConcatEmptySeq
    <3> QED BY <3>2, <3>3
  <2>2. \A i \in 1 .. n : h[i] = IF i = 1 THEN ss[i] ELSE g[i - 1] \o ss[i]
    <3> TAKE i \in 1 .. n
    <3>1. ASSUME i # 1 PROVE h[i] = g[i - 1] \o ss[i]
      <4>1. PICK j \in 1 .. n : j = i - 1 /\ i = j + 1 /\ j \in Nat
        BY <1>1, <3>1
      <4>2. h[i] = h[j] \o ss[i]
        BY <4>1 DEF PutTogether
      <4>3. g[j] = h[j]
        OBVIOUS
      <4> QED BY <4>1, <4>2, <4>3
    <3> QED BY <2>1, <3>1
  <2>3. g = [i \in 1 .. n |-> IF i = 1 THEN ss[i] ELSE g[i - 1] \o ss[i]]
    BY <2>2
  <2> HIDE DEF g
  <2>4. Flattens(ss, g)
    BY <2>3 DEF Flattens
  <2>5. Flattens(ss, c)
    BY <2>4
  <2> HIDE DEF c
  <2>6. \A i \in 1 .. n : c[i] = IF i = 1 THEN ss[i] ELSE c[i - 1] \o ss[i]
    BY <2>5 DEF Flattens
  <2> DEFINE I == {i \in Nat : i \in 1 .. n => c[i] = h[i]}
  <2>7. 0 \in I
    OBVIOUS
  <2>8. ASSUME NEW i \in Nat, i \in I PROVE i + 1 \in I
    <3>1. PICK k \in Nat : k = i + 1
      OBVIOUS
    <3> SUFFICES ASSUME k \in 1 .. n PROVE c[k] = h[k]
      BY <3>1
    <3>2. CASE i = 0
      <4>1. k = 1
        BY <3>1, <3>2
      <4> QED BY <2>1, <2>6, <4>1
    <3>3. CASE i # 0
      <4>1. i \in 1 .. n /\ c[i] = h[i] /\ k # 1 /\ k - 1 = i
        BY <1>1, <2>8, <3>1, <3>3
      <4>2. c[k] = c[i] \o ss[k]
        BY <2>6, <4>1
      <4>3. h[k] = h[i] \o ss[k]
        BY <3>1 DEF PutTogether
      <4> QED BY <4>1, <4>2, <4>3
    <3> QED BY <3>2, <3>3
  <2> HIDE DEF I
  <2>9. Nat \subseteq I
    BY <2>7, <2>8, SetInduction
  <2>10. c[n] = h[n]
    <3>1. n \in I /\ n \in 1 .. n
      BY <1>1, <1>3, <2>9
    <3> QED BY <3>1 DEF I
  <2> QED BY <1>3, <2>10, FlattenIs DEF c
<1> QED BY <1>2, <1>3

(* They can be put together. *)
LEMMA PartsExist ==
  ASSUME NEW S, NEW ss \in Seq(Seq(S))
  PROVE  \E h \in [0 .. Len(ss) -> Seq(S)] : PutTogether(ss, h, Len(ss))
<1> DEFINE I == {n \in Nat : n <= Len(ss) =>
                   \E h \in [0 .. n -> Seq(S)] : PutTogether(ss, h, n)}
<1>1. 0 \in I
  <2> DEFINE h == [i \in 0 .. 0 |-> << >>]
  <2>1. h \in [0 .. 0 -> Seq(S)] /\ PutTogether(ss, h, 0)
    BY DEF PutTogether
  <2> HIDE DEF h
  <2> QED BY <2>1
<1>2. ASSUME NEW n \in Nat, n \in I PROVE n + 1 \in I
  <2>1. PICK m \in Nat : m = n + 1
    OBVIOUS
  <2> SUFFICES ASSUME m <= Len(ss)
               PROVE  \E h \in [0 .. m -> Seq(S)] : PutTogether(ss, h, m)
    BY <2>1
  <2>2. n <= Len(ss) /\ m \in 1 .. Len(ss) /\ n \in 0 .. n
    BY <2>1
  <2>3. PICK h \in [0 .. n -> Seq(S)] : PutTogether(ss, h, n)
    BY <1>2, <2>2
  <2> DEFINE f == [i \in 0 .. m |-> IF i = m THEN h[n] \o ss[m] ELSE h[i]]
  <2>4. ss[m] \in Seq(S) /\ h[n] \in Seq(S)
    BY <2>2
  <2>5. h[n] \o ss[m] \in Seq(S)
    BY <2>4, ConcatProperties
  <2>6. \A i \in 0 .. m : i # m => i \in 0 .. n
    BY <2>1
  <2>7. f \in [0 .. m -> Seq(S)]
    BY <2>5, <2>6
  <2>8. /\ \A i \in 0 .. n : f[i] = h[i]
        /\ f[m] = h[n] \o ss[m]
    BY <2>1
  <2> HIDE DEF f
  <2>9. ASSUME NEW i \in 1 .. m, NEW j \in Nat, i = j + 1
        PROVE  f[i] = f[j] \o ss[i]
    <3>1. CASE i = m
      <4>1. j = n
        BY <2>1, <2>9, <3>1
      <4> QED BY <2>2, <2>8, <3>1, <4>1
    <3>2. CASE i # m
      <4>1. i \in 1 .. n /\ i \in 0 .. n /\ j \in 0 .. n
        BY <2>1, <2>9, <3>2
      <4>2. h[i] = h[j] \o ss[i]
        BY <2>3, <2>9, <4>1 DEF PutTogether
      <4> QED BY <2>8, <4>1, <4>2
    <3> QED BY <3>1, <3>2
  <2>10. f[0] = << >>
    <3>1. 0 \in 0 .. n
      OBVIOUS
    <3> QED BY <2>3, <2>8, <3>1 DEF PutTogether
  <2>11. PutTogether(ss, f, m)
    BY <2>9, <2>10 DEF PutTogether
  <2> QED BY <2>7, <2>11
<1> HIDE DEF I
<1>3. Nat \subseteq I
  BY <1>1, <1>2, SetInduction
<1>4. Len(ss) \in I
  BY <1>3
<1> QED BY <1>4 DEF I

(* The flattening of sequences is a sequence. *)
LEMMA FlattenType ==
  ASSUME NEW S, NEW ss \in Seq(Seq(S))
  PROVE  FlattenSeq(ss) \in Seq(S)
<1>1. PICK h \in [0 .. Len(ss) -> Seq(S)] : PutTogether(ss, h, Len(ss))
  BY PartsExist
<1>2. FlattenSeq(ss) = h[Len(ss)]
  BY <1>1, FlattenByParts
<1> QED BY <1>2

(* What occurs in a sequence. *)
Elements(s) == {s[i] : i \in DOMAIN s}

(* A concatenation has the elements of both. *)
LEMMA ElementsConcat ==
  ASSUME NEW S, NEW s \in Seq(S), NEW t \in Seq(S)
  PROVE  Elements(s \o t) = Elements(s) \cup Elements(t)
<1>1. /\ s \o t \in Seq(S) /\ Len(s \o t) = Len(s) + Len(t)
      /\ \A i \in 1 .. Len(s) + Len(t) :
           (s \o t)[i] = IF i <= Len(s) THEN s[i] ELSE t[i - Len(s)]
  BY ConcatProperties
<1>2. /\ Len(s) \in Nat /\ Len(t) \in Nat
      /\ DOMAIN s = 1 .. Len(s) /\ DOMAIN t = 1 .. Len(t)
      /\ DOMAIN (s \o t) = 1 .. Len(s) + Len(t)
  BY <1>1
<1> DEFINE u == s \o t
<1> HIDE DEF u
<1>3. ASSUME NEW x \in Elements(u) PROVE x \in Elements(s) \cup Elements(t)
  <2>1. PICK i \in 1 .. Len(s) + Len(t) : x = u[i]
    BY <1>2, <1>3 DEF Elements, u
  <2>2. CASE i <= Len(s)
    BY <1>1, <1>2, <2>1, <2>2 DEF Elements, u
  <2>3. CASE ~(i <= Len(s))
    <3>1. i - Len(s) \in 1 .. Len(t) /\ x = t[i - Len(s)]
      BY <1>1, <1>2, <2>1, <2>3 DEF u
    <3> QED BY <1>2, <3>1 DEF Elements
  <2> QED BY <2>2, <2>3
<1>4. ASSUME NEW x \in Elements(s) PROVE x \in Elements(u)
  <2>1. PICK i \in 1 .. Len(s) : x = s[i]
    BY <1>2, <1>4 DEF Elements
  <2>2. i \in 1 .. Len(s) + Len(t) /\ u[i] = x
    BY <1>1, <1>2, <2>1 DEF u
  <2> QED BY <1>2, <2>2 DEF Elements, u
<1>5. ASSUME NEW x \in Elements(t) PROVE x \in Elements(u)
  <2>1. PICK i \in 1 .. Len(t) : x = t[i]
    BY <1>2, <1>5 DEF Elements
  <2> DEFINE j == i + Len(s)
  <2>2. j \in 1 .. Len(s) + Len(t) /\ ~(j <= Len(s)) /\ j - Len(s) = i
    BY <1>2
  <2>3. u[j] = x
    BY <1>1, <2>1, <2>2 DEF u
  <2> HIDE DEF j
  <2> QED BY <1>2, <2>2, <2>3 DEF Elements, u
<1> QED BY <1>3, <1>4, <1>5 DEF u

(* Nothing is lost and nothing is added. *)
LEMMA FlattenElements ==
  ASSUME NEW S, NEW ss \in Seq(Seq(S))
  PROVE  Elements(FlattenSeq(ss)) = UNION {Elements(ss[k]) : k \in DOMAIN ss}
<1>1. PICK h \in [0 .. Len(ss) -> Seq(S)] : PutTogether(ss, h, Len(ss))
  BY PartsExist
<1>2. FlattenSeq(ss) = h[Len(ss)]
  BY <1>1, FlattenByParts
<1> DEFINE Upto(n) == UNION {Elements(ss[k]) : k \in 1 .. n}
           I == {n \in Nat : n <= Len(ss) => Elements(h[n]) = Upto(n)}
<1>3. 0 \in I
  <2>1. h[0] = << >> /\ 1 .. 0 = {}
    BY <1>1 DEF PutTogether
  <2> QED BY <2>1 DEF Elements
<1>4. ASSUME NEW n \in Nat, n \in I PROVE n + 1 \in I
  <2>1. PICK m \in Nat : m = n + 1
    OBVIOUS
  <2> SUFFICES ASSUME m <= Len(ss) PROVE Elements(h[m]) = Upto(m)
    BY <2>1
  <2>2. n \in 0 .. Len(ss) /\ m \in 1 .. Len(ss) /\ n <= Len(ss)
    BY <2>1
  <2>3. h[m] = h[n] \o ss[m]
    BY <1>1, <2>1, <2>2 DEF PutTogether
  <2>4. h[n] \in Seq(S) /\ ss[m] \in Seq(S)
    <3>1. h[n] \in Seq(S)
      BY <2>2
    <3>2. \A i \in 1 .. Len(ss) : ss[i] \in Seq(S)
      OBVIOUS
    <3> QED BY <2>2, <3>1, <3>2
  <2>5. Elements(h[m]) = Elements(h[n]) \cup Elements(ss[m])
    BY <2>3, <2>4, ElementsConcat
  <2>6. Elements(h[n]) = Upto(n)
    BY <1>4, <2>2
  <2>7. 1 .. m = (1 .. n) \cup {m}
    BY <2>1
  <2>8. Upto(m) = Upto(n) \cup Elements(ss[m])
    BY <2>7
  <2> QED BY <2>5, <2>6, <2>8
<1> HIDE DEF I
<1>5. Nat \subseteq I
  BY <1>3, <1>4, SetInduction
<1>6. Len(ss) \in I /\ DOMAIN ss = 1 .. Len(ss)
  BY <1>5
<1> QED BY <1>2, <1>6 DEF I

-----------------------------------------------------------------------------
(* The two halves of a sequence are put together one after the other. *)
LEMMA FlattenConcat ==
  ASSUME NEW S, NEW p \in Seq(Seq(S)), NEW q \in Seq(Seq(S))
  PROVE  FlattenSeq(p \o q) = FlattenSeq(p) \o FlattenSeq(q)
<1>1. PICK f \in [0 .. Len(p) -> Seq(S)] : PutTogether(p, f, Len(p))
  BY PartsExist
<1>2. PICK g \in [0 .. Len(q) -> Seq(S)] : PutTogether(q, g, Len(q))
  BY PartsExist
<1>3. FlattenSeq(p) = f[Len(p)] /\ FlattenSeq(q) = g[Len(q)]
  BY <1>1, <1>2, FlattenByParts
<1>4. PICK m \in Nat, n \in Nat : m = Len(p) /\ n = Len(q)
  OBVIOUS
<1> DEFINE r == p \o q
           h == [i \in 0 .. m + n |-> IF i <= m THEN f[i] ELSE f[m] \o g[i - m]]
<1>5. /\ r \in Seq(Seq(S)) /\ Len(r) = m + n
      /\ \A i \in 1 .. m + n : r[i] = IF i <= m THEN p[i] ELSE q[i - m]
  BY <1>4, ConcatProperties
<1>6. /\ \A i \in 0 .. m : f[i] \in Seq(S)
      /\ \A i \in 0 .. n : g[i] \in Seq(S)
      /\ \A i \in 1 .. n : q[i] \in Seq(S)
      /\ f[0] = << >> /\ g[0] = << >>
  <2>1. \A i \in 0 .. m : f[i] \in Seq(S)
    BY <1>4
  <2>2. \A i \in 0 .. n : g[i] \in Seq(S)
    BY <1>4
  <2>3. \A i \in 1 .. n : q[i] \in Seq(S)
    BY <1>4
  <2> QED BY <1>1, <1>2, <2>1, <2>2, <2>3 DEF PutTogether
<1>7. \A i \in 0 .. m : i \in 0 .. m + n /\ h[i] = f[i]
  OBVIOUS
<1>8. \A k \in 0 .. n : k + m \in 0 .. m + n /\ h[k + m] = f[m] \o g[k]
  <2> TAKE k \in 0 .. n
  <2>1. PICK i \in 0 .. m + n : i = k + m /\ i - m = k
    OBVIOUS
  <2>2. CASE k = 0
    <3>1. i = m /\ h[i] = f[m]
      BY <2>1, <2>2
    <3>2. f[m] \o << >> = f[m]
      BY <1>6, ConcatEmptySeq
    <3> QED BY <1>6, <2>1, <2>2, <3>1, <3>2
  <2>3. CASE k # 0
    <3>1. ~(i <= m)
      BY <2>1, <2>3
    <3>2. h[i] = f[m] \o g[i - m]
      BY <3>1
    <3>3. h[i] = f[m] \o g[k]
      BY <2>1, <3>2, Zenon
    <3> QED BY <2>1, <3>3
  <2> QED BY <2>2, <2>3
<1> HIDE DEF h, r
<1>9. ASSUME NEW i \in 1 .. m + n, NEW j \in Nat, i = j + 1
      PROVE  h[i] = h[j] \o r[i]
  <2>1. CASE i <= m
    <3>1. i \in 1 .. m /\ i \in 0 .. m /\ j \in 0 .. m
      BY <1>9, <2>1
    <3>2. f[i] = f[j] \o p[i]
      BY <1>1, <1>4, <1>9, <3>1 DEF PutTogether
    <3> QED BY <1>5, <1>7, <2>1, <3>1, <3>2
  <2>2. CASE ~(i <= m)
    <3>1. PICK k \in 1 .. n, l \in 0 .. n : k = i - m /\ l = j - m /\ k = l + 1 /\ l \in Nat
      BY <1>9, <2>2
    <3>2. k \in 0 .. n /\ i = k + m /\ j = l + m
      BY <1>9, <3>1
    <3>3. h[i] = f[m] \o g[k] /\ h[j] = f[m] \o g[l]
      BY <1>8, <3>1, <3>2
    <3>4. g[k] = g[l] \o q[k]
      BY <1>2, <1>4, <3>1 DEF PutTogether
    <3>5. r[i] = q[k]
      BY <1>5, <2>2, <3>1
    <3>6. f[m] \in Seq(S) /\ g[l] \in Seq(S) /\ q[k] \in Seq(S)
      BY <1>6, <3>1
    <3>7. (f[m] \o g[l]) \o q[k] = f[m] \o (g[l] \o q[k])
      <4> DEFINE x == f[m]
                 y == g[l]
                 z == q[k]
      <4>1. x \in Seq(S) /\ y \in Seq(S) /\ z \in Seq(S)
        BY <3>6
      <4> HIDE DEF x, y, z
      <4>2. (x \o y) \o z = x \o (y \o z)
        BY <4>1, ConcatAssociative
      <4> QED BY <4>2 DEF x, y, z
    <3> QED BY <3>3, <3>4, <3>5, <3>7
  <2> QED BY <2>1, <2>2
<1>10. h[0] = << >>
  BY <1>6, <1>7
<1>11. PutTogether(r, h, Len(r))
  BY <1>5, <1>9, <1>10 DEF PutTogether
<1>12. FlattenSeq(r) = h[m + n]
  BY <1>5, <1>11, FlattenByParts
<1>13. h[m + n] = f[m] \o g[n]
  <2>1. n \in 0 .. n /\ n + m = m + n
    OBVIOUS
  <2> QED BY <1>8, <2>1
<1> QED BY <1>3, <1>4, <1>12, <1>13 DEF r

(* One part is its own flattening. *)
LEMMA FlattenOne ==
  ASSUME NEW S, NEW s \in Seq(S)
  PROVE  FlattenSeq(<<s>>) = s
<1> DEFINE h == [i \in 0 .. 1 |-> IF i = 0 THEN << >> ELSE s]
           ss == <<s>>
<1>1. ss \in Seq(Seq(S)) /\ Len(ss) = 1 /\ ss[1] = s
  OBVIOUS
<1>2. h[0] = << >> /\ h[1] = s
  OBVIOUS
<1>3. << >> \o s = s
  BY ConcatEmptySeq
<1> HIDE DEF h, ss
<1>4. PutTogether(ss, h, 1)
  <2> SUFFICES ASSUME NEW i \in 1 .. 1, NEW j \in Nat, i = j + 1
               PROVE  h[i] = h[j] \o ss[i]
    BY <1>2 DEF PutTogether
  <2>1. i = 1 /\ j = 0
    OBVIOUS
  <2> QED BY <1>1, <1>2, <1>3, <2>1
<1>5. FlattenSeq(ss) = h[1]
  BY <1>1, <1>4, FlattenByParts
<1> QED BY <1>2, <1>5 DEF ss

(* A sequence is the flattening of its elements. *)
LEMMA FlattenSingletons ==
  ASSUME NEW S, NEW s \in Seq(S)
  PROVE  FlattenSeq([i \in DOMAIN s |-> <<s[i]>>]) = s
<1> DEFINE ss == [i \in DOMAIN s |-> <<s[i]>>]
           h == [k \in 0 .. Len(s) |-> SubSeq(s, 1, k)]
<1>1. ss \in Seq(Seq(S)) /\ Len(ss) = Len(s) /\ \A i \in 1 .. Len(s) : ss[i] = <<s[i]>>
  <2>1. DOMAIN s = 1 .. Len(s) /\ Len(s) \in Nat /\ \A i \in 1 .. Len(s) : <<s[i]>> \in Seq(S)
    OBVIOUS
  <2>2. ss \in [1 .. Len(s) -> Seq(S)]
    BY <2>1
  <2> HIDE DEF ss
  <2>3. ss \in Seq(Seq(S)) /\ Len(ss) = Len(s)
    BY <2>1, <2>2
  <2> QED BY <2>1, <2>3 DEF ss
<1>2. \A k \in 0 .. Len(s) : h[k] = SubSeq(s, 1, k)
  OBVIOUS
<1> HIDE DEF h, ss
<1>3. h[0] = << >>
  <2>1. SubSeq(s, 1, 0) = << >>
    BY SubSeqEmpty
  <2> QED BY <1>2, <2>1
<1>4. ASSUME NEW i \in 1 .. Len(s), NEW j \in Nat, i = j + 1 PROVE h[i] = h[j] \o ss[i]
  <2>1. j = i - 1 /\ j \in 0 .. Len(s) /\ i \in 0 .. Len(s) /\ 1 \in 1 .. Len(s)
    BY <1>4
  <2>2. SubSeq(s, 1, i) = SubSeq(s, 1, i - 1) \o <<s[i]>>
    BY <2>1, SubSeqRecursiveSecond
  <2>3. SubSeq(s, 1, i) = SubSeq(s, 1, j) \o <<s[i]>>
    BY <2>1, <2>2, Zenon
  <2> QED BY <1>1, <1>2, <2>1, <2>3
<1>5. PutTogether(ss, h, Len(ss))
  BY <1>1, <1>3, <1>4 DEF PutTogether
<1>6. FlattenSeq(ss) = h[Len(s)]
  BY <1>1, <1>5, FlattenByParts
<1>7. h[Len(s)] = s
  <2>1. Len(s) \in 0 .. Len(s)
    OBVIOUS
  <2> QED BY <1>2, <2>1, SubSeqFull
<1> QED BY <1>6, <1>7 DEF ss

LEMMA FlattenEmpty == FlattenSeq(<< >>) = << >>
  BY FlattenIs

LEMMA FunctionIsSeq ==
  ASSUME NEW S, NEW n \in Nat, NEW g \in [1 .. n -> S]
  PROVE  g \in Seq(S) /\ Len(g) = n
  OBVIOUS

(* A flattening ends with its last part. *)
LEMMA FlattenNext ==
  ASSUME NEW S, NEW n \in Nat, NEW f, \A i \in 1 .. n + 1 : f[i] \in Seq(S)
  PROVE  FlattenSeq([i \in 1 .. n + 1 |-> f[i]]) = FlattenSeq([i \in 1 .. n |-> f[i]]) \o f[n + 1]
<1> DEFINE p == [i \in 1 .. n |-> f[i]]
           q == <<f[n + 1]>>
           r == [i \in 1 .. n + 1 |-> f[i]]
<1>1. n + 1 \in Nat /\ n + 1 \in 1 .. n + 1 /\ f[n + 1] \in Seq(S)
  OBVIOUS
<1>2. p \in Seq(Seq(S)) /\ Len(p) = n /\ \A i \in 1 .. n : p[i] = f[i]
  <2>1. p \in [1 .. n -> Seq(S)] /\ \A i \in 1 .. n : p[i] = f[i]
    OBVIOUS
  <2> HIDE DEF p
  <2> QED BY <2>1, FunctionIsSeq
<1>3. q \in Seq(Seq(S))
  BY <1>1
<1>4. r \in Seq(Seq(S)) /\ Len(r) = n + 1 /\ \A i \in 1 .. n + 1 : r[i] = f[i]
  <2>1. r \in [1 .. n + 1 -> Seq(S)] /\ \A i \in 1 .. n + 1 : r[i] = f[i]
    OBVIOUS
  <2> HIDE DEF r
  <2> QED BY <1>1, <2>1, FunctionIsSeq
<1> HIDE DEF p, r
<1>5. r = Append(p, f[n + 1])
  <2>1. PICK x \in Seq(S) : x = f[n + 1]
    BY <1>1
  <2> DEFINE t == Append(p, x)
  <2>2. t \in Seq(Seq(S)) /\ Len(t) = n + 1
    BY <1>2
  <2>3. \A i \in 1 .. n + 1 : t[i] = IF i <= n THEN p[i] ELSE x
    BY <1>2
  <2> HIDE DEF t
  <2>4. \A i \in 1 .. n + 1 : t[i] = r[i]
    <3> TAKE i \in 1 .. n + 1
    <3>1. CASE i <= n
      <4>1. i \in 1 .. n
        BY <3>1
      <4>2. t[i] = p[i]
        BY <2>3, <3>1
      <4>3. p[i] = f[i]
        BY <1>2, <4>1
      <4>4. r[i] = f[i]
        BY <1>4
      <4> QED BY <4>2, <4>3, <4>4
    <3>2. CASE ~(i <= n)
      <4>1. i = n + 1
        BY <3>2
      <4> QED BY <1>4, <2>1, <2>3, <3>2, <4>1
    <3> QED BY <3>1, <3>2
  <2>5. r = t
    BY <1>4, <2>2, <2>4, SeqEqual
  <2> QED BY <2>1, <2>5 DEF t
<1>6. Append(p, f[n + 1]) = p \o q
  BY <1>1, <1>2, AppendIsConcat
<1> HIDE DEF q
<1>7. FlattenSeq(p \o q) = FlattenSeq(p) \o FlattenSeq(q)
  BY <1>2, <1>3, FlattenConcat
<1>8. FlattenSeq(q) = f[n + 1]
  BY <1>1, FlattenOne DEF q
<1> QED BY <1>5, <1>6, <1>7, <1>8 DEF p, r
=============================================================================

--------------------------- MODULE ArithmeticProofs --------------------------
(***************************************************************************)
(* Theorems about the two modules that count with Go's integers.           *)
(*                                                                         *)
(* Slicing: slices of lists, tuples and ranges have the elements which the *)
(* language specification selects, and the methods of lists agree with     *)
(* slices: for sequences of any length and any operands; for ranges, if no *)
(* stride and no element leaves the width of int.  What a slice selects is *)
(* given by its start, its stride and how many strides it takes to the     *)
(* end.  The loop of List.Slice and the quotient of rangeLen are both that *)
(* number.                                                                 *)
(*                                                                         *)
(* Numbers: every operation on integers returns the one representation of  *)
(* the right result, for small integers of any width and any numbers.      *)
(***************************************************************************)
EXTENDS Slicing, Numbers, SequenceTheorems, FiniteSetTheorems, WellFoundedInduction, TLAPS

(* Induction on the natural numbers, for a set of them. *)
LEMMA SetInduction ==
  ASSUME NEW T, 0 \in T, \A n \in Nat : n \in T => n + 1 \in T
  PROVE  Nat \subseteq T
<1> DEFINE S == Nat \ T
           R == OpToRel(<, Nat)
<1>1. SUFFICES ASSUME S # {} PROVE FALSE
  OBVIOUS
<1>2. PICK k \in S : \A j \in S : ~(<<j, k>> \in R)
  <2>1. IsWellFoundedOn(R, Nat)
    BY NatLessThanWellFounded
  <2>2. S \subseteq Nat
    OBVIOUS
  <2> HIDE DEF R, S
  <2> QED BY <1>1, <2>1, <2>2, WFMin
<1>3. k \in Nat /\ k # 0 /\ k - 1 \in Nat
  OBVIOUS
<1>4. <<k - 1, k>> \in R
  <2>1. <<k - 1, k>> \in Nat \X Nat /\ <<k - 1, k>>[1] < <<k - 1, k>>[2]
    BY <1>3
  <2> QED BY <2>1, Zenon DEF OpToRel
<1>5. k - 1 \in T
  <2> HIDE DEF R
  <2> QED BY <1>2, <1>3, <1>4
<1>6. (k - 1) + 1 \in T
  <2> HIDE DEF R, S
  <2> QED BY <1>3, <1>5
<1>7. (k - 1) + 1 = k
  BY <1>3
<1> QED BY <1>6, <1>7

(* A set of naturals has a least element. *)
LEMMA LeastExists ==
  ASSUME NEW S \in SUBSET Nat, S # {}
  PROVE  \E k \in S : \A l \in S : k <= l
<1> DEFINE R == OpToRel(<, Nat)
<1>1. PICK k \in S : \A j \in S : ~(<<j, k>> \in R)
  <2>1. IsWellFoundedOn(R, Nat)
    BY NatLessThanWellFounded
  <2> HIDE DEF R
  <2> QED BY <2>1, WFMin
<1>2. \A j \in S : k <= j
  <2> TAKE j \in S
  <2>1. j \in Nat /\ k \in Nat
    OBVIOUS
  <2>2. <<j, k>> \in Nat \X Nat /\ <<j, k>>[1] = j /\ <<j, k>>[2] = k
    BY <2>1
  <2>3. j < k => <<j, k>> \in R
    BY <2>2, Zenon DEF OpToRel
  <2> HIDE DEF R
  <2>4. ~(j < k)
    BY <1>1, <2>3
  <2> QED BY <2>1, <2>4
<1> QED BY <1>2

(* The least and the greatest element of a finite set of two. *)
LEMMA MaxOfTwo ==
  ASSUME NEW a \in Int, NEW b \in Int
  PROVE  Seqs!Max({a, b}) = IF a >= b THEN a ELSE b
BY DEF Seqs!Max

LEMMA MinOfTwo ==
  ASSUME NEW a \in Int, NEW b \in Int
  PROVE  Seqs!Min({a, b}) = IF a <= b THEN a ELSE b
BY DEF Seqs!Min

LEMMA MinIs ==
  ASSUME NEW S \in SUBSET Int, NEW k \in S, \A l \in S : k <= l
  PROVE  Seqs!Min(S) = k
<1>1. \E m : m \in S /\ \A l \in S : m <= l
  OBVIOUS
<1>2. PICK m : m = Seqs!Min(S)
  OBVIOUS
<1>3. m \in S /\ \A l \in S : m <= l
  BY <1>1, <1>2, Zenon DEF Seqs!Min
<1>4. m \in Int /\ k \in Int /\ m <= k /\ k <= m
  BY <1>3
<1> QED BY <1>2, <1>4

(* A sequence over S is a function into S. *)
LEMMA SeqTyped ==
  ASSUME NEW S, NEW s \in Seq(S)
  PROVE  Len(s) \in Nat /\ DOMAIN s = 1 .. Len(s) /\ \A d \in DOMAIN s : s[d] \in S
OBVIOUS

(* Two sequences are equal if they have the same elements. *)
LEMMA SameSequence ==
  ASSUME NEW S, NEW T, NEW s \in Seq(S), NEW t \in Seq(T),
         Len(s) = Len(t), \A j \in 1 .. Len(s) : s[j] = t[j]
  PROVE  s = t
<1>1. s = [j \in 1 .. Len(s) |-> s[j]] /\ t = [j \in 1 .. Len(t) |-> t[j]]
  OBVIOUS
<1> QED BY <1>1

(* Multiples. *)
LEMMA Multiples ==
  ASSUME NEW k \in Int, NEW c \in Int
  PROVE  /\ 0 * k = 0 /\ 1 * k = k /\ c * k \in Int /\ (c + 1) * k = c * k + k
         /\ (c - 1) * k = c * k - k /\ c * k = k * c
OBVIOUS
-----------------------------------------------------------------------------
(* c strides lead from p to the end, or past it, and no fewer do. *)
Leads(p, end, k, c) ==
  /\ c \in Nat
  /\ ReachesEnd(p + c * k, end, k)
  /\ \A b \in 0 .. c - 1 : ~ReachesEnd(p + b * k, end, k)

Strides(p, end, k) == CHOOSE c : Leads(p, end, k, c)

LEMMA LeadsOnce ==
  ASSUME NEW p \in Int, NEW end \in Int, NEW k \in Int, NEW b, NEW c,
         Leads(p, end, k, b), Leads(p, end, k, c)
  PROVE  b = c
<1>1. b \in Nat /\ c \in Nat
  BY DEF Leads
<1>2. ~(b < c) /\ ~(c < b)
  BY <1>1 DEF Leads
<1> QED BY <1>1, <1>2

(* A stride that is not zero leads somewhere. *)
LEMMA LeadsSomewhere ==
  ASSUME NEW p \in Int, NEW end \in Int, NEW k \in Int, k # 0
  PROVE  \E c \in Nat : ReachesEnd(p + c * k, end, k)
<1>1. CASE k > 0
  <2>1. CASE p >= end
    <3>1. p + 0 * k = p
      BY Multiples
    <3> QED BY <1>1, <2>1, <3>1 DEF ReachesEnd
  <2>2. CASE p < end
    <3>1. end - p \in Nat /\ (end - p) * k >= end - p
      BY <1>1, <2>2
    <3>2. p + (end - p) * k >= end
      BY <3>1, <1>1
    <3> QED BY <1>1, <3>1, <3>2 DEF ReachesEnd
  <2> QED BY <2>1, <2>2
<1>2. CASE k < 0
  <2>1. CASE p <= end
    <3>1. p + 0 * k = p
      BY Multiples
    <3> QED BY <1>2, <2>1, <3>1 DEF ReachesEnd
  <2>2. CASE p > end
    <3>1. p - end \in Nat /\ (p - end) * k <= end - p
      BY <1>2, <2>2
    <3>2. p + (p - end) * k <= end
      BY <3>1, <1>2
    <3>3. ~(k > 0)
      BY <1>2
    <3>4. ReachesEnd(p + (p - end) * k, end, k)
      BY <3>2, <3>3 DEF ReachesEnd
    <3> QED BY <3>1, <3>4
  <2> QED BY <2>1, <2>2
<1> QED BY <1>1, <1>2

LEMMA StridesLead ==
  ASSUME NEW p \in Int, NEW end \in Int, NEW k \in Int, k # 0
  PROVE  Leads(p, end, k, Strides(p, end, k)) /\ Strides(p, end, k) \in Nat
<1> DEFINE S == {c \in Nat : ReachesEnd(p + c * k, end, k)}
<1>1. S # {} /\ S \in SUBSET Nat
  BY LeadsSomewhere
<1>2. PICK c \in S : \A l \in S : c <= l
  BY <1>1, LeastExists
<1>3. \A b \in 0 .. c - 1 : b \notin S
  BY <1>1, <1>2
<1>4. Leads(p, end, k, c)
  BY <1>2, <1>3 DEF Leads
<1>5. Leads(p, end, k, Strides(p, end, k))
  BY <1>4, Zenon DEF Strides
<1> QED BY <1>5 DEF Leads

LEMMA StridesAre ==
  ASSUME NEW p \in Int, NEW end \in Int, NEW k \in Int, k # 0, NEW c, Leads(p, end, k, c)
  PROVE  Strides(p, end, k) = c
BY StridesLead, LeadsOnce

(* Who has reached the end stays there, and takes no stride; anybody else  *)
(* takes one more than from the next element.                              *)
LEMMA StridesStep ==
  ASSUME NEW p \in Int, NEW end \in Int, NEW k \in Int, k # 0
  PROVE  /\ ReachesEnd(p, end, k) => Strides(p, end, k) = 0
         /\ ~ReachesEnd(p, end, k) => Strides(p, end, k) = 1 + Strides(p + k, end, k)
<1>1. ASSUME ReachesEnd(p, end, k) PROVE Strides(p, end, k) = 0
  <2>1. p + 0 * k = p
    BY Multiples
  <2>2. Leads(p, end, k, 0)
    BY <1>1, <2>1 DEF Leads
  <2> QED BY <2>2, StridesAre
<1>2. ASSUME ~ReachesEnd(p, end, k) PROVE Strides(p, end, k) = 1 + Strides(p + k, end, k)
  <2>1. PICK c \in Nat : c = Strides(p + k, end, k) /\ Leads(p + k, end, k, c)
    <3>1. p + k \in Int
      OBVIOUS
    <3> QED BY <3>1, StridesLead
  <2>2. \A b \in Int : p + (b + 1) * k = (p + k) + b * k
    BY Multiples
  <2>3. ReachesEnd(p + (c + 1) * k, end, k)
    BY <2>1, <2>2 DEF Leads
  <2>4. ASSUME NEW b \in 0 .. c PROVE ~ReachesEnd(p + b * k, end, k)
    <3>1. CASE b = 0
      BY <1>2, <3>1, Multiples
    <3>2. CASE b # 0
      <4>1. b - 1 \in 0 .. c - 1 /\ (b - 1) + 1 = b
        BY <3>2
      <4>2. ~ReachesEnd((p + k) + (b - 1) * k, end, k)
        BY <2>1, <4>1 DEF Leads
      <4>3. p + ((b - 1) + 1) * k = (p + k) + (b - 1) * k
        BY <2>2
      <4> QED BY <4>1, <4>2, <4>3
    <3> QED BY <3>1, <3>2
  <2>5. Leads(p, end, k, c + 1)
    BY <2>3, <2>4 DEF Leads
  <2> QED BY <2>1, <2>5, StridesAre
<1> QED BY <1>1, <1>2
-----------------------------------------------------------------------------
(* The n elements of a sequence at p, p + k and so on. *)
Taken(elems, p, k, n) == [j \in 1 .. n |-> elems[p + (j - 1) * k + 1]]

LEMMA TakenStep ==
  ASSUME NEW elems, NEW p \in Int, NEW k \in Int, NEW n \in Nat
  PROVE  <<elems[p + 1]>> \o Taken(elems, p + k, k, n) = Taken(elems, p, k, 1 + n)
<1> DEFINE S == {elems[i] : i \in Int}
           rest == Taken(elems, p + k, k, n)
           first == <<elems[p + 1]>>
           all == Taken(elems, p, k, 1 + n)
<1>1. \A i \in Int : elems[i] \in S
  OBVIOUS
<1>2. \A j \in Int : p + (j - 1) * k + 1 \in Int /\ (p + k) + (j - 1) * k + 1 \in Int
  OBVIOUS
<1> HIDE DEF S
<1>3. rest \in Seq(S) /\ Len(rest) = n /\ \A j \in 1 .. n : rest[j] = elems[(p + k) + (j - 1) * k + 1]
  BY <1>1, <1>2 DEF Taken
<1>4. first \in Seq(S) /\ Len(first) = 1 /\ first[1] = elems[p + 1]
  BY <1>1
<1>5. all \in Seq(S) /\ Len(all) = 1 + n /\ \A j \in 1 .. 1 + n : all[j] = elems[p + (j - 1) * k + 1]
  BY <1>1, <1>2 DEF Taken
<1> HIDE DEF rest, first, all
<1>6. /\ first \o rest \in Seq(S) /\ Len(first \o rest) = 1 + n
      /\ \A j \in 1 .. 1 + n : (first \o rest)[j] = IF j <= 1 THEN first[j] ELSE rest[j - 1]
  <2>1. first \in Seq(S) /\ rest \in Seq(S)
    BY <1>3, <1>4
  <2>2. /\ first \o rest \in Seq(S)
        /\ Len(first \o rest) = Len(first) + Len(rest)
        /\ \A j \in 1 .. Len(first) + Len(rest) :
             (first \o rest)[j] = IF j <= Len(first) THEN first[j] ELSE rest[j - Len(first)]
    BY <2>1, ConcatProperties
  <2> QED BY <1>3, <1>4, <2>2
<1>7. ASSUME NEW j \in 1 .. 1 + n PROVE (first \o rest)[j] = all[j]
  <2>1. CASE j = 1
    <3>1. p + (1 - 1) * k + 1 = p + 1
      BY Multiples
    <3> QED BY <1>4, <1>5, <1>6, <2>1, <3>1
  <2>2. CASE j # 1
    <3>1. j - 1 \in 1 .. n /\ ~(j <= 1)
      BY <2>2
    <3>2. ((j - 1) - 1) * k = (j - 1) * k - k
      BY Multiples
    <3>3. (p + k) + ((j - 1) - 1) * k + 1 = p + (j - 1) * k + 1
      BY <3>2
    <3> QED BY <1>3, <1>5, <1>6, <3>1, <3>3
  <2> QED BY <2>1, <2>2
<1>8. first \o rest = all
  BY <1>5, <1>6, <1>7, SameSequence
<1> QED BY <1>8 DEF first, rest, all

(* f is the recursion of Every, from every start. *)
Looping(elems, end, k, f) ==
  f = [i \in Int |->
         IF Signum(end - i) # Signum(k) THEN <<>> ELSE <<elems[i + 1]>> \o f[i + k]]

(* The loop ends where the stride has led to the end. *)
LEMMA LoopEnds ==
  ASSUME NEW p \in Int, NEW end \in Int, NEW k \in Int, k # 0
  PROVE  Signum(end - p) # Signum(k) <=> ReachesEnd(p, end, k)
BY DEF Signum, ReachesEnd

LEMMA LoopExists ==
  ASSUME NEW elems, NEW end \in Int, NEW k \in Int, k # 0
  PROVE  \E f : Looping(elems, end, k, f)
<1> DEFINE f == [i \in Int |-> Taken(elems, i, k, Strides(i, end, k))]
           F(i) == IF Signum(end - i) # Signum(k) THEN <<>> ELSE <<elems[i + 1]>> \o f[i + k]
<1>1. \A i \in Int : f[i] = Taken(elems, i, k, Strides(i, end, k))
  OBVIOUS
<1>2. f = [i \in Int |-> f[i]]
  OBVIOUS
<1> HIDE DEF f
<1>3. ASSUME NEW i \in Int PROVE f[i] = F(i)
  <2>1. CASE ReachesEnd(i, end, k)
    <3>1. f[i] = Taken(elems, i, k, 0)
      BY <1>1, <2>1, StridesStep
    <3>2. Taken(elems, i, k, 0) = <<>>
      BY DEF Taken
    <3> QED BY <2>1, <3>1, <3>2, LoopEnds
  <2>2. CASE ~ReachesEnd(i, end, k)
    <3>1. PICK n \in Nat : n = Strides(i + k, end, k)
      <4>1. i + k \in Int
        OBVIOUS
      <4> QED BY <4>1, StridesLead
    <3>2. f[i] = Taken(elems, i, k, 1 + n)
      BY <1>1, <2>2, <3>1, StridesStep
    <3>3. f[i + k] = Taken(elems, i + k, k, n)
      BY <1>1, <3>1
    <3>4. f[i] = <<elems[i + 1]>> \o f[i + k]
      BY <3>2, <3>3, TakenStep, ZenonT(60)
    <3> QED BY <2>2, <3>4, LoopEnds
  <2> QED BY <2>1, <2>2
<1> HIDE DEF F
<1>4. [i \in Int |-> f[i]] = [i \in Int |-> F(i)]
  BY <1>3
<1>5. Looping(elems, end, k, f)
  BY <1>2, <1>4 DEF Looping, F
<1> QED BY <1>5

LEMMA LoopTakes ==
  ASSUME NEW elems, NEW end \in Int, NEW k \in Int, k # 0, NEW f, Looping(elems, end, k, f),
         NEW p \in Int
  PROVE  f[p] = Taken(elems, p, k, Strides(p, end, k))
<1>1. \A i \in Int : f[i] = IF Signum(end - i) # Signum(k) THEN <<>>
                            ELSE <<elems[i + 1]>> \o f[i + k]
  BY DEF Looping
<1> DEFINE T == {n \in Nat : \A i \in Int : Strides(i, end, k) = n => f[i] = Taken(elems, i, k, n)}
<1>2. \A i \in Int : Strides(i, end, k) \in Nat /\ i + k \in Int
  <2> TAKE i \in Int
  <2>1. Strides(i, end, k) \in Nat
    BY StridesLead
  <2> QED BY <2>1
<1>3. 0 \in T
  <2> SUFFICES ASSUME NEW i \in Int, Strides(i, end, k) = 0 PROVE f[i] = Taken(elems, i, k, 0)
    OBVIOUS
  <2>1. ReachesEnd(i, end, k)
    <3> SUFFICES ASSUME ~ReachesEnd(i, end, k) PROVE FALSE
      OBVIOUS
    <3>1. Strides(i, end, k) = 1 + Strides(i + k, end, k)
      BY StridesStep
    <3> QED BY <1>2, <3>1
  <2>2. Taken(elems, i, k, 0) = <<>>
    BY DEF Taken
  <2>3. f[i] = <<>>
    BY <1>1, <2>1, LoopEnds
  <2> QED BY <2>2, <2>3
<1>4. ASSUME NEW n \in Nat, n \in T PROVE n + 1 \in T
  <2> SUFFICES ASSUME NEW i \in Int, Strides(i, end, k) = n + 1
               PROVE  f[i] = Taken(elems, i, k, n + 1)
    OBVIOUS
  <2>1. ~ReachesEnd(i, end, k)
    <3> SUFFICES ASSUME ReachesEnd(i, end, k) PROVE FALSE
      OBVIOUS
    <3>1. Strides(i, end, k) = 0
      BY StridesStep
    <3> QED BY <3>1
  <2>2. PICK m \in Nat : m = Strides(i + k, end, k)
    BY <1>2
  <2>3. m = n
    <3>1. Strides(i, end, k) = 1 + m
      BY <2>1, <2>2, StridesStep
    <3> QED BY <3>1
  <2>4. f[i + k] = Taken(elems, i + k, k, n)
    BY <1>2, <1>4, <2>2, <2>3
  <2>5. f[i] = <<elems[i + 1]>> \o f[i + k]
    BY <1>1, <2>1, LoopEnds
  <2>6. 1 + n = n + 1
    OBVIOUS
  <2>7. <<elems[i + 1]>> \o Taken(elems, i + k, k, n) = Taken(elems, i, k, 1 + n)
    BY TakenStep
  <2> QED BY <2>4, <2>5, <2>6, <2>7
<1>5. Nat \subseteq T
  <2> HIDE DEF T
  <2> QED BY <1>3, <1>4, SetInduction
<1> QED BY <1>2, <1>5

(* The loop of List.Slice and Tuple.Slice takes an element at each stride. *)
LEMMA EveryIs ==
  ASSUME NEW elems, NEW p \in Int, NEW end \in Int, NEW k \in Int, k # 0
  PROVE  Every(elems, p, end, k) = Taken(elems, p, k, Strides(p, end, k))
<1> DEFINE from == CHOOSE f : Looping(elems, end, k, f)
<1>1. Looping(elems, end, k, from)
  BY LoopExists, Zenon
<1>2. Every(elems, p, end, k) = from[p]
  BY DEF Every, Looping
<1> HIDE DEF from
<1> QED BY <1>1, <1>2, LoopTakes
-----------------------------------------------------------------------------
(* An operand of a slice. *)
Operand(v) == v = <<>> \/ v[1] \in Int

(* What the language specification calls the effective bounds. *)
StartOf(lo, k, n) == IF k > 0 THEN Effective(lo, n, 0, 0, n) ELSE Effective(lo, n, n - 1, -1, n - 1)
EndOf(hi, k, n) == IF k > 0 THEN Effective(hi, n, n, 0, n) ELSE Effective(hi, n, -1, -1, n - 1)

LEMMA BoundsTyped ==
  ASSUME NEW lo, NEW hi, Operand(lo), Operand(hi), NEW k \in Int, k # 0, NEW n \in Nat
  PROVE  /\ StartOf(lo, k, n) \in (IF k > 0 THEN 0 .. n ELSE -1 .. n - 1)
         /\ EndOf(hi, k, n) \in (IF k > 0 THEN 0 .. n ELSE -1 .. n - 1)
BY DEF StartOf, EndOf, Effective, Operand

(* The bounds that slice passes on are the effective ones, but if the      *)
(* first is at the second or past it they are two equal ones.              *)
BoundsFit(lo, hi, k, n) ==
  LET b == Bounds(lo, hi, k, n)
      start == StartOf(lo, k, n)
      end == EndOf(hi, k, n)
  IN  /\ b[1] \in Int /\ b[2] \in Int
      /\ k > 0 => b[1] \in 0 .. n
      /\ IF ReachesEnd(start, end, k) THEN b[1] = b[2]
         ELSE b[1] = start /\ b[2] = end /\ start \in 0 .. n - 1 /\ end \in -1 .. n

LEMMA BoundsAre ==
  ASSUME NEW lo, NEW hi, Operand(lo), Operand(hi), NEW k \in Int, k # 0, NEW n \in Nat
  PROVE  BoundsFit(lo, hi, k, n)
<1> DEFINE b == Bounds(lo, hi, k, n)
           start == StartOf(lo, k, n)
           end == EndOf(hi, k, n)
<1>1. CASE k > 0
  <2> DEFINE p == Clamp(AsIndex(lo, n, 0), n)
             q == Clamp(AsIndex(hi, n, n), n)
  <2>1. p \in 0 .. n /\ q \in 0 .. n
    BY DEF Clamp, AsIndex, Operand
  <2>2. p = start /\ q = end
    BY <1>1 DEF Clamp, AsIndex, StartOf, EndOf, Effective, Operand
  <2>3. b = <<p, Seqs!Max({p, q})>>
    BY <1>1 DEF Bounds, Indices
  <2> HIDE DEF p, q, b, start, end
  <2>4. Seqs!Max({p, q}) = IF p >= q THEN p ELSE q
    BY <2>1, MaxOfTwo
  <2>5. b[1] = p /\ b[2] = IF p >= q THEN p ELSE q
    BY <2>3, <2>4
  <2>6. ReachesEnd(start, end, k) <=> p >= q
    BY <1>1, <2>2 DEF ReachesEnd
  <2>7. /\ b[1] \in Int /\ b[2] \in Int /\ b[1] \in 0 .. n
        /\ IF ReachesEnd(start, end, k) THEN b[1] = b[2]
           ELSE b[1] = start /\ b[2] = end /\ start \in 0 .. n - 1 /\ end \in -1 .. n
    BY <2>1, <2>2, <2>5, <2>6
  <2> QED BY <2>7 DEF b, start, end, BoundsFit
<1>2. CASE k < 0
  <2> DEFINE i == AsIndex(lo, n, n - 1)
             j == AsIndex(hi, n, -1)
             q == Seqs!Max({j, -1})
             p == Seqs!Min({i, n - 1})
  <2>1. i \in Int /\ j \in Int
    BY DEF AsIndex, Operand
  <2>2. q = (IF j >= -1 THEN j ELSE -1) /\ p = IF i <= n - 1 THEN i ELSE n - 1
    BY <2>1, MaxOfTwo, MinOfTwo
  <2>3. ~(k > 0)
    BY <1>2
  <2>4. /\ start = IF i < -1 THEN -1 ELSE IF i > n - 1 THEN n - 1 ELSE i
        /\ end = IF j < -1 THEN -1 ELSE IF j > n - 1 THEN n - 1 ELSE j
    BY <2>3 DEF AsIndex, StartOf, EndOf, Effective
  <2>5. b = <<Seqs!Max({p, q}), q>>
    BY <2>3 DEF Bounds
  <2> HIDE DEF i, j, p, q, b, start, end
  <2>6. p \in Int /\ q \in Int
    BY <2>1, <2>2
  <2>7. b[1] = (IF p >= q THEN p ELSE q) /\ b[2] = q
    BY <2>5, <2>6, MaxOfTwo
  <2>8. ReachesEnd(start, end, k) <=> start <= end
    BY <2>3 DEF ReachesEnd
  <2>9. /\ b[1] \in Int /\ b[2] \in Int
        /\ IF ReachesEnd(start, end, k) THEN b[1] = b[2]
           ELSE b[1] = start /\ b[2] = end /\ start \in 0 .. n - 1 /\ end \in -1 .. n
    BY <2>1, <2>2, <2>4, <2>6, <2>7, <2>8
  <2> QED BY <2>3, <2>9 DEF b, start, end, BoundsFit
<1> QED BY <1>1, <1>2

(* From the start of a slice, no stride before the end leaves the          *)
(* sequence, and it takes no more strides than the sequence has elements.  *)
LEMMA StridesInside ==
  ASSUME NEW n \in Nat, NEW p \in 0 .. n - 1, NEW q \in -1 .. n, NEW k \in Int, k # 0,
         NEW c \in 0 .. Strides(p, q, k) - 1
  PROVE  p + c * k \in 0 .. n - 1
<1>0. p \in Int /\ q \in Int
  OBVIOUS
<1>1. PICK m \in Nat : m = Strides(p, q, k) /\ Leads(p, q, k, m)
  BY <1>0, StridesLead
<1>2. c \in 0 .. m - 1 /\ c * k \in Int
  BY <1>1
<1>3. ~ReachesEnd(p + c * k, q, k)
  BY <1>1, <1>2 DEF Leads
<1>4. (k > 0 => c * k >= 0) /\ (k < 0 => c * k <= 0)
  BY <1>2
<1> DEFINE d == c * k
<1> HIDE DEF d
<1>5. CASE k > 0
  BY <1>2, <1>3, <1>4, <1>5 DEF ReachesEnd, d
<1>6. CASE k < 0
  <2>1. ~(k > 0)
    BY <1>6
  <2> QED BY <1>2, <1>3, <1>4, <1>6, <2>1 DEF ReachesEnd, d
<1> QED BY <1>5, <1>6

LEMMA StridesBounded ==
  ASSUME NEW n \in Nat, NEW k \in Int, k # 0,
         NEW p \in IF k > 0 THEN 0 .. n ELSE -1 .. n - 1,
         NEW q \in IF k > 0 THEN 0 .. n ELSE -1 .. n - 1
  PROVE  Strides(p, q, k) \in 0 .. n
<1>0. p \in Int /\ q \in Int
  OBVIOUS
<1>1. PICK m \in Nat : m = Strides(p, q, k) /\ Leads(p, q, k, m)
  BY <1>0, StridesLead
<1>2. ReachesEnd(p + n * k, q, k)
  <2>1. n * k \in Int /\ (k > 0 => n * k >= n) /\ (k < 0 => n * k <= -n)
    OBVIOUS
  <2> DEFINE d == n * k
  <2> HIDE DEF d
  <2>2. (k > 0 => p + d >= q) /\ (k < 0 => p + d <= q)
    BY <2>1 DEF d
  <2> QED BY <2>2 DEF ReachesEnd, d
<1>3. ~(n < m)
  BY <1>1, <1>2 DEF Leads
<1> QED BY <1>1, <1>3

(* What the language specification selects. *)
LEMMA SelectedIs ==
  ASSUME NEW s, NEW n \in Nat, n = Len(s), NEW lo, NEW hi, Operand(lo), Operand(hi),
         NEW k \in Int, k # 0
  PROVE  LET start == StartOf(lo, k, n)
         IN  Selected(s, lo, hi, k) = Taken(s, start, k, Strides(start, EndOf(hi, k, n), k))
<1> DEFINE start == StartOf(lo, k, n)
           end == EndOf(hi, k, n)
           D == {c \in 0 .. n : ReachesEnd(start + c * k, end, k)}
<1>1. /\ start \in (IF k > 0 THEN 0 .. n ELSE -1 .. n - 1)
      /\ end \in (IF k > 0 THEN 0 .. n ELSE -1 .. n - 1)
  BY BoundsTyped
<1>2. Chosen(n, lo, hi, k) = [j \in 1 .. Seqs!Min(D) |-> start + (j - 1) * k]
  BY DEF Chosen, StartOf, EndOf
<1> HIDE DEF start, end
<1>3. start \in Int /\ end \in Int
  BY <1>1
<1>4. PICK m \in 0 .. n : m = Strides(start, end, k)
  BY <1>1, StridesBounded
<1>5. Leads(start, end, k, m)
  BY <1>3, <1>4, StridesLead
<1>6. Seqs!Min(D) = m
  <2>1. m \in D /\ D \in SUBSET Int
    BY <1>4, <1>5 DEF Leads
  <2>2. \A l \in D : m <= l
    BY <1>4, <1>5 DEF Leads
  <2> HIDE DEF D
  <2> QED BY <2>1, <2>2, MinIs
<1> HIDE DEF D
<1> DEFINE c == Chosen(n, lo, hi, k)
<1>7. DOMAIN c = 1 .. m /\ \A j \in 1 .. m : c[j] = start + (j - 1) * k
  BY <1>2, <1>6
<1> HIDE DEF c
<1>8. Selected(s, lo, hi, k) = [j \in 1 .. m |-> s[start + (j - 1) * k + 1]]
  <2>1. Selected(s, lo, hi, k) = [j \in DOMAIN c |-> s[c[j] + 1]]
    BY DEF Selected, c
  <2> QED BY <1>7, <2>1
<1>9. Selected(s, lo, hi, k) = Taken(s, start, k, Strides(start, end, k))
  BY <1>4, <1>8 DEF Taken
<1> QED BY <1>9 DEF start, end
-----------------------------------------------------------------------------
LEMMA SubSeqIs ==
  ASSUME NEW S, NEW s \in Seq(S), NEW p \in Nat, NEW q \in Nat, p <= q, q <= Len(s)
  PROVE  /\ SubSeq(s, p + 1, q) \in Seq(S) /\ Len(SubSeq(s, p + 1, q)) = q - p
         /\ \A j \in 1 .. q - p : SubSeq(s, p + 1, q)[j] = s[p + j]
OBVIOUS

(* With the stride 1, a slice is a part of the sequence. *)
LEMMA StridesOfOne ==
  ASSUME NEW p \in Int, NEW q \in Int
  PROVE  Strides(p, q, 1) = IF p <= q THEN q - p ELSE 0
<1>1. \A c \in Int : p + c * 1 = p + c
  OBVIOUS
<1>2. 1 \in Int /\ 1 # 0 /\ 1 > 0
  OBVIOUS
<1>3. CASE p <= q
  <2>1. Leads(p, q, 1, q - p)
    BY <1>1, <1>3 DEF Leads, ReachesEnd
  <2> QED BY <1>2, <1>3, <2>1, StridesAre
<1>4. CASE ~(p <= q)
  <2>1. Leads(p, q, 1, 0)
    BY <1>1, <1>4 DEF Leads, ReachesEnd
  <2> QED BY <1>2, <1>4, <2>1, StridesAre
<1> QED BY <1>3, <1>4

LEMMA PartIs ==
  ASSUME NEW S, NEW s \in Seq(S), NEW p \in Nat, NEW q \in Nat, p <= q, q <= Len(s)
  PROVE  SubSeq(s, p + 1, q) = Taken(s, p, 1, q - p)
<1> DEFINE t == SubSeq(s, p + 1, q)
           u == Taken(s, p, 1, q - p)
<1>1. t \in Seq(S) /\ Len(t) = q - p /\ \A j \in 1 .. q - p : t[j] = s[p + j]
  BY SubSeqIs
<1>2. \A j \in 1 .. q - p : s[p + j] \in S
  BY SeqTyped
<1>3. \A j \in 1 .. q - p : p + (j - 1) * 1 + 1 = p + j
  OBVIOUS
<1>4. u = [j \in 1 .. q - p |-> s[p + j]]
  BY <1>3 DEF Taken
<1>5. u \in Seq(S) /\ Len(u) = q - p /\ \A j \in 1 .. q - p : u[j] = s[p + j]
  <2>1. [j \in 1 .. q - p |-> s[p + j]] \in Seq(S)
    BY <1>2
  <2> QED BY <1>4, <2>1
<1> HIDE DEF t, u
<1>6. t = u
  BY <1>1, <1>5, SameSequence
<1> QED BY <1>6 DEF t, u

(* What is selected from a sequence over S is one. *)
LEMMA TakenTyped ==
  ASSUME NEW S, NEW s \in Seq(S), NEW n \in Nat, n = Len(s),
         NEW p \in Int, NEW q \in Int, NEW k \in Int, k # 0,
         ~ReachesEnd(p, q, k) => p \in 0 .. n - 1 /\ q \in -1 .. n
  PROVE  LET c == Strides(p, q, k)
         IN  Taken(s, p, k, c) \in Seq(S) /\ Len(Taken(s, p, k, c)) = c
<1>1. PICK c \in Nat : c = Strides(p, q, k)
  BY StridesLead
<1>2. ASSUME NEW j \in 1 .. c PROVE s[p + (j - 1) * k + 1] \in S
  <2>1. ~ReachesEnd(p, q, k)
    <3> SUFFICES ASSUME ReachesEnd(p, q, k) PROVE FALSE
      OBVIOUS
    <3>1. Strides(p, q, k) = 0
      BY StridesStep
    <3> QED BY <1>1, <3>1
  <2>2. j - 1 \in 0 .. Strides(p, q, k) - 1
    BY <1>1
  <2>3. p \in 0 .. n - 1 /\ q \in -1 .. n
    BY <2>1
  <2>4. p + (j - 1) * k \in 0 .. n - 1
    BY <2>2, <2>3, StridesInside
  <2> DEFINE i == p + (j - 1) * k
  <2> HIDE DEF i
  <2>5. i + 1 \in 1 .. n
    BY <2>4 DEF i
  <2>6. s[i + 1] \in S
    BY <2>5, SeqTyped
  <2> QED BY <2>6 DEF i
<1>3. Taken(s, p, k, c) = [j \in 1 .. c |-> s[p + (j - 1) * k + 1]]
  BY DEF Taken
<1>4. [j \in 1 .. c |-> s[p + (j - 1) * k + 1]] \in Seq(S)
  BY <1>2
<1> HIDE DEF Taken
<1>5. Len(Taken(s, p, k, c)) = c
  BY <1>3, <1>4
<1> QED BY <1>1, <1>3, <1>4, <1>5

(* Slices of lists and tuples. *)
LEMMA PlainSlice ==
  ASSUME NEW kind, kind # "range", NEW S, NEW s \in Seq(S),
         NEW lo, NEW hi, NEW step, Operand(lo), Operand(hi),
         Stride(step) \in Int, Stride(step) # 0
  PROVE  /\ Slice(Plain(kind, s), lo, hi, step) = Plain(kind, Selected(s, lo, hi, Stride(step)))
         /\ Selected(s, lo, hi, Stride(step)) \in Seq(S)
<1>1. PICK n \in Nat : n = Len(s)
  BY SeqTyped
<1> DEFINE k == Stride(step)
           b == Bounds(lo, hi, k, n)
           start == StartOf(lo, k, n)
           end == EndOf(hi, k, n)
<1>2. /\ start \in (IF k > 0 THEN 0 .. n ELSE -1 .. n - 1)
      /\ end \in (IF k > 0 THEN 0 .. n ELSE -1 .. n - 1)
  BY BoundsTyped
<1>3. /\ b[1] \in Int /\ b[2] \in Int
      /\ k > 0 => b[1] \in 0 .. n
      /\ IF ReachesEnd(start, end, k) THEN b[1] = b[2]
         ELSE b[1] = start /\ b[2] = end /\ start \in 0 .. n - 1 /\ end \in -1 .. n
  BY BoundsAre DEF BoundsFit
<1>4. Slice(Plain(kind, s), lo, hi, step) =
        Plain(kind, IF k = 1 THEN SubSeq(s, b[1] + 1, b[2]) ELSE Every(s, b[1], b[2], k))
  BY <1>1 DEF Slice, SliceFrom, Plain, Length
<1>5. Selected(s, lo, hi, k) = Taken(s, start, k, Strides(start, end, k))
  BY <1>1, SelectedIs
<1>6. k \in Int /\ k # 0
  OBVIOUS
<1> HIDE DEF k, b, start, end
<1>7. start \in Int /\ end \in Int
  BY <1>2
<1>8. Taken(s, start, k, Strides(start, end, k)) \in Seq(S)
  BY <1>1, <1>3, <1>6, <1>7, TakenTyped
<1>9. CASE ReachesEnd(start, end, k)
  <2>1. Strides(start, end, k) = 0
    BY <1>6, <1>7, <1>9, StridesStep
  <2>2. Taken(s, start, k, 0) = <<>> /\ Taken(s, b[1], k, 0) = <<>>
    BY DEF Taken
  <2>3. k = 1 => SubSeq(s, b[1] + 1, b[2]) = <<>>
    BY <1>3, <1>9
  <2>4. ReachesEnd(b[1], b[2], k)
    BY <1>3, <1>9 DEF ReachesEnd
  <2>5. Strides(b[1], b[2], k) = 0
    BY <1>3, <1>6, <2>4, StridesStep
  <2>6. Every(s, b[1], b[2], k) = <<>>
    BY <1>3, <1>6, <2>2, <2>5, EveryIs
  <2> QED BY <1>4, <1>5, <1>8, <2>1, <2>2, <2>3, <2>6 DEF k
<1>10. CASE ~ReachesEnd(start, end, k)
  <2>1. b[1] = start /\ b[2] = end /\ start \in 0 .. n - 1 /\ end \in -1 .. n
    BY <1>3, <1>10
  <2>2. Every(s, b[1], b[2], k) = Taken(s, start, k, Strides(start, end, k))
    BY <1>6, <1>7, <2>1, EveryIs
  <2>3. ASSUME k = 1 PROVE SubSeq(s, b[1] + 1, b[2]) = Taken(s, start, k, Strides(start, end, k))
    <3>1. start < end
      BY <1>7, <1>10, <2>3 DEF ReachesEnd
    <3>2. Strides(start, end, k) = end - start
      BY <1>7, <2>3, <3>1, StridesOfOne
    <3>3. start \in Nat /\ end \in Nat /\ start <= end /\ end <= Len(s)
      BY <1>1, <2>1, <3>1
    <3>4. SubSeq(s, start + 1, end) = Taken(s, start, 1, end - start)
      BY <3>3, PartIs
    <3> QED BY <2>1, <2>3, <3>2, <3>4
  <2> QED BY <1>4, <1>5, <1>8, <2>2, <2>3 DEF k
<1> QED BY <1>9, <1>10
-----------------------------------------------------------------------------
(* A slice whose stride is 1 is the part between two places in the         *)
(* sequence, which those of a slice and those of list.index are.           *)
PartStart(lo, n) == StartOf(lo, 1, n)
PartEnd(lo, hi, n) == IF EndOf(hi, 1, n) >= PartStart(lo, n) THEN EndOf(hi, 1, n) ELSE PartStart(lo, n)

LEMMA PartSelected ==
  ASSUME NEW S, NEW s \in Seq(S), NEW n \in Nat, n = Len(s),
         NEW lo, NEW hi, Operand(lo), Operand(hi)
  PROVE  LET p == PartStart(lo, n)
             q == PartEnd(lo, hi, n)
         IN  /\ p \in 0 .. n /\ q \in p .. n
             /\ Selected(s, lo, hi, 1) = SubSeq(s, p + 1, q)
<1> DEFINE p == PartStart(lo, n)
           q == PartEnd(lo, hi, n)
           end == EndOf(hi, 1, n)
<1>1. 1 \in Int /\ 1 # 0 /\ 1 > 0
  OBVIOUS
<1>2. p \in 0 .. n /\ end \in 0 .. n
  BY <1>1, BoundsTyped DEF PartStart
<1>3. Selected(s, lo, hi, 1) = Taken(s, p, 1, Strides(p, end, 1))
  BY <1>1, SelectedIs DEF PartStart
<1>4. q = IF end >= p THEN end ELSE p
  BY DEF PartEnd
<1> HIDE DEF p, q, end
<1>5. q \in p .. n
  BY <1>2, <1>4
<1>6. Strides(p, end, 1) = q - p
  BY <1>2, <1>4, StridesOfOne
<1>7. SubSeq(s, p + 1, q) = Taken(s, p, 1, q - p)
  <2>1. p \in Nat /\ q \in Nat /\ p <= q /\ q <= Len(s)
    BY <1>2, <1>5
  <2> QED BY <2>1, PartIs
<1>8. p \in 0 .. n /\ q \in p .. n /\ Selected(s, lo, hi, 1) = SubSeq(s, p + 1, q)
  BY <1>2, <1>3, <1>5, <1>6, <1>7
<1> QED BY <1>8 DEF p, q

(* L[:i] and L[i:]. *)
LEMMA PartsAt ==
  ASSUME NEW S, NEW s \in Seq(S), NEW n \in Nat, n = Len(s), NEW i \in Int
  PROVE  LET m == Clamp(Position(i, n), n)
         IN  /\ m \in 0 .. n
             /\ Selected(s, <<>>, <<i>>, 1) = SubSeq(s, 1, m)
             /\ Selected(s, <<i>>, <<>>, 1) = SubSeq(s, m + 1, n)
<1> DEFINE m == Clamp(Position(i, n), n)
<1>1. Operand(<<>>) /\ Operand(<<i>>) /\ <<i>> # <<>> /\ <<i>>[1] = i
  BY DEF Operand
<1>2. m \in 0 .. n
  BY DEF Clamp, Position
<1>3. PartStart(<<>>, n) = 0 /\ EndOf(<<>>, 1, n) = n
  BY DEF PartStart, StartOf, EndOf, Effective
<1>4. PartStart(<<i>>, n) = m /\ EndOf(<<i>>, 1, n) = m
  BY <1>1 DEF PartStart, StartOf, EndOf, Effective, Clamp, Position
<1> HIDE DEF m
<1>5. PartEnd(<<>>, <<i>>, n) = m /\ PartEnd(<<i>>, <<>>, n) = n
  BY <1>2, <1>3, <1>4 DEF PartEnd
<1>6. Selected(s, <<>>, <<i>>, 1) = SubSeq(s, 0 + 1, m)
  <2>1. PICK lo, hi : lo = <<>> /\ hi = <<i>>
    OBVIOUS
  <2>2. Selected(s, lo, hi, 1) = SubSeq(s, PartStart(lo, n) + 1, PartEnd(lo, hi, n))
    BY <1>1, <2>1, PartSelected
  <2> QED BY <1>3, <1>5, <2>1, <2>2
<1>7. Selected(s, <<i>>, <<>>, 1) = SubSeq(s, m + 1, n)
  <2>1. PICK lo, hi : lo = <<i>> /\ hi = <<>>
    OBVIOUS
  <2>2. Selected(s, lo, hi, 1) = SubSeq(s, PartStart(lo, n) + 1, PartEnd(lo, hi, n))
    BY <1>1, <2>1, PartSelected
  <2> QED BY <1>4, <1>5, <2>1, <2>2
<1>8. m \in 0 .. n /\ Selected(s, <<>>, <<i>>, 1) = SubSeq(s, 1, m)
      /\ Selected(s, <<i>>, <<>>, 1) = SubSeq(s, m + 1, n)
  BY <1>2, <1>6, <1>7, SMTT(60)
<1> QED BY <1>8 DEF m

LEMMA InsertedBetween ==
  ASSUME NEW S, NEW s \in Seq(S), NEW i \in Int, NEW x \in S
  PROVE  /\ WithInserted(s, i, x) = Selected(s, <<>>, <<i>>, 1) \o <<x>> \o Selected(s, <<i>>, <<>>, 1)
         /\ WithInserted(s, i, x) \in Seq(S)
<1>1. PICK n \in Nat : n = Len(s)
  BY SeqTyped
<1> DEFINE j == Position(i, n)
           m == Clamp(j, n)
           a == SubSeq(s, 1, m)
           c == SubSeq(s, m + 1, n)
<1>2. m \in 0 .. n /\ Selected(s, <<>>, <<i>>, 1) = a /\ Selected(s, <<i>>, <<>>, 1) = c
  BY <1>1, PartsAt
<1>3. j \in Int
  BY DEF Position
<1>4. WithInserted(s, i, x) =
        IF j >= n THEN Append(s, x)
        ELSE SubSeq(s, 1, (Seqs!Max({j, 0}) + 1) - 1) \o <<x>> \o SubSeq(s, Seqs!Max({j, 0}) + 1, n)
  <2> HIDE DEF j
  <2>1. WithInserted(s, i, x) =
          IF j >= Len(s) THEN Append(s, x) ELSE Seqs!InsertAt(s, Seqs!Max({j, 0}) + 1, x)
    BY <1>1 DEF WithInserted, j
  <2> QED BY <1>1, <2>1, Zenon DEF Seqs!InsertAt
<1>5. a \in Seq(S) /\ c \in Seq(S) /\ <<x>> \in Seq(S)
  BY <1>1, <1>2
<1>6. WithInserted(s, i, x) = a \o <<x>> \o c
  <2>1. CASE j >= n
    <3>1. m = n
      BY <1>3, <2>1 DEF Clamp
    <3>2. a = s /\ c = <<>>
      <4>1. SubSeq(s, 1, n) = s /\ SubSeq(s, n + 1, n) = <<>>
        BY <1>1
      <4> QED BY <3>1, <4>1
    <3> HIDE DEF a, c
    <3>3. a \o <<x>> \o c = Append(s, x)
      BY <3>2
    <3> QED BY <1>4, <2>1, <3>3
  <2>2. CASE ~(j >= n)
    <3>1. Seqs!Max({j, 0}) = m
      <4>1. Seqs!Max({j, 0}) = IF j >= 0 THEN j ELSE 0
        BY <1>3, MaxOfTwo
      <4> QED BY <1>3, <2>2, <4>1 DEF Clamp
    <3>2. (m + 1) - 1 = m
      BY <1>2
    <3> QED BY <1>4, <2>2, <3>1, <3>2
  <2> QED BY <2>1, <2>2
<1> HIDE DEF a, c
<1>7. a \o <<x>> \o c \in Seq(S)
  BY <1>5
<1> QED BY <1>2, <1>6, <1>7

LEMMA RemovedIs ==
  ASSUME NEW S, NEW s \in Seq(S), NEW j \in 0 .. Len(s) - 1
  PROVE  /\ Seqs!RemoveAt(s, j + 1) = SubSeq(s, 1, j) \o SubSeq(s, j + 1 + 1, Len(s))
         /\ Seqs!RemoveAt(s, j + 1) \in Seq(S)
<1>1. PICK n \in Nat : n = Len(s)
  BY SeqTyped
<1>2. (j + 1) - 1 = j /\ j \in 0 .. n - 1
  BY <1>1
<1>3. Seqs!RemoveAt(s, j + 1) = SubSeq(s, 1, j) \o SubSeq(s, j + 1 + 1, n)
  <2>1. Seqs!RemoveAt(s, j + 1) = SubSeq(s, 1, (j + 1) - 1) \o SubSeq(s, j + 1 + 1, Len(s))
    BY Zenon DEF Seqs!RemoveAt
  <2> QED BY <1>1, <1>2, <2>1
<1>4. SubSeq(s, 1, j) \in Seq(S) /\ SubSeq(s, j + 1 + 1, n) \in Seq(S)
  BY <1>1, <1>2
<1>5. SubSeq(s, 1, j) \o SubSeq(s, j + 1 + 1, n) \in Seq(S)
  BY <1>4
<1> QED BY <1>1, <1>3, <1>5

LEMMA PopIs ==
  ASSUME NEW n \in Nat, NEW i \in Int
  PROVE  PopFails(i, n) <=> i \notin -n .. n - 1
BY DEF PopFails, Position

LEMMA PoppedBetween ==
  ASSUME NEW S, NEW s \in Seq(S), NEW i \in Int, ~PopFails(i, Len(s))
  PROVE  /\ WithoutAt(s, i) = Selected(s, <<>>, <<i>>, 1) \o
                                (IF i = -1 THEN <<>> ELSE Selected(s, <<i + 1>>, <<>>, 1))
         /\ WithoutAt(s, i) \in Seq(S)
<1>1. PICK n \in Nat : n = Len(s)
  BY SeqTyped
<1> DEFINE j == Position(i, n)
<1>2. j \in 0 .. n - 1 /\ j \in Int
  BY <1>1 DEF PopFails
<1>3. WithoutAt(s, i) = SubSeq(s, 1, j) \o SubSeq(s, j + 1 + 1, n) /\ WithoutAt(s, i) \in Seq(S)
  BY <1>1, <1>2, RemovedIs DEF WithoutAt
<1>4. Selected(s, <<>>, <<i>>, 1) = SubSeq(s, 1, j)
  <2>1. Clamp(j, n) = j
    BY <1>2 DEF Clamp
  <2> QED BY <1>1, <2>1, PartsAt
<1>5. (IF i = -1 THEN <<>> ELSE Selected(s, <<i + 1>>, <<>>, 1)) = SubSeq(s, j + 1 + 1, n)
  <2>1. CASE i = -1
    <3>1. j = n - 1
      BY <2>1 DEF Position
    <3>2. SubSeq(s, n - 1 + 1 + 1, n) = <<>>
      BY <1>1
    <3> QED BY <2>1, <3>1, <3>2
  <2>2. CASE i # -1
    <3>1. i + 1 \in Int
      OBVIOUS
    <3>2. Clamp(Position(i + 1, n), n) = j + 1
      BY <1>2, <2>2 DEF Clamp, Position
    <3>3. Selected(s, <<i + 1>>, <<>>, 1) = SubSeq(s, Clamp(Position(i + 1, n), n) + 1, n)
      BY <1>1, <3>1, PartsAt
    <3> QED BY <2>2, <3>2, <3>3
  <2> QED BY <2>1, <2>2
<1> QED BY <1>3, <1>4, <1>5

(* list.index and list.remove look through the part, from its beginning. *)
LEMMA FoundIs ==
  ASSUME NEW S, NEW s \in Seq(S), NEW n \in Nat, n = Len(s),
         NEW lo, NEW hi, Operand(lo), Operand(hi), NEW x
  PROVE  LET p == PartStart(lo, n)
             q == PartEnd(lo, hi, n)
             at == Found(s, x, lo, hi)
         IN  \/ at = -1 /\ \A j \in p .. q - 1 : s[j + 1] # x
             \/ at \in p .. q - 1 /\ s[at + 1] = x /\ \A j \in p .. at - 1 : s[j + 1] # x
<1> DEFINE p == PartStart(lo, n)
           q == PartEnd(lo, hi, n)
           end == EndOf(hi, 1, n)
           b == Indices(lo, hi, n)
           at == Found(s, x, lo, hi)
           A == {j \in p .. q - 1 : s[j + 1] = x}
<1>1. p \in 0 .. n /\ q \in p .. n /\ end \in 0 .. n
  <2>1. 1 \in Int /\ 1 # 0 /\ 1 > 0
    OBVIOUS
  <2>2. p \in 0 .. n /\ q \in p .. n
    BY PartSelected
  <2> QED BY <2>1, <2>2, BoundsTyped
<1>2. b[1] = p /\ b[2] = end
  BY DEF Indices, Clamp, AsIndex, PartStart, StartOf, EndOf, Effective, Operand
<1>3. q = IF end >= p THEN end ELSE p
  BY DEF PartEnd
<1>4. at = LET H == {j \in b[1] .. b[2] - 1 : s[j + 1] = x} IN IF H = {} THEN -1 ELSE Seqs!Min(H)
  BY DEF Found
<1> HIDE DEF p, q, end, b, at
<1>5. b[1] .. b[2] - 1 = p .. q - 1
  BY <1>1, <1>2, <1>3
<1>6. at = IF A = {} THEN -1 ELSE Seqs!Min(A)
  BY <1>4, <1>5
<1>7. CASE A = {}
  <2>1. at = -1 /\ \A j \in p .. q - 1 : s[j + 1] # x
    BY <1>6, <1>7
  <2> QED BY <2>1 DEF p, q, at
<1>8. CASE A # {}
  <2>1. A \in SUBSET Nat /\ A \in SUBSET Int
    BY <1>1
  <2>2. PICK m \in A : \A l \in A : m <= l
    BY <1>8, <2>1, LeastExists
  <2>3. Seqs!Min(A) = m
    BY <2>1, <2>2, MinIs
  <2>4. at = m
    BY <1>6, <1>8, <2>3
  <2>5. \A j \in p .. m - 1 : s[j + 1] # x
    BY <1>1, <2>1, <2>2
  <2>6. at \in p .. q - 1 /\ s[at + 1] = x /\ \A j \in p .. at - 1 : s[j + 1] # x
    BY <2>2, <2>4, <2>5
  <2> QED BY <2>6 DEF p, q, at
<1> QED BY <1>7, <1>8
-----------------------------------------------------------------------------
(* Lists and tuples have elements of Elem; slices of ranges are ranges or  *)
(* the panic.                                                              *)
Plainly ==
  /\ seq.kind \in {"list", "tuple", "range", "panic"}
  /\ seq.kind \in {"list", "tuple"} =>
       seq.elems \in Seq(Elem) /\ seq = Plain(seq.kind, seq.elems)

LEMMA OptionalIs == ASSUME NEW v \in Optional PROVE Operand(v)
<1>1. CASE v = <<>>
  BY <1>1 DEF Operand
<1>2. CASE v # <<>>
  <2>1. PICK n \in IndexArgs : v = <<n>>
    BY <1>2 DEF Optional
  <2>2. n \in Int
    BY SlicingAssumption
  <2> QED BY <2>1, <2>2 DEF Operand
<1> QED BY <1>1, <1>2

LEMMA StrideIs ==
  ASSUME NEW lo, NEW hi, NEW step \in Optional, ~SliceFails(lo, hi, step)
  PROVE  Stride(step) \in Int /\ Stride(step) # 0
BY OptionalIs DEF Operand, Stride, SliceFails

LEMMA PlainIs ==
  ASSUME NEW kind, NEW elems
  PROVE  Plain(kind, elems).kind = kind /\ Plain(kind, elems).elems = elems
BY DEF Plain

LEMMA PlainlyInit == SlicingInit => Plainly
<1> SUFFICES ASSUME SlicingInit PROVE Plainly
  OBVIOUS
<1>1. ASSUME NEW kind \in {"list", "tuple"}, NEW n \in 0 .. MaxSeq, NEW elems \in [1 .. n -> Elem],
             seq = Plain(kind, elems)
      PROVE  Plainly
  <2>1. elems \in Seq(Elem)
    <3>1. n \in Nat
      BY SlicingAssumption
    <3> QED BY <3>1
  <2> QED BY <1>1, <2>1, PlainIs DEF Plainly
<1>2. ASSUME NEW a \in RangeArgs, seq = Range3(a[1], a[2], a[3]) PROVE Plainly
  BY <1>2 DEF Plainly, Range3, Panic
<1> QED BY <1>1, <1>2 DEF SlicingInit

LEMMA SlicePlainly ==
  ASSUME Plainly, NEW lo \in Optional, NEW hi \in Optional, NEW step \in Optional,
         seq.kind \in {"list", "tuple", "range"},
         ~SliceFails(lo, hi, step), seq' = Slice(seq, lo, hi, step)
  PROVE  Plainly'
<1>1. CASE seq.kind = "range"
  <2>1. seq' = Range3(seq'.start, seq'.stop, seq'.step) \/ seq'.kind \in {"range", "panic"}
    BY <1>1 DEF Slice, SliceFrom, SliceRange, Range3, Panic
  <2>2. seq'.kind \in {"range", "panic"}
    BY <2>1 DEF Range3, Panic
  <2> QED BY <2>2 DEF Plainly
<1>2. CASE seq.kind \in {"list", "tuple"}
  <2>1. PICK s \in Seq(Elem) : seq = Plain(seq.kind, s)
    BY <1>2 DEF Plainly
  <2>2. PICK kind \in {"list", "tuple"} : kind = seq.kind
    BY <1>2
  <2>3. Operand(lo) /\ Operand(hi) /\ Stride(step) \in Int /\ Stride(step) # 0
    BY OptionalIs, StrideIs
  <2>4. PICK t \in Seq(Elem) : Slice(Plain(kind, s), lo, hi, step) = Plain(kind, t)
    <3>1. kind # "range"
      OBVIOUS
    <3>2. /\ Slice(Plain(kind, s), lo, hi, step) = Plain(kind, Selected(s, lo, hi, Stride(step)))
          /\ Selected(s, lo, hi, Stride(step)) \in Seq(Elem)
      BY <2>3, <3>1, PlainSlice
    <3> QED BY <3>2
  <2>5. seq' = Plain(kind, t)
    BY <2>1, <2>2, <2>4
  <2> QED BY <2>5, PlainIs DEF Plainly
<1> QED BY <1>1, <1>2

(* Every update of a list leaves a list of the same type. *)
LEMMA UpdatePlainly ==
  ASSUME NEW elems \in Seq(Elem), Update(elems)
  PROVE  Plainly'
BY PlainIs DEF Update, Replace, Plainly

LEMMA PlainlyStep == Plainly /\ [SlicingNext]_slicingVars => Plainly'
<1> SUFFICES ASSUME Plainly, [SlicingNext]_slicingVars PROVE Plainly'
  OBVIOUS
<1>1. CASE TakeSlice
  <2>1. PICK lo \in Optional, hi \in Optional, step \in Optional :
          ~SliceFails(lo, hi, step) /\ Replace(Slice(seq, lo, hi, step))
    BY <1>1 DEF TakeSlice
  <2>2. seq' = Slice(seq, lo, hi, step) /\ seq.kind \in {"list", "tuple", "range"}
    BY <1>1, <2>1 DEF TakeSlice, Replace
  <2> QED BY <2>1, <2>2, SlicePlainly
<1>2. CASE seq.kind = "list"
  <2> DEFINE s == seq.elems
  <2>1. s \in Seq(Elem) /\ Len(s) \in Nat /\ DOMAIN s = 1 .. Len(s)
    BY <1>2, SeqTyped DEF Plainly
  <2> HIDE DEF s
  <2>2. CASE AppendTo
    <3>1. PICK x \in Elem : Update(Append(s, x))
      BY <2>2 DEF AppendTo, s
    <3>2. Append(s, x) \in Seq(Elem)
      BY <2>1
    <3> QED BY <3>1, <3>2, UpdatePlainly
  <2>3. CASE ExtendBy
    <3>1. PICK more \in {s} \cup {<<x>> : x \in Elem} : Update(s \o more)
      BY <2>3 DEF ExtendBy, s
    <3>2. more \in Seq(Elem)
      <4>1. \A x \in Elem : <<x>> \in Seq(Elem)
        OBVIOUS
      <4> QED BY <2>1, <3>1, <4>1
    <3>3. s \o more \in Seq(Elem)
      BY <2>1, <3>2, ConcatProperties
    <3> QED BY <3>1, <3>3, UpdatePlainly
  <2>4. CASE InsertInto
    <3>1. PICK i \in IndexArgs, x \in Elem : Update(WithInserted(s, i, x))
      BY <2>4 DEF InsertInto, s
    <3>2. i \in Int
      BY SlicingAssumption
    <3>3. WithInserted(s, i, x) \in Seq(Elem)
      BY <2>1, <3>2, InsertedBetween
    <3> QED BY <3>1, <3>3, UpdatePlainly
  <2>5. CASE PopFrom
    <3>1. PICK i \in IndexArgs : ~PopFails(i, Len(s)) /\ Update(WithoutAt(s, i))
      BY <2>5 DEF PopFrom, s
    <3>2. i \in Int
      BY SlicingAssumption
    <3>3. WithoutAt(s, i) \in Seq(Elem)
      BY <2>1, <3>1, <3>2, PoppedBetween
    <3> QED BY <3>1, <3>3, UpdatePlainly
  <2>6. CASE RemoveFrom
    <3>1. PICK x \in Elem : /\ Found(s, x, <<>>, <<>>) # -1
                            /\ Update(Seqs!RemoveAt(s, Found(s, x, <<>>, <<>>) + 1))
      BY <2>6 DEF RemoveFrom, s
    <3> DEFINE none == <<>>
               at == Found(s, x, none, none)
    <3>2. Operand(none)
      BY DEF Operand
    <3>3. PICK n \in Nat : n = Len(s)
      BY <2>1
    <3>4. PICK p, q : p = PartStart(none, n) /\ q = PartEnd(none, none, n)
      OBVIOUS
    <3>5. p \in 0 .. n /\ q \in p .. n
      BY <2>1, <3>2, <3>3, <3>4, PartSelected
    <3>6. at # -1 => at \in p .. q - 1
      <4> HIDE DEF none, at
      <4>1. Found(s, x, none, none) = -1 \/ Found(s, x, none, none) \in p .. q - 1
        BY <2>1, <3>2, <3>3, <3>4, FoundIs
      <4> QED BY <4>1 DEF at
    <3>7. at \in 0 .. Len(s) - 1
      BY <3>1, <3>3, <3>5, <3>6
    <3>8. Seqs!RemoveAt(s, at + 1) \in Seq(Elem)
      <4> HIDE DEF at
      <4> QED BY <2>1, <3>7, RemovedIs
    <3> QED BY <3>1, <3>8, UpdatePlainly
  <2>7. CASE AssignTo
    <3>1. PICK i \in IndexArgs, x \in Elem :
            /\ ~IndexFails(i, Len(s))
            /\ Update([s EXCEPT ![Position(i, Len(s)) + 1] = x])
      BY <2>7 DEF AssignTo, s
    <3>2. Position(i, Len(s)) + 1 \in 1 .. Len(s)
      BY <2>1, <3>1 DEF IndexFails
    <3>3. [s EXCEPT ![Position(i, Len(s)) + 1] = x] \in Seq(Elem)
      BY <2>1, <3>2
    <3> QED BY <3>1, <3>3, UpdatePlainly
  <2>8. CASE ClearIt
    <3>1. <<>> \in Seq(Elem)
      OBVIOUS
    <3> QED BY <2>8, <3>1, UpdatePlainly DEF ClearIt
  <2>9. CASE UNCHANGED slicingVars
    BY <2>9 DEF slicingVars, Plainly
  <2> QED BY <1>1, <2>2, <2>3, <2>4, <2>5, <2>6, <2>7, <2>8, <2>9 DEF SlicingNext
<1>3. CASE seq.kind # "list" /\ ~TakeSlice
  <2>1. UNCHANGED slicingVars
    BY <1>3 DEF SlicingNext, AppendTo, ExtendBy, InsertInto, PopFrom, RemoveFrom, AssignTo, ClearIt, Update
  <2> QED BY <2>1 DEF slicingVars, Plainly
<1> QED BY <1>1, <1>2, <1>3

(* What list.index finds is what is first in the slice. *)
LEMMA FoundFirst ==
  ASSUME NEW S, NEW s \in Seq(S), NEW lo, NEW hi, Operand(lo), Operand(hi), NEW x
  PROVE  LET at == Found(s, x, lo, hi)
             part == Selected(s, lo, hi, 1)
         IN  IF at = -1 THEN \A j \in DOMAIN part : part[j] # x
             ELSE \E j \in DOMAIN part :
                    /\ part[j] = x /\ \A l \in 1 .. j - 1 : part[l] # x
                    /\ at = Effective(lo, Len(s), 0, 0, Len(s)) + j - 1
<1>1. PICK n \in Nat : n = Len(s)
  BY SeqTyped
<1> DEFINE at == Found(s, x, lo, hi)
           part == Selected(s, lo, hi, 1)
<1>2. PICK p, q : p = PartStart(lo, n) /\ q = PartEnd(lo, hi, n)
  OBVIOUS
<1>3. p \in 0 .. n /\ q \in p .. n /\ part = SubSeq(s, p + 1, q)
  BY <1>1, <1>2, PartSelected
<1>4. p = Effective(lo, n, 0, 0, n)
  BY <1>2 DEF PartStart, StartOf
<1>5. DOMAIN part = 1 .. q - p /\ \A j \in 1 .. q - p : part[j] = s[p + j]
  <2>1. p \in Nat /\ q \in Nat /\ p <= q /\ q <= Len(s)
    BY <1>1, <1>3
  <2> HIDE DEF part
  <2>2. part \in Seq(S) /\ Len(part) = q - p /\ \A j \in 1 .. q - p : part[j] = s[p + j]
    BY <1>3, <2>1, SubSeqIs
  <2> QED BY <2>2, SeqTyped
<1>6. \/ at = -1 /\ \A j \in p .. q - 1 : s[j + 1] # x
      \/ at \in p .. q - 1 /\ s[at + 1] = x /\ \A j \in p .. at - 1 : s[j + 1] # x
  BY <1>1, <1>2, FoundIs
<1> HIDE DEF at, part
<1>7. CASE at = -1
  <2>1. \A j \in p .. q - 1 : s[j + 1] # x
    BY <1>3, <1>6, <1>7
  <2>2. ASSUME NEW j \in 1 .. q - p PROVE part[j] # x
    <3>1. p + j - 1 \in p .. q - 1 /\ (p + j - 1) + 1 = p + j
      BY <1>3
    <3> QED BY <1>5, <2>1, <3>1
  <2> QED BY <1>5, <1>7, <2>2 DEF at, part
<1>8. CASE at # -1
  <2>1. at \in p .. q - 1 /\ s[at + 1] = x /\ \A j \in p .. at - 1 : s[j + 1] # x
    BY <1>6, <1>8
  <2>2. PICK j \in 1 .. q - p : j = at - p + 1
    BY <1>3, <2>1
  <2>3. p + j = at + 1 /\ at = p + j - 1
    BY <1>3, <2>1, <2>2
  <2>4. part[j] = x
    BY <1>5, <2>1, <2>3
  <2>5. ASSUME NEW l \in 1 .. j - 1 PROVE part[l] # x
    <3>1. l \in 1 .. q - p /\ p + l - 1 \in p .. at - 1 /\ (p + l - 1) + 1 = p + l
      BY <1>3, <2>2, <2>3
    <3> QED BY <1>5, <2>1, <3>1
  <2>6. at = Effective(lo, Len(s), 0, 0, Len(s)) + j - 1
    BY <1>1, <1>4, <2>3
  <2> QED BY <1>5, <1>8, <2>4, <2>5, <2>6 DEF at, part
<1> QED BY <1>7, <1>8

(* In lists of any length, of anything, insert, pop and index understand   *)
(* every index as slices do (list_insert, list_pop, list_index in          *)
(* library.go), whatever was done to the list before.                      *)
THEOREM ListsAreExact == SlicingSpec => []ListsExact
<1>1. Plainly => ListsExact
  <2> SUFFICES ASSUME Plainly, seq.kind = "list" PROVE ListsExact
    BY DEF ListsExact
  <2> DEFINE s == seq.elems
  <2>1. s \in Seq(Elem)
    BY DEF Plainly
  <2> DEFINE n == Len(s)
  <2>2. n \in Nat
    BY <2>1, SeqTyped
  <2>3. IndexArgs \subseteq Int
    BY SlicingAssumption
  <2>4. ASSUME NEW i \in IndexArgs, NEW x \in Elem
        PROVE  WithInserted(s, i, x) = Part(<<>>, <<i>>) \o <<x>> \o Part(<<i>>, <<>>)
    <3> HIDE DEF s
    <3>1. WithInserted(s, i, x) = Selected(s, <<>>, <<i>>, 1) \o <<x>> \o Selected(s, <<i>>, <<>>, 1)
      BY <2>1, <2>3, InsertedBetween
    <3> QED BY <3>1 DEF Part, s
  <2>5. ASSUME NEW i \in IndexArgs
        PROVE  LET after == IF i = -1 THEN <<>> ELSE Part(<<i + 1>>, <<>>)
               IN  /\ PopFails(i, n) <=> i \notin -n .. n - 1
                   /\ IsInt32(i) => (IndexFails(i, n) <=> PopFails(i, n))
                   /\ ~PopFails(i, n) => WithoutAt(s, i) = Part(<<>>, <<i>>) \o after
    <3>1. PopFails(i, n) <=> i \notin -n .. n - 1
      BY <2>3, PopIs
    <3>2. IsInt32(i) => (IndexFails(i, n) <=> PopFails(i, n))
      BY DEF IndexFails, PopFails
    <3>3. ASSUME ~PopFails(i, n)
          PROVE  WithoutAt(s, i) = Part(<<>>, <<i>>) \o (IF i = -1 THEN <<>> ELSE Part(<<i + 1>>, <<>>))
      <4> HIDE DEF s
      <4>1. WithoutAt(s, i) = Selected(s, <<>>, <<i>>, 1) \o
                                (IF i = -1 THEN <<>> ELSE Selected(s, <<i + 1>>, <<>>, 1))
        BY <2>1, <2>2, <2>3, <3>3, PoppedBetween
      <4> QED BY <4>1 DEF Part, s
    <3> QED BY <3>1, <3>2, <3>3
  <2>6. ASSUME NEW lo \in Optional, NEW hi \in Optional, NEW x \in Elem
        PROVE  LET at == Found(s, x, lo, hi)
                   part == Part(lo, hi)
               IN  IF at = -1 THEN \A j \in DOMAIN part : part[j] # x
                   ELSE \E j \in DOMAIN part :
                          /\ part[j] = x /\ \A l \in 1 .. j - 1 : part[l] # x
                          /\ at = Effective(lo, n, 0, 0, n) + j - 1
    <3>1. Operand(lo) /\ Operand(hi)
      BY OptionalIs
    <3> HIDE DEF s
    <3>2. Part(lo, hi) = Selected(s, lo, hi, 1)
      BY DEF Part, s
    <3> QED BY <2>1, <2>2, <3>1, <3>2, FoundFirst
  <2> QED BY <2>4, <2>5, <2>6, Zenon DEF ListsExact
<1> QED BY <1>1, PlainlyInit, PlainlyStep, PTL DEF SlicingSpec
-----------------------------------------------------------------------------
(* Powers of two: the subsets of 1 .. n + 1 are those of 1 .. n, without   *)
(* and with n + 1.                                                         *)
LEMMA Powers ==
  ASSUME NEW n \in Nat
  PROVE  2 ^ n \in Nat \ {0} /\ 2 ^ (n + 1) = 2 * 2 ^ n
<1> DEFINE S == 1 .. n
           A == SUBSET S
           B == {U \cup {n + 1} : U \in A}
<1>1. \A m \in Nat : IsFiniteSet(1 .. m) /\ Cardinality(1 .. m) = m
  <2> TAKE m \in Nat
  <2>1. 1 \in Int /\ m \in Int
    OBVIOUS
  <2>2. IsFiniteSet(1 .. m) /\ Cardinality(1 .. m) = IF 1 > m THEN 0 ELSE m - 1 + 1
    BY <2>1, FS_Interval
  <2> QED BY <2>2
<1>2. IsFiniteSet(A) /\ Cardinality(A) = 2 ^ n
  BY <1>1, FS_SUBSET
<1>3. IsFiniteSet(SUBSET (1 .. n + 1)) /\ Cardinality(SUBSET (1 .. n + 1)) = 2 ^ (n + 1)
  <2>1. n + 1 \in Nat
    OBVIOUS
  <2> QED BY <1>1, <2>1, FS_SUBSET
<1>4. 2 ^ n \in Nat \ {0}
  <2>1. Cardinality(A) \in Nat
    BY <1>2, FS_CardinalityType
  <2>2. A # {}
    OBVIOUS
  <2> HIDE DEF A
  <2>3. Cardinality(A) # 0
    BY <1>2, <2>2, FS_EmptySet
  <2> QED BY <1>2, <2>1, <2>3
<1>5. n + 1 \notin S
  OBVIOUS
<1>6. SUBSET (1 .. n + 1) = A \cup B
  <2>1. 1 .. n + 1 = S \cup {n + 1}
    OBVIOUS
  <2> HIDE DEF S
  <2>2. ASSUME NEW U \in SUBSET (S \cup {n + 1}) PROVE U \in A \cup B
    <3>1. CASE n + 1 \in U
      <4>1. U = (U \ {n + 1}) \cup {n + 1} /\ U \ {n + 1} \in A
        BY <3>1
      <4> QED BY <4>1
    <3>2. CASE n + 1 \notin U
      BY <3>2
    <3> QED BY <3>1, <3>2
  <2>3. A \cup B \subseteq SUBSET (S \cup {n + 1})
    OBVIOUS
  <2> QED BY <2>1, <2>2, <2>3
<1>7. IsFiniteSet(B) /\ Cardinality(B) = 2 ^ n
  <2> DEFINE f == [U \in A |-> U \cup {n + 1}]
  <2>1. f \in Bijection(A, B)
    <3> HIDE DEF S
    <3>1. f \in [A -> B]
      OBVIOUS
    <3>2. \A U, W \in A : f[U] = f[W] => U = W
      <4> SUFFICES ASSUME NEW U \in A, NEW W \in A, f[U] = f[W] PROVE U = W
        OBVIOUS
      <4>1. U \cup {n + 1} = W \cup {n + 1}
        OBVIOUS
      <4>2. n + 1 \notin U /\ n + 1 \notin W
        BY <1>5
      <4> QED BY <4>1, <4>2
    <3>3. \A b \in B : \E U \in A : f[U] = b
      OBVIOUS
    <3> HIDE DEF f, A, B
    <3> QED BY <3>1, <3>2, <3>3 DEF Bijection, Injection, Surjection, IsInjective
  <2>2. ExistsBijection(A, B)
    <3> HIDE DEF f, A, B
    <3> QED BY <2>1 DEF ExistsBijection
  <2> HIDE DEF A, B
  <2> QED BY <1>2, <2>2, FS_Bijection
<1>8. A \cap B = {}
  <2> HIDE DEF S
  <2> QED BY <1>5
<1> HIDE DEF A, B, S
<1>9. Cardinality(A \cup B) = Cardinality(A) + Cardinality(B) - Cardinality(A \cap B)
  BY <1>2, <1>7, FS_Union
<1>10. Cardinality({}) = 0
  BY FS_EmptySet
<1>11. 2 ^ (n + 1) = 2 ^ n + 2 ^ n - 0
  BY <1>2, <1>3, <1>6, <1>7, <1>8, <1>9, <1>10
<1> QED BY <1>4, <1>11

(* The integers of the width of int are unchanged by Wrap. *)
LEMMA WrapIs ==
  /\ Limit \in Nat \ {0}
  /\ \A n \in Int : Wrap(n) \in Int
  /\ \A n \in Int : -Limit <= n /\ n < Limit => Wrap(n) = n
<1>1. IntBits - 1 \in Nat /\ (IntBits - 1) + 1 = IntBits
  BY SlicingAssumption
<1>2. 2 ^ (IntBits - 1) \in Nat \ {0} /\ 2 ^ ((IntBits - 1) + 1) = 2 * 2 ^ (IntBits - 1)
  BY <1>1, Powers
<1>3. Limit \in Nat \ {0} /\ 2 ^ IntBits = 2 * Limit
  BY <1>1, <1>2 DEF Limit
<1>4. \A n \in Int : Wrap(n) = ((n + Limit) % (2 * Limit)) - Limit
  BY <1>3 DEF Wrap, Limit
<1> QED BY <1>3, <1>4

(* Division. *)
LEMMA Division ==
  ASSUME NEW d \in Int, d > 0, NEW n \in Nat
  PROVE  /\ n \div d \in Nat
         /\ d * (n \div d) <= n /\ n < d * ((n \div d) + 1)
OBVIOUS

LEMMA Products ==
  ASSUME NEW d \in Int, d > 0, NEW a \in Int, NEW b \in Int
  PROVE  /\ a <= b <=> a * d <= b * d
         /\ a < b <=> a * d < b * d
         /\ a * d \in Int /\ b * d \in Int /\ a * d = d * a /\ b * d = d * b
OBVIOUS

LEMMA QuotientAtMost ==
  ASSUME NEW d \in Int, d > 0, NEW n \in Nat
  PROVE  n \div d <= n
<1>1. PICK q \in Nat : q = n \div d /\ d * q <= n
  BY Division
<1>2. d * q >= q
  <2>1. 1 * q <= d * q
    OBVIOUS
  <2> QED BY <2>1
<1> QED BY <1>1, <1>2

LEMMA ExactQuotient ==
  ASSUME NEW d \in Int, d > 0, NEW i \in Nat
  PROVE  (i * d) \div d = i
<1>1. i * d \in Nat
  OBVIOUS
<1>2. PICK q \in Nat : q = (i * d) \div d /\ d * q <= i * d /\ i * d < d * (q + 1)
  BY <1>1, Division
<1>3. q <= i
  BY <1>2, Products
<1>4. i < q + 1
  BY <1>2, Products
<1> QED BY <1>2, <1>3, <1>4

(* The length that rangeLen computes is the number of strides. *)
LEMMA RangeLenIs ==
  ASSUME NEW p \in Int, NEW q \in Int, NEW d \in Int, d # 0,
         -Limit < d, d < Limit, -Limit < q - p, q - p < Limit
  PROVE  RangeLen(p, q, d) = Strides(p, q, d)
<1>0. Limit \in Nat \ {0} /\ \A n \in Int : -Limit <= n /\ n < Limit => Wrap(n) = n
  BY WrapIs
<1> HIDE DEF Limit
<1>1. CASE d > 0 /\ q > p
  <2>1. PICK m \in Nat : m = q - 1 - p /\ m < Limit
    BY <1>0, <1>1
  <2>2. Wrap(q - 1 - p) = m
    BY <1>0, <2>1
  <2>3. Quo(m, d) = m \div d
    BY <1>1, <2>1 DEF Quo
  <2>4. PICK r \in Nat : r = m \div d /\ d * r <= m /\ m < d * (r + 1) /\ r <= m
    BY <1>1, Division, QuotientAtMost
  <2>5. m + 1 < Limit
    BY <1>0, <2>1
  <2>6. Wrap(r + 1) = r + 1
    BY <1>0, <2>4, <2>5
  <2>7. RangeLen(p, q, d) = Wrap(Quo(Wrap(q - 1 - p), d) + 1)
    BY <1>1 DEF RangeLen
  <2>8. RangeLen(p, q, d) = r + 1
    BY <2>2, <2>3, <2>4, <2>6, <2>7
  <2>9. Leads(p, q, d, r + 1)
    <3>1. (r + 1) * d = d * (r + 1) /\ (r + 1) * d \in Int
      OBVIOUS
    <3>2. p + (r + 1) * d >= q
      BY <2>1, <2>4, <3>1
    <3>3. ASSUME NEW b \in 0 .. r PROVE ~(p + b * d >= q)
      <4>1. b * d <= r * d /\ b * d \in Int /\ r * d = d * r
        BY <1>1, Products
      <4> QED BY <2>1, <2>4, <4>1
    <3> QED BY <1>1, <3>2, <3>3 DEF Leads, ReachesEnd
  <2> QED BY <2>8, <2>9, StridesAre
<1>2. CASE d < 0 /\ p > q
  <2>1. PICK m \in Nat : m = p - 1 - q /\ m < Limit
    BY <1>0, <1>2
  <2>2. Wrap(p - 1 - q) = m
    BY <1>0, <2>1
  <2>3. PICK e \in Nat : e = -d /\ e > 0
    BY <1>2
  <2>4. Wrap(-d) = e
    BY <1>0, <2>3
  <2>5. Quo(m, e) = m \div e
    BY <2>1, <2>3 DEF Quo
  <2>6. PICK r \in Nat : r = m \div e /\ e * r <= m /\ m < e * (r + 1) /\ r <= m
    BY <2>3, Division, QuotientAtMost
  <2>7. m + 1 < Limit
    BY <1>0, <2>1
  <2>8. Wrap(r + 1) = r + 1
    BY <1>0, <2>6, <2>7
  <2>9. RangeLen(p, q, d) = Wrap(Quo(Wrap(p - 1 - q), Wrap(-d)) + 1)
    BY <1>2 DEF RangeLen
  <2>10. RangeLen(p, q, d) = r + 1
    BY <2>2, <2>4, <2>5, <2>6, <2>8, <2>9
  <2>11. \A b \in Int : b * d = -(b * e) /\ b * e \in Int /\ b * e = e * b
    BY <2>3
  <2>12. Leads(p, q, d, r + 1)
    <3>1. p + (r + 1) * d <= q
      <4>1. (r + 1) * d = -((r + 1) * e) /\ (r + 1) * e \in Int /\ (r + 1) * e = e * (r + 1)
        BY <2>11
      <4> QED BY <2>1, <2>6, <4>1
    <3>2. ASSUME NEW b \in 0 .. r PROVE ~(p + b * d <= q)
      <4>1. b * e <= r * e
        BY <2>3, Products
      <4>2. b * d = -(b * e) /\ b * e \in Int /\ r * e \in Int /\ r * e = e * r
        BY <2>11
      <4> QED BY <2>1, <2>6, <4>1, <4>2
    <3>3. ~(d > 0)
      BY <1>2
    <3> QED BY <3>1, <3>2, <3>3 DEF Leads, ReachesEnd
  <2> QED BY <2>10, <2>12, StridesAre
<1>3. CASE ~(d > 0 /\ q > p) /\ ~(d < 0 /\ p > q)
  <2>1. RangeLen(p, q, d) = 0
    BY <1>3 DEF RangeLen
  <2>2. ReachesEnd(p, q, d)
    BY <1>3 DEF ReachesEnd
  <2> QED BY <2>1, <2>2, StridesStep
<1> QED BY <1>1, <1>2, <1>3
-----------------------------------------------------------------------------
(* Strides between the multiples of g are those between the factors. *)
LEMMA Scaled ==
  ASSUME NEW a \in Int, NEW g \in Int, g # 0, NEW p \in Int, NEW q \in Int, NEW k \in Int, k # 0
  PROVE  ReachesEnd(a + g * p, a + g * q, g * k) <=> ReachesEnd(p, q, k)
<1>1. CASE g > 0
  <2>1. p >= q <=> g * p >= g * q
    BY <1>1
  <2>2. p <= q <=> g * p <= g * q
    BY <1>1
  <2>3. g * k > 0 <=> k > 0
    BY <1>1
  <2>4. g * p \in Int /\ g * q \in Int
    OBVIOUS
  <2> QED BY <2>1, <2>2, <2>3, <2>4 DEF ReachesEnd
<1>2. CASE g < 0
  <2>1. p >= q <=> g * p <= g * q
    BY <1>2
  <2>2. p <= q <=> g * p >= g * q
    BY <1>2
  <2>3. g * k > 0 <=> ~(k > 0)
    BY <1>2
  <2>4. g * p \in Int /\ g * q \in Int
    OBVIOUS
  <2> QED BY <2>1, <2>2, <2>3, <2>4 DEF ReachesEnd
<1> QED BY <1>1, <1>2

LEMMA StridesScaled ==
  ASSUME NEW a \in Int, NEW g \in Int, g # 0, NEW p \in Int, NEW q \in Int, NEW k \in Int, k # 0
  PROVE  Strides(a + g * p, a + g * q, g * k) = Strides(p, q, k)
<1>1. PICK c \in Nat : c = Strides(p, q, k) /\ Leads(p, q, k, c)
  BY StridesLead
<1>2. ASSUME NEW b \in Int
      PROVE  ReachesEnd((a + g * p) + b * (g * k), a + g * q, g * k) <=> ReachesEnd(p + b * k, q, k)
  <2>1. (a + g * p) + b * (g * k) = a + g * (p + b * k) /\ p + b * k \in Int
    OBVIOUS
  <2>2. ReachesEnd(a + g * (p + b * k), a + g * q, g * k) <=> ReachesEnd(p + b * k, q, k)
    BY <2>1, Scaled
  <2> QED BY <2>1, <2>2
<1>3. Leads(a + g * p, a + g * q, g * k, c)
  <2>1. ReachesEnd((a + g * p) + c * (g * k), a + g * q, g * k)
    <3>1. c \in Int /\ ReachesEnd(p + c * k, q, k)
      BY <1>1 DEF Leads
    <3> QED BY <3>1, <1>2
  <2>2. ASSUME NEW b \in 0 .. c - 1
        PROVE  ~ReachesEnd((a + g * p) + b * (g * k), a + g * q, g * k)
    <3>1. b \in Int /\ ~ReachesEnd(p + b * k, q, k)
      BY <1>1 DEF Leads
    <3> QED BY <3>1, <1>2
  <2> QED BY <2>1, <2>2, Zenon DEF Leads
<1>4. a + g * p \in Int /\ a + g * q \in Int /\ g * k \in Int /\ g * k # 0
  OBVIOUS
<1> QED BY <1>1, <1>3, <1>4, StridesAre

(* What lies between two elements of a range lies between any bounds.      *)
LEMMA Between ==
  ASSUME NEW a \in Int, NEW d \in Int, NEW m \in Nat, NEW i \in 0 .. m, NEW V \in Nat,
         a \in -V .. V, a + m * d \in -V .. V
  PROVE  a + i * d \in -V .. V /\ i * d \in Int
<1>1. i * d \in Int /\ m * d \in Int
  OBVIOUS
<1>2. (d >= 0 => 0 <= i * d /\ i * d <= m * d) /\ (d <= 0 => m * d <= i * d /\ i * d <= 0)
  <2>1. ASSUME d >= 0 PROVE 0 <= i * d /\ i * d <= m * d
    BY <2>1
  <2>2. ASSUME d <= 0 PROVE m * d <= i * d /\ i * d <= 0
    BY <2>2
  <2> QED BY <2>1, <2>2
<1> DEFINE x == i * d
           y == m * d
<1> HIDE DEF x, y
<1>3. a + x \in -V .. V
  BY <1>1, <1>2 DEF x, y
<1> QED BY <1>1, <1>3 DEF x

(* A range that has its elements between -V and V, and a step of B at      *)
(* most: enough for all that is computed from it not to wrap.              *)
Narrow(V, B) == V \in Nat /\ B \in Nat /\ 2 * V + B < Limit

RangeOk(r, V, B) ==
  /\ r.kind = "range" /\ r.start \in Int /\ r.step \in -B .. B /\ r.step # 0 /\ r.len \in Nat
  /\ r.len # 0 => r.start \in -V .. V /\ r.start + (r.len - 1) * r.step \in -V .. V

LEMMA ElementIs ==
  ASSUME NEW V, NEW B, Narrow(V, B), NEW r, RangeOk(r, V, B), NEW i \in 0 .. r.len - 1
  PROVE  /\ Element(r, i) = r.start + i * r.step
         /\ Element(r, i) \in -V .. V
<1>1. V \in Nat /\ B \in Nat /\ V < Limit /\ Limit \in Nat
  BY WrapIs DEF Narrow
<1>2. r.len \in Nat /\ r.len # 0 /\ r.step \in Int /\ r.start \in Int
  BY <1>1 DEF RangeOk
<1>3. r.start + i * r.step \in -V .. V /\ i * r.step \in Int
  <2>1. r.len - 1 \in Nat /\ r.start \in -V .. V /\ r.start + (r.len - 1) * r.step \in -V .. V
    BY <1>2 DEF RangeOk
  <2> QED BY <1>1, <1>2, <2>1, Between
<1>4. Wrap(r.start + i * r.step) = r.start + i * r.step
  <2> DEFINE e == r.start + i * r.step
  <2>1. e \in Int /\ -Limit <= e /\ e < Limit
    BY <1>1, <1>3
  <2> HIDE DEF e
  <2>2. Wrap(e) = e
    BY <2>1, WrapIs
  <2> QED BY <2>2 DEF e
<1> QED BY <1>3, <1>4 DEF Element, RangeOk

LEMMA ContentsAre ==
  ASSUME NEW V, NEW B, Narrow(V, B), NEW r, RangeOk(r, V, B)
  PROVE  /\ Contents(r) \in Seq(-V .. V) /\ Len(Contents(r)) = r.len
         /\ \A j \in 1 .. r.len : Contents(r)[j] = r.start + (j - 1) * r.step
<1>1. r.len \in Nat /\ r.kind = "range"
  BY DEF RangeOk
<1>2. Contents(r) = [i \in 1 .. r.len |-> Element(r, i - 1)]
  BY <1>1 DEF Contents, Length
<1>3. ASSUME NEW j \in 1 .. r.len
      PROVE  Element(r, j - 1) = r.start + (j - 1) * r.step /\ Element(r, j - 1) \in -V .. V
  <2>1. j - 1 \in 0 .. r.len - 1
    BY <1>1
  <2> QED BY <2>1, ElementIs
<1>4. [i \in 1 .. r.len |-> Element(r, i - 1)] \in Seq(-V .. V)
  <2> DEFINE T == -V .. V
  <2>1. PICK n \in Nat : n = r.len
    BY <1>1
  <2>2. \A i \in 1 .. n : Element(r, i - 1) \in T
    BY <1>3, <2>1
  <2> HIDE DEF T
  <2>3. [i \in 1 .. n |-> Element(r, i - 1)] \in [1 .. n -> T]
    BY <2>2
  <2>4. [i \in 1 .. n |-> Element(r, i - 1)] \in Seq(T)
    BY <2>3
  <2> QED BY <2>1, <2>4 DEF T
<1> DEFINE c == Contents(r)
<1> HIDE DEF c
<1>5. c = [i \in 1 .. r.len |-> Element(r, i - 1)]
  BY <1>2 DEF c
<1>6. c \in Seq(-V .. V) /\ Len(c) = r.len
  BY <1>1, <1>4, <1>5
<1>7. \A j \in 1 .. r.len : c[j] = r.start + (j - 1) * r.step
  BY <1>3, <1>5
<1> QED BY <1>6, <1>7 DEF c

(* What range makes is a range whose length is right. *)
Spans(r, p, q, d) == r.kind = "range" /\ r.start = p /\ r.step = d /\ r.len = Strides(p, q, d)

LEMMA Range3Is ==
  ASSUME NEW V, NEW B, Narrow(V, B), NEW p \in Int, NEW q \in Int, NEW d \in -B .. B, d # 0,
         -(2 * V + B) <= q - p, q - p <= 2 * V + B
  PROVE  Spans(Range3(p, q, d), p, q, d)
<1>1. V \in Nat /\ B \in Nat /\ 2 * V + B < Limit /\ Limit \in Nat
  BY WrapIs DEF Narrow
<1>2. d \in Int /\ -Limit < d /\ d < Limit /\ -Limit < q - p /\ q - p < Limit
  BY <1>1
<1>3. RangeLen(p, q, d) = Strides(p, q, d)
  BY <1>2, RangeLenIs
<1> QED BY <1>3 DEF Range3, Spans

(* The slices of a range. *)
LEMMA RangeSlice ==
  ASSUME NEW V, NEW B, Narrow(V, B), NEW r, RangeOk(r, V, B),
         NEW lo, NEW hi, NEW step, Operand(lo), Operand(hi), Stride(step) \in Int, Stride(step) # 0,
         NEW C, Narrow(V, C), r.step * Stride(step) \in -C .. C
  PROVE  LET s == Slice(r, lo, hi, step)
             k == Stride(step)
             p == StartOf(lo, k, r.len)
             q == EndOf(hi, k, r.len)
         IN  /\ RangeOk(s, V, C)
             /\ s.len = Strides(p, q, k)
             /\ s.len # 0 => s.start = r.start + r.step * p /\ s.step = r.step * k
<1>1. PICK n \in Nat, k \in Int : n = r.len /\ k = Stride(step) /\ k # 0
  BY DEF RangeOk
<1> DEFINE s == Slice(r, lo, hi, step)
           p == StartOf(lo, k, n)
           q == EndOf(hi, k, n)
           b == Bounds(lo, hi, k, n)
<1>2. /\ V \in Nat /\ B \in Nat /\ C \in Nat /\ 2 * V + B < Limit /\ 2 * V + C < Limit
      /\ Limit \in Nat \ {0}
  BY WrapIs DEF Narrow
<1>3. PICK a \in Int, g \in -B .. B, d \in -C .. C : a = r.start /\ g = r.step /\ g # 0 /\ d = g * k
  BY <1>1 DEF RangeOk
<1>4. d # 0
  <2>1. g \in Int
    BY <1>2
  <2> QED BY <1>1, <1>3, <2>1
<1>5. s = Range3(Wrap(a + g * b[1]), Wrap(a + g * b[2]), Wrap(g * k))
  BY <1>1, <1>3 DEF Slice, SliceFrom, SliceRange, RangeOk, Length
<1>6. /\ b[1] \in Int /\ b[2] \in Int
      /\ IF ReachesEnd(p, q, k) THEN b[1] = b[2]
         ELSE b[1] = p /\ b[2] = q /\ p \in 0 .. n - 1 /\ q \in -1 .. n
  <2>0. k # 0
    BY <1>1
  <2>1. /\ b[1] \in Int /\ b[2] \in Int
        /\ k > 0 => b[1] \in 0 .. n
        /\ IF ReachesEnd(p, q, k) THEN b[1] = b[2]
           ELSE b[1] = p /\ b[2] = q /\ p \in 0 .. n - 1 /\ q \in -1 .. n
    BY <2>0, BoundsAre DEF BoundsFit
  <2> QED BY <2>1
<1>7. p \in Int /\ q \in Int
  <2>1. /\ p \in (IF k > 0 THEN 0 .. n ELSE -1 .. n - 1)
        /\ q \in (IF k > 0 THEN 0 .. n ELSE -1 .. n - 1)
    BY <1>1, BoundsTyped
  <2> QED BY <2>1
<1> HIDE DEF s, p, q, b
<1>8. Wrap(g * k) = d
  BY <1>2, <1>3, WrapIs
<1>9. CASE ReachesEnd(p, q, k)
  <2>1. PICK x \in Int : x = Wrap(a + g * b[1])
    <3>1. a + g * b[1] \in Int
      BY <1>2, <1>6
    <3> QED BY <3>1, WrapIs
  <2>2. s = Range3(x, x, d)
    BY <1>5, <1>6, <1>8, <1>9, <2>1
  <2>3. s.kind = "range" /\ s.start = x /\ s.step = d /\ s.len = Strides(x, x, d)
    <3>1. -(2 * V + C) <= x - x /\ x - x <= 2 * V + C
      BY <1>2
    <3> QED BY <1>4, <2>2, <3>1, Range3Is DEF Spans
  <2>4. Strides(x, x, d) = 0
    <3>1. d \in Int /\ ReachesEnd(x, x, d)
      BY <1>2 DEF ReachesEnd
    <3> QED BY <1>4, <3>1, StridesStep
  <2>5. Strides(p, q, k) = 0
    BY <1>1, <1>7, <1>9, StridesStep
  <2>6. RangeOk(s, V, C) /\ s.len = 0
    BY <1>4, <2>3, <2>4 DEF RangeOk
  <2> QED BY <1>1, <2>5, <2>6 DEF s, p, q
<1>10. CASE ~ReachesEnd(p, q, k)
  <2>1. b[1] = p /\ b[2] = q /\ p \in 0 .. n - 1 /\ q \in -1 .. n
    BY <1>6, <1>10
  <2>2. g \in Int /\ a \in -V .. V /\ a + (n - 1) * g \in -V .. V /\ n - 1 \in Nat
    BY <1>1, <1>2, <1>3, <2>1 DEF RangeOk
  <2>3. \A i \in 0 .. n - 1 : a + i * g \in -V .. V /\ i * g \in Int
    BY <1>2, <2>2, Between
  <2>4. \A i \in Int : i * g = g * i
    BY <2>2
  <2>5. PICK x \in -V .. V : x = a + g * p
    BY <2>1, <2>3, <2>4
  <2>6. PICK y \in -(V + B) .. (V + B) : y = a + g * q
    <3>1. CASE q = -1
      <4>1. g * q = -g
        BY <2>2, <3>1
      <4>2. a - g \in -(V + B) .. (V + B)
        BY <1>2, <2>2
      <4> QED BY <2>2, <4>1, <4>2
    <3>2. CASE q = n
      <4>1. g * q = (n - 1) * g + g /\ (n - 1) * g \in Int
        BY <2>2, <3>2
      <4> DEFINE e == (n - 1) * g
      <4> HIDE DEF e
      <4>2. a + e \in -V .. V /\ e \in Int /\ g * q = e + g
        BY <2>2, <4>1 DEF e
      <4>3. a + g * q \in -(V + B) .. (V + B)
        BY <1>2, <2>2, <4>2
      <4> QED BY <4>3
    <3>3. CASE q \in 0 .. n - 1
      <4>1. a + q * g \in -V .. V /\ q * g = g * q
        BY <2>3, <2>4, <3>3
      <4> QED BY <1>2, <4>1
    <3> QED BY <2>1, <3>1, <3>2, <3>3
  <2>7. Wrap(x) = x /\ Wrap(y) = y
    BY <1>2, WrapIs
  <2>8. s = Range3(x, y, d)
    BY <1>5, <1>8, <2>1, <2>5, <2>6, <2>7
  <2>9. PICK D \in Nat : D >= B /\ D >= C /\ Narrow(V, D)
    BY <1>2 DEF Narrow
  <2>10. s.kind = "range" /\ s.start = x /\ s.step = d /\ s.len = Strides(x, y, d)
    <3>1. x \in Int /\ y \in Int /\ -(2 * V + D) <= y - x /\ y - x <= 2 * V + D
      BY <1>2, <2>9
    <3>0. d \in -D .. D /\ Narrow(V, D)
      BY <1>2, <2>9
    <3>2. Spans(Range3(x, y, d), x, y, d)
      BY <1>4, <3>0, <3>1, Range3Is, Zenon
    <3> QED BY <2>8, <3>2 DEF Spans
  <2>11. PICK c \in Nat : c = Strides(p, q, k) /\ c # 0
    <3>1. Strides(p, q, k) \in Nat /\ Strides(p + k, q, k) \in Nat
      <4>1. p + k \in Int
        BY <1>7
      <4> QED BY <1>1, <1>7, <4>1, StridesLead
    <3>2. Strides(p, q, k) = 1 + Strides(p + k, q, k)
      BY <1>1, <1>7, <1>10, StridesStep
    <3> DEFINE m == Strides(p, q, k)
               l == Strides(p + k, q, k)
    <3> HIDE DEF m, l
    <3>3. m \in Nat /\ l \in Nat /\ m = 1 + l
      BY <3>1, <3>2 DEF m, l
    <3>4. m # 0
      BY <3>3
    <3> QED BY <3>3, <3>4 DEF m
  <2>12. Strides(x, y, d) = c
    <3>1. a \in Int /\ g \in Int
      BY <1>3, <2>2
    <3>2. Strides(a + g * p, a + g * q, g * k) = Strides(p, q, k)
      BY <1>1, <1>3, <1>7, <3>1, StridesScaled
    <3> QED BY <1>3, <2>5, <2>6, <2>11, <3>2
  <2>13. x + (c - 1) * d \in -V .. V
    <3>1. c - 1 \in 0 .. Strides(p, q, k) - 1
      BY <2>11
    <3>2. PICK i \in 0 .. n - 1 : i = p + (c - 1) * k
      BY <1>1, <2>1, <3>1, StridesInside
    <3>3. x + (c - 1) * d = a + g * i
      <4>1. PICK e \in Int, f \in Int : f = c - 1 /\ e = f * k
        BY <1>1
      <4>2. f * d = g * e
        <5>1. \A u, v, w \in Int : u * (v * w) = v * (u * w)
          OBVIOUS
        <5>2. f * (g * k) = g * (f * k)
          BY <2>2, <5>1
        <5> QED BY <1>3, <4>1, <5>2, Zenon
      <4>3. g * i = g * p + g * e /\ g * p \in Int /\ g * e \in Int
        BY <1>7, <2>2, <3>2, <4>1
      <4>4. a \in Int
        BY <1>3
      <4> QED BY <2>5, <4>1, <4>2, <4>3, <4>4
    <3>4. a + i * g \in -V .. V /\ i * g = g * i
      BY <2>3, <2>4, <3>2
    <3> QED BY <3>3, <3>4
  <2>14. RangeOk(s, V, C)
    BY <1>2, <1>4, <2>10, <2>11, <2>12, <2>13 DEF RangeOk
  <2> QED BY <1>1, <1>3, <2>5, <2>10, <2>11, <2>12, <2>14 DEF s, p, q
<1> QED BY <1>9, <1>10
(* The elements of a slice of a range are those selected from its own. *)
LEMMA RangeSliceIs ==
  ASSUME NEW V, NEW B, Narrow(V, B), NEW r, RangeOk(r, V, B),
         NEW lo, NEW hi, NEW step, Operand(lo), Operand(hi), Stride(step) \in Int, Stride(step) # 0,
         NEW C, Narrow(V, C), r.step * Stride(step) \in -C .. C
  PROVE  Contents(Slice(r, lo, hi, step)) = Selected(Contents(r), lo, hi, Stride(step))
<1>1. PICK n \in Nat, k \in Int : n = r.len /\ k = Stride(step) /\ k # 0
  BY DEF RangeOk
<1>2. PICK a \in Int, g \in Int : a = r.start /\ g = r.step
  <2>1. B \in Nat
    BY DEF Narrow
  <2> QED BY <2>1 DEF RangeOk
<1> DEFINE s == Slice(r, lo, hi, step)
           t == Contents(r)
           u == Contents(s)
           p == StartOf(lo, k, n)
           q == EndOf(hi, k, n)
<1>3. /\ RangeOk(s, V, C) /\ s.len = Strides(p, q, k)
      /\ s.len # 0 => s.start = a + g * p /\ s.step = g * k
  BY <1>1, <1>2, RangeSlice
<1>4. Len(t) = n /\ \A j \in 1 .. n : t[j] = a + (j - 1) * g
  BY <1>1, <1>2, ContentsAre
<1>5. BoundsFit(lo, hi, k, n)
  <2>1. k # 0
    BY <1>1
  <2> QED BY <2>1, BoundsAre
<1>6. ~ReachesEnd(p, q, k) => p \in 0 .. n - 1 /\ q \in -1 .. n
  BY <1>5 DEF BoundsFit
<1>7. p \in Int /\ q \in Int
  <2>1. /\ p \in (IF k > 0 THEN 0 .. n ELSE -1 .. n - 1)
        /\ q \in (IF k > 0 THEN 0 .. n ELSE -1 .. n - 1)
    BY <1>1, BoundsTyped
  <2> QED BY <2>1
<1>8. Selected(t, lo, hi, k) = Taken(t, p, k, Strides(p, q, k))
  <2> HIDE DEF t
  <2>1. k # 0 /\ n = Len(t)
    BY <1>1, <1>4
  <2> QED BY <2>1, SelectedIs
<1> HIDE DEF s, t, p, q
<1>9. PICK m \in Nat : m = Strides(p, q, k)
  BY <1>1, <1>7, StridesLead
<1>10. u = [i \in 1 .. m |-> Element(s, i - 1)]
  BY <1>3, <1>9 DEF Contents, Length, RangeOk
<1>11. ASSUME NEW j \in 1 .. m PROVE Element(s, j - 1) = t[p + (j - 1) * k + 1]
  <2>1. ~ReachesEnd(p, q, k)
    BY <1>1, <1>7, <1>9, StridesStep
  <2>2. j - 1 \in 0 .. Strides(p, q, k) - 1 /\ m # 0
    BY <1>9
  <2>3. PICK i \in 0 .. n - 1 : i = p + (j - 1) * k
    BY <1>1, <1>6, <2>1, <2>2, StridesInside
  <2>4. t[i + 1] = a + i * g
    <3>1. i + 1 \in 1 .. n /\ (i + 1) - 1 = i
      OBVIOUS
    <3> QED BY <1>4, <3>1
  <2>5. Element(s, j - 1) = s.start + (j - 1) * s.step
    <3>1. j - 1 \in 0 .. s.len - 1
      BY <1>3, <1>9
    <3> QED BY <1>3, <3>1, ElementIs
  <2>6. s.start = a + g * p /\ s.step = g * k
    BY <1>3, <1>9, <2>2
  <2>7. (a + g * p) + (j - 1) * (g * k) = a + i * g
    <3>1. PICK f \in Int, e \in Int : f = j - 1 /\ e = f * k
      OBVIOUS
    <3>2. f * (g * k) = g * (f * k)
      <4>1. \A x, y, z \in Int : x * (y * z) = y * (x * z)
        OBVIOUS
      <4> QED BY <4>1
    <3>3. f * (g * k) = g * e
      BY <3>1, <3>2, Zenon
    <3>4. i * g = g * p + g * e /\ g * p \in Int /\ g * e \in Int
      BY <1>7, <2>3, <3>1
    <3> QED BY <3>1, <3>3, <3>4
  <2> QED BY <2>3, <2>4, <2>5, <2>6, <2>7
<1>12. Taken(t, p, k, m) = [i \in 1 .. m |-> t[p + (i - 1) * k + 1]]
  BY DEF Taken
<1>13. u = Selected(t, lo, hi, k)
  BY <1>8, <1>9, <1>10, <1>11, <1>12
<1> QED BY <1>1, <1>13 DEF s, t

(* Ranges are equal if they list the same. *)
LEMMA RangesEqual ==
  ASSUME NEW V, NEW B, Narrow(V, B), NEW r, RangeOk(r, V, B),
         NEW C, Narrow(V, C), NEW s, RangeOk(s, V, C)
  PROVE  RangeEqual(r, s) <=> Contents(r) = Contents(s)
<1> DEFINE t == Contents(r)
           u == Contents(s)
<1>1. PICK n \in Nat, m \in Nat : n = r.len /\ m = s.len
  BY DEF RangeOk
<1>2. PICK a \in Int, g \in Int, b \in Int, h \in Int :
        a = r.start /\ g = r.step /\ b = s.start /\ h = s.step
  <2>1. B \in Nat /\ C \in Nat
    BY DEF Narrow
  <2>2. r.start \in Int /\ r.step \in Int /\ s.start \in Int /\ s.step \in Int
    BY <2>1 DEF RangeOk
  <2> QED BY <2>2
<1>3. t \in Seq(-V .. V) /\ Len(t) = n /\ \A j \in 1 .. n : t[j] = a + (j - 1) * g
  BY <1>1, <1>2, ContentsAre
<1>4. u \in Seq(-V .. V) /\ Len(u) = m /\ \A j \in 1 .. m : u[j] = b + (j - 1) * h
  BY <1>1, <1>2, ContentsAre
<1>5. RangeEqual(r, s) <=> n = m /\ (n # 0 => a = b) /\ (n > 1 => g = h)
  BY <1>1, <1>2 DEF RangeEqual
<1> HIDE DEF t, u
<1>6. ASSUME n = m, n # 0 => a = b, n > 1 => g = h PROVE t = u
  <2>1. ASSUME NEW j \in 1 .. n PROVE t[j] = u[j]
    <3>1. CASE j = 1
      <4>1. (j - 1) * g = 0 /\ (j - 1) * h = 0
        BY <3>1
      <4> QED BY <1>3, <1>4, <1>6, <4>1
    <3>2. CASE j # 1
      <4>1. n > 1 /\ n # 0
        BY <3>2
      <4>2. a = b /\ g = h
        BY <1>6, <4>1
      <4>3. t[j] = a + (j - 1) * g /\ u[j] = b + (j - 1) * h
        BY <1>3, <1>4, <1>6
      <4> QED BY <4>2, <4>3
    <3> QED BY <3>1, <3>2
  <2> QED BY <1>3, <1>4, <1>6, <2>1, SameSequence
<1>7. ASSUME t = u PROVE n = m /\ (n # 0 => a = b) /\ (n > 1 => g = h)
  <2>1. n = m
    BY <1>3, <1>4, <1>7
  <2>2. ASSUME n # 0 PROVE a = b
    <3>1. 1 \in 1 .. n /\ (1 - 1) * g = 0 /\ (1 - 1) * h = 0
      BY <2>2
    <3>2. t[1] = a + (1 - 1) * g /\ u[1] = b + (1 - 1) * h
      BY <1>3, <1>4, <2>1, <3>1
    <3> QED BY <1>7, <3>1, <3>2
  <2>3. ASSUME n > 1 PROVE g = h
    <3>1. 2 \in 1 .. n /\ (2 - 1) * g = g /\ (2 - 1) * h = h
      BY <2>3
    <3>2. t[2] = a + (2 - 1) * g /\ u[2] = b + (2 - 1) * h
      BY <1>3, <1>4, <2>1, <3>1
    <3>3. a = b
      BY <2>2, <2>3
    <3> QED BY <1>7, <3>1, <3>2, <3>3
  <2> QED BY <2>1, <2>2, <2>3
<1> QED BY <1>5, <1>6, <1>7 DEF t, u

(* The quotient of a multiple. *)
LEMMA QuoOfMultiple ==
  ASSUME NEW d \in Int, d # 0, NEW i \in Nat
  PROVE  Quo(i * d, d) = i /\ Rem(i * d, d) = 0
<1>1. Quo(i * d, d) = i
  <2>1. CASE d > 0
    <3>1. i * d \in Nat
      BY <2>1
    <3>2. (i * d) \div d = i
      BY <2>1, ExactQuotient
    <3> DEFINE x == i * d
    <3> HIDE DEF x
    <3>3. x \in Nat /\ x \div d = i
      BY <3>1, <3>2 DEF x
    <3>4. Quo(x, d) = i
      BY <2>1, <3>3 DEF Quo
    <3> QED BY <3>4 DEF x
  <2>2. CASE d < 0
    <3>1. PICK e \in Nat : e = -d /\ e > 0
      BY <2>2
    <3>2. (i * e) \div e = i
      BY <3>1, ExactQuotient
    <3>3. i * d = -(i * e) /\ i * e \in Nat
      BY <3>1
    <3>4. i # 0 => i * e > 0
      BY <3>1
    <3> DEFINE x == i * e
    <3> HIDE DEF x
    <3>5. x \in Nat /\ x \div e = i /\ i * d = -x /\ (i # 0 => x > 0)
      BY <3>2, <3>3, <3>4 DEF x
    <3>6. (i = 0) => x = 0
      BY <3>1 DEF x
    <3>7. Quo(-x, d) = i
      BY <2>2, <3>1, <3>5, <3>6 DEF Quo
    <3> QED BY <3>5, <3>7
  <2> QED BY <2>1, <2>2
<1>2. i * d - d * i = 0
  OBVIOUS
<1> QED BY <1>1, <1>2 DEF Rem

(* A range holds what it lists. *)
LEMMA RangeHasIs ==
  ASSUME NEW V, NEW B, Narrow(V, B), NEW r, RangeOk(r, V, B),
         NEW v \in Int, IsInt32(v), -Limit < v - V, v + V < Limit
  PROVE  RangeHas(r, v) <=> \E j \in DOMAIN Contents(r) : Contents(r)[j] = v
<1> DEFINE t == Contents(r)
<1>0. V \in Nat /\ B \in Nat /\ Limit \in Nat
  BY WrapIs DEF Narrow
<1>1. PICK n \in Nat, a \in Int, d \in Int : n = r.len /\ a = r.start /\ d = r.step /\ d # 0
  BY <1>0 DEF RangeOk
<1>2. DOMAIN t = 1 .. n /\ \A j \in 1 .. n : t[j] = a + (j - 1) * d
  <2>1. t \in Seq(-V .. V) /\ Len(t) = n /\ \A j \in 1 .. n : t[j] = a + (j - 1) * d
    BY <1>1, ContentsAre
  <2> HIDE DEF t
  <2> QED BY <2>1
<1>3. RangeHas(r, v) <=> Rem(Wrap(v - a), d) = 0 /\ Quo(Wrap(v - a), d) \in 0 .. n - 1
  BY <1>1 DEF RangeHas
<1> HIDE DEF t
<1>4. CASE n = 0
  BY <1>2, <1>3, <1>4 DEF t
<1>5. CASE n # 0
  <2>1. a \in -V .. V
    BY <1>1, <1>5 DEF RangeOk
  <2>2. PICK x \in Int : x = v - a /\ Wrap(v - a) = x
    <3>1. v - a \in Int /\ -Limit <= v - a /\ v - a < Limit
      BY <1>0, <2>1
    <3> QED BY <3>1, WrapIs
  <2>3. ASSUME Rem(x, d) = 0, Quo(x, d) \in 0 .. n - 1
        PROVE  \E j \in 1 .. n : t[j] = v
    <3>1. PICK i \in 0 .. n - 1 : i = Quo(x, d)
      BY <2>3
    <3>2. x - d * i = 0
      BY <2>3, <3>1 DEF Rem
    <3>3. x = i * d
      BY <3>2
    <3>4. i + 1 \in 1 .. n /\ (i + 1) - 1 = i
      OBVIOUS
    <3>5. t[i + 1] = a + i * d
      BY <1>2, <3>4
    <3>6. t[i + 1] = v
      BY <2>2, <3>3, <3>5
    <3> QED BY <3>4, <3>6
  <2>4. ASSUME NEW j \in 1 .. n, t[j] = v
        PROVE  Rem(x, d) = 0 /\ Quo(x, d) \in 0 .. n - 1
    <3>1. PICK i \in 0 .. n - 1 : i = j - 1
      OBVIOUS
    <3>2. x = i * d
      BY <1>2, <2>2, <2>4, <3>1
    <3>3. Quo(i * d, d) = i /\ Rem(i * d, d) = 0
      <4>1. d # 0 /\ i \in Nat
        BY <1>1
      <4> QED BY <4>1, QuoOfMultiple
    <3> QED BY <3>2, <3>3
  <2> QED BY <1>2, <1>3, <2>2, <2>3, <2>4 DEF t
<1> QED BY <1>4, <1>5
-----------------------------------------------------------------------------
(* What range makes of bounds between -V and V has its elements there. *)
LEMMA Range3Ok ==
  ASSUME NEW V, NEW B, Narrow(V, B), NEW p \in -V .. V, NEW q \in -V .. V, NEW d \in -B .. B, d # 0
  PROVE  RangeOk(Range3(p, q, d), V, B)
<1> DEFINE r == Range3(p, q, d)
<1>1. V \in Nat /\ B \in Nat
  BY DEF Narrow
<1>2. p \in Int /\ q \in Int /\ d \in Int
  BY <1>1
<1>3. r.kind = "range" /\ r.start = p /\ r.step = d /\ r.len = Strides(p, q, d)
  <2>1. -(2 * V + B) <= q - p /\ q - p <= 2 * V + B
    BY <1>1
  <2> QED BY <1>2, <2>1, Range3Is DEF Spans
<1>4. PICK m \in Nat : m = Strides(p, q, d) /\ Leads(p, q, d, m)
  BY <1>2, StridesLead
<1> HIDE DEF r
<1>5. ASSUME m # 0 PROVE p + (m - 1) * d \in -V .. V
  <2>1. PICK c \in 0 .. m - 1 : c = m - 1
    BY <1>5
  <2>2. ~ReachesEnd(p + c * d, q, d)
    BY <1>4 DEF Leads
  <2>3. c * d \in Int /\ (d > 0 => c * d >= 0) /\ (d < 0 => c * d <= 0)
    BY <1>2
  <2> DEFINE x == c * d
  <2> HIDE DEF x
  <2>4. x \in Int /\ (d > 0 => x >= 0) /\ (d < 0 => x <= 0) /\ ~ReachesEnd(p + x, q, d)
    BY <2>2, <2>3 DEF x
  <2>5. p + x \in -V .. V
    BY <1>1, <1>2, <2>4 DEF ReachesEnd
  <2> QED BY <2>1, <2>5 DEF x
<1> QED BY <1>1, <1>3, <1>4, <1>5 DEF RangeOk, r

(* A product is no greater than one of a greater factor. *)
LEMMA ProductWithin ==
  ASSUME NEW B \in Nat, NEW C \in Nat, NEW k \in Int, B * k \in -C .. C, NEW g \in -B .. B
  PROVE  g * k \in -C .. C
<1>1. g \in Int /\ g * k \in Int /\ B * k \in Int
  OBVIOUS
<1>2. CASE k >= 0
  <2>1. g * k <= B * k /\ -(B * k) <= g * k
    <3>1. \A x, y \in Int : x <= y => x * k <= y * k
      BY <1>2
    <3>2. g <= B /\ -B <= g /\ -B \in Int /\ (-B) * k = -(B * k)
      OBVIOUS
    <3> QED BY <1>1, <3>1, <3>2
  <2> DEFINE x == g * k
             y == B * k
  <2> HIDE DEF x, y
  <2>2. x \in Int /\ y \in -C .. C /\ x <= y /\ -y <= x
    BY <1>1, <2>1 DEF x, y
  <2>3. x \in -C .. C
    BY <2>2
  <2> QED BY <2>3 DEF x
<1>3. CASE k < 0
  <2>1. B * k <= g * k /\ g * k <= -(B * k)
    <3>1. \A x, y \in Int : x <= y => y * k <= x * k
      BY <1>3
    <3>2. g <= B /\ -B <= g /\ -B \in Int /\ (-B) * k = -(B * k)
      OBVIOUS
    <3> QED BY <1>1, <3>1, <3>2
  <2> DEFINE x == g * k
             y == B * k
  <2> HIDE DEF x, y
  <2>2. x \in Int /\ y \in -C .. C /\ y <= x /\ x <= -y
    BY <1>1, <2>1 DEF x, y
  <2>3. x \in -C .. C
    BY <2>2
  <2> QED BY <2>3 DEF x
<1> QED BY <1>2, <1>3

(* The program stays within the width of int. *)
NothingOverflows == \E V, S : Fits(V, S)

(* The invariant: lists and tuples have elements of Elem, and ranges were  *)
(* not wrapped.                                                            *)
Exactly(V, S) ==
  /\ Plainly /\ seq.kind # "panic" /\ calls \in 0 .. Calls
  /\ seq.kind = "range" => RangeOk(seq, V, S[calls])

LEMMA FitsAt ==
  ASSUME NEW V, NEW S, Fits(V, S), NEW c \in 0 .. Calls + 1
  PROVE  S[c] \in Nat /\ Narrow(V, S[c])
BY DEF Fits, Narrow

LEMMA CallsTyped == Calls \in Nat
BY SlicingAssumption

(* A stride that slice accepts lengthens the step as Fits allows for. *)
LEMMA StepFits ==
  ASSUME NEW V, NEW S, Fits(V, S), NEW c \in 0 .. Calls, NEW g \in -S[c] .. S[c],
         NEW lo, NEW hi, NEW step \in Optional, ~SliceFails(lo, hi, step)
  PROVE  g * Stride(step) \in -S[c + 1] .. S[c + 1]
<1>1. c \in 0 .. Calls + 1 /\ c + 1 \in 0 .. Calls + 1
  BY CallsTyped
<1>2. PICK B \in Nat, C \in Nat : B = S[c] /\ C = S[c + 1]
  BY <1>1, FitsAt
<1>3. g \in Int
  BY <1>2
<1>4. CASE step = <<>>
  <2>1. Stride(step) = 1
    BY <1>4 DEF Stride
  <2>2. B <= C
    BY <1>2 DEF Fits
  <2>3. g * 1 = g
    BY <1>3
  <2>4. g * 1 \in -C .. C
    BY <1>2, <1>3, <2>2, <2>3
  <2> QED BY <1>2, <2>1, <2>4
<1>5. CASE step # <<>>
  <2>1. PICK k \in IndexArgs : step = <<k>>
    BY <1>5 DEF Optional
  <2>2. Stride(step) = k /\ k \in Int
    BY <1>5, <2>1, SlicingAssumption DEF Stride
  <2>3. IsInt32(k)
    BY <1>5, <2>1 DEF SliceFails
  <2>4. B * k \in -C .. C
    BY <1>2, <2>3 DEF Fits
  <2>5. g * k \in -C .. C
    BY <1>2, <2>2, <2>4, ProductWithin
  <2> QED BY <1>2, <2>2, <2>5
<1> QED BY <1>4, <1>5

LEMMA ExactlyInit ==
  ASSUME NEW V, NEW S, Fits(V, S)
  PROVE  SlicingInit => Exactly(V, S)
<1> SUFFICES ASSUME SlicingInit PROVE Exactly(V, S)
  OBVIOUS
<1>1. Plainly /\ calls = 0 /\ calls \in 0 .. Calls
  BY PlainlyInit, CallsTyped DEF SlicingInit
<1>2. ASSUME NEW kind \in {"list", "tuple"}, NEW elems, seq = Plain(kind, elems)
      PROVE  Exactly(V, S)
  <2>1. seq.kind \notin {"range", "panic"}
    BY <1>2 DEF Plain
  <2> QED BY <1>1, <2>1 DEF Exactly
<1>3. ASSUME NEW a \in RangeArgs, seq = Range3(a[1], a[2], a[3]) PROVE Exactly(V, S)
  <2>1. PICK p, q, d : p = a[1] /\ q = a[2] /\ d = a[3]
    OBVIOUS
  <2>2. PICK B \in Nat : B = S[0] /\ Narrow(V, B)
    <3>1. 0 \in 0 .. Calls + 1
      BY CallsTyped
    <3> QED BY <3>1, FitsAt
  <2>3. p \in -V .. V /\ q \in -V .. V /\ d \in -B .. B /\ d # 0
    BY <2>1, <2>2, SlicingAssumption DEF Fits
  <2>4. RangeOk(Range3(p, q, d), V, B)
    BY <2>2, <2>3, Range3Ok
  <2>5. RangeOk(seq, V, S[calls])
    BY <1>1, <1>3, <2>1, <2>2, <2>4
  <2>6. seq.kind = "range"
    BY <2>5 DEF RangeOk
  <2> QED BY <1>1, <2>5, <2>6 DEF Exactly
<1> QED BY <1>2, <1>3, Zenon DEF SlicingInit

(* A slice of a range that was not wrapped was not either. *)
LEMMA SliceFits ==
  ASSUME NEW V, NEW S, Fits(V, S), NEW r, NEW c \in 0 .. Calls, RangeOk(r, V, S[c]),
         NEW lo \in Optional, NEW hi \in Optional, NEW step \in Optional, ~SliceFails(lo, hi, step)
  PROVE  /\ RangeOk(Slice(r, lo, hi, step), V, S[c + 1])
         /\ Narrow(V, S[c]) /\ Narrow(V, S[c + 1])
         /\ Contents(Slice(r, lo, hi, step)) = Selected(Contents(r), lo, hi, Stride(step))
<1>1. c \in 0 .. Calls + 1 /\ c + 1 \in 0 .. Calls + 1
  BY CallsTyped
<1>2. Narrow(V, S[c]) /\ Narrow(V, S[c + 1])
  BY <1>1, FitsAt
<1>3. Operand(lo) /\ Operand(hi) /\ Stride(step) \in Int /\ Stride(step) # 0
  BY OptionalIs, StrideIs
<1>4. r.step \in -S[c] .. S[c]
  BY DEF RangeOk
<1>5. r.step * Stride(step) \in -S[c + 1] .. S[c + 1]
  BY <1>4, StepFits
<1>6. RangeOk(Slice(r, lo, hi, step), V, S[c + 1])
  BY <1>2, <1>3, <1>5, RangeSlice
<1>7. Contents(Slice(r, lo, hi, step)) = Selected(Contents(r), lo, hi, Stride(step))
  BY <1>2, <1>3, <1>5, RangeSliceIs
<1> QED BY <1>2, <1>6, <1>7

LEMMA ExactlyStep ==
  ASSUME NEW V, NEW S, Fits(V, S)
  PROVE  Exactly(V, S) /\ [SlicingNext]_slicingVars => Exactly(V, S)'
<1> SUFFICES ASSUME Exactly(V, S), [SlicingNext]_slicingVars PROVE Exactly(V, S)'
  OBVIOUS
<1>1. Plainly' /\ calls \in 0 .. Calls
  BY PlainlyStep DEF Exactly
<1>2. ASSUME NEW s, Replace(s)
      PROVE  seq' = s /\ calls' = calls + 1 /\ calls' \in 0 .. Calls
  BY <1>1, <1>2, CallsTyped DEF Replace
<1>3. ASSUME NEW elems, Update(elems) PROVE Exactly(V, S)'
  <2>1. seq' = Plain("list", elems) /\ calls' \in 0 .. Calls
    BY <1>2, <1>3 DEF Update
  <2>2. seq'.kind = "list"
    BY <2>1 DEF Plain
  <2> QED BY <1>1, <2>1, <2>2 DEF Exactly
<1>4. CASE TakeSlice
  <2>1. PICK lo \in Optional, hi \in Optional, step \in Optional :
          ~SliceFails(lo, hi, step) /\ Replace(Slice(seq, lo, hi, step))
    BY <1>4 DEF TakeSlice
  <2>2. seq' = Slice(seq, lo, hi, step) /\ calls' = calls + 1 /\ calls' \in 0 .. Calls
    BY <1>2, <2>1
  <2>3. CASE seq.kind = "range"
    <3>1. RangeOk(seq, V, S[calls])
      BY <2>3 DEF Exactly
    <3>2. RangeOk(seq', V, S[calls'])
      BY <1>1, <2>1, <2>2, <3>1, SliceFits
    <3>3. seq'.kind = "range"
      BY <3>2 DEF RangeOk
    <3> QED BY <1>1, <2>2, <3>2, <3>3 DEF Exactly
  <2>4. CASE seq.kind # "range"
    <3>1. seq'.kind = seq.kind
      BY <2>2, <2>4 DEF Slice, SliceFrom, Plain
    <3> QED BY <1>1, <2>2, <2>4, <3>1 DEF Exactly
  <2> QED BY <2>3, <2>4
<1>5. CASE AppendTo \/ ExtendBy \/ InsertInto \/ PopFrom \/ RemoveFrom \/ AssignTo \/ ClearIt
  BY <1>3, <1>5 DEF AppendTo, ExtendBy, InsertInto, PopFrom, RemoveFrom, AssignTo, ClearIt
<1>6. CASE UNCHANGED slicingVars
  BY <1>1, <1>6 DEF slicingVars, Exactly
<1> QED BY <1>4, <1>5, <1>6 DEF SlicingNext

(* The contents of lists and tuples are their elements. *)
LEMMA PlainContents ==
  ASSUME NEW kind, kind # "range", NEW T, NEW t \in Seq(T)
  PROVE  Contents(Plain(kind, t)) = t
<1>1. Contents(Plain(kind, t)) = [i \in 1 .. Len(t) |-> t[(i - 1) + 1]]
  BY DEF Contents, Plain, Length, Element
<1>2. PICK n \in Nat : n = Len(t) /\ t = [i \in 1 .. n |-> t[i]]
  OBVIOUS
<1>3. \A i \in 1 .. n : (i - 1) + 1 = i
  OBVIOUS
<1> QED BY <1>1, <1>2, <1>3

LEMMA SlicesAt ==
  ASSUME NEW V, NEW S, Fits(V, S), Exactly(V, S)
  PROVE  SlicesExact
<1> SUFFICES ASSUME IsSequence PROVE SlicesExact
  BY DEF SlicesExact
<1>1. ASSUME NEW lo \in Optional, NEW hi \in Optional, NEW step \in Optional, ~SliceFails(lo, hi, step)
      PROVE  LET s == Slice(seq, lo, hi, step)
             IN  /\ Contents(s) = Selected(Contents(seq), lo, hi, Stride(step))
                 /\ seq.kind = "range" => (RangeEqual(seq, s) <=> Contents(seq) = Contents(s))
  <2> DEFINE s == Slice(seq, lo, hi, step)
  <2>1. CASE seq.kind = "range"
    <3>1. RangeOk(seq, V, S[calls]) /\ calls \in 0 .. Calls
      BY <2>1 DEF Exactly
    <3>2. /\ RangeOk(s, V, S[calls + 1]) /\ Narrow(V, S[calls]) /\ Narrow(V, S[calls + 1])
          /\ Contents(s) = Selected(Contents(seq), lo, hi, Stride(step))
      BY <1>1, <3>1, SliceFits
    <3> HIDE DEF s
    <3>3. RangeEqual(seq, s) <=> Contents(seq) = Contents(s)
      BY <3>1, <3>2, RangesEqual
    <3> QED BY <3>2, <3>3 DEF s
  <2>2. CASE seq.kind # "range"
    <3>1. seq.kind \in {"list", "tuple"}
      BY <2>2 DEF IsSequence
    <3>2. PICK kind \in {"list", "tuple"}, t \in Seq(Elem) : kind # "range" /\ seq = Plain(kind, t)
      <4>1. PICK t \in Seq(Elem) : seq = Plain(seq.kind, t)
        BY <3>1 DEF Exactly, Plainly
      <4> QED BY <3>1, <4>1
    <3>3. Operand(lo) /\ Operand(hi) /\ Stride(step) \in Int /\ Stride(step) # 0
      BY <1>1, OptionalIs, StrideIs
    <3>4. PICK u \in Seq(Elem) : u = Selected(t, lo, hi, Stride(step)) /\ s = Plain(kind, u)
      <4>1. /\ Slice(Plain(kind, t), lo, hi, step) = Plain(kind, Selected(t, lo, hi, Stride(step)))
            /\ Selected(t, lo, hi, Stride(step)) \in Seq(Elem)
        <5>1. kind # "range"
          OBVIOUS
        <5> QED BY <3>3, <5>1, PlainSlice
      <4> QED BY <3>2, <4>1
    <3>5. Contents(seq) = t /\ Contents(s) = u
      <4> HIDE DEF s
      <4> QED BY <3>2, <3>4, PlainContents
    <3> QED BY <2>2, <3>4, <3>5
  <2> QED BY <2>1, <2>2
<1>2. ASSUME seq.kind = "range", NEW v \in IndexArgs, IsInt32(v)
      PROVE  RangeHas(seq, v) <=> \E j \in DOMAIN Contents(seq) : Contents(seq)[j] = v
  <2>1. RangeOk(seq, V, S[calls]) /\ calls \in 0 .. Calls + 1
    BY <1>2, CallsTyped DEF Exactly
  <2>2. Narrow(V, S[calls])
    BY <2>1, FitsAt
  <2>3. v \in Int /\ -Limit < v - V /\ v + V < Limit
    BY <1>2, SlicingAssumption DEF Fits
  <2> QED BY <1>2, <2>1, <2>2, <2>3, RangeHasIs
<1> QED BY <1>1, <1>2, Zenon DEF SlicesExact

(* A slice of a list or a tuple of any length, and of a range whose        *)
(* numbers stay within the width of int, has the elements that the         *)
(* language specification selects (slice in eval.go, the Slice methods and *)
(* rangeLen), however often it was sliced before; and such ranges are      *)
(* equal and contain a value by what they list (rangeEqual, contains).     *)
THEOREM SlicesAreExact ==
  ASSUME NothingOverflows
  PROVE  SlicingSpec => []SlicesExact
<1>1. PICK V, S : Fits(V, S)
  BY DEF NothingOverflows
<1>2. SlicingInit => Exactly(V, S)
  BY <1>1, ExactlyInit
<1>3. Exactly(V, S) /\ [SlicingNext]_slicingVars => Exactly(V, S)'
  BY <1>1, ExactlyStep
<1>4. Exactly(V, S) => SlicesExact
  BY <1>1, SlicesAt
<1> QED BY <1>2, <1>3, <1>4, PTL DEF SlicingSpec

-----------------------------------------------------------------------------
(* A binary numeral, digit by digit. *)
LEMMA NumeralIs ==
  ASSUME NEW s \in Int, NEW d \in [Nat -> Int], NEW n \in Nat
  PROVE  \E f \in [0 .. n -> Int] :
           /\ f[0] = s /\ f[n] = Numeral(s, d, n)
           /\ \A k \in 1 .. n : f[k] = 2 * f[k - 1] + d[n - k]
<1> DEFINE S(g, k) == IF k = 0 THEN s ELSE 2 * g[k - 1] + d[n - k]
           Begins(m, g) == g = [k \in 0 .. m |-> S(g, k)]
           T == {m \in Nat : m <= n => \E g : Begins(m, g)}
<1>1. 0 \in T
  <2> DEFINE g == [k \in 0 .. 0 |-> s]
  <2>1. g = [k \in 0 .. 0 |-> S(g, k)]
    OBVIOUS
  <2> QED BY <2>1
<1>2. ASSUME NEW m \in Nat, m \in T PROVE m + 1 \in T
  <2> SUFFICES ASSUME m + 1 <= n PROVE \E g : Begins(m + 1, g)
    OBVIOUS
  <2>0. m <= n /\ m \in T
    BY <1>2
  <2>1. PICK f : Begins(m, f)
    BY <2>0
  <2>2. \A l \in 0 .. m : f[l] = S(f, l)
    BY <2>1
  <2> DEFINE last == 2 * f[m] + d[n - (m + 1)]
             g == [l \in 0 .. m + 1 |-> IF l = m + 1 THEN last ELSE f[l]]
  <2> HIDE DEF last
  <2>3. \A l \in 0 .. m : g[l] = f[l]
    OBVIOUS
  <2>4. g[m + 1] = last
    OBVIOUS
  <2>5. g = [l \in 0 .. m + 1 |-> g[l]]
    OBVIOUS
  <2> HIDE DEF g
  <2>6. ASSUME NEW l \in 0 .. m + 1 PROVE g[l] = S(g, l)
    <3>1. CASE l = m + 1
      <4>1. l # 0 /\ l - 1 = m /\ g[m] = f[m]
        BY <2>3, <3>1
      <4> QED BY <2>4, <3>1, <4>1 DEF last
    <3>2. CASE l # m + 1
      <4>1. l \in 0 .. m /\ (l # 0 => l - 1 \in 0 .. m)
        BY <3>2
      <4> QED BY <2>2, <2>3, <4>1
    <3> QED BY <3>1, <3>2
  <2> HIDE DEF S
  <2>7. g = [l \in 0 .. m + 1 |-> S(g, l)]
    BY <2>5, <2>6
  <2> QED BY <2>7
<1>3. Nat \subseteq T
  <2> HIDE DEF T
  <2> QED BY <1>1, <1>2, SetInduction
<1> DEFINE f == CHOOSE g : Begins(n, g)
<1>4. Begins(n, f)
  <2>1. \E g : Begins(n, g)
    BY <1>3
  <2> HIDE DEF Begins
  <2> QED BY <2>1, Zenon
<1>5. Numeral(s, d, n) = f[n]
  BY DEF Numeral
<1> HIDE DEF f
<1>6. \A k \in 0 .. n : f[k] = S(f, k)
  BY <1>4
<1> DEFINE U == {k \in Nat : k <= n => f[k] \in Int}
<1>7. 0 \in U
  BY <1>6
<1>8. ASSUME NEW k \in Nat, k \in U PROVE k + 1 \in U
  <2> SUFFICES ASSUME k + 1 <= n PROVE f[k + 1] \in Int
    OBVIOUS
  <2>1. k + 1 \in 0 .. n /\ k + 1 # 0 /\ (k + 1) - 1 = k /\ n - (k + 1) \in Nat
    OBVIOUS
  <2>2. f[k + 1] = 2 * f[k] + d[n - (k + 1)]
    BY <1>6, <2>1
  <2>3. f[k] \in Int /\ d[n - (k + 1)] \in Int
    BY <1>8, <2>1
  <2> QED BY <2>2, <2>3
<1>9. Nat \subseteq U
  <2> HIDE DEF U
  <2> QED BY <1>7, <1>8, SetInduction
<1>10. f \in [0 .. n -> Int]
  <2>1. DOMAIN f = 0 .. n /\ f = [k \in 0 .. n |-> f[k]]
    BY <1>4
  <2>2. \A k \in 0 .. n : f[k] \in Int
    BY <1>9
  <2> QED BY <2>1, <2>2
<1>11. f[0] = s /\ \A k \in 1 .. n : f[k] = 2 * f[k - 1] + d[n - k]
  BY <1>6
<1> QED BY <1>5, <1>10, <1>11

(* Powers of two. *)
LEMMA Pow2Is ==
  /\ Pow2(0) = 1
  /\ \A k \in Nat : Pow2(k) \in Int /\ Pow2(k + 1) = 2 * Pow2(k)
<1> DEFINE d == [j \in Nat |-> 0]
<1>1. d \in [Nat -> Int]
  OBVIOUS
<1>2. Pow2(0) = 1
  <2>1. PICK f \in [0 .. 0 -> Int] : f[0] = 1 /\ f[0] = Numeral(1, d, 0)
    <3>1. 0 \in Nat /\ 1 \in Int
      OBVIOUS
    <3> HIDE DEF d
    <3> QED BY <1>1, <3>1, NumeralIs, ZenonT(60)
  <2> QED BY <2>1 DEF Pow2
<1>3. ASSUME NEW k \in Nat PROVE Pow2(k) \in Int /\ Pow2(k + 1) = 2 * Pow2(k)
  <2>1. PICK f \in [0 .. k -> Int] :
          /\ f[0] = 1 /\ f[k] = Numeral(1, d, k)
          /\ \A l \in 1 .. k : f[l] = 2 * f[l - 1] + d[k - l]
    <3>1. 1 \in Int
      OBVIOUS
    <3> HIDE DEF d
    <3> QED BY <1>1, <3>1, NumeralIs
  <2>2. PICK g \in [0 .. k + 1 -> Int] :
          /\ g[0] = 1 /\ g[k + 1] = Numeral(1, d, k + 1)
          /\ \A l \in 1 .. k + 1 : g[l] = 2 * g[l - 1] + d[(k + 1) - l]
    <3>1. k + 1 \in Nat /\ 1 \in Int
      OBVIOUS
    <3> HIDE DEF d
    <3> QED BY <1>1, <3>1, NumeralIs
  <2>3. \A l \in 1 .. k : f[l] = 2 * f[l - 1]
    <3>1. \A l \in 1 .. k : k - l \in Nat /\ l - 1 \in 0 .. k
      OBVIOUS
    <3>2. \A l \in 1 .. k : f[l - 1] \in Int
      BY <3>1
    <3> QED BY <2>1, <3>1, <3>2, SMTT(60)
  <2>4. \A l \in 1 .. k + 1 : g[l] = 2 * g[l - 1]
    <3>1. \A l \in 1 .. k + 1 : (k + 1) - l \in Nat /\ l - 1 \in 0 .. k + 1
      OBVIOUS
    <3>2. \A l \in 1 .. k + 1 : g[l - 1] \in Int
      BY <3>1
    <3> QED BY <2>2, <3>1, <3>2, SMTT(60)
  <2>5. Pow2(k) = f[k] /\ Pow2(k + 1) = g[k + 1]
    BY <2>1, <2>2 DEF Pow2
  <2> HIDE DEF d
  <2> DEFINE T == {l \in Nat : l <= k => f[l] = g[l]}
  <2>6. 0 \in T
    BY <2>1, <2>2
  <2>7. ASSUME NEW l \in Nat, l \in T PROVE l + 1 \in T
    <3> SUFFICES ASSUME l + 1 <= k PROVE f[l + 1] = g[l + 1]
      OBVIOUS
    <3>1. PICK j \in 1 .. k : j = l + 1 /\ j - 1 = l /\ j \in 1 .. k + 1
      OBVIOUS
    <3>2. f[j] = 2 * f[l] /\ g[j] = 2 * g[l] /\ f[l] = g[l]
      BY <2>3, <2>4, <2>7, <3>1
    <3> QED BY <3>1, <3>2
  <2>8. Nat \subseteq T
    <3> HIDE DEF T
    <3> QED BY <2>6, <2>7, SetInduction
  <2>9. f[k] = g[k]
    BY <2>8
  <2>10. PICK l \in 1 .. k + 1 : l = k + 1 /\ l - 1 = k
    OBVIOUS
  <2> QED BY <2>4, <2>5, <2>9, <2>10
<1> QED BY <1>2, <1>3

LEMMA Pow2Grows ==
  /\ \A k \in Nat : Pow2(k) \in Nat /\ k < Pow2(k)
  /\ \A j, k \in Nat : j <= k => Pow2(j) <= Pow2(k)
<1> DEFINE T == {k \in Nat : Pow2(k) \in Nat /\ k < Pow2(k)}
<1>1. 0 \in T
  BY Pow2Is
<1>2. ASSUME NEW k \in Nat, k \in T PROVE k + 1 \in T
  <2>1. Pow2(k) \in Nat /\ k < Pow2(k) /\ Pow2(k + 1) = 2 * Pow2(k)
    BY <1>2, Pow2Is
  <2> QED BY <2>1
<1>3. Nat \subseteq T
  <2> HIDE DEF T
  <2> QED BY <1>1, <1>2, SetInduction
<1>4. \A k \in Nat : Pow2(k) \in Nat /\ k < Pow2(k)
  BY <1>3
<1>5. ASSUME NEW j \in Nat PROVE \A k \in Nat : j <= k => Pow2(j) <= Pow2(k)
  <2> DEFINE U == {k \in Nat : j <= k => Pow2(j) <= Pow2(k)}
  <2>1. 0 \in U
    BY <1>4
  <2>2. ASSUME NEW k \in Nat, k \in U PROVE k + 1 \in U
    <3> SUFFICES ASSUME j <= k + 1 PROVE Pow2(j) <= Pow2(k + 1)
      OBVIOUS
    <3>1. Pow2(k + 1) = 2 * Pow2(k) /\ Pow2(k) \in Nat /\ Pow2(j) \in Nat /\ Pow2(k + 1) \in Nat
      BY <1>4, Pow2Is
    <3>2. CASE j <= k
      <4>1. Pow2(j) <= Pow2(k)
        BY <2>2, <3>2
      <4> QED BY <3>1, <4>1
    <3>3. CASE ~(j <= k)
      <4>1. j = k + 1
        BY <3>3
      <4> QED BY <3>1, <4>1
    <3> QED BY <3>2, <3>3
  <2>3. Nat \subseteq U
    <3> HIDE DEF U
    <3> QED BY <2>1, <2>2, SetInduction
  <2> QED BY <2>3
<1> QED BY <1>4, <1>5

LEMMA Pow2Sum == ASSUME NEW j \in Nat PROVE \A k \in Nat : Pow2(j + k) = Pow2(j) * Pow2(k)
<1> DEFINE T == {k \in Nat : Pow2(j + k) = Pow2(j) * Pow2(k)}
<1>1. 0 \in T
  <2>1. Pow2(j) \in Int /\ j + 0 = j
    BY Pow2Is
  <2> QED BY <2>1, Pow2Is
<1>2. ASSUME NEW k \in Nat, k \in T PROVE k + 1 \in T
  <2>1. (j + k) + 1 = j + (k + 1) /\ j + k \in Nat
    OBVIOUS
  <2>2. Pow2((j + k) + 1) = 2 * Pow2(j + k) /\ Pow2(k + 1) = 2 * Pow2(k)
    BY <2>1, Pow2Is
  <2>3. Pow2(j + k) = Pow2(j) * Pow2(k)
    BY <1>2
  <2>4. Pow2(j) \in Int /\ Pow2(k) \in Int
    BY Pow2Is
  <2>5. \A u, v \in Int : u * (2 * v) = 2 * (u * v)
    OBVIOUS
  <2>6. Pow2(j) * (2 * Pow2(k)) = 2 * (Pow2(j) * Pow2(k))
    BY <2>4, <2>5
  <2>7. Pow2(j + (k + 1)) = Pow2(j) * Pow2(k + 1)
    BY <2>1, <2>2, <2>3, <2>6, Zenon
  <2> QED BY <2>7
<1>3. Nat \subseteq T
  <2> HIDE DEF T
  <2> QED BY <1>1, <1>2, SetInduction
<1> QED BY <1>3

-----------------------------------------------------------------------------
(* The bounds of small numbers and of words, by a power of two.  *)
Half == Pow2(SmallBits - 1)

LEMMA Widths ==
  /\ Half \in Nat /\ 1 <= Half
  /\ Low(SmallBits) = -Half /\ High(SmallBits) = Half - 1
  /\ Half * Half \in Nat /\ Half <= Half * Half
  /\ Low(2 * SmallBits) = -(2 * (Half * Half)) /\ Pow2(2 * SmallBits) = 4 * (Half * Half)
<1>1. PICK b \in Nat : b + 1 = SmallBits /\ b = SmallBits - 1
  BY NumbersAssumption
<1>2. PICK h \in Nat : h = Pow2(b) /\ b < h
  BY Pow2Grows
<1>3. Half = h
  BY <1>1, <1>2 DEF Half
<1>4. Low(SmallBits) = -h /\ High(SmallBits) = h - 1
  BY <1>1, <1>2 DEF Low, High
<1>5. h * h \in Nat /\ h <= h * h
  <2>1. h \in Nat /\ 1 <= h
    BY <1>2
  <2>2. \A u \in Nat : 1 <= u => u * u \in Nat /\ u <= u * u
    OBVIOUS
  <2> QED BY <2>1, <2>2
<1>6. Pow2(b + b) = h * h
  BY <1>2, Pow2Sum
<1>7. Pow2((b + b) + 1) = 2 * (h * h) /\ Pow2(((b + b) + 1) + 1) = 4 * (h * h)
  <2>1. b + b \in Nat /\ (b + b) + 1 \in Nat
    OBVIOUS
  <2>2. Pow2((b + b) + 1) = 2 * Pow2(b + b) /\ Pow2(((b + b) + 1) + 1) = 2 * Pow2((b + b) + 1)
    BY <2>1, Pow2Is
  <2>3. 2 * (2 * (h * h)) = 4 * (h * h)
    BY <1>5
  <2> QED BY <1>6, <2>2, <2>3
<1>8. 2 * SmallBits = ((b + b) + 1) + 1 /\ 2 * SmallBits - 1 = (b + b) + 1
  BY <1>1
<1>9. Low(2 * SmallBits) = -(2 * (h * h)) /\ Pow2(2 * SmallBits) = 4 * (h * h)
  BY <1>7, <1>8 DEF Low
<1>10. 1 <= h
  BY <1>2
<1> QED BY <1>3, <1>4, <1>5, <1>9, <1>10

(* What fits in a word is left alone. *)
LEMMA WordIs ==
  ASSUME NEW n \in Int, -(2 * (Half * Half)) <= n, n < 2 * (Half * Half)
  PROVE  Word(n) = n
<1>1. PICK w \in Nat : w = 2 * (Half * Half) /\ 1 <= w
  BY Widths
<1>2. Word(n) = ((n - (-w)) % (2 * w)) + (-w)
  <2>1. Low(2 * SmallBits) = -w /\ Pow2(2 * SmallBits) = 2 * w
    BY <1>1, Widths
  <2> QED BY <2>1 DEF Word
<1>3. PICK m \in Nat : m = n - (-w) /\ m < 2 * w
  BY <1>1
<1>4. m % (2 * w) = m
  <2>1. \A u \in Nat, v \in Nat : u < v => u % v = u
    OBVIOUS
  <2>2. 2 * w \in Nat
    OBVIOUS
  <2> QED BY <1>3, <2>1, <2>2
<1> QED BY <1>2, <1>3, <1>4

(* The small numbers. *)
LEMMA InBitsIs == ASSUME NEW n \in Int PROVE InBits(n, SmallBits) <=> -Half <= n /\ n <= Half - 1
BY Widths DEF InBits

LEMMA BitLenIs ==
  ASSUME NEW n \in Int
  PROVE  /\ BitLen(n) \in Nat
         /\ Magnitude(n) < Pow2(BitLen(n))
         /\ \A k \in Nat : k < BitLen(n) => Pow2(k) <= Magnitude(n)
<1>1. PICK m \in Nat : m = Magnitude(n) /\ m = IF n < 0 THEN -n ELSE n
  BY DEF Magnitude
<1> DEFINE S == {l \in Nat : m < Pow2(l)}
           Right(l) == l \in 0 .. m /\ m < Pow2(l) /\ \A k \in 0 .. l - 1 : m >= Pow2(k)
<1>2. m \in S
  BY Pow2Grows
<1>3. PICK l \in S : \A k \in S : l <= k
  <2>1. S \in SUBSET Nat /\ S # {}
    BY <1>2
  <2> HIDE DEF S
  <2> QED BY <2>1, LeastExists
<1>4. Right(l)
  <2>1. l \in Nat /\ m < Pow2(l) /\ l <= m
    BY <1>2, <1>3
  <2>2. ASSUME NEW k \in 0 .. l - 1 PROVE m >= Pow2(k)
    <3>1. k \in Nat /\ ~(l <= k)
      BY <2>1
    <3>2. Pow2(k) \in Nat
      BY <3>1, Pow2Grows
    <3> QED BY <1>3, <3>1, <3>2
  <2> QED BY <2>1, <2>2
<1>5. BitLen(n) = CHOOSE j \in 0 .. m : m < Pow2(j) /\ \A k \in 0 .. j - 1 : m >= Pow2(k)
  BY <1>1, Zenon DEF BitLen
<1>6. Right(BitLen(n))
  <2>1. BitLen(n) = CHOOSE j : Right(j)
    BY <1>5
  <2> HIDE DEF Right
  <2> QED BY <1>4, <2>1, Zenon
<1>7. \A k \in Nat : k < BitLen(n) => k \in 0 .. BitLen(n) - 1 /\ Pow2(k) \in Nat
  BY <1>6, Pow2Grows
<1>8. \A k \in Nat : k < BitLen(n) => Pow2(k) <= m
  BY <1>6, <1>7
<1> QED BY <1>1, <1>6, <1>8

LEMMA IsSmallIs == ASSUME NEW n \in Int PROVE IsSmall(n) <=> InBits(n, SmallBits)
<1>1. PICK b \in Nat : b + 1 = SmallBits /\ b = SmallBits - 1
  BY NumbersAssumption
<1>2. PICK h \in Nat : h = Pow2(b) /\ h = Half /\ 1 <= h
  BY <1>1, Widths DEF Half
<1>3. PICK l \in Nat : l = BitLen(n)
  BY BitLenIs
<1>4. PICK m \in Nat : m = Magnitude(n) /\ m = IF n < 0 THEN -n ELSE n
  BY DEF Magnitude
<1>5. m < Pow2(l) /\ Pow2(l) \in Nat /\ \A k \in Nat : k < l => Pow2(k) <= m
  BY <1>3, <1>4, BitLenIs, Pow2Grows
<1>6. l <= b <=> m < h
  <2>1. l <= b => Pow2(l) <= h
    BY <1>2, Pow2Grows
  <2>2. b < l => h <= m
    BY <1>2, <1>5
  <2> QED BY <1>5, <2>1, <2>2
<1>7. l <= b + 1 <=> m < 2 * h
  <2>1. Pow2(b + 1) = 2 * h
    BY <1>2, Pow2Is
  <2>2. l <= b + 1 => Pow2(l) <= 2 * h
    BY <2>1, Pow2Grows
  <2>3. b + 1 < l => 2 * h <= m
    BY <1>5, <2>1
  <2> QED BY <1>5, <2>2, <2>3
<1>8. IsSmall(n) <=> l < b + 1 \/ (l = b + 1 /\ n = -h)
  BY <1>1, <1>2, <1>3, Widths DEF IsSmall
<1>9. InBits(n, SmallBits) <=> -h <= n /\ n <= h - 1
  BY <1>2, InBitsIs
<1> QED BY <1>2, <1>4, <1>6, <1>7, <1>8, <1>9

(* The one representation of a number. *)
LEMMA OneRepresentation ==
  ASSUME NEW n \in Int
  PROVE  /\ MakeInt64(n) = [big |-> ~InBits(n, SmallBits), n |-> n]
         /\ MakeBigInt(n) = MakeInt64(n)
         /\ InBits(n, SmallBits) => Small(n) = MakeInt64(n)
         /\ Canonical(MakeInt64(n))
<1>1. MakeInt64(n) = [big |-> ~InBits(n, SmallBits), n |-> n]
  <2>1. CASE InBits(n, SmallBits)
    BY <2>1 DEF MakeInt64, Small
  <2>2. CASE ~InBits(n, SmallBits)
    BY <2>2 DEF MakeInt64, Big
  <2> QED BY <2>1, <2>2
<1>2. MakeBigInt(n) = MakeInt64(n)
  BY IsSmallIs, Zenon DEF MakeBigInt, MakeInt64
<1>3. InBits(n, SmallBits) => Small(n) = MakeInt64(n)
  BY DEF MakeInt64
<1>4. Canonical(MakeInt64(n))
  <2>1. MakeInt64(n).big = ~InBits(n, SmallBits) /\ MakeInt64(n).n = n
    BY <1>1
  <2> QED BY <2>1 DEF Canonical
<1> QED BY <1>1, <1>2, <1>3, <1>4
-----------------------------------------------------------------------------
(* Integers as programs have them. *)
IsInt(x) == x.n \in Int /\ x = MakeInt64(x.n)

LEMMA MadeIsInt == ASSUME NEW n \in Int PROVE IsInt(MakeInt64(n)) /\ MakeInt64(n).n = n
BY OneRepresentation DEF IsInt

LEMMA SmallIs ==
  ASSUME NEW x, IsInt(x)
  PROVE  x.big <=> ~(-Half <= x.n /\ x.n <= Half - 1)
<1>1. PICK m \in Int : m = x.n
  BY DEF IsInt
<1>2. x.big <=> ~InBits(m, SmallBits)
  <2>1. x = MakeInt64(m)
    BY <1>1, Zenon DEF IsInt
  <2>2. x = [big |-> ~InBits(m, SmallBits), n |-> m]
    BY <2>1, OneRepresentation, Zenon
  <2> QED BY <2>2
<1> QED BY <1>1, <1>2, InBitsIs

LEMMA SmallOnes ==
  ASSUME NEW x, IsInt(x), NEW y, IsInt(y)
  PROVE  ~OnBig(x, y) => /\ -Half <= x.n /\ x.n <= Half - 1
                         /\ -Half <= y.n /\ y.n <= Half - 1
BY SmallIs DEF OnBig

LEMMA WordMade ==
  ASSUME NEW n \in Int, -(2 * (Half * Half)) <= n, n < 2 * (Half * Half)
  PROVE  MakeInt64(Word(n)) = MakeInt64(n)
BY WordIs

LEMMA ProductBound ==
  ASSUME NEW h \in Nat, NEW a \in Int, NEW b \in Int, -h <= a, a <= h, -h <= b, b <= h
  PROVE  -(h * h) <= a * b /\ a * b <= h * h
<1>1. \A u, v, w \in Nat : u <= w /\ v <= w => u * v <= w * w /\ 0 <= u * v
  <2> TAKE u, v, w \in Nat
  <2> HAVE u <= w /\ v <= w
  <2>1. u * v <= w * v
    OBVIOUS
  <2>2. w * v <= w * w
    OBVIOUS
  <2>3. 0 <= u * v /\ u * v \in Int /\ w * v \in Int /\ w * w \in Int
    OBVIOUS
  <2> QED BY <2>1, <2>2, <2>3
<1>2. PICK u \in Nat, v \in Nat : (a = u \/ a = -u) /\ (b = v \/ b = -v) /\ u <= h /\ v <= h
  <2>1. \E u \in Nat : (a = u \/ a = -u) /\ u <= h
    <3>1. CASE a >= 0
      BY <3>1
    <3>2. CASE a < 0
      <4>1. -a \in Nat /\ a = -(-a) /\ -a <= h
        BY <3>2
      <4> QED BY <4>1
    <3> QED BY <3>1, <3>2
  <2>2. \E v \in Nat : (b = v \/ b = -v) /\ v <= h
    <3>1. CASE b >= 0
      BY <3>1
    <3>2. CASE b < 0
      <4>1. -b \in Nat /\ b = -(-b) /\ -b <= h
        BY <3>2
      <4> QED BY <4>1
    <3> QED BY <3>1, <3>2
  <2> QED BY <2>1, <2>2
<1>3. u * v <= h * h /\ 0 <= u * v /\ u * v \in Int /\ h * h \in Int
  BY <1>1, <1>2
<1>4. a * b = u * v \/ a * b = -(u * v)
  BY <1>2
<1> QED BY <1>3, <1>4

(* Sums, differences and products. *)
LEMMA SumsAre ==
  ASSUME NEW x, IsInt(x), NEW y, IsInt(y)
  PROVE  /\ Add(x, y) = MakeInt64(x.n + y.n)
         /\ Sub(x, y) = MakeInt64(x.n - y.n)
         /\ Mul(x, y) = MakeInt64(x.n * y.n)
<1>1. PICK a \in Int, b \in Int : a = x.n /\ b = y.n
  BY DEF IsInt
<1>2. PICK h \in Nat : h = Half /\ 1 <= h /\ h * h \in Nat /\ h <= h * h
  BY Widths
<1>3. CASE OnBig(x, y)
  <2>1. a + b \in Int /\ a - b \in Int /\ a * b \in Int
    OBVIOUS
  <2>2. /\ Add(x, y) = MakeBigInt(a + b) /\ Sub(x, y) = MakeBigInt(a - b)
        /\ Mul(x, y) = MakeBigInt(a * b)
    BY <1>1, <1>3, Zenon DEF Add, Sub, Mul
  <2> QED BY <1>1, <2>1, <2>2, OneRepresentation
<1>4. CASE ~OnBig(x, y)
  <2>1. -h <= a /\ a <= h - 1 /\ -h <= b /\ b <= h - 1
    BY <1>1, <1>2, <1>4, SmallOnes
  <2>2. -(2 * (h * h)) <= a + b /\ a + b < 2 * (h * h)
    BY <1>2, <2>1
  <2>3. -(2 * (h * h)) <= a - b /\ a - b < 2 * (h * h)
    BY <1>2, <2>1
  <2>4. -(2 * (h * h)) <= a * b /\ a * b < 2 * (h * h)
    <3>1. a <= h /\ b <= h
      BY <2>1
    <3>2. -(h * h) <= a * b /\ a * b <= h * h /\ a * b \in Int
      BY <2>1, <3>1, ProductBound
    <3> QED BY <1>2, <3>2
  <2>5. /\ MakeInt64(Word(a + b)) = MakeInt64(a + b) /\ MakeInt64(Word(a - b)) = MakeInt64(a - b)
        /\ MakeInt64(Word(a * b)) = MakeInt64(a * b)
    BY <1>2, <2>2, <2>3, <2>4, WordMade
  <2> QED BY <1>1, <1>4, <2>5, Zenon DEF Add, Sub, Mul
<1> QED BY <1>3, <1>4

LEMMA NegativeIs == ASSUME NEW x, IsInt(x) PROVE Negative(x) = MakeInt64(-x.n)
<1>1. IsInt(Small(0)) /\ Small(0).n = 0
  <2>1. InBits(0, SmallBits)
    BY Widths, InBitsIs
  <2>2. Small(0) = MakeInt64(0)
    BY <2>1, OneRepresentation
  <2> QED BY <2>2, MadeIsInt
<1>2. 0 - x.n = -x.n
  BY DEF IsInt
<1>3. Negative(x) = MakeInt64(0 - x.n)
  BY <1>1, SumsAre, Zenon DEF Negative
<1> QED BY <1>2, <1>3

LEMMA DivisionIs ==
  ASSUME NEW m \in Int, NEW n \in Nat, 1 <= n
  PROVE  /\ m \div n \in Int /\ m % n \in Int
         /\ m = n * (m \div n) + (m % n) /\ 0 <= m % n /\ m % n < n
OBVIOUS

LEMMA SignedProducts ==
  ASSUME NEW m \in Int, NEW n \in Int
  PROVE  /\ (-m) * n = -(m * n) /\ m * (-n) = -(m * n) /\ (-m) * (-n) = m * n
         /\ m * n \in Int
OBVIOUS

(* The corrected quotient and remainder; the quotient is rounded down. *)
Correction(a, b) == IF (a < 0) # (b < 0) /\ Remainder(a, b) # 0 THEN 1 ELSE 0
Corrected(a, b) == Quotient(a, b) - Correction(a, b)
Rest(a, b) == Remainder(a, b) + Correction(a, b) * b

LEMMA FloorIs ==
  ASSUME NEW a \in Int, NEW b \in Int, b # 0
  PROVE  LET q == Corrected(a, b)
             r == Rest(a, b)
         IN  /\ q \in Int /\ r \in Int /\ q * b + r = a
             /\ Magnitude(r) < Magnitude(b) /\ (r = 0 \/ (r < 0 <=> b < 0))
             /\ Magnitude(q) <= Magnitude(a)
<1> DEFINE c == Correction(a, b)
           q == Corrected(a, b)
           r == Rest(a, b)
<1>1. PICK A \in Nat : A = Magnitude(a) /\ ((a = A /\ a >= 0) \/ (a = -A /\ a < 0))
  BY DEF Magnitude
<1>2. PICK B \in Nat : B = Magnitude(b) /\ 1 <= B /\ ((b = B /\ b > 0) \/ (b = -B /\ b < 0))
  BY DEF Magnitude
<1>3. PICK D \in Int, R \in Int : D = A \div B /\ A = B * D + R /\ 0 <= R /\ R < B
  <2>1. A \in Int /\ B \in Nat /\ 1 <= B
    BY <1>2
  <2>2. /\ A \div B \in Int /\ A % B \in Int
        /\ A = B * (A \div B) + (A % B) /\ 0 <= A % B /\ A % B < B
    BY <2>1, DivisionIs, Zenon
  <2> QED BY <2>2, Zenon
<1>4. 0 <= D
  BY <1>2, <1>3
<1>5. PICK P \in Int : P = B * D /\ D <= P /\ A = P + R
  <2>1. \A u, v \in Nat : 1 <= u => v <= u * v
    OBVIOUS
  <2>2. D \in Nat /\ D <= B * D /\ B * D \in Int
    BY <1>2, <1>4, <2>1
  <2> QED BY <1>3, <2>2
<1>6. b * D = (IF b > 0 THEN P ELSE -P) /\ b * (-D) = (IF b > 0 THEN -P ELSE P)
  <2>1. /\ (-B) * D = -P /\ B * (-D) = -P /\ (-B) * (-D) = P
    BY <1>5, SignedProducts
  <2>2. CASE b > 0
    <3>1. b = B
      BY <1>2, <2>2
    <3> QED BY <1>5, <2>1, <2>2, <3>1
  <2>3. CASE ~(b > 0)
    <3>1. b = -B
      BY <1>2, <2>3
    <3>2. b * D = -P /\ b * (-D) = P
      BY <2>1, <3>1, Zenon
    <3> QED BY <2>3, <3>2
  <2> QED BY <2>2, <2>3
<1>7. Quotient(a, b) = (IF a < 0 <=> b < 0 THEN D ELSE -D)
  BY <1>1, <1>2, <1>3, Zenon DEF Quotient
<1>8. Remainder(a, b) = a - b * Quotient(a, b)
  BY DEF Remainder
<1>9. Remainder(a, b) = IF a < 0 THEN -R ELSE R
  <2>1. CASE a < 0 <=> b < 0
    <3>1. Remainder(a, b) = a - b * D
      BY <1>7, <1>8, <2>1
    <3> QED BY <1>1, <1>2, <1>5, <1>6, <2>1, <3>1
  <2>2. CASE ~(a < 0 <=> b < 0)
    <3>1. Remainder(a, b) = a - b * (-D)
      BY <1>7, <1>8, <2>2
    <3> QED BY <1>1, <1>2, <1>5, <1>6, <2>2, <3>1
  <2> QED BY <2>1, <2>2
<1>10. PICK Q \in Int, M \in Int : Q = Quotient(a, b) /\ M = Remainder(a, b)
  BY <1>7, <1>9
<1>11. c \in {0, 1} /\ (c = 1 <=> (a < 0) # (b < 0) /\ R # 0)
  BY <1>9 DEF Correction
<1>12. q \in Int /\ r \in Int
  BY <1>10, <1>11 DEF Corrected, Rest
<1>13. q * b + r = a
  <2>1. \A u, v, w, t \in Int : (u - w) * v + ((t - v * u) + w * v) = t
    OBVIOUS
  <2>2. q = Q - c /\ r = (a - b * Q) + c * b /\ c \in Int
    BY <1>8, <1>10, <1>11 DEF Corrected, Rest
  <2>3. (Q - c) * b + ((a - b * Q) + c * b) = a
    BY <2>1, <2>2
  <2> QED BY <2>2, <2>3
<1>14. c * b = IF c = 1 THEN b ELSE 0
  BY <1>11
<1>15. r = (IF a < 0 THEN -R ELSE R) + (IF c = 1 THEN b ELSE 0)
  BY <1>9, <1>14 DEF Rest
<1>16. -B < r /\ r < B /\ (r = 0 \/ (r < 0 <=> b < 0))
  BY <1>1, <1>2, <1>3, <1>11, <1>15
<1>17. -A <= q /\ q <= A
  <2>1. q = (IF a < 0 <=> b < 0 THEN D ELSE -D) - c
    BY <1>7 DEF Corrected
  <2>2. c = 1 => ~(a < 0 <=> b < 0) /\ D + 1 <= A
    BY <1>3, <1>5, <1>11
  <2>3. D <= A
    BY <1>3, <1>5
  <2> HIDE DEF c, q
  <2> QED BY <1>4, <1>11, <2>1, <2>2, <2>3
<1> HIDE DEF c, q, r
<1>18. Magnitude(r) < Magnitude(b) /\ Magnitude(q) <= Magnitude(a)
  BY <1>1, <1>2, <1>12, <1>16, <1>17 DEF Magnitude
<1> QED BY <1>12, <1>13, <1>16, <1>18 DEF q, r

(* Quotients and remainders. *)
Divides(x, y, q, r) ==
  /\ Div(x, y) = MakeInt64(q) /\ Mod(x, y) = MakeInt64(r) /\ q * y.n + r = x.n
  /\ Magnitude(r) < Magnitude(y.n) /\ (r = 0 \/ (r < 0 <=> y.n < 0))

LEMMA DivIs ==
  ASSUME NEW x, IsInt(x), NEW y, IsInt(y), y.n # 0
  PROVE  \E q, r \in Int : Divides(x, y, q, r)
<1>1. PICK a \in Int, b \in Int : a = x.n /\ b = y.n /\ b # 0
  BY DEF IsInt
<1> DEFINE q == Corrected(a, b)
           r == Rest(a, b)
<1>2. /\ q \in Int /\ r \in Int /\ q * b + r = a
      /\ Magnitude(r) < Magnitude(b) /\ (r = 0 \/ (r < 0 <=> b < 0))
      /\ Magnitude(q) <= Magnitude(a)
  BY <1>1, FloorIs
<1>3. Corrects(x, y) <=> (a < 0) # (b < 0) /\ Remainder(a, b) # 0
  BY <1>1 DEF Corrects
<1>4. q = Quotient(x.n, y.n) - (IF Corrects(x, y) THEN 1 ELSE 0)
  BY <1>1, <1>3 DEF Corrected, Correction
<1>5. r = Remainder(x.n, y.n) + (IF Corrects(x, y) THEN y.n ELSE 0)
  <2>1. Correction(a, b) * b = IF Corrects(x, y) THEN b ELSE 0
    BY <1>3 DEF Correction
  <2> QED BY <1>1, <2>1 DEF Rest
<1> HIDE DEF q, r
<1>6. /\ Div(x, y) = IF OnBig(x, y) THEN MakeBigInt(q) ELSE MakeInt64(Word(q))
      /\ Mod(x, y) = IF OnBig(x, y) THEN MakeBigInt(r) ELSE Small(r)
  BY <1>4, <1>5, Zenon DEF Div, Mod
<1>7. CASE OnBig(x, y)
  <2>1. Div(x, y) = MakeInt64(q) /\ Mod(x, y) = MakeInt64(r)
    BY <1>2, <1>6, <1>7, OneRepresentation
  <2> QED BY <1>1, <1>2, <2>1 DEF Divides
<1>8. CASE ~OnBig(x, y)
  <2>1. PICK h \in Nat : h = Half /\ 1 <= h /\ h * h \in Nat /\ h <= h * h
    BY Widths
  <2>2. -h <= a /\ a <= h - 1 /\ -h <= b /\ b <= h - 1
    BY <1>1, <1>8, <2>1, SmallOnes
  <2>3. -h <= q /\ q <= h /\ -h <= r /\ r <= h - 1
    BY <1>2, <2>2 DEF Magnitude
  <2>4. -(2 * (h * h)) <= q /\ q < 2 * (h * h)
    BY <1>2, <2>1, <2>3
  <2>5. MakeInt64(Word(q)) = MakeInt64(q)
    BY <1>2, <2>1, <2>4, WordMade
  <2>6. Small(r) = MakeInt64(r)
    BY <1>2, <2>1, <2>3, InBitsIs, OneRepresentation
  <2>7. Div(x, y) = MakeInt64(q) /\ Mod(x, y) = MakeInt64(r)
    BY <1>6, <1>8, <2>5, <2>6
  <2> QED BY <1>1, <1>2, <2>7 DEF Divides
<1> QED BY <1>7, <1>8
-----------------------------------------------------------------------------
(* The rest but bits: abs, shifts, comparison and conversion. *)
LEMMA AbsIs == ASSUME NEW x, IsInt(x) PROVE IsInt(Abs(x))
<1>1. x.n \in Int /\ -x.n \in Int
  BY DEF IsInt
<1>2. IsInt(Negative(x))
  BY <1>1, NegativeIs, MadeIsInt
<1> QED BY <1>2, Zenon DEF Abs

LEMMA ShiftsAre ==
  ASSUME NEW x, IsInt(x), NEW k \in 0 .. 2
  PROVE  /\ Lsh(x, k) = MakeInt64(x.n * Pow2(k))
         /\ Rsh(Lsh(x, k), k) = x
         /\ Rsh(x, k) = Div(x, MakeInt64(Pow2(k)))
<1>1. PICK a \in Int : a = x.n /\ x = MakeInt64(a)
  BY DEF IsInt
<1>2. PICK p \in {1, 2, 4} : p = Pow2(k)
  <2>1. Pow2(0) = 1 /\ Pow2(0 + 1) = 2 /\ Pow2((0 + 1) + 1) = 4
    BY Pow2Is
  <2> QED BY <2>1
<1>3. p \in Int /\ p # 0 /\ p > 0 /\ a * p \in Int /\ a \div p \in Int /\ (a * p) \div p = a
  BY <1>2
<1>4. Lsh(x, k) = MakeInt64(a * p)
  <2>1. Lsh(x, k) = MakeBigInt(a * p)
    BY <1>1, <1>2, Zenon DEF Lsh
  <2> QED BY <1>3, <2>1, OneRepresentation
<1>5. Lsh(x, k).n = a * p
  BY <1>3, <1>4, MadeIsInt
<1>6. Rsh(Lsh(x, k), k) = x
  <2>1. Rsh(Lsh(x, k), k) = MakeBigInt((a * p) \div p)
    BY <1>2, <1>5, Zenon DEF Rsh
  <2> QED BY <1>1, <1>3, <2>1, OneRepresentation
<1>7. Rsh(x, k) = MakeInt64(a \div p)
  <2>1. Rsh(x, k) = MakeBigInt(a \div p)
    BY <1>1, <1>2, Zenon DEF Rsh
  <2> QED BY <1>3, <2>1, OneRepresentation
<1>8. PICK q \in Int, r \in Int :
        /\ Div(x, MakeInt64(p)) = MakeInt64(q) /\ q * p + r = a
        /\ Magnitude(r) < Magnitude(p) /\ (r = 0 \/ (r < 0 <=> p < 0))
  <2>1. PICK m : m = MakeInt64(p) /\ IsInt(m) /\ m.n = p
    BY <1>3, MadeIsInt
  <2>2. m.n # 0
    BY <1>3, <2>1
  <2>3. PICK q \in Int, r \in Int : Divides(x, m, q, r)
    BY <2>1, <2>2, DivIs
  <2> QED BY <1>1, <2>1, <2>3 DEF Divides
<1>9. 0 <= r /\ r < p
  BY <1>3, <1>8 DEF Magnitude
<1>10. q = a \div p
  BY <1>2, <1>8, <1>9
<1> QED BY <1>1, <1>2, <1>4, <1>6, <1>7, <1>8, <1>10

LEMMA CmpIs == ASSUME NEW x, IsInt(x), NEW y, IsInt(y) PROVE Cmp(x, y) = Sign(x.n - y.n)
<1>1. CASE OnBig(x, y)
  BY <1>1 DEF Cmp
<1>2. CASE ~OnBig(x, y)
  <2>1. PICK h \in Nat : h = Half /\ 1 <= h /\ h * h \in Nat /\ h <= h * h
    BY Widths
  <2>2. PICK a \in Int, b \in Int : a = x.n /\ b = y.n
    BY DEF IsInt
  <2>3. -h <= a /\ a <= h - 1 /\ -h <= b /\ b <= h - 1
    BY <1>2, <2>1, <2>2, SmallOnes
  <2>4. a - b \in Int /\ -(2 * (h * h)) <= a - b /\ a - b < 2 * (h * h)
    BY <2>1, <2>3
  <2>5. Word(a - b) = a - b
    BY <2>1, <2>4, WordIs
  <2> QED BY <1>2, <2>2, <2>5, Zenon DEF Cmp
<1> QED BY <1>1, <1>2

LEMMA ConversionsAre ==
  ASSUME NEW x, IsInt(x)
  PROVE  /\ AsInt32(x) = AsInt(x, SmallBits, TRUE)
         /\ x.n >= 0 => MakeUint64(x.n) = x
<1>1. PICK a \in Int : a = x.n /\ x = MakeInt64(a)
  BY DEF IsInt
<1>2. x.big <=> ~InBits(a, SmallBits)
  BY <1>1, SmallIs, InBitsIs
<1>3. AsInt32(x) = AsInt(x, SmallBits, TRUE)
  BY <1>1, <1>2, Zenon DEF AsInt32, AsInt
<1>4. ASSUME a >= 0 PROVE MakeUint64(a) = x
  <2>1. PICK h \in Nat : h = Half /\ High(SmallBits) = h - 1
    BY Widths
  <2>2. a <= High(SmallBits) <=> InBits(a, SmallBits)
    BY <1>4, <2>1, InBitsIs
  <2> QED BY <1>1, <2>2, Zenon DEF MakeUint64, MakeInt64
<1> QED BY <1>1, <1>3, <1>4
-----------------------------------------------------------------------------
(* Binary digits. *)
Op == {"&", "|", "^"}
At(op, a, b, k) == BitOf(op, BitAt(a, k), BitAt(b, k))
Within(n, t) == -Pow2(t) <= n /\ n < Pow2(t)

LEMMA OneQuotient ==
  ASSUME NEW m \in Int, NEW n \in Nat, 1 <= n,
         NEW q \in Int, NEW r \in Int, m = n * q + r, 0 <= r, r < n
  PROVE  q = m \div n
OBVIOUS

LEMMA DigitIs ==
  ASSUME NEW n \in Int, NEW k \in Nat
  PROVE  /\ BitAt(n, k) \in {0, 1} /\ n \div Pow2(k) \in Int
         /\ n \div Pow2(k) = 2 * (n \div Pow2(k + 1)) + BitAt(n, k)
<1>1. PICK p \in Nat : p = Pow2(k) /\ 1 <= p /\ Pow2(k + 1) = 2 * p
  <2>1. Pow2(k) \in Nat /\ k < Pow2(k)
    BY Pow2Grows
  <2>2. Pow2(k + 1) = 2 * Pow2(k)
    BY Pow2Is
  <2>3. 1 <= Pow2(k)
    BY <2>1
  <2> QED BY <2>1, <2>2, <2>3
<1>2. PICK q \in Int, r \in Int : q = n \div p /\ n = p * q + r /\ 0 <= r /\ r < p
  BY <1>1, DivisionIs
<1>3. PICK u \in Int, c \in {0, 1} : q = 2 * u + c /\ c = q % 2
  <2>1. /\ q \div 2 \in Int /\ q % 2 \in Int
        /\ q = 2 * (q \div 2) + (q % 2) /\ 0 <= q % 2 /\ q % 2 < 2
    OBVIOUS
  <2>2. q % 2 \in {0, 1}
    BY <2>1
  <2> QED BY <2>1, <2>2
<1>4. BitAt(n, k) = c
  BY <1>1, <1>2, <1>3 DEF BitAt
<1>5. u = n \div (2 * p)
  <2>1. p * c \in Int /\ 0 <= p * c + r /\ p * c + r < 2 * p
    <3>1. p * c = IF c = 1 THEN p ELSE 0
      OBVIOUS
    <3> QED BY <1>1, <1>2, <3>1
  <2>2. n = (2 * p) * u + (p * c + r)
    <3>1. \A s, v, w \in Int : s * (2 * v + w) = (2 * s) * v + s * w
      OBVIOUS
    <3>2. p * (2 * u + c) = (2 * p) * u + p * c
      BY <1>3, <3>1
    <3>3. n = p * (2 * u + c) + r
      BY <1>2, <1>3
    <3>4. (2 * p) * u \in Int
      OBVIOUS
    <3>5. \A v, w \in Int : (v + w) + r = v + (w + r)
      OBVIOUS
    <3>6. ((2 * p) * u + p * c) + r = (2 * p) * u + (p * c + r)
      BY <2>1, <3>4, <3>5
    <3> QED BY <3>2, <3>3, <3>6, Zenon
  <2>3. 2 * p \in Nat /\ 1 <= 2 * p
    BY <1>1
  <2>4. p * c + r \in Int
    BY <2>1
  <2> QED BY <2>1, <2>2, <2>3, <2>4, OneQuotient
<1> QED BY <1>1, <1>2, <1>3, <1>4, <1>5

(* The digits that precede a number of so many are all alike. *)
LEMMA SignIs ==
  ASSUME NEW n \in Int, NEW t \in Nat, Within(n, t), NEW k \in Nat, t <= k
  PROVE  Within(n, k) /\ n \div Pow2(k) = -BitAt(n, k)
<1>1. PICK p \in Nat : p = Pow2(k) /\ 1 <= p /\ Pow2(t) <= p /\ Pow2(t) \in Nat
  BY Pow2Grows
<1>2. -p <= n /\ n < p
  BY <1>1 DEF Within
<1>3. CASE n >= 0
  <2>1. n = p * 0 + n
    OBVIOUS
  <2>2. 0 = n \div p
    BY <1>1, <1>2, <1>3, <2>1, OneQuotient
  <2> QED BY <1>1, <1>2, <2>2 DEF BitAt, Within
<1>4. CASE n < 0
  <2>1. n = p * (-1) + (n + p) /\ n + p \in Int /\ 0 <= n + p /\ n + p < p /\ -1 \in Int
    BY <1>2, <1>4
  <2>2. -1 = n \div p
    BY <1>1, <2>1, OneQuotient
  <2>3. PICK q \in Int : q = -1 /\ q % 2 = 1
    OBVIOUS
  <2> QED BY <1>1, <1>2, <2>2, <2>3 DEF BitAt, Within
<1> QED BY <1>3, <1>4

LEMMA NotDigit ==
  ASSUME NEW n \in Int, NEW k \in Nat
  PROVE  BitAt(-n - 1, k) = 1 - BitAt(n, k)
<1>1. PICK p \in Nat : p = Pow2(k) /\ 1 <= p
  BY Pow2Grows
<1>2. PICK q \in Int, r \in Int : q = n \div p /\ n = p * q + r /\ 0 <= r /\ r < p
  BY <1>1, DivisionIs
<1>3. -1 - q = (-n - 1) \div p
  <2>1. -n - 1 = p * (-1 - q) + ((p - r) - 1)
    <3>1. \A u, v \in Int : u * (-1 - v) = -(u * v) - u /\ u * v \in Int
      OBVIOUS
    <3>2. p * (-1 - q) = -(p * q) - p /\ p * q \in Int
      BY <3>1
    <3> QED BY <1>2, <3>2
  <2>2. /\ -n - 1 \in Int /\ -1 - q \in Int /\ (p - r) - 1 \in Int
        /\ 0 <= (p - r) - 1 /\ (p - r) - 1 < p
    BY <1>2
  <2> QED BY <1>1, <2>1, <2>2, OneQuotient
<1>4. (-1 - q) % 2 = 1 - (q % 2)
  OBVIOUS
<1> QED BY <1>1, <1>2, <1>3, <1>4 DEF BitAt

LEMMA BitOps ==
  ASSUME NEW a \in {0, 1}, NEW b \in {0, 1}
  PROVE  /\ \A op \in Op : BitOf(op, a, b) \in {0, 1}
         /\ BitOf("&", a, b) + BitOf("|", a, b) = a + b
         /\ BitOf("^", a, b) = BitOf("|", a, b) - BitOf("&", a, b)
         /\ BitOf("&", a, b) = 1 - BitOf("|", 1 - a, 1 - b)
<1>1. BitOf("&", a, b) = a * b
  BY DEF BitOf
<1>2. \A c, d \in {0, 1} : BitOf("|", c, d) = IF c + d > 0 THEN 1 ELSE 0
  BY DEF BitOf
<1>3. BitOf("^", a, b) = (a + b) % 2
  BY DEF BitOf
<1>4. a * b \in {0, 1} /\ a * b = (IF a = 1 /\ b = 1 THEN 1 ELSE 0)
  OBVIOUS
<1>5. (a + b) % 2 = IF a = b THEN 0 ELSE 1
  OBVIOUS
<1>6. 1 - a \in {0, 1} /\ 1 - b \in {0, 1}
  OBVIOUS
<1>7. BitOf("|", 1 - a, 1 - b) = IF (1 - a) + (1 - b) > 0 THEN 1 ELSE 0
  BY <1>2, <1>6
<1> QED BY <1>1, <1>2, <1>3, <1>4, <1>5, <1>7 DEF Op

LEMMA DigitOps ==
  ASSUME NEW a \in Int, NEW b \in Int, NEW k \in Nat
  PROVE  /\ \A op \in Op : At(op, a, b, k) \in {0, 1}
         /\ At("&", a, b, k) + At("|", a, b, k) = BitAt(a, k) + BitAt(b, k)
         /\ At("^", a, b, k) = At("|", a, b, k) - At("&", a, b, k)
         /\ At("&", a, b, k) = 1 - At("|", -a - 1, -b - 1, k)
<1>1. BitAt(a, k) \in {0, 1} /\ BitAt(b, k) \in {0, 1}
  BY DigitIs
<1>2. BitAt(-a - 1, k) = 1 - BitAt(a, k) /\ BitAt(-b - 1, k) = 1 - BitAt(b, k)
  BY NotDigit
<1> QED BY <1>1, <1>2, BitOps, Zenon DEF At
-----------------------------------------------------------------------------
(* The digits of the result, from the first. *)
Runs(op, a, b, t, f) ==
  /\ f \in [0 .. t -> Int]
  /\ f[0] = -At(op, a, b, t) /\ f[t] = UpToBit(op, a, b, t)
  /\ \A k \in 1 .. t : f[k] = 2 * f[k - 1] + At(op, a, b, t - k)

LEMMA RunExists ==
  ASSUME NEW op \in Op, NEW a \in Int, NEW b \in Int, NEW t \in Nat
  PROVE  \E f : Runs(op, a, b, t, f)
<1> DEFINE d == [k \in Nat |-> At(op, a, b, k)]
           s == -At(op, a, b, t)
<1>1. \A k \in Nat : At(op, a, b, k) \in {0, 1}
  BY DigitOps
<1>2. d \in [Nat -> Int] /\ s \in Int
  BY <1>1
<1>3. UpToBit(op, a, b, t) = Numeral(s, d, t)
  BY DEF UpToBit, At
<1>4. \A k \in 1 .. t : t - k \in Nat /\ d[t - k] = At(op, a, b, t - k)
  OBVIOUS
<1> HIDE DEF d, s
<1>5. PICK f \in [0 .. t -> Int] :
        /\ f[0] = s /\ f[t] = Numeral(s, d, t)
        /\ \A k \in 1 .. t : f[k] = 2 * f[k - 1] + d[t - k]
  BY <1>2, NumeralIs
<1>6. Runs(op, a, b, t, f)
  BY <1>3, <1>4, <1>5 DEF Runs, s
<1> QED BY <1>6

(* One digit more does not change it. *)
LEMMA OneMore ==
  ASSUME NEW op \in Op, NEW a \in Int, NEW b \in Int, NEW t \in Nat, Within(a, t), Within(b, t)
  PROVE  UpToBit(op, a, b, t + 1) = UpToBit(op, a, b, t)
<1>1. t + 1 \in Nat
  OBVIOUS
<1>2. PICK f : Runs(op, a, b, t, f)
  BY RunExists
<1>3. PICK g : Runs(op, a, b, t + 1, g)
  BY <1>1, RunExists
<1>4. At(op, a, b, t + 1) = At(op, a, b, t)
  <2>1. ASSUME NEW n \in Int, Within(n, t) PROVE BitAt(n, t + 1) = BitAt(n, t)
    <3>1. n \div Pow2(t) = -BitAt(n, t)
      BY <2>1, SignIs
    <3>2. n \div Pow2(t + 1) = -BitAt(n, t + 1)
      BY <1>1, <2>1, SignIs
    <3>3. n \div Pow2(t) = 2 * (n \div Pow2(t + 1)) + BitAt(n, t)
      BY DigitIs
    <3>4. BitAt(n, t) \in {0, 1} /\ BitAt(n, t + 1) \in {0, 1}
      BY <1>1, DigitIs
    <3> QED BY <3>1, <3>2, <3>3, <3>4
  <2> QED BY <2>1 DEF At
<1>5. At(op, a, b, t) \in {0, 1}
  BY DigitOps
<1>6. f[0] = -At(op, a, b, t) /\ f[t] = UpToBit(op, a, b, t) /\ f \in [0 .. t -> Int]
  BY <1>2 DEF Runs
<1>7. g[0] = -At(op, a, b, t + 1) /\ g[t + 1] = UpToBit(op, a, b, t + 1)
  BY <1>3 DEF Runs
<1>8. \A k \in 0 .. t : g[k + 1] = 2 * g[k] + At(op, a, b, t - k)
  <2> TAKE k \in 0 .. t
  <2>1. PICK l \in 1 .. t + 1 : l = k + 1 /\ l - 1 = k /\ (t + 1) - l = t - k
    OBVIOUS
  <2>2. g[l] = 2 * g[l - 1] + At(op, a, b, (t + 1) - l)
    BY <1>3 DEF Runs
  <2> QED BY <2>1, <2>2
<1>9. \A k \in 1 .. t : f[k] = 2 * f[k - 1] + At(op, a, b, t - k)
  BY <1>2 DEF Runs
<1> DEFINE T == {k \in Nat : k <= t => g[k + 1] = f[k]}
<1>10. 0 \in T
  <2>1. 0 \in 0 .. t /\ t - 0 = t
    OBVIOUS
  <2>2. g[0 + 1] = 2 * g[0] + At(op, a, b, t)
    BY <1>8, <2>1
  <2> QED BY <1>4, <1>5, <1>6, <1>7, <2>2
<1>11. ASSUME NEW k \in Nat, k \in T PROVE k + 1 \in T
  <2> SUFFICES ASSUME k + 1 <= t PROVE g[(k + 1) + 1] = f[k + 1]
    OBVIOUS
  <2>1. k + 1 \in 0 .. t /\ k + 1 \in 1 .. t /\ (k + 1) - 1 = k
    OBVIOUS
  <2>2. g[k + 1] = f[k]
    BY <1>11, <2>1
  <2>3. g[(k + 1) + 1] = 2 * g[k + 1] + At(op, a, b, t - (k + 1))
    BY <1>8, <2>1
  <2>4. f[k + 1] = 2 * f[k] + At(op, a, b, t - (k + 1))
    BY <1>9, <2>1
  <2> QED BY <2>2, <2>3, <2>4
<1>12. Nat \subseteq T
  <2> HIDE DEF T
  <2> QED BY <1>10, <1>11, SetInduction
<1>13. g[t + 1] = f[t]
  BY <1>12
<1> QED BY <1>6, <1>7, <1>13

LEMMA AnyMore ==
  ASSUME NEW op \in Op, NEW a \in Int, NEW b \in Int, NEW t \in Nat, Within(a, t), Within(b, t)
  PROVE  \A c \in Nat : UpToBit(op, a, b, t + c) = UpToBit(op, a, b, t)
<1> DEFINE T == {c \in Nat : UpToBit(op, a, b, t + c) = UpToBit(op, a, b, t)}
<1>1. 0 \in T
  BY t + 0 = t
<1>2. ASSUME NEW c \in Nat, c \in T PROVE c + 1 \in T
  <2>1. t + c \in Nat /\ t <= t + c /\ (t + c) + 1 = t + (c + 1)
    OBVIOUS
  <2>2. Within(a, t + c) /\ Within(b, t + c)
    BY <2>1, SignIs
  <2>3. UpToBit(op, a, b, (t + c) + 1) = UpToBit(op, a, b, t + c)
    BY <2>1, <2>2, OneMore
  <2> QED BY <1>2, <2>1, <2>3
<1>3. Nat \subseteq T
  <2> HIDE DEF T
  <2> QED BY <1>1, <1>2, SetInduction
<1> QED BY <1>3

LEMMA LengthEnough ==
  ASSUME NEW n \in Int, NEW t \in Nat, BitLen(n) <= t
  PROVE  Within(n, t)
<1>1. BitLen(n) \in Nat /\ Magnitude(n) < Pow2(BitLen(n))
  BY BitLenIs
<1>2. PICK p \in Nat : p = Pow2(t) /\ Pow2(BitLen(n)) <= p /\ Pow2(BitLen(n)) \in Nat
  BY <1>1, Pow2Grows
<1>3. PICK m \in Nat : m = Magnitude(n) /\ m = IF n < 0 THEN -n ELSE n
  BY DEF Magnitude
<1>4. m < p
  BY <1>1, <1>2, <1>3
<1> QED BY <1>2, <1>3, <1>4 DEF Within

(* The digits of both numbers are enough. *)
LEMMA OnBitsIs ==
  ASSUME NEW op \in Op, NEW a \in Int, NEW b \in Int, NEW t \in Nat, Within(a, t), Within(b, t)
  PROVE  OnBits(op, a, b) = UpToBit(op, a, b, t)
<1>1. PICK u \in Nat : u = BitLen(a) + BitLen(b) /\ BitLen(a) <= u /\ BitLen(b) <= u
  BY BitLenIs
<1>2. Within(a, u) /\ Within(b, u)
  BY <1>1, LengthEnough
<1>3. UpToBit(op, a, b, t + u) = UpToBit(op, a, b, t)
  BY AnyMore
<1>4. UpToBit(op, a, b, u + t) = UpToBit(op, a, b, u)
  BY <1>2, AnyMore
<1>5. t + u = u + t
  OBVIOUS
<1> QED BY <1>1, <1>3, <1>4, <1>5, Zenon DEF OnBits

LEMMA WithinBoth == ASSUME NEW a \in Int, NEW b \in Int PROVE \E t \in Nat : Within(a, t) /\ Within(b, t)
<1>1. PICK u \in Nat : u = BitLen(a) + BitLen(b) /\ BitLen(a) <= u /\ BitLen(b) <= u
  BY BitLenIs
<1> QED BY <1>1, LengthEnough

LEMMA RunStaysWithin ==
  ASSUME NEW op \in Op, NEW a \in Int, NEW b \in Int, NEW t \in Nat
  PROVE  UpToBit(op, a, b, t) \in Int /\ Within(UpToBit(op, a, b, t), t)
<1>1. PICK f : Runs(op, a, b, t, f)
  BY RunExists
<1>2. \A k \in Nat : At(op, a, b, k) \in {0, 1}
  BY DigitOps
<1>3. /\ f \in [0 .. t -> Int] /\ f[0] = -At(op, a, b, t) /\ f[t] = UpToBit(op, a, b, t)
      /\ \A k \in 1 .. t : f[k] = 2 * f[k - 1] + At(op, a, b, t - k)
  BY <1>1 DEF Runs
<1> DEFINE T == {k \in Nat : k <= t => Within(f[k], k)}
<1>4. 0 \in T
  <2>1. Pow2(0) = 1
    BY Pow2Is
  <2>2. PICK c \in {0, 1} : c = At(op, a, b, t)
    BY <1>2
  <2>3. f[0] = -c /\ -1 <= -c /\ -c < 1
    BY <1>3, <2>2
  <2>4. Within(f[0], 0)
    BY <2>1, <2>3 DEF Within
  <2> QED BY <2>4
<1>5. ASSUME NEW k \in Nat, k \in T PROVE k + 1 \in T
  <2> SUFFICES ASSUME k + 1 <= t PROVE Within(f[k + 1], k + 1)
    OBVIOUS
  <2>1. PICK l \in 1 .. t : l = k + 1 /\ l - 1 = k /\ t - l \in Nat /\ k \in 0 .. t
    OBVIOUS
  <2>2. PICK v \in Int : v = f[k]
    BY <1>3, <2>1
  <2>3. PICK c \in {0, 1} : c = At(op, a, b, t - l)
    BY <1>2, <2>1
  <2>4. f[l] = 2 * v + c
    BY <1>3, <2>1, <2>2, <2>3
  <2>5. Within(v, k)
    BY <1>5, <2>1, <2>2
  <2>6. PICK p \in Int : p = Pow2(k) /\ Pow2(k + 1) = 2 * p
    BY Pow2Is
  <2>7. -p <= v /\ v < p
    BY <2>5, <2>6 DEF Within
  <2>8. -(2 * p) <= 2 * v + c /\ 2 * v + c < 2 * p
    BY <2>7
  <2> QED BY <2>1, <2>4, <2>6, <2>8 DEF Within
<1>6. Nat \subseteq T
  <2> HIDE DEF T
  <2> QED BY <1>4, <1>5, SetInduction
<1>7. Within(f[t], t) /\ f[t] \in Int
  BY <1>3, <1>6
<1> QED BY <1>3, <1>7

(* What holds of the digits and of the numbers before them holds with them. *)
LEMMA SumsOfDigits ==
  ASSUME NEW i \in Int, NEW u \in Int, NEW x \in Int, NEW n \in Int, NEW c \in Int, NEW d \in Int,
         i + u = c + d, x = u - i, i = 1 - n,
         NEW v \in Int, NEW w \in Int, NEW y \in Int, NEW z \in Int, NEW p \in Int, NEW q \in Int,
         v + w = p + q, y = w - v, v = -1 - z
  PROVE  /\ (2 * v + i) + (2 * w + u) = (2 * p + c) + (2 * q + d)
         /\ 2 * y + x = (2 * w + u) - (2 * v + i) /\ 2 * v + i = -1 - (2 * z + n)
OBVIOUS

LEMMA FirstDigits ==
  ASSUME NEW i \in Int, NEW u \in Int, NEW x \in Int, NEW n \in Int, NEW c \in Int, NEW d \in Int,
         i + u = c + d, x = u - i, i = 1 - n
  PROVE  -i + (-u) = -c + (-d) /\ -x = (-u) - (-i) /\ -i = -1 - (-n)
OBVIOUS

LEMMA RunsTogether ==
  ASSUME NEW a \in Int, NEW b \in Int, NEW t \in Nat, Within(a, t), Within(b, t)
  PROVE  /\ UpToBit("&", a, b, t) + UpToBit("|", a, b, t) = a + b
         /\ UpToBit("^", a, b, t) = UpToBit("|", a, b, t) - UpToBit("&", a, b, t)
         /\ UpToBit("&", a, b, t) = -1 - UpToBit("|", -a - 1, -b - 1, t)
<1>0. "&" \in Op /\ "|" \in Op /\ "^" \in Op /\ -a - 1 \in Int /\ -b - 1 \in Int
  BY DEF Op
<1>1. PICK f : Runs("&", a, b, t, f)
  BY <1>0, RunExists
<1>2. PICK g : Runs("|", a, b, t, g)
  BY <1>0, RunExists
<1>3. PICK h : Runs("^", a, b, t, h)
  BY <1>0, RunExists
<1>4. PICK e : Runs("|", -a - 1, -b - 1, t, e)
  BY <1>0, RunExists
<1> DEFINE I(k) == At("&", a, b, k)
           U(k) == At("|", a, b, k)
           X(k) == At("^", a, b, k)
           N(k) == At("|", -a - 1, -b - 1, k)
           A(k) == a \div Pow2(k)
           B(k) == b \div Pow2(k)
<1>5. \A k \in Nat : /\ I(k) \in {0, 1} /\ U(k) \in {0, 1} /\ X(k) \in {0, 1} /\ N(k) \in {0, 1}
                     /\ I(k) + U(k) = BitAt(a, k) + BitAt(b, k)
                     /\ X(k) = U(k) - I(k) /\ I(k) = 1 - N(k)
  BY <1>0, DigitOps
<1>6. \A k \in Nat : /\ A(k) \in Int /\ BitAt(a, k) \in {0, 1} /\ A(k) = 2 * A(k + 1) + BitAt(a, k)
                     /\ B(k) \in Int /\ BitAt(b, k) \in {0, 1} /\ B(k) = 2 * B(k + 1) + BitAt(b, k)
  BY DigitIs
<1>7. A(t) = -BitAt(a, t) /\ B(t) = -BitAt(b, t)
  BY SignIs
<1>8. A(0) = a /\ B(0) = b
  <2>1. Pow2(0) = 1
    BY Pow2Is
  <2>2. a \div 1 = a /\ b \div 1 = b
    OBVIOUS
  <2> QED BY <2>1, <2>2
<1>9. /\ f \in [0 .. t -> Int] /\ f[0] = -I(t) /\ f[t] = UpToBit("&", a, b, t)
      /\ \A k \in 1 .. t : f[k] = 2 * f[k - 1] + I(t - k)
  BY <1>1, Zenon DEF Runs
<1>10. /\ g \in [0 .. t -> Int] /\ g[0] = -U(t) /\ g[t] = UpToBit("|", a, b, t)
       /\ \A k \in 1 .. t : g[k] = 2 * g[k - 1] + U(t - k)
  BY <1>2, Zenon DEF Runs
<1>11. /\ h \in [0 .. t -> Int] /\ h[0] = -X(t) /\ h[t] = UpToBit("^", a, b, t)
       /\ \A k \in 1 .. t : h[k] = 2 * h[k - 1] + X(t - k)
  BY <1>3, Zenon DEF Runs
<1>12. /\ e \in [0 .. t -> Int] /\ e[0] = -N(t) /\ e[t] = UpToBit("|", -a - 1, -b - 1, t)
       /\ \A k \in 1 .. t : e[k] = 2 * e[k - 1] + N(t - k)
  BY <1>4, Zenon DEF Runs
<1> HIDE DEF I, U, X, N, A, B
<1> DEFINE Good(k) == /\ f[k] + g[k] = A(t - k) + B(t - k)
                      /\ h[k] = g[k] - f[k] /\ f[k] = -1 - e[k]
           T == {k \in Nat : k <= t => Good(k)}
<1>13. 0 \in T
  <2>1. t - 0 = t /\ 0 \in 0 .. t
    OBVIOUS
  <2>2. f[0] + g[0] = A(t) + B(t) /\ h[0] = g[0] - f[0] /\ f[0] = -1 - e[0]
    <3>1. PICK i \in Int, u \in Int, x \in Int, n \in Int, c \in Int, d \in Int :
            /\ i = I(t) /\ u = U(t) /\ x = X(t) /\ n = N(t) /\ c = BitAt(a, t) /\ d = BitAt(b, t)
            /\ i + u = c + d /\ x = u - i /\ i = 1 - n
      <4>1. /\ I(t) \in Int /\ U(t) \in Int /\ X(t) \in Int /\ N(t) \in Int
            /\ I(t) + U(t) = BitAt(a, t) + BitAt(b, t) /\ X(t) = U(t) - I(t) /\ I(t) = 1 - N(t)
        BY <1>5
      <4>2. BitAt(a, t) \in Int /\ BitAt(b, t) \in Int
        BY <1>6
      <4> QED BY <4>1, <4>2, Zenon
    <3>2. f[0] = -i /\ g[0] = -u /\ h[0] = -x /\ e[0] = -n /\ A(t) = -c /\ B(t) = -d
      BY <1>7, <1>9, <1>10, <1>11, <1>12, <3>1
    <3>3. -i + (-u) = -c + (-d) /\ -x = (-u) - (-i) /\ -i = -1 - (-n)
      BY <3>1, FirstDigits
    <3> QED BY <3>2, <3>3
  <2> QED BY <2>1, <2>2
<1>14. ASSUME NEW k \in Nat, k \in T PROVE k + 1 \in T
  <2> SUFFICES ASSUME k + 1 <= t PROVE Good(k + 1)
    OBVIOUS
  <2>1. PICK l \in 1 .. t, j \in Nat : l = k + 1 /\ l - 1 = k /\ j = t - l /\ t - k = j + 1 /\ k \in 0 .. t
    OBVIOUS
  <2>2. Good(k)
    BY <1>14, <2>1
  <2>3. /\ f[l] = 2 * f[k] + I(j) /\ g[l] = 2 * g[k] + U(j)
        /\ h[l] = 2 * h[k] + X(j) /\ e[l] = 2 * e[k] + N(j)
    BY <1>9, <1>10, <1>11, <1>12, <2>1
  <2>4. PICK v \in Int, w \in Int, y \in Int, z \in Int :
          v = f[k] /\ w = g[k] /\ y = h[k] /\ z = e[k]
    BY <1>9, <1>10, <1>11, <1>12, <2>1
  <2>5. PICK i \in Int, u \in Int, x \in Int, n \in Int, c \in Int, d \in Int :
          /\ i = I(j) /\ u = U(j) /\ x = X(j) /\ n = N(j) /\ c = BitAt(a, j) /\ d = BitAt(b, j)
          /\ i + u = c + d /\ x = u - i /\ i = 1 - n
    <3>1. /\ I(j) \in Int /\ U(j) \in Int /\ X(j) \in Int /\ N(j) \in Int
          /\ I(j) + U(j) = BitAt(a, j) + BitAt(b, j) /\ X(j) = U(j) - I(j) /\ I(j) = 1 - N(j)
      BY <1>5
    <3>2. BitAt(a, j) \in Int /\ BitAt(b, j) \in Int
      BY <1>6
    <3> QED BY <3>1, <3>2, Zenon
  <2>6. PICK p \in Int, q \in Int :
          /\ p = A(j + 1) /\ q = B(j + 1) /\ A(j) = 2 * p + c /\ B(j) = 2 * q + d
    <3>1. j + 1 \in Nat
      OBVIOUS
    <3> QED BY <1>6, <2>5, <3>1
  <2>7. v + w = p + q /\ y = w - v /\ v = -1 - z
    BY <2>1, <2>2, <2>4, <2>6
  <2>8. /\ (2 * v + i) + (2 * w + u) = (2 * p + c) + (2 * q + d)
        /\ 2 * y + x = (2 * w + u) - (2 * v + i) /\ 2 * v + i = -1 - (2 * z + n)
    BY <2>5, <2>7, SumsOfDigits
  <2>9. f[l] + g[l] = A(j) + B(j) /\ h[l] = g[l] - f[l] /\ f[l] = -1 - e[l]
    BY <2>3, <2>4, <2>5, <2>6, <2>8, Zenon
  <2> QED BY <2>1, <2>9
<1>15. Nat \subseteq T
  <2> HIDE DEF T
  <2> QED BY <1>13, <1>14, SetInduction
<1>16. Good(t)
  BY <1>15
<1>17. t - t = 0
  OBVIOUS
<1> QED BY <1>8, <1>9, <1>10, <1>11, <1>12, <1>16, <1>17

(* The bit operations on integers. *)
LEMMA OnBitsAre ==
  ASSUME NEW a \in Int, NEW b \in Int
  PROVE  /\ \A op \in Op : OnBits(op, a, b) \in Int
         /\ OnBits("&", a, b) + OnBits("|", a, b) = a + b
         /\ OnBits("^", a, b) = OnBits("|", a, b) - OnBits("&", a, b)
         /\ OnBits("&", a, b) = -1 - OnBits("|", -a - 1, -b - 1)
<1>0. "&" \in Op /\ "|" \in Op /\ "^" \in Op /\ -a - 1 \in Int /\ -b - 1 \in Int
  BY DEF Op
<1>1. PICK t \in Nat : Within(a, t) /\ Within(b, t)
  BY WithinBoth
<1>2. Within(-a - 1, t) /\ Within(-b - 1, t)
  <2>1. Pow2(t) \in Int
    BY Pow2Is
  <2> QED BY <1>1, <2>1 DEF Within
<1>3. \A op \in Op : OnBits(op, a, b) = UpToBit(op, a, b, t)
  BY <1>1, OnBitsIs
<1>4. OnBits("|", -a - 1, -b - 1) = UpToBit("|", -a - 1, -b - 1, t)
  BY <1>0, <1>2, OnBitsIs
<1>5. \A op \in Op : UpToBit(op, a, b, t) \in Int
  BY RunStaysWithin
<1>6. /\ UpToBit("&", a, b, t) + UpToBit("|", a, b, t) = a + b
      /\ UpToBit("^", a, b, t) = UpToBit("|", a, b, t) - UpToBit("&", a, b, t)
      /\ UpToBit("&", a, b, t) = -1 - UpToBit("|", -a - 1, -b - 1, t)
  BY <1>1, RunsTogether
<1> QED BY <1>0, <1>3, <1>4, <1>5, <1>6

LEMMA BitsAre ==
  ASSUME NEW x, IsInt(x), NEW y, IsInt(y), NEW op \in Op
  PROVE  Bits(op, x, y) = MakeInt64(OnBits(op, x.n, y.n)) /\ OnBits(op, x.n, y.n) \in Int
<1>1. PICK a \in Int, b \in Int : a = x.n /\ b = y.n
  BY DEF IsInt
<1>2. PICK n \in Int : n = OnBits(op, a, b)
  BY OnBitsAre
<1>3. Bits(op, x, y) = IF OnBig(x, y) THEN MakeBigInt(n) ELSE Small(n)
  BY <1>1, <1>2, Zenon DEF Bits
<1>4. CASE OnBig(x, y)
  BY <1>1, <1>2, <1>3, <1>4, OneRepresentation
<1>5. CASE ~OnBig(x, y)
  <2>1. PICK t \in Nat : t = SmallBits - 1 /\ Half = Pow2(t)
    BY NumbersAssumption DEF Half
  <2>2. Half \in Nat
    BY Widths
  <2>3. Within(a, t) /\ Within(b, t)
    BY <1>1, <1>5, <2>1, <2>2, SmallOnes DEF Within
  <2>4. Within(n, t)
    BY <1>2, <2>3, OnBitsIs, RunStaysWithin
  <2>5. InBits(n, SmallBits)
    BY <2>1, <2>2, <2>4, InBitsIs DEF Within
  <2> QED BY <1>1, <1>2, <1>3, <1>5, <2>5, OneRepresentation
<1> QED BY <1>4, <1>5

LEMMA NotIs == ASSUME NEW x, IsInt(x) PROVE Not(x) = MakeInt64(-x.n - 1)
<1>1. PICK a \in Int : a = x.n /\ -a - 1 \in Int
  BY DEF IsInt
<1>2. Not(x) = IF x.big THEN MakeBigInt(-a - 1) ELSE Small(-a - 1)
  BY <1>1, Zenon DEF Not
<1>3. CASE x.big
  BY <1>1, <1>2, <1>3, OneRepresentation
<1>4. CASE ~x.big
  <2>1. PICK h \in Nat : h = Half
    BY Widths
  <2>2. -h <= -a - 1 /\ -a - 1 <= h - 1
    BY <1>1, <1>4, <2>1, SmallIs
  <2>3. InBits(-a - 1, SmallBits)
    BY <1>1, <2>1, <2>2, InBitsIs
  <2> QED BY <1>1, <1>2, <1>4, <2>3, OneRepresentation
<1> QED BY <1>3, <1>4
(* The parts of ExactlyComputed: arithmetic, comparison and conversions;  *)
(* division; the bit operations.                                           *)
LEMMA SumsAreExact ==
  ASSUME NEW x, IsInt(x), NEW y, IsInt(y)
  PROVE  /\ Add(x, y) = MakeInt64(x.n + y.n) /\ Sub(x, y) = MakeInt64(x.n - y.n)
         /\ Mul(x, y) = MakeInt64(x.n * y.n) /\ Negative(x) = MakeInt64(-x.n)
         /\ Cmp(x, y) = Sign(x.n - y.n)
         /\ AsInt32(x) = AsInt(x, SmallBits, TRUE)
         /\ x.n >= 0 => MakeUint64(x.n) = x
BY SumsAre, NegativeIs, CmpIs, ConversionsAre

LEMMA DivisionsAreExact ==
  ASSUME NEW x, IsInt(x), NEW y, IsInt(y), y.n # 0
  PROVE  /\ Div(x, y).n * y.n + Mod(x, y).n = x.n
         /\ Magnitude(Mod(x, y).n) < Magnitude(y.n)
         /\ Sign(Mod(x, y).n) \in {0, Sign(y.n)}
         /\ Canonical(Div(x, y)) /\ Canonical(Mod(x, y))
<1>1. PICK q \in Int, r \in Int : Divides(x, y, q, r)
  BY DivIs
<1>2. Div(x, y) = MakeInt64(q) /\ Mod(x, y) = MakeInt64(r)
  BY <1>1 DEF Divides
<1>3. Div(x, y).n = q /\ Mod(x, y).n = r /\ Canonical(Div(x, y)) /\ Canonical(Mod(x, y))
  BY <1>2, MadeIsInt, OneRepresentation
<1>4. y.n \in Int
  BY DEF IsInt
<1>5. Sign(r) \in {0, Sign(y.n)}
  BY <1>1, <1>4 DEF Divides, Sign
<1> QED BY <1>1, <1>3, <1>5 DEF Divides

LEMMA BitsAreExact ==
  ASSUME NEW x, IsInt(x), NEW y, IsInt(y)
  PROVE  LET both == Bits("&", x, y)
             either == Bits("|", x, y)
             one == Bits("^", x, y)
         IN  /\ Add(both, either) = Add(x, y) /\ Sub(either, both) = one
             /\ Not(both) = Bits("|", Not(x), Not(y))
             /\ \A r \in {both, either, one, Not(x), Abs(x)} : Canonical(r)
<1>1. PICK a \in Int, b \in Int : a = x.n /\ b = y.n
  BY DEF IsInt
<1>2. "&" \in Op /\ "|" \in Op /\ "^" \in Op /\ -a - 1 \in Int /\ -b - 1 \in Int
  BY DEF Op
<1>3. PICK i \in Int, u \in Int, o \in Int, m \in Int :
        /\ i = OnBits("&", a, b) /\ u = OnBits("|", a, b) /\ o = OnBits("^", a, b)
        /\ m = OnBits("|", -a - 1, -b - 1)
        /\ i + u = a + b /\ o = u - i /\ i = -1 - m
  <2>1. OnBits("|", -a - 1, -b - 1) \in Int
    BY <1>2, OnBitsAre
  <2>2. OnBits("&", a, b) \in Int /\ OnBits("|", a, b) \in Int /\ OnBits("^", a, b) \in Int
    BY <1>2, OnBitsAre
  <2>3. /\ OnBits("&", a, b) + OnBits("|", a, b) = a + b
        /\ OnBits("^", a, b) = OnBits("|", a, b) - OnBits("&", a, b)
        /\ OnBits("&", a, b) = -1 - OnBits("|", -a - 1, -b - 1)
    BY OnBitsAre
  <2> QED BY <2>1, <2>2, <2>3, Zenon
<1>4. PICK both, either, one :
        /\ both = Bits("&", x, y) /\ either = Bits("|", x, y) /\ one = Bits("^", x, y)
        /\ both = MakeInt64(i) /\ either = MakeInt64(u) /\ one = MakeInt64(o)
  BY <1>1, <1>2, <1>3, BitsAre
<1>5. /\ IsInt(both) /\ both.n = i /\ Canonical(both)
      /\ IsInt(either) /\ either.n = u /\ Canonical(either)
  BY <1>4, MadeIsInt, OneRepresentation
<1>6. Canonical(one)
  BY <1>4, OneRepresentation
<1>7. Add(both, either) = Add(x, y)
  BY <1>1, <1>3, <1>5, SumsAre
<1>8. Sub(either, both) = one
  BY <1>3, <1>4, <1>5, SumsAre
<1>9. Not(x) = MakeInt64(-a - 1) /\ Not(y) = MakeInt64(-b - 1)
  BY <1>1, NotIs
<1>10. IsInt(Not(x)) /\ Not(x).n = -a - 1 /\ IsInt(Not(y)) /\ Not(y).n = -b - 1 /\ Canonical(Not(x))
  BY <1>2, <1>9, MadeIsInt, OneRepresentation
<1>11. Bits("|", Not(x), Not(y)) = MakeInt64(m)
  BY <1>2, <1>3, <1>10, BitsAre
<1>12. Not(both) = MakeInt64(m)
  <2>1. -i - 1 = m
    BY <1>3
  <2> QED BY <1>5, <2>1, NotIs
<1>13. Canonical(Abs(x))
  <2>1. IsInt(Abs(x))
    BY AbsIs
  <2> QED BY <2>1, OneRepresentation DEF IsInt
<1> QED BY <1>4, <1>5, <1>6, <1>7, <1>8, <1>10, <1>11, <1>12, <1>13

(* Every computation asked about. *)
LEMMA ComputedExactly ==
  ASSUME NEW x, IsInt(x), NEW y, IsInt(y)
  PROVE  ExactlyComputed(x, y)
<1>1. \A k \in 0 .. 2 : /\ Lsh(x, k) = MakeInt64(x.n * Pow2(k))
                       /\ Rsh(Lsh(x, k), k) = x
                       /\ Rsh(x, k) = Div(x, MakeInt64(Pow2(k)))
  BY ShiftsAre
<1> QED BY <1>1, SumsAreExact, DivisionsAreExact, BitsAreExact, Zenon DEF ExactlyComputed

(* Integers are exact: every operation returns the one representation of   *)
(* the right result, whichever of the two its operands have and however    *)
(* near they are to the bounds of small numbers and words.  For words of   *)
(* any width and any integers.                                             *)
THEOREM IntsAreExact == NumbersSpec => []IntsExact
<1>1. AskToCompute => IntsExact
  <2> SUFFICES ASSUME AskToCompute PROVE ExactlyComputed(question.a, question.b)
    BY DEF IntsExact
  <2>1. PICK a \in Int, b \in Int :
          question = [kind |-> "compute", a |-> MakeInt64(a), b |-> MakeInt64(b)]
    BY NumbersAssumption DEF AskToCompute
  <2>2. question.a = MakeInt64(a) /\ question.b = MakeInt64(b)
    BY <2>1
  <2>3. IsInt(question.a) /\ IsInt(question.b)
    BY <2>2, MadeIsInt
  <2> QED BY <2>3, ComputedExactly
<1>2. IntsExact /\ [FALSE]_question => IntsExact'
  <2> SUFFICES ASSUME IntsExact, question' = question PROVE IntsExact'
    OBVIOUS
  <2> QED BY DEF IntsExact
<1> QED BY <1>1, <1>2, PTL DEF NumbersSpec, NothingElse
=============================================================================

---------------------------- MODULE ClassesProofs ----------------------------
(***************************************************************************)
(* That the class runtime linearizes, resolves super() and keeps its       *)
(* contexts as it should: for any number of classes, bases, instances and  *)
(* active calls.                                                           *)
(*                                                                         *)
(* First the merge of linearizations, by the number of its iterations:     *)
(* what is left of each sequence is what has not been output, so the       *)
(* output agrees with all of them; and where the merge is stuck, the first *)
(* class that is left in any order that agrees with all of them would be   *)
(* a head that is in no tail.                                              *)
(***************************************************************************)
EXTENDS Classes, SequenceTheorems, FiniteSetTheorems, WellFoundedInduction, TLAPS

Distinct(s) == \A j, l \in DOMAIN s : s[j] = s[l] => j = l
-----------------------------------------------------------------------------
(* Induction on the natural numbers, for a set of them. *)
LEMMA SetInduction ==
  ASSUME NEW T, 0 \in T, \A n \in Nat : n \in T => n + 1 \in T
  PROVE  Nat \subseteq T
<1> DEFINE S == Nat \ T
           R == OpToRel(<, Nat)
<1>1. SUFFICES ASSUME S # {} PROVE FALSE
  OBVIOUS
<1>2. PICK k \in S : \A j \in S : ~(<<j, k>> \in R)
  <2>1. IsWellFoundedOn(R, Nat)
    BY NatLessThanWellFounded
  <2>2. S \subseteq Nat
    OBVIOUS
  <2> HIDE DEF R, S
  <2> QED BY <1>1, <2>1, <2>2, WFMin
<1>3. k \in Nat /\ k # 0 /\ k - 1 \in Nat
  OBVIOUS
<1>4. <<k - 1, k>> \in R
  <2>1. <<k - 1, k>> \in Nat \X Nat /\ <<k - 1, k>>[1] < <<k - 1, k>>[2]
    BY <1>3
  <2> QED BY <2>1, Zenon DEF OpToRel
<1>5. k - 1 \in T
  <2> HIDE DEF R
  <2> QED BY <1>2, <1>3, <1>4
<1>6. (k - 1) + 1 \in T
  <2> HIDE DEF R, S
  <2> QED BY <1>3, <1>5
<1>7. (k - 1) + 1 = k
  BY <1>3
<1> QED BY <1>6, <1>7

(* A set of naturals has a least element, which First chooses. *)
LEMMA FirstIsLeast ==
  ASSUME NEW S \in SUBSET Nat, S # {}
  PROVE  First(S) \in S /\ \A l \in S : First(S) <= l
<1> DEFINE R == OpToRel(<, Nat)
<1>1. PICK k \in S : \A j \in S : ~(<<j, k>> \in R)
  <2>1. IsWellFoundedOn(R, Nat)
    BY NatLessThanWellFounded
  <2> HIDE DEF R
  <2> QED BY <2>1, WFMin
<1>2. \A j \in S : k <= j
  <2> TAKE j \in S
  <2>1. j \in Nat /\ k \in Nat
    OBVIOUS
  <2>2. <<j, k>> \in Nat \X Nat /\ <<j, k>>[1] = j /\ <<j, k>>[2] = k
    BY <2>1
  <2>3. j < k => <<j, k>> \in R
    BY <2>2, Zenon DEF OpToRel
  <2> HIDE DEF R
  <2>4. ~(j < k)
    BY <1>1, <2>3
  <2> QED BY <2>1, <2>4
<1> QED BY <1>2 DEF First

(* A sequence over S is a function into S. *)
LEMMA SeqTyped ==
  ASSUME NEW S, NEW s \in Seq(S)
  PROVE  Len(s) \in Nat /\ DOMAIN s = 1 .. Len(s) /\ \A d \in DOMAIN s : s[d] \in S
OBVIOUS

LEMMA Appended ==
  ASSUME NEW S, NEW s \in Seq(S), NEW e \in S
  PROVE  /\ Append(s, e) \in Seq(S) /\ Len(Append(s, e)) = Len(s) + 1
         /\ DOMAIN Append(s, e) = 1 .. Len(s) + 1
         /\ Append(s, e)[Len(s) + 1] = e
         /\ \A j \in 1 .. Len(s) : Append(s, e)[j] = s[j]
OBVIOUS

LEMMA AppendedElements ==
  ASSUME NEW S, NEW s \in Seq(S), NEW e \in S
  PROVE  Elements(Append(s, e)) = Elements(s) \cup {e}
<1>1. PICK n \in Nat : n = Len(s) /\ DOMAIN s = 1 .. n
  BY SeqTyped
<1>2. PICK r : r = Append(s, e)
  OBVIOUS
<1>3. DOMAIN r = 1 .. n + 1 /\ r[n + 1] = e /\ \A j \in 1 .. n : r[j] = s[j]
  BY <1>1, <1>2, Appended
<1>4. \A j : j \in 1 .. n + 1 <=> (j \in 1 .. n \/ j = n + 1)
  BY <1>1
<1>5. \A c : c \in Elements(r) <=> \E j \in 1 .. n + 1 : c = r[j]
  BY <1>3 DEF Elements
<1>6. \A c : c \in Elements(s) <=> \E j \in 1 .. n : c = s[j]
  BY <1>1 DEF Elements
<1>7. ASSUME NEW c PROVE c \in Elements(r) <=> c \in Elements(s) \cup {e}
  BY <1>3, <1>4, <1>5, <1>6
<1> QED BY <1>2, <1>7

(* Distinct numbers up to n are n at most. *)
LEMMA DistinctLength ==
  ASSUME NEW n \in Nat, NEW s \in Seq(1 .. n), Distinct(s)
  PROVE  Len(s) <= n
<1>1. PICK m \in Nat : m = Len(s) /\ DOMAIN s = 1 .. m
  BY SeqTyped
<1>2. /\ IsFiniteSet(1 .. n) /\ Cardinality(1 .. n) = n
      /\ IsFiniteSet(1 .. m) /\ Cardinality(1 .. m) = m
  <2>1. 1 \in Int /\ n \in Int /\ m \in Int
    BY <1>1
  <2>2. IsFiniteSet(1 .. n) /\ Cardinality(1 .. n) = IF 1 > n THEN 0 ELSE n - 1 + 1
    BY <2>1, FS_Interval
  <2>3. IsFiniteSet(1 .. m) /\ Cardinality(1 .. m) = IF 1 > m THEN 0 ELSE m - 1 + 1
    BY <2>1, FS_Interval
  <2> QED BY <1>1, <2>2, <2>3
<1>3. s \in Injection(1 .. m, 1 .. n)
  <2>1. s \in [1 .. m -> 1 .. n]
    BY <1>1, SeqTyped
  <2>2. \A a, b \in 1 .. m : s[a] = s[b] => a = b
    BY <1>1 DEF Distinct
  <2> QED BY <2>1, <2>2 DEF Injection, IsInjective
<1>4. Cardinality(1 .. m) <= Cardinality(1 .. n)
  BY <1>2, <1>3, FS_Injection
<1> QED BY <1>1, <1>2, <1>4
-----------------------------------------------------------------------------
(* What is left of s, r, is what out has not. *)
Rest(s, r, out) ==
  LET k == Len(s) - Len(r)
  IN  /\ Len(r) <= Len(s)
      /\ \A l \in 1 .. Len(r) : r[l] = s[k + l]
      /\ \A l \in 1 .. Len(s) : s[l] \in Elements(out) <=> l <= k

LEMMA RestStep ==
  ASSUME NEW C, NEW s \in Seq(C), NEW r \in Seq(C), NEW out \in Seq(C), NEW c \in C,
         Distinct(s), Rest(s, r, out), c \notin Elements(out),
         \A l \in 2 .. Len(r) : r[l] # c
  PROVE  Rest(s, IF r # <<>> /\ Head(r) = c THEN Tail(r) ELSE r, Append(out, c))
<1>1. PICK n \in Nat : n = Len(s) /\ DOMAIN s = 1 .. n
  BY SeqTyped
<1>2. PICK m \in Nat : m = Len(r) /\ DOMAIN r = 1 .. m
  BY SeqTyped
<1>3. PICK k \in Nat : k = n - m /\ n = k + m
  <2>1. m <= n
    BY <1>1, <1>2 DEF Rest
  <2> QED BY <2>1
<1>4. /\ \A l \in 1 .. m : r[l] = s[k + l]
      /\ \A l \in 1 .. n : s[l] \in Elements(out) <=> l <= k
  BY <1>1, <1>2, <1>3 DEF Rest
<1>5. \A e : e \in Elements(Append(out, c)) <=> e \in Elements(out) \/ e = c
  BY AppendedElements
<1>6. \A j, l \in 1 .. n : s[j] = s[l] => j = l
  BY <1>1 DEF Distinct
<1>7. CASE r # <<>> /\ Head(r) = c
  <2>1. m # 0 /\ r[1] = c
    BY <1>2, <1>7
  <2>2. 1 \in 1 .. m /\ k + 1 \in 1 .. n
    BY <1>3, <2>1
  <2>3. s[k + 1] = c
    BY <1>4, <2>1, <2>2
  <2>4. PICK t \in Seq(C) : t = Tail(r) /\ Len(t) = m - 1 /\ \A l \in 1 .. m - 1 : t[l] = r[l + 1]
    <3>1. /\ Tail(r) \in Seq(C) /\ Len(Tail(r)) = Len(r) - 1
          /\ \A l \in 1 .. Len(Tail(r)) : Tail(r)[l] = r[l + 1]
      BY <1>7, HeadTailProperties
    <3>2. PICK t : t = Tail(r)
      OBVIOUS
    <3> QED BY <1>2, <3>1, <3>2
  <2>5. n - (m - 1) = k + 1 /\ m - 1 <= n
    BY <1>3
  <2>6. \A l \in 1 .. m - 1 : t[l] = s[k + 1 + l]
    <3> TAKE l \in 1 .. m - 1
    <3>1. l + 1 \in 1 .. m /\ k + (l + 1) = k + 1 + l
      BY <1>2, <1>3
    <3> QED BY <1>4, <2>4, <3>1
  <2>7. \A l \in 1 .. n : s[l] \in Elements(Append(out, c)) <=> l <= k + 1
    <3> TAKE l \in 1 .. n
    <3>1. s[l] = c <=> l = k + 1
      BY <1>6, <2>2, <2>3
    <3>2. l <= k + 1 <=> l <= k \/ l = k + 1
      BY <1>3
    <3> QED BY <1>4, <1>5, <3>1, <3>2
  <2>8. Rest(s, t, Append(out, c))
    BY <1>1, <2>4, <2>5, <2>6, <2>7 DEF Rest
  <2> QED BY <1>7, <2>4, <2>8
<1>8. CASE ~(r # <<>> /\ Head(r) = c)
  <2>1. \A l \in 1 .. m : r[l] # c
    <3> TAKE l \in 1 .. m
    <3>1. l = 1 \/ l \in 2 .. m
      BY <1>2
    <3>2. l = 1 => r # <<>> /\ Head(r) = r[1]
      BY <1>2
    <3> QED BY <1>2, <1>8, <3>1, <3>2
  <2>2. \A l \in 1 .. n : s[l] # c
    <3> TAKE l \in 1 .. n
    <3>1. CASE l <= k
      BY <1>4, <3>1
    <3>2. CASE ~(l <= k)
      <4>1. l - k \in 1 .. m /\ k + (l - k) = l
        BY <1>3, <3>2
      <4> QED BY <1>4, <2>1, <4>1
    <3> QED BY <3>1, <3>2
  <2>3. \A l \in 1 .. n : s[l] \in Elements(Append(out, c)) <=> l <= k
    BY <1>4, <1>5, <2>2
  <2>4. Rest(s, r, Append(out, c))
    BY <1>1, <1>2, <1>3, <1>4, <2>3 DEF Rest
  <2> QED BY <1>8, <2>4
<1> QED BY <1>7, <1>8

LEMMA RespectsStep ==
  ASSUME NEW C, NEW s \in Seq(C), NEW r \in Seq(C), NEW out \in Seq(C), NEW c \in C,
         Distinct(s), Rest(s, r, out), c \notin Elements(out), Respects(out, s)
  PROVE  Respects(Append(out, c), s)
<1>1. PICK n \in Nat : n = Len(s) /\ DOMAIN s = 1 .. n
  BY SeqTyped
<1>2. PICK h \in Nat : h = Len(out) /\ DOMAIN out = 1 .. h
  BY SeqTyped
<1>3. PICK new : new = Append(out, c)
  OBVIOUS
<1>4. DOMAIN new = 1 .. h + 1 /\ new[h + 1] = c /\ \A j \in 1 .. h : new[j] = out[j]
  BY <1>2, <1>3, Appended
<1> SUFFICES ASSUME NEW j \in 1 .. n, NEW l \in 1 .. n, j < l,
                    NEW p \in 1 .. h + 1, NEW q \in 1 .. h + 1,
                    new[p] = s[j], new[q] = s[l]
             PROVE  p < q
  BY <1>1, <1>3, <1>4 DEF Respects
<1>5. (p = h + 1 \/ p \in 1 .. h) /\ (q = h + 1 \/ q \in 1 .. h)
  BY <1>2
<1>6. CASE p \in 1 .. h /\ q \in 1 .. h
  <2>1. out[p] = s[j] /\ out[q] = s[l]
    BY <1>4, <1>6
  <2> QED BY <1>1, <1>2, <1>6, <2>1 DEF Respects
<1>7. CASE p \in 1 .. h /\ q = h + 1
  BY <1>2, <1>7
<1>8. CASE p = h + 1 /\ q = h + 1
  BY <1>1, <1>8 DEF Distinct
<1>9. CASE p = h + 1 /\ q \in 1 .. h
  <2>1. s[l] \in Elements(out) /\ s[j] = c
    BY <1>2, <1>4, <1>9 DEF Elements
  <2>2. \A a \in 1 .. n : s[a] \in Elements(out) <=> a <= Len(s) - Len(r)
    BY <1>1 DEF Rest
  <2>3. PICK m \in Nat : m = Len(r)
    BY SeqTyped
  <2>4. l <= n - m
    BY <1>1, <2>1, <2>2, <2>3
  <2>5. j <= n - m
    BY <2>4
  <2>6. s[j] \in Elements(out)
    BY <1>1, <2>2, <2>3, <2>5
  <2> QED BY <2>1, <2>6
<1> QED BY <1>5, <1>6, <1>7, <1>8, <1>9
-----------------------------------------------------------------------------
(* order puts the elements of all of seqs in an order they agree with. *)
Agrees(order, seqs) ==
  \A j \in DOMAIN seqs : Elements(seqs[j]) \subseteq Elements(order) /\ Respects(order, seqs[j])

(* Any order: a function on an initial segment of the natural numbers. *)
Order == UNION {[1 .. m -> Class] : m \in Nat}

(* The state of the merge of seqs after n iterations. *)
Merging(seqs, st, n) ==
  /\ st \in [seqs : [DOMAIN seqs -> Seq(Class)], out : Seq(Class), ok : BOOLEAN]
  /\ Distinct(st.out)
  /\ Elements(st.out) \subseteq UNION {Elements(seqs[j]) : j \in DOMAIN seqs}
  /\ \A j \in DOMAIN seqs : Rest(seqs[j], st.seqs[j], st.out) /\ Respects(st.out, seqs[j])
  /\ st.ok => Len(st.out) = n \/ \A j \in DOMAIN seqs : st.seqs[j] = <<>>
  /\ ~st.ok => ~ \E order \in Order : Agrees(order, seqs)

LEMMA MergingStart ==
  ASSUME NEW seqs, seqs \in Seq(Seq(Class))
  PROVE  Merging(seqs, [seqs |-> seqs, out |-> <<>>, ok |-> TRUE], 0)
<1>1. <<>> \in Seq(Class) /\ Len(<<>>) = 0 /\ DOMAIN <<>> = {} /\ Elements(<<>>) = {}
  BY EmptySeq DEF Elements
<1>2. seqs \in [DOMAIN seqs -> Seq(Class)]
  BY SeqTyped
<1>3. \A j \in DOMAIN seqs : Rest(seqs[j], seqs[j], <<>>) /\ Respects(<<>>, seqs[j])
  <2> TAKE j \in DOMAIN seqs
  <2>1. PICK n \in Nat : n = Len(seqs[j])
    BY <1>2, SeqTyped
  <2>2. Rest(seqs[j], seqs[j], <<>>)
    BY <1>1, <2>1 DEF Rest
  <2> QED BY <1>1, <2>2 DEF Respects
<1> QED BY <1>1, <1>2, <1>3 DEF Merging, Distinct

(* Some head is in no tail, if there is an order all sequences agree with. *)
LEMMA HeadInNoTail ==
  ASSUME NEW seqs \in Seq(Seq(Class)), NEW st, NEW n, Merging(seqs, st, n),
         NEW order \in Order, Agrees(order, seqs),
         NEW a \in DOMAIN seqs, st.seqs[a] # <<>>
  PROVE  \E j \in DOMAIN seqs : st.seqs[j] # <<>> /\ ~InTail(Head(st.seqs[j]), st.seqs)
<1>1. PICK h \in Nat : order \in [1 .. h -> Class]
  BY DEF Order
<1>2. ASSUME NEW j \in DOMAIN seqs
      PROVE  \E m, k \in Nat :
               /\ m = Len(st.seqs[j]) /\ Len(seqs[j]) = k + m
               /\ DOMAIN st.seqs[j] = 1 .. m /\ DOMAIN seqs[j] = 1 .. k + m
               /\ \A l \in 1 .. m : st.seqs[j][l] = seqs[j][k + l] /\ k + l \in 1 .. k + m
  <2>1. st.seqs[j] \in Seq(Class) /\ seqs[j] \in Seq(Class) /\ Rest(seqs[j], st.seqs[j], st.out)
    BY <1>2, SeqTyped DEF Merging
  <2>2. PICK m \in Nat : m = Len(st.seqs[j]) /\ DOMAIN st.seqs[j] = 1 .. m
    BY <2>1, SeqTyped
  <2>3. PICK w \in Nat : w = Len(seqs[j]) /\ DOMAIN seqs[j] = 1 .. w
    BY <2>1, SeqTyped
  <2>4. m <= w /\ \A l \in 1 .. m : st.seqs[j][l] = seqs[j][w - m + l]
    BY <2>1, <2>2, <2>3 DEF Rest
  <2>5. PICK k \in Nat : k = w - m /\ w = k + m
    BY <2>4
  <2>6. \A l \in 1 .. m : k + l \in 1 .. k + m
    BY <2>5
  <2> QED BY <2>2, <2>3, <2>4, <2>5, <2>6
<1> DEFINE left == {p \in 1 .. h : \E j \in DOMAIN seqs : \E l \in DOMAIN st.seqs[j] : order[p] = st.seqs[j][l]}
<1>3. ASSUME NEW j \in DOMAIN seqs, NEW l \in DOMAIN st.seqs[j]
      PROVE  \E p \in left : order[p] = st.seqs[j][l]
  <2>1. PICK m, k \in Nat :
               /\ m = Len(st.seqs[j]) /\ Len(seqs[j]) = k + m
               /\ DOMAIN st.seqs[j] = 1 .. m /\ DOMAIN seqs[j] = 1 .. k + m
               /\ \A b \in 1 .. m : st.seqs[j][b] = seqs[j][k + b] /\ k + b \in 1 .. k + m
    BY <1>2
  <2>2. st.seqs[j][l] \in Elements(seqs[j])
    BY <2>1 DEF Elements
  <2>3. st.seqs[j][l] \in Elements(order)
    BY <2>2 DEF Agrees
  <2>4. PICK p \in 1 .. h : order[p] = st.seqs[j][l]
    BY <1>1, <2>3 DEF Elements
  <2> QED BY <2>4
<1>4. /\ left \in SUBSET (1 .. h)
      /\ \A p \in left : \E j \in DOMAIN seqs : \E l \in DOMAIN st.seqs[j] : order[p] = st.seqs[j][l]
  OBVIOUS
<1> HIDE DEF left
<1>5. left # {} /\ left \in SUBSET Nat
  <2>1. PICK m, k \in Nat : m = Len(st.seqs[a]) /\ DOMAIN st.seqs[a] = 1 .. m
    BY <1>2
  <2>2. st.seqs[a] \in Seq(Class)
    BY DEF Merging
  <2>3. m # 0
    BY <2>1, <2>2
  <2>4. 1 \in DOMAIN st.seqs[a]
    BY <2>1, <2>3
  <2>5. \E p \in left : order[p] = st.seqs[a][1]
    BY <1>3, <2>4
  <2> QED BY <1>4, <2>5
<1> DEFINE p == First(left)
<1>6. p \in left /\ \A q \in left : p <= q
  BY <1>5, FirstIsLeast
<1> HIDE DEF p
<1>7. p \in 1 .. h
  BY <1>4, <1>6
<1>8. ASSUME NEW j \in DOMAIN seqs, NEW l \in DOMAIN st.seqs[j], order[p] = st.seqs[j][l]
      PROVE  l = 1
  <2> SUFFICES ASSUME l # 1 PROVE FALSE
    OBVIOUS
  <2>1. PICK m, k \in Nat :
               /\ m = Len(st.seqs[j]) /\ Len(seqs[j]) = k + m
               /\ DOMAIN st.seqs[j] = 1 .. m /\ DOMAIN seqs[j] = 1 .. k + m
               /\ \A b \in 1 .. m : st.seqs[j][b] = seqs[j][k + b] /\ k + b \in 1 .. k + m
    BY <1>2
  <2>2. 1 \in 1 .. m /\ l \in 1 .. m /\ k + 1 < k + l
    BY <2>1
  <2>3. PICK q \in left : order[q] = st.seqs[j][1]
    BY <1>3, <2>1, <2>2
  <2>4. q \in 1 .. h
    BY <1>4
  <2>5. Respects(order, seqs[j]) /\ DOMAIN order = 1 .. h
    BY <1>1 DEF Agrees
  <2>6. order[q] = seqs[j][k + 1] /\ order[p] = seqs[j][k + l]
    BY <1>8, <2>1, <2>2, <2>3
  <2>7. q < p
    BY <1>7, <2>1, <2>2, <2>4, <2>5, <2>6 DEF Respects
  <2>8. p <= q
    BY <1>6
  <2> QED BY <1>7, <2>4, <2>7, <2>8
<1>9. PICK j \in DOMAIN seqs : \E l \in DOMAIN st.seqs[j] : order[p] = st.seqs[j][l]
  BY <1>4, <1>6
<1>10. 1 \in DOMAIN st.seqs[j] /\ order[p] = st.seqs[j][1]
  BY <1>8, <1>9
<1>11. st.seqs[j] # <<>> /\ Head(st.seqs[j]) = order[p]
  <2>1. st.seqs[j] \in Seq(Class)
    BY DEF Merging
  <2> QED BY <1>10, <2>1
<1>12. ~InTail(order[p], st.seqs)
  <2> SUFFICES ASSUME NEW b \in DOMAIN seqs, NEW l \in 2 .. Len(st.seqs[b]), st.seqs[b][l] = order[p]
               PROVE  FALSE
    BY DEF InTail, Merging
  <2>1. l \in DOMAIN st.seqs[b] /\ l # 1
    <3>1. PICK m, k \in Nat : m = Len(st.seqs[b]) /\ DOMAIN st.seqs[b] = 1 .. m
      BY <1>2
    <3> QED BY <3>1
  <2> QED BY <1>8, <2>1
<1> QED BY <1>11, <1>12

LEMMA MergingStep ==
  ASSUME NEW seqs \in Seq(Seq(Class)), \A j \in DOMAIN seqs : Distinct(seqs[j]),
         NEW st, NEW n \in Nat, Merging(seqs, st, n)
  PROVE  Merging(seqs, MergeStep(st), n + 1)
<1> DEFINE D == DOMAIN seqs
           live == {j \in DOMAIN st.seqs : st.seqs[j] # <<>>}
           heads == {j \in live : ~InTail(Head(st.seqs[j]), st.seqs)}
           cand == Head(st.seqs[First(heads)])
<1>1. /\ st \in [seqs : [D -> Seq(Class)], out : Seq(Class), ok : BOOLEAN]
      /\ DOMAIN st.seqs = D /\ \A j \in D : seqs[j] \in Seq(Class) /\ st.seqs[j] \in Seq(Class)
      /\ D \in SUBSET Nat
  BY SeqTyped DEF Merging
<1>2. CASE live = {} \/ ~st.ok
  <2>1. MergeStep(st) = st
    BY <1>2 DEF MergeStep
  <2>2. st.ok => \A j \in D : st.seqs[j] = <<>>
    BY <1>1, <1>2
  <2> QED BY <2>1, <2>2 DEF Merging
<1>3. CASE live # {} /\ st.ok /\ heads = {}
  <2>1. MergeStep(st) = [st EXCEPT !.ok = FALSE]
    BY <1>3 DEF MergeStep
  <2>2. ~ \E order \in Order : Agrees(order, seqs)
    <3> SUFFICES ASSUME NEW order \in Order, Agrees(order, seqs) PROVE FALSE
      OBVIOUS
    <3>1. PICK a \in D : st.seqs[a] # <<>>
      BY <1>1, <1>3
    <3>2. \E j \in D : st.seqs[j] # <<>> /\ ~InTail(Head(st.seqs[j]), st.seqs)
      BY <3>1, HeadInNoTail
    <3> QED BY <1>1, <1>3, <3>2
  <2>3. PICK new : new = [st EXCEPT !.ok = FALSE]
    OBVIOUS
  <2>4. /\ new \in [seqs : [D -> Seq(Class)], out : Seq(Class), ok : BOOLEAN]
        /\ new.seqs = st.seqs /\ new.out = st.out /\ ~new.ok
    BY <1>1, <2>3
  <2>5. Merging(seqs, new, n + 1)
    BY <2>2, <2>4 DEF Merging
  <2> QED BY <2>1, <2>3, <2>5
<1>4. CASE live # {} /\ st.ok /\ heads # {}
  <2> DEFINE rest == [j \in D |-> IF j \in live /\ Head(st.seqs[j]) = cand THEN Tail(st.seqs[j])
                                  ELSE st.seqs[j]]
             new == [seqs |-> rest, out |-> Append(st.out, cand), ok |-> TRUE]
  <2>1. MergeStep(st) = new
    BY <1>1, <1>4 DEF MergeStep
  <2>2. PICK b \in D : b = First(heads) /\ st.seqs[b] # <<>> /\ cand = Head(st.seqs[b])
                       /\ ~InTail(cand, st.seqs)
    <3>1. heads \in SUBSET Nat
      BY <1>1
    <3>2. First(heads) \in heads
      <4> HIDE DEF heads
      <4> QED BY <1>4, <3>1, FirstIsLeast
    <3> QED BY <1>1, <3>2
  <2>3. \A j \in D : j \in live <=> st.seqs[j] # <<>>
    BY <1>1
  <2> HIDE DEF live, heads, cand
  <2>4. cand \in Class /\ cand \in Elements(seqs[b]) /\ cand \notin Elements(st.out)
    <3>1. PICK m \in Nat : m = Len(st.seqs[b]) /\ DOMAIN st.seqs[b] = 1 .. m /\ m # 0
      BY <1>1, <2>2, SeqTyped
    <3>2. PICK w \in Nat : w = Len(seqs[b]) /\ DOMAIN seqs[b] = 1 .. w
      BY <1>1, SeqTyped
    <3>3. Rest(seqs[b], st.seqs[b], st.out)
      BY DEF Merging
    <3>4. /\ m <= w /\ \A l \in 1 .. m : st.seqs[b][l] = seqs[b][w - m + l]
          /\ \A l \in 1 .. w : seqs[b][l] \in Elements(st.out) <=> l <= w - m
      BY <3>1, <3>2, <3>3 DEF Rest
    <3>5. PICK k \in Nat : k = w - m
      BY <3>4
    <3>6. 1 \in 1 .. m /\ k + 1 \in 1 .. w /\ ~(k + 1 <= k)
      BY <3>1, <3>4, <3>5
    <3>7. cand = st.seqs[b][1]
      BY <1>1, <2>2
    <3>8. cand = seqs[b][k + 1]
      BY <3>4, <3>5, <3>6, <3>7
    <3>9. cand \in Class
      BY <1>1, <2>2, HeadTailProperties
    <3> QED BY <3>2, <3>4, <3>5, <3>6, <3>8, <3>9 DEF Elements
  <2>5. /\ new.out \in Seq(Class) /\ Len(new.out) = Len(st.out) + 1
        /\ Elements(new.out) = Elements(st.out) \cup {cand}
    BY <1>1, <2>4, Appended, AppendedElements
  <2>6. Distinct(new.out)
    <3>1. PICK h \in Nat : h = Len(st.out) /\ DOMAIN st.out = 1 .. h
      BY <1>1, SeqTyped
    <3>2. PICK o : o = new.out
      OBVIOUS
    <3>3. DOMAIN o = 1 .. h + 1 /\ o[h + 1] = cand /\ \A j \in 1 .. h : o[j] = st.out[j]
      BY <1>1, <2>4, <3>1, <3>2, Appended
    <3>4. \A j \in 1 .. h : st.out[j] # cand
      BY <2>4, <3>1 DEF Elements
    <3>5. \A j, l \in 1 .. h : st.out[j] = st.out[l] => j = l
      BY <3>1 DEF Merging, Distinct
    <3>6. \A j \in 1 .. h + 1 : j = h + 1 \/ j \in 1 .. h
      BY <3>1
    <3>7. Distinct(o)
      BY <3>3, <3>4, <3>5, <3>6 DEF Distinct
    <3> QED BY <3>2, <3>7
  <2>7. ASSUME NEW j \in D
        PROVE  rest[j] \in Seq(Class) /\ Rest(seqs[j], rest[j], new.out) /\ Respects(new.out, seqs[j])
    <3>1. \A l \in 2 .. Len(st.seqs[j]) : st.seqs[j][l] # cand
      BY <1>1, <2>2 DEF InTail
    <3>2. rest[j] = IF st.seqs[j] # <<>> /\ Head(st.seqs[j]) = cand THEN Tail(st.seqs[j]) ELSE st.seqs[j]
      BY <2>3
    <3>3. /\ seqs[j] \in Seq(Class) /\ st.seqs[j] \in Seq(Class) /\ st.out \in Seq(Class)
          /\ Distinct(seqs[j]) /\ Rest(seqs[j], st.seqs[j], st.out) /\ Respects(st.out, seqs[j])
      BY <1>1 DEF Merging
    <3> HIDE DEF rest
    <3>4. Rest(seqs[j], rest[j], Append(st.out, cand))
      <4>1. PICK s \in Seq(Class), r \in Seq(Class), o \in Seq(Class) :
              s = seqs[j] /\ r = st.seqs[j] /\ o = st.out
        BY <3>3
      <4>2. Rest(s, IF r # <<>> /\ Head(r) = cand THEN Tail(r) ELSE r, Append(o, cand))
        BY <2>4, <3>1, <3>3, <4>1, RestStep
      <4> QED BY <3>2, <4>1, <4>2
    <3>5. Respects(Append(st.out, cand), seqs[j])
      BY <2>4, <3>3, RespectsStep
    <3>6. rest[j] \in Seq(Class)
      BY <3>2, <3>3, HeadTailProperties
    <3> QED BY <3>4, <3>5, <3>6
  <2>8. Len(new.out) = n + 1 \/ \A j \in D : rest[j] = <<>>
    <3>1. PICK a \in D : st.seqs[a] # <<>>
      BY <1>1, <1>4 DEF live
    <3>2. Len(st.out) = n
      BY <1>4, <3>1 DEF Merging
    <3> QED BY <2>5, <3>2
  <2>9. Elements(new.out) \subseteq UNION {Elements(seqs[j]) : j \in D}
    BY <2>4, <2>5, ZenonT(60) DEF Merging
  <2> HIDE DEF rest
  <2>10. /\ new \in [seqs : [D -> Seq(Class)], out : Seq(Class), ok : BOOLEAN]
         /\ new.seqs = rest /\ new.ok
    <3>1. rest \in [D -> Seq(Class)]
      BY <2>7 DEF rest
    <3> QED BY <2>5, <3>1
  <2> HIDE DEF new
  <2>11. Merging(seqs, new, n + 1)
    BY <2>6, <2>7, <2>8, <2>9, <2>10 DEF Merging
  <2> QED BY <2>1, <2>11
<1> QED BY <1>1, <1>2, <1>3, <1>4

(* The states that c3merge goes through, as the recursion of Merge has     *)
(* them, up to n iterations.                                               *)
Iterates(seqs, f, n) ==
  f = [k \in 0 .. n |-> IF k = 0 THEN [seqs |-> seqs, out |-> <<>>, ok |-> TRUE]
                        ELSE MergeStep(f[k - 1])]

LEMMA IteratesExist == ASSUME NEW seqs, NEW n \in Nat PROVE \E f : Iterates(seqs, f, n)
<1> DEFINE T == {m \in Nat : \E f : Iterates(seqs, f, m)}
           start == [seqs |-> seqs, out |-> <<>>, ok |-> TRUE]
<1>1. 0 \in T
  <2>1. Iterates(seqs, [k \in 0 .. 0 |-> start], 0)
    BY DEF Iterates
  <2> QED BY <2>1
<1>2. ASSUME NEW m \in Nat, m \in T PROVE m + 1 \in T
  <2>1. PICK f : Iterates(seqs, f, m)
    BY <1>2
  <2> DEFINE g == [k \in 0 .. m + 1 |-> IF k = 0 THEN start ELSE MergeStep(f[k - 1])]
  <2>2. f = [k \in 0 .. m |-> IF k = 0 THEN start ELSE MergeStep(f[k - 1])]
    BY <2>1 DEF Iterates
  <2>3. \A k \in 0 .. m : f[k] = g[k]
    <3> HIDE DEF start
    <3> TAKE k \in 0 .. m
    <3>1. f[k] = IF k = 0 THEN start ELSE MergeStep(f[k - 1])
      BY <2>2
    <3>2. k \in 0 .. m + 1
      OBVIOUS
    <3> QED BY <3>1, <3>2
  <2>4. \A k \in 1 .. m + 1 : k - 1 \in 0 .. m
    OBVIOUS
  <2>5. g = [k \in 0 .. m + 1 |-> IF k = 0 THEN start ELSE MergeStep(g[k - 1])]
    <3> DEFINE G(k) == IF k = 0 THEN start ELSE MergeStep(g[k - 1])
    <3>1. \A k \in 0 .. m + 1 : g[k] = G(k)
      <4> TAKE k \in 0 .. m + 1
      <4>1. g[k] = IF k = 0 THEN start ELSE MergeStep(f[k - 1])
        OBVIOUS
      <4>2. k # 0 => k \in 1 .. m + 1
        OBVIOUS
      <4>3. k # 0 => f[k - 1] = g[k - 1]
        BY <2>3, <2>4, <4>2
      <4> HIDE DEF g, start
      <4> QED BY <4>1, <4>3
    <3>2. g = [k \in 0 .. m + 1 |-> g[k]]
      OBVIOUS
    <3> HIDE DEF g, G
    <3>3. [k \in 0 .. m + 1 |-> g[k]] = [k \in 0 .. m + 1 |-> G(k)]
      BY <3>1
    <3> QED BY <3>2, <3>3 DEF G
  <2> HIDE DEF g
  <2>6. Iterates(seqs, g, m + 1)
    BY <2>5 DEF Iterates
  <2> QED BY <2>6
<1>3. Nat \subseteq T
  <2> HIDE DEF T
  <2> QED BY <1>1, <1>2, SetInduction
<1> QED BY <1>3

(* Merge is sound: what it returns has every class of seqs once, in an     *)
(* order that all agree with; and complete: it fails only if there is no   *)
(* such order.                                                             *)
LEMMA MergeExact ==
  ASSUME NEW seqs \in Seq(Seq(Class)), \A j \in DOMAIN seqs : Distinct(seqs[j]),
         mro \in Seq(Seq(Class))
  PROVE  LET r == Merge(seqs)
         IN  /\ r.ok \in BOOLEAN /\ r.out \in Seq(Class) /\ Distinct(r.out)
             /\ \A j \in DOMAIN seqs : Respects(r.out, seqs[j])
             /\ r.ok => Elements(r.out) = UNION {Elements(seqs[j]) : j \in DOMAIN seqs}
             /\ ~r.ok => ~ \E order \in Order : Agrees(order, seqs)
<1> DEFINE start == [seqs |-> seqs, out |-> <<>>, ok |-> TRUE]
<1>1. PICK N \in Nat : N = Len(mro) /\ Class = 1 .. N
  BY SeqTyped DEF Class
<1> DEFINE after == CHOOSE f : Iterates(seqs, f, N + 1)
<1>2. Iterates(seqs, after, N + 1)
  <2>1. N + 1 \in Nat
    OBVIOUS
  <2>2. \E f : Iterates(seqs, f, N + 1)
    BY <2>1, IteratesExist
  <2> QED BY <2>2, Zenon
<1>3. Merge(seqs) = after[N + 1]
  BY <1>1 DEF Merge, Iterates
<1> HIDE DEF after
<1>4. after[0] = start /\ \A k \in 1 .. N + 1 : after[k] = MergeStep(after[k - 1])
  <2>1. after = [k \in 0 .. N + 1 |-> IF k = 0 THEN start ELSE MergeStep(after[k - 1])]
    BY <1>2 DEF Iterates
  <2> HIDE DEF start
  <2>2. 0 \in 0 .. N + 1 /\ \A k \in 1 .. N + 1 : k \in 0 .. N + 1 /\ k # 0
    OBVIOUS
  <2>3. \A k \in 0 .. N + 1 : after[k] = IF k = 0 THEN start ELSE MergeStep(after[k - 1])
    BY <2>1
  <2> QED BY <2>2, <2>3
<1> DEFINE T == {k \in Nat : k <= N + 1 => Merging(seqs, after[k], k)}
<1>5. 0 \in T
  BY <1>4, MergingStart
<1>6. ASSUME NEW k \in Nat, k \in T PROVE k + 1 \in T
  <2> SUFFICES ASSUME k + 1 <= N + 1 PROVE Merging(seqs, after[k + 1], k + 1)
    OBVIOUS
  <2>1. k <= N + 1 /\ k + 1 \in 1 .. N + 1 /\ (k + 1) - 1 = k
    OBVIOUS
  <2>2. Merging(seqs, after[k], k)
    BY <1>6, <2>1
  <2>3. Merging(seqs, MergeStep(after[k]), k + 1)
    BY <2>2, MergingStep
  <2> QED BY <1>4, <2>1, <2>3
<1>7. N + 1 \in T
  <2> HIDE DEF T
  <2> QED BY <1>5, <1>6, SetInduction
<1>8. PICK r : r = Merge(seqs) /\ Merging(seqs, r, N + 1)
  BY <1>3, <1>7
<1>9. /\ r.ok \in BOOLEAN /\ r.out \in Seq(Class) /\ Distinct(r.out)
      /\ \A j \in DOMAIN seqs : Respects(r.out, seqs[j]) /\ Rest(seqs[j], r.seqs[j], r.out)
      /\ ~r.ok => ~ \E order \in Order : Agrees(order, seqs)
      /\ Elements(r.out) \subseteq UNION {Elements(seqs[j]) : j \in DOMAIN seqs}
  BY <1>8 DEF Merging
<1>10. ASSUME r.ok PROVE \A j \in DOMAIN seqs : r.seqs[j] = <<>>
  <2>1. Len(r.out) <= N
    BY <1>1, <1>9, DistinctLength
  <2>2. Len(r.out) # N + 1
    <3>1. PICK h \in Nat : h = Len(r.out)
      BY <1>9, SeqTyped
    <3> QED BY <2>1, <3>1
  <2> QED BY <1>8, <1>10, <2>2 DEF Merging
<1>11. ASSUME r.ok, NEW j \in DOMAIN seqs PROVE Elements(seqs[j]) \subseteq Elements(r.out)
  <2>1. r.seqs[j] = <<>> /\ Len(<<>>) = 0
    BY <1>10, <1>11
  <2>2. seqs[j] \in Seq(Class)
    BY SeqTyped
  <2>3. PICK n \in Nat : n = Len(seqs[j]) /\ DOMAIN seqs[j] = 1 .. n
    BY <2>2, SeqTyped
  <2>4. \A l \in 1 .. n : seqs[j][l] \in Elements(r.out) <=> l <= n - 0
    BY <1>9, <2>1, <2>3 DEF Rest
  <2>5. \A l \in 1 .. n : seqs[j][l] \in Elements(r.out)
    BY <2>4
  <2> QED BY <2>3, <2>5 DEF Elements
<1>12. r.ok => Elements(r.out) = UNION {Elements(seqs[j]) : j \in DOMAIN seqs}
  BY <1>9, <1>11
<1> QED BY <1>8, <1>9, <1>12
-----------------------------------------------------------------------------
(* What the linearization, order, of the class c with the bases bs is, by  *)
(* those of the earlier classes, m: the class itself, then the classes of  *)
(* its bases' orders, each once, in an order that agrees with them all.    *)
Placed(order, bs, m, c) ==
  /\ order \in Seq(1 .. c) /\ order # <<>> /\ order[1] = c /\ Distinct(order)
  /\ bs \in Seq(1 .. c - 1) /\ Distinct(bs)
  /\ Elements(Tail(order)) = UNION {Elements(m[b]) : b \in Elements(bs)}
  /\ Respects(Tail(order), bs)
  /\ \A j \in DOMAIN bs : Respects(Tail(order), m[bs[j]])

HeapTyped ==
  /\ bases \in Seq(Seq(Class)) /\ mro \in Seq(Seq(Class)) /\ Len(bases) = Len(mro)

Hierarchy == HeapTyped /\ \A c \in Class : Placed(mro[c], bases[c], mro, c)

(* The classes are numbered in order of creation. *)
LEMMA Numbered ==
  ASSUME HeapTyped
  PROVE  \E n \in Nat : n = Len(mro) /\ Class = 1 .. n /\ DOMAIN mro = 1 .. n /\ DOMAIN bases = 1 .. n
BY DEF HeapTyped, Class

LEMMA ElementsOfTail ==
  ASSUME NEW S, NEW s \in Seq(S), s # <<>>
  PROVE  Elements(s) = {s[1]} \cup Elements(Tail(s))
<1>1. PICK n \in Nat : n = Len(s) /\ DOMAIN s = 1 .. n /\ n # 0
  BY SeqTyped
<1>2. PICK t \in Seq(S) : t = Tail(s) /\ Len(t) = n - 1 /\ \A l \in 1 .. n - 1 : t[l] = s[l + 1]
  <2>1. /\ Tail(s) \in Seq(S) /\ Len(Tail(s)) = Len(s) - 1
        /\ \A l \in 1 .. Len(Tail(s)) : Tail(s)[l] = s[l + 1]
    BY HeadTailProperties
  <2>2. PICK t : t = Tail(s)
    OBVIOUS
  <2> QED BY <1>1, <2>1, <2>2
<1>3. DOMAIN t = 1 .. n - 1
  BY <1>2
<1>4. \A c : c \in Elements(s) <=> \E l \in 1 .. n : c = s[l]
  BY <1>1 DEF Elements
<1>5. \A c : c \in Elements(t) <=> \E l \in 1 .. n - 1 : c = s[l + 1]
  BY <1>2, <1>3 DEF Elements
<1>6. ASSUME NEW c PROVE c \in Elements(s) <=> c = s[1] \/ c \in Elements(t)
  <2>1. ASSUME NEW l \in 1 .. n, c = s[l] PROVE c = s[1] \/ c \in Elements(t)
    <3>1. l = 1 \/ (l - 1 \in 1 .. n - 1 /\ (l - 1) + 1 = l)
      BY <1>1
    <3> QED BY <1>5, <2>1, <3>1
  <2>2. ASSUME NEW l \in 1 .. n - 1, c = s[l + 1] PROVE c \in Elements(s)
    <3>1. l + 1 \in 1 .. n
      BY <1>1
    <3> QED BY <1>4, <2>2, <3>1
  <2>3. 1 \in 1 .. n
    BY <1>1
  <2> QED BY <1>4, <1>5, <2>1, <2>2, <2>3
<1> QED BY <1>2, <1>6

(* The classes of a distinct sequence are as many as it is long. *)
LEMMA DistinctCardinality ==
  ASSUME NEW S, NEW s \in Seq(S), Distinct(s)
  PROVE  IsFiniteSet(Elements(s)) /\ Cardinality(Elements(s)) = Len(s)
<1>1. PICK n \in Nat : n = Len(s) /\ DOMAIN s = 1 .. n
  BY SeqTyped
<1>2. IsFiniteSet(1 .. n) /\ Cardinality(1 .. n) = n
  <2>1. 1 \in Int /\ n \in Int
    OBVIOUS
  <2>2. IsFiniteSet(1 .. n) /\ Cardinality(1 .. n) = IF 1 > n THEN 0 ELSE n - 1 + 1
    BY <2>1, FS_Interval
  <2> QED BY <2>2
<1>3. s \in Bijection(1 .. n, Elements(s))
  <2>1. s \in [1 .. n -> Elements(s)]
    BY <1>1 DEF Elements
  <2>2. \A a, b \in 1 .. n : s[a] = s[b] => a = b
    BY <1>1 DEF Distinct
  <2>3. \A c \in Elements(s) : \E a \in 1 .. n : s[a] = c
    BY <1>1 DEF Elements
  <2> QED BY <2>1, <2>2, <2>3 DEF Bijection, Injection, Surjection, IsInjective
<1>4. ExistsBijection(1 .. n, Elements(s))
  BY <1>3 DEF ExistsBijection
<1> QED BY <1>1, <1>2, <1>4, FS_Bijection

(* The ancestors of a class, by the bases, are the classes of its order. *)
LEMMA AncestorsAre ==
  ASSUME Hierarchy, NEW S \in SUBSET Class
  PROVE  Ancestors(S) = UNION {Elements(mro[c]) : c \in S}
<1>1. PICK N \in Nat : N = Len(mro) /\ Class = 1 .. N /\ DOMAIN mro = 1 .. N /\ DOMAIN bases = 1 .. N
  BY Numbered DEF Hierarchy
<1> DEFINE Is(f) == f = [c \in Class |-> {c} \cup UNION {f[b] : b \in Elements(bases[c])}]
           anc == CHOOSE f : Is(f)
           w == [c \in Class |-> Elements(mro[c])]
<1>2. ASSUME NEW c \in Class
      PROVE  /\ Elements(mro[c]) = {c} \cup UNION {Elements(mro[b]) : b \in Elements(bases[c])}
             /\ Elements(bases[c]) \subseteq Class
             /\ \A b \in Elements(bases[c]) : b < c
  <2>1. Placed(mro[c], bases[c], mro, c)
    BY DEF Hierarchy
  <2>2. Elements(mro[c]) = {mro[c][1]} \cup Elements(Tail(mro[c]))
    <3>1. mro[c] \in Seq(1 .. c) /\ mro[c] # <<>>
      BY <2>1 DEF Placed
    <3>2. PICK s \in Seq(1 .. c) : s = mro[c]
      BY <3>1
    <3> QED BY <3>1, <3>2, ElementsOfTail
  <2>3. \A b \in Elements(bases[c]) : b \in 1 .. c - 1
    <3>1. bases[c] \in Seq(1 .. c - 1)
      BY <2>1 DEF Placed
    <3>2. PICK B : B = 1 .. c - 1
      OBVIOUS
    <3>3. PICK s \in Seq(B) : s = bases[c]
      BY <3>1, <3>2
    <3>4. \A l \in DOMAIN s : s[l] \in B
      BY SeqTyped
    <3>5. \A b \in Elements(s) : b \in B
      BY <3>4 DEF Elements
    <3> QED BY <3>2, <3>3, <3>5
  <2>4. \A b \in 1 .. c - 1 : b \in 1 .. N /\ b < c
    BY <1>1
  <2> QED BY <1>1, <2>1, <2>2, <2>3, <2>4 DEF Placed
<1>3. Is(w)
  <2> DEFINE W(c) == {c} \cup UNION {w[b] : b \in Elements(bases[c])}
  <2>1. ASSUME NEW c \in Class PROVE w[c] = W(c)
    <3>1. w[c] = Elements(mro[c]) /\ \A b \in Elements(bases[c]) : w[b] = Elements(mro[b])
      BY <1>2
    <3>2. UNION {w[b] : b \in Elements(bases[c])} = UNION {Elements(mro[b]) : b \in Elements(bases[c])}
      BY <3>1
    <3> QED BY <1>2, <3>1, <3>2
  <2>2. w = [c \in Class |-> w[c]]
    OBVIOUS
  <2> HIDE DEF w, W
  <2>3. [c \in Class |-> w[c]] = [c \in Class |-> W(c)]
    BY <2>1
  <2> QED BY <2>2, <2>3 DEF W
<1>4. Is(anc)
  <2>1. \E f : Is(f)
    BY <1>3
  <2> HIDE DEF Is
  <2> QED BY <2>1, Zenon
<1>5. Ancestors(S) = UNION {anc[c] : c \in S}
  BY DEF Ancestors
<1> HIDE DEF anc, w
<1>6. \A c \in Class : anc[c] = {c} \cup UNION {anc[b] : b \in Elements(bases[c])}
  BY <1>4
<1> DEFINE T == {k \in Nat : \A c \in Class : c <= k => anc[c] = Elements(mro[c])}
<1>7. 0 \in T
  BY <1>1
<1>8. ASSUME NEW k \in Nat, k \in T PROVE k + 1 \in T
  <2> SUFFICES ASSUME NEW c \in Class, c <= k + 1 PROVE anc[c] = Elements(mro[c])
    OBVIOUS
  <2>1. \A b \in Elements(bases[c]) : b \in Class /\ b < c
    BY <1>2
  <2>2. \A b \in Elements(bases[c]) : anc[b] = Elements(mro[b])
    <3> TAKE b \in Elements(bases[c])
    <3>1. b \in Class /\ b <= k
      BY <1>1, <2>1
    <3> QED BY <1>8, <3>1
  <2>3. UNION {anc[b] : b \in Elements(bases[c])} = UNION {Elements(mro[b]) : b \in Elements(bases[c])}
    BY <2>2
  <2> QED BY <1>2, <1>6, <2>3
<1>9. Nat \subseteq T
  <2> HIDE DEF T
  <2> QED BY <1>7, <1>8, SetInduction
<1>10. \A c \in Class : anc[c] = Elements(mro[c])
  <2>1. N \in T
    BY <1>9
  <2> QED BY <1>1, <2>1
<1>11. \A c \in S : anc[c] = Elements(mro[c])
  BY <1>10
<1> QED BY <1>5, <1>11
-----------------------------------------------------------------------------
(* The sequences that linearize merges: the orders of the bases, and the   *)
(* bases themselves.                                                       *)
Merged(bs) == [j \in DOMAIN bs |-> mro[bs[j]]] \o (IF bs = <<>> THEN <<>> ELSE <<bs>>)

LEMMA MergedAre ==
  ASSUME HeapTyped, NEW bs \in Seq(Class)
  PROVE  /\ Merged(bs) \in Seq(Seq(Class))
         /\ \A j \in DOMAIN bs : j \in DOMAIN Merged(bs) /\ Merged(bs)[j] = mro[bs[j]]
         /\ bs # <<>> => \E j \in DOMAIN Merged(bs) : Merged(bs)[j] = bs
         /\ \A j \in DOMAIN Merged(bs) :
              \/ j \in DOMAIN bs /\ Merged(bs)[j] = mro[bs[j]]
              \/ Merged(bs)[j] = bs
<1>1. PICK n \in Nat : n = Len(bs) /\ DOMAIN bs = 1 .. n /\ \A j \in 1 .. n : bs[j] \in Class
  BY SeqTyped
<1>2. PICK Q : Q = Seq(Class)
  OBVIOUS
<1>3. PICK s : s = [j \in DOMAIN bs |-> mro[bs[j]]]
  OBVIOUS
<1>4. \A j \in 1 .. n : mro[bs[j]] \in Q
  BY <1>1, <1>2 DEF HeapTyped, Class
<1>5. s \in Seq(Q) /\ Len(s) = n /\ \A j \in 1 .. n : s[j] = mro[bs[j]]
  BY <1>1, <1>3, <1>4
<1>6. bs \in Q
  BY <1>2
<1>7. CASE bs = <<>>
  <2>1. n = 0
    BY <1>1, <1>7
  <2>2. Merged(bs) = s \o <<>>
    BY <1>3, <1>7 DEF Merged
  <2>3. Merged(bs) \in Seq(Q) /\ Len(Merged(bs)) = 0
    BY <1>5, <2>1, <2>2
  <2> QED BY <1>1, <1>2, <1>7, <2>1, <2>3
<1>8. CASE bs # <<>>
  <2>1. Merged(bs) = s \o <<bs>>
    BY <1>3, <1>8 DEF Merged
  <2>2. PICK u : u = s \o <<bs>>
    OBVIOUS
  <2>3. /\ u \in Seq(Q) /\ Len(u) = n + 1 /\ u[n + 1] = bs /\ \A j \in 1 .. n : u[j] = s[j]
    BY <1>5, <1>6, <2>2
  <2>4. DOMAIN u = 1 .. n + 1
    BY <2>3
  <2>5. \A j \in 1 .. n + 1 : j = n + 1 \/ j \in 1 .. n
    OBVIOUS
  <2>6. n + 1 \in 1 .. n + 1 /\ \A j \in 1 .. n : j \in 1 .. n + 1
    OBVIOUS
  <2> QED BY <1>1, <1>2, <1>5, <2>1, <2>2, <2>3, <2>4, <2>5, <2>6
<1> QED BY <1>7, <1>8

(* What the linearization of a list of distinct bases is, and is not. *)
LEMMA LinearizeExact ==
  ASSUME Hierarchy, NEW bs \in Seq(Class), Distinct(bs)
  PROVE  LET r == Linearize(bs)
             all == UNION {Elements(mro[b]) : b \in Elements(bs)}
         IN  /\ r.out \in Seq(Class) /\ Distinct(r.out)
             /\ r.ok => /\ Elements(r.out) = all
                        /\ Respects(r.out, bs)
                        /\ \A j \in DOMAIN bs : Respects(r.out, mro[bs[j]])
             /\ ~r.ok => ~ \E order \in Order :
                             /\ Elements(order) = all /\ Respects(order, bs)
                             /\ \A j \in DOMAIN bs : Respects(order, mro[bs[j]])
<1> DEFINE all == UNION {Elements(mro[b]) : b \in Elements(bs)}
<1>1. HeapTyped /\ mro \in Seq(Seq(Class)) /\ DOMAIN mro = Class
  BY DEF Hierarchy, HeapTyped, Class
<1>2. PICK n \in Nat : n = Len(bs) /\ DOMAIN bs = 1 .. n /\ \A j \in 1 .. n : bs[j] \in Class
  BY SeqTyped
<1>3. PICK seqs \in Seq(Seq(Class)) : seqs = Merged(bs)
  BY <1>1, MergedAre
<1>4. /\ \A j \in 1 .. n : j \in DOMAIN seqs /\ seqs[j] = mro[bs[j]]
      /\ bs # <<>> => \E j \in DOMAIN seqs : seqs[j] = bs
      /\ \A j \in DOMAIN seqs : (j \in 1 .. n /\ seqs[j] = mro[bs[j]]) \/ seqs[j] = bs
  <2>1. /\ \A j \in DOMAIN bs : j \in DOMAIN Merged(bs) /\ Merged(bs)[j] = mro[bs[j]]
        /\ bs # <<>> => \E j \in DOMAIN Merged(bs) : Merged(bs)[j] = bs
        /\ \A j \in DOMAIN Merged(bs) :
             \/ j \in DOMAIN bs /\ Merged(bs)[j] = mro[bs[j]]
             \/ Merged(bs)[j] = bs
    BY <1>1, MergedAre
  <2> QED BY <1>2, <1>3, <2>1, Zenon
<1>5. \A c \in Class : Distinct(mro[c]) /\ c \in Elements(mro[c])
  <2> TAKE c \in Class
  <2>1. Placed(mro[c], bases[c], mro, c)
    BY DEF Hierarchy
  <2>2. 1 \in DOMAIN mro[c]
    <3>1. mro[c] \in Seq(1 .. c) /\ mro[c] # <<>>
      BY <2>1 DEF Placed
    <3>2. PICK m \in Nat : m = Len(mro[c]) /\ DOMAIN mro[c] = 1 .. m /\ m # 0
      BY <3>1
    <3> QED BY <3>2
  <2> QED BY <2>1, <2>2 DEF Placed, Elements
<1>6. \A j \in DOMAIN seqs : Distinct(seqs[j])
  BY <1>2, <1>4, <1>5
<1>7. PICK r : r = Linearize(bs) /\ r = Merge(seqs)
  BY <1>3 DEF Linearize, Merged
<1>8. /\ r.ok \in BOOLEAN /\ r.out \in Seq(Class) /\ Distinct(r.out)
      /\ \A j \in DOMAIN seqs : Respects(r.out, seqs[j])
      /\ r.ok => Elements(r.out) = UNION {Elements(seqs[j]) : j \in DOMAIN seqs}
      /\ ~r.ok => ~ \E order \in Order : Agrees(order, seqs)
  BY <1>1, <1>6, <1>7, MergeExact
<1>9. \A e : e \in Elements(bs) <=> \E j \in 1 .. n : e = bs[j]
  BY <1>2 DEF Elements
<1>10. \A e : e \in all <=> \E j \in 1 .. n : e \in Elements(mro[bs[j]])
  BY <1>9
<1> HIDE DEF all
<1>11. Elements(bs) \subseteq all
  BY <1>2, <1>5, <1>9, <1>10
<1>12. \A j \in DOMAIN seqs : Elements(seqs[j]) \subseteq all
  BY <1>4, <1>10, <1>11
<1>13. UNION {Elements(seqs[j]) : j \in DOMAIN seqs} = all
  <2>1. ASSUME NEW e \in all PROVE \E j \in DOMAIN seqs : e \in Elements(seqs[j])
    BY <1>4, <1>10
  <2> QED BY <1>12, <2>1
<1>14. Respects(r.out, bs)
  <2>1. bs = <<>> => \A j \in DOMAIN bs : FALSE
    BY <1>2
  <2>2. CASE bs = <<>>
    BY <2>1, <2>2 DEF Respects
  <2>3. CASE bs # <<>>
    BY <1>4, <1>8, <2>3
  <2> QED BY <2>2, <2>3
<1>15. \A j \in 1 .. n : Respects(r.out, mro[bs[j]])
  BY <1>4, <1>8
<1>16. ASSUME ~r.ok, NEW order \in Order, Elements(order) = all, Respects(order, bs),
              \A j \in DOMAIN bs : Respects(order, mro[bs[j]])
       PROVE  FALSE
  <2>1. ASSUME NEW j \in DOMAIN seqs
        PROVE  Elements(seqs[j]) \subseteq Elements(order) /\ Respects(order, seqs[j])
    BY <1>2, <1>4, <1>12, <1>16
  <2>2. Agrees(order, seqs)
    BY <2>1 DEF Agrees
  <2> QED BY <1>8, <1>16, <2>2
<1> QED BY <1>2, <1>7, <1>8, <1>13, <1>14, <1>15, <1>16 DEF all

LEMMA BaseListsAre ==
  ASSUME NEW bs \in BaseLists
  PROVE  bs \in Seq(Class) /\ Distinct(bs)
<1>1. PICK n \in 0 .. MaxBases : bs \in [1 .. n -> Class]
  BY DEF BaseLists
<1>2. n \in Nat
  BY ClassesAssumption
<1>3. bs \in Seq(Class)
  BY <1>1, <1>2
<1>4. Distinct(bs)
  BY Zenon DEF BaseLists, Distinct
<1> QED BY <1>3, <1>4

(* The invariant gives what the property says of the program's classes. *)
LEMMA HierarchyMeans == Hierarchy => LinearizationExact
<1> SUFFICES ASSUME Hierarchy PROVE LinearizationExact
  OBVIOUS
<1>1. HeapTyped
  BY DEF Hierarchy
<1>2. PICK N \in Nat : N = Len(mro) /\ Class = 1 .. N /\ DOMAIN mro = 1 .. N /\ DOMAIN bases = 1 .. N
  BY <1>1, Numbered
<1>3. ASSUME NEW c \in Class PROVE mro[c][1] = c /\ Consistent(Tail(mro[c]), bases[c])
  <2>1. Placed(mro[c], bases[c], mro, c)
    BY DEF Hierarchy
  <2>2. PICK s \in Seq(1 .. c) : s = mro[c] /\ s # <<>>
    BY <2>1 DEF Placed
  <2>3. PICK m \in Nat : m = Len(s) /\ DOMAIN s = 1 .. m
    BY SeqTyped
  <2>4. PICK t \in Seq(1 .. c) : t = Tail(s) /\ Len(t) = m - 1 /\ \A l \in 1 .. m - 1 : t[l] = s[l + 1]
    <3>1. /\ Tail(s) \in Seq(1 .. c) /\ Len(Tail(s)) = Len(s) - 1
          /\ \A l \in 1 .. Len(Tail(s)) : Tail(s)[l] = s[l + 1]
      BY <2>2, HeadTailProperties
    <3>2. PICK t : t = Tail(s)
      OBVIOUS
    <3> QED BY <2>3, <3>1, <3>2
  <2>5. Distinct(t)
    <3>1. DOMAIN t = 1 .. m - 1
      BY <2>4
    <3>2. \A j \in 1 .. m - 1 : j + 1 \in 1 .. m
      BY <2>3
    <3>3. \A j, l \in 1 .. m : s[j] = s[l] => j = l
      BY <2>1, <2>2, <2>3 DEF Placed, Distinct
    <3>4. \A j, l \in 1 .. m - 1 : t[j] = t[l] => j + 1 = l + 1
      BY <2>4, <3>2, <3>3
    <3> QED BY <3>1, <3>4 DEF Distinct
  <2>6. Cardinality(Elements(t)) = Len(t)
    BY <2>5, DistinctCardinality
  <2>7. Elements(bases[c]) \in SUBSET Class
    <3>1. bases[c] \in Seq(Class)
      BY <1>1, <1>2 DEF HeapTyped
    <3> QED BY <3>1, SeqTyped DEF Elements
  <2>8. Elements(t) = Ancestors(Elements(bases[c]))
    <3>1. Elements(t) = UNION {Elements(mro[b]) : b \in Elements(bases[c])}
      BY <2>1, <2>2, <2>4 DEF Placed
    <3>2. Ancestors(Elements(bases[c])) = UNION {Elements(mro[b]) : b \in Elements(bases[c])}
      BY <2>7, AncestorsAre
    <3> QED BY <3>1, <3>2
  <2>9. Respects(t, bases[c]) /\ \A j \in DOMAIN bases[c] : Respects(t, mro[bases[c][j]])
    BY <2>1, <2>2, <2>4 DEF Placed
  <2>10. Consistent(t, bases[c])
    BY <2>6, <2>8, <2>9 DEF Consistent
  <2> QED BY <2>1, <2>2, <2>4, <2>10 DEF Placed
<1>4. MroConsistent
  BY <1>3 DEF MroConsistent
<1>5. ASSUME NEW bs \in BaseLists, ~Linearize(bs).ok,
             NEW order \in [1 .. Cardinality(Ancestors(Elements(bs))) -> Ancestors(Elements(bs))],
             Consistent(order, bs)
      PROVE  FALSE
  <2>1. bs \in Seq(Class) /\ Distinct(bs)
    BY BaseListsAre
  <2>2. Elements(bs) \in SUBSET Class
    BY <2>1, SeqTyped DEF Elements
  <2>3. PICK anc : anc = Ancestors(Elements(bs)) /\ anc = UNION {Elements(mro[b]) : b \in Elements(bs)}
    BY <2>2, AncestorsAre
  <2>4. anc \in SUBSET Class
    <3>1. \A c \in Class : mro[c] \in Seq(Class)
      BY <1>1, <1>2 DEF HeapTyped
    <3>2. \A c \in Class : Elements(mro[c]) \subseteq Class
      BY <3>1, SeqTyped DEF Elements
    <3> QED BY <2>2, <2>3, <3>2
  <2>5. Cardinality(anc) \in Nat
    <3>1. IsFiniteSet(Class)
      <4>1. 1 \in Int /\ N \in Int
        OBVIOUS
      <4> QED BY <1>2, <4>1, FS_Interval
    <3>2. IsFiniteSet(anc)
      BY <2>4, <3>1, FS_Subset
    <3> QED BY <3>2, FS_CardinalityType
  <2>6. order \in Order
    <3>1. PICK m \in Nat : m = Cardinality(anc)
      BY <2>5
    <3>2. order \in [1 .. m -> Class]
      BY <2>3, <2>4, <3>1
    <3> QED BY <3>2 DEF Order
  <2>7. /\ Elements(order) = UNION {Elements(mro[b]) : b \in Elements(bs)}
        /\ Respects(order, bs) /\ \A j \in DOMAIN bs : Respects(order, mro[bs[j]])
    BY <1>5, <2>3 DEF Consistent
  <2> QED BY <1>5, <2>1, <2>6, <2>7, LinearizeExact
<1>6. RefusedOnlyIfInconsistent
  BY <1>5 DEF RefusedOnlyIfInconsistent
<1> QED BY <1>4, <1>6 DEF LinearizationExact
-----------------------------------------------------------------------------
(* A class's place depends on earlier classes only. *)
LEMMA PlacedEarlier ==
  ASSUME NEW order, NEW bs, NEW m, NEW m2, NEW c \in Nat, Placed(order, bs, m, c),
         \A b \in 1 .. c - 1 : m2[b] = m[b]
  PROVE  Placed(order, bs, m2, c)
<1>1. PICK B : B = 1 .. c - 1
  OBVIOUS
<1>2. bs \in Seq(B)
  BY <1>1 DEF Placed
<1>3. \A j \in DOMAIN bs : bs[j] \in B
  BY <1>2, SeqTyped
<1>4. \A j \in DOMAIN bs : m2[bs[j]] = m[bs[j]]
  BY <1>1, <1>3
<1>5. \A b \in Elements(bs) : m2[b] = m[b]
  BY <1>4 DEF Elements
<1>6. UNION {Elements(m2[b]) : b \in Elements(bs)} = UNION {Elements(m[b]) : b \in Elements(bs)}
  BY <1>5
<1> QED BY <1>4, <1>6 DEF Placed

(* A class in front of the merged orders of its bases. *)
LEMMA InFront ==
  ASSUME NEW n \in Nat, NEW out \in Seq(1 .. n), Distinct(out)
  PROVE  LET order == <<n + 1>> \o out
         IN  /\ order \in Seq(1 .. n + 1) /\ order # <<>> /\ order[1] = n + 1
             /\ Distinct(order) /\ Tail(order) = out
<1>1. PICK h \in Nat : h = Len(out) /\ DOMAIN out = 1 .. h /\ \A j \in 1 .. h : out[j] \in 1 .. n
  BY SeqTyped
<1>2. PICK order : order = <<n + 1>> \o out
  OBVIOUS
<1>3. /\ order \in Seq(1 .. n + 1) /\ Len(order) = h + 1 /\ order[1] = n + 1
      /\ \A j \in 2 .. h + 1 : order[j] = out[j - 1]
  <2>1. <<n + 1>> \in Seq(1 .. n + 1) /\ out \in Seq(1 .. n + 1)
    OBVIOUS
  <2> QED BY <1>1, <1>2, <2>1
<1>4. DOMAIN order = 1 .. h + 1 /\ order # <<>>
  BY <1>3
<1>5. Distinct(order)
  <2> SUFFICES ASSUME NEW j \in 1 .. h + 1, NEW l \in 1 .. h + 1, order[j] = order[l]
               PROVE  j = l
    BY <1>4 DEF Distinct
  <2>1. \A k \in 1 .. h + 1 : k = 1 \/ (k \in 2 .. h + 1 /\ k - 1 \in 1 .. h)
    OBVIOUS
  <2>2. \A k \in 1 .. h : out[k] # n + 1
    BY <1>1
  <2>3. CASE j = 1 \/ l = 1
    BY <1>3, <2>1, <2>2, <2>3
  <2>4. CASE j # 1 /\ l # 1
    <3>1. j \in 2 .. h + 1 /\ l \in 2 .. h + 1 /\ j - 1 \in 1 .. h /\ l - 1 \in 1 .. h
      BY <2>1, <2>4
    <3>2. out[j - 1] = out[l - 1]
      BY <1>3, <3>1
    <3>3. j - 1 = l - 1
      BY <1>1, <3>1, <3>2 DEF Distinct
    <3> QED BY <3>3
  <2> QED BY <2>3, <2>4
<1>6. Tail(order) = out
  <2>1. PICK t \in Seq(1 .. n + 1) : t = Tail(order) /\ Len(t) = h /\ \A l \in 1 .. h : t[l] = order[l + 1]
    <3>1. /\ Tail(order) \in Seq(1 .. n + 1) /\ Len(Tail(order)) = Len(order) - 1
          /\ \A l \in 1 .. Len(Tail(order)) : Tail(order)[l] = order[l + 1]
      BY <1>3, <1>4, HeadTailProperties
    <3>2. PICK t : t = Tail(order)
      OBVIOUS
    <3>3. Len(order) - 1 = h
      BY <1>3
    <3>4. t \in Seq(1 .. n + 1) /\ Len(t) = h /\ \A l \in 1 .. h : t[l] = order[l + 1]
      BY <3>1, <3>2, <3>3
    <3> QED BY <3>2, <3>4
  <2>2. \A l \in 1 .. h : l + 1 \in 2 .. h + 1 /\ (l + 1) - 1 = l
    OBVIOUS
  <2>3. \A l \in 1 .. h : t[l] = out[l]
    BY <1>3, <2>1, <2>2
  <2>4. out \in Seq(1 .. n + 1)
    OBVIOUS
  <2> QED BY <1>1, <2>1, <2>3, <2>4, SeqEqual
<1> QED BY <1>2, <1>3, <1>4, <1>5, <1>6

LEMMA MakeClassKeepsHierarchy ==
  ASSUME Hierarchy, NEW bs \in BaseLists, NEW m \in Members, MakeClass(bs, m)
  PROVE  Hierarchy'
<1>1. bs \in Seq(Class) /\ Distinct(bs)
  BY BaseListsAre
<1>2. PICK r : /\ r = Linearize(bs)
               /\ \/ /\ r.ok /\ bases' = Append(bases, bs)
                     /\ mro' = Append(mro, <<Len(mro) + 1>> \o r.out)
                  \/ UNCHANGED <<bases, mro>>
  BY DEF MakeClass, heap
<1>3. CASE UNCHANGED <<bases, mro>>
  BY <1>3 DEF Hierarchy, HeapTyped, Class
<1>4. CASE /\ r.ok /\ bases' = Append(bases, bs)
           /\ mro' = Append(mro, <<Len(mro) + 1>> \o r.out)
  <2>1. HeapTyped
    BY DEF Hierarchy
  <2>2. PICK N \in Nat : N = Len(mro) /\ Class = 1 .. N /\ DOMAIN mro = 1 .. N /\ DOMAIN bases = 1 .. N
    BY <2>1, Numbered
  <2>3. /\ r.out \in Seq(1 .. N) /\ Distinct(r.out)
        /\ Elements(r.out) = UNION {Elements(mro[b]) : b \in Elements(bs)}
        /\ Respects(r.out, bs) /\ \A j \in DOMAIN bs : Respects(r.out, mro[bs[j]])
    BY <1>1, <1>2, <1>4, <2>2, LinearizeExact
  <2>4. PICK order : order = <<N + 1>> \o r.out
    OBVIOUS
  <2>5. /\ order \in Seq(1 .. N + 1) /\ order # <<>> /\ order[1] = N + 1
        /\ Distinct(order) /\ Tail(order) = r.out
    <3>1. PICK out \in Seq(1 .. N) : out = r.out
      BY <2>3
    <3> QED BY <2>3, <2>4, <3>1, InFront
  <2>6. Placed(order, bs, mro, N + 1)
    <3>1. (N + 1) - 1 = N
      OBVIOUS
    <3> QED BY <1>1, <2>2, <2>3, <2>5, <3>1 DEF Placed
  <2>7. /\ mro' \in Seq(Seq(1 .. N + 1)) /\ Len(mro') = N + 1 /\ mro'[N + 1] = order
        /\ \A c \in 1 .. N : mro'[c] = mro[c]
    <3>1. mro \in Seq(Seq(1 .. N + 1))
      <4>1. Seq(1 .. N) \subseteq Seq(1 .. N + 1)
        OBVIOUS
      <4>2. mro \in Seq(Seq(1 .. N))
        BY <2>1, <2>2 DEF HeapTyped
      <4> QED BY <4>1, <4>2
    <3>2. PICK Q : Q = Seq(1 .. N + 1)
      OBVIOUS
    <3>3. mro \in Seq(Q) /\ order \in Q /\ mro' = Append(mro, order)
      BY <1>4, <2>2, <2>4, <2>5, <3>1, <3>2
    <3> QED BY <2>2, <3>2, <3>3, Appended
  <2>8. /\ bases' \in Seq(Seq(1 .. N + 1)) /\ Len(bases') = N + 1 /\ bases'[N + 1] = bs
        /\ \A c \in 1 .. N : bases'[c] = bases[c]
    <3>1. bases \in Seq(Seq(1 .. N + 1)) /\ bs \in Seq(1 .. N + 1)
      <4>1. Seq(1 .. N) \subseteq Seq(1 .. N + 1)
        OBVIOUS
      <4>2. bases \in Seq(Seq(1 .. N)) /\ bs \in Seq(1 .. N)
        BY <1>1, <2>1, <2>2 DEF HeapTyped
      <4> QED BY <4>1, <4>2
    <3>2. PICK Q : Q = Seq(1 .. N + 1)
      OBVIOUS
    <3>3. bases \in Seq(Q) /\ bs \in Q /\ bases' = Append(bases, bs)
      BY <1>4, <3>1, <3>2
    <3>4. Len(bases) = N
      BY <2>1, <2>2 DEF HeapTyped
    <3> QED BY <3>2, <3>3, <3>4, Appended
  <2>9. Class' = 1 .. N + 1
    BY <2>7 DEF Class
  <2>10. HeapTyped'
    BY <2>7, <2>8, <2>9 DEF HeapTyped
  <2>11. ASSUME NEW c \in 1 .. N + 1 PROVE Placed(mro'[c], bases'[c], mro', c)
    <3>1. \A b \in 1 .. c - 1 : mro'[b] = mro[b]
      <4>1. \A b \in 1 .. c - 1 : b \in 1 .. N
        OBVIOUS
      <4> QED BY <2>7, <4>1
    <3>2. CASE c \in 1 .. N
      <4>1. mro'[c] = mro[c] /\ bases'[c] = bases[c]
        BY <2>7, <2>8, <3>2
      <4>2. Placed(mro[c], bases[c], mro, c)
        BY <2>2, <3>2 DEF Hierarchy
      <4>3. Placed(mro[c], bases[c], mro', c)
        BY <3>1, <4>2, PlacedEarlier
      <4> QED BY <4>1, <4>3
    <3>3. CASE c = N + 1
      <4>1. Placed(order, bs, mro', N + 1)
        BY <2>6, <3>1, <3>3, PlacedEarlier
      <4> QED BY <2>7, <2>8, <3>3, <4>1
    <3>4. c \in 1 .. N \/ c = N + 1
      OBVIOUS
    <3> QED BY <3>2, <3>3, <3>4
  <2> QED BY <2>9, <2>10, <2>11 DEF Hierarchy
<1> QED BY <1>2, <1>3, <1>4

(* Only makeClass changes the hierarchy. *)
LEMMA HierarchyStep == Hierarchy /\ [Next]_vars => Hierarchy'
<1> SUFFICES ASSUME Hierarchy, [Next]_vars PROVE Hierarchy'
  OBVIOUS
<1>1. ASSUME UNCHANGED <<bases, mro>> PROVE Hierarchy'
  BY <1>1 DEF Hierarchy, HeapTyped, Class
<1>2. CASE \E bs \in BaseLists, m \in Members : MakeClass(bs, m)
  BY <1>2, MakeClassKeepsHierarchy
<1>3. CASE \E c \in Class : Construct(c)
  BY <1>1, <1>3 DEF Construct
<1>4. ASSUME NEW order, NEW inst, NEW k, NEW g, NEW via, CallAttr(order, inst, k, g, via)
      PROVE  UNCHANGED <<bases, mro>>
  BY <1>4 DEF CallAttr, heap
<1>5. ASSUME NEW c, NEW r, NEW g, NEW via, CallOnSuper(c, r, g, via)
      PROVE  UNCHANGED <<bases, mro>>
  BY <1>4, <1>5 DEF CallOnSuper, heap
<1>6. CASE \E g \in {InstVal(i) : i \in Inst} \cup {Nothing} :
             \/ \E i \in Inst : CallOnInstance(i, g)
             \/ \E c \in Class : CallOnClass(c, g) \/ \E r \in Receivers : Super2(c, r, g)
             \/ Super0(g)
  BY <1>1, <1>4, <1>5, <1>6 DEF CallOnInstance, CallOnClass, Super2, Super0, heap
<1>7. CASE Return \/ Fail \/ Unwind
  BY <1>1, <1>7 DEF Return, Fail, Unwind, heap
<1>8. CASE UNCHANGED vars
  BY <1>1, <1>8 DEF vars, heap
<1> QED BY <1>2, <1>3, <1>6, <1>7, <1>8 DEF Next

LEMMA HierarchyInit == Init => Hierarchy
<1> SUFFICES ASSUME Init PROVE Hierarchy
  OBVIOUS
<1>1. DOMAIN mro = {} /\ bases = <<>> /\ mro = <<>>
  BY DEF Init
<1>2. HeapTyped
  BY <1>1 DEF HeapTyped, Class
<1> QED BY <1>1, <1>2 DEF Hierarchy, Class

(* Of any program's classes: the method resolution order of a class is     *)
(* consistent, and classes are refused as inconsistent only if no order of *)
(* their ancestors is (linearize, c3merge).                                *)
THEOREM MergeFindsTheOrder == Spec => []LinearizationExact
<1>1. Init => Hierarchy
  BY HierarchyInit
<1>2. Hierarchy /\ [Next]_vars => Hierarchy'
  BY HierarchyStep
<1>3. Hierarchy => LinearizationExact
  BY HierarchyMeans
<1> QED BY <1>1, <1>2, <1>3, PTL DEF Spec
-----------------------------------------------------------------------------
(* The contexts of the first k frames, from those of the first k - 1. *)
Listed(frames, k, before) ==
  IF frames[k].kind = "bound"
  THEN Append(before, [class |-> frames[k].class, recv |-> frames[k].recv])
  ELSE before

(* f is the recursion of Contexts, over the first n frames. *)
Listing(frames, f, n) ==
  f = [k \in 0 .. n |-> IF k = 0 THEN <<>> ELSE Listed(frames, k, f[k - 1])]

LEMMA ListingExists == ASSUME NEW frames, NEW n \in Nat PROVE \E f : Listing(frames, f, n)
<1> DEFINE T == {m \in Nat : \E f : Listing(frames, f, m)}
<1>1. 0 \in T
  <2>1. Listing(frames, [k \in 0 .. 0 |-> <<>>], 0)
    BY DEF Listing
  <2> QED BY <2>1
<1>2. ASSUME NEW m \in Nat, m \in T PROVE m + 1 \in T
  <2>1. PICK f : Listing(frames, f, m)
    BY <1>2
  <2> DEFINE g == [k \in 0 .. m + 1 |-> IF k = 0 THEN <<>> ELSE Listed(frames, k, f[k - 1])]
             G(k) == IF k = 0 THEN <<>> ELSE Listed(frames, k, g[k - 1])
  <2>2. f = [k \in 0 .. m |-> IF k = 0 THEN <<>> ELSE Listed(frames, k, f[k - 1])]
    BY <2>1 DEF Listing
  <2>3. \A k \in 0 .. m : f[k] = g[k]
    <3> TAKE k \in 0 .. m
    <3>1. f[k] = IF k = 0 THEN <<>> ELSE Listed(frames, k, f[k - 1])
      BY <2>2
    <3>2. k \in 0 .. m + 1
      OBVIOUS
    <3> QED BY <3>1, <3>2
  <2>4. \A k \in 0 .. m + 1 : k # 0 => k - 1 \in 0 .. m
    OBVIOUS
  <2>5. \A k \in 0 .. m + 1 : g[k] = G(k)
    <3> TAKE k \in 0 .. m + 1
    <3>1. g[k] = IF k = 0 THEN <<>> ELSE Listed(frames, k, f[k - 1])
      OBVIOUS
    <3>2. k # 0 => f[k - 1] = g[k - 1]
      BY <2>3, <2>4
    <3> HIDE DEF g
    <3> QED BY <3>1, <3>2
  <2>6. g = [k \in 0 .. m + 1 |-> g[k]]
    OBVIOUS
  <2> HIDE DEF g, G
  <2>7. [k \in 0 .. m + 1 |-> g[k]] = [k \in 0 .. m + 1 |-> G(k)]
    BY <2>5
  <2>8. Listing(frames, g, m + 1)
    BY <2>6, <2>7 DEF Listing, G
  <2> QED BY <2>8
<1>3. Nat \subseteq T
  <2> HIDE DEF T
  <2> QED BY <1>1, <1>2, SetInduction
<1> QED BY <1>3

LEMMA ListingValues ==
  ASSUME NEW frames, NEW f, NEW n \in Nat, Listing(frames, f, n)
  PROVE  f[0] = <<>> /\ \A k \in 1 .. n : f[k] = Listed(frames, k, f[k - 1])
<1>1. \A k \in 0 .. n : f[k] = IF k = 0 THEN <<>> ELSE Listed(frames, k, f[k - 1])
  BY DEF Listing
<1>2. 0 \in 0 .. n /\ \A k \in 1 .. n : k \in 0 .. n /\ k # 0
  OBVIOUS
<1> QED BY <1>1, <1>2

LEMMA ContextsListed ==
  ASSUME NEW frames, NEW n \in Nat, Len(frames) = n
  PROVE  \E f : Listing(frames, f, n) /\ Contexts(frames) = f[n]
<1> DEFINE upto == CHOOSE f : Listing(frames, f, n)
<1>1. Listing(frames, upto, n)
  <2>1. \E f : Listing(frames, f, n)
    BY ListingExists
  <2> QED BY <2>1, Zenon
<1>2. Contexts(frames) = upto[n]
  BY DEF Contexts, Listing, Listed
<1> HIDE DEF upto
<1> QED BY <1>1, <1>2

LEMMA ListingsAgree ==
  ASSUME NEW s, NEW t, NEW f, NEW g, NEW n \in Nat, NEW m \in Nat, NEW k \in Nat,
         Listing(s, f, n), Listing(t, g, m), k <= n, k <= m, \A j \in 1 .. k : s[j] = t[j]
  PROVE  f[k] = g[k]
<1> DEFINE T == {j \in Nat : j <= k => f[j] = g[j]}
<1>1. /\ f[0] = <<>> /\ \A j \in 1 .. n : f[j] = Listed(s, j, f[j - 1])
      /\ g[0] = <<>> /\ \A j \in 1 .. m : g[j] = Listed(t, j, g[j - 1])
  BY ListingValues
<1>2. 0 \in T
  BY <1>1
<1>3. ASSUME NEW j \in Nat, j \in T PROVE j + 1 \in T
  <2> SUFFICES ASSUME j + 1 <= k PROVE f[j + 1] = g[j + 1]
    OBVIOUS
  <2>1. j + 1 \in 1 .. k /\ j + 1 \in 1 .. n /\ j + 1 \in 1 .. m /\ (j + 1) - 1 = j /\ j <= k
    OBVIOUS
  <2>2. f[j] = g[j]
    BY <1>3, <2>1
  <2>3. f[j + 1] = Listed(s, j + 1, f[j]) /\ g[j + 1] = Listed(t, j + 1, g[j])
    BY <1>1, <2>1
  <2> QED BY <2>1, <2>2, <2>3 DEF Listed
<1>4. Nat \subseteq T
  <2> HIDE DEF T
  <2> QED BY <1>2, <1>3, SetInduction
<1> QED BY <1>4

LEMMA ListingTyped ==
  ASSUME NEW F, NEW C, \A r \in F : [class |-> r.class, recv |-> r.recv] \in C,
         NEW s \in Seq(F), NEW n \in Nat, n = Len(s), NEW f, Listing(s, f, n)
  PROVE  \A k \in 0 .. n : f[k] \in Seq(C)
<1> DEFINE T == {k \in Nat : k <= n => f[k] \in Seq(C)}
<1>1. f[0] = <<>> /\ \A k \in 1 .. n : f[k] = Listed(s, k, f[k - 1])
  BY ListingValues
<1>2. 0 \in T
  <2>1. f[0] \in Seq(C)
    BY <1>1, EmptySeq
  <2> QED BY <2>1
<1>3. ASSUME NEW k \in Nat, k \in T PROVE k + 1 \in T
  <2> SUFFICES ASSUME k + 1 <= n PROVE f[k + 1] \in Seq(C)
    OBVIOUS
  <2>1. k + 1 \in 1 .. n /\ (k + 1) - 1 = k /\ k <= n
    OBVIOUS
  <2>2. f[k] \in Seq(C) /\ f[k + 1] = Listed(s, k + 1, f[k])
    BY <1>1, <1>3, <2>1
  <2>3. s[k + 1] \in F
    BY <2>1, SeqTyped
  <2>4. PICK e \in C : e = [class |-> s[k + 1].class, recv |-> s[k + 1].recv]
    BY <2>3
  <2>5. Append(f[k], e) \in Seq(C)
    BY <2>2, <2>4
  <2> QED BY <2>2, <2>4, <2>5 DEF Listed
<1>4. Nat \subseteq T
  <2> HIDE DEF T
  <2> QED BY <1>2, <1>3, SetInduction
<1> QED BY <1>4

AppendsAfter(S) ==
  \A a, b \in Seq(S) : \A e \in S : Append(a \o b, e) = a \o Append(b, e)

LEMMA AppendAfter == \A S : AppendsAfter(S)
BY DEF AppendsAfter

(* The contexts of frames over which others are pushed come first. *)
LEMMA ContextsConcat ==
  ASSUME NEW F, NEW C, \A r \in F : [class |-> r.class, recv |-> r.recv] \in C,
         NEW s \in Seq(F), NEW t \in Seq(F)
  PROVE  /\ Contexts(s) \in Seq(C) /\ Contexts(t) \in Seq(C)
         /\ Contexts(s \o t) = Contexts(s) \o Contexts(t)
<1>1. PICK a \in Nat : a = Len(s) /\ DOMAIN s = 1 .. a /\ \A j \in 1 .. a : s[j] \in F
  BY SeqTyped
<1>2. PICK b \in Nat : b = Len(t) /\ DOMAIN t = 1 .. b /\ \A j \in 1 .. b : t[j] \in F
  BY SeqTyped
<1>3. PICK u : u = s \o t /\ Len(u) = a + b /\ (\A j \in 1 .. a : u[j] = s[j])
               /\ \A j \in 1 .. b : u[a + j] = t[j]
  <2>1. PICK u : u = s \o t
    OBVIOUS
  <2>2. Len(u) = a + b /\ (\A j \in 1 .. a : u[j] = s[j]) /\ \A j \in 1 .. b : u[a + j] = t[j]
    BY <1>1, <1>2, <2>1
  <2> QED BY <2>1, <2>2
<1>4. PICK f : Listing(s, f, a) /\ Contexts(s) = f[a]
  BY <1>1, ContextsListed
<1>5. PICK g : Listing(t, g, b) /\ Contexts(t) = g[b]
  BY <1>2, ContextsListed
<1>6. a + b \in Nat
  OBVIOUS
<1>7. PICK h : Listing(u, h, a + b) /\ Contexts(u) = h[a + b]
  BY <1>3, <1>6, ContextsListed, ZenonT(60)
<1>8. h[a] = f[a]
  <2>1. a <= a + b /\ a <= a /\ (\A j \in 1 .. a : s[j] = u[j])
    BY <1>3
  <2>2. PICK n \in Nat : n = a + b
    BY <1>6
  <2>3. Listing(s, f, a) /\ Listing(u, h, n) /\ a <= n
    BY <1>4, <1>7, <2>1, <2>2
  <2>4. f[a] = h[a]
    BY <2>1, <2>3, ListingsAgree
  <2> QED BY <2>4
<1>9. f[a] \in Seq(C) /\ \A k \in 0 .. b : g[k] \in Seq(C)
  BY <1>1, <1>2, <1>4, <1>5, ListingTyped
<1>10. h[a + b] = f[a] \o g[b]
  <2> DEFINE Holds(k) == h[a + k] = f[a] \o g[k]
             T == {k \in Nat : k <= b => Holds(k)}
  <2>1. 0 \in T
    <3>1. g[0] = <<>> /\ a + 0 = a
      BY <1>5, ListingValues
    <3>2. f[a] = f[a] \o <<>>
      BY <1>9
    <3>3. Holds(0)
      BY <1>8, <3>1, <3>2
    <3> HIDE DEF Holds
    <3> QED BY <3>3
  <2>2. ASSUME NEW k \in Nat, k \in T PROVE k + 1 \in T
    <3> SUFFICES ASSUME k + 1 <= b PROVE Holds(k + 1)
      <4> HIDE DEF Holds
      <4> QED OBVIOUS
    <3>1. /\ k + 1 \in 1 .. b /\ (k + 1) - 1 = k /\ k <= b /\ k + 1 \in Nat
          /\ a + (k + 1) \in 1 .. a + b /\ (a + (k + 1)) - 1 = a + k
      OBVIOUS
    <3>2. h[a + k] = f[a] \o g[k]
      <4>1. Holds(k)
        <5> HIDE DEF Holds
        <5> QED BY <2>2, <3>1
      <4> QED BY <4>1
    <3>3. g[k + 1] = Listed(t, k + 1, g[k])
      BY <1>5, <3>1, ListingValues
    <3>4. h[a + (k + 1)] = Listed(u, a + (k + 1), h[a + k])
      BY <1>6, <1>7, <3>1, ListingValues
    <3>5. g[k] \in Seq(C)
      <4>1. k \in 0 .. b
        BY <3>1
      <4> QED BY <1>9, <4>1
    <3>6. u[a + (k + 1)] = t[k + 1] /\ t[k + 1] \in F
      BY <1>2, <1>3, <3>1
    <3>7. PICK e \in C : e = [class |-> t[k + 1].class, recv |-> t[k + 1].recv]
      BY <3>6
    <3>8. Append(f[a] \o g[k], e) = f[a] \o Append(g[k], e)
      <4>1. AppendsAfter(C)
        BY AppendAfter
      <4> QED BY <1>9, <3>5, <4>1, Zenon DEF AppendsAfter
    <3>9. h[a + (k + 1)] = f[a] \o g[k + 1]
      BY <3>2, <3>3, <3>4, <3>6, <3>7, <3>8 DEF Listed
    <3> QED BY <3>9
  <2>3. Nat \subseteq T
    <3> HIDE DEF T
    <3> QED BY <2>1, <2>2, SetInduction
  <2>4. Holds(b)
    <3> HIDE DEF Holds
    <3> QED BY <2>3
  <2> QED BY <2>4
<1>11. b \in 0 .. b
  OBVIOUS
<1> QED BY <1>3, <1>4, <1>5, <1>7, <1>9, <1>10, <1>11

LEMMA NoContexts == Contexts(<<>>) = <<>>
<1>1. Len(<<>>) = 0
  OBVIOUS
<1>2. PICK f : Listing(<<>>, f, 0) /\ Contexts(<<>>) = f[0]
  BY <1>1, ContextsListed
<1> QED BY <1>2, ListingValues
-----------------------------------------------------------------------------
Frames(C, R) ==
  [kind : {"fn", "bound", "class"}, class : C, recv : R, via : {"call", "super"}]

(* The frames and contexts of a thread: a function on top, and under each  *)
(* function called as a bound method its "bound" frame, whose context is   *)
(* in the list.                                                            *)
Stacked(C, R, st, cx) ==
  /\ st \in Seq(Frames(C, R))
  /\ cx = Contexts(st)
  /\ st # <<>> => st[Len(st)].kind = "fn"
  /\ \A d \in DOMAIN st : st[d].kind = "bound" =>
       /\ d + 1 \in DOMAIN st /\ st[d + 1].kind = "fn"
       /\ st[d + 1].class = st[d].class /\ st[d + 1].recv = st[d].recv

LEMMA ContextsTyped ==
  ASSUME NEW C, NEW R, NEW st, NEW cx, Stacked(C, R, st, cx)
  PROVE  cx \in Seq([class : C, recv : R])
<1>1. \A r \in Frames(C, R) : [class |-> r.class, recv |-> r.recv] \in [class : C, recv : R]
  BY DEF Frames
<1>2. st \in Seq(Frames(C, R))
  BY DEF Stacked
<1>3. Contexts(st) \in Seq([class : C, recv : R])
  <2>1. PICK F : F = Frames(C, R)
    OBVIOUS
  <2>2. PICK K : K = [class : C, recv : R]
    OBVIOUS
  <2>3. \A r \in F : [class |-> r.class, recv |-> r.recv] \in K
    BY <1>1, <2>1, <2>2
  <2>4. st \in Seq(F)
    BY <1>2, <2>1
  <2>5. Contexts(st) \in Seq(K)
    BY <2>3, <2>4, ContextsConcat
  <2> QED BY <2>2, <2>5
<1> QED BY <1>3 DEF Stacked

LEMMA StackedGrows ==
  ASSUME NEW C, NEW R, NEW st, NEW cx, Stacked(C, R, st, cx),
         NEW D, NEW Q, C \subseteq D, R \subseteq Q
  PROVE  Stacked(D, Q, st, cx)
<1>1. Frames(C, R) \subseteq Frames(D, Q)
  BY DEF Frames
<1>2. st \in Seq(Frames(D, Q))
  <2>1. PICK F : F = Frames(C, R)
    OBVIOUS
  <2>2. PICK G : G = Frames(D, Q)
    OBVIOUS
  <2>3. st \in Seq(F) /\ F \subseteq G
    BY <1>1, <2>1, <2>2 DEF Stacked
  <2>4. st \in Seq(G)
    BY <2>3
  <2> QED BY <2>2, <2>4
<1> QED BY <1>2 DEF Stacked

(* A call pushes the frames of one function. *)
LEMMA StackedPush ==
  ASSUME NEW C, NEW R, NEW st, NEW cx, Stacked(C, R, st, cx),
         NEW new, new # <<>>, Stacked(C, R, new, Contexts(new))
  PROVE  Stacked(C, R, st \o new, cx \o Contexts(new))
<1>1. PICK F : F = Frames(C, R)
  OBVIOUS
<1>2. st \in Seq(F) /\ new \in Seq(F)
  BY <1>1 DEF Stacked
<1>3. PICK a \in Nat : a = Len(st) /\ DOMAIN st = 1 .. a
  BY <1>2, SeqTyped
<1>4. PICK b \in Nat : b = Len(new) /\ DOMAIN new = 1 .. b /\ b # 0
  BY <1>2, SeqTyped
<1>5. PICK u : u = st \o new
  OBVIOUS
<1>6. /\ u \in Seq(F) /\ Len(u) = a + b /\ DOMAIN u = 1 .. a + b
      /\ (\A j \in 1 .. a : u[j] = st[j]) /\ \A j \in 1 .. b : u[a + j] = new[j]
  BY <1>2, <1>3, <1>4, <1>5
<1>7. Contexts(u) = Contexts(st) \o Contexts(new)
  <2>1. PICK K : K = [class : C, recv : R]
    OBVIOUS
  <2>2. \A r \in F : [class |-> r.class, recv |-> r.recv] \in K
    BY <1>1, <2>1 DEF Frames
  <2> QED BY <1>2, <1>5, <2>2, ContextsConcat
<1>8. u # <<>> /\ u[Len(u)].kind = "fn"
  <2>1. b \in 1 .. b
    BY <1>4
  <2>2. u[a + b] = new[b]
    BY <1>6, <2>1
  <2> QED BY <1>4, <1>6, <2>2 DEF Stacked
<1>9. ASSUME NEW d \in 1 .. a + b, u[d].kind = "bound"
      PROVE  /\ d + 1 \in 1 .. a + b /\ u[d + 1].kind = "fn"
             /\ u[d + 1].class = u[d].class /\ u[d + 1].recv = u[d].recv
  <2>1. CASE d \in 1 .. a
    <3>1. u[d] = st[d]
      BY <1>6, <2>1
    <3>2. d + 1 \in 1 .. a /\ st[d + 1].kind = "fn" /\ st[d + 1].class = st[d].class /\ st[d + 1].recv = st[d].recv
      <4>1. \A e \in DOMAIN st : st[e].kind = "bound" =>
              /\ e + 1 \in DOMAIN st /\ st[e + 1].kind = "fn"
              /\ st[e + 1].class = st[e].class /\ st[e + 1].recv = st[e].recv
        BY DEF Stacked
      <4>2. d \in DOMAIN st /\ st[d].kind = "bound"
        BY <1>3, <1>9, <2>1, <3>1
      <4> QED BY <1>3, <4>1, <4>2
    <3>3. u[d + 1] = st[d + 1] /\ d + 1 \in 1 .. a + b
      BY <1>6, <3>2
    <3> QED BY <3>1, <3>2, <3>3
  <2>2. CASE d \notin 1 .. a
    <3>1. PICK e \in 1 .. b : d = a + e
      <4>1. d - a \in 1 .. b /\ d = a + (d - a)
        BY <2>2
      <4> QED BY <4>1
    <3>2. u[d] = new[e]
      BY <1>6, <3>1
    <3>3. e + 1 \in 1 .. b /\ new[e + 1].kind = "fn" /\ new[e + 1].class = new[e].class /\ new[e + 1].recv = new[e].recv
      BY <1>4, <1>9, <3>2 DEF Stacked
    <3>4. d + 1 = a + (e + 1) /\ d + 1 \in 1 .. a + b
      BY <3>1, <3>3
    <3>5. u[d + 1] = new[e + 1]
      BY <1>6, <3>3, <3>4
    <3> QED BY <3>2, <3>3, <3>4, <3>5
  <2> QED BY <2>1, <2>2
<1> QED BY <1>1, <1>5, <1>6, <1>7, <1>8, <1>9 DEF Stacked

(* The frames of a call end together, and their contexts with them. *)
LEMMA StackedPop ==
  ASSUME NEW C, NEW R, NEW st, NEW cx, Stacked(C, R, st, cx),
         NEW k \in Nat, k <= Len(st), k = 0 \/ st[k].kind = "fn"
  PROVE  LET dropped == SubSeq(st, k + 1, Len(st))
         IN  Stacked(C, R, SubSeq(st, 1, k), SubSeq(cx, 1, Len(cx) - Len(Contexts(dropped))))
<1>1. PICK F : F = Frames(C, R)
  OBVIOUS
<1>2. st \in Seq(F)
  BY <1>1 DEF Stacked
<1>3. PICK a \in Nat : a = Len(st) /\ DOMAIN st = 1 .. a /\ k <= a
  BY <1>2, SeqTyped
<1>4. PICK s \in Seq(F) : s = SubSeq(st, 1, k) /\ Len(s) = k /\ \A j \in 1 .. k : s[j] = st[j]
  <2>1. SubSeq(st, 1, k) \in Seq(F)
    BY <1>2, <1>3
  <2>2. Len(SubSeq(st, 1, k)) = k /\ \A j \in 1 .. k : SubSeq(st, 1, k)[j] = st[j]
    BY <1>2, <1>3
  <2> QED BY <2>1, <2>2
<1>5. PICK t \in Seq(F) : t = SubSeq(st, k + 1, a) /\ Len(t) = a - k /\ \A j \in 1 .. a - k : t[j] = st[k + j]
  <2>1. SubSeq(st, k + 1, a) \in Seq(F)
    BY <1>2, <1>3
  <2>2. Len(SubSeq(st, k + 1, a)) = a - k /\ \A j \in 1 .. a - k : SubSeq(st, k + 1, a)[j] = st[k + j]
    BY <1>2, <1>3
  <2> QED BY <2>1, <2>2
<1>6. st = s \o t
  <2>1. PICK u : u = s \o t
    OBVIOUS
  <2>2. PICK b \in Nat : b = a - k /\ a = k + b
    <3>1. a - k \in Nat /\ a = k + (a - k)
      BY <1>3
    <3> QED BY <3>1
  <2>3. /\ u \in Seq(F) /\ Len(u) = a /\ (\A j \in 1 .. k : u[j] = s[j])
        /\ \A j \in 1 .. b : u[k + j] = t[j]
    <3>1. Len(s) = k /\ Len(t) = b
      BY <1>4, <1>5, <2>2
    <3>2. u \in Seq(F) /\ Len(u) = k + b
      BY <2>1, <3>1
    <3>3. /\ \A j \in 1 .. k + b : u[j] = IF j <= k THEN s[j] ELSE t[j - k]
          /\ \A j \in 1 .. k : j \in 1 .. k + b /\ j <= k
          /\ \A j \in 1 .. b : k + j \in 1 .. k + b /\ ~(k + j <= k) /\ (k + j) - k = j
      <4>1. \A j \in 1 .. Len(s) + Len(t) : u[j] = IF j <= Len(s) THEN s[j] ELSE t[j - Len(s)]
        BY <2>1, ConcatProperties, SMTT(60)
      <4>2. \A j \in 1 .. k + b : u[j] = IF j <= k THEN s[j] ELSE t[j - k]
        BY <3>1, <4>1, Zenon
      <4>3. \A j \in 1 .. k : j \in 1 .. k + b /\ j <= k
        OBVIOUS
      <4>4. \A j \in 1 .. b : k + j \in 1 .. k + b /\ ~(k + j <= k) /\ (k + j) - k = j
        OBVIOUS
      <4> QED BY <4>2, <4>3, <4>4, Zenon
    <3>4. (\A j \in 1 .. k : u[j] = s[j]) /\ \A j \in 1 .. b : u[k + j] = t[j]
      BY <3>3
    <3> QED BY <2>2, <3>2, <3>4
  <2>4. ASSUME NEW j \in 1 .. a PROVE u[j] = st[j]
    <3>1. CASE j \in 1 .. k
      BY <1>4, <2>3, <3>1
    <3>2. CASE j \notin 1 .. k
      <4>1. j - k \in 1 .. b /\ k + (j - k) = j
        BY <2>2, <3>2
      <4> QED BY <1>5, <2>2, <2>3, <4>1, ZenonT(60)
    <3> QED BY <3>1, <3>2
  <2> QED BY <1>2, <1>3, <2>1, <2>3, <2>4, SeqEqual
<1>7. PICK K : K = [class : C, recv : R]
  OBVIOUS
<1>8. /\ Contexts(s) \in Seq(K) /\ Contexts(t) \in Seq(K)
      /\ Contexts(s \o t) = Contexts(s) \o Contexts(t)
  <2>1. \A r \in F : [class |-> r.class, recv |-> r.recv] \in K
    BY <1>1, <1>7 DEF Frames
  <2> QED BY <2>1, ContextsConcat
<1>9. SubSeq(cx, 1, Len(cx) - Len(Contexts(t))) = Contexts(s)
  <2>1. PICK p \in Seq(K), q \in Seq(K) : p = Contexts(s) /\ q = Contexts(t)
    BY <1>8
  <2>2. PICK n \in Nat, m \in Nat : n = Len(p) /\ m = Len(q)
    OBVIOUS
  <2>3. PICK u : u = p \o q
    OBVIOUS
  <2>4. u \in Seq(K) /\ Len(u) = n + m /\ \A j \in 1 .. n : u[j] = p[j]
    BY <2>2, <2>3
  <2>5. (n + m) - m = n /\ n <= n + m
    OBVIOUS
  <2>6. PICK v \in Seq(K) : v = SubSeq(u, 1, n) /\ Len(v) = n /\ \A j \in 1 .. n : v[j] = u[j]
    <3>1. SubSeq(u, 1, n) \in Seq(K)
      BY <2>4, <2>5
    <3>2. Len(SubSeq(u, 1, n)) = n /\ \A j \in 1 .. n : SubSeq(u, 1, n)[j] = u[j]
      BY <2>4, <2>5
    <3> QED BY <3>1, <3>2
  <2>7. \A j \in 1 .. n : v[j] = p[j]
    BY <2>4, <2>6
  <2>8. v = p
    BY <2>2, <2>6, <2>7, SeqEqual
  <2>9. cx = u
    BY <1>6, <1>8, <2>1, <2>3 DEF Stacked
  <2> QED BY <2>1, <2>2, <2>4, <2>5, <2>6, <2>8, <2>9
<1>10. DOMAIN s = 1 .. k
  BY <1>4
<1>11. s # <<>> => s[Len(s)].kind = "fn"
  <2> SUFFICES ASSUME s # <<>> PROVE s[k].kind = "fn"
    BY <1>4
  <2>1. k # 0 /\ k \in 1 .. k
    BY <1>4
  <2> QED BY <1>4, <2>1
<1>12. ASSUME NEW d \in 1 .. k, s[d].kind = "bound"
       PROVE  /\ d + 1 \in 1 .. k /\ s[d + 1].kind = "fn"
              /\ s[d + 1].class = s[d].class /\ s[d + 1].recv = s[d].recv
  <2>1. s[d] = st[d] /\ d \in 1 .. a
    BY <1>3, <1>4
  <2>2. st[d + 1].kind = "fn" /\ st[d + 1].class = st[d].class /\ st[d + 1].recv = st[d].recv
    BY <1>3, <1>12, <2>1 DEF Stacked
  <2>3. d # k
    BY <1>12, <2>1
  <2>4. d + 1 \in 1 .. k
    BY <2>3
  <2>5. s[d + 1] = st[d + 1]
    BY <1>4, <2>4
  <2> QED BY <2>1, <2>2, <2>4, <2>5
<1>13. Stacked(C, R, s, Contexts(s))
  BY <1>1, <1>10, <1>11, <1>12 DEF Stacked
<1> QED BY <1>3, <1>4, <1>5, <1>9, <1>13

(* Where a bound method runs on top, its context is the last. *)
LEMMA TopContext ==
  ASSUME NEW C, NEW R, NEW st, NEW cx, Stacked(C, R, st, cx),
         NEW n \in Nat, n = Len(st), n >= 2, st[n - 1].kind = "bound"
  PROVE  cx # <<>> /\ cx[Len(cx)] = [class |-> st[n].class, recv |-> st[n].recv]
<1>1. PICK F : F = Frames(C, R)
  OBVIOUS
<1>2. PICK K : K = [class : C, recv : R]
  OBVIOUS
<1>3. st \in Seq(F) /\ DOMAIN st = 1 .. n /\ st # <<>>
  BY <1>1 DEF Stacked
<1>4. \A r \in F : [class |-> r.class, recv |-> r.recv] \in K
  BY <1>1, <1>2 DEF Frames
<1>5. PICK f : Listing(st, f, n) /\ Contexts(st) = f[n]
  BY ContextsListed
<1>6. \A k \in 0 .. n : f[k] \in Seq(K)
  BY <1>3, <1>4, <1>5, ListingTyped
<1>7. \A k \in 1 .. n : f[k] = Listed(st, k, f[k - 1])
  BY <1>5, ListingValues
<1>8. n \in 1 .. n /\ n - 1 \in 1 .. n /\ (n - 1) - 1 = n - 2 /\ n - 2 \in 0 .. n /\ (n - 1) + 1 = n
  OBVIOUS
<1>9. st[n].kind = "fn" /\ st[n].class = st[n - 1].class /\ st[n].recv = st[n - 1].recv
  BY <1>3, <1>8, ZenonT(60) DEF Stacked
<1>10. f[n] = f[n - 1]
  <2>1. f[n] = Listed(st, n, f[n - 1])
    BY <1>7, <1>8
  <2> QED BY <1>9, <2>1 DEF Listed
<1>11. PICK e : e = [class |-> st[n - 1].class, recv |-> st[n - 1].recv] /\ e \in K
  BY <1>3, <1>4, <1>8, SeqTyped
<1>12. f[n - 1] = Append(f[n - 2], e)
  <2>1. f[n - 1] = Listed(st, n - 1, f[n - 2])
    BY <1>7, <1>8
  <2> QED BY <1>11, <2>1 DEF Listed
<1>13. PICK p \in Seq(K) : p = f[n - 2]
  BY <1>6, <1>8
<1>14. PICK q : q = Append(p, e)
  OBVIOUS
<1>15. q # <<>> /\ q[Len(q)] = e
  <2>1. Len(q) = Len(p) + 1 /\ q[Len(p) + 1] = e /\ Len(p) \in Nat
    BY <1>11, <1>14, Appended
  <2> QED BY <2>1
<1>16. cx = q
  BY <1>5, <1>10, <1>12, <1>13, <1>14 DEF Stacked
<1> QED BY <1>9, <1>11, <1>15, <1>16
-----------------------------------------------------------------------------
(* The class that lookup finds along an order, where mb are the members. *)
Reached(mb, order) == order[First({j \in DOMAIN order : mb[order[j]] # "none"})]

(* The bound method of b is the next one after the function of f, in the   *)
(* order of the class of f's receiver.                                     *)
Follows(f, b, m, mb, cl) ==
  LET i == f.recv[2]
  IN  /\ f.recv = InstVal(i)
      /\ b.class = Reached(mb, After(m[cl[i]], f.class))
      /\ b.recv \in {f.recv, ClassVal(cl[i])}

Continued(st, m, mb, cl) ==
  \A d \in 3 .. Len(st) :
    st[d].kind = "bound" /\ st[d].via = "super" /\ st[d - 2].kind = "bound" =>
      Follows(st[d - 1], st[d], m, mb, cl)

(* The frames that are pushed may continue what is on top of the stack. *)
MayContinue(st, new, m, mb, cl) ==
  \A e \in 1 .. Len(new) :
    new[e].kind = "bound" /\ new[e].via = "super" =>
      /\ e = 1
      /\ \A n \in Nat : n = Len(st) /\ n >= 2 /\ st[n - 1].kind = "bound" =>
           Follows(st[n], new[1], m, mb, cl)

LEMMA ContinuedPush ==
  ASSUME NEW F, NEW st \in Seq(F), NEW new \in Seq(F), NEW m, NEW mb, NEW cl,
         Continued(st, m, mb, cl), MayContinue(st, new, m, mb, cl)
  PROVE  Continued(st \o new, m, mb, cl)
<1>1. PICK a \in Nat : a = Len(st) /\ DOMAIN st = 1 .. a
  BY SeqTyped
<1>2. PICK b \in Nat : b = Len(new) /\ DOMAIN new = 1 .. b
  BY SeqTyped
<1>3. PICK u : u = st \o new
  OBVIOUS
<1>4. /\ Len(u) = a + b /\ \A j \in 1 .. a : u[j] = st[j]
      /\ \A j \in 1 .. b : u[a + j] = new[j]
  <2>1. /\ Len(u) = a + b
        /\ \A j \in 1 .. a + b : u[j] = IF j <= a THEN st[j] ELSE new[j - a]
    BY <1>1, <1>2, <1>3, ConcatProperties
  <2>2. \A j \in 1 .. a : j \in 1 .. a + b /\ j <= a
    OBVIOUS
  <2>3. \A j \in 1 .. b : a + j \in 1 .. a + b /\ ~(a + j <= a) /\ (a + j) - a = j
    OBVIOUS
  <2> QED BY <2>1, <2>2, <2>3
<1> SUFFICES ASSUME NEW d \in 3 .. a + b, u[d].kind = "bound", u[d].via = "super",
                    u[d - 2].kind = "bound"
             PROVE  Follows(u[d - 1], u[d], m, mb, cl)
  BY <1>3, <1>4 DEF Continued
<1>5. CASE d <= a
  <2>1. d \in 3 .. Len(st) /\ d \in 1 .. a /\ d - 1 \in 1 .. a /\ d - 2 \in 1 .. a
    BY <1>1, <1>5
  <2>2. u[d] = st[d] /\ u[d - 1] = st[d - 1] /\ u[d - 2] = st[d - 2]
    BY <1>4, <2>1
  <2> QED BY <2>1, <2>2 DEF Continued
<1>6. CASE ~(d <= a)
  <2>1. PICK e \in 1 .. b : d = a + e
    <3>1. d - a \in 1 .. b /\ d = a + (d - a)
      BY <1>6
    <3> QED BY <3>1
  <2>2. u[d] = new[e]
    BY <1>4, <2>1
  <2>3. /\ e = 1
        /\ \A n \in Nat : n = Len(st) /\ n >= 2 /\ st[n - 1].kind = "bound" =>
             Follows(st[n], new[1], m, mb, cl)
    BY <1>2, <2>2 DEF MayContinue
  <2>4. d - 1 = a /\ d - 2 = a - 1 /\ a >= 2 /\ a \in 1 .. a /\ a - 1 \in 1 .. a
    BY <2>1, <2>3
  <2>5. u[d - 1] = st[a] /\ u[d - 2] = st[a - 1]
    BY <1>4, <2>4
  <2> QED BY <1>1, <2>2, <2>3, <2>4, <2>5
<1> QED BY <1>5, <1>6

LEMMA ContinuedPop ==
  ASSUME NEW F, NEW st \in Seq(F), NEW k \in Nat, k <= Len(st), NEW m, NEW mb, NEW cl,
         Continued(st, m, mb, cl)
  PROVE  Continued(SubSeq(st, 1, k), m, mb, cl)
<1>1. PICK a \in Nat : a = Len(st) /\ k <= a
  BY SeqTyped
<1>2. PICK s : s = SubSeq(st, 1, k) /\ Len(s) = k /\ \A j \in 1 .. k : s[j] = st[j]
  <2>1. Len(SubSeq(st, 1, k)) = k /\ \A j \in 1 .. k : SubSeq(st, 1, k)[j] = st[j]
    BY <1>1
  <2> QED BY <2>1
<1> SUFFICES ASSUME NEW d \in 3 .. k, s[d].kind = "bound", s[d].via = "super",
                    s[d - 2].kind = "bound"
             PROVE  Follows(s[d - 1], s[d], m, mb, cl)
  BY <1>2 DEF Continued
<1>3. d \in 3 .. a /\ d \in 1 .. k /\ d - 1 \in 1 .. k /\ d - 2 \in 1 .. k
  BY <1>1
<1>4. s[d] = st[d] /\ s[d - 1] = st[d - 1] /\ s[d - 2] = st[d - 2]
  BY <1>2, <1>3
<1> QED BY <1>1, <1>3, <1>4 DEF Continued
-----------------------------------------------------------------------------
(* The invariant of the thread, beside that of the hierarchy. *)
Threaded ==
  /\ member \in Seq(Members) /\ Len(member) = Len(mro)
  /\ class \in Seq(Class)
  /\ mode \in {"run", "unwind"}
  /\ Stacked(Class, Receivers, stack, ctx)
  /\ Continued(stack, mro, member, class)

IInv == Hierarchy /\ Threaded

LEMMA ReceiverInst == \A i : InstVal(i) \in Receivers => i \in Inst
BY DEF Receivers, InstVal, ClassVal, Nothing

(* A call may add an instance, and changes nothing else of the heap. *)
HeapKept ==
  /\ UNCHANGED <<bases, mro, member>>
  /\ class' = class \/ \E c \in Class : class' = Append(class, c)

LEMMA Grown ==
  ASSUME IInv, HeapKept
  PROVE  /\ Class' = Class /\ Receivers \subseteq Receivers' /\ class' \in Seq(Class)
         /\ Inst \subseteq Inst'
         /\ Stacked(Class', Receivers', stack, ctx)
         /\ Continued(stack, mro, member, class')
<1>1. Class' = Class
  BY DEF HeapKept, Class
<1>2. class' \in Seq(Class) /\ \A i \in Inst : i \in Inst' /\ class'[i] = class[i]
  <2>1. CASE class' = class
    BY <2>1 DEF Inst, IInv, Threaded
  <2>2. CASE \E c \in Class : class' = Append(class, c)
    <3>1. PICK c \in Class : class' = Append(class, c)
      BY <2>2
    <3>2. class \in Seq(Class) /\ class' \in Seq(Class)
      BY <3>1 DEF IInv, Threaded
    <3>3. PICK n \in Nat : n = Len(class) /\ DOMAIN class = 1 .. n
      BY <3>2, SeqTyped
    <3>4. DOMAIN class' = 1 .. n + 1 /\ \A i \in 1 .. n : class'[i] = class[i]
      BY <3>1, <3>2, <3>3, Appended
    <3>5. \A i \in 1 .. n : i \in 1 .. n + 1
      OBVIOUS
    <3> QED BY <3>2, <3>3, <3>4, <3>5 DEF Inst
  <2> QED BY <2>1, <2>2 DEF HeapKept
<1>3. Receivers \subseteq Receivers'
  <2>1. \A r \in Receivers : (\E i \in Inst : r = InstVal(i)) \/ (\E c \in Class : r = ClassVal(c)) \/ r = Nothing
    BY DEF Receivers
  <2>2. \A i \in Inst : InstVal(i) \in Receivers'
    BY <1>2 DEF Receivers, InstVal
  <2>3. \A c \in Class : ClassVal(c) \in Receivers'
    BY <1>1 DEF Receivers, ClassVal
  <2>4. Nothing \in Receivers'
    BY DEF Receivers, Nothing
  <2> QED BY <2>1, <2>2, <2>3, <2>4
<1>4. Stacked(Class, Receivers, stack, ctx)
  BY DEF IInv, Threaded
<1>5. Stacked(Class', Receivers', stack, ctx)
  BY <1>1, <1>3, <1>4, StackedGrows
<1>6. Continued(stack, mro, member, class')
  <2>1. PICK n \in Nat : n = Len(stack) /\ \A d \in 1 .. n : stack[d].recv \in Receivers
    <3>1. PICK F : F = Frames(Class, Receivers)
      OBVIOUS
    <3>2. stack \in Seq(F) /\ \A r \in F : r.recv \in Receivers
      BY <1>4, <3>1 DEF Stacked, Frames
    <3>3. PICK n \in Nat : n = Len(stack) /\ \A d \in 1 .. n : stack[d] \in F
      BY <3>2, SeqTyped
    <3> QED BY <3>2, <3>3
  <2> SUFFICES ASSUME NEW d \in 3 .. n, stack[d].kind = "bound", stack[d].via = "super",
                      stack[d - 2].kind = "bound"
               PROVE  Follows(stack[d - 1], stack[d], mro, member, class')
    BY <2>1 DEF Continued
  <2>2. Follows(stack[d - 1], stack[d], mro, member, class)
    BY <2>1 DEF IInv, Threaded, Continued
  <2>3. d - 1 \in 1 .. n
    OBVIOUS
  <2>4. PICK i : i = stack[d - 1].recv[2] /\ stack[d - 1].recv = InstVal(i)
    BY <2>2 DEF Follows
  <2>5. i \in Inst
    BY <2>1, <2>3, <2>4, ReceiverInst
  <2>6. class'[i] = class[i]
    BY <1>2, <2>5
  <2> QED BY <2>2, <2>4, <2>6 DEF Follows
<1> QED BY <1>1, <1>2, <1>3, <1>5, <1>6

LEMMA StaysThreaded ==
  ASSUME IInv, HeapKept, mode' \in {"run", "unwind"}, UNCHANGED <<stack, ctx>>
  PROVE  Threaded'
<1>1. /\ Class' = Class /\ class' \in Seq(Class)
      /\ Stacked(Class', Receivers', stack, ctx) /\ Continued(stack, mro, member, class')
  BY Grown
<1>2. member' \in Seq(Members) /\ Len(member') = Len(mro')
  BY DEF IInv, Threaded, HeapKept
<1>3. Stacked(Class', Receivers', stack', ctx') /\ Continued(stack', mro', member', class')
  BY <1>1 DEF HeapKept
<1> QED BY <1>1, <1>2, <1>3 DEF Threaded

LEMMA EnterThreaded ==
  ASSUME IInv, HeapKept, NEW new, Enter(new), new # <<>>,
         Stacked(Class', Receivers', new, Contexts(new)),
         MayContinue(stack, new, mro, member, class')
  PROVE  Threaded'
<1>1. mode \in {"run", "unwind"}
  BY DEF IInv, Threaded
<1>2. CASE stack' = stack \o new /\ ctx' = ctx \o Contexts(new) /\ UNCHANGED mode
  <2>1. /\ Class' = Class /\ class' \in Seq(Class)
        /\ Stacked(Class', Receivers', stack, ctx) /\ Continued(stack, mro, member, class')
    BY Grown
  <2>2. member' \in Seq(Members) /\ Len(member') = Len(mro')
    BY DEF IInv, Threaded, HeapKept
  <2>3. Stacked(Class', Receivers', stack', ctx')
    <3>1. Stacked(Class', Receivers', stack \o new, ctx \o Contexts(new))
      BY <2>1, StackedPush
    <3> QED BY <1>2, <3>1
  <2>4. Continued(stack', mro', member', class')
    <3>1. PICK F : F = Frames(Class', Receivers')
      OBVIOUS
    <3>2. stack \in Seq(F) /\ new \in Seq(F)
      BY <2>1, <3>1 DEF Stacked
    <3>3. Continued(stack \o new, mro, member, class')
      BY <2>1, <3>2, ContinuedPush
    <3> QED BY <1>2, <3>3 DEF HeapKept
  <2> QED BY <1>1, <1>2, <2>1, <2>2, <2>3, <2>4 DEF Threaded
<1>3. CASE Error
  BY <1>3, StaysThreaded DEF Error
<1> QED BY <1>2, <1>3 DEF Enter

(* The caller's frame is a function's, if there is one. *)
LEMMA CallerFrame ==
  ASSUME IInv
  PROVE  /\ CallerDepth \in Nat /\ CallerDepth <= Len(stack)
         /\ CallerDepth = 0 \/ stack[CallerDepth].kind = "fn"
<1>1. PICK n \in Nat : n = Len(stack)
  <2>1. stack \in Seq(Frames(Class, Receivers))
    BY DEF IInv, Threaded, Stacked
  <2> QED BY <2>1, SeqTyped
<1> DEFINE fns == {d \in 1 .. Len(stack) - 1 : stack[d].kind = "fn"}
           below == {n - d : d \in fns}
<1>2. CASE fns = {}
  <2>1. CallerDepth = 0
    BY <1>2 DEF CallerDepth
  <2> QED BY <1>1, <2>1
<1>3. CASE fns # {}
  <2>1. \A d \in fns : d \in 1 .. n - 1 /\ stack[d].kind = "fn"
    BY <1>1
  <2>2. CallerDepth = CHOOSE d \in fns : \A e \in fns : e <= d
    BY <1>3 DEF CallerDepth
  <2> HIDE DEF fns
  <2>3. below \in SUBSET Nat /\ below # {}
    BY <1>3, <2>1
  <2>4. \A d \in fns : n - d \in below
    OBVIOUS
  <2>5. First(below) \in below /\ \A l \in below : First(below) <= l
    <3> HIDE DEF below
    <3> QED BY <2>3, FirstIsLeast
  <2>6. PICK d \in fns : First(below) = n - d
    BY <2>5
  <2>7. \A e \in fns : e <= d
    <3> TAKE e \in fns
    <3>1. n - d <= n - e
      BY <2>4, <2>5, <2>6
    <3>2. d \in 1 .. n - 1 /\ e \in 1 .. n - 1
      BY <2>1
    <3> QED BY <3>1, <3>2
  <2>8. CallerDepth \in fns
    BY <2>2, <2>7
  <2> QED BY <1>1, <2>1, <2>8
<1> QED BY <1>2, <1>3

LEMMA PopThreaded ==
  ASSUME IInv, UNCHANGED heap, mode' \in {"run", "unwind"}, PopCall
  PROVE  Threaded'
<1>1. HeapKept
  BY DEF HeapKept, heap
<1>2. /\ Class' = Class /\ class' \in Seq(Class)
      /\ Stacked(Class', Receivers', stack, ctx) /\ Continued(stack, mro, member, class')
  BY <1>1, Grown
<1>3. PICK k \in Nat : k = CallerDepth /\ k <= Len(stack) /\ (k = 0 \/ stack[k].kind = "fn")
  BY CallerFrame
<1>4. /\ stack' = SubSeq(stack, 1, k)
      /\ ctx' = SubSeq(ctx, 1, Len(ctx) - Len(Contexts(SubSeq(stack, k + 1, Len(stack)))))
  BY <1>3 DEF PopCall
<1>5. Stacked(Class', Receivers', stack', ctx')
  <2>1. Stacked(Class', Receivers', SubSeq(stack, 1, k),
                SubSeq(ctx, 1, Len(ctx) - Len(Contexts(SubSeq(stack, k + 1, Len(stack))))))
    BY <1>2, <1>3, StackedPop
  <2> QED BY <1>4, <2>1
<1>6. Continued(stack', mro', member', class')
  <2>1. PICK F : F = Frames(Class', Receivers')
    OBVIOUS
  <2>2. stack \in Seq(F)
    BY <1>2, <2>1 DEF Stacked
  <2>3. Continued(SubSeq(stack, 1, k), mro, member, class')
    BY <1>2, <1>3, <2>2, ContinuedPop
  <2> QED BY <1>1, <1>4, <2>3 DEF HeapKept
<1>7. member' \in Seq(Members) /\ Len(member') = Len(mro')
  BY <1>1 DEF IInv, Threaded, HeapKept
<1> QED BY <1>2, <1>5, <1>6, <1>7 DEF Threaded
-----------------------------------------------------------------------------
LEMMA LookupTyped ==
  ASSUME NEW C, NEW order \in Seq(C), Having(order) # {}
  PROVE  Lookup(order) \in C /\ Lookup(order) = Reached(member, order)
<1>1. PICK n \in Nat : n = Len(order) /\ DOMAIN order = 1 .. n /\ \A j \in 1 .. n : order[j] \in C
  BY SeqTyped
<1>2. Having(order) \subseteq 1 .. n
  BY <1>1 DEF Having
<1>3. First(Having(order)) \in Having(order)
  <2>1. PICK S : S = Having(order)
    OBVIOUS
  <2>2. S \in SUBSET Nat /\ S # {}
    BY <1>2, <2>1
  <2> QED BY <2>1, <2>2, FirstIsLeast
<1>4. order[First(Having(order))] \in C
  BY <1>1, <1>2, <1>3
<1> QED BY <1>4 DEF Lookup, Reached, Having

LEMMA AfterTyped ==
  ASSUME NEW C, NEW order \in Seq(C), NEW c, In(c, order)
  PROVE  After(order, c) \in Seq(C)
<1>1. PICK n \in Nat : n = Len(order) /\ DOMAIN order = 1 .. n
  BY SeqTyped
<1> DEFINE S == {j \in DOMAIN order : order[j] = c}
<1>2. S \in SUBSET (1 .. n) /\ S # {}
  BY <1>1 DEF In
<1>3. After(order, c) = SubSeq(order, First(S) + 1, n)
  BY <1>1 DEF After
<1> HIDE DEF S
<1>4. First(S) \in 1 .. n
  <2>1. S \in SUBSET Nat
    BY <1>2
  <2> QED BY <1>2, <2>1, FirstIsLeast
<1>5. PICK k \in 1 .. n : k = First(S)
  BY <1>4
<1>6. SubSeq(order, k + 1, n) \in Seq(C)
  BY <1>1
<1> QED BY <1>3, <1>5, <1>6

LEMMA FrameTyped ==
  ASSUME NEW C, NEW R, NEW c \in C, NEW r \in R, NEW via \in {"call", "super"}
  PROVE  /\ Fn(c, r) \in Frames(C, R) /\ Bound(c, r, via) \in Frames(C, R)
         /\ [kind |-> "class", class |-> c, recv |-> r, via |-> "call"] \in Frames(C, R)
BY DEF Frames, Fn, Bound

(* The frames of a call are a function's and, under it, those of the bound *)
(* method or of the class that is called, of the same class and receiver.  *)
LEMMA OneFrame ==
  ASSUME NEW C, NEW R, NEW c \in C, NEW r \in R
  PROVE  LET new == <<Fn(c, r)>>
         IN  new # <<>> /\ Stacked(C, R, new, Contexts(new)) /\ Len(new) = 1 /\ new[1].kind = "fn"
<1>1. PICK F : F = Frames(C, R)
  OBVIOUS
<1>2. PICK f \in F : f = Fn(c, r) /\ f.kind = "fn"
  <2>1. Fn(c, r) \in F
    BY <1>1, FrameTyped
  <2> QED BY <2>1 DEF Fn
<1>3. PICK new : new = <<f>>
  OBVIOUS
<1>4. new \in Seq(F) /\ Len(new) = 1 /\ DOMAIN new = 1 .. 1 /\ new[1] = f /\ new # <<>>
  BY <1>2, <1>3
<1>5. \A d \in 1 .. 1 : d = 1
  OBVIOUS
<1>6. Stacked(C, R, new, Contexts(new))
  BY <1>1, <1>2, <1>4, <1>5 DEF Stacked
<1> QED BY <1>2, <1>3, <1>4, <1>6

LEMMA TwoFrames ==
  ASSUME NEW C, NEW R, NEW c \in C, NEW r \in R, NEW via \in {"call", "super"},
         NEW new, new = <<Bound(c, r, via), Fn(c, r)>>
  PROVE  /\ new # <<>> /\ Stacked(C, R, new, Contexts(new)) /\ Len(new) = 2
         /\ new[1] = Bound(c, r, via) /\ new[2].kind = "fn"
<1>1. PICK F : F = Frames(C, R)
  OBVIOUS
<1>2. PICK f \in F : f = Fn(c, r) /\ f.kind = "fn" /\ f.class = c /\ f.recv = r
  <2>1. Fn(c, r) \in F
    BY <1>1, FrameTyped
  <2> QED BY <2>1 DEF Fn
<1>3. PICK b \in F : b = Bound(c, r, via) /\ b.kind = "bound" /\ b.class = c /\ b.recv = r
  <2>1. Bound(c, r, via) \in F
    BY <1>1, FrameTyped
  <2> QED BY <2>1 DEF Bound
<1>4. new = <<b, f>>
  BY <1>2, <1>3
<1>5. new \in Seq(F) /\ Len(new) = 2 /\ DOMAIN new = 1 .. 2 /\ new[1] = b /\ new[2] = f /\ new # <<>>
  BY <1>2, <1>3, <1>4
<1>6. \A d \in 1 .. 2 : d = 1 \/ d = 2
  OBVIOUS
<1>7. 1 + 1 \in 1 .. 2 /\ 1 + 1 = 2
  OBVIOUS
<1>8. Stacked(C, R, new, Contexts(new))
  BY <1>1, <1>2, <1>3, <1>5, <1>6, <1>7 DEF Stacked
<1> QED BY <1>2, <1>3, <1>5, <1>8

LEMMA ThreeFrames ==
  ASSUME NEW C, NEW R, NEW k \in C, NEW c \in C, NEW r \in R
  PROVE  LET new == <<[kind |-> "class", class |-> k, recv |-> r, via |-> "call"],
                      Bound(c, r, "call"), Fn(c, r)>>
         IN  /\ new # <<>> /\ Stacked(C, R, new, Contexts(new)) /\ Len(new) = 3
             /\ \A d \in 1 .. 3 : new[d].via = "call"
<1>1. PICK F : F = Frames(C, R)
  OBVIOUS
<1>2. PICK f \in F : f = Fn(c, r) /\ f.kind = "fn" /\ f.class = c /\ f.recv = r /\ f.via = "call"
  <2>1. Fn(c, r) \in F
    BY <1>1, FrameTyped
  <2> QED BY <2>1 DEF Fn
<1>3. PICK b \in F : /\ b = Bound(c, r, "call") /\ b.kind = "bound"
                    /\ b.class = c /\ b.recv = r /\ b.via = "call"
  <2>1. Bound(c, r, "call") \in F
    BY <1>1, FrameTyped
  <2> QED BY <2>1 DEF Bound
<1>4. PICK a \in F : /\ a = [kind |-> "class", class |-> k, recv |-> r, via |-> "call"]
                    /\ a.kind = "class" /\ a.via = "call"
  <2>1. [kind |-> "class", class |-> k, recv |-> r, via |-> "call"] \in F
    BY <1>1, FrameTyped
  <2> QED BY <2>1
<1>5. PICK new : new = <<a, b, f>>
  OBVIOUS
<1>6. /\ new \in Seq(F) /\ Len(new) = 3 /\ DOMAIN new = 1 .. 3
      /\ new[1] = a /\ new[2] = b /\ new[3] = f /\ new # <<>>
  BY <1>2, <1>3, <1>4, <1>5
<1>7. \A d \in 1 .. 3 : d = 1 \/ d = 2 \/ d = 3
  OBVIOUS
<1>8. 2 + 1 \in 1 .. 3 /\ 2 + 1 = 3
  OBVIOUS
<1>9. Stacked(C, R, new, Contexts(new))
  BY <1>1, <1>2, <1>3, <1>4, <1>6, <1>7, <1>8 DEF Stacked
<1>10. \A d \in 1 .. 3 : new[d].via = "call"
  BY <1>2, <1>3, <1>4, <1>6, <1>7
<1> QED BY <1>2, <1>3, <1>4, <1>5, <1>6, <1>9, <1>10

(* The receivers that a found member may be bound to. *)
Bindable(inst, k) == {inst, ClassVal(k)}

(* The frames pushed through an order continue what is on top. *)
Rightly(order, inst, k, via) ==
  \A n \in Nat, r \in Bindable(inst, k) :
    via = "super" /\ n = Len(stack) /\ n >= 2 /\ stack[n - 1].kind = "bound" =>
      Follows(stack[n], Bound(Lookup(order), r, via), mro, member, class)

LEMMA CallAttrThreaded ==
  ASSUME IInv, NEW order \in Seq(Class), NEW inst \in Receivers, NEW k \in Class,
         NEW given \in Receivers, NEW via \in {"call", "super"},
         CallAttr(order, inst, k, given, via), Rightly(order, inst, k, via)
  PROVE  Threaded'
<1>1. HeapKept /\ class' = class /\ Class' = Class /\ Receivers' = Receivers
  BY DEF CallAttr, heap, HeapKept, Class, Receivers, Inst
<1>2. CASE Error
  BY <1>1, <1>2, StaysThreaded DEF Error
<1>3. CASE Having(order) # {} /\ Enter(Bind(Lookup(order), inst, k, given, via))
  <2>1. PICK dc \in Class : dc = Lookup(order)
    BY <1>3, LookupTyped
  <2>2. PICK new : new = Bind(dc, inst, k, given, via)
    OBVIOUS
  <2>3. \/ new = <<Fn(dc, given)>>
        \/ \E r \in Bindable(inst, k) : r \in Receivers /\ new = <<Bound(dc, r, via), Fn(dc, r)>>
    <3>1. ClassVal(k) \in Receivers
      BY DEF Receivers
    <3> QED BY <2>2, <3>1 DEF Bind, Bindable
  <2>4. CASE new = <<Fn(dc, given)>>
    <3>1. new # <<>> /\ Stacked(Class, Receivers, new, Contexts(new)) /\ Len(new) = 1 /\ new[1].kind = "fn"
      BY <2>4, OneFrame
    <3>2. \A e \in 1 .. 1 : e = 1
      OBVIOUS
    <3>3. MayContinue(stack, new, mro, member, class')
      BY <3>1, <3>2 DEF MayContinue
    <3> QED BY <1>1, <1>3, <2>1, <2>2, <3>1, <3>3, EnterThreaded
  <2>5. CASE \E r \in Bindable(inst, k) : r \in Receivers /\ new = <<Bound(dc, r, via), Fn(dc, r)>>
    <3>1. PICK r \in Bindable(inst, k) : r \in Receivers /\ new = <<Bound(dc, r, via), Fn(dc, r)>>
      BY <2>5
    <3>2. /\ new # <<>> /\ Stacked(Class, Receivers, new, Contexts(new)) /\ Len(new) = 2
          /\ new[1] = Bound(dc, r, via) /\ new[2].kind = "fn"
      BY <3>1, TwoFrames
    <3>3. \A e \in 1 .. 2 : e = 1 \/ e = 2
      OBVIOUS
    <3>4. new[1].via = via
      BY <3>2 DEF Bound
    <3>5. MayContinue(stack, new, mro, member, class')
      BY <1>1, <2>1, <3>2, <3>3, <3>4 DEF MayContinue, Rightly
    <3> QED BY <1>1, <1>3, <2>1, <2>2, <3>2, <3>5, EnterThreaded
  <2> QED BY <2>3, <2>4, <2>5
<1> QED BY <1>2, <1>3 DEF CallAttr

LEMMA ClassTyped ==
  ASSUME IInv
  PROVE  /\ \A c \in Class : mro[c] \in Seq(Class)
         /\ \A i \in Inst : class[i] \in Class /\ InstVal(i) \in Receivers
         /\ Nothing \in Receivers
<1>1. mro \in Seq(Seq(Class)) /\ class \in Seq(Class)
  BY DEF IInv, Hierarchy, HeapTyped, Threaded
<1>2. \A c \in Class : mro[c] \in Seq(Class)
  <2>1. PICK Q : Q = Seq(Class)
    OBVIOUS
  <2> QED BY <1>1, <2>1, SeqTyped DEF Class
<1>3. \A i \in Inst : class[i] \in Class
  BY <1>1, SeqTyped DEF Inst
<1> QED BY <1>2, <1>3 DEF Receivers

LEMMA ConstructThreaded ==
  ASSUME IInv, NEW c \in Class, Construct(c)
  PROVE  Threaded'
<1>1. mode = "run" /\ mode \in {"run", "unwind"} /\ UNCHANGED <<bases, mro, member>>
  BY DEF Construct, Running
<1>2. HeapKept
  BY DEF Construct, HeapKept
<1> DEFINE dc == Lookup(mro[c])
           inst == InstVal(Len(class) + 1)
           new == <<[kind |-> "class", class |-> c, recv |-> inst, via |-> "call"],
                    Bound(dc, inst, "call"), Fn(dc, inst)>>
<1>3. CASE Error
  BY <1>2, <1>3, StaysThreaded DEF Error
<1>4. CASE UNCHANGED <<stack, ctx, mode>>
  BY <1>1, <1>2, <1>4, StaysThreaded
<1>5. CASE Having(mro[c]) # {} /\ Enter(new) /\ ~Error
  <2>1. dc \in Class
    BY <1>5, ClassTyped, LookupTyped
  <2>2. class' = Append(class, c)
    <3>1. mode' = mode
      BY <1>5 DEF Enter
    <3> QED BY <1>1, <3>1 DEF Construct
  <2>3. inst \in Receivers' /\ Class' = Class
    <3>1. class \in Seq(Class)
      BY DEF IInv, Threaded
    <3>2. Len(class) + 1 \in DOMAIN Append(class, c)
      BY <3>1
    <3> QED BY <1>2, <2>2, <3>2, Grown DEF Receivers, Inst, InstVal
  <2> HIDE DEF dc, inst
  <2>4. /\ new # <<>> /\ Stacked(Class', Receivers', new, Contexts(new)) /\ Len(new) = 3
        /\ \A d \in 1 .. 3 : new[d].via = "call"
    BY <2>1, <2>3, ThreeFrames
  <2>5. MayContinue(stack, new, mro, member, class')
    <3> HIDE DEF new
    <3> QED BY <2>4 DEF MayContinue
  <2> HIDE DEF new
  <2> QED BY <1>2, <1>5, <2>4, <2>5, EnterThreaded
<1>6. Error \/ UNCHANGED <<stack, ctx, mode>> \/ (Having(mro[c]) # {} /\ Enter(new))
  BY DEF Construct
<1> QED BY <1>3, <1>4, <1>5, <1>6

LEMMA CallOnSuperThreaded ==
  ASSUME IInv, NEW c \in Class, NEW recv \in Receivers, NEW given \in Receivers,
         NEW via \in {"call", "super"}, CallOnSuper(c, recv, given, via),
         \A n \in Nat : via = "super" /\ n = Len(stack) /\ n >= 2 /\ stack[n - 1].kind = "bound" =>
           stack[n].class = c /\ stack[n].recv = recv
  PROVE  Threaded'
<1>1. CASE Error /\ UNCHANGED heap
  <2>1. HeapKept
    BY <1>1 DEF HeapKept, heap
  <2> QED BY <1>1, <2>1, StaysThreaded DEF Error
<1>2. CASE /\ \E i \in Inst : recv = InstVal(i) /\ In(c, mro[class[i]])
           /\ CallAttr(After(mro[class[recv[2]]], c), recv, class[recv[2]], given, via)
  <2>1. PICK i \in Inst : recv = InstVal(i) /\ In(c, mro[class[i]])
    BY <1>2
  <2>2. recv[2] = i
    BY <2>1 DEF InstVal
  <2>3. PICK k \in Class : k = class[i] /\ mro[k] \in Seq(Class)
    BY ClassTyped
  <2>4. PICK order \in Seq(Class) : order = After(mro[k], c)
    BY <2>1, <2>3, AfterTyped
  <2>5. CallAttr(order, recv, k, given, via)
    BY <1>2, <2>2, <2>3, <2>4
  <2>6. CASE Having(order) = {}
    <3>1. Error /\ UNCHANGED heap
      BY <2>5, <2>6 DEF CallAttr
    <3> QED BY <1>1, <3>1
  <2>7. CASE Having(order) # {}
    <3>1. Lookup(order) = Reached(member, order)
      BY <2>7, LookupTyped
    <3>2. ASSUME NEW n \in Nat, NEW r \in Bindable(recv, k), via = "super", n = Len(stack), n >= 2,
                 stack[n - 1].kind = "bound"
          PROVE  Follows(stack[n], Bound(Lookup(order), r, via), mro, member, class)
      <4>1. stack[n].class = c /\ stack[n].recv = recv
        BY <3>2
      <4> QED BY <2>1, <2>2, <2>3, <2>4, <3>1, <4>1 DEF Follows, Bound, Bindable
    <3>3. Rightly(order, recv, k, via)
      BY <3>2 DEF Rightly
    <3> QED BY <2>5, <3>3, CallAttrThreaded
  <2> QED BY <2>6, <2>7
<1> QED BY <1>1, <1>2 DEF CallOnSuper

LEMMA MakeClassThreaded ==
  ASSUME IInv, Hierarchy', NEW bs \in BaseLists, NEW m \in Members, MakeClass(bs, m)
  PROVE  Threaded'
<1>1. /\ HeapTyped /\ HeapTyped' /\ Stacked(Class, Receivers, stack, ctx)
      /\ member \in Seq(Members) /\ Len(member) = Len(mro) /\ class \in Seq(Class)
  BY DEF IInv, Hierarchy, Threaded
<1>2. stack = <<>> /\ stack' = stack /\ ctx' = ctx /\ class' = class /\ mode' \in {"run", "unwind"}
  BY DEF MakeClass, Error, heap
<1>3. PICK n \in Nat : n = Len(mro) /\ Class = 1 .. n
  BY <1>1, Numbered
<1>4. \/ UNCHANGED <<mro, member>>
      \/ /\ member' = Append(member, m)
         /\ \E x : mro' = Append(mro, x)
  BY DEF MakeClass, heap
<1>5. Class \subseteq Class' /\ member' \in Seq(Members) /\ Len(member') = Len(mro')
  <2>1. CASE UNCHANGED <<mro, member>>
    BY <1>1, <2>1 DEF Class
  <2>2. CASE member' = Append(member, m) /\ \E x : mro' = Append(mro, x)
    <3>1. PICK x : mro' = Append(mro, x)
      BY <2>2
    <3>2. PICK Q : Q = Seq(Class) \cup {x}
      OBVIOUS
    <3>3. mro \in Seq(Q) /\ x \in Q
      <4>1. mro \in Seq(Seq(Class)) /\ Seq(Class) \subseteq Q
        BY <1>1, <3>2 DEF HeapTyped
      <4> QED BY <3>2, <4>1
    <3>4. Len(mro') = n + 1 /\ DOMAIN mro' = 1 .. n + 1
      BY <1>3, <3>1, <3>3, Appended
    <3>5. Class \subseteq Class'
      BY <1>3, <3>4 DEF Class
    <3>6. member' \in Seq(Members) /\ Len(member') = n + 1
      BY <1>1, <1>3, <2>2, Appended
    <3> QED BY <3>4, <3>5, <3>6
  <2> QED BY <1>4, <2>1, <2>2
<1>6. Receivers \subseteq Receivers'
  BY <1>2, <1>5 DEF Receivers, Inst
<1>7. Stacked(Class', Receivers', stack', ctx')
  <2>1. Stacked(Class', Receivers', stack, ctx)
    BY <1>1, <1>5, <1>6, StackedGrows
  <2> QED BY <1>2, <2>1
<1>8. class' \in Seq(Class')
  <2>1. PICK D : D = Class'
    OBVIOUS
  <2>2. class \in Seq(D)
    BY <1>1, <1>5, <2>1
  <2> QED BY <1>2, <2>1, <2>2
<1>9. Continued(stack', mro', member', class')
  <2>1. Len(stack') = 0 /\ \A d \in 3 .. 0 : FALSE
    BY <1>2
  <2> QED BY <2>1 DEF Continued
<1> QED BY <1>2, <1>5, <1>7, <1>8, <1>9 DEF Threaded

LEMMA Super0Threaded ==
  ASSUME IInv, NEW g \in Receivers, Super0(g)
  PROVE  Threaded'
<1>1. CASE Error /\ UNCHANGED heap
  <2>1. HeapKept
    BY <1>1 DEF HeapKept, heap
  <2> QED BY <1>1, <2>1, StaysThreaded DEF Error
<1>2. CASE ctx # <<>> /\ CallOnSuper(ctx[Len(ctx)].class, ctx[Len(ctx)].recv, g, "super")
  <2>1. Stacked(Class, Receivers, stack, ctx)
    BY DEF IInv, Threaded
  <2>2. PICK K : K = [class : Class, recv : Receivers]
    OBVIOUS
  <2>3. PICK t \in K : t = ctx[Len(ctx)]
    <3>1. ctx \in Seq(K)
      BY <2>1, <2>2, ContextsTyped
    <3>2. Len(ctx) \in DOMAIN ctx
      <4>1. PICK l \in Nat : l = Len(ctx) /\ DOMAIN ctx = 1 .. l /\ l # 0
        BY <1>2, <3>1
      <4> QED BY <4>1
    <3> QED BY <3>1, <3>2, SeqTyped
  <2>4. t.class \in Class /\ t.recv \in Receivers
    BY <2>2
  <2>5. ASSUME NEW n \in Nat, n = Len(stack), n >= 2, stack[n - 1].kind = "bound"
        PROVE  stack[n].class = t.class /\ stack[n].recv = t.recv
    <3>1. ctx[Len(ctx)] = [class |-> stack[n].class, recv |-> stack[n].recv]
      BY <2>1, <2>5, TopContext
    <3> QED BY <2>3, <3>1
  <2>6. CallOnSuper(t.class, t.recv, g, "super")
    BY <1>2, <2>3
  <2> QED BY <2>4, <2>5, <2>6, CallOnSuperThreaded
<1> QED BY <1>1, <1>2 DEF Super0

LEMMA CallThreaded ==
  ASSUME IInv, NEW g \in {InstVal(i) : i \in Inst} \cup {Nothing},
         \/ \E i \in Inst : CallOnInstance(i, g)
         \/ \E c \in Class : CallOnClass(c, g) \/ \E r \in Receivers : Super2(c, r, g)
         \/ Super0(g)
  PROVE  Threaded'
<1>1. g \in Receivers
  BY DEF Receivers
<1>2. \A order, inst, k : Rightly(order, inst, k, "call")
  BY DEF Rightly
<1>3. CASE \E i \in Inst : CallOnInstance(i, g)
  <2>1. PICK i \in Inst : CallAttr(mro[class[i]], InstVal(i), class[i], g, "call")
    BY <1>3 DEF CallOnInstance
  <2>2. PICK k \in Class, o \in Seq(Class), v \in Receivers :
          k = class[i] /\ o = mro[k] /\ v = InstVal(i)
    BY ClassTyped
  <2>3. CallAttr(o, v, k, g, "call")
    BY <2>1, <2>2
  <2> QED BY <1>1, <1>2, <2>3, CallAttrThreaded
<1>4. CASE \E c \in Class : CallOnClass(c, g)
  <2>1. PICK c \in Class : CallAttr(mro[c], Nothing, c, g, "call")
    BY <1>4 DEF CallOnClass
  <2>2. PICK o \in Seq(Class), v \in Receivers : o = mro[c] /\ v = Nothing
    BY ClassTyped
  <2>3. CallAttr(o, v, c, g, "call")
    BY <2>1, <2>2
  <2> QED BY <1>1, <1>2, <2>3, CallAttrThreaded
<1>5. CASE \E c \in Class : \E r \in Receivers : Super2(c, r, g)
  <2>1. PICK c \in Class, r \in Receivers : CallOnSuper(c, r, g, "call")
    BY <1>5 DEF Super2
  <2> QED BY <1>1, <2>1, CallOnSuperThreaded
<1>6. CASE Super0(g)
  BY <1>1, <1>6, Super0Threaded
<1> QED BY <1>3, <1>4, <1>5, <1>6

LEMMA ThreadedStep == IInv /\ [Next]_vars => IInv'
<1> SUFFICES ASSUME IInv, [Next]_vars PROVE IInv'
  OBVIOUS
<1>1. Hierarchy'
  BY HierarchyStep DEF IInv
<1>2. mode \in {"run", "unwind"}
  BY DEF IInv, Threaded
<1>3. ASSUME UNCHANGED heap PROVE HeapKept
  BY <1>3 DEF HeapKept, heap
<1>4. CASE \E bs \in BaseLists, m \in Members : MakeClass(bs, m)
  BY <1>1, <1>4, MakeClassThreaded DEF IInv
<1>5. CASE \E c \in Class : Construct(c)
  BY <1>1, <1>5, ConstructThreaded DEF IInv
<1>6. CASE \E g \in {InstVal(i) : i \in Inst} \cup {Nothing} :
             \/ \E i \in Inst : CallOnInstance(i, g)
             \/ \E c \in Class : CallOnClass(c, g) \/ \E r \in Receivers : Super2(c, r, g)
             \/ Super0(g)
  BY <1>1, <1>6, CallThreaded DEF IInv
<1>7. CASE Return
  <2>1. PopCall /\ UNCHANGED heap /\ mode' \in {"run", "unwind"}
    BY <1>2, <1>7 DEF Return
  <2> QED BY <1>1, <2>1, PopThreaded DEF IInv
<1>8. CASE Fail
  <2>1. Error /\ HeapKept
    BY <1>3, <1>8 DEF Fail
  <2> QED BY <1>1, <2>1, StaysThreaded DEF IInv, Error
<1>9. CASE Unwind
  <2>1. /\ UNCHANGED heap /\ mode' \in {"run", "unwind"}
        /\ UNCHANGED <<stack, ctx>> \/ PopCall
    BY <1>9 DEF Unwind
  <2> QED BY <1>1, <1>3, <2>1, PopThreaded, StaysThreaded DEF IInv
<1>10. CASE UNCHANGED vars
  <2>1. UNCHANGED heap /\ UNCHANGED <<stack, ctx, mode>>
    BY <1>10 DEF vars
  <2> QED BY <1>1, <1>2, <1>3, <2>1, StaysThreaded DEF IInv
<1> QED BY <1>4, <1>5, <1>6, <1>7, <1>8, <1>9, <1>10 DEF Next

LEMMA ThreadedInit == Init => IInv
<1> SUFFICES ASSUME Init PROVE IInv
  OBVIOUS
<1>1. Hierarchy
  BY HierarchyInit
<1>2. /\ member = <<>> /\ mro = <<>> /\ class = <<>> /\ stack = <<>> /\ ctx = <<>> /\ mode = "run"
      /\ Len(<<>>) = 0 /\ DOMAIN <<>> = {}
  BY DEF Init
<1>3. Stacked(Class, Receivers, stack, ctx)
  BY <1>2, NoContexts, EmptySeq DEF Stacked
<1>4. Continued(stack, mro, member, class)
  <2>1. \A d \in 3 .. 0 : FALSE
    OBVIOUS
  <2> QED BY <1>2, <2>1 DEF Continued
<1>5. member \in Seq(Members) /\ class \in Seq(Class) /\ Len(member) = Len(mro)
  BY <1>2, EmptySeq
<1> QED BY <1>1, <1>2, <1>3, <1>4, <1>5 DEF IInv, Threaded

(* The thread's contexts are those of the bound methods that are being     *)
(* called, after every return, error and panic: each call's deferred       *)
(* popSuperContext leaves what was there before it (class.go).             *)
THEOREM ContextsAreLive == Spec => []ContextsMatchStack
<1>1. IInv => ContextsMatchStack
  <2> SUFFICES ASSUME IInv PROVE ContextsMatchStack
    OBVIOUS
  <2>1. HeapTyped /\ Stacked(Class, Receivers, stack, ctx)
    BY DEF IInv, Hierarchy, Threaded
  <2>2. ctx \in Seq([class : Class, recv : Receivers])
    BY <2>1, ContextsTyped
  <2>3. TypeOK
    BY <2>1, <2>2 DEF TypeOK, HeapTyped, IInv, Threaded, Stacked, Frames
  <2> QED BY <2>1, <2>3 DEF ContextsMatchStack, Stacked
<1> QED BY <1>1, ThreadedInit, ThreadedStep, PTL DEF Spec

(* super() in a method that was called as one reaches the next class with  *)
(* the method in the order of its receiver's class (superProxy.Attr): the  *)
(* context it finds is that of the method itself.                          *)
THEOREM SuperGoesOn == Spec => []SuperIsNext
<1>1. IInv => SuperIsNext
  <2> SUFFICES ASSUME IInv PROVE SuperIsNext
    OBVIOUS
  <2>1. Continued(stack, mro, member, class)
    BY DEF IInv, Threaded
  <2>2. \A order : Lookup(order) = Reached(member, order)
    BY DEF Lookup, Reached, Having
  <2> QED BY <2>1, <2>2 DEF SuperIsNext, Continued, Follows
<1> QED BY <1>1, ThreadedInit, ThreadedStep, PTL DEF Spec
=============================================================================

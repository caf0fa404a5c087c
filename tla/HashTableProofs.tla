-------------------------- MODULE HashTableProofs ---------------------------
(***************************************************************************)
(* The safety properties of HashTable for every set of keys, every hash    *)
(* function, every bucket size and load factor that satisfy the module's   *)
(* assumptions, any finite number of iterators and any sequence of         *)
(* operations.                                                             *)
(*                                                                         *)
(* The properties are not inductive: that a lookup finds a key rests on    *)
(* where every entry was placed; that grow succeeds rests on the old list  *)
(* being intact and on the load of the table before its last insertion;    *)
(* that an iterator's pointer is live rests on itercount being exact.      *)
(* IInv gathers these facts.  The lemmas show, in this order, what the     *)
(* list surgery of insert and delete does, that a slot exists for every    *)
(* new key, that each action preserves IInv, and that IInv implies the     *)
(* properties.                                                             *)
(*                                                                         *)
(* The second half shows that the table implements the insertion-ordered   *)
(* map OrderedMap.  IInv says what a step finds; what remains is how the   *)
(* sequences of items and of keys left change with the list.               *)
(***************************************************************************)
EXTENDS HashTable, FiniteSetTheorems, SequenceTheorems, TLAPS

(***************************************************************************)
(* The inductive invariant.                                                *)
(***************************************************************************)

(* Every entry is in the chain that its hash selects, within its slots. *)
Placed ==
  \A a \in DOMAIN ent : /\ a[1] \in 0 .. nb - 1
                        /\ a[1] = Hash(ent[a].key) % nb
                        /\ a[2] <= cap[a[1]]

(* No two entries of f have keys that are not told apart. *)
DistinctKeys(f) == \A a, b \in DOMAIN f : Class[f[a].key] = Class[f[b].key] => a = b

(* The table was not overloaded before its last insertion. *)
LoadBounded == len = 0 \/ ~Overloaded(len - 1, nb)

(* An iterator that is not in use holds nothing. *)
IdleIterators ==
  \A i \in Iter : iters[i].kind = "off" => iters[i].e = Nil /\ ~iters[i].counted

(* A range-over-func iteration that will not decrement itercount began     *)
(* when the table was frozen.                                              *)
DeferralKept ==
  \A i \in Iter : iters[i].kind = "entries" /\ ~iters[i].counted => frozen

(* During grow: the old list is intact, the first len of its entries have  *)
(* been moved, the others have not, and all of them, with the new key,     *)
(* fit in the new table.                                                   *)
Moving ==
  old.on =>
    /\ ~frozen /\ itercount = 0 /\ nb # 0
    /\ Chain(old.ent, old.order)
    /\ DistinctKeys(old.ent)
    /\ \A a \in DOMAIN old.ent : Class[old.ent[a].key] # Class[old.k]
    /\ len <= Len(old.order)
    /\ old.e = IF len = Len(old.order) THEN Nil ELSE old.order[len + 1]
    /\ \A i \in 1 .. len : ent[order[i]].key = old.ent[old.order[i]].key
    /\ \A m \in 0 .. Len(old.order) : ~Overloaded(m, nb)

TableInv == TableTypeOK /\ ListInOrder /\ Placed /\ DistinctKeys(ent) /\ LoadBounded

IterInv ==
  /\ frozen \in BOOLEAN /\ itercount \in Nat /\ iters \in [Iter -> Iterator]
  /\ IdleIterators /\ DeferralKept /\ IterCountExact /\ IterPointersLive

GrowInv == GrowTypeOK /\ Moving

IInv == TableInv /\ IterInv /\ GrowInv

(* A non-empty set of slots has a last one (what LastOf chooses). *)
LEMMA SlotMaximum ==
  ASSUME NEW n \in Nat, NEW T \in SUBSET (1 .. n), T # {}
  PROVE  \E m \in T : \A j \in T : j <= m
<1> DEFINE U == {x \in Nat : n - x \in T}
<1>1. U \subseteq Nat /\ U # {}
  <2>1. PICK j \in T : TRUE
    OBVIOUS
  <2>2. j \in 1 .. n /\ n - j \in Nat /\ n - (n - j) = j
    BY <2>1
  <2>3. n - j \in U
    BY <2>1, <2>2
  <2> QED BY <2>3
<1>2. PICK x \in U : \A y \in U : ~(<<y, x>> \in OpToRel(<, Nat))
  <2> HIDE DEF U
  <2> QED BY <1>1, NatLessThanWellFounded, WFMin
<1>3. ASSUME NEW y \in U
      PROVE  x <= y
  <2>1. CASE y < x
    <3>1. <<y, x>> \in Nat \X Nat /\ <<y, x>>[1] < <<y, x>>[2]
      BY <1>1, <1>2, <2>1
    <3>2. <<y, x>> \in OpToRel(<, Nat)
      BY <3>1, Zenon DEF OpToRel
    <3> QED BY <3>2, <1>2
  <2> QED BY <2>1, <1>1
<1>4. n - x \in T
  BY <1>2
<1>5. ASSUME NEW j \in T
      PROVE  j <= n - x
  <2>1. n - j \in U
    OBVIOUS
  <2>2. x <= n - j
    BY <2>1, <1>3
  <2> QED BY <2>2, <1>1
<1> QED BY <1>4, <1>5

(* The list without one of its elements. *)
LEMMA WithoutProperties ==
  ASSUME NEW S, NEW o \in Seq(S), NEW p \in 1 .. Len(o),
         \A i, j \in 1 .. Len(o) : o[i] = o[j] => i = j
  PROVE  /\ Without(o, o[p]) \in Seq(S)
         /\ Len(Without(o, o[p])) = Len(o) - 1
         /\ \A i \in 1 .. Len(o) - 1 :
              Without(o, o[p])[i] = IF i < p THEN o[i] ELSE o[i + 1]
<1>1. (CHOOSE i \in 1 .. Len(o) : o[i] = o[p]) = p
  OBVIOUS
<1>2. Without(o, o[p]) = [i \in 1 .. Len(o) - 1 |-> IF i < p THEN o[i] ELSE o[i + 1]]
  BY <1>1, Zenon DEF Without
<1> QED BY <1>2

(* The neighbours of the i-th entry of the list. *)
LEMMA ChainNeighbours ==
  ASSUME NEW f, NEW o, Chain(f, o), NEW i \in 1 .. Len(o)
  PROVE  /\ f[o[i]].next = IF i = Len(o) THEN Nil ELSE o[i + 1]
         /\ f[o[i]].prev = IF i = 1 THEN HeadLink ELSE o[i - 1]
BY Zenon DEF Chain

(* g is f with the entry a linked after the one whose next field is t. *)
LinkedAfter(f, g, t, a) ==
  /\ DOMAIN g = DOMAIN f \cup {a}
  /\ g[a].next = Nil /\ g[a].prev = t
  /\ \A x \in DOMAIN f : /\ g[x].next = IF x = t THEN a ELSE f[x].next
                         /\ g[x].prev = f[x].prev

(* Appending an entry to the list. *)
LEMMA ChainAppend ==
  ASSUME NEW f, NEW o \in Seq(Addr), Chain(f, o),
         NEW t, t = IF Len(o) = 0 THEN HeadLink ELSE o[Len(o)],
         NEW a \in Addr, a \notin DOMAIN f,
         NEW g, LinkedAfter(f, g, t, a)
  PROVE  Chain(g, Append(o, a))
<1> DEFINE q == Append(o, a)
<1>0. /\ DOMAIN g = DOMAIN f \cup {a}
      /\ g[a].next = Nil /\ g[a].prev = t
      /\ \A x \in DOMAIN f : /\ g[x].next = IF x = t THEN a ELSE f[x].next
                             /\ g[x].prev = f[x].prev
  BY Zenon DEF LinkedAfter
<1>1. /\ q \in Seq(Addr) /\ Len(q) = Len(o) + 1 /\ Len(o) \in Nat
      /\ \A i \in 1 .. Len(o) : q[i] = o[i]
      /\ q[Len(q)] = a
  OBVIOUS
<1>2. DOMAIN g = DOMAIN f \cup {a}
  BY <1>0
<1>3. \A i \in 1 .. Len(o) : o[i] \in DOMAIN f /\ o[i] # a
  BY DEF Chain
<1> HIDE DEF q
<1>4. \A i \in 1 .. Len(q) : q[i] \in DOMAIN g
  BY <1>1, <1>2, <1>3
<1>5. \A x \in DOMAIN g : \E i \in 1 .. Len(q) : q[i] = x
  <2> SUFFICES ASSUME NEW x \in DOMAIN g PROVE \E i \in 1 .. Len(q) : q[i] = x
    OBVIOUS
  <2>1. CASE x = a
    BY <2>1, <1>1
  <2>2. CASE x \in DOMAIN f
    BY <2>2, <1>1 DEF Chain
  <2> QED BY <2>1, <2>2, <1>2
<1>6. ASSUME NEW i \in 1 .. Len(q), NEW j \in 1 .. Len(q), q[i] = q[j]
      PROVE  i = j
  <2>1. CASE i \in 1 .. Len(o) /\ j \in 1 .. Len(o)
    BY <2>1, <1>6, <1>1 DEF Chain
  <2>2. CASE i = Len(q) \/ j = Len(q)
    BY <2>2, <1>6, <1>1, <1>3
  <2> QED BY <2>1, <2>2, <1>1
<1>7. ASSUME NEW i \in 1 .. Len(q)
      PROVE  /\ g[q[i]].next = IF i = Len(q) THEN Nil ELSE q[i + 1]
             /\ g[q[i]].prev = IF i = 1 THEN HeadLink ELSE q[i - 1]
  <2>1. CASE i = Len(q)
    <3>1. g[q[i]].next = Nil /\ g[q[i]].prev = t
      BY <2>1, <1>0, <1>1
    <3> QED BY <3>1, <2>1, <1>1
  <2>2. CASE i = Len(o)
    <3>1. q[i] = o[i] /\ o[i] = t /\ t \in DOMAIN f /\ t # a
      BY <2>2, <1>1, <1>3
    <3>3. g[q[i]].next = a /\ g[q[i]].prev = f[t].prev
      BY <3>1, <1>0, Zenon
    <3>4. f[t].prev = IF i = 1 THEN HeadLink ELSE o[i - 1]
      <4>1. i \in 1 .. Len(o)
        BY <2>2, <1>1
      <4>2. f[o[i]].prev = IF i = 1 THEN HeadLink ELSE o[i - 1]
        BY <4>1, ChainNeighbours
      <4> QED BY <4>2, <3>1
    <3>5. q[i + 1] = a /\ i # Len(q) /\ (i # 1 => q[i - 1] = o[i - 1])
      BY <2>2, <1>1
    <3> QED BY <3>3, <3>4, <3>5
  <2>3. CASE i < Len(o)
    <3>1. q[i] = o[i] /\ o[i] # t /\ o[i] \in DOMAIN f /\ o[i] # a
      BY <2>3, <1>1, <1>3 DEF Chain
    <3>2. g[q[i]].next = f[o[i]].next /\ g[q[i]].prev = f[o[i]].prev
      BY <3>1, <1>0, Zenon
    <3>3. /\ f[o[i]].next = o[i + 1]
          /\ f[o[i]].prev = IF i = 1 THEN HeadLink ELSE o[i - 1]
      <4>1. i \in 1 .. Len(o) /\ i # Len(o)
        BY <2>3, <1>1
      <4>2. /\ f[o[i]].next = IF i = Len(o) THEN Nil ELSE o[i + 1]
            /\ f[o[i]].prev = IF i = 1 THEN HeadLink ELSE o[i - 1]
        BY <4>1, ChainNeighbours
      <4> QED BY <4>1, <4>2
    <3>4. q[i + 1] = o[i + 1] /\ i # Len(q) /\ (i # 1 => q[i - 1] = o[i - 1])
      BY <2>3, <1>1
    <3> QED BY <3>2, <3>3, <3>4
  <2> QED BY <2>1, <2>2, <2>3, <1>1
<1> QED BY <1>4, <1>5, <1>6, <1>7 DEF Chain, q

(* The nil pointer and &ht.head are not addresses of entries. *)
LEMMA NilNotAddr == Nil \notin Addr /\ HeadLink \notin Addr
BY DEF Nil, HeadLink, Addr

(* g is f with the entry a, between p and n, unlinked. *)
UnlinkedBetween(f, g, p, n, a) ==
  /\ DOMAIN g = DOMAIN f \ {a}
  /\ \A x \in DOMAIN g : /\ g[x].next = IF x = p THEN n ELSE f[x].next
                         /\ g[x].prev = IF x = n THEN p ELSE f[x].prev

(* Taking an entry out of the list. *)
LEMMA ChainRemove ==
  ASSUME NEW f, NEW o \in Seq(Addr), Chain(f, o),
         NEW c \in 1 .. Len(o), NEW a, a = o[c],
         NEW p, p = f[a].prev, NEW n, n = f[a].next,
         NEW g, UnlinkedBetween(f, g, p, n, a)
  PROVE  Chain(g, Without(o, a))
<1> DEFINE w == Without(o, a)
<1>0. /\ DOMAIN g = DOMAIN f \ {a}
      /\ \A x \in DOMAIN g : /\ g[x].next = IF x = p THEN n ELSE f[x].next
                             /\ g[x].prev = IF x = n THEN p ELSE f[x].prev
  BY Zenon DEF UnlinkedBetween
<1>1. /\ w \in Seq(Addr) /\ Len(w) = Len(o) - 1 /\ Len(o) \in Nat
      /\ \A i \in 1 .. Len(w) : w[i] = IF i < c THEN o[i] ELSE o[i + 1]
  <2>1. \A i, j \in 1 .. Len(o) : o[i] = o[j] => i = j
    BY DEF Chain
  <2>2. /\ Without(o, o[c]) \in Seq(Addr)
        /\ Len(Without(o, o[c])) = Len(o) - 1
        /\ \A i \in 1 .. Len(o) - 1 :
             Without(o, o[c])[i] = IF i < c THEN o[i] ELSE o[i + 1]
    BY <2>1, WithoutProperties
  <2>3. w = Without(o, o[c])
    OBVIOUS
  <2> HIDE DEF w
  <2>4. w \in Seq(Addr) /\ Len(w) = Len(o) - 1
    BY <2>2, <2>3
  <2>5. \A i \in 1 .. Len(w) : w[i] = IF i < c THEN o[i] ELSE o[i + 1]
    BY <2>2, <2>3, <2>4
  <2> QED BY <2>4, <2>5
<1>2. DOMAIN g = DOMAIN f \ {a}
  BY <1>0
<1>3. \A i, j \in 1 .. Len(o) : o[i] = o[j] => i = j
  BY DEF Chain
<1>4. \A i \in 1 .. Len(o) : o[i] \in DOMAIN f /\ o[i] \in Addr
  BY DEF Chain
<1>5. /\ n = IF c = Len(o) THEN Nil ELSE o[c + 1]
      /\ p = IF c = 1 THEN HeadLink ELSE o[c - 1]
  BY DEF Chain
<1> HIDE DEF w
<1>10. Len(w) = Len(o) - 1 /\ Len(o) \in Nat /\ c \in Nat /\ 1 <= c /\ c <= Len(o)
  BY <1>1
<1>11. /\ \A i \in Nat : 1 <= i /\ i < c => w[i] = o[i]
      /\ \A i \in Nat : c <= i /\ i < Len(o) => w[i] = o[i + 1]
  <2>1. ASSUME NEW i \in Nat, 1 <= i, i < c PROVE w[i] = o[i]
    <3>1. i \in 1 .. Len(w)
      BY <2>1, <1>1
    <3> QED BY <3>1, <2>1, <1>1
  <2>2. ASSUME NEW i \in Nat, c <= i, i < Len(o) PROVE w[i] = o[i + 1]
    <3>1. i \in 1 .. Len(w) /\ ~(i < c)
      BY <2>2, <1>1
    <3> QED BY <3>1, <1>1
  <2> QED BY <2>1, <2>2
<1>6. ASSUME NEW i \in 1 .. Len(w)
      PROVE  w[i] \in DOMAIN g
  BY <1>1, <1>2, <1>3, <1>4, SMTT(60)
<1>7. ASSUME NEW x \in DOMAIN g
      PROVE  \E i \in 1 .. Len(w) : w[i] = x
  <2>1. PICK j \in 1 .. Len(o) : o[j] = x
    BY <1>2 DEF Chain
  <2>2. j # c
    BY <2>1, <1>2
  <2>3. CASE j < c
    <3>1. j \in 1 .. Len(w) /\ w[j] = x
      BY <2>1, <2>3, <1>1
    <3> QED BY <3>1
  <2>4. CASE j > c
    <3>1. j - 1 \in 1 .. Len(w) /\ w[j - 1] = x
      BY <2>1, <2>4, <1>1
    <3> QED BY <3>1
  <2> QED BY <2>2, <2>3, <2>4
<1>8. ASSUME NEW i \in 1 .. Len(w), NEW j \in 1 .. Len(w), w[i] = w[j]
      PROVE  i = j
  <2> DEFINE up(x) == IF x < c THEN x ELSE x + 1
  <2>1. up(i) \in 1 .. Len(o) /\ up(j) \in 1 .. Len(o) /\ o[up(i)] = o[up(j)]
    BY <1>8, <1>1
  <2>2. up(i) = up(j)
    BY <2>1, <1>3
  <2> QED BY <2>2, <1>1
<1>9. ASSUME NEW i \in 1 .. Len(w)
      PROVE  /\ g[w[i]].next = IF i = Len(w) THEN Nil ELSE w[i + 1]
             /\ g[w[i]].prev = IF i = 1 THEN HeadLink ELSE w[i - 1]
  <2>0. w[i] \in DOMAIN g
    BY <1>6
  <2>1. CASE i < c - 1
    <3>1. w[i] = o[i] /\ i \in 1 .. Len(o) /\ i # Len(o) /\ i # Len(w)
      BY <2>1, <1>1
    <3>2. w[i] # p /\ w[i] # n
      <4>1. c # 1 /\ p = o[c - 1] /\ c - 1 \in 1 .. Len(o) /\ o[c - 1] # o[i]
        BY <2>1, <3>1, <1>3, <1>5
      <4>2. CASE c = Len(o)
        BY <4>1, <4>2, <3>1, <1>4, <1>5, NilNotAddr
      <4>3. CASE c # Len(o)
        <5>1. n = o[c + 1] /\ c + 1 \in 1 .. Len(o) /\ c + 1 # i
          BY <2>1, <4>3, <1>5
        <5> QED BY <5>1, <4>1, <3>1, <1>3
      <4> QED BY <4>2, <4>3
    <3>3. g[w[i]].next = f[o[i]].next /\ g[w[i]].prev = f[o[i]].prev
      BY <2>0, <3>1, <3>2, <1>0, Zenon
    <3>4. w[i + 1] = o[i + 1] /\ (i # 1 => w[i - 1] = o[i - 1])
      <4>1. i + 1 \in Nat /\ 1 <= i + 1 /\ i + 1 < c
        BY <2>1
      <4>2. i # 1 => i - 1 \in Nat /\ 1 <= i - 1 /\ i - 1 < c
        BY <2>1
      <4> QED BY <4>1, <4>2, <1>11
    <3>5. /\ f[o[i]].next = o[i + 1]
          /\ f[o[i]].prev = IF i = 1 THEN HeadLink ELSE o[i - 1]
      BY <3>1 DEF Chain
    <3> QED BY <3>1, <3>3, <3>4, <3>5
  <2>2. CASE i = c - 1
    <3>1. w[i] = o[i] /\ i \in 1 .. Len(o) /\ i # Len(o) /\ w[i] = p
      BY <2>2, <1>1, <1>5
    <3>2. g[w[i]].next = n /\ g[w[i]].prev = f[o[i]].prev
      <4>1. w[i] # n
        <5>1. CASE c = Len(o)
          BY <5>1, <3>1, <1>4, <1>5, NilNotAddr
        <5>2. CASE c # Len(o)
          <6>1. n = o[c + 1] /\ c + 1 \in 1 .. Len(o) /\ c + 1 # i
            BY <2>2, <5>2, <1>5
          <6> QED BY <6>1, <3>1, <1>3
        <5> QED BY <5>1, <5>2
      <4> QED BY <2>0, <3>1, <4>1, <1>0, Zenon
    <3>3. n = IF i = Len(w) THEN Nil ELSE w[i + 1]
      <4>1. i = Len(w) <=> c = Len(o)
        BY <2>2, <1>1
      <4>2. i # Len(w) => w[i + 1] = o[c + 1]
        BY <2>2, <1>1, <1>11
      <4> QED BY <4>1, <4>2, <1>5
    <3>4. i # 1 => w[i - 1] = o[i - 1]
      BY <2>2, <1>1
    <3> QED BY <3>1, <3>2, <3>3, <3>4 DEF Chain
  <2>3. CASE i = c
    <3>1. w[i] = o[i + 1] /\ i + 1 \in 1 .. Len(o) /\ w[i] = n
      BY <2>3, <1>1, <1>5
    <3>2. w[i] # p
      BY <2>3, <3>1, <1>3, <1>4, <1>5, NilNotAddr
    <3>3. g[w[i]].prev = p /\ g[w[i]].next = f[o[i + 1]].next
      BY <2>0, <3>1, <3>2, <1>0, Zenon
    <3>4. p = IF i = 1 THEN HeadLink ELSE w[i - 1]
      BY <2>3, <1>1, <1>5
    <3>5. f[o[i + 1]].next = IF i + 1 = Len(o) THEN Nil ELSE o[(i + 1) + 1]
      BY <3>1 DEF Chain
    <3>6. (i = Len(w) <=> i + 1 = Len(o)) /\ (i # Len(w) => w[i + 1] = o[(i + 1) + 1])
      BY <2>3, <1>1
    <3> QED BY <3>3, <3>4, <3>5, <3>6
  <2>4. CASE i > c
    <3>1. w[i] = o[i + 1] /\ i + 1 \in 1 .. Len(o) /\ i + 1 # 1
      BY <2>4, <1>1
    <3>2. w[i] # p /\ w[i] # n
      <4>1. c # Len(o) /\ n = o[c + 1] /\ c + 1 \in 1 .. Len(o) /\ o[c + 1] # o[i + 1]
        BY <2>4, <3>1, <1>3, <1>5
      <4>2. CASE c = 1
        BY <4>1, <4>2, <3>1, <1>4, <1>5, NilNotAddr
      <4>3. CASE c # 1
        <5>1. p = o[c - 1] /\ c - 1 \in 1 .. Len(o) /\ c - 1 # i + 1
          BY <2>4, <4>3, <1>5
        <5> QED BY <5>1, <4>1, <3>1, <1>3
      <4> QED BY <4>2, <4>3
    <3>3. g[w[i]].next = f[o[i + 1]].next /\ g[w[i]].prev = f[o[i + 1]].prev
      BY <2>0, <3>1, <3>2, <1>0, Zenon
    <3>4. /\ f[o[i + 1]].next = IF i + 1 = Len(o) THEN Nil ELSE o[(i + 1) + 1]
          /\ f[o[i + 1]].prev = o[(i + 1) - 1]
      BY <3>1 DEF Chain
    <3>5. /\ i = Len(w) <=> i + 1 = Len(o)
          /\ i # Len(w) => w[i + 1] = o[(i + 1) + 1]
          /\ i # 1 /\ w[i - 1] = o[(i + 1) - 1]
      <4>1. i # Len(w) => w[i + 1] = o[(i + 1) + 1]
        <5>1. i # Len(w) => i + 1 \in Nat /\ c <= i + 1 /\ i + 1 < Len(o)
          BY <2>4, <1>10
        <5> QED BY <5>1, <1>11
      <4>2. i # 1 /\ w[i - 1] = o[(i + 1) - 1]
        <5>1. i - 1 \in Nat /\ c <= i - 1 /\ i - 1 < Len(o) /\ (i - 1) + 1 = (i + 1) - 1
          BY <2>4, <1>10
        <5> QED BY <5>1, <1>11, <2>4, <1>10
      <4>3. i = Len(w) <=> i + 1 = Len(o)
        BY <1>10
      <4> QED BY <4>1, <4>2, <4>3
    <3> QED BY <3>3, <3>4, <3>5
  <2> QED BY <2>1, <2>2, <2>3, <2>4, <1>1
<1> QED BY <1>6, <1>7, <1>8, <1>9 DEF Chain, w

(* The doubled table is never overloaded by the entries of the old one. *)
LEMMA DoublingRelieves ==
  ASSUME NEW n \in Nat, n # 0, NEW l \in Nat, l = 0 \/ ~Overloaded(l - 1, n),
         NEW m \in 0 .. l
  PROVE  ~Overloaded(m, 2 * n)
<1> SUFFICES ASSUME m >= BucketSize PROVE m * LoadDen < LoadNum * (2 * n)
  BY TableAssumption DEF Overloaded
<1>1. /\ BucketSize \in Nat \ {0} /\ LoadDen \in Nat \ {0} /\ LoadNum \in Nat
      /\ LoadNum >= LoadDen /\ 2 * LoadNum > BucketSize * LoadDen
  BY TableAssumption
<1>2. l # 0 /\ l - 1 \in Nat /\ (l - 1 < BucketSize \/ (l - 1) * LoadDen < LoadNum * n)
  BY <1>1 DEF Overloaded
<1>3. LoadNum * n >= LoadNum /\ LoadNum * (2 * n) = 2 * (LoadNum * n)
  BY <1>1
<1>4. m * LoadDen <= l * LoadDen
  BY <1>1
<1>5. CASE l - 1 < BucketSize
  <2>1. m = BucketSize
    BY <1>1, <1>2, <1>5
  <2> QED BY <2>1, <1>1, <1>3
<1>6. CASE (l - 1) * LoadDen < LoadNum * n
  <2>1. (l - 1) * LoadDen = l * LoadDen - LoadDen
    BY <1>1
  <2>2. l * LoadDen \in Nat /\ m * LoadDen \in Nat /\ LoadNum * n \in Nat
    BY <1>1
  <2> QED BY <2>1, <2>2, <1>1, <1>3, <1>4, <1>6
<1> QED BY <1>2, <1>5, <1>6
-----------------------------------------------------------------------------
(* The stored hash is a number, and equal keys have one hash. *)
LEMMA HashType ==
  ASSUME NEW k \in Key
  PROVE  /\ Hash(k) \in Nat
         /\ \A j \in Key : Class[j] = Class[k] => Hash(j) = Hash(k)
BY KeyAssumption DEF Hash

(* The table an insertion works on. *)
LEMMA BucketsType ==
  ASSUME TableTypeOK, NEW k \in Key
  PROVE  /\ Buckets \in Nat \ {0}
         /\ Capacity \in [0 .. Buckets - 1 -> Nat]
         /\ Hash(k) % Buckets \in 0 .. Buckets - 1
<1>1. Buckets \in Nat \ {0}
  BY DEF TableTypeOK, Buckets
<1>2. Capacity \in [0 .. Buckets - 1 -> Nat]
  BY TableAssumption DEF TableTypeOK, Buckets, Capacity, Fresh
<1>3. Hash(k) \in Nat
  BY HashType
<1> QED BY <1>1, <1>2, <1>3

(* A table with an entry has been allocated. *)
LEMMA BucketsOfEntries ==
  ASSUME TableTypeOK, Placed, DOMAIN ent # {}
  PROVE  nb # 0 /\ Buckets = nb /\ Capacity = cap
BY DEF TableTypeOK, Placed, Buckets, Capacity

(* The scan of a chain finds every entry that is not told apart from k. *)
LEMMA StopsComplete ==
  ASSUME TableTypeOK, Placed, NEW k \in Key
  PROVE  \A a \in DOMAIN ent : a \in Stops(k) <=> Class[ent[a].key] = Class[k]
<1> SUFFICES ASSUME NEW a \in DOMAIN ent
             PROVE  a \in Stops(k) <=> Class[ent[a].key] = Class[k]
  OBVIOUS
<1>1. ent[a].key \in Key
  BY DEF TableTypeOK, EntryMap, Entry
<1>2. a[1] = Hash(ent[a].key) % Buckets
  BY BucketsOfEntries DEF Placed
<1>3. Equal(k, ent[a].key) # "ne" <=> Class[ent[a].key] = Class[k]
  BY DEF Equal
<1>4. Class[ent[a].key] = Class[k] => Hash(ent[a].key) = Hash(k)
  BY <1>1, HashType
<1> QED BY <1>2, <1>3, <1>4 DEF Stops

(* The slot chosen for a new key is free, in its chain, and within the     *)
(* chain's slots once the chain has been extended.                         *)
LEMMA SlotIsFree ==
  ASSUME TableTypeOK, Placed, NEW k \in Key, NEW b, b = Hash(k) % Buckets
  PROVE  /\ SlotFor(k) \in Addr
         /\ SlotFor(k) \notin DOMAIN ent
         /\ SlotFor(k)[1] = b
         /\ SlotFor(k)[2] <= IF EmptySlots(b) = {} THEN Capacity[b] + BucketSize
                             ELSE Capacity[b]
<1>1. /\ Buckets \in Nat \ {0} /\ b \in 0 .. Buckets - 1
      /\ Capacity[b] \in Nat
  BY BucketsType
<1>2. CASE EmptySlots(b) = {}
  <2>1. SlotFor(k) = <<b, Capacity[b] + 1>>
    BY <1>2 DEF SlotFor
  <2>2. <<b, Capacity[b] + 1>> \notin DOMAIN ent
    <3> SUFFICES ASSUME <<b, Capacity[b] + 1>> \in DOMAIN ent PROVE FALSE
      OBVIOUS
    <3>1. Capacity = cap
      BY BucketsOfEntries
    <3> QED BY <3>1, <1>1 DEF Placed
  <2> QED BY <2>1, <2>2, <1>1, <1>2, TableAssumption DEF Addr
<1>3. CASE EmptySlots(b) # {}
  <2> DEFINE E == EmptySlots(b)
             T == {i \in 1 .. Capacity[b] : <<b, i>> \notin DOMAIN ent}
  <2>1. \A a : a \in E <=> \E i \in T : a = <<b, i>>
    BY DEF EmptySlots
  <2>2. T \in SUBSET (1 .. Capacity[b]) /\ T # {}
    BY <2>1, <1>3
  <2>3. PICK m \in T : \A j \in T : j <= m
    <3> HIDE DEF T
    <3> QED BY <2>2, <1>1, SlotMaximum
  <2>4. <<b, m>> \in E /\ \A a \in E : <<b, m>>[2] >= a[2]
    <3>1. <<b, m>> \in E
      BY <2>1, <2>3
    <3>2. ASSUME NEW a \in E PROVE <<b, m>>[2] >= a[2]
      <4>1. PICK i \in T : a = <<b, i>>
        BY <2>1, <3>2
      <4>2. i <= m /\ i \in Int /\ m \in Int /\ a[2] = i /\ <<b, m>>[2] = m
        BY <4>1, <2>3
      <4> QED BY <4>2
    <3> QED BY <3>1, <3>2
  <2>5. LastOf(E) \in E
    BY <2>4 DEF LastOf
  <2>6. SlotFor(k) = LastOf(E)
    BY <1>3 DEF SlotFor
  <2>7. PICK i \in T : SlotFor(k) = <<b, i>>
    BY <2>1, <2>5, <2>6
  <2> QED BY <2>7, <1>1, <1>3 DEF Addr
<1> QED BY <1>2, <1>3

(* Placing a new key in a table that is not overloaded. *)
LEMMA PlacePreserves ==
  ASSUME TableInv, NEW k \in Key, NEW v \in Value,
         \A a \in DOMAIN ent : Class[ent[a].key] # Class[k],
         ~Overloaded(len, Buckets), Place(k, v)
  PROVE  /\ TableInv'
         /\ nb' = Buckets /\ len' = len + 1
         /\ \A i \in 1 .. len : ent'[order'[i]].key = ent[order[i]].key
         /\ ent'[order'[len + 1]].key = k
<1> DEFINE b == Hash(k) % Buckets
           a == SlotFor(k)
           new == [key |-> k, val |-> v, next |-> Nil, prev |-> tailLink]
<1>1. /\ nb' = Buckets
      /\ cap' = IF EmptySlots(b) = {}
                THEN [Capacity EXCEPT ![b] = @ + BucketSize] ELSE Capacity
      /\ ent' = [x \in DOMAIN ent \cup {a} |->
                   IF x = a THEN new
                   ELSE IF x = tailLink THEN [ent[x] EXCEPT !.next = a]
                   ELSE ent[x]]
      /\ head' = IF tailLink = HeadLink THEN a ELSE head
      /\ tailLink' = a
      /\ len' = len + 1
      /\ order' = Append(order, a)
  BY DEF Place
<1>2. TableTypeOK /\ ListInOrder /\ Placed /\ DistinctKeys(ent)
  BY DEF TableInv
<1>3. /\ Buckets \in Nat \ {0} /\ Capacity \in [0 .. Buckets - 1 -> Nat]
      /\ b \in 0 .. Buckets - 1
  BY <1>2, BucketsType
<1>4. /\ a \in Addr /\ a \notin DOMAIN ent /\ a[1] = b
      /\ a[2] <= IF EmptySlots(b) = {} THEN Capacity[b] + BucketSize ELSE Capacity[b]
  BY <1>2, SlotIsFree
<1>5. /\ EntryMap(ent) /\ order \in Seq(Addr) /\ len = Len(order) /\ len \in Nat
      /\ tailLink \in Addr \cup {HeadLink} /\ head \in Addr \cup {Nil}
      /\ tailLink = IF Len(order) = 0 THEN HeadLink ELSE order[Len(order)]
      /\ head = IF Len(order) = 0 THEN Nil ELSE order[1]
      /\ Chain(ent, order)
  BY <1>2 DEF TableTypeOK, ListInOrder
<1> HIDE DEF a, b
<1>6. cap' \in [0 .. nb' - 1 -> Nat] /\ (\A c \in 0 .. Buckets - 1 : cap'[c] >= Capacity[c])
      /\ a[2] <= cap'[b]
  BY <1>1, <1>3, <1>4, TableAssumption, SMTT(60)
<1>7. /\ DOMAIN ent' = DOMAIN ent \cup {a}
      /\ ent'[a] = new
      /\ \A x \in DOMAIN ent : ent'[x] \in Entry /\ ent'[x].key = ent[x].key
  <2>1. DOMAIN ent' = DOMAIN ent \cup {a} /\ ent'[a] = new
    BY <1>1
  <2>2. ASSUME NEW x \in DOMAIN ent
        PROVE  ent'[x] \in Entry /\ ent'[x].key = ent[x].key
    <3>1. ent[x] \in Entry /\ x # a
      BY <1>4, <1>5 DEF EntryMap
    <3>2. ent'[x] = IF x = tailLink THEN [ent[x] EXCEPT !.next = a] ELSE ent[x]
      BY <1>1, <3>1
    <3> QED BY <3>1, <3>2, <1>4 DEF Entry
  <2> QED BY <2>1, <2>2
<1>8. new \in Entry
  BY <1>5 DEF Entry
<1>9. EntryMap(ent')
  <2>1. ent' = [x \in DOMAIN ent' |-> ent'[x]]
    BY <1>1
  <2>2. \A x \in DOMAIN ent' : ent'[x] \in Entry /\ x \in Addr
    BY <1>4, <1>5, <1>7, <1>8 DEF EntryMap
  <2> QED BY <2>1, <2>2 DEF EntryMap
<1>10. order' \in Seq(Addr) /\ Len(order') = len + 1
  BY <1>1, <1>4, <1>5
<1>11. TableTypeOK'
  BY <1>1, <1>3, <1>4, <1>5, <1>6, <1>9, <1>10, SMTT(60) DEF TableTypeOK
<1>12. Chain(ent', order')
  <2>1. \A x \in DOMAIN ent : /\ ent'[x].next = IF x = tailLink THEN a ELSE ent[x].next
                              /\ ent'[x].prev = ent[x].prev
    <3> SUFFICES ASSUME NEW x \in DOMAIN ent
                 PROVE  /\ ent'[x].next = IF x = tailLink THEN a ELSE ent[x].next
                        /\ ent'[x].prev = ent[x].prev
      OBVIOUS
    <3>1. ent[x] \in Entry /\ x # a
      BY <1>4, <1>5 DEF EntryMap
    <3>2. ent'[x] = IF x = tailLink THEN [ent[x] EXCEPT !.next = a] ELSE ent[x]
      BY <1>1, <3>1
    <3> QED BY <3>1, <3>2 DEF Entry
  <2>2. ent'[a].next = Nil /\ ent'[a].prev = tailLink
    BY <1>7
  <2>3. LinkedAfter(ent, ent', tailLink, a)
    BY <2>1, <2>2, <1>7, Zenon DEF LinkedAfter
  <2>4. Chain(ent', Append(order, a))
    BY <2>3, <1>4, <1>5, ChainAppend
  <2> QED BY <2>4, <1>1
<1>13. ListInOrder'
  <2>1. tailLink = HeadLink <=> len = 0
    BY <1>5, NilNotAddr
  <2>2. order'[Len(order')] = a /\ (len # 0 => order'[1] = order[1]) /\ Len(order') # 0
    BY <1>1, <1>4, <1>5
  <2>3. head' = order'[1]
    BY <2>1, <2>2, <1>1, <1>5, <1>10
  <2> QED BY <2>2, <2>3, <1>1, <1>10, <1>12 DEF ListInOrder
<1>14. Placed'
  <2> SUFFICES ASSUME NEW x \in DOMAIN ent'
               PROVE  /\ x[1] \in 0 .. nb' - 1
                      /\ x[1] = Hash(ent'[x].key) % nb'
                      /\ x[2] <= cap'[x[1]]
    BY DEF Placed
  <2>1. CASE x = a
    <3>1. ent'[x].key = k
      BY <2>1, <1>7
    <3> QED BY <3>1, <2>1, <1>1, <1>3, <1>4, <1>6 DEF b
  <2>2. CASE x \in DOMAIN ent
    <3>1. Buckets = nb /\ Capacity = cap /\ ent'[x].key = ent[x].key
      BY <2>2, <1>2, <1>7, BucketsOfEntries
    <3>2. x[1] \in 0 .. nb - 1 /\ x[1] = Hash(ent[x].key) % nb /\ x[2] <= cap[x[1]]
      BY <2>2, <1>2 DEF Placed
    <3>3. cap'[x[1]] >= cap[x[1]] /\ cap'[x[1]] \in Nat /\ cap[x[1]] \in Nat
      BY <3>1, <3>2, <1>1, <1>3, <1>6
    <3>4. x \in Addr
      BY <2>2, <1>5 DEF EntryMap
    <3>5. x[2] \in Nat
      BY <3>4 DEF Addr
    <3> QED BY <3>1, <3>2, <3>3, <3>5, <1>1
  <2> QED BY <2>1, <2>2, <1>7
<1>15. DistinctKeys(ent')
  BY <1>2, <1>7 DEF DistinctKeys
<1>16. LoadBounded'
  BY <1>1, <1>5 DEF LoadBounded
<1>17. /\ \A i \in 1 .. len : ent'[order'[i]].key = ent[order[i]].key
       /\ ent'[order'[len + 1]].key = k
  <2>1. \A i \in 1 .. len : order'[i] = order[i] /\ order[i] \in DOMAIN ent
    BY <1>1, <1>5 DEF Chain
  <2>2. order'[len + 1] = a
    BY <1>1, <1>5
  <2> QED BY <2>1, <2>2, <1>7
<1> QED BY <1>1, <1>11, <1>13, <1>14, <1>15, <1>16, <1>17 DEF TableInv, DistinctKeys

(* Unlinking the entry of a key. *)
LEMMA UnlinkPreserves ==
  ASSUME TableInv, NEW a \in DOMAIN ent, Unlink(a), UNCHANGED <<nb, cap>>
  PROVE  TableInv'
<1> DEFINE p == ent[a].prev
           n == ent[a].next
<1>1. /\ head' = IF p = HeadLink THEN n ELSE head
      /\ tailLink' = IF n = Nil THEN p ELSE tailLink
      /\ ent' = [x \in DOMAIN ent \ {a} |->
                   IF x = p THEN [ent[x] EXCEPT !.next = n]
                   ELSE IF x = n THEN [ent[x] EXCEPT !.prev = p]
                   ELSE ent[x]]
      /\ len' = len - 1
      /\ order' = Without(order, a)
      /\ nb' = nb /\ cap' = cap
  BY DEF Unlink
<1>2. /\ nb \in Nat /\ cap \in [0 .. nb - 1 -> Nat]
      /\ EntryMap(ent) /\ order \in Seq(Addr) /\ len = Len(order) /\ len \in Nat
      /\ tailLink \in Addr \cup {HeadLink} /\ head \in Addr \cup {Nil}
      /\ tailLink = IF Len(order) = 0 THEN HeadLink ELSE order[Len(order)]
      /\ head = IF Len(order) = 0 THEN Nil ELSE order[1]
      /\ Chain(ent, order)
  BY DEF TableInv, TableTypeOK, ListInOrder
<1>3. PICK c \in 1 .. Len(order) : order[c] = a
  BY <1>2 DEF Chain
<1>4. /\ n = IF c = Len(order) THEN Nil ELSE order[c + 1]
      /\ p = IF c = 1 THEN HeadLink ELSE order[c - 1]
  BY <1>2, <1>3 DEF Chain
<1>5. /\ order' \in Seq(Addr) /\ Len(order') = Len(order) - 1
      /\ \A i \in 1 .. Len(order) - 1 : order'[i] = IF i < c THEN order[i] ELSE order[i + 1]
  <2>1. \A i, j \in 1 .. Len(order) : order[i] = order[j] => i = j
    BY <1>2 DEF Chain
  <2>2. order' = Without(order, order[c])
    BY <1>1, <1>3
  <2> QED BY <1>2, <2>1, <2>2, WithoutProperties
<1>6. \A i \in 1 .. Len(order) : order[i] \in Addr
  BY <1>2
<1>7. ent[a] \in Entry /\ n \in Addr \cup {Nil} /\ p \in Addr \cup {HeadLink}
  BY <1>2 DEF EntryMap, Entry
<1> HIDE DEF p, n
<1>8. /\ DOMAIN ent' = DOMAIN ent \ {a}
      /\ \A x \in DOMAIN ent' : ent'[x] \in Entry /\ ent'[x].key = ent[x].key
      /\ UnlinkedBetween(ent, ent', p, n, a)
  <2>1. DOMAIN ent' = DOMAIN ent \ {a}
    BY <1>1
  <2>2. p = n => p \notin Addr
    <3>1. CASE c = 1 \/ c = Len(order)
      BY <3>1, <1>4, NilNotAddr
    <3>2. CASE c # 1 /\ c # Len(order)
      <4>1. /\ p = order[c - 1] /\ n = order[c + 1] /\ c - 1 # c + 1
            /\ c - 1 \in 1 .. Len(order) /\ c + 1 \in 1 .. Len(order)
        BY <3>2, <1>4
      <4> QED BY <4>1, <1>2 DEF Chain
    <3> QED BY <3>1, <3>2
  <2>3. ASSUME NEW x \in DOMAIN ent'
        PROVE  /\ ent'[x] \in Entry
               /\ ent'[x].key = ent[x].key
               /\ ent'[x].next = IF x = p THEN n ELSE ent[x].next
               /\ ent'[x].prev = IF x = n THEN p ELSE ent[x].prev
    <3>1. ent[x] \in Entry /\ x \in Addr
      BY <2>1, <1>2 DEF EntryMap
    <3>2. ent'[x] = IF x = p THEN [ent[x] EXCEPT !.next = n]
                    ELSE IF x = n THEN [ent[x] EXCEPT !.prev = p]
                    ELSE ent[x]
      BY <1>1, <2>1
    <3> QED BY <2>2, <3>1, <3>2, <1>7 DEF Entry
  <2> QED BY <2>1, <2>3, Zenon DEF UnlinkedBetween
<1>9. EntryMap(ent')
  <2>1. ent' = [x \in DOMAIN ent' |-> ent'[x]]
    BY <1>1
  <2>2. \A x \in DOMAIN ent' : ent'[x] \in Entry /\ x \in Addr
    BY <1>2, <1>8 DEF EntryMap
  <2> QED BY <2>1, <2>2 DEF EntryMap
<1>10. TableTypeOK'
  <2>1. head' \in Addr \cup {Nil} /\ tailLink' \in Addr \cup {HeadLink}
    BY <1>1, <1>2, <1>7
  <2>2. len' \in Nat
    BY <1>1, <1>2, <1>3
  <2> QED BY <2>1, <2>2, <1>1, <1>2, <1>5, <1>9 DEF TableTypeOK
<1>11. Chain(ent', order')
  <2>1. p = ent[a].prev /\ n = ent[a].next
    BY DEF p, n
  <2>2. Chain(ent', Without(order, a))
    BY <2>1, <1>2, <1>3, <1>8, ChainRemove
  <2> QED BY <2>2, <1>1
<1>12. ListInOrder'
  <2>1. head' = IF Len(order') = 0 THEN Nil ELSE order'[1]
    <3>1. p = HeadLink <=> c = 1
      BY <1>3, <1>4, <1>6, NilNotAddr
    <3>2. CASE c = 1
      <4>1. Len(order') # 0 => order'[1] = order[1 + 1]
        <5>1. Len(order') # 0 => 1 \in 1 .. Len(order) - 1 /\ ~(1 < c)
          BY <3>2, <1>2, <1>5
        <5> QED BY <5>1, <1>5
      <4> QED BY <4>1, <3>1, <3>2, <1>1, <1>2, <1>4, <1>5
    <3>3. CASE c # 1
      <4>1. Len(order') # 0 /\ order'[1] = order[1]
        BY <3>3, <1>2, <1>5, SMTT(60)
      <4> QED BY <4>1, <3>1, <3>3, <1>1, <1>2
    <3> QED BY <3>2, <3>3
  <2>2. tailLink' = IF Len(order') = 0 THEN HeadLink ELSE order'[Len(order')]
    <3>1. n = Nil <=> c = Len(order)
      BY <1>3, <1>4, <1>6, NilNotAddr
    <3>2. CASE c = Len(order)
      <4>1. Len(order') # 0 => order'[Len(order')] = order[c - 1]
        BY <3>2, <1>2, <1>5
      <4>2. Len(order') = 0 <=> c = 1
        BY <3>2, <1>2, <1>5
      <4> QED BY <4>1, <4>2, <3>1, <3>2, <1>1, <1>4
    <3>3. CASE c # Len(order)
      <4>1. Len(order') # 0 /\ order'[Len(order')] = order[Len(order)]
        BY <3>3, <1>2, <1>5
      <4> QED BY <4>1, <3>1, <3>3, <1>1, <1>2
    <3> QED BY <3>2, <3>3
  <2> QED BY <2>1, <2>2, <1>1, <1>2, <1>5, <1>11 DEF ListInOrder
<1>13. Placed'
  <2>1. Placed
    BY DEF TableInv
  <2> QED BY <2>1, <1>1, <1>8 DEF Placed
<1>14. DistinctKeys(ent')
  <2>1. DistinctKeys(ent)
    BY DEF TableInv
  <2> QED BY <2>1, <1>8 DEF DistinctKeys
<1>15. LoadBounded'
  <2>1. LoadBounded
    BY DEF TableInv
  <2>2. len # 0
    BY <1>2, <1>3
  <2>3. ASSUME len - 1 # 0, Overloaded((len - 1) - 1, nb) PROVE FALSE
    <3>1. /\ (len - 1) - 1 >= BucketSize
          /\ ((len - 1) - 1) * LoadDen >= LoadNum * nb
      BY <2>3 DEF Overloaded
    <3>2. (len - 1) * LoadDen >= ((len - 1) - 1) * LoadDen
      BY <1>2, <2>2, <2>3, TableAssumption
    <3>3. LoadNum * nb \in Int /\ (len - 1) * LoadDen \in Int /\ ((len - 1) - 1) * LoadDen \in Int
      BY <1>2, TableAssumption
    <3>4. len - 1 >= BucketSize /\ (len - 1) * LoadDen >= LoadNum * nb
      BY <3>1, <3>2, <3>3, <1>2, TableAssumption
    <3> QED BY <3>4, <2>1, <2>2 DEF LoadBounded, Overloaded
  <2>4. len - 1 = 0 \/ ~Overloaded((len - 1) - 1, nb)
    BY <2>3
  <2> QED BY <2>4, <1>1 DEF LoadBounded
<1> QED BY <1>10, <1>12, <1>13, <1>14, <1>15 DEF TableInv, DistinctKeys

(* An empty table of freshly allocated buckets. *)
LEMMA EmptyTable ==
  ASSUME nb' \in Nat, cap' = Fresh(nb'),
         ent' = Empty, head' = Nil, tailLink' = HeadLink, len' = 0, order' = <<>>
  PROVE  TableInv'
<1>1. DOMAIN ent' = {}
  BY DEF Empty
<1>2. EntryMap(ent')
  BY <1>1 DEF EntryMap, Empty
<1>3. TableTypeOK'
  <2>1. cap' \in [0 .. nb' - 1 -> Nat]
    BY TableAssumption DEF Fresh
  <2>2. order' \in Seq(Addr)
    OBVIOUS
  <2>3. head' \in Addr \cup {Nil} /\ tailLink' \in Addr \cup {HeadLink} /\ len' \in Nat
    OBVIOUS
  <2> QED BY <1>2, <2>1, <2>2, <2>3, Zenon DEF TableTypeOK
<1>4. ListInOrder'
  BY <1>1 DEF ListInOrder, Chain
<1>5. Placed' /\ DistinctKeys(ent') /\ LoadBounded'
  BY <1>1 DEF Placed, DistinctKeys, LoadBounded
<1> QED BY <1>3, <1>4, <1>5 DEF TableInv, DistinctKeys

(* What the other operations leave alone. *)
LEMMA TableUnchanged ==
  ASSUME TableInv, UNCHANGED <<nb, cap, ent, head, tailLink, len, order>>
  PROVE  TableInv'
BY DEF TableInv, TableTypeOK, ListInOrder, Placed, DistinctKeys, LoadBounded

(* Outside grow, nothing is required of the old table. *)
LEMMA NoGrow ==
  ASSUME old' = NotGrowing
  PROVE  GrowInv'
BY DEF GrowInv, GrowTypeOK, Moving, NotGrowing

(* Between operations no table is being moved. *)
LEMMA IdleMeansNotGrowing ==
  ASSUME GrowInv, Idle
  PROVE  old = NotGrowing
BY DEF GrowInv, GrowTypeOK, Idle

(* Only finitely many iterations are in progress. *)
LEMMA LiveFinite ==
  /\ IsFiniteSet(Live) /\ IsFiniteSet(Deferring)
  /\ Cardinality(Live) \in Nat /\ Cardinality(Deferring) \in Nat
<1>1. Live \in SUBSET Iter /\ Deferring \in SUBSET Iter /\ IsFiniteSet(Iter)
  BY TableAssumption DEF Live, Deferring
<1>2. IsFiniteSet(Live) /\ IsFiniteSet(Deferring)
  BY <1>1, FS_Subset
<1> QED BY <1>2, FS_CardinalityType

(* While updates are allowed no iterator holds an entry. *)
LEMMA MutableMeansQuiet ==
  ASSUME IterInv, Mutable
  PROVE  \A i \in Iter : iters[i].e = Nil
<1>1. Cardinality(Live) = 0
  BY DEF IterInv, IterCountExact, Mutable
<1>2. Live = {}
  BY <1>1, LiveFinite, FS_EmptySet
<1> QED BY <1>2 DEF Live, IterInv, IdleIterators

(* A step that leaves the iterators alone preserves what is known of them, *)
(* if none holds an entry or if the entries stay in place.                 *)
LEMMA ItersUnchanged ==
  ASSUME IterInv, UNCHANGED <<frozen, itercount, iters>>,
         Mutable \/ DOMAIN ent' = DOMAIN ent
  PROVE  IterInv'
<1>1. Live' = Live /\ Deferring' = Deferring
  BY DEF Live, Deferring
<1>2. IterPointersLive'
  <2>1. CASE Mutable
    <3>1. \A i \in Iter : iters'[i].e = Nil
      BY <2>1, MutableMeansQuiet
    <3> QED BY <3>1 DEF IterPointersLive
  <2>2. CASE DOMAIN ent' = DOMAIN ent
    BY <2>2 DEF IterPointersLive, IterInv
  <2> QED BY <2>1, <2>2
<1> QED BY <1>1, <1>2 DEF IterInv, IdleIterators, DeferralKept, IterCountExact

(* A step that only answers preserves the invariant. *)
LEMMA NothingChanged ==
  ASSUME IInv, UNCHANGED <<contents, frozen, itercount, iters>>
  PROVE  IInv'
<1>1. UNCHANGED <<nb, cap, ent, head, tailLink, len, old, order, frozen, itercount, iters>>
  BY DEF contents
<1>2. TableInv'
  BY <1>1, TableUnchanged DEF IInv
<1>3. IterInv'
  BY <1>1, ItersUnchanged DEF IInv
<1>4. GrowInv'
  <2>1. GrowTypeOK'
    BY <1>1 DEF IInv, GrowInv, GrowTypeOK
  <2>2. Moving'
    BY <1>1 DEF IInv, GrowInv, Moving
  <2> QED BY <2>1, <2>2 DEF GrowInv
<1> QED BY <1>2, <1>3, <1>4 DEF IInv

(* The scan for a known key stops at one of the entries. *)
LEMMA StopsAtEntry ==
  ASSUME TableInv, NEW k \in Key, Stops(k) # {}
  PROVE  FirstOf(Stops(k)) \in DOMAIN ent
<1>1. PICK a \in Stops(k) : TRUE
  OBVIOUS
<1>2. \A b \in Stops(k) : b \in DOMAIN ent
  BY DEF Stops
<1>3. \A b \in Stops(k) : b = a
  <2>1. \A b \in DOMAIN ent : b \in Stops(k) <=> Class[ent[b].key] = Class[k]
    BY StopsComplete DEF TableInv
  <2> QED BY <2>1, <1>1, <1>2 DEF TableInv, DistinctKeys
<1>4. a[2] \in Nat
  BY <1>1, <1>2 DEF TableInv, TableTypeOK, EntryMap, Addr
<1>5. \A b \in Stops(k) : a[2] <= b[2]
  BY <1>3, <1>4
<1> QED BY <1>1, <1>2, <1>5 DEF FirstOf
-----------------------------------------------------------------------------
(* The steps, one lemma for each kind of operation. *)

(* insert of an absent key, in place or by starting grow. *)
LEMMA InsertNewStep ==
  ASSUME IInv, NEW k \in Key, NEW v \in Value, InsertNew(k, v)
  PROVE  IInv'
<1>1. /\ Idle /\ Mutable /\ k \notin Unhashable /\ Stops(k) = {}
      /\ UNCHANGED <<frozen, itercount, iters>>
  BY DEF InsertNew
<1>2. TableInv /\ IterInv /\ GrowInv
  BY DEF IInv
<1>3. IterInv'
  BY <1>1, <1>2, ItersUnchanged
<1>4. old = NotGrowing
  BY <1>1, <1>2, IdleMeansNotGrowing
<1>5. \A a \in DOMAIN ent : Class[ent[a].key] # Class[k]
  BY <1>1, <1>2, StopsComplete DEF TableInv
<1>6. CASE ~Overloaded(len, Buckets) /\ Place(k, v) /\ UNCHANGED old
  <2>1. TableInv'
    BY <1>2, <1>5, <1>6, PlacePreserves
  <2>2. GrowInv'
    BY <1>4, <1>6, NoGrow
  <2> QED BY <2>1, <2>2, <1>3 DEF IInv
<1>7. CASE Overloaded(len, Buckets) /\ GrowBegin(k, v)
  <2>1. /\ nb' = 2 * nb
        /\ cap' = Fresh(2 * nb)
        /\ ent' = Empty /\ head' = Nil /\ tailLink' = HeadLink /\ len' = 0
        /\ order' = <<>>
        /\ old' = [on |-> TRUE, ent |-> ent, e |-> head, k |-> k, v |-> v, order |-> order]
    BY <1>7 DEF GrowBegin
  <2>2. /\ nb \in Nat /\ len \in Nat /\ len = Len(order) /\ order \in Seq(Addr)
        /\ EntryMap(ent) /\ head \in Addr \cup {Nil} /\ Chain(ent, order)
        /\ head = IF Len(order) = 0 THEN Nil ELSE order[1]
    BY <1>2 DEF TableInv, TableTypeOK, ListInOrder
  <2>3. nb # 0
    <3>1. len # 0
      BY <1>7, <2>2, TableAssumption DEF Overloaded
    <3>2. order[1] \in DOMAIN ent
      BY <3>1, <2>2 DEF Chain
    <3> QED BY <3>2, <1>2, BucketsOfEntries DEF TableInv
  <2>4. TableInv'
    BY <2>1, <2>2, EmptyTable
  <2>5. GrowTypeOK'
    <3>1. old'.ent = ent
      BY <2>1
    <3>2. old' \in [on : {TRUE}, ent : {old'.ent}, e : Addr \cup {Nil},
                    k : Key \ Unhashable, v : Value, order : Seq(Addr)]
      BY <1>1, <2>1, <2>2
    <3> QED BY <3>1, <3>2, <2>2 DEF GrowTypeOK
  <2>6. Moving'
    <3>1. /\ old'.ent = ent /\ old'.order = order /\ old'.k = k /\ old'.e = head
      BY <2>1
    <3>2. ~frozen' /\ itercount' = 0 /\ nb' # 0
      BY <1>1, <2>1, <2>2, <2>3 DEF Mutable
    <3>3. DistinctKeys(ent)
      BY <1>2 DEF TableInv
    <3>4. \A m \in 0 .. Len(order) : ~Overloaded(m, 2 * nb)
      BY <1>2, <2>2, <2>3, DoublingRelieves DEF TableInv, LoadBounded
    <3>5. len' <= Len(order) /\ head = IF len' = Len(order) THEN Nil ELSE order[len' + 1]
      BY <2>1, <2>2
    <3>6. \A i \in 1 .. len' : ent'[order'[i]].key = ent[order[i]].key
      BY <2>1
    <3> QED BY <3>1, <3>2, <3>3, <3>4, <3>5, <3>6, <1>5, <2>1, <2>2 DEF Moving
  <2> QED BY <1>3, <2>4, <2>5, <2>6 DEF IInv, GrowInv
<1> QED BY <1>6, <1>7 DEF InsertNew

(* insert of a key that is there, or that cannot be compared. *)
LEMMA InsertKnownStep ==
  ASSUME IInv, NEW k \in Key, NEW v \in Value, InsertKnown(k, v)
  PROVE  IInv'
<1> DEFINE a == FirstOf(Stops(k))
<1>1. /\ Idle /\ Stops(k) # {}
      /\ UNCHANGED ent \/ ent' = [ent EXCEPT ![a].val = v]
      /\ UNCHANGED <<nb, cap, head, tailLink, len, old, order, frozen, itercount, iters>>
  BY DEF InsertKnown
<1>2. TableInv /\ IterInv /\ GrowInv
  BY DEF IInv
<1>3. a \in DOMAIN ent
  BY <1>1, <1>2, StopsAtEntry
<1>4. EntryMap(ent)
  BY <1>2 DEF TableInv, TableTypeOK
<1> HIDE DEF a
<1>5. /\ DOMAIN ent' = DOMAIN ent
      /\ \A x \in DOMAIN ent : /\ ent'[x] \in Entry
                               /\ ent'[x].key = ent[x].key
                               /\ ent'[x].next = ent[x].next
                               /\ ent'[x].prev = ent[x].prev
      /\ EntryMap(ent')
  <2>1. CASE UNCHANGED ent
    BY <2>1, <1>4 DEF EntryMap
  <2>2. CASE ent' = [ent EXCEPT ![a].val = v]
    <3>1. DOMAIN ent' = DOMAIN ent /\ ent' = [x \in DOMAIN ent |-> ent'[x]]
      BY <2>2, <1>4 DEF EntryMap
    <3>2. ASSUME NEW x \in DOMAIN ent
          PROVE  /\ ent'[x] \in Entry
                 /\ ent'[x].key = ent[x].key
                 /\ ent'[x].next = ent[x].next
                 /\ ent'[x].prev = ent[x].prev
      <4>1. ent[x] \in Entry
        BY <1>4 DEF EntryMap
      <4>2. ent'[x] = IF x = a THEN [ent[x] EXCEPT !.val = v] ELSE ent[x]
        BY <2>2, <1>4 DEF EntryMap
      <4> QED BY <4>1, <4>2 DEF Entry
    <3>3. EntryMap(ent')
      BY <3>1, <3>2, <1>4 DEF EntryMap
    <3> QED BY <3>1, <3>2, <3>3
  <2> QED BY <2>1, <2>2, <1>1
<1>6. TableInv'
  <2>1. TableTypeOK'
    BY <1>1, <1>2, <1>5 DEF TableInv, TableTypeOK
  <2>2. Chain(ent', order')
    <3>1. Chain(ent, order)
      BY <1>2 DEF TableInv, ListInOrder
    <3> QED BY <3>1, <1>1, <1>5 DEF Chain
  <2>3. ListInOrder'
    BY <2>2, <1>1, <1>2 DEF TableInv, ListInOrder
  <2>4. Placed' /\ DistinctKeys(ent') /\ LoadBounded'
    BY <1>1, <1>2, <1>5 DEF TableInv, Placed, DistinctKeys, LoadBounded
  <2> QED BY <2>1, <2>3, <2>4 DEF TableInv, DistinctKeys
<1>7. IterInv'
  BY <1>1, <1>2, <1>5, ItersUnchanged
<1>8. GrowInv'
  BY <1>1, <1>2, IdleMeansNotGrowing, NoGrow
<1> QED BY <1>6, <1>7, <1>8 DEF IInv

(* insert that fails before it looks for the key. *)
LEMMA InsertRefusedStep ==
  ASSUME IInv, NEW k \in Key, InsertRefused(k)
  PROVE  IInv'
<1>1. CASE Answer(Refusal)
  BY <1>1, NothingChanged DEF Answer
<1>2. CASE /\ Idle /\ nb' = Buckets /\ cap' = Capacity
           /\ UNCHANGED <<ent, head, tailLink, len, old, order, frozen, itercount, iters>>
  <2>1. TableInv /\ IterInv /\ GrowInv
    BY DEF IInv
  <2>2. nb' \in Nat /\ cap' \in [0 .. nb' - 1 -> Nat]
    BY <1>2, <2>1, BucketsType DEF TableInv
  <2>3. TableTypeOK'
    BY <1>2, <2>1, <2>2 DEF TableInv, TableTypeOK
  <2>4. ListInOrder'
    BY <1>2, <2>1 DEF TableInv, ListInOrder
  <2>5. Placed'
    <3>1. CASE DOMAIN ent = {}
      BY <3>1, <1>2 DEF Placed
    <3>2. CASE DOMAIN ent # {}
      <4>1. nb' = nb /\ cap' = cap
        BY <3>2, <1>2, <2>1, BucketsOfEntries DEF TableInv
      <4> QED BY <4>1, <1>2, <2>1 DEF TableInv, Placed
    <3> QED BY <3>1, <3>2
  <2>6. LoadBounded'
    <3>1. len = Len(order) /\ len \in Nat /\ Chain(ent, order) /\ order \in Seq(Addr)
      BY <2>1 DEF TableInv, ListInOrder, TableTypeOK
    <3>2. CASE len = 0
      BY <3>2, <1>2 DEF LoadBounded
    <3>3. CASE len # 0
      <4>1. order[1] \in DOMAIN ent
        BY <3>1, <3>3 DEF Chain
      <4>2. nb' = nb
        BY <4>1, <1>2, <2>1, BucketsOfEntries DEF TableInv
      <4> QED BY <4>2, <1>2, <2>1 DEF TableInv, LoadBounded
    <3> QED BY <3>2, <3>3
  <2>7. IterInv'
    BY <1>2, <2>1, ItersUnchanged
  <2>8. GrowInv'
    BY <1>2, <2>1, IdleMeansNotGrowing, NoGrow
  <2> QED BY <1>2, <2>1, <2>3, <2>4, <2>5, <2>6, <2>7, <2>8 DEF IInv, TableInv, DistinctKeys
<1> QED BY <1>1, <1>2 DEF InsertRefused

(* The old table has its type while grow runs. *)
LEMMA GrowingType ==
  ASSUME GrowTypeOK, old.on
  PROVE  /\ old \in [on : {TRUE}, ent : {old.ent}, e : Addr \cup {Nil},
                     k : Key \ Unhashable, v : Value, order : Seq(Addr)]
         /\ EntryMap(old.ent)
<1>1. ~NotGrowing.on
  BY DEF NotGrowing
<1>2. old # NotGrowing
  BY <1>1, Zenon
<1> QED BY <1>2, Zenon DEF GrowTypeOK

(* One iteration of the loop of grow. *)
LEMMA GrowStepStep ==
  ASSUME IInv, GrowStep
  PROVE  IInv'
<1> DEFINE e == old.ent[old.e]
<1>1. /\ old.on /\ old.e # Nil
      /\ Stops(e.key) = {} /\ ~Overloaded(len, nb)
      /\ Place(e.key, e.val)
      /\ old' = [old EXCEPT !.e = e.next]
      /\ UNCHANGED <<frozen, itercount, iters>>
  BY DEF GrowStep
<1>2. TableInv /\ IterInv /\ GrowTypeOK
  BY DEF IInv, GrowInv
<1>3. /\ ~frozen /\ itercount = 0 /\ nb # 0
      /\ Chain(old.ent, old.order)
      /\ DistinctKeys(old.ent)
      /\ \A a \in DOMAIN old.ent : Class[old.ent[a].key] # Class[old.k]
      /\ len <= Len(old.order)
      /\ old.e = IF len = Len(old.order) THEN Nil ELSE old.order[len + 1]
      /\ \A i \in 1 .. len : ent[order[i]].key = old.ent[old.order[i]].key
      /\ \A m \in 0 .. Len(old.order) : ~Overloaded(m, nb)
  BY <1>1 DEF IInv, GrowInv, Moving
<1>4. /\ old \in [on : {TRUE}, ent : {old.ent}, e : Addr \cup {Nil},
                  k : Key \ Unhashable, v : Value, order : Seq(Addr)]
      /\ EntryMap(old.ent) /\ old.order \in Seq(Addr) /\ Len(old.order) \in Nat
      /\ len \in Nat /\ nb \in Nat
  <2>1. /\ old \in [on : {TRUE}, ent : {old.ent}, e : Addr \cup {Nil},
                    k : Key \ Unhashable, v : Value, order : Seq(Addr)]
        /\ EntryMap(old.ent)
    BY <1>1, <1>2, GrowingType
  <2>2. len \in Nat /\ nb \in Nat
    BY <1>2 DEF TableInv, TableTypeOK
  <2>3. old.order \in Seq(Addr)
    BY <2>1
  <2>4. Len(old.order) \in Nat
    BY <2>3
  <2> QED BY <2>1, <2>2, <2>3, <2>4, Zenon
<1>5. len + 1 \in 1 .. Len(old.order) /\ old.e = old.order[len + 1]
  BY <1>1, <1>3, <1>4
<1>6. /\ old.e \in DOMAIN old.ent
      /\ e.next = IF len + 1 = Len(old.order) THEN Nil ELSE old.order[(len + 1) + 1]
  BY <1>3, <1>5 DEF Chain
<1>7. e \in Entry
  BY <1>4, <1>6 DEF EntryMap
<1>8. e.key \in Key /\ e.val \in Value /\ e.next \in Addr \cup {Nil}
  BY <1>7 DEF Entry
<1>9. Buckets = nb
  BY <1>3 DEF Buckets
<1> HIDE DEF e
<1>10. \A a \in DOMAIN ent : Class[ent[a].key] # Class[e.key]
  BY <1>1, <1>2, <1>8, StopsComplete DEF TableInv
<1>11. /\ TableInv'
       /\ nb' = nb /\ len' = len + 1
       /\ \A i \in 1 .. len : ent'[order'[i]].key = ent[order[i]].key
       /\ ent'[order'[len + 1]].key = e.key
  BY <1>1, <1>2, <1>8, <1>9, <1>10, PlacePreserves
<1>12. IterInv'
  BY <1>1, <1>2, <1>3, ItersUnchanged DEF Mutable
<1>13. /\ old'.on /\ old'.ent = old.ent /\ old'.order = old.order /\ old'.k = old.k
       /\ old'.e = e.next
  BY <1>1, <1>4
<1>14. GrowTypeOK'
  <2>1. old' \in [on : {TRUE}, ent : {old'.ent}, e : Addr \cup {Nil},
                  k : Key \ Unhashable, v : Value, order : Seq(Addr)]
    BY <1>1, <1>4, <1>8, <1>13
  <2> QED BY <2>1, <1>4, <1>13 DEF GrowTypeOK
<1>15. Moving'
  <2>1. ~frozen' /\ itercount' = 0 /\ nb' # 0
    BY <1>1, <1>3, <1>11
  <2>2. /\ len' <= Len(old.order)
        /\ e.next = IF len' = Len(old.order) THEN Nil ELSE old.order[len' + 1]
    BY <1>4, <1>5, <1>6, <1>11
  <2>3. ASSUME NEW i \in 1 .. len'
        PROVE  ent'[order'[i]].key = old.ent[old.order[i]].key
    <3>1. CASE i \in 1 .. len
      BY <3>1, <1>3, <1>11
    <3>2. CASE i = len + 1
      BY <3>2, <1>5, <1>11 DEF e
    <3> QED BY <3>1, <3>2, <1>4, <1>11
  <2> QED BY <2>1, <2>2, <2>3, <1>3, <1>11, <1>13 DEF Moving
<1> QED BY <1>11, <1>12, <1>14, <1>15 DEF IInv, GrowInv

(* The insertion that insert retries after grow. *)
LEMMA GrowEndStep ==
  ASSUME IInv, GrowEnd
  PROVE  IInv'
<1>1. /\ old.on
      /\ Stops(old.k) = {} /\ ~Overloaded(len, nb)
      /\ Place(old.k, old.v)
      /\ old' = NotGrowing
      /\ UNCHANGED <<frozen, itercount, iters>>
  BY DEF GrowEnd
<1>2. TableInv /\ IterInv /\ GrowTypeOK
  BY DEF IInv, GrowInv
<1>3. ~frozen /\ itercount = 0 /\ nb # 0
  BY <1>1 DEF IInv, GrowInv, Moving
<1>4. old.k \in Key /\ old.v \in Value
  BY <1>1, <1>2, GrowingType
<1>5. \A a \in DOMAIN ent : Class[ent[a].key] # Class[old.k]
  BY <1>1, <1>2, <1>4, StopsComplete DEF TableInv
<1>6. Buckets = nb
  BY <1>3 DEF Buckets
<1>7. TableInv'
  BY <1>1, <1>2, <1>4, <1>5, <1>6, PlacePreserves
<1>8. IterInv'
  BY <1>1, <1>2, <1>3, ItersUnchanged DEF Mutable
<1>9. GrowInv'
  BY <1>1, NoGrow
<1> QED BY <1>7, <1>8, <1>9 DEF IInv

(* delete of a key that is there. *)
LEMMA DeleteFoundStep ==
  ASSUME IInv, NEW k \in Key, DeleteFound(k)
  PROVE  IInv'
<1> DEFINE a == FirstOf(Stops(k))
<1>1. /\ Idle /\ Mutable /\ Stops(k) # {}
      /\ Unlink(a)
      /\ UNCHANGED <<nb, cap, old, frozen, itercount, iters>>
  BY DEF DeleteFound
<1>2. TableInv /\ IterInv /\ GrowInv
  BY DEF IInv
<1>3. a \in DOMAIN ent
  BY <1>1, <1>2, StopsAtEntry
<1>4. TableInv'
  BY <1>1, <1>2, <1>3, UnlinkPreserves
<1>5. IterInv'
  BY <1>1, <1>2, ItersUnchanged
<1>6. GrowInv'
  BY <1>1, <1>2, IdleMeansNotGrowing, NoGrow
<1> QED BY <1>4, <1>5, <1>6 DEF IInv

(* delete that fails, or finds nothing. *)
LEMMA DeleteOtherStep ==
  ASSUME IInv, NEW k \in Key, DeleteOther(k)
  PROVE  IInv'
<1>1. UNCHANGED <<contents, frozen, itercount, iters>>
  BY DEF DeleteOther, Answer
<1> QED BY <1>1, NothingChanged

(* lookup. *)
LEMMA LookupStep ==
  ASSUME IInv, NEW k \in Key, Lookup(k)
  PROVE  IInv'
<1>1. UNCHANGED <<contents, frozen, itercount, iters>>
  BY DEF Lookup, Answer
<1> QED BY <1>1, NothingChanged

(* clear. *)
LEMMA ClearStep ==
  ASSUME IInv, Clear
  PROVE  IInv'
<1>1. CASE Answer(Refusal)
  BY <1>1, NothingChanged DEF Answer
<1>2. CASE /\ Idle /\ Mutable /\ cap' = Fresh(nb)
           /\ ent' = Empty /\ head' = Nil /\ tailLink' = HeadLink /\ len' = 0
           /\ order' = <<>>
           /\ UNCHANGED <<nb, old, frozen, itercount, iters>>
  <2>1. TableInv /\ IterInv /\ GrowInv
    BY DEF IInv
  <2>2. nb' \in Nat
    BY <1>2, <2>1 DEF TableInv, TableTypeOK
  <2>3. TableInv'
    BY <1>2, <2>2, EmptyTable
  <2>4. IterInv'
    BY <1>2, <2>1, ItersUnchanged
  <2>5. GrowInv'
    BY <1>2, <2>1, IdleMeansNotGrowing, NoGrow
  <2> QED BY <2>3, <2>4, <2>5 DEF IInv
<1> QED BY <1>1, <1>2 DEF Clear

(* freeze. *)
LEMMA FreezeStep ==
  ASSUME IInv, Freeze
  PROVE  IInv'
<1>1. /\ Idle /\ frozen' = TRUE
      /\ UNCHANGED <<nb, cap, ent, head, tailLink, len, old, order, itercount, iters>>
  BY DEF Freeze, contents
<1>2. TableInv /\ IterInv /\ GrowInv
  BY DEF IInv
<1>3. TableInv'
  BY <1>1, <1>2, TableUnchanged
<1>4. IterInv'
  <2>1. Live' = Live /\ Deferring' = Deferring
    BY <1>1 DEF Live, Deferring
  <2> QED BY <2>1, <1>1, <1>2 DEF IterInv, IdleIterators, DeferralKept, IterCountExact, IterPointersLive
<1>5. GrowInv'
  BY <1>1, <1>2, IdleMeansNotGrowing, NoGrow
<1> QED BY <1>3, <1>4, <1>5 DEF IInv

(* A link followed from an entry, or from the head, leads to an entry. *)
LEMMA LinksLive ==
  ASSUME TableInv
  PROVE  /\ head # Nil => head \in DOMAIN ent
         /\ \A a \in DOMAIN ent : ent[a].next # Nil => ent[a].next \in DOMAIN ent
<1>1. /\ Chain(ent, order) /\ order \in Seq(Addr) /\ Len(order) \in Nat
      /\ head = IF Len(order) = 0 THEN Nil ELSE order[1]
  BY DEF TableInv, TableTypeOK, ListInOrder
<1>2. head # Nil => head \in DOMAIN ent
  BY <1>1 DEF Chain
<1>3. ASSUME NEW a \in DOMAIN ent, ent[a].next # Nil
      PROVE  ent[a].next \in DOMAIN ent
  <2>1. PICK i \in 1 .. Len(order) : order[i] = a
    BY <1>1 DEF Chain
  <2>2. ent[a].next = IF i = Len(order) THEN Nil ELSE order[i + 1]
    BY <1>1, <2>1 DEF Chain
  <2>3. i # Len(order) /\ i + 1 \in 1 .. Len(order)
    BY <1>1, <1>3, <2>2
  <2> QED BY <1>1, <2>2, <2>3 DEF Chain
<1> QED BY <1>2, <1>3

(* The start of an iteration, by iterate or by entries. *)
LEMMA BeginStep ==
  ASSUME IInv, Idle, NEW i \in Iter, iters[i].kind = "off",
         NEW it \in Iterator, it.kind # "off", it.counted => ~frozen,
         it.kind = "entries" /\ ~it.counted => frozen,
         it.e # Nil => it.e \in DOMAIN ent,
         iters' = [iters EXCEPT ![i] = it],
         itercount' = IF frozen THEN itercount ELSE itercount + 1,
         UNCHANGED <<contents, frozen>>
  PROVE  IInv'
<1>1. UNCHANGED <<nb, cap, ent, head, tailLink, len, old, order, frozen>>
  BY DEF contents
<1>2. TableInv /\ IterInv /\ GrowInv
  BY DEF IInv
<1>3. TableInv'
  BY <1>1, <1>2, TableUnchanged
<1>4. GrowInv'
  BY <1>1, <1>2, IdleMeansNotGrowing, NoGrow
<1>5. /\ frozen \in BOOLEAN /\ itercount \in Nat /\ iters \in [Iter -> Iterator]
      /\ ~frozen => itercount = Cardinality(Live)
      /\ itercount >= Cardinality(Deferring)
  BY <1>2 DEF IterInv, IterCountExact
<1>6. iters' \in [Iter -> Iterator] /\ iters'[i] = it
      /\ \A j \in Iter : j # i => iters'[j] = iters[j]
  BY <1>5
<1>7. itercount' \in Nat
  BY <1>5
<1>8. IdleIterators' /\ DeferralKept' /\ IterPointersLive'
  BY <1>1, <1>2, <1>6 DEF IterInv, IdleIterators, DeferralKept, IterPointersLive
<1>9. Live' = Live \cup {i} /\ i \notin Live
  BY <1>6 DEF Live
<1>10. Cardinality(Live') = Cardinality(Live) + 1
  BY <1>9, LiveFinite, FS_AddElement
<1>11. /\ IsFiniteSet(Live') /\ Deferring' \in SUBSET Live'
  <2>1. IsFiniteSet(Live')
    BY <1>9, LiveFinite, FS_AddElement
  <2> QED BY <2>1 DEF Deferring
<1>12. Cardinality(Deferring') <= Cardinality(Live')
  BY <1>11, FS_Subset
<1>13. frozen => Deferring' = Deferring
  <2>1. iters[i].kind = "off"
    OBVIOUS
  <2> QED BY <2>1, <1>6 DEF Deferring, Live
<1>14. IterCountExact'
  <2>1. CASE frozen
    BY <2>1, <1>1, <1>5, <1>13 DEF IterCountExact
  <2>2. CASE ~frozen
    BY <2>2, <1>1, <1>5, <1>10, <1>12, LiveFinite DEF IterCountExact
  <2> QED BY <2>1, <2>2
<1> QED BY <1>1, <1>3, <1>4, <1>5, <1>6, <1>7, <1>8, <1>14 DEF IInv, IterInv

(* The end of an iteration. *)
LEMMA EndStep ==
  ASSUME IInv, Idle, NEW i \in Iter, iters[i].kind # "off",
         iters' = [iters EXCEPT ![i] = Off],
         \/ itercount' = IF frozen THEN itercount ELSE itercount - 1
         \/ /\ iters[i].kind = "entries"
            /\ itercount' = IF iters[i].counted THEN itercount - 1 ELSE itercount,
         UNCHANGED <<contents, frozen>>
  PROVE  IInv'
<1>1. UNCHANGED <<nb, cap, ent, head, tailLink, len, old, order, frozen>>
  BY DEF contents
<1>2. TableInv /\ IterInv /\ GrowInv
  BY DEF IInv
<1>3. TableInv'
  BY <1>1, <1>2, TableUnchanged
<1>4. GrowInv'
  BY <1>1, <1>2, IdleMeansNotGrowing, NoGrow
<1>5. /\ frozen \in BOOLEAN /\ itercount \in Nat /\ iters \in [Iter -> Iterator]
      /\ ~frozen => itercount = Cardinality(Live)
      /\ itercount >= Cardinality(Deferring)
  BY <1>2 DEF IterInv, IterCountExact
<1>6. /\ iters' \in [Iter -> Iterator] /\ iters'[i] = Off
      /\ \A j \in Iter : j # i => iters'[j] = iters[j]
  BY <1>5 DEF Off, Iterator
<1>7. Off.kind = "off" /\ Off.e = Nil /\ ~Off.counted
  BY DEF Off
<1>8. IdleIterators' /\ DeferralKept' /\ IterPointersLive'
  BY <1>1, <1>2, <1>6, <1>7 DEF IterInv, IdleIterators, DeferralKept, IterPointersLive
<1>9. Live' = Live \ {i} /\ i \in Live /\ Deferring' = Deferring \ {i}
      /\ (i \in Deferring <=> iters[i].counted)
  BY <1>6, <1>7 DEF Live, Deferring
<1>10. /\ IsFiniteSet(Live') /\ Cardinality(Live') = Cardinality(Live) - 1
       /\ Cardinality(Deferring') =
            IF i \in Deferring THEN Cardinality(Deferring) - 1 ELSE Cardinality(Deferring)
  BY <1>9, LiveFinite, FS_RemoveElement
<1>11. Cardinality(Deferring') <= Cardinality(Live')
  <2>1. Deferring' \in SUBSET Live'
    BY DEF Deferring
  <2> QED BY <2>1, <1>10, FS_Subset
<1>12. /\ Cardinality(Live) \in Nat /\ Cardinality(Deferring) \in Nat
       /\ Cardinality(Live') \in Nat /\ Cardinality(Deferring') \in Nat
  <2>1. IsFiniteSet(Deferring')
    BY <1>9, LiveFinite, FS_RemoveElement
  <2> QED BY <2>1, <1>10, LiveFinite, FS_CardinalityType
<1>13. itercount' \in Nat /\ IterCountExact'
  <2>1. CASE ~frozen
    <3>1. itercount' = itercount - 1
      BY <2>1, <1>2 DEF IterInv, DeferralKept
    <3> QED BY <3>1, <2>1, <1>1, <1>5, <1>10, <1>11, <1>12 DEF IterCountExact
  <2>2. CASE frozen
    <3>1. itercount' = itercount \/ (i \in Deferring /\ itercount' = itercount - 1)
      BY <2>2, <1>9
    <3> QED BY <3>1, <2>2, <1>1, <1>5, <1>10, <1>12 DEF IterCountExact
  <2> QED BY <2>1, <2>2
<1> QED BY <1>1, <1>3, <1>4, <1>5, <1>6, <1>8, <1>13 DEF IInv, IterInv

(* An iterator moves on to another entry. *)
LEMMA MoveStep ==
  ASSUME IInv, Idle, NEW i \in Iter, iters[i].kind # "off",
         NEW x \in Addr \cup {Nil}, x # Nil => x \in DOMAIN ent,
         iters' = [iters EXCEPT ![i].e = x],
         UNCHANGED <<contents, frozen, itercount>>
  PROVE  IInv'
<1>1. UNCHANGED <<nb, cap, ent, head, tailLink, len, old, order, frozen, itercount>>
  BY DEF contents
<1>2. TableInv /\ IterInv /\ GrowInv
  BY DEF IInv
<1>3. TableInv'
  BY <1>1, <1>2, TableUnchanged
<1>4. GrowInv'
  BY <1>1, <1>2, IdleMeansNotGrowing, NoGrow
<1>5. iters \in [Iter -> Iterator]
  BY <1>2 DEF IterInv
<1>6. /\ iters' \in [Iter -> Iterator]
      /\ iters'[i].e = x
      /\ \A j \in Iter : /\ j # i => iters'[j] = iters[j]
                         /\ iters'[j].kind = iters[j].kind
                         /\ iters'[j].counted = iters[j].counted
  BY <1>5 DEF Iterator
<1>7. Live' = Live /\ Deferring' = Deferring
  BY <1>6 DEF Live, Deferring
<1>8. IdleIterators' /\ DeferralKept' /\ IterPointersLive'
  BY <1>1, <1>2, <1>6 DEF IterInv, IdleIterators, DeferralKept, IterPointersLive
<1> QED BY <1>1, <1>2, <1>3, <1>4, <1>6, <1>7, <1>8 DEF IInv, IterInv, IterCountExact

(* A call of iterate. *)
LEMMA IterateStep ==
  ASSUME IInv, NEW i \in Iter, Iterate(i)
  PROVE  IInv'
<1> DEFINE it == [kind |-> "key", e |-> head, counted |-> FALSE]
<1>1. /\ Idle /\ iters[i].kind = "off"
      /\ itercount' = IF frozen THEN itercount ELSE itercount + 1
      /\ iters' = [iters EXCEPT ![i] = it]
      /\ UNCHANGED <<contents, frozen>>
  BY DEF Iterate
<1>2. it \in Iterator /\ it.kind = "key" /\ ~it.counted /\ it.e = head
  BY DEF Iterator, IInv, TableInv, TableTypeOK
<1>3. head # Nil => head \in DOMAIN ent
  BY LinksLive DEF IInv
<1> HIDE DEF it
<1> QED BY <1>1, <1>2, <1>3, BeginStep

(* A call of keyIterator.Next. *)
LEMMA NextKeyStep ==
  ASSUME IInv, NEW i \in Iter, NextKey(i)
  PROVE  IInv'
<1> DEFINE x == ent[iters[i].e].next
<1>1. /\ Idle /\ iters[i].kind = "key" /\ iters[i].e # Nil
      /\ iters' = [iters EXCEPT ![i].e = x]
      /\ UNCHANGED <<contents, frozen, itercount>>
  BY DEF NextKey
<1>2. iters[i].e \in DOMAIN ent
  BY <1>1 DEF IInv, IterInv, IterPointersLive
<1>3. x \in Addr \cup {Nil} /\ (x # Nil => x \in DOMAIN ent)
  <2>1. x # Nil => x \in DOMAIN ent
    BY <1>2, LinksLive DEF IInv
  <2>2. ent[iters[i].e] \in Entry
    BY <1>2 DEF IInv, TableInv, TableTypeOK, EntryMap
  <2> QED BY <2>1, <2>2 DEF Entry
<1> HIDE DEF x
<1> QED BY <1>1, <1>3, MoveStep

(* A call of keyIterator.Done. *)
LEMMA DoneStep ==
  ASSUME IInv, NEW i \in Iter, Done(i)
  PROVE  IInv'
<1>1. /\ Idle /\ iters[i].kind # "off"
      /\ itercount' = IF frozen THEN itercount ELSE itercount - 1
      /\ iters' = [iters EXCEPT ![i] = Off]
      /\ UNCHANGED <<contents, frozen>>
  BY DEF Done
<1> QED BY <1>1, EndStep

(* The start of a range over entries. *)
LEMMA EntriesBeginStep ==
  ASSUME IInv, NEW i \in Iter, EntriesBegin(i)
  PROVE  IInv'
<1> DEFINE it == [kind |-> "entries", e |-> HeadLink, counted |-> ~frozen]
<1>1. /\ Idle /\ iters[i].kind = "off"
      /\ itercount' = IF frozen THEN itercount ELSE itercount + 1
      /\ iters' = [iters EXCEPT ![i] = it]
      /\ UNCHANGED <<contents, frozen>>
  BY DEF EntriesBegin
<1>2. it \in Iterator /\ it.kind = "entries" /\ it.counted = ~frozen /\ it.e = Nil
  BY DEF Iterator, HeadLink, Nil
<1> HIDE DEF it
<1>3. it.kind # "off" /\ (it.counted => ~frozen)
      /\ (it.kind = "entries" /\ ~it.counted => frozen)
  BY <1>2
<1> QED BY <1>1, <1>2, <1>3, BeginStep

(* One call of yield by entries. *)
LEMMA EntriesYieldStep ==
  ASSUME IInv, NEW i \in Iter, EntriesYield(i)
  PROVE  IInv'
<1> DEFINE x == Deref(iters[i].e)
<1>1. /\ Idle /\ iters[i].kind # "off" /\ x # Nil
      /\ iters' = [iters EXCEPT ![i].e = x]
      /\ UNCHANGED <<contents, frozen, itercount>>
  BY DEF EntriesYield
<1>2. iters[i].e # HeadLink => iters[i].e \in DOMAIN ent
  BY DEF IInv, IterInv, IterPointersLive, HeadLink, Nil
<1>3. x \in DOMAIN ent
  BY <1>1, <1>2, LinksLive DEF IInv, Deref
<1>4. x \in Addr
  BY <1>3 DEF IInv, TableInv, TableTypeOK, EntryMap
<1> HIDE DEF x
<1> QED BY <1>1, <1>3, <1>4, MoveStep

(* The deferred decrement of entries. *)
LEMMA EntriesEndStep ==
  ASSUME IInv, NEW i \in Iter, EntriesEnd(i)
  PROVE  IInv'
<1>1. /\ Idle /\ iters[i].kind = "entries"
      /\ itercount' = IF iters[i].counted THEN itercount - 1 ELSE itercount
      /\ iters' = [iters EXCEPT ![i] = Off]
      /\ UNCHANGED <<contents, frozen>>
  BY DEF EntriesEnd
<1> QED BY <1>1, EndStep
-----------------------------------------------------------------------------
(* A table just made satisfies the invariant. *)
LEMMA InitInv == Init => IInv
<1> SUFFICES ASSUME Init PROVE IInv
  OBVIOUS
<1>1. nb \in Nat
  BY TableAssumption DEF Init, InitBuckets
<1>2. /\ cap = Fresh(nb) /\ ent = Empty /\ head = Nil /\ tailLink = HeadLink
      /\ len = 0 /\ order = <<>> /\ frozen = FALSE /\ itercount = 0
      /\ iters = [i \in Iter |-> Off] /\ old = NotGrowing
  BY DEF Init
<1>3. DOMAIN ent = {} /\ EntryMap(ent)
  BY <1>2 DEF EntryMap, Empty
<1>4. TableTypeOK
  <2>1. cap \in [0 .. nb - 1 -> Nat]
    BY <1>1, <1>2, TableAssumption DEF Fresh
  <2>2. order \in Seq(Addr)
    BY <1>2
  <2> QED BY <1>1, <1>2, <1>3, <2>1, <2>2 DEF TableTypeOK
<1>5. ListInOrder
  BY <1>2, <1>3 DEF ListInOrder, Chain
<1>6. Placed /\ DistinctKeys(ent) /\ LoadBounded
  BY <1>2, <1>3 DEF Placed, DistinctKeys, LoadBounded
<1>7. IterInv
  <2>1. Off \in Iterator /\ Off.kind = "off" /\ Off.e = Nil /\ ~Off.counted
    BY DEF Off, Iterator
  <2>2. iters \in [Iter -> Iterator] /\ \A i \in Iter : iters[i] = Off
    BY <1>2, <2>1
  <2>3. Live = {} /\ Deferring = {}
    BY <2>1, <2>2 DEF Live, Deferring
  <2>4. Cardinality(Live) = 0 /\ Cardinality(Deferring) = 0
    BY <2>3, FS_EmptySet
  <2>5. IterCountExact
    BY <2>4, <1>2 DEF IterCountExact
  <2>6. IdleIterators /\ DeferralKept /\ IterPointersLive
    BY <2>1, <2>2 DEF IdleIterators, DeferralKept, IterPointersLive
  <2> QED BY <1>2, <2>2, <2>5, <2>6 DEF IterInv
<1>8. GrowInv
  BY <1>2 DEF GrowInv, GrowTypeOK, Moving, NotGrowing
<1> QED BY <1>4, <1>5, <1>6, <1>7, <1>8 DEF IInv, TableInv

(* Every step of the table preserves the invariant. *)
LEMMA NextInv == IInv /\ [Next]_vars => IInv'
<1> SUFFICES ASSUME IInv, [Next]_vars PROVE IInv'
  OBVIOUS
<1>1. ASSUME NEW k \in Key, NEW v \in Value, Insert(k, v) PROVE IInv'
  BY <1>1, InsertNewStep, InsertKnownStep DEF Insert
<1>2. ASSUME NEW k \in Key,
             InsertRefused(k) \/ DeleteFound(k) \/ DeleteOther(k) \/ Lookup(k)
      PROVE  IInv'
  BY <1>2, InsertRefusedStep, DeleteFoundStep, DeleteOtherStep, LookupStep
<1>3. CASE GrowStep
  BY <1>3, GrowStepStep
<1>4. CASE GrowEnd
  BY <1>4, GrowEndStep
<1>5. CASE Clear
  BY <1>5, ClearStep
<1>6. CASE Freeze
  BY <1>6, FreezeStep
<1>7. ASSUME NEW i \in Iter, \/ Iterate(i) \/ NextKey(i) \/ Done(i)
                             \/ EntriesBegin(i) \/ EntriesYield(i) \/ EntriesEnd(i)
      PROVE  IInv'
  BY <1>7, IterateStep, NextKeyStep, DoneStep,
     EntriesBeginStep, EntriesYieldStep, EntriesEndStep
<1>8. CASE UNCHANGED vars
  BY <1>8, NothingChanged DEF vars, contents
<1> QED BY <1>1, <1>2, <1>3, <1>4, <1>5, <1>6, <1>7, <1>8 DEF Next

(* The invariant holds in every reachable state. *)
THEOREM Invariance == Spec => []IInv
BY InitInv, NextInv, PTL DEF Spec
-----------------------------------------------------------------------------
(* Every lookup of a stored key stops at its entry and at no other.        *)
LEMMA InvLookupFinds == IInv => LookupFinds
<1> SUFFICES ASSUME IInv, NEW a \in DOMAIN ent PROVE Stops(ent[a].key) = {a}
  BY DEF LookupFinds
<1>1. TableTypeOK /\ Placed /\ DistinctKeys(ent)
  BY DEF IInv, TableInv
<1>2. ent[a].key \in Key
  BY <1>1 DEF TableTypeOK, EntryMap, Entry
<1>3. \A b \in DOMAIN ent : b \in Stops(ent[a].key) <=> Class[ent[b].key] = Class[ent[a].key]
  BY <1>1, <1>2, StopsComplete
<1>4. \A b \in Stops(ent[a].key) : b \in DOMAIN ent
  BY DEF Stops
<1> QED BY <1>1, <1>3, <1>4 DEF DistinctKeys

(* An entry moved by grow finds its key absent and room in the new table.  *)
LEMMA InvGrowCannotFail == IInv => GrowCannotFail
<1> DEFINE k == IF old.e = Nil THEN old.k ELSE old.ent[old.e].key
<1> SUFFICES ASSUME IInv, old.on PROVE Stops(k) = {} /\ ~Overloaded(len, nb)
  BY DEF GrowCannotFail
<1>1. /\ Chain(old.ent, old.order)
      /\ DistinctKeys(old.ent)
      /\ \A a \in DOMAIN old.ent : Class[old.ent[a].key] # Class[old.k]
      /\ len <= Len(old.order)
      /\ old.e = IF len = Len(old.order) THEN Nil ELSE old.order[len + 1]
      /\ \A i \in 1 .. len : ent[order[i]].key = old.ent[old.order[i]].key
      /\ \A m \in 0 .. Len(old.order) : ~Overloaded(m, nb)
  BY DEF IInv, GrowInv, Moving
<1>2. /\ old.k \in Key /\ EntryMap(old.ent) /\ old.order \in Seq(Addr)
  BY GrowingType DEF IInv, GrowInv
<1>3. /\ TableTypeOK /\ Placed /\ len \in Nat /\ len = Len(order) /\ Chain(ent, order)
      /\ order \in Seq(Addr)
  BY DEF IInv, TableInv, TableTypeOK, ListInOrder
<1>4. Len(old.order) \in Nat
  BY <1>2
<1>5. old.e # Nil => /\ len + 1 \in 1 .. Len(old.order)
                     /\ old.e = old.order[len + 1]
                     /\ old.e \in DOMAIN old.ent
  BY <1>1, <1>3, <1>4 DEF Chain
<1>6. k \in Key
  BY <1>2, <1>5 DEF EntryMap, Entry
<1>7. ASSUME NEW a \in DOMAIN ent PROVE Class[ent[a].key] # Class[k]
  <2>1. PICK i \in 1 .. len : order[i] = a
    BY <1>3 DEF Chain
  <2>2. /\ i \in 1 .. Len(old.order)
        /\ ent[a].key = old.ent[old.order[i]].key
        /\ old.order[i] \in DOMAIN old.ent
    <3>1. i \in 1 .. Len(old.order)
      BY <1>1, <1>3, <1>4
    <3>2. ent[order[i]].key = old.ent[old.order[i]].key
      BY <1>1
    <3>3. old.order[i] \in DOMAIN old.ent
      BY <1>1, <3>1 DEF Chain
    <3> QED BY <2>1, <3>1, <3>2, <3>3
  <2>3. CASE old.e = Nil
    BY <2>2, <2>3, <1>1
  <2>4. CASE old.e # Nil
    <3>1. old.order[i] # old.order[len + 1]
      <4>1. \A x, y \in 1 .. Len(old.order) : old.order[x] = old.order[y] => x = y
        BY <1>1 DEF Chain
      <4>2. i # len + 1 /\ len + 1 \in 1 .. Len(old.order)
        BY <1>3, <1>5, <2>4
      <4> QED BY <4>1, <4>2, <2>2
    <3> QED BY <3>1, <2>2, <2>4, <1>1, <1>5 DEF DistinctKeys
  <2> QED BY <2>3, <2>4
<1> HIDE DEF k
<1>8. Stops(k) = {}
  <2>1. \A a \in DOMAIN ent : a \notin Stops(k)
    BY <1>3, <1>6, <1>7, StopsComplete
  <2>2. Stops(k) \subseteq DOMAIN ent
    BY DEF Stops
  <2> QED BY <2>1, <2>2
<1>9. len \in 0 .. Len(old.order)
  BY <1>1, <1>3, <1>4
<1> QED BY <1>1, <1>8, <1>9

(* Every variable of the table has its type in every reachable state.      *)
THEOREM TypeCorrect == Spec => []TypeOK
<1>1. IInv => TypeOK
  BY DEF IInv, TableInv, IterInv, GrowInv, TypeOK
<1> QED BY <1>1, Invariance, PTL

(* The doubly-linked list is always the entries in insertion order.        *)
THEOREM ListCorrect == Spec => []ListInOrder
<1>1. IInv => ListInOrder
  BY DEF IInv, TableInv
<1> QED BY <1>1, Invariance, PTL

(* Every stored key is found by a lookup, at the only entry equal to it:   *)
(* for any number of keys, any hashes and any sequence of operations.      *)
THEOREM LookupCorrect == Spec => []LookupFinds
BY InvLookupFinds, Invariance, PTL

(* The insertions that grow makes, and whose results it ignores, succeed.  *)
THEOREM GrowNeverFails == Spec => []GrowCannotFail
BY InvGrowCannotFail, Invariance, PTL

(* itercount forbids updates exactly while the table is being iterated.    *)
THEOREM IterCountCorrect == Spec => []IterCountExact
<1>1. IInv => IterCountExact
  BY DEF IInv, IterInv
<1> QED BY <1>1, Invariance, PTL

(* No iterator holds an entry that is no longer in the table.              *)
THEOREM IterPointersCorrect == Spec => []IterPointersLive
<1>1. IInv => IterPointersLive
  BY DEF IInv, IterInv
<1> QED BY <1>1, Invariance, PTL
-----------------------------------------------------------------------------
(***************************************************************************)
(* The refinement: each operation has exactly the map's effect and result, *)
(* and the steps of grow are invisible.                                    *)
(***************************************************************************)
Item == [key : Key, val : Value]

(* The item that entry a of f holds. *)
ItemAt(f, a) == [key |-> f[a].key, val |-> f[a].val]

(* The items of a list, one by one. *)
LEMMA ItemsOfList ==
  ASSUME NEW f, NEW o \in Seq(Addr), EntryMap(f), \A i \in 1 .. Len(o) : o[i] \in DOMAIN f
  PROVE  /\ ItemsOf(f, o) \in Seq(Item) /\ Len(ItemsOf(f, o)) = Len(o)
         /\ DOMAIN ItemsOf(f, o) = 1 .. Len(o)
         /\ \A i \in 1 .. Len(o) : ItemsOf(f, o)[i] = ItemAt(f, o[i])
<1> DEFINE n == Len(o)
<1>1. n \in Nat
  OBVIOUS
<1>2. \A i \in 1 .. n : ItemAt(f, o[i]) \in Item
  <2> TAKE i \in 1 .. n
  <2>1. f[o[i]] \in Entry
    BY DEF EntryMap
  <2> QED BY <2>1 DEF Entry, Item, ItemAt
<1>3. ItemsOf(f, o) = [i \in 1 .. n |-> ItemAt(f, o[i])]
  BY DEF ItemsOf, ItemAt
<1> HIDE DEF n
<1>4. ItemsOf(f, o) \in [1 .. n -> Item]
  BY <1>2, <1>3
<1>5. ItemsOf(f, o) \in Seq(Item) /\ Len(ItemsOf(f, o)) = n
  <2> DEFINE s == ItemsOf(f, o)
  <2>1. s \in [1 .. n -> Item]
    BY <1>4
  <2> HIDE DEF s
  <2>2. s \in Seq(Item) /\ Len(s) = n
    BY <1>1, <2>1
  <2> QED BY <2>2 DEF s
<1> QED BY <1>3, <1>5 DEF n

(* The part of a list from one of its entries on. *)
LEMMA FromEntry ==
  ASSUME NEW f, NEW o \in Seq(Addr), Chain(f, o), NEW i \in 1 .. Len(o)
  PROVE  From(o, o[i]) = SubSeq(o, i, Len(o)) /\ o[i] # Nil /\ o[i] \in DOMAIN f
<1>1. (CHOOSE j \in 1 .. Len(o) : o[j] = o[i]) = i
  BY DEF Chain
<1>2. o[i] # Nil /\ o[i] \in DOMAIN f
  BY NilNotAddr DEF Chain
<1> QED BY <1>1, <1>2, Zenon DEF From

(* The part of a list after one of its entries. *)
LEMMA FromNext ==
  ASSUME NEW f, NEW o \in Seq(Addr), Chain(f, o), NEW i \in 1 .. Len(o)
  PROVE  From(o, f[o[i]].next) = SubSeq(o, i + 1, Len(o))
<1>1. f[o[i]].next = IF i = Len(o) THEN Nil ELSE o[i + 1]
  BY ChainNeighbours
<1>2. CASE i = Len(o)
  <2>1. SubSeq(o, i + 1, Len(o)) = <<>>
    BY <1>2
  <2> QED BY <1>1, <1>2, <2>1 DEF From
<1>3. CASE i # Len(o)
  <2>1. i + 1 \in 1 .. Len(o)
    BY <1>3
  <2> QED BY <1>1, <1>3, <2>1, FromEntry
<1> QED BY <1>2, <1>3

(* From the head on, a list is whole. *)
LEMMA FromHead ==
  ASSUME NEW f, NEW o \in Seq(Addr), Chain(f, o),
         NEW h, h = IF Len(o) = 0 THEN Nil ELSE o[1]
  PROVE  From(o, h) = o
<1>1. CASE Len(o) = 0
  BY <1>1 DEF From
<1>2. CASE Len(o) # 0
  <2>1. 1 \in 1 .. Len(o)
    BY <1>2
  <2>2. SubSeq(o, 1, Len(o)) = o
    OBVIOUS
  <2> QED BY <1>2, <2>1, <2>2, FromEntry
<1> QED BY <1>1, <1>2
-----------------------------------------------------------------------------
(* Between operations there are no old items. *)
LEMMA NothingOld == ItemsOf(NotGrowing.ent, From(NotGrowing.order, NotGrowing.e)) = <<>>
<1>1. From(NotGrowing.order, NotGrowing.e) = <<>>
  BY DEF NotGrowing, From
<1> QED BY <1>1 DEF ItemsOf

(* Between operations the items are those of the list. *)
LEMMA IdleItems ==
  ASSUME TableTypeOK, ListInOrder, old = NotGrowing
  PROVE  AbsItems = ItemsOf(ent, order)
<1>1. ItemsOf(ent, order) \in Seq(Item)
  BY ItemsOfList DEF TableTypeOK, ListInOrder, Chain
<1> QED BY <1>1, NothingOld DEF AbsItems

(* The same after a step. *)
LEMMA IdleItemsNext ==
  ASSUME TableTypeOK', ListInOrder', old' = NotGrowing
  PROVE  AbsItems' = ItemsOf(ent', order')
<1>1. ItemsOf(ent', order') \in Seq(Item)
  BY ItemsOfList DEF TableTypeOK, ListInOrder, Chain
<1> QED BY <1>1, NothingOld DEF AbsItems
-----------------------------------------------------------------------------
(* A table just made is an empty map. *)
LEMMA InitMap == Init => Map!Init
<1> SUFFICES ASSUME Init PROVE Map!Init
  OBVIOUS
<1>1. old = NotGrowing /\ ent = Empty /\ order = <<>> /\ iters = [i \in Iter |-> Off]
  BY DEF Init
<1>2. TableTypeOK /\ ListInOrder
  BY InitInv DEF IInv, TableInv
<1>3. AbsItems = <<>>
  <2>1. AbsItems = ItemsOf(ent, order)
    BY <1>1, <1>2, IdleItems
  <2>2. Len(<<>>) = 0
    OBVIOUS
  <2> QED BY <1>1, <2>1, <2>2 DEF ItemsOf
<1>4. AbsLeft = [i \in Iter |-> <<>>]
  BY <1>1 DEF AbsLeft, Off
<1>5. Live = {}
  BY <1>1 DEF Live, Off
<1> QED BY <1>3, <1>4, <1>5 DEF Map!Init, Init

(* Steps that change neither the list nor the iterations. *)
LEMMA AbsUnchanged ==
  ASSUME UNCHANGED <<ent, head, old, order, iters>>
  PROVE  AbsItems' = AbsItems /\ AbsLeft' = AbsLeft /\ Live' = Live
BY DEF AbsItems, AbsLeft, Live, Deref

(* An operation that only answers does so of the map too. *)
LEMMA AnswerMap ==
  ASSUME NEW r, Answer(r)
  PROVE  Map!Answer(r)
<1>1. UNCHANGED <<ent, head, old, order, iters, frozen>> /\ ret' = r
  BY DEF Answer, contents
<1> QED BY <1>1, AbsUnchanged DEF Map!Answer

(* The map may be updated exactly when the table may. *)
LEMMA SameMutable ==
  ASSUME IterInv
  PROVE  (Mutable <=> Map!Mutable) /\ Refusal = Map!Refusal
<1>1. ~frozen => (itercount = 0 <=> Live = {})
  BY LiveFinite, FS_EmptySet DEF IterInv, IterCountExact
<1> QED BY <1>1 DEF Mutable, Map!Mutable, Refusal, Map!Refusal

(* Where the scan of a chain stops is where the map has the key. *)
LEMMA StopsIsAt ==
  ASSUME TableInv, old = NotGrowing, NEW k \in Key
  PROVE  /\ Stops(k) = {} => Map!At(k) = {}
         /\ Stops(k) # {} =>
              \E i \in 1 .. Len(order) :
                /\ Map!At(k) = {i} /\ FirstOf(Stops(k)) = order[i]
                /\ Equal(k, ent[order[i]].key) = IF k \in Deep THEN "err" ELSE "eq"
<1>1. /\ TableTypeOK /\ ListInOrder /\ Placed /\ DistinctKeys(ent) /\ Chain(ent, order)
      /\ order \in Seq(Addr) /\ EntryMap(ent)
  BY DEF TableInv, TableTypeOK, ListInOrder
<1>2. AbsItems = ItemsOf(ent, order)
  BY <1>1, IdleItems
<1>3. \A i \in 1 .. Len(order) : order[i] \in DOMAIN ent
  BY <1>1 DEF Chain
<1>4. DOMAIN AbsItems = 1 .. Len(order) /\ \A i \in 1 .. Len(order) : AbsItems[i].key = ent[order[i]].key
  <2>1. /\ DOMAIN ItemsOf(ent, order) = 1 .. Len(order)
        /\ \A i \in 1 .. Len(order) : ItemsOf(ent, order)[i] = ItemAt(ent, order[i])
    BY <1>1, <1>3, ItemsOfList
  <2> QED BY <1>2, <2>1 DEF ItemAt
<1>5. \A i \in 1 .. Len(order) : i \in Map!At(k) <=> Class[k] = Class[ent[order[i]].key]
  BY <1>4 DEF Map!At, Map!Equal
<1>6. Map!At(k) \subseteq 1 .. Len(order)
  BY <1>4 DEF Map!At
<1>7. \A a \in DOMAIN ent : a \in Stops(k) <=> Class[ent[a].key] = Class[k]
  BY <1>1, StopsComplete
<1>8. Stops(k) \subseteq DOMAIN ent
  BY DEF Stops
<1>9. Stops(k) = {} => Map!At(k) = {}
  BY <1>3, <1>5, <1>6, <1>7
<1>10. ASSUME Stops(k) # {}
       PROVE  \E i \in 1 .. Len(order) :
                /\ Map!At(k) = {i} /\ FirstOf(Stops(k)) = order[i]
                /\ Equal(k, ent[order[i]].key) = IF k \in Deep THEN "err" ELSE "eq"
  <2>1. PICK a \in Stops(k) : TRUE
    BY <1>10
  <2>2. PICK i \in 1 .. Len(order) : order[i] = a
    BY <1>1, <1>8, <2>1 DEF Chain
  <2>3. \A b \in Stops(k) : b = a
    BY <1>1, <1>7, <1>8, <2>1 DEF DistinctKeys
  <2>4. FirstOf(Stops(k)) = a
    <3>1. a[2] \in Nat
      BY <1>1, <1>8, <2>1 DEF EntryMap, Addr
    <3>2. Stops(k) = {a} /\ a[2] <= a[2]
      BY <2>1, <2>3, <3>1
    <3>3. FirstOf({a}) = a
      BY <3>2 DEF FirstOf
    <3> QED BY <3>2, <3>3
  <2>5. \A j \in 1 .. Len(order) : j \in Map!At(k) => j = i
    <3> TAKE j \in 1 .. Len(order)
    <3>1. j \in Map!At(k) => order[j] \in Stops(k)
      BY <1>3, <1>5, <1>7
    <3>2. order[j] = order[i] => j = i
      BY <1>1 DEF Chain
    <3> QED BY <2>2, <2>3, <3>1, <3>2
  <2>6. i \in Map!At(k)
    BY <1>5, <1>7, <1>8, <2>1, <2>2
  <2>7. Map!At(k) = {i}
    BY <1>6, <2>5, <2>6
  <2>8. Class[k] = Class[ent[order[i]].key]
    BY <1>5, <2>6
  <2>9. Equal(k, ent[order[i]].key) = IF k \in Deep THEN "err" ELSE "eq"
    BY <2>8 DEF Equal
  <2> QED BY <2>2, <2>4, <2>7, <2>9
<1> QED BY <1>9, <1>10

(* The value that item i holds. *)
LEMMA ItemValue ==
  ASSUME TableInv, old = NotGrowing, NEW i \in 1 .. Len(order)
  PROVE  /\ i \in DOMAIN AbsItems /\ AbsItems[i] = ItemAt(ent, order[i])
         /\ order[i] \in DOMAIN ent /\ AbsItems \in Seq(Item) /\ Len(AbsItems) = Len(order)
<1>1. /\ TableTypeOK /\ ListInOrder /\ Chain(ent, order) /\ order \in Seq(Addr) /\ EntryMap(ent)
  BY DEF TableInv, TableTypeOK, ListInOrder
<1>2. AbsItems = ItemsOf(ent, order)
  BY <1>1, IdleItems
<1>3. \A j \in 1 .. Len(order) : order[j] \in DOMAIN ent
  BY <1>1 DEF Chain
<1>4. /\ ItemsOf(ent, order) \in Seq(Item) /\ Len(ItemsOf(ent, order)) = Len(order)
      /\ DOMAIN ItemsOf(ent, order) = 1 .. Len(order)
      /\ \A j \in 1 .. Len(order) : ItemsOf(ent, order)[j] = ItemAt(ent, order[j])
  BY <1>1, <1>3, ItemsOfList
<1> QED BY <1>2, <1>3, <1>4
-----------------------------------------------------------------------------
(* Operations that change no entry. *)
LEMMA LookupMap ==
  ASSUME IInv, NEW k \in Key, Lookup(k)
  PROVE  Map!Lookup(k)
<1>1. TableInv /\ old = NotGrowing
  BY IdleMeansNotGrowing DEF IInv, Lookup
<1>2. CASE k \in Unhashable /\ Answer("unhashable")
  BY <1>2, AnswerMap DEF Map!Lookup
<1>3. CASE k \notin Unhashable /\ Stops(k) = {} /\ Answer("missing")
  BY <1>1, <1>3, AnswerMap, StopsIsAt DEF Map!Lookup
<1>4. CASE /\ k \notin Unhashable /\ Stops(k) # {}
           /\ LET e == ent[FirstOf(Stops(k))]
              IN  Answer(IF Equal(k, e.key) = "err" THEN "depth" ELSE e.val)
  <2>1. PICK i \in 1 .. Len(order) :
          /\ Map!At(k) = {i} /\ FirstOf(Stops(k)) = order[i]
          /\ Equal(k, ent[order[i]].key) = IF k \in Deep THEN "err" ELSE "eq"
    BY <1>1, <1>4, StopsIsAt
  <2>2. AbsItems[i].val = ent[order[i]].val
    <3>1. AbsItems[i] = ItemAt(ent, order[i])
      BY <1>1, ItemValue
    <3> QED BY <3>1 DEF ItemAt
  <2>3. CASE k \in Deep
    <3>1. Answer("depth")
      BY <1>4, <2>1, <2>3
    <3> QED BY <1>4, <2>1, <2>3, <3>1, AnswerMap DEF Map!Lookup
  <2>4. CASE k \notin Deep
    <3>1. Answer(AbsItems[i].val)
      BY <1>4, <2>1, <2>2, <2>4
    <3>2. Map!Answer(AbsItems[i].val) /\ i \in Map!At(k)
      BY <2>1, <3>1, AnswerMap
    <3> QED BY <1>4, <2>4, <3>2 DEF Map!Lookup
  <2> QED BY <2>3, <2>4
<1> QED BY <1>2, <1>3, <1>4 DEF Lookup

(* A refused insertion is answered as a refused deletion is. *)
LEMMA InsertRefusedMap ==
  ASSUME IInv, NEW k \in Key, InsertRefused(k)
  PROVE  Map!Delete(k)
<1>1. (Mutable <=> Map!Mutable) /\ Refusal = Map!Refusal
  BY SameMutable DEF IInv
<1>2. CASE ~Mutable /\ Answer(Refusal)
  BY <1>1, <1>2, AnswerMap DEF Map!Delete
<1>3. CASE /\ Mutable /\ k \in Unhashable
           /\ nb' = Buckets /\ cap' = Capacity
           /\ ret' = "unhashable"
           /\ UNCHANGED <<ent, head, tailLink, len, old, order, frozen, itercount, iters>>
  <2>1. Map!Answer("unhashable")
    BY <1>3, AbsUnchanged DEF Map!Answer
  <2> QED BY <1>1, <1>3, <2>1 DEF Map!Delete
<1> QED BY <1>2, <1>3 DEF InsertRefused

(* A deletion that is refused, finds nothing or cannot compare the key. *)
LEMMA DeleteOtherMap ==
  ASSUME IInv, NEW k \in Key, DeleteOther(k)
  PROVE  Map!Delete(k)
<1>1. TableInv /\ old = NotGrowing
  BY IdleMeansNotGrowing DEF IInv, DeleteOther
<1>2. (Mutable <=> Map!Mutable) /\ Refusal = Map!Refusal
  BY SameMutable DEF IInv
<1>3. CASE ~Mutable /\ Answer(Refusal)
  BY <1>2, <1>3, AnswerMap DEF Map!Delete
<1>4. CASE Mutable /\ nb = 0 /\ Answer("missing")
  <2>1. AbsItems = <<>>
    <3>1. DOMAIN ent = {}
      BY <1>1, <1>4, BucketsOfEntries DEF TableInv
    <3>2. Len(order) = 0
      <4>1. order \in Seq(Addr) /\ \A i \in 1 .. Len(order) : order[i] \in DOMAIN ent
        BY <1>1 DEF TableInv, TableTypeOK, ListInOrder, Chain
      <4>2. ~(1 \in 1 .. Len(order)) /\ Len(order) \in Nat
        BY <3>1, <4>1
      <4> QED BY <4>2
    <3>3. AbsItems = ItemsOf(ent, order)
      BY <1>1, IdleItems DEF TableInv
    <3> QED BY <3>2, <3>3 DEF ItemsOf
  <2> QED BY <1>2, <1>4, <2>1, AnswerMap DEF Map!Delete
<1>5. CASE Mutable /\ nb # 0 /\ k \in Unhashable /\ Answer("unhashable")
  BY <1>2, <1>5, AnswerMap DEF Map!Delete
<1>6. CASE Mutable /\ k \notin Unhashable /\ Stops(k) = {} /\ Answer("missing")
  BY <1>1, <1>2, <1>6, AnswerMap, StopsIsAt DEF Map!Delete
<1>7. CASE /\ Mutable /\ k \notin Unhashable /\ Stops(k) # {}
           /\ Equal(k, ent[FirstOf(Stops(k))].key) = "err" /\ Answer("depth")
  <2>1. PICK i \in 1 .. Len(order) :
          /\ Map!At(k) = {i} /\ FirstOf(Stops(k)) = order[i]
          /\ Equal(k, ent[order[i]].key) = IF k \in Deep THEN "err" ELSE "eq"
    BY <1>1, <1>7, StopsIsAt
  <2>2. k \in Deep /\ Map!At(k) # {}
    BY <1>7, <2>1
  <2> QED BY <1>2, <1>7, <2>2, AnswerMap DEF Map!Delete
<1> QED BY <1>3, <1>4, <1>5, <1>6, <1>7 DEF DeleteOther
-----------------------------------------------------------------------------
(* Appending an entry, changing its value and taking it out, as seen by    *)
(* the items.                                                              *)
SameItems(f, g, D) == \A x \in D : g[x].key = f[x].key /\ g[x].val = f[x].val

(* A sequence of items is that of a list if it is so item by item. *)
LEMMA ItemsAre ==
  ASSUME NEW f, NEW o, NEW s \in Seq(Item), Len(s) = Len(o),
         \A i \in 1 .. Len(o) : ItemAt(f, o[i]) = s[i]
  PROVE  ItemsOf(f, o) = s
<1> DEFINE n == Len(o)
<1>1. s \in [1 .. n -> Item]
  BY LenProperties
<1>2. ItemsOf(f, o) = [i \in 1 .. n |-> ItemAt(f, o[i])]
  BY DEF ItemsOf, ItemAt
<1>3. \A i \in 1 .. n : ItemAt(f, o[i]) = s[i]
  OBVIOUS
<1> HIDE DEF n
<1> QED BY <1>1, <1>2, <1>3

(* g is f with the entry a added, the items of f being those of the list o. *)
Extends(f, o, g, a) ==
  /\ EntryMap(f) /\ o \in Seq(Addr) /\ \A i \in 1 .. Len(o) : o[i] \in DOMAIN f
  /\ a \in Addr /\ SameItems(f, g, DOMAIN f) /\ ItemAt(g, a) \in Item

(* ... and its items are those of f and one more. *)
LEMMA ItemsAppend ==
  ASSUME NEW f, NEW o, NEW g, NEW a, Extends(f, o, g, a)
  PROVE  ItemsOf(g, Append(o, a)) = Append(ItemsOf(f, o), ItemAt(g, a))
<1>0. /\ EntryMap(f) /\ o \in Seq(Addr) /\ \A i \in 1 .. Len(o) : o[i] \in DOMAIN f
      /\ a \in Addr /\ SameItems(f, g, DOMAIN f) /\ ItemAt(g, a) \in Item
  BY DEF Extends
<1> DEFINE n == Len(o)
           p == Append(o, a)
           s == ItemsOf(f, o)
           it == ItemAt(g, a)
           t == Append(s, it)
<1>1. n \in Nat /\ Len(p) = n + 1 /\ p[n + 1] = a /\ \A i \in 1 .. n : p[i] = o[i]
  BY <1>0, AppendProperties
<1>2. s \in Seq(Item) /\ Len(s) = n /\ \A i \in 1 .. n : s[i] = ItemAt(f, o[i])
  BY <1>0, ItemsOfList
<1>3. t \in Seq(Item) /\ Len(t) = n + 1 /\ t[n + 1] = it /\ \A i \in 1 .. n : t[i] = s[i]
  <2>1. it \in Item
    BY <1>0
  <2> HIDE DEF n, s, it
  <2> QED BY <1>2, <2>1, AppendProperties
<1>4. \A i \in 1 .. n : ItemAt(g, o[i]) = s[i]
  <2>1. \A i \in 1 .. n : g[o[i]].key = f[o[i]].key /\ g[o[i]].val = f[o[i]].val
    BY <1>0 DEF SameItems
  <2> QED BY <1>2, <2>1 DEF ItemAt
<1> HIDE DEF n, p, s, it, t
<1>5. \A i \in 1 .. n + 1 : ItemAt(g, p[i]) = t[i]
  <2> TAKE i \in 1 .. n + 1
  <2>1. CASE i \in 1 .. n
    BY <1>1, <1>3, <1>4, <2>1
  <2>2. CASE i = n + 1
    BY <1>1, <1>3, <2>2 DEF it
  <2> QED BY <1>1, <2>1, <2>2
<1>6. ItemsOf(g, p) = t
  BY <1>1, <1>3, <1>5, ItemsAre
<1> QED BY <1>6 DEF p, s, it, t

(* g is f with another value in the entry at place c of the list. *)
Updates(f, o, g, c, v) ==
  /\ Chain(f, o) /\ EntryMap(f) /\ o \in Seq(Addr) /\ c \in 1 .. Len(o)
  /\ g = [f EXCEPT ![o[c]].val = v]

(* ... and its items are those of f but for that value. *)
LEMMA ItemsUpdate ==
  ASSUME NEW f, NEW o, NEW g, NEW c, NEW v, Updates(f, o, g, c, v)
  PROVE  ItemsOf(g, o) = [ItemsOf(f, o) EXCEPT ![c].val = v]
<1>0. /\ Chain(f, o) /\ EntryMap(f) /\ o \in Seq(Addr) /\ c \in 1 .. Len(o)
      /\ g = [f EXCEPT ![o[c]].val = v]
  BY DEF Updates
<1> DEFINE n == Len(o)
           s == ItemsOf(f, o)
<1>1. \A i \in 1 .. n : o[i] \in DOMAIN f
  BY <1>0 DEF Chain
<1>2. s = [i \in 1 .. n |-> ItemAt(f, o[i])]
  BY DEF ItemsOf, ItemAt
<1>3. ItemsOf(g, o) = [i \in 1 .. n |-> ItemAt(g, o[i])]
  BY DEF ItemsOf, ItemAt
<1>4. ItemAt(g, o[c]) = [ItemAt(f, o[c]) EXCEPT !.val = v]
  <2>1. g[o[c]].val = v /\ g[o[c]].key = f[o[c]].key
    <3>1. f[o[c]] \in Entry
      BY <1>0, <1>1 DEF EntryMap
    <3>2. g[o[c]] = [f[o[c]] EXCEPT !.val = v]
      BY <1>0, <1>1
    <3> QED BY <3>1, <3>2 DEF Entry
  <2> QED BY <2>1 DEF ItemAt
<1>5. \A i \in 1 .. n : i # c => ItemAt(g, o[i]) = ItemAt(f, o[i])
  <2> TAKE i \in 1 .. n
  <2>1. i # c => o[i] # o[c]
    BY <1>0 DEF Chain
  <2>2. i # c => g[o[i]] = f[o[i]]
    BY <1>0, <1>1, <2>1
  <2> QED BY <2>2 DEF ItemAt
<1>6. c \in 1 .. n
  BY <1>0
<1> DEFINE was(i) == ItemAt(f, o[i])
           now(i) == ItemAt(g, o[i])
<1>7. /\ s = [i \in 1 .. n |-> was(i)] /\ ItemsOf(g, o) = [i \in 1 .. n |-> now(i)]
      /\ now(c) = [was(c) EXCEPT !.val = v] /\ \A i \in 1 .. n : i # c => now(i) = was(i)
  BY <1>2, <1>3, <1>4, <1>5
<1> HIDE DEF was, now, n, s
<1>8. ItemsOf(g, o) = [s EXCEPT ![c] = [s[c] EXCEPT !.val = v]]
  BY <1>6, <1>7
<1> QED BY <1>8 DEF s

(* An entry taken out of the list is an item taken out. *)
LEMMA ItemsWithout ==
  ASSUME NEW f, NEW o \in Seq(Addr), Chain(f, o), EntryMap(f), NEW c \in 1 .. Len(o),
         NEW g, SameItems(f, g, DOMAIN f \ {o[c]})
  PROVE  ItemsOf(g, Without(o, o[c])) = Map!Without(ItemsOf(f, o), c)
<1> DEFINE n == Len(o)
           w == Without(o, o[c])
           s == ItemsOf(f, o)
<1>1. n \in Nat /\ c \in 1 .. n
  OBVIOUS
<1>2. \A i \in 1 .. n : o[i] \in DOMAIN f
  BY DEF Chain
<1>3. \A i, j \in 1 .. n : o[i] = o[j] => i = j
  BY DEF Chain
<1>4. /\ Len(w) = n - 1 /\ w \in Seq(Addr)
      /\ \A i \in 1 .. n - 1 : w[i] = IF i < c THEN o[i] ELSE o[i + 1]
  BY <1>3, WithoutProperties
<1>5. s \in Seq(Item) /\ Len(s) = n /\ \A i \in 1 .. n : s[i] = ItemAt(f, o[i])
  BY <1>2, ItemsOfList
<1>6. \A i \in 1 .. n : i # c => ItemAt(g, o[i]) = s[i]
  <2> TAKE i \in 1 .. n
  <2>1. i # c => o[i] \in DOMAIN f \ {o[c]}
    BY <1>2, <1>3
  <2> QED BY <1>5, <2>1 DEF SameItems, ItemAt
<1> HIDE DEF n, w, s
<1>8. \A i \in 1 .. n - 1 : ItemAt(g, w[i]) = IF i < c THEN s[i] ELSE s[i + 1]
  <2> TAKE i \in 1 .. n - 1
  <2>1. CASE i < c
    <3>1. i \in 1 .. n /\ i # c
      BY <1>1, <2>1
    <3> QED BY <1>4, <1>6, <2>1, <3>1
  <2>2. CASE ~(i < c)
    <3>1. i + 1 \in 1 .. n /\ i + 1 # c
      BY <1>1, <2>2
    <3> QED BY <1>4, <1>6, <2>2, <3>1
  <2> QED BY <2>1, <2>2
<1> DEFINE x == SubSeq(s, 1, c - 1)
           y == SubSeq(s, c + 1, n)
           z == x \o y
<1>9. x \in Seq(Item) /\ Len(x) = c - 1 /\ \A i \in 1 .. c - 1 : x[i] = s[i]
  <2>1. \A i \in 1 .. c - 1 : s[i] \in Item
    BY <1>1, <1>5, ElementOfSeq
  <2>2. c - 1 \in Int /\ (c - 1) - 1 + 1 = c - 1 /\ \A i \in 1 .. c - 1 : 1 + i - 1 = i
    BY <1>1
  <2>3. /\ x \in Seq(Item) /\ Len(x) = IF 1 <= c - 1 THEN (c - 1) - 1 + 1 ELSE 0
        /\ \A i \in 1 .. (c - 1) - 1 + 1 : x[i] = s[1 + i - 1]
    BY <2>1, <2>2, SubSeqProperties
  <2> HIDE DEF x
  <2> QED BY <1>1, <2>2, <2>3
<1>10. y \in Seq(Item) /\ Len(y) = n - c /\ \A i \in 1 .. n - c : y[i] = s[c + i]
  <2>1. \A i \in c + 1 .. n : s[i] \in Item
    BY <1>1, <1>5, ElementOfSeq
  <2>2. c + 1 \in Int /\ n \in Int /\ n - (c + 1) + 1 = n - c
        /\ \A i \in 1 .. n - c : (c + 1) + i - 1 = c + i
    BY <1>1
  <2>3. /\ y \in Seq(Item) /\ Len(y) = IF c + 1 <= n THEN n - (c + 1) + 1 ELSE 0
        /\ \A i \in 1 .. n - (c + 1) + 1 : y[i] = s[(c + 1) + i - 1]
    BY <2>1, <2>2, SubSeqProperties
  <2> HIDE DEF y
  <2> QED BY <1>1, <2>2, <2>3
<1>11. Map!Without(s, c) = z
  BY <1>5 DEF Map!Without
<1> HIDE DEF x, y
<1>12. /\ z \in Seq(Item) /\ Len(z) = Len(x) + Len(y)
       /\ \A i \in 1 .. Len(x) + Len(y) : z[i] = IF i <= Len(x) THEN x[i] ELSE y[i - Len(x)]
  BY <1>9, <1>10, ConcatProperties
<1> HIDE DEF z
<1>13. Len(z) = n - 1 /\ \A i \in 1 .. n - 1 : z[i] = IF i <= c - 1 THEN x[i] ELSE y[i - (c - 1)]
  BY <1>1, <1>9, <1>10, <1>12
<1>14. \A i \in 1 .. n - 1 : z[i] = IF i < c THEN s[i] ELSE s[i + 1]
  <2> TAKE i \in 1 .. n - 1
  <2>1. CASE i < c
    BY <1>1, <1>9, <1>13, <2>1
  <2>2. CASE ~(i < c)
    <3>1. z[i] = y[i - (c - 1)]
      BY <1>1, <1>13, <2>2
    <3>2. i - (c - 1) \in 1 .. n - c /\ c + (i - (c - 1)) = i + 1
      BY <1>1, <2>2
    <3> QED BY <1>10, <2>2, <3>1, <3>2
  <2> QED BY <2>1, <2>2
<1>15. ItemsOf(g, w) = z
  <2>1. Len(z) = Len(w) /\ Len(w) = n - 1
    BY <1>4, <1>13
  <2>2. \A i \in 1 .. Len(w) : ItemAt(g, w[i]) = z[i]
    BY <1>8, <1>14, <2>1
  <2> QED BY <1>12, <2>1, <2>2, ItemsAre
<1>16. ItemsOf(g, w) = Map!Without(s, c)
  BY <1>11, <1>15
<1> QED BY <1>16 DEF n, w, s
-----------------------------------------------------------------------------
(* While updates are allowed there is no iteration to tell from another. *)
LEMMA QuietLeft ==
  ASSUME IterInv, Mutable, UNCHANGED iters
  PROVE  AbsLeft' = AbsLeft /\ Live' = Live
<1>1. Live = {}
  BY LiveFinite, FS_EmptySet DEF IterInv, IterCountExact, Mutable
<1>2. \A i \in Iter : iters[i].kind = "off" /\ iters'[i].kind = "off"
  BY <1>1 DEF Live
<1>3. AbsLeft = [i \in Iter |-> <<>>]
  BY <1>2 DEF AbsLeft
<1>4. AbsLeft' = [i \in Iter |-> <<>>]
  BY <1>2 DEF AbsLeft
<1> QED BY <1>3, <1>4 DEF Live

(* Placing a key appends an item. *)
LEMMA PlaceItems ==
  ASSUME TableInv, NEW k \in Key, NEW v \in Value, Place(k, v)
  PROVE  /\ ItemsOf(ent, order) \in Seq(Item)
         /\ ItemsOf(ent', order') = Append(ItemsOf(ent, order), [key |-> k, val |-> v])
<1> DEFINE a == SlotFor(k)
           new == [key |-> k, val |-> v, next |-> Nil, prev |-> tailLink]
<1>1. /\ ent' = [x \in DOMAIN ent \cup {a} |->
                   IF x = a THEN new
                   ELSE IF x = tailLink THEN [ent[x] EXCEPT !.next = a]
                   ELSE ent[x]]
      /\ order' = Append(order, a)
  BY DEF Place
<1>2. TableTypeOK /\ ListInOrder /\ Placed
  BY DEF TableInv
<1>3. /\ EntryMap(ent) /\ order \in Seq(Addr) /\ \A i \in 1 .. Len(order) : order[i] \in DOMAIN ent
  BY <1>2 DEF TableTypeOK, ListInOrder, Chain
<1>4. a \in Addr /\ a \notin DOMAIN ent
  BY <1>2, SlotIsFree
<1> HIDE DEF a
<1>5. ent'[a] = new
  BY <1>1
<1>6. SameItems(ent, ent', DOMAIN ent)
  <2> SUFFICES ASSUME NEW x \in DOMAIN ent
               PROVE  ent'[x].key = ent[x].key /\ ent'[x].val = ent[x].val
    BY DEF SameItems
  <2>1. ent'[x] = IF x = tailLink THEN [ent[x] EXCEPT !.next = a] ELSE ent[x]
    BY <1>1, <1>4
  <2>2. ent[x] \in Entry
    BY <1>3 DEF EntryMap
  <2> QED BY <2>1, <2>2 DEF Entry
<1>7. ItemAt(ent', a) = [key |-> k, val |-> v]
  BY <1>5 DEF ItemAt
<1>8. ItemAt(ent', a) \in Item
  BY <1>7 DEF Item
<1>9. Extends(ent, order, ent', a)
  BY <1>3, <1>4, <1>6, <1>8 DEF Extends
<1>10. ItemsOf(ent', Append(order, a)) = Append(ItemsOf(ent, order), ItemAt(ent', a))
  BY <1>9, ItemsAppend
<1>11. ItemsOf(ent, order) \in Seq(Item)
  BY <1>3, ItemsOfList
<1> QED BY <1>1, <1>7, <1>10, <1>11

(* A key that the scan does not find is not in the map. *)
LEMMA NowhereAt ==
  ASSUME TableInv, NEW k \in Key, Stops(k) = {}, AbsItems = ItemsOf(ent, order)
  PROVE  Map!At(k) = {} /\ \A a \in DOMAIN ent : Class[ent[a].key] # Class[k]
<1>1. TableTypeOK /\ ListInOrder /\ Placed
  BY DEF TableInv
<1>2. /\ EntryMap(ent) /\ order \in Seq(Addr) /\ \A i \in 1 .. Len(order) : order[i] \in DOMAIN ent
  BY <1>1 DEF TableTypeOK, ListInOrder, Chain
<1>3. /\ DOMAIN ItemsOf(ent, order) = 1 .. Len(order)
      /\ \A i \in 1 .. Len(order) : ItemsOf(ent, order)[i] = ItemAt(ent, order[i])
  BY <1>2, ItemsOfList
<1>4. \A a \in DOMAIN ent : Class[ent[a].key] # Class[k]
  BY <1>1, StopsComplete
<1>5. \A i \in DOMAIN AbsItems : Class[AbsItems[i].key] # Class[k]
  BY <1>2, <1>3, <1>4 DEF ItemAt
<1> QED BY <1>4, <1>5 DEF Map!At, Map!Equal

(* The items from one entry of a list on. *)
LEMMA ItemsFrom ==
  ASSUME NEW f, NEW o \in Seq(Addr), Chain(f, o), EntryMap(f), NEW c \in 1 .. Len(o)
  PROVE  LET it   == ItemAt(f, o[c])
             rest == ItemsOf(f, SubSeq(o, c + 1, Len(o)))
         IN  /\ it \in Item /\ rest \in Seq(Item)
             /\ ItemsOf(f, SubSeq(o, c, Len(o))) = <<it>> \o rest
<1> DEFINE n == Len(o)
           x == SubSeq(o, c, n)
           y == SubSeq(o, c + 1, n)
           it == ItemAt(f, o[c])
           rest == ItemsOf(f, y)
           z == <<it>> \o rest
<1>1. n \in Nat /\ c \in 1 .. n
  OBVIOUS
<1>2. \A i \in 1 .. n : o[i] \in DOMAIN f /\ o[i] \in Addr
  BY DEF Chain
<1>3. it \in Item
  <2>1. f[o[c]] \in Entry
    BY <1>2 DEF EntryMap
  <2> QED BY <2>1 DEF ItemAt, Item, Entry
<1>4. x = <<o[c]>> \o y
  BY SubSeqRecursiveFirst
<1>5. y \in Seq(Addr) /\ Len(y) = n - c /\ \A i \in 1 .. n - c : y[i] = o[c + i]
  <2>1. \A i \in c + 1 .. n : o[i] \in Addr
    BY <1>1, <1>2
  <2>2. c + 1 \in Int /\ n \in Int /\ n - (c + 1) + 1 = n - c
        /\ \A i \in 1 .. n - c : (c + 1) + i - 1 = c + i
    BY <1>1
  <2>3. /\ y \in Seq(Addr) /\ Len(y) = IF c + 1 <= n THEN n - (c + 1) + 1 ELSE 0
        /\ \A i \in 1 .. n - (c + 1) + 1 : y[i] = o[(c + 1) + i - 1]
    BY <2>1, <2>2, SubSeqProperties
  <2> HIDE DEF y, n
  <2> QED BY <1>1, <2>2, <2>3
<1>6. \A i \in 1 .. Len(y) : y[i] \in DOMAIN f
  <2> HIDE DEF y
  <2> QED BY <1>1, <1>2, <1>5, SMTT(60)
<1>7. rest \in Seq(Item) /\ Len(rest) = Len(y) /\ \A i \in 1 .. Len(y) : rest[i] = ItemAt(f, y[i])
  <2> HIDE DEF y
  <2> QED BY <1>5, <1>6, ItemsOfList
<1> HIDE DEF n, x, y, it, rest, z
<1>8. /\ Len(x) = n - c + 1 /\ x[1] = o[c] /\ \A i \in 1 .. n - c : x[i + 1] = y[i]
  <2> DEFINE u == <<o[c]>>
  <2>1. u \in Seq(Addr) /\ Len(u) = 1 /\ u[1] = o[c]
    BY <1>2, <1>1
  <2> HIDE DEF u
  <2>2. /\ Len(x) = 1 + Len(y)
        /\ \A i \in 1 .. 1 + Len(y) : x[i] = IF i <= 1 THEN u[i] ELSE y[i - 1]
    BY <1>4, <1>5, <2>1, ConcatProperties DEF u
  <2>3. Len(x) = n - c + 1 /\ x[1] = o[c]
    <3>1. Len(x) = n - c + 1 /\ 1 \in 1 .. 1 + Len(y)
      BY <1>1, <1>5, <2>2
    <3>2. x[1] = u[1]
      BY <2>2, <3>1
    <3> QED BY <2>1, <3>1, <3>2
  <2>4. \A i \in 1 .. n - c : x[i + 1] = y[i]
    <3> TAKE i \in 1 .. n - c
    <3>1. i + 1 \in 1 .. 1 + Len(y) /\ ~(i + 1 <= 1) /\ (i + 1) - 1 = i
      BY <1>1, <1>5
    <3> QED BY <2>2, <3>1
  <2> QED BY <2>3, <2>4
<1>9. /\ z \in Seq(Item) /\ Len(z) = n - c + 1 /\ z[1] = it /\ \A i \in 1 .. n - c : z[i + 1] = rest[i]
  <2>1. <<it>> \in Seq(Item) /\ Len(<<it>>) = 1 /\ <<it>>[1] = it
    BY <1>3
  <2>2. /\ z \in Seq(Item) /\ Len(z) = 1 + Len(rest)
        /\ \A i \in 1 .. 1 + Len(rest) : z[i] = IF i <= 1 THEN <<it>>[i] ELSE rest[i - 1]
    BY <1>7, <2>1, ConcatProperties DEF z
  <2> QED BY <1>1, <1>5, <1>7, <2>1, <2>2
<1>10. \A i \in 1 .. n - c + 1 : ItemAt(f, x[i]) = z[i]
  <2>1. ItemAt(f, x[1]) = z[1]
    BY <1>8, <1>9 DEF it
  <2>2. \A i \in 1 .. n - c : ItemAt(f, x[i + 1]) = z[i + 1]
    BY <1>5, <1>7, <1>8, <1>9
  <2> TAKE i \in 1 .. n - c + 1
  <2>3. CASE i = 1
    BY <2>1, <2>3
  <2>4. CASE i # 1
    <3>1. i - 1 \in 1 .. n - c /\ (i - 1) + 1 = i
      BY <1>1, <2>4
    <3> QED BY <2>2, <3>1
  <2> QED BY <2>3, <2>4
<1>11. ItemsOf(f, x) = z
  BY <1>8, <1>9, <1>10, ItemsAre
<1> QED BY <1>3, <1>7, <1>11 DEF n, x, y, it, rest, z

(* Moving the cursor of grow over an entry it has placed. *)
LEMMA GrowStepMap ==
  ASSUME IInv, GrowStep
  PROVE  UNCHANGED Map!absVars
<1> DEFINE n == Len(old.order)
           c == len + 1
           e == old.ent[old.e]
<1>1. TableInv /\ IterInv /\ GrowTypeOK /\ Moving /\ old.on /\ old.e # Nil
  BY DEF IInv, GrowInv, GrowStep
<1>2. /\ old.order \in Seq(Addr) /\ EntryMap(old.ent) /\ Chain(old.ent, old.order)
      /\ len \in Nat /\ n \in Nat /\ len <= n /\ len # n /\ old.e = old.order[c]
      /\ \A i \in 1 .. n : old.order[i] \in DOMAIN old.ent
  <2>1. old.order \in Seq(Addr) /\ EntryMap(old.ent)
    BY <1>1, GrowingType
  <2>2. /\ Chain(old.ent, old.order) /\ len <= n
        /\ old.e = IF len = n THEN Nil ELSE old.order[c]
    BY <1>1 DEF Moving
  <2>3. len \in Nat
    BY <1>1 DEF TableInv, TableTypeOK
  <2>4. \A i \in 1 .. n : old.order[i] \in DOMAIN old.ent
    BY <2>2 DEF Chain
  <2> QED BY <1>1, <2>1, <2>2, <2>3, <2>4
<1>3. c \in 1 .. n
  BY <1>2
<1>4. e \in Entry
  BY <1>2, <1>3 DEF EntryMap
<1>5. /\ Place(e.key, e.val) /\ old'.ent = old.ent /\ old'.order = old.order /\ old'.e = e.next
      /\ UNCHANGED <<frozen, itercount, iters, ret>>
  <2>1. Place(e.key, e.val) /\ old' = [old EXCEPT !.e = e.next] /\ UNCHANGED <<frozen, itercount, iters, ret>>
    BY DEF GrowStep
  <2>2. old \in [on : {TRUE}, ent : {old.ent}, e : Addr \cup {Nil},
                 k : Key \ Unhashable, v : Value, order : Seq(Addr)]
    BY <1>1, GrowingType
  <2> QED BY <2>1, <2>2
<1>6. /\ ItemsOf(ent, order) \in Seq(Item)
      /\ ItemsOf(ent', order') = Append(ItemsOf(ent, order), [key |-> e.key, val |-> e.val])
  <2>1. e.key \in Key /\ e.val \in Value
    BY <1>4 DEF Entry
  <2> QED BY <1>1, <1>5, <2>1, PlaceItems
<1>7. From(old.order, old.e) = SubSeq(old.order, c, n) /\ From(old.order, e.next) = SubSeq(old.order, c + 1, n)
  BY <1>2, <1>3, FromEntry, FromNext
<1> DEFINE A == ItemsOf(ent, order)
           it == [key |-> e.key, val |-> e.val]
           rest == ItemsOf(old.ent, SubSeq(old.order, c + 1, n))
<1>8. it \in Item /\ rest \in Seq(Item) /\ ItemsOf(old.ent, SubSeq(old.order, c, n)) = <<it>> \o rest
  BY <1>2, <1>3, ItemsFrom DEF ItemAt
<1>9. AbsItems = A \o (<<it>> \o rest)
  BY <1>7, <1>8 DEF AbsItems
<1>10. AbsItems' = Append(A, it) \o rest
  BY <1>5, <1>6, <1>7 DEF AbsItems
<1>11. A \in Seq(Item)
  BY <1>6
<1> HIDE DEF A, it, rest
<1>12. AbsItems' = AbsItems
  <2>1. <<it>> \in Seq(Item) /\ Append(A, it) = A \o <<it>>
    BY <1>8, <1>11, AppendIsConcat
  <2>2. (A \o <<it>>) \o rest = A \o (<<it>> \o rest)
    BY <1>8, <1>11, <2>1, ConcatAssociative
  <2> QED BY <1>9, <1>10, <2>1, <2>2
<1>13. AbsLeft' = AbsLeft /\ Live' = Live
  BY <1>1, <1>5, QuietLeft DEF Moving, Mutable
<1> QED BY <1>5, <1>12, <1>13 DEF Map!absVars

(* The insertion that made the table grow, once grow is over. *)
LEMMA GrowEndMap ==
  ASSUME IInv, GrowEnd
  PROVE  Map!Insert(old.k, old.v) /\ old.k \in Key /\ old.v \in Value
<1>1. TableInv /\ IterInv /\ GrowTypeOK /\ Moving /\ old.on /\ old.e = Nil
  BY DEF IInv, GrowInv, GrowEnd
<1>2. old.k \in Key /\ old.k \notin Unhashable /\ old.v \in Value
  <2>1. old \in [on : {TRUE}, ent : {old.ent}, e : Addr \cup {Nil},
                 k : Key \ Unhashable, v : Value, order : Seq(Addr)]
    BY <1>1, GrowingType
  <2> QED BY <2>1
<1>3. /\ Stops(old.k) = {} /\ Place(old.k, old.v) /\ old' = NotGrowing /\ ret' = "ok"
      /\ UNCHANGED <<frozen, itercount, iters>>
  BY DEF GrowEnd
<1>4. /\ ItemsOf(ent, order) \in Seq(Item)
      /\ ItemsOf(ent', order') = Append(ItemsOf(ent, order), [key |-> old.k, val |-> old.v])
  BY <1>1, <1>2, <1>3, PlaceItems
<1>5. AbsItems = ItemsOf(ent, order)
  <2>1. Len(<<>>) = 0
    OBVIOUS
  <2>2. ItemsOf(old.ent, From(old.order, old.e)) = <<>>
    BY <1>1, <2>1 DEF From, ItemsOf
  <2> QED BY <1>4, <2>2 DEF AbsItems
<1>6. AbsItems' = Append(AbsItems, [key |-> old.k, val |-> old.v])
  <2>1. [key |-> old.k, val |-> old.v] \in Item
    BY <1>2 DEF Item
  <2>2. ItemsOf(ent', order') \in Seq(Item)
    BY <1>4, <2>1, AppendProperties
  <2>3. AbsItems' = ItemsOf(ent', order')
    BY <1>3, <2>2, NothingOld DEF AbsItems
  <2> QED BY <1>4, <1>5, <2>3
<1>7. Map!At(old.k) = {}
  BY <1>1, <1>2, <1>3, <1>5, NowhereAt
<1>8. Mutable
  BY <1>1 DEF Moving, Mutable
<1>9. Map!Mutable
  BY <1>1, <1>8, SameMutable
<1>10. AbsLeft' = AbsLeft /\ Live' = Live
  BY <1>1, <1>3, <1>8, QuietLeft
<1> QED BY <1>2, <1>3, <1>6, <1>7, <1>9, <1>10 DEF Map!Insert

(* A key not in the table: it is placed at once, or grow begins. *)
LEMMA InsertNewMap ==
  ASSUME IInv, NEW k \in Key, NEW v \in Value, InsertNew(k, v)
  PROVE  Map!Insert(k, v) \/ UNCHANGED Map!absVars
<1>1. TableInv /\ IterInv /\ old = NotGrowing
  BY IdleMeansNotGrowing DEF IInv, InsertNew
<1>2. Mutable /\ k \notin Unhashable /\ Stops(k) = {} /\ UNCHANGED <<frozen, itercount, iters>>
  BY DEF InsertNew
<1>3. AbsItems = ItemsOf(ent, order) /\ ItemsOf(ent, order) \in Seq(Item)
  BY <1>1, IdleItems, ItemsOfList DEF TableInv, TableTypeOK, ListInOrder, Chain
<1>4. AbsLeft' = AbsLeft /\ Live' = Live
  BY <1>1, <1>2, QuietLeft
<1>5. CASE GrowBegin(k, v) /\ UNCHANGED ret
  <2>1. ent' = Empty /\ order' = <<>> /\ old'.ent = ent /\ old'.order = order /\ old'.e = head
    BY <1>5 DEF GrowBegin
  <2>2. From(order, head) = order
    BY <1>1, FromHead DEF TableInv, TableTypeOK, ListInOrder
  <2>3. ItemsOf(ent', order') = <<>>
    <3>1. Len(<<>>) = 0
      OBVIOUS
    <3> QED BY <2>1, <3>1 DEF ItemsOf
  <2>4. AbsItems' = <<>> \o ItemsOf(ent, order)
    BY <2>1, <2>2, <2>3 DEF AbsItems
  <2>5. AbsItems' = AbsItems
    BY <1>3, <2>4, ConcatEmptySeq
  <2> QED BY <1>2, <1>4, <1>5, <2>5 DEF Map!absVars
<1>6. CASE Place(k, v) /\ ret' = "ok" /\ UNCHANGED old
  <2>1. ItemsOf(ent', order') = Append(ItemsOf(ent, order), [key |-> k, val |-> v])
    BY <1>1, <1>6, PlaceItems
  <2>2. AbsItems' = Append(AbsItems, [key |-> k, val |-> v])
    <3>1. [key |-> k, val |-> v] \in Item
      BY DEF Item
    <3>2. ItemsOf(ent', order') \in Seq(Item)
      BY <1>3, <2>1, <3>1, AppendProperties
    <3>3. AbsItems' = ItemsOf(ent', order')
      BY <1>1, <1>6, <3>2, NothingOld DEF AbsItems
    <3> QED BY <1>3, <2>1, <3>3
  <2>3. Map!At(k) = {}
    BY <1>1, <1>2, <1>3, NowhereAt
  <2>4. Map!Mutable
    BY <1>1, <1>2, SameMutable
  <2> QED BY <1>2, <1>4, <1>6, <2>2, <2>3, <2>4 DEF Map!Insert
<1> QED BY <1>5, <1>6 DEF InsertNew

(* A key in the table: it keeps its place and its key. *)
LEMMA InsertKnownMap ==
  ASSUME IInv, NEW k \in Key, NEW v \in Value, InsertKnown(k, v)
  PROVE  Map!Insert(k, v)
<1>1. TableInv /\ IterInv /\ old = NotGrowing
  BY IdleMeansNotGrowing DEF IInv, InsertKnown
<1>2. /\ Mutable /\ k \notin Unhashable /\ Stops(k) # {}
      /\ UNCHANGED <<nb, cap, head, tailLink, len, old, order, frozen, itercount, iters>>
  BY DEF InsertKnown
<1>3. Map!Mutable
  BY <1>1, <1>2, SameMutable
<1>4. PICK i \in 1 .. Len(order) :
        /\ Map!At(k) = {i} /\ FirstOf(Stops(k)) = order[i]
        /\ Equal(k, ent[order[i]].key) = IF k \in Deep THEN "err" ELSE "eq"
  BY <1>1, <1>2, StopsIsAt
<1>5. AbsLeft' = AbsLeft /\ Live' = Live
  BY <1>1, <1>2, QuietLeft
<1>6. CASE k \in Deep
  <2>1. ret' = "depth" /\ UNCHANGED ent
    BY <1>4, <1>6 DEF InsertKnown
  <2>2. Map!Answer("depth")
    BY <1>2, <2>1, AbsUnchanged DEF Map!Answer
  <2> QED BY <1>2, <1>3, <1>4, <1>6, <2>2 DEF Map!Insert
<1>7. CASE k \notin Deep
  <2>1. ent' = [ent EXCEPT ![order[i]].val = v] /\ ret' = "ok"
    BY <1>4, <1>7 DEF InsertKnown
  <2>2. Chain(ent, order) /\ EntryMap(ent) /\ order \in Seq(Addr)
    BY <1>1 DEF TableInv, TableTypeOK, ListInOrder
  <2>3. ItemsOf(ent', order) = [ItemsOf(ent, order) EXCEPT ![i].val = v]
    <3>1. Updates(ent, order, ent', i, v)
      BY <2>1, <2>2 DEF Updates
    <3> QED BY <3>1, ItemsUpdate
  <2>4. AbsItems = ItemsOf(ent, order)
    BY <1>1, IdleItems DEF TableInv
  <2>5. AbsItems' = ItemsOf(ent', order)
    <3>1. IInv'
      BY InsertKnownStep
    <3> QED BY <1>1, <1>2, <3>1, IdleItemsNext DEF IInv, TableInv
  <2>6. AbsItems' = [AbsItems EXCEPT ![i].val = v] /\ i \in Map!At(k)
    BY <1>4, <2>3, <2>4, <2>5
  <2> QED BY <1>2, <1>3, <1>5, <1>7, <2>1, <2>6 DEF Map!Insert
<1> QED BY <1>6, <1>7

(* Deleting a key takes its item out. *)
LEMMA DeleteFoundMap ==
  ASSUME IInv, NEW k \in Key, DeleteFound(k)
  PROVE  Map!Delete(k)
<1>1. TableInv /\ IterInv /\ old = NotGrowing
  BY IdleMeansNotGrowing DEF IInv, DeleteFound
<1>2. /\ Mutable /\ k \notin Unhashable /\ Stops(k) # {}
      /\ UNCHANGED <<nb, cap, old, frozen, itercount, iters>>
  BY DEF DeleteFound
<1>3. Map!Mutable
  BY <1>1, <1>2, SameMutable
<1>4. PICK i \in 1 .. Len(order) :
        /\ Map!At(k) = {i} /\ FirstOf(Stops(k)) = order[i]
        /\ Equal(k, ent[order[i]].key) = IF k \in Deep THEN "err" ELSE "eq"
  BY <1>1, <1>2, StopsIsAt
<1> DEFINE a == order[i]
           p == ent[a].prev
           n == ent[a].next
<1>5. Unlink(a) /\ ret' = ent[a].val /\ Equal(k, ent[a].key) = "eq"
  BY <1>4 DEF DeleteFound
<1>6. k \notin Deep
  BY <1>4, <1>5
<1>7. AbsLeft' = AbsLeft /\ Live' = Live
  BY <1>1, <1>2, QuietLeft
<1>8. Chain(ent, order) /\ EntryMap(ent) /\ order \in Seq(Addr)
  BY <1>1 DEF TableInv, TableTypeOK, ListInOrder
<1>9. /\ order' = Without(order, a)
      /\ ent' = [x \in DOMAIN ent \ {a} |->
                   IF x = p THEN [ent[x] EXCEPT !.next = n]
                   ELSE IF x = n THEN [ent[x] EXCEPT !.prev = p]
                   ELSE ent[x]]
  BY <1>5 DEF Unlink
<1>10. SameItems(ent, ent', DOMAIN ent \ {a})
  <2> SUFFICES ASSUME NEW x \in DOMAIN ent \ {a}
               PROVE  ent'[x].key = ent[x].key /\ ent'[x].val = ent[x].val
    BY DEF SameItems
  <2>1. ent[x] \in Entry
    BY <1>8 DEF EntryMap
  <2> HIDE DEF a, p, n
  <2>2. ent'[x] = IF x = p THEN [ent[x] EXCEPT !.next = n]
                  ELSE IF x = n THEN [ent[x] EXCEPT !.prev = p]
                  ELSE ent[x]
    BY <1>9
  <2> QED BY <2>1, <2>2 DEF Entry
<1>11. ItemsOf(ent', order') = Map!Without(ItemsOf(ent, order), i)
  BY <1>8, <1>9, <1>10, ItemsWithout
<1>12. AbsItems = ItemsOf(ent, order)
  BY <1>1, IdleItems DEF TableInv
<1>13. AbsItems' = ItemsOf(ent', order')
  <2>1. IInv'
    BY DeleteFoundStep
  <2> QED BY <1>1, <1>2, <2>1, IdleItemsNext DEF IInv, TableInv
<1>14. ret' = AbsItems[i].val
  <2>1. AbsItems[i] = ItemAt(ent, order[i])
    BY <1>1, ItemValue
  <2> QED BY <1>5, <2>1 DEF ItemAt
<1>15. i \in Map!At(k)
  BY <1>4
<1> QED BY <1>2, <1>3, <1>6, <1>7, <1>11, <1>12, <1>13, <1>14, <1>15 DEF Map!Delete

(* clear. *)
LEMMA ClearMap ==
  ASSUME IInv, Clear
  PROVE  Map!Clear
<1>1. IterInv /\ old = NotGrowing
  BY IdleMeansNotGrowing DEF IInv, Clear
<1>2. (Mutable <=> Map!Mutable) /\ Refusal = Map!Refusal
  BY <1>1, SameMutable
<1>3. CASE ~Mutable /\ Answer(Refusal)
  BY <1>2, <1>3, AnswerMap DEF Map!Clear
<1>4. CASE /\ Mutable
           /\ ent' = Empty /\ order' = <<>> /\ ret' = "ok"
           /\ UNCHANGED <<old, frozen, itercount, iters>>
  <2>1. AbsLeft' = AbsLeft /\ Live' = Live
    BY <1>1, <1>4, QuietLeft
  <2>2. AbsItems' = <<>>
    <3>1. Len(<<>>) = 0 /\ <<>> \o <<>> = <<>>
      OBVIOUS
    <3>2. ItemsOf(ent', order') = <<>>
      BY <1>4, <3>1 DEF ItemsOf
    <3> QED BY <1>1, <1>4, <3>1, <3>2, NothingOld DEF AbsItems
  <2> QED BY <1>2, <1>4, <2>1, <2>2 DEF Map!Clear
<1> QED BY <1>3, <1>4 DEF Clear

(* freeze. *)
LEMMA FreezeMap ==
  ASSUME Freeze
  PROVE  Map!Freeze
<1>1. UNCHANGED <<ent, head, old, order, iters>> /\ frozen' = TRUE /\ ret' = "ok"
  BY DEF Freeze, contents
<1> QED BY <1>1, AbsUnchanged DEF Map!Freeze
-----------------------------------------------------------------------------
(* The keys that an iteration has still to yield are those from the entry  *)
(* it will yield next.                                                     *)
KeysFrom(f, o) == [j \in 1 .. Len(o) |-> f[o[j]].key]

Cursor(it) == IF it.kind = "entries" THEN Deref(it.e) ELSE it.e

(* What is left, before and after a step. *)
LEMMA LeftOf ==
  /\ AbsLeft = [i \in Iter |-> IF iters[i].kind = "off" THEN <<>>
                               ELSE KeysFrom(ent, From(order, Cursor(iters[i])))]
  /\ AbsLeft' = [i \in Iter |-> IF iters'[i].kind = "off" THEN <<>>
                                ELSE KeysFrom(ent', From(order', Cursor(iters[i])'))]
BY DEF AbsLeft, KeysFrom, Cursor

(* The keys from an entry on are its own and those from the next entry on. *)
LEMMA KeysAdvance ==
  ASSUME NEW f, NEW o \in Seq(Addr), Chain(f, o), EntryMap(f), NEW c \in 1 .. Len(o)
  PROVE  LET all == KeysFrom(f, From(o, o[c]))
         IN  /\ all # <<>> /\ Head(all) = f[o[c]].key
             /\ Tail(all) = KeysFrom(f, From(o, f[o[c]].next))
<1> DEFINE n == Len(o)
           x == SubSeq(o, c, n)
           y == SubSeq(o, c + 1, n)
           all == KeysFrom(f, x)
           rest == KeysFrom(f, y)
<1>1. n \in Nat /\ c \in 1 .. n
  OBVIOUS
<1>2. From(o, o[c]) = x /\ From(o, f[o[c]].next) = y
  BY FromEntry, FromNext
<1>3. \A i \in c .. n : o[i] \in Addr /\ f[o[i]].key \in Key
  <2> TAKE i \in c .. n
  <2>1. i \in 1 .. n
    BY <1>1
  <2>2. o[i] \in DOMAIN f /\ o[i] \in Addr
    BY <2>1 DEF Chain
  <2>3. f[o[i]] \in Entry
    BY <2>2 DEF EntryMap
  <2> QED BY <2>2, <2>3 DEF Entry
<1>4. Len(x) = n - c + 1 /\ \A i \in 1 .. n - c + 1 : x[i] = o[c + i - 1]
  <2>1. /\ Len(x) = IF c <= n THEN n - c + 1 ELSE 0
        /\ \A i \in 1 .. n - c + 1 : x[i] = o[c + i - 1]
    BY <1>1, <1>3, SubSeqProperties
  <2> HIDE DEF x, n
  <2> QED BY <1>1, <2>1
<1>5. Len(y) = n - c /\ \A i \in 1 .. n - c : y[i] = o[c + i]
  <2>1. \A i \in c + 1 .. n : o[i] \in Addr
    BY <1>1, <1>3
  <2>2. c + 1 \in Int /\ n \in Int /\ n - (c + 1) + 1 = n - c
        /\ \A i \in 1 .. n - c : (c + 1) + i - 1 = c + i
    BY <1>1
  <2>3. /\ Len(y) = IF c + 1 <= n THEN n - (c + 1) + 1 ELSE 0
        /\ \A i \in 1 .. n - (c + 1) + 1 : y[i] = o[(c + 1) + i - 1]
    BY <2>1, <2>2, SubSeqProperties
  <2> HIDE DEF y, n
  <2> QED BY <1>1, <2>2, <2>3
<1> DEFINE K == [i \in c .. n |-> f[o[i]].key]
<1>6. all = [i \in 1 .. n - c + 1 |-> f[x[i]].key] /\ rest = [i \in 1 .. n - c |-> f[y[i]].key]
  BY <1>4, <1>5 DEF KeysFrom
<1> HIDE DEF n, x, y, all, rest
<1>7. \A i \in 1 .. n - c + 1 : all[i] = K[c + i - 1] /\ all[i] \in Key
  <2> TAKE i \in 1 .. n - c + 1
  <2>1. c + i - 1 \in c .. n
    BY <1>1
  <2>2. f[x[i]].key = K[c + i - 1] /\ K[c + i - 1] \in Key
    BY <1>3, <1>4, <2>1
  <2> QED BY <1>6, <2>2
<1>8. \A i \in 1 .. n - c : rest[i] = K[c + i] /\ rest[i] \in Key
  <2> TAKE i \in 1 .. n - c
  <2>1. c + i \in c .. n
    BY <1>1
  <2>2. f[y[i]].key = K[c + i] /\ K[c + i] \in Key
    BY <1>3, <1>5, <2>1
  <2> QED BY <1>6, <2>2
<1> HIDE DEF K
<1>9. all \in Seq(Key) /\ Len(all) = n - c + 1 /\ rest \in Seq(Key) /\ Len(rest) = n - c
  <2>1. all \in [1 .. n - c + 1 -> Key] /\ rest \in [1 .. n - c -> Key]
    BY <1>6, <1>7, <1>8
  <2> QED BY <1>1, <2>1, SMTT(60)
<1>10. all # <<>> /\ Head(all) = all[1]
  BY <1>1, <1>9
<1>11. all[1] = K[c]
  <2>1. c + 1 - 1 = c /\ 1 \in 1 .. n - c + 1
    BY <1>1
  <2> QED BY <1>7, <2>1
<1>12. Tail(all) = rest
  <2>1. /\ Tail(all) \in Seq(Key) /\ Len(Tail(all)) = Len(all) - 1
        /\ \A i \in 1 .. Len(Tail(all)) : Tail(all)[i] = all[i + 1]
    BY <1>9, <1>10, HeadTailProperties
  <2> DEFINE t == Tail(all)
  <2>2. t \in Seq(Key) /\ Len(t) = n - c /\ \A i \in 1 .. n - c : t[i] = all[i + 1]
    BY <1>1, <1>9, <2>1
  <2> HIDE DEF t
  <2>3. \A i \in 1 .. n - c : t[i] = rest[i]
    <3> TAKE i \in 1 .. n - c
    <3>1. i + 1 \in 1 .. n - c + 1 /\ c + (i + 1) - 1 = c + i
      BY <1>1
    <3>2. all[i + 1] = K[c + i]
      BY <1>7, <3>1
    <3> QED BY <1>8, <2>2, <3>2
  <2>4. t = rest
    BY <1>9, <2>2, <2>3, SeqEqual
  <2> QED BY <2>4 DEF t
<1>13. all # <<>> /\ Head(all) = K[c] /\ Tail(all) = rest
  BY <1>10, <1>11, <1>12
<1>14. K[c] = f[o[c]].key
  BY <1>1 DEF K
<1> QED BY <1>2, <1>13, <1>14 DEF all, rest, x, y, n
-----------------------------------------------------------------------------
(* A step of the iterator i changes what i has left, and nothing else. *)
OthersStay(i) ==
  /\ UNCHANGED <<ent, head, old, order, frozen>>
  /\ DOMAIN iters' = DOMAIN iters /\ \A j \in Iter : j # i => iters'[j] = iters[j]

(* ... so the items stay, and what is left to the others. *)
LEMMA LeftChanges ==
  ASSUME NEW i \in Iter, OthersStay(i)
  PROVE  /\ AbsItems' = AbsItems
         /\ AbsLeft' = [AbsLeft EXCEPT ![i] = IF iters'[i].kind = "off" THEN <<>>
                                              ELSE KeysFrom(ent, From(order, Cursor(iters[i])'))]
         /\ \A j \in Iter : j # i => (j \in Live' <=> j \in Live)
<1>1. UNCHANGED <<ent, head, old, order>> /\ \A j \in Iter : j # i => iters'[j] = iters[j]
  BY DEF OthersStay
<1>2. AbsItems' = AbsItems
  BY <1>1 DEF AbsItems
<1>3. \A j \in Iter : j # i => Cursor(iters[j])' = Cursor(iters[j])
  BY <1>1 DEF Cursor, Deref
<1> DEFINE L(j) == IF iters[j].kind = "off" THEN <<>> ELSE KeysFrom(ent, From(order, Cursor(iters[j])))
           M(j) == IF iters'[j].kind = "off" THEN <<>> ELSE KeysFrom(ent, From(order, Cursor(iters[j])'))
<1>4. AbsLeft = [j \in Iter |-> L(j)] /\ AbsLeft' = [j \in Iter |-> M(j)]
  BY <1>1, LeftOf
<1>5. \A j \in Iter : j # i => M(j) = L(j)
  BY <1>1, <1>3
<1>6. AbsLeft' = [AbsLeft EXCEPT ![i] = M(i)]
  <2> HIDE DEF L, M
  <2> QED BY <1>4, <1>5
<1>7. \A j \in Iter : j # i => (j \in Live' <=> j \in Live)
  BY <1>1 DEF Live
<1> QED BY <1>2, <1>6, <1>7

(* The start of an iteration, of either kind. *)
LEMMA BeginMap ==
  ASSUME IInv, Idle, NEW i \in Iter, iters[i].kind = "off",
         iters'[i].kind # "off", Cursor(iters[i])' = head, OthersStay(i), ret' = "ok"
  PROVE  Map!Begin(i)
<1>1. TableInv /\ old = NotGrowing
  BY IdleMeansNotGrowing DEF IInv
<1>2. Chain(ent, order) /\ EntryMap(ent) /\ order \in Seq(Addr) /\ head = IF Len(order) = 0 THEN Nil ELSE order[1]
  BY <1>1 DEF TableInv, TableTypeOK, ListInOrder
<1>3. From(order, head) = order
  BY <1>2, FromHead
<1>4. KeysFrom(ent, order) = Map!Keys
  <2>1. \A c \in 1 .. Len(order) : order[c] \in DOMAIN ent
    BY <1>2 DEF Chain
  <2>2. /\ DOMAIN ItemsOf(ent, order) = 1 .. Len(order)
        /\ \A c \in 1 .. Len(order) : ItemsOf(ent, order)[c] = ItemAt(ent, order[c])
    BY <1>2, <2>1, ItemsOfList
  <2>3. AbsItems = ItemsOf(ent, order)
    BY <1>1, IdleItems DEF TableInv
  <2>4. \A c \in 1 .. Len(order) : AbsItems[c].key = ent[order[c]].key
    BY <2>2, <2>3 DEF ItemAt
  <2> QED BY <2>2, <2>3, <2>4 DEF KeysFrom, Map!Keys
<1>5. /\ AbsItems' = AbsItems /\ AbsLeft' = [AbsLeft EXCEPT ![i] = Map!Keys]
      /\ \A j \in Iter : j # i => (j \in Live' <=> j \in Live)
  BY <1>3, <1>4, LeftChanges
<1>6. i \notin Live /\ Live' = Live \cup {i}
  BY <1>5 DEF Live
<1> QED BY <1>5, <1>6 DEF Map!Begin, OthersStay

(* One key yielded. *)
LEMMA StepMap ==
  ASSUME IInv, NEW i \in Iter, iters[i].kind # "off", iters'[i].kind # "off",
         Cursor(iters[i]) \in DOMAIN ent,
         Cursor(iters[i])' = ent[Cursor(iters[i])].next,
         ret' = ent[Cursor(iters[i])].key, OthersStay(i)
  PROVE  Map!Step(i)
<1>1. Chain(ent, order) /\ EntryMap(ent) /\ order \in Seq(Addr)
  BY DEF IInv, TableInv, TableTypeOK, ListInOrder
<1>2. PICK c \in 1 .. Len(order) : order[c] = Cursor(iters[i])
  BY <1>1 DEF Chain
<1> DEFINE all == KeysFrom(ent, From(order, order[c]))
<1>3. all # <<>> /\ Head(all) = ent[order[c]].key /\ Tail(all) = KeysFrom(ent, From(order, ent[order[c]].next))
  BY <1>1, KeysAdvance
<1>4. AbsLeft[i] = all
  BY <1>2, LeftOf
<1>5. /\ AbsItems' = AbsItems /\ AbsLeft' = [AbsLeft EXCEPT ![i] = Tail(all)]
      /\ \A j \in Iter : j # i => (j \in Live' <=> j \in Live)
  BY <1>2, <1>3, LeftChanges
<1>6. i \in Live /\ Live' = Live
  BY <1>5 DEF Live
<1> HIDE DEF all
<1> QED BY <1>2, <1>3, <1>4, <1>5, <1>6 DEF Map!Step, OthersStay

(* The end of an iteration, before or after its last key. *)
LEMMA FinishMap ==
  ASSUME NEW i \in Iter, iters[i].kind # "off", iters'[i].kind = "off", OthersStay(i), ret' = "ok"
  PROVE  Map!Finish(i)
<1>1. /\ AbsItems' = AbsItems /\ AbsLeft' = [AbsLeft EXCEPT ![i] = <<>>]
      /\ \A j \in Iter : j # i => (j \in Live' <=> j \in Live)
  BY LeftChanges
<1>2. i \in Live /\ Live' = Live \ {i}
  BY <1>1 DEF Live
<1> QED BY <1>1, <1>2 DEF Map!Finish, OthersStay

(* Every step of an iterator, of either kind, is one of the map's. *)
LEMMA IterationMap ==
  ASSUME IInv, NEW i \in Iter,
         \/ Iterate(i) \/ NextKey(i) \/ Done(i)
         \/ EntriesBegin(i) \/ EntriesYield(i) \/ EntriesEnd(i)
  PROVE  Map!Begin(i) \/ Map!Step(i) \/ Map!Finish(i)
<1>1. TableInv /\ iters \in [Iter -> Iterator] /\ IterPointersLive
  BY DEF IInv, IterInv
<1>2. iters[i] \in Iterator
  BY <1>1
<1>3. CASE Iterate(i)
  <2>1. /\ Idle /\ iters[i].kind = "off" /\ ret' = "ok" /\ UNCHANGED <<contents, frozen>>
        /\ iters' = [iters EXCEPT ![i] = [kind |-> "key", e |-> head, counted |-> FALSE]]
    BY <1>3 DEF Iterate
  <2>2. iters'[i].kind = "key" /\ iters'[i].e = head /\ OthersStay(i)
    BY <1>1, <2>1 DEF OthersStay, contents
  <2>3. Cursor(iters[i])' = head
    BY <2>2 DEF Cursor
  <2> QED BY <2>1, <2>2, <2>3, BeginMap
<1>4. CASE EntriesBegin(i)
  <2>1. /\ Idle /\ iters[i].kind = "off" /\ ret' = "ok" /\ UNCHANGED <<contents, frozen>>
        /\ iters' = [iters EXCEPT ![i] = [kind |-> "entries", e |-> HeadLink, counted |-> ~frozen]]
    BY <1>4 DEF EntriesBegin
  <2>2. iters'[i].kind = "entries" /\ iters'[i].e = HeadLink /\ OthersStay(i) /\ head' = head
    BY <1>1, <2>1 DEF OthersStay, contents
  <2>3. Cursor(iters[i])' = head
    BY <2>2 DEF Cursor, Deref
  <2> QED BY <2>1, <2>2, <2>3, BeginMap
<1>5. CASE NextKey(i)
  <2> DEFINE e == iters[i].e
  <2>1. /\ iters[i].kind = "key" /\ e # Nil /\ ret' = ent[e].key /\ UNCHANGED <<contents, frozen>>
        /\ iters' = [iters EXCEPT ![i].e = ent[e].next]
    BY <1>5 DEF NextKey
  <2>2. iters'[i].kind = "key" /\ iters'[i].e = ent[e].next /\ OthersStay(i)
    BY <1>1, <1>2, <2>1 DEF OthersStay, contents, Iterator
  <2>3. Cursor(iters[i]) = e /\ Cursor(iters[i])' = ent[e].next
    BY <2>1, <2>2 DEF Cursor
  <2>4. e \in DOMAIN ent
    BY <1>1, <2>1 DEF IterPointersLive
  <2> QED BY <2>1, <2>2, <2>3, <2>4, StepMap
<1>6. CASE EntriesYield(i)
  <2> DEFINE d == Deref(iters[i].e)
  <2>1. /\ iters[i].kind = "entries" /\ d # Nil /\ ret' = ent[d].key /\ UNCHANGED <<contents, frozen>>
        /\ iters' = [iters EXCEPT ![i].e = d]
    BY <1>6 DEF EntriesYield
  <2>2. iters'[i].kind = "entries" /\ iters'[i].e = d /\ OthersStay(i) /\ ent' = ent
    BY <1>1, <1>2, <2>1 DEF OthersStay, contents, Iterator
  <2>3. Cursor(iters[i]) = d
    BY <2>1 DEF Cursor
  <2>4. Cursor(iters[i])' = ent[d].next
    BY <2>1, <2>2 DEF Cursor, Deref, HeadLink, Nil
  <2>5. d \in DOMAIN ent
    BY <1>1, <2>1, LinksLive DEF Deref, IterPointersLive, HeadLink, Nil
  <2> QED BY <2>1, <2>2, <2>3, <2>4, <2>5, StepMap
<1>7. CASE Done(i)
  <2>1. iters[i].kind = "key" /\ ret' = "ok" /\ UNCHANGED <<contents, frozen>> /\ iters' = [iters EXCEPT ![i] = Off]
    BY <1>7 DEF Done
  <2>2. iters'[i].kind = "off" /\ OthersStay(i)
    BY <1>1, <2>1 DEF OthersStay, contents, Off
  <2> QED BY <2>1, <2>2, FinishMap
<1>8. CASE EntriesEnd(i)
  <2>1. iters[i].kind = "entries" /\ ret' = "ok" /\ UNCHANGED <<contents, frozen>> /\ iters' = [iters EXCEPT ![i] = Off]
    BY <1>8 DEF EntriesEnd
  <2>2. iters'[i].kind = "off" /\ OthersStay(i)
    BY <1>1, <2>1 DEF OthersStay, contents, Off
  <2> QED BY <2>1, <2>2, FinishMap
<1> QED BY <1>3, <1>4, <1>5, <1>6, <1>7, <1>8
-----------------------------------------------------------------------------
(* Every step is an operation of the map or invisible. *)
LEMMA NextMap == IInv /\ [Next]_vars => [Map!Next]_(Map!absVars)
<1> SUFFICES ASSUME IInv, [Next]_vars
             PROVE  Map!Next \/ UNCHANGED Map!absVars
  OBVIOUS
<1>1. CASE \E k \in Key, v \in Value : Insert(k, v)
  <2>1. PICK k \in Key, v \in Value : InsertNew(k, v) \/ InsertKnown(k, v)
    BY <1>1 DEF Insert
  <2>2. Map!Insert(k, v) \/ UNCHANGED Map!absVars
    BY <2>1, InsertNewMap, InsertKnownMap
  <2> QED BY <2>2 DEF Map!Next
<1>2. CASE \E k \in Key : InsertRefused(k) \/ DeleteFound(k) \/ DeleteOther(k) \/ Lookup(k)
  <2>1. PICK k \in Key : InsertRefused(k) \/ DeleteFound(k) \/ DeleteOther(k) \/ Lookup(k)
    BY <1>2
  <2>2. Map!Delete(k) \/ Map!Lookup(k)
    BY <2>1, InsertRefusedMap, DeleteFoundMap, DeleteOtherMap, LookupMap
  <2> QED BY <2>2 DEF Map!Next
<1>3. CASE GrowStep
  BY <1>3, GrowStepMap
<1>4. CASE GrowEnd
  BY <1>4, GrowEndMap DEF Map!Next
<1>5. CASE Clear
  BY <1>5, ClearMap DEF Map!Next
<1>6. CASE Freeze
  BY <1>6, FreezeMap DEF Map!Next
<1>7. CASE \E i \in Iter : \/ Iterate(i) \/ NextKey(i) \/ Done(i)
                           \/ EntriesBegin(i) \/ EntriesYield(i) \/ EntriesEnd(i)
  BY <1>7, IterationMap DEF Map!Next
<1>8. CASE UNCHANGED vars
  <2>1. UNCHANGED <<ent, head, old, order, iters, frozen, ret>>
    BY <1>8 DEF vars
  <2> QED BY <2>1, AbsUnchanged DEF Map!absVars
<1> QED BY <1>1, <1>2, <1>3, <1>4, <1>5, <1>6, <1>7, <1>8 DEF Next

(* The hash table implements the insertion-ordered map: for any number of  *)
(* keys, any hashes, bucket size and load factor, every operation has the  *)
(* map's effect and result, growing is not observable, and an iteration    *)
(* yields the keys present when it began, in the order of insertion.       *)
THEOREM TableIsOrderedMap == Spec => ImplementsOrderedMap
<1>1. Init => Map!Init
  BY InitMap
<1>2. IInv /\ [Next]_vars => [Map!Next]_(Map!absVars)
  BY NextMap
<1>3. Spec => []IInv
  BY Invariance
<1> QED BY <1>1, <1>2, <1>3, PTL DEF Spec, ImplementsOrderedMap, Map!Spec
=============================================================================

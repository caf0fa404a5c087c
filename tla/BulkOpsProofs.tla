---------------------------- MODULE BulkOpsProofs ----------------------------
(***************************************************************************)
(* That the bulk operations on dicts and sets compute what doc/spec.md     *)
(* says of them, or else what the code does instead, and that the errors   *)
(* they discard occur in two cases only: for all keys, equal, deep and     *)
(* unhashable ones included, all operands and all their lengths.           *)
(*                                                                         *)
(* The invariant says of the table under construction what the property    *)
(* says of the result, for the part of the right operand that the loop has *)
(* been through.                                                           *)
(***************************************************************************)
EXTENDS BulkOps, SequenceTheorems, FiniteSetTheorems, TLAPS

Items == [key : Key, val : Value \cup {NoneVal}]
Table == [alloc : BOOLEAN, items : Seq(Items)]
ClassOf(e) == Class[e.key]

(* A table of items that are told apart, allocated if there is any. *)
Sound(t) == t \in Table /\ Proper(t.items) /\ (t.items # <<>> => t.alloc)
-----------------------------------------------------------------------------
(* A sequence over S is a function into S. *)
LEMMA SeqTyped ==
  ASSUME NEW S, NEW s \in Seq(S)
  PROVE  Len(s) \in Nat /\ DOMAIN s = 1 .. Len(s) /\ \A d \in DOMAIN s : s[d] \in S
OBVIOUS

LEMMA Appended ==
  ASSUME NEW S, NEW s \in Seq(S), NEW e \in S
  PROVE  /\ Append(s, e) \in Seq(S) /\ Len(Append(s, e)) = Len(s) + 1
         /\ Append(s, e)[Len(s) + 1] = e
         /\ \A j \in 1 .. Len(s) : Append(s, e)[j] = s[j]
OBVIOUS

(* A sequence without its element at position j. *)
LEMMA Removed ==
  ASSUME NEW S, NEW s \in Seq(S), NEW j \in 1 .. Len(s)
  PROVE  LET r == SubSeq(s, 1, j - 1) \o SubSeq(s, j + 1, Len(s))
         IN  /\ r \in Seq(S) /\ Len(r) = Len(s) - 1
             /\ \A a \in 1 .. j - 1 : r[a] = s[a]
             /\ \A a \in j .. Len(s) - 1 : r[a] = s[a + 1]
<1>1. PICK n \in Nat : n = Len(s) /\ \A a \in 1 .. n : s[a] \in S
  BY SeqTyped
<1>2. PICK m \in Nat : m = j - 1 /\ j \in 1 .. n
  BY <1>1
<1> DEFINE p == SubSeq(s, 1, m)
           q == SubSeq(s, j + 1, n)
<1>3. p \in Seq(S) /\ Len(p) = m /\ \A a \in 1 .. m : p[a] = s[a]
  <2>1. 1 \in Int /\ m \in Int /\ \A a \in 1 .. m : s[a] \in S
    BY <1>1, <1>2
  <2>2. /\ p \in Seq(S) /\ Len(p) = IF 1 <= m THEN m - 1 + 1 ELSE 0
        /\ \A a \in 1 .. m - 1 + 1 : p[a] = s[1 + a - 1]
    BY <2>1, SubSeqProperties
  <2> HIDE DEF p
  <2>3. Len(p) = m
    BY <2>2, <1>2
  <2>4. \A a \in 1 .. m : a \in 1 .. m - 1 + 1 /\ 1 + a - 1 = a
    BY <1>2
  <2> QED BY <2>2, <2>3, <2>4
<1>4. q \in Seq(S) /\ Len(q) = n - j /\ \A a \in 1 .. n - j : q[a] = s[j + a]
  <2>1. j + 1 \in Int /\ n \in Int /\ \A a \in j + 1 .. n : s[a] \in S
    BY <1>1, <1>2
  <2>2. /\ q \in Seq(S) /\ Len(q) = IF j + 1 <= n THEN n - (j + 1) + 1 ELSE 0
        /\ \A a \in 1 .. n - (j + 1) + 1 : q[a] = s[j + 1 + a - 1]
    <3> DEFINE k == j + 1
    <3>1. k \in Int /\ \A a \in k .. n : s[a] \in S
      BY <2>1
    <3> HIDE DEF k
    <3>2. /\ SubSeq(s, k, n) \in Seq(S) /\ Len(SubSeq(s, k, n)) = IF k <= n THEN n - k + 1 ELSE 0
          /\ \A a \in 1 .. n - k + 1 : SubSeq(s, k, n)[a] = s[k + a - 1]
      BY <2>1, <3>1, SubSeqProperties
    <3> QED BY <3>2 DEF k
  <2> HIDE DEF q
  <2>3. Len(q) = n - j
    BY <2>2, <1>2
  <2>4. \A a \in 1 .. n - j : a \in 1 .. n - (j + 1) + 1 /\ j + 1 + a - 1 = j + a
    BY <1>2
  <2> QED BY <2>2, <2>3, <2>4
<1> HIDE DEF p, q
<1>5. /\ p \o q \in Seq(S) /\ Len(p \o q) = Len(p) + Len(q)
      /\ \A a \in 1 .. Len(p) + Len(q) : (p \o q)[a] = IF a <= Len(p) THEN p[a] ELSE q[a - Len(p)]
  BY <1>3, <1>4, ConcatProperties
<1> DEFINE r == p \o q
<1>6. r \in Seq(S) /\ Len(r) = n - 1
  BY <1>2, <1>3, <1>4, <1>5
<1>7. \A a \in 1 .. j - 1 : r[a] = s[a]
  <2> TAKE a \in 1 .. j - 1
  <2>1. a \in 1 .. Len(p) + Len(q) /\ a <= Len(p) /\ a \in 1 .. m
    BY <1>2, <1>3, <1>4
  <2> QED BY <1>3, <1>5, <2>1
<1>8. \A a \in j .. n - 1 : r[a] = s[a + 1]
  <2> TAKE a \in j .. n - 1
  <2>1. a \in 1 .. Len(p) + Len(q) /\ ~(a <= Len(p)) /\ a - m \in 1 .. n - j /\ j + (a - m) = a + 1
    BY <1>2, <1>3, <1>4
  <2> QED BY <1>3, <1>4, <1>5, <2>1
<1> QED BY <1>1, <1>2, <1>6, <1>7, <1>8 DEF p, q
-----------------------------------------------------------------------------
(* Which items are found under k: those of its class. *)
LEMMA Found ==
  ASSUME NEW t \in Table, NEW k \in Key
  PROVE  /\ \A j : j \in At(t.items, k) <=> j \in DOMAIN t.items /\ ClassOf(t.items[j]) = Class[k]
         /\ Has(t, k) <=> Class[k] \in Classes(t.items)
BY DEF At, Has, Equal, Classes, ClassOf

(* The insertion of a key that is not there. *)
LEMMA InsertedNew ==
  ASSUME NEW t, Sound(t), NEW e \in Items, e.key \notin Unhashable, ~Has(t, e.key)
  PROVE  LET r == Inserted(t, e.key, e.val)
         IN  /\ InsertErr(t, e.key) = "none" /\ Sound(r) /\ r.alloc
             /\ r.items = Append(t.items, e)
             /\ Classes(r.items) = Classes(t.items) \cup {ClassOf(e)}
<1> DEFINE r == Inserted(t, e.key, e.val)
           s == t.items
<1>1. t \in Table /\ s \in Seq(Items) /\ Proper(s)
  BY DEF Sound, Table
<1>2. r = [alloc |-> TRUE, items |-> Append(s, e)] /\ InsertErr(t, e.key) = "none"
  BY DEF Inserted, InsertErr, Item, Items, Has
<1>3. /\ Append(s, e) \in Seq(Items) /\ Len(Append(s, e)) = Len(s) + 1
      /\ Append(s, e)[Len(s) + 1] = e /\ \A j \in 1 .. Len(s) : Append(s, e)[j] = s[j]
  <2>1. PICK q \in Seq(Items) : q = s
    BY <1>1
  <2>2. /\ Append(q, e) \in Seq(Items) /\ Len(Append(q, e)) = Len(q) + 1
        /\ Append(q, e)[Len(q) + 1] = e /\ \A j \in 1 .. Len(q) : Append(q, e)[j] = q[j]
    BY Appended
  <2> HIDE DEF s
  <2> QED BY <2>1, <2>2, Zenon
<1>4. Len(s) \in Nat /\ DOMAIN s = 1 .. Len(s) /\ DOMAIN Append(s, e) = 1 .. Len(s) + 1
  <2>1. Len(s) \in Nat /\ DOMAIN s = 1 .. Len(s)
    BY <1>1, SeqTyped, Zenon
  <2>2. DOMAIN Append(s, e) = 1 .. Len(Append(s, e))
    BY <1>3, SeqTyped, Zenon
  <2> QED BY <1>3, <2>1, <2>2
<1> DEFINE a == Append(s, e)
           n == Len(s)
<1>5. /\ n \in Nat /\ DOMAIN s = 1 .. n /\ DOMAIN a = 1 .. n + 1
      /\ a[n + 1] = e /\ \A j \in 1 .. n : a[j] = s[j]
  BY <1>3, <1>4
<1>6. \A j \in 1 .. n : ClassOf(s[j]) # ClassOf(e)
  <2>1. e.key \in Key
    BY DEF Items
  <2>2. \A j : j \notin At(s, e.key)
    BY DEF Has
  <2> HIDE DEF n, s
  <2> QED BY <1>1, <1>5, <2>1, <2>2, Found DEF ClassOf, s
<1> HIDE DEF a, n, s
<1>7. \A j \in 1 .. n + 1 : j = n + 1 \/ j \in 1 .. n
  BY <1>5
<1>8. Proper(a)
  BY <1>1, <1>5, <1>6, <1>7 DEF Proper, ClassOf
<1>9. Classes(a) = Classes(s) \cup {ClassOf(e)}
  <2>1. 1 .. n \subseteq 1 .. n + 1 /\ n + 1 \in 1 .. n + 1
    BY <1>5
  <2> QED BY <1>5, <1>7, <2>1 DEF Classes, ClassOf
<1>10. a \in Seq(Items)
  BY <1>3 DEF a
<1>11. r = [alloc |-> TRUE, items |-> a]
  BY <1>2 DEF a
<1> HIDE DEF r
<1>12. Sound(r) /\ r.alloc /\ r.items = a
  BY <1>8, <1>10, <1>11 DEF Sound, Table
<1> QED BY <1>2, <1>9, <1>12 DEF a, s, r

(* The insertion of a key that is there: its item gets the value, and      *)
(* keeps its key; unless the keys are nested too deep to be compared.      *)
LEMMA InsertedOld ==
  ASSUME NEW t, Sound(t), NEW e \in Items, e.key \notin Unhashable, Has(t, e.key),
         e.key \notin Deep
  PROVE  LET r == Inserted(t, e.key, e.val)
         IN  /\ InsertErr(t, e.key) = "none" /\ Sound(r) /\ r.alloc
             /\ Len(r.items) = Len(t.items) /\ DOMAIN r.items = DOMAIN t.items
             /\ \A j \in DOMAIN t.items :
                  /\ r.items[j].key = t.items[j].key
                  /\ r.items[j].val = IF ClassOf(t.items[j]) = ClassOf(e) THEN e.val ELSE t.items[j].val
             /\ Classes(r.items) = Classes(t.items)
<1>1. PICK s \in Seq(Items) : s = t.items /\ t \in Table /\ Proper(s)
  BY DEF Sound, Table
<1>2. PICK n \in Nat : n = Len(s) /\ DOMAIN s = 1 .. n /\ \A j \in 1 .. n : s[j] \in Items
  BY SeqTyped
<1> DEFINE a == [j \in 1 .. n |-> IF j \in At(s, e.key) THEN Item(s[j].key, e.val) ELSE s[j]]
           r == Inserted(t, e.key, e.val)
<1>3. r = [alloc |-> TRUE, items |-> a] /\ InsertErr(t, e.key) = "none"
  BY <1>1, <1>2 DEF Inserted, InsertErr
<1>4. \A j \in 1 .. n : j \in At(s, e.key) <=> ClassOf(s[j]) = ClassOf(e)
  BY <1>1, <1>2, Found DEF Items, ClassOf
<1>5. \A j \in 1 .. n : /\ a[j] \in Items /\ a[j].key = s[j].key
                        /\ a[j].val = IF ClassOf(s[j]) = ClassOf(e) THEN e.val ELSE s[j].val
  BY <1>2, <1>4 DEF Item, Items
<1>6. a \in Seq(Items) /\ Len(a) = n /\ DOMAIN a = 1 .. n
  <2>1. a \in [1 .. n -> Items]
    BY <1>5
  <2> HIDE DEF a
  <2> QED BY <2>1, SeqDef
<1> HIDE DEF a
<1>7. Proper(a)
  BY <1>1, <1>2, <1>5, <1>6 DEF Proper
<1>8. Classes(a) = Classes(s)
  BY <1>2, <1>5, <1>6 DEF Classes
<1> HIDE DEF r
<1>9. Sound(r) /\ r.alloc /\ r.items = a
  BY <1>3, <1>6, <1>7 DEF Sound, Table
<1> QED BY <1>1, <1>2, <1>3, <1>5, <1>6, <1>8, <1>9 DEF r

(* An insertion that fails allocates the table, and does nothing else. *)
LEMMA InsertedFails ==
  ASSUME NEW t, Sound(t), NEW e \in Items, InsertErr(t, e.key) # "none"
  PROVE  LET r == Inserted(t, e.key, e.val)
         IN  /\ e.key \in Unhashable \/ (Has(t, e.key) /\ e.key \in Deep)
             /\ Sound(r) /\ r.alloc /\ r.items = t.items
<1>1. e.key \in Unhashable \/ (Has(t, e.key) /\ e.key \in Deep)
  BY DEF InsertErr, Has
<1>2. Inserted(t, e.key, e.val) = [t EXCEPT !.alloc = TRUE]
  BY <1>1 DEF Inserted
<1>3. t \in Table
  BY DEF Sound
<1> QED BY <1>1, <1>2, <1>3 DEF Sound, Table

LEMMA InsertSucceeds ==
  ASSUME NEW t, NEW k, InsertErr(t, k) = "none"
  PROVE  k \notin Unhashable /\ (Has(t, k) => k \notin Deep)
BY DEF InsertErr, Has

(* Every insertion leaves a sound table that is allocated. *)
LEMMA InsertedSound ==
  ASSUME NEW t, Sound(t), NEW e \in Items
  PROVE  /\ Sound(Inserted(t, e.key, e.val)) /\ Inserted(t, e.key, e.val).alloc
         /\ InsertErr(t, e.key) = "none" =>
              Classes(Inserted(t, e.key, e.val).items) = Classes(t.items) \cup {ClassOf(e)}
<1>1. CASE InsertErr(t, e.key) # "none"
  BY <1>1, InsertedFails
<1>2. CASE InsertErr(t, e.key) = "none" /\ ~Has(t, e.key)
  BY <1>2, InsertSucceeds, InsertedNew
<1>3. CASE InsertErr(t, e.key) = "none" /\ Has(t, e.key)
  <2>1. ClassOf(e) \in Classes(t.items)
    BY <1>3, Found DEF Items, Sound, ClassOf
  <2> QED BY <1>3, <2>1, InsertSucceeds, InsertedOld
<1> QED BY <1>1, <1>2, <1>3

(* A deletion takes the key's class away, and keeps the order of the rest. *)
LEMMA DeletedClass ==
  ASSUME NEW t, Sound(t), NEW k \in Key
  PROVE  LET r == Deleted(t, k)
         IN  /\ Sound(r) /\ r.alloc = t.alloc
             /\ Classes(r.items) = Classes(t.items) \ {Class[k]}
<1>1. PICK s \in Seq(Items) : s = t.items /\ t \in Table /\ Proper(s)
  BY DEF Sound, Table
<1>2. PICK n \in Nat : n = Len(s) /\ DOMAIN s = 1 .. n /\ \A j \in 1 .. n : s[j] \in Items
  BY SeqTyped
<1>3. CASE ~Has(t, k)
  BY <1>1, <1>3, Found DEF Deleted
<1>4. CASE Has(t, k)
  <2> DEFINE j == CHOOSE l \in At(t.items, k) : TRUE
             r == SubSeq(s, 1, j - 1) \o SubSeq(s, j + 1, Len(s))
  <2>1. j \in 1 .. n /\ ClassOf(s[j]) = Class[k]
    BY <1>1, <1>2, <1>4, Found DEF Has
  <2>2. Deleted(t, k) = [t EXCEPT !.items = r]
    BY <1>1, <1>4 DEF Deleted
  <2> HIDE DEF j
  <2>3. /\ r \in Seq(Items) /\ Len(r) = n - 1
        /\ \A a \in 1 .. j - 1 : r[a] = s[a]
        /\ \A a \in j .. n - 1 : r[a] = s[a + 1]
    BY <1>2, <2>1, Removed
  <2> HIDE DEF r
  <2>4. DOMAIN r = 1 .. n - 1
    BY <2>3, SeqTyped
  <2> DEFINE from == [a \in 1 .. n - 1 |-> IF a < j THEN a ELSE a + 1]
  <2>5. \A a \in 1 .. n - 1 : from[a] \in 1 .. n /\ from[a] # j /\ r[a] = s[from[a]]
    BY <1>2, <2>1, <2>3
  <2>6. \A a, b \in 1 .. n - 1 : a # b => from[a] # from[b]
    BY <1>2, <2>1
  <2>7. \A l \in 1 .. n : l # j => \E a \in 1 .. n - 1 : from[a] = l
    <3> TAKE l \in 1 .. n
    <3> HAVE l # j
    <3>1. CASE l < j
      BY <1>2, <2>1, <3>1
    <3>2. CASE l > j
      <4>1. l - 1 \in 1 .. n - 1 /\ from[l - 1] = l
        BY <1>2, <2>1, <3>2
      <4> QED BY <4>1
    <3> QED BY <3>1, <3>2, <1>2, <2>1
  <2> HIDE DEF from
  <2> DEFINE Apart(q, m) ==
               \A a, b \in 1 .. m : /\ q[a].key \notin Unhashable
                                    /\ a # b => Class[q[a].key] # Class[q[b].key]
  <2>8. Apart(s, n)
    BY <1>1, <1>2 DEF Proper
  <2>9. Apart(r, n - 1)
    <3> SUFFICES ASSUME NEW a \in 1 .. n - 1, NEW b \in 1 .. n - 1
                 PROVE  /\ r[a].key \notin Unhashable
                        /\ a # b => Class[r[a].key] # Class[r[b].key]
      OBVIOUS
    <3>1. /\ from[a] \in 1 .. n /\ r[a] = s[from[a]]
          /\ from[b] \in 1 .. n /\ r[b] = s[from[b]]
      BY <2>5
    <3>2. a # b => from[a] # from[b]
      BY <2>6
    <3> QED BY <2>8, <3>1, <3>2
  <2>10. Proper(r)
    BY <2>4, <2>9 DEF Proper
  <2>11. Classes(r) = Classes(s) \ {Class[k]}
    <3>1. \A a \in 1 .. n - 1 : Class[r[a].key] \in Classes(s) \ {Class[k]}
      <4> TAKE a \in 1 .. n - 1
      <4>1. from[a] \in 1 .. n /\ from[a] # j /\ r[a] = s[from[a]]
        BY <2>5
      <4>2. Class[s[from[a]].key] # Class[s[j].key]
        BY <2>1, <2>8, <4>1
      <4> QED BY <1>2, <2>1, <4>1, <4>2 DEF Classes, ClassOf
    <3>2. \A l \in 1 .. n : Class[s[l].key] # Class[k] => Class[s[l].key] \in Classes(r)
      <4> SUFFICES ASSUME NEW l \in 1 .. n, Class[s[l].key] # Class[k]
                   PROVE  Class[s[l].key] \in Classes(r)
        OBVIOUS
      <4>1. PICK a \in 1 .. n - 1 : from[a] = l
        BY <2>1, <2>7 DEF ClassOf
      <4> QED BY <2>4, <2>5, <4>1 DEF Classes
    <3>3. ASSUME NEW c \in Classes(r) PROVE c \in Classes(s) \ {Class[k]}
      <4>1. PICK a \in 1 .. n - 1 : c = Class[r[a].key]
        BY <2>4 DEF Classes
      <4> QED BY <3>1, <4>1
    <3>4. ASSUME NEW c \in Classes(s), c # Class[k] PROVE c \in Classes(r)
      <4>1. PICK l \in 1 .. n : c = Class[s[l].key]
        BY <1>2 DEF Classes
      <4> QED BY <3>2, <3>4, <4>1
    <3> QED BY <3>3, <3>4
  <2>12. t.items # <<>>
    BY <1>1, <1>2, <2>1
  <2> QED BY <1>1, <2>2, <2>3, <2>10, <2>11, <2>12 DEF Sound, Table
<1> QED BY <1>3, <1>4
-----------------------------------------------------------------------------
(* The classes of the first n items of s. *)
Upto(s, n) == {Class[s[j].key] : j \in 1 .. n}

(* The items, among the first n of b, that a union appends to a: those of  *)
(* a class that neither a nor an earlier item has.                         *)
Fresh(a, b, n) ==
  {j \in 1 .. n : /\ Class[b[j].key] \notin Classes(a)
                  /\ \A l \in 1 .. j - 1 : Class[b[l].key] # Class[b[j].key]}

(* f lists the numbers of S, m in all, in increasing order. *)
Lists(f, m, S) ==
  /\ f \in [1 .. m -> S]
  /\ \A q, r \in 1 .. m : q < r => f[q] < f[r]
  /\ \A j \in S : \E q \in 1 .. m : f[q] = j

(* Item j of s has the value of the last item of its class among the first *)
(* n of b, or the one it had in a if there is none.                        *)
Valued(a, b, s, n, j) ==
  \/ \E l \in 1 .. n : /\ Class[b[l].key] = Class[s[j].key] /\ s[j].val = b[l].val
                       /\ \A q \in l + 1 .. n : Class[b[q].key] # Class[s[j].key]
  \/ j \in 1 .. Len(a) /\ s[j].val = a[j].val /\ Class[s[j].key] \notin Upto(b, n)

Kept(a, s) == Len(a) <= Len(s) /\ \A j \in 1 .. Len(a) : s[j].key = a[j].key
Joined(a, b, s, n) ==
  \E f : /\ Lists(f, Len(s) - Len(a), Fresh(a, b, n))
         /\ \A q \in 1 .. Len(s) - Len(a) : s[Len(a) + q].key = b[f[q]].key

(* s is the union of a and the first n items of b. *)
Merge(a, b, s, n) ==
  /\ Classes(s) = Classes(a) \cup Upto(b, n)
  /\ Kept(a, s)
  /\ Joined(a, b, s, n)
  /\ \A j \in 1 .. Len(s) : Valued(a, b, s, n, j)

LEMMA UptoZero == ASSUME NEW s PROVE Upto(s, 0) = {}
BY DEF Upto

LEMMA UptoNext ==
  ASSUME NEW s, NEW n \in Nat PROVE Upto(s, n + 1) = Upto(s, n) \cup {Class[s[n + 1].key]}
<1>1. \A j : j \in 1 .. n + 1 <=> j \in 1 .. n \/ j = n + 1
  OBVIOUS
<1> QED BY <1>1 DEF Upto

LEMMA UptoAll == ASSUME NEW s \in Seq(Items) PROVE Upto(s, Len(s)) = Classes(s)
BY SeqTyped DEF Upto, Classes

LEMMA MergeStart == ASSUME NEW a \in Seq(Items), NEW b PROVE Merge(a, b, a, 0)
<1>1. PICK n \in Nat : n = Len(a)
  BY SeqTyped
<1>2. Classes(a) = Classes(a) \cup Upto(b, 0) /\ Kept(a, a)
  BY <1>1, UptoZero DEF Kept
<1>3. Joined(a, b, a, 0)
  <2> DEFINE f == [q \in 1 .. 0 |-> 0]
  <2>1. Fresh(a, b, 0) = {} /\ Len(a) - Len(a) = 0
    BY <1>1 DEF Fresh
  <2>2. Lists(f, 0, {})
    BY DEF Lists
  <2> HIDE DEF f
  <2>3. \A q \in 1 .. 0 : a[Len(a) + q].key = b[f[q]].key
    OBVIOUS
  <2> QED BY <2>1, <2>2, <2>3 DEF Joined
<1>4. \A j \in 1 .. Len(a) : Valued(a, b, a, 0, j)
  BY UptoZero DEF Valued
<1> QED BY <1>2, <1>3, <1>4 DEF Merge

(* The next item is of a new class: it is appended. *)
LEMMA MergeNew ==
  ASSUME NEW a \in Seq(Items), NEW b \in Seq(Items), NEW s \in Seq(Items), NEW n \in Nat,
         Merge(a, b, s, n), n + 1 \in 1 .. Len(b), Class[b[n + 1].key] \notin Classes(s)
  PROVE  Merge(a, b, Append(s, b[n + 1]), n + 1)
<1>1. PICK k \in Nat : k = Len(a)
  BY SeqTyped
<1>2. PICK m \in Nat : Len(s) = k + m /\ Len(s) - k = m
  <2>1. PICK h \in Nat : h = Len(s) /\ k <= h
    BY <1>1, SeqTyped DEF Merge, Kept
  <2>2. h - k \in Nat /\ h = k + (h - k)
    BY <2>1
  <2> QED BY <2>1, <2>2
<1>3. PICK e \in Items : e = b[n + 1]
  BY SeqTyped
<1> DEFINE r == Append(s, e)
<1>4. /\ r \in Seq(Items) /\ Len(r) = k + m + 1 /\ r[k + m + 1] = e
      /\ \A j \in 1 .. k + m : r[j] = s[j]
  BY <1>2, Appended
<1> HIDE DEF r
<1>5. DOMAIN s = 1 .. k + m /\ DOMAIN r = 1 .. k + m + 1
  BY <1>2, <1>4, SeqTyped
<1>6. ClassOf(e) \notin Classes(a) /\ ClassOf(e) \notin Upto(b, n)
  BY <1>3 DEF Merge, ClassOf
<1>7. Classes(r) = Classes(a) \cup Upto(b, n + 1)
  <2>1. PICK h \in Nat : h = k + m
    BY <1>1, <1>2
  <2>2. /\ DOMAIN s = 1 .. h /\ r[h + 1] = e /\ \A j \in 1 .. h : r[j] = s[j]
        /\ \A j : j \in DOMAIN r <=> (j \in 1 .. h \/ j = h + 1)
    BY <1>4, <1>5, <2>1
  <2>3. Classes(r) = Classes(s) \cup {ClassOf(e)}
    <3>1. h + 1 \in DOMAIN r /\ DOMAIN s \subseteq DOMAIN r
      BY <2>1, <2>2
    <3>2. \A c : c \in Classes(r) <=> \E j \in DOMAIN r : c = ClassOf(r[j])
      BY DEF Classes, ClassOf
    <3>3. \A c : c \in Classes(s) <=> \E j \in DOMAIN s : c = ClassOf(s[j])
      BY DEF Classes, ClassOf
    <3>4. ASSUME NEW c \in Classes(r) PROVE c \in Classes(s) \cup {ClassOf(e)}
      BY <2>2, <3>2, <3>3
    <3>5. ASSUME NEW c \in Classes(s) \cup {ClassOf(e)} PROVE c \in Classes(r)
      BY <2>2, <3>1, <3>2, <3>3
    <3> QED BY <3>4, <3>5
  <2> QED BY <1>3, <2>3, UptoNext DEF Merge, ClassOf
<1>8. Kept(a, r)
  <2>1. \A j \in 1 .. k : j \in 1 .. k + m
    BY <1>1, <1>2
  <2> QED BY <1>1, <1>2, <1>4, <2>1 DEF Merge, Kept
<1>9. Joined(a, b, r, n + 1)
  <2>1. PICK f : /\ Lists(f, m, Fresh(a, b, n))
                 /\ \A q \in 1 .. m : s[k + q].key = b[f[q]].key
    BY <1>1, <1>2 DEF Merge, Joined
  <2> DEFINE w == m + 1
             g == [q \in 1 .. w |-> IF q = w THEN n + 1 ELSE f[q]]
             F == Fresh(a, b, n)
  <2>2. Fresh(a, b, n + 1) = F \cup {n + 1} /\ F \subseteq 1 .. n
    <3>1. \A j : j \in 1 .. n + 1 <=> j \in 1 .. n \/ j = n + 1
      OBVIOUS
    <3>2. \A l \in 1 .. n + 1 - 1 : Class[b[l].key] # Class[b[n + 1].key]
      BY <1>3, <1>6 DEF Upto, ClassOf
    <3> QED BY <1>3, <1>6, <3>1, <3>2 DEF Fresh, ClassOf
  <2>3. /\ f \in [1 .. m -> F] /\ \A q, l \in 1 .. m : q < l => f[q] < f[l]
        /\ \A j \in F : \E q \in 1 .. m : f[q] = j
    BY <2>1 DEF Lists
  <2> HIDE DEF F
  <2>4. w \in Nat /\ w \in 1 .. w /\ \A q : q \in 1 .. w <=> (q \in 1 .. m \/ q = w)
    BY <1>2
  <2>5. \A q \in 1 .. m : q # w
    BY <1>2
  <2> HIDE DEF w
  <2>6. \A q \in 1 .. m : g[q] = f[q] /\ f[q] \in F /\ f[q] \in 1 .. n
    BY <2>2, <2>3, <2>4, <2>5
  <2>7. g[w] = n + 1 /\ g \in [1 .. w -> F \cup {n + 1}]
    BY <2>6, <2>4
  <2> HIDE DEF g
  <2>8. \A q, l \in 1 .. w : q < l => g[q] < g[l]
    <3> SUFFICES ASSUME NEW q \in 1 .. w, NEW l \in 1 .. w, q < l
                 PROVE  g[q] < g[l]
      OBVIOUS
    <3>1. w \in Nat
      BY <2>4
    <3>2. q # w
      BY <3>1
    <3>3. q \in 1 .. m
      BY <2>4, <3>2, Zenon
    <3>4. CASE l \in 1 .. m
      BY <2>3, <2>6, <3>3, <3>4
    <3>5. CASE l = w
      BY <2>6, <2>7, <3>3, <3>5
    <3> QED BY <2>4, <3>4, <3>5
  <2>9. \A j \in F \cup {n + 1} : \E q \in 1 .. w : g[q] = j
    BY <2>3, <2>6, <2>7, <2>4
  <2>10. Lists(g, w, Fresh(a, b, n + 1))
    BY <2>2, <2>7, <2>8, <2>9 DEF Lists
  <2>11. \A q \in 1 .. w : r[k + q].key = b[g[q]].key
    <3> TAKE q \in 1 .. w
    <3>1. CASE q \in 1 .. m
      <4>1. k + q \in 1 .. k + m
        BY <1>1, <1>2, <3>1
      <4> QED BY <1>4, <2>1, <2>6, <3>1, <4>1
    <3>2. CASE q = w
      <4>1. k + q = k + m + 1
        BY <1>1, <1>2, <3>2 DEF w
      <4> QED BY <1>3, <1>4, <2>7, <3>2, <4>1
    <3> QED BY <2>4, <3>1, <3>2
  <2>12. Len(r) - Len(a) = w
    BY <1>1, <1>2, <1>4 DEF w
  <2> QED BY <1>1, <2>10, <2>11, <2>12 DEF Joined
<1>10. \A j \in 1 .. Len(r) : Valued(a, b, r, n + 1, j)
  <2>1. ASSUME NEW j \in 1 .. k + m PROVE Valued(a, b, r, n + 1, j)
    <3>1. Valued(a, b, s, n, j) /\ r[j] = s[j]
      BY <1>2, <1>4, <2>1 DEF Merge
    <3>2. Class[s[j].key] # Class[b[n + 1].key]
      BY <1>3, <1>5, <2>1 DEF Classes
    <3>3. CASE \E l \in 1 .. n : /\ Class[b[l].key] = Class[s[j].key] /\ s[j].val = b[l].val
                                 /\ \A q \in l + 1 .. n : Class[b[q].key] # Class[s[j].key]
      <4>1. PICK l \in 1 .. n : /\ Class[b[l].key] = Class[s[j].key] /\ s[j].val = b[l].val
                                /\ \A q \in l + 1 .. n : Class[b[q].key] # Class[s[j].key]
        BY <3>3
      <4>2. l \in 1 .. n + 1 /\ \A q \in l + 1 .. n + 1 : q = n + 1 \/ q \in l + 1 .. n
        OBVIOUS
      <4> QED BY <3>1, <3>2, <4>1, <4>2 DEF Valued
    <3>4. CASE j \in 1 .. Len(a) /\ s[j].val = a[j].val /\ Class[s[j].key] \notin Upto(b, n)
      BY <3>1, <3>2, <3>4, UptoNext DEF Valued
    <3> QED BY <3>1, <3>3, <3>4 DEF Valued
  <2>2. Valued(a, b, r, n + 1, k + m + 1)
    <3>1. n + 1 \in 1 .. n + 1 /\ \A q : q \notin n + 1 + 1 .. n + 1
      OBVIOUS
    <3> QED BY <1>3, <1>4, <3>1 DEF Valued
  <2>3. \A j \in 1 .. Len(r) : j \in 1 .. k + m \/ j = k + m + 1
    BY <1>1, <1>2, <1>4
  <2> QED BY <2>1, <2>2, <2>3
<1> QED BY <1>3, <1>7, <1>8, <1>9, <1>10 DEF Merge, r

(* The next item is of a class that is there: that item gets its value. *)
LEMMA MergeOld ==
  ASSUME NEW a \in Seq(Items), NEW b \in Seq(Items), NEW s \in Seq(Items), NEW n \in Nat,
         Merge(a, b, s, n), n + 1 \in 1 .. Len(b), Class[b[n + 1].key] \in Classes(s),
         NEW r \in Seq(Items), Len(r) = Len(s), Classes(r) = Classes(s),
         \A j \in DOMAIN s :
           /\ r[j].key = s[j].key
           /\ r[j].val = IF ClassOf(s[j]) = ClassOf(b[n + 1]) THEN b[n + 1].val ELSE s[j].val
  PROVE  Merge(a, b, r, n + 1)
<1>1. PICK k \in Nat : k = Len(a)
  BY SeqTyped
<1>2. PICK m \in Nat : Len(s) = k + m /\ Len(s) - k = m
  <2>1. PICK h \in Nat : h = Len(s) /\ k <= h
    BY <1>1, SeqTyped DEF Merge, Kept
  <2>2. h - k \in Nat /\ h = k + (h - k)
    BY <2>1
  <2> QED BY <2>1, <2>2
<1>3. PICK e \in Items : e = b[n + 1]
  BY SeqTyped
<1>4. DOMAIN s = 1 .. k + m /\ Len(r) = k + m
  BY <1>2, SeqTyped
<1>5. \A j \in 1 .. k + m :
         /\ r[j].key = s[j].key
         /\ r[j].val = IF ClassOf(s[j]) = ClassOf(e) THEN e.val ELSE s[j].val
  BY <1>3, <1>4
<1>6. ClassOf(e) \in Classes(a) \cup Upto(b, n)
  BY <1>3 DEF Merge, ClassOf
<1>7. Classes(r) = Classes(a) \cup Upto(b, n + 1)
  BY <1>3, <1>6, UptoNext DEF Merge, ClassOf
<1>8. Kept(a, r)
  <2>1. \A j \in 1 .. k : j \in 1 .. k + m
    BY <1>1, <1>2
  <2> QED BY <1>1, <1>2, <1>4, <1>5, <2>1 DEF Merge, Kept
<1>9. Joined(a, b, r, n + 1)
  <2>1. PICK f : /\ Lists(f, m, Fresh(a, b, n))
                 /\ \A q \in 1 .. m : s[k + q].key = b[f[q]].key
    BY <1>1, <1>2 DEF Merge, Joined
  <2>2. Fresh(a, b, n + 1) = Fresh(a, b, n)
    <3>1. \A j : j \in 1 .. n + 1 <=> j \in 1 .. n \/ j = n + 1
      OBVIOUS
    <3>2. 1 .. n + 1 - 1 = 1 .. n
      OBVIOUS
    <3>3. n + 1 \notin Fresh(a, b, n + 1)
      BY <1>3, <1>6, <3>2 DEF Fresh, Upto, ClassOf
    <3> QED BY <3>1, <3>3 DEF Fresh
  <2>3. \A q \in 1 .. m : r[k + q].key = b[f[q]].key
    <3> TAKE q \in 1 .. m
    <3>1. k + q \in 1 .. k + m
      BY <1>1, <1>2, SMTT(60)
    <3> QED BY <1>5, <2>1, <3>1
  <2> QED BY <1>1, <1>2, <1>4, <2>1, <2>2, <2>3 DEF Joined
<1>10. ASSUME NEW j \in 1 .. k + m PROVE Valued(a, b, r, n + 1, j)
  <2>1. Valued(a, b, s, n, j) /\ r[j].key = s[j].key
    BY <1>2, <1>5, <1>10 DEF Merge
  <2>2. CASE ClassOf(s[j]) = ClassOf(e)
    <3>1. n + 1 \in 1 .. n + 1 /\ \A q : q \notin n + 1 + 1 .. n + 1
      OBVIOUS
    <3> QED BY <1>3, <1>5, <2>1, <2>2, <3>1 DEF Valued, ClassOf
  <2>3. CASE ClassOf(s[j]) # ClassOf(e)
    <3>1. r[j].val = s[j].val /\ Class[s[j].key] # Class[b[n + 1].key]
      BY <1>3, <1>5, <2>3 DEF ClassOf
    <3>2. CASE \E l \in 1 .. n : /\ Class[b[l].key] = Class[s[j].key] /\ s[j].val = b[l].val
                                 /\ \A q \in l + 1 .. n : Class[b[q].key] # Class[s[j].key]
      <4>1. PICK l \in 1 .. n : /\ Class[b[l].key] = Class[s[j].key] /\ s[j].val = b[l].val
                                /\ \A q \in l + 1 .. n : Class[b[q].key] # Class[s[j].key]
        BY <3>2
      <4>2. l \in 1 .. n + 1 /\ \A q \in l + 1 .. n + 1 : q = n + 1 \/ q \in l + 1 .. n
        OBVIOUS
      <4> QED BY <2>1, <3>1, <4>1, <4>2 DEF Valued
    <3>3. CASE j \in 1 .. Len(a) /\ s[j].val = a[j].val /\ Class[s[j].key] \notin Upto(b, n)
      BY <2>1, <3>1, <3>3, UptoNext DEF Valued
    <3> QED BY <2>1, <3>2, <3>3 DEF Valued
  <2> QED BY <2>2, <2>3
<1> QED BY <1>4, <1>7, <1>8, <1>9, <1>10 DEF Merge

(* An insertion that succeeds merges one more item. *)
LEMMA MergeStep ==
  ASSUME NEW a \in Seq(Items), NEW b \in Seq(Items), NEW t, Sound(t), NEW n \in Nat,
         Merge(a, b, t.items, n), n + 1 \in 1 .. Len(b), InsertErr(t, b[n + 1].key) = "none"
  PROVE  Merge(a, b, Inserted(t, b[n + 1].key, b[n + 1].val).items, n + 1)
<1>1. PICK e \in Items : e = b[n + 1]
  BY SeqTyped
<1>2. PICK s \in Seq(Items) : s = t.items /\ t \in Table
  BY DEF Sound, Table
<1> DEFINE r == Inserted(t, e.key, e.val).items
<1>3. e.key \notin Unhashable /\ (Has(t, e.key) => e.key \notin Deep)
  BY <1>1, InsertSucceeds
<1>4. Has(t, e.key) <=> Class[b[n + 1].key] \in Classes(s)
  BY <1>1, <1>2, Found DEF Items
<1>5. CASE ~Has(t, e.key)
  <2>1. r = Append(s, b[n + 1])
    BY <1>1, <1>2, <1>3, <1>5, InsertedNew
  <2> HIDE DEF r
  <2>2. Merge(a, b, r, n + 1)
    BY <1>2, <1>4, <1>5, <2>1, MergeNew
  <2> QED BY <1>1, <2>2 DEF r
<1>6. CASE Has(t, e.key)
  <2>1. /\ Sound(Inserted(t, e.key, e.val)) /\ Len(r) = Len(s) /\ Classes(r) = Classes(s)
        /\ \A j \in DOMAIN s :
             /\ r[j].key = s[j].key
             /\ r[j].val = IF ClassOf(s[j]) = ClassOf(e) THEN e.val ELSE s[j].val
    BY <1>2, <1>3, <1>6, InsertedOld
  <2>2. r \in Seq(Items)
    BY <2>1 DEF Sound, Table
  <2> HIDE DEF r
  <2>3. Merge(a, b, r, n + 1)
    BY <1>1, <1>2, <1>4, <1>6, <2>1, <2>2, MergeOld
  <2> QED BY <1>1, <2>3 DEF r
<1> QED BY <1>5, <1>6

(* In a sequence that tells its keys apart, Where is the one position. *)
LEMMA WhereIs ==
  ASSUME NEW s, Proper(s), NEW j \in DOMAIN s
  PROVE  Where(s, Class[s[j].key]) = j
BY DEF Proper, Where

LEMMA FirstIs ==
  ASSUME NEW s \in Seq(Items), NEW j \in 1 .. Len(s),
         \A l \in 1 .. j - 1 : Class[s[l].key] # Class[s[j].key]
  PROVE  FirstIn(s, Class[s[j].key]) = j
<1> DEFINE c == Class[s[j].key]
           First(k) == Class[s[k].key] = c /\ \A l \in 1 .. k - 1 : Class[s[l].key] # c
<1>1. PICK n \in Nat : n = Len(s) /\ DOMAIN s = 1 .. n
  BY SeqTyped
<1>2. First(j)
  OBVIOUS
<1>3. ASSUME NEW k \in 1 .. n, First(k) PROVE k = j
  <2>1. ~(k < j)
    BY <1>1, <1>3
  <2>2. ~(j < k)
    BY <1>1, <1>3
  <2> QED BY <1>1, <2>1, <2>2
<1> HIDE DEF c
<1>4. FirstIn(s, c) = CHOOSE k \in 1 .. n : First(k)
  BY <1>1 DEF FirstIn
<1> HIDE DEF First
<1> QED BY <1>1, <1>2, <1>3, <1>4 DEF c

LEMMA LastIs ==
  ASSUME NEW s \in Seq(Items), NEW j \in 1 .. Len(s),
         \A l \in j + 1 .. Len(s) : Class[s[l].key] # Class[s[j].key]
  PROVE  LastIn(s, Class[s[j].key]) = j
<1> DEFINE c == Class[s[j].key]
           Last(k) == Class[s[k].key] = c /\ \A l \in k + 1 .. Len(s) : Class[s[l].key] # c
<1>1. PICK n \in Nat : n = Len(s) /\ DOMAIN s = 1 .. n
  BY SeqTyped
<1>2. Last(j)
  OBVIOUS
<1>3. ASSUME NEW k \in 1 .. n, Last(k) PROVE k = j
  <2>1. ~(k < j)
    BY <1>1, <1>3
  <2>2. ~(j < k)
    BY <1>1, <1>3
  <2> QED BY <1>1, <2>1, <2>2
<1> HIDE DEF c
<1>4. LastIn(s, c) = CHOOSE k \in 1 .. n : Last(k)
  BY <1>1 DEF LastIn
<1> HIDE DEF Last
<1> QED BY <1>1, <1>2, <1>3, <1>4 DEF c

(* s is what UnionExact says of the union of a and b. *)
UnionOf(a, b, s) ==
  LET added == Classes(b) \ Classes(a)
  IN  /\ Len(s) = Len(a) + Cardinality(added)
      /\ \A j \in DOMAIN a : s[j].key = a[j].key
      /\ \A c \in added : s[Where(s, c)].key = b[FirstIn(b, c)].key
      /\ \A c, d \in added : Where(s, c) < Where(s, d) <=> FirstIn(b, c) < FirstIn(b, d)
      /\ \A c \in Classes(s) :
           s[Where(s, c)].val = IF c \in Classes(b) THEN b[LastIn(b, c)].val ELSE a[Where(a, c)].val

LEMMA MergeEnd ==
  ASSUME NEW a \in Seq(Items), Proper(a), NEW b \in Seq(Items), NEW s \in Seq(Items), Proper(s),
         Merge(a, b, s, Len(b))
  PROVE  UnionOf(a, b, s)
<1> DEFINE added == Classes(b) \ Classes(a)
<1>1. PICK k \in Nat : k = Len(a) /\ DOMAIN a = 1 .. k
  BY SeqTyped
<1>2. PICK m \in Nat : Len(s) = k + m /\ Len(s) - k = m
  <2>1. PICK h \in Nat : h = Len(s) /\ k <= h
    BY <1>1, SeqTyped DEF Merge, Kept
  <2>2. h - k \in Nat /\ h = k + (h - k)
    BY <2>1
  <2> QED BY <2>1, <2>2
<1>3. PICK n \in Nat : n = Len(b) /\ DOMAIN b = 1 .. n
  BY SeqTyped
<1>4. DOMAIN s = 1 .. k + m
  BY <1>2, SeqTyped
<1>5. Classes(s) = Classes(a) \cup Classes(b) /\ Upto(b, n) = Classes(b)
  BY <1>3, UptoAll DEF Merge
<1>6. \A j \in DOMAIN a : s[j].key = a[j].key
  BY <1>1 DEF Merge, Kept
<1>7. PICK f : /\ Lists(f, m, Fresh(a, b, n))
               /\ \A q \in 1 .. m : s[k + q].key = b[f[q]].key
  BY <1>1, <1>2, <1>3 DEF Merge, Joined
<1> DEFINE C(q) == Class[b[f[q]].key]
<1>8. ASSUME NEW q \in 1 .. m
      PROVE  /\ f[q] \in 1 .. n /\ C(q) \in added
             /\ Where(s, C(q)) = k + q /\ FirstIn(b, C(q)) = f[q]
             /\ s[k + q].key = b[f[q]].key
             /\ \A l \in 1 .. f[q] - 1 : Class[b[l].key] # C(q)
  <2>1. f[q] \in Fresh(a, b, n)
    BY <1>7, <1>8 DEF Lists
  <2>2. f[q] \in 1 .. n /\ C(q) \notin Classes(a) /\ \A l \in 1 .. f[q] - 1 : Class[b[l].key] # C(q)
    BY <2>1 DEF Fresh
  <2>3. C(q) \in Classes(b)
    BY <1>3, <2>2 DEF Classes
  <2>4. k + q \in DOMAIN s /\ s[k + q].key = b[f[q]].key
    BY <1>4, <1>7, <1>8
  <2>5. Where(s, C(q)) = k + q
    BY <2>4, WhereIs
  <2>6. FirstIn(b, C(q)) = f[q]
    BY <1>3, <2>2, FirstIs
  <2> QED BY <2>2, <2>3, <2>4, <2>5, <2>6
<1>9. ASSUME NEW c \in added PROVE \E q \in 1 .. m : C(q) = c
  <2>1. PICK j \in 1 .. k + m : Class[s[j].key] = c
    <3>1. c \in Classes(s)
      BY <1>5
    <3>2. PICK j \in DOMAIN s : Class[s[j].key] = c
      BY <3>1 DEF Classes
    <3> QED BY <1>4, <3>2
  <2>2. j \notin 1 .. k
    BY <1>1, <1>6, <2>1 DEF Classes
  <2>3. j - k \in 1 .. m /\ k + (j - k) = j
    BY <2>1, <2>2
  <2>4. C(j - k) = c
    BY <1>7, <2>1, <2>3
  <2> QED BY <2>3, <2>4
<1>10. \A q, r \in 1 .. m : f[q] < f[r] <=> q < r
  <2>1. \A q, r \in 1 .. m : q < r => f[q] < f[r]
    BY <1>7 DEF Lists
  <2>2. \A q \in 1 .. m : f[q] \in 1 .. n
    BY <1>8
  <2> SUFFICES ASSUME NEW q \in 1 .. m, NEW r \in 1 .. m, f[q] < f[r]
               PROVE  q < r
    BY <2>1
  <2>3. q # r /\ ~(r < q)
    BY <2>1, <2>2
  <2> QED BY <1>2, <2>3
<1>11. Len(s) = Len(a) + Cardinality(added)
  <2> DEFINE g == [q \in 1 .. m |-> C(q)]
  <2>1. \A q, r \in 1 .. m : q < r => C(q) # C(r)
    <3> SUFFICES ASSUME NEW q \in 1 .. m, NEW r \in 1 .. m, q < r
                 PROVE  C(q) # C(r)
      OBVIOUS
    <3>1. f[q] \in 1 .. n /\ f[r] \in 1 .. n /\ f[q] < f[r]
      BY <1>8, <1>10
    <3>2. f[q] \in 1 .. f[r] - 1
      BY <3>1
    <3> QED BY <1>8, <3>2
  <2>2. \A q, r \in 1 .. m : q = r \/ q < r \/ r < q
    BY <1>2
  <2> HIDE DEF added, C
  <2>3. g \in [1 .. m -> added] /\ \A q \in 1 .. m : g[q] = C(q)
    BY <1>8
  <2> HIDE DEF g
  <2>4. \A q, r \in 1 .. m : g[q] = g[r] => q = r
    BY <2>1, <2>2, <2>3
  <2>5. \A c \in added : \E q \in 1 .. m : g[q] = c
    BY <1>9, <2>3
  <2>6. ExistsBijection(1 .. m, added)
    BY <2>3, <2>4, <2>5 DEF ExistsBijection, Bijection, Injection, Surjection, IsInjective
  <2>7. Cardinality(added) = m
    BY <1>2, <2>6, FS_CountingElements
  <2> QED BY <1>1, <1>2, <2>7
<1>12. \A c \in added : s[Where(s, c)].key = b[FirstIn(b, c)].key
  <2> SUFFICES ASSUME NEW c \in added PROVE s[Where(s, c)].key = b[FirstIn(b, c)].key
    OBVIOUS
  <2>1. PICK q \in 1 .. m : C(q) = c
    BY <1>9
  <2> QED BY <1>8, <2>1
<1>13. \A c, d \in added : Where(s, c) < Where(s, d) <=> FirstIn(b, c) < FirstIn(b, d)
  <2> SUFFICES ASSUME NEW c \in added, NEW d \in added
               PROVE  Where(s, c) < Where(s, d) <=> FirstIn(b, c) < FirstIn(b, d)
    OBVIOUS
  <2>1. PICK q \in 1 .. m : C(q) = c
    BY <1>9
  <2>2. PICK r \in 1 .. m : C(r) = d
    BY <1>9
  <2>3. Where(s, c) = k + q /\ Where(s, d) = k + r /\ FirstIn(b, c) = f[q] /\ FirstIn(b, d) = f[r]
    BY <1>8, <2>1, <2>2
  <2>4. k + q < k + r <=> q < r
    BY <1>1, <1>2
  <2> QED BY <1>10, <2>3, <2>4
<1>14. \A c \in Classes(s) :
         s[Where(s, c)].val = IF c \in Classes(b) THEN b[LastIn(b, c)].val ELSE a[Where(a, c)].val
  <2> SUFFICES ASSUME NEW c \in Classes(s)
               PROVE  s[Where(s, c)].val = IF c \in Classes(b) THEN b[LastIn(b, c)].val
                                           ELSE a[Where(a, c)].val
    OBVIOUS
  <2>1. PICK j \in DOMAIN s : Class[s[j].key] = c
    BY DEF Classes
  <2>2. Where(s, c) = j
    BY <2>1, WhereIs
  <2>3. Valued(a, b, s, n, j)
    BY <1>2, <1>3, <1>4, <2>1 DEF Merge
  <2>4. CASE \E l \in 1 .. n : /\ Class[b[l].key] = Class[s[j].key] /\ s[j].val = b[l].val
                               /\ \A q \in l + 1 .. n : Class[b[q].key] # Class[s[j].key]
    <3>1. PICK l \in 1 .. n : /\ Class[b[l].key] = c /\ s[j].val = b[l].val
                              /\ \A q \in l + 1 .. n : Class[b[q].key] # c
      BY <2>1, <2>4
    <3>2. LastIn(b, c) = l
      BY <1>3, <3>1, LastIs
    <3>3. c \in Classes(b)
      BY <1>3, <3>1 DEF Classes
    <3> QED BY <2>2, <3>1, <3>2, <3>3
  <2>5. CASE j \in 1 .. Len(a) /\ s[j].val = a[j].val /\ Class[s[j].key] \notin Upto(b, n)
    <3>1. j \in DOMAIN a /\ Class[a[j].key] = c
      BY <1>1, <1>6, <2>1, <2>5
    <3>2. Where(a, c) = j
      BY <3>1, WhereIs
    <3> QED BY <1>5, <2>1, <2>2, <2>5, <3>2
  <2> QED BY <2>3, <2>4, <2>5 DEF Valued
<1> QED BY <1>6, <1>11, <1>12, <1>13, <1>14 DEF UnionOf
-----------------------------------------------------------------------------
(* Whether the first n items of b have an odd number of one class.         *)
Toggles(b, n, c) == {j \in 1 .. n : Class[b[j].key] = c}
Odd(b, n, c) == Cardinality(Toggles(b, n, c)) % 2 = 1

(* s is what toggling each of the first n items of b makes of a. *)
Toggled(a, b, s, n) ==
  \A c : c \in Classes(s) <=> (c \in Classes(a) <=> ~Odd(b, n, c))

LEMMA TogglesFinite ==
  ASSUME NEW b, NEW n \in Nat, NEW c
  PROVE  IsFiniteSet(Toggles(b, n, c)) /\ Cardinality(Toggles(b, n, c)) \in Nat
<1>1. IsFiniteSet(1 .. n)
  <2>1. 1 \in Int /\ n \in Int
    OBVIOUS
  <2> QED BY <2>1, FS_Interval
<1>2. Toggles(b, n, c) \in SUBSET (1 .. n)
  BY DEF Toggles
<1>3. IsFiniteSet(Toggles(b, n, c))
  BY <1>1, <1>2, FS_Subset
<1> QED BY <1>3, FS_CardinalityType

LEMMA OddZero == ASSUME NEW b, NEW c PROVE ~Odd(b, 0, c)
<1>1. Toggles(b, 0, c) = {}
  BY DEF Toggles
<1>2. Cardinality({}) = 0
  BY FS_EmptySet
<1> QED BY <1>1, <1>2 DEF Odd

LEMMA OddNext ==
  ASSUME NEW b, NEW n \in Nat, NEW c
  PROVE  Odd(b, n + 1, c) <=> (Odd(b, n, c) <=> Class[b[n + 1].key] # c)
<1> DEFINE T == Toggles(b, n, c)
<1>1. PICK k \in Nat : IsFiniteSet(T) /\ k = Cardinality(T)
  BY TogglesFinite
<1>2. \A j : j \in 1 .. n + 1 <=> (j \in 1 .. n \/ j = n + 1)
  OBVIOUS
<1>3. n + 1 \notin T
  BY DEF Toggles
<1>4. CASE Class[b[n + 1].key] = c
  <2>1. Toggles(b, n + 1, c) = T \cup {n + 1}
    BY <1>2, <1>4 DEF Toggles
  <2> HIDE DEF T
  <2>2. Cardinality(T \cup {n + 1}) = k + 1
    BY <1>1, <1>3, FS_AddElement
  <2>3. (k + 1) % 2 = 1 <=> k % 2 # 1
    OBVIOUS
  <2> QED BY <1>1, <1>4, <2>1, <2>2, <2>3 DEF Odd, T
<1>5. CASE Class[b[n + 1].key] # c
  <2>1. Toggles(b, n + 1, c) = T
    BY <1>2, <1>5 DEF Toggles
  <2> QED BY <1>5, <2>1 DEF Odd
<1> QED BY <1>4, <1>5

LEMMA OddAll ==
  ASSUME NEW b \in Seq(Items), NEW c
  PROVE  /\ Odd(b, Len(b), c) <=> Cardinality({j \in DOMAIN b : Class[b[j].key] = c}) % 2 = 1
         /\ Odd(b, Len(b), c) => c \in Classes(b)
<1>1. DOMAIN b = 1 .. Len(b)
  BY SeqTyped
<1>2. c \notin Classes(b) => Toggles(b, Len(b), c) = {}
  BY <1>1 DEF Toggles, Classes
<1>3. Cardinality({}) = 0
  BY FS_EmptySet
<1>4. Odd(b, Len(b), c) => c \in Classes(b)
  <2> SUFFICES ASSUME c \notin Classes(b) PROVE ~Odd(b, Len(b), c)
    OBVIOUS
  <2>1. Cardinality(Toggles(b, Len(b), c)) = 0
    BY <1>2, <1>3
  <2> QED BY <2>1 DEF Odd
<1> QED BY <1>1, <1>4 DEF Odd, Toggles
-----------------------------------------------------------------------------
Unions == {"union", "pipe_assign", "update", "set_union", "set_update"}

(* Every variable has its type; the left operand, and the right one of a   *)
(* dict union, is a table's contents.                                      *)
Typed ==
  /\ op \in Ops /\ (op \in {"union", "pipe_assign"} => Proper(y))
  /\ x \in Seq(Items) /\ Proper(x) /\ y \in Seq(Items) /\ todo \in Seq(Items)
  /\ Sound(z)
  /\ i \in 1 .. Len(y) + 1 /\ seen \subseteq DOMAIN x
  /\ pc \in {"copy", "loop", "done"} /\ err \in {"none", "unhashable", "depth"}
  /\ lost \in BOOLEAN

(* s is the beginning of a, and r is the rest. *)
Parts(s, r, a) ==
  /\ Len(a) = Len(s) + Len(r)
  /\ \A j \in 1 .. Len(s) : s[j] = a[j]
  /\ \A j \in 1 .. Len(r) : r[j] = a[Len(s) + j]

(* While the left operand is copied, nothing fails. *)
Copied ==
  pc = "copy" =>
    /\ i = 1 /\ seen = {} /\ err = "none" /\ ~lost
    /\ IF op = "intersection" THEN z.items = <<>> /\ todo = <<>>
       ELSE Parts(z.items, todo, x)

Met(a, C) == {j \in DOMAIN a : Class[a[j].key] \in C}

(* The table holds the operation's result for the items of y before i. *)
Merged == op \in Unions => Merge(x, y, z.items, i - 1)
Subtracted == op = "difference" => Classes(z.items) = Classes(x) \ Upto(y, i - 1)
Common == op = "intersection" => Classes(z.items) = Classes(x) \cap Upto(y, i - 1)
Flipped ==
  op = "symmetric_difference" =>
    /\ x # <<>> => z.alloc
    /\ ~lost => Toggled(x, y, z.items, i - 1)
Tested ==
  op \in TestOps =>
    /\ z.items = x
    /\ op = "issuperset" => Upto(y, i - 1) \subseteq Classes(x)
    /\ op = "issubset" => seen = Met(x, Upto(y, i - 1))
Reached == Merged /\ Subtracted /\ Common /\ Flipped /\ Tested

(* The loop ends without an error at the end of y only, but for a failure  *)
(* that is discarded and the tests that are decided.                       *)
Ended ==
  Answered =>
    /\ op \notin TestOps /\ ~lost => i = Len(y) + 1
    /\ op = "issuperset" => i = Len(y) + 1 \/ Class[y[i].key] \notin Classes(x)
    /\ op = "issubset" => i = Len(y) + 1 \/ Cardinality(seen) = Len(x)

IInv == Typed /\ Copied /\ (pc # "copy" => Reached) /\ Ended /\ LostOnlyIf

(* A sequence of at most n elements, as the operands are enumerated. *)
LEMMA UpToSeq == ASSUME NEW S, NEW n \in Nat, NEW s \in SeqsUpTo(S, n) PROVE s \in Seq(S)
<1>1. PICK m \in 0 .. n : s \in [1 .. m -> S]
  BY DEF SeqsUpTo
<1>2. m \in Nat
  BY <1>1
<1> QED BY <1>1, <1>2, SeqDef

LEMMA SeqWider == ASSUME NEW S, NEW T, S \subseteq T, NEW s \in Seq(S) PROVE s \in Seq(T)
<1>1. PICK m \in Nat : s \in [1 .. m -> S]
  BY SeqDef
<1>2. s \in [1 .. m -> T]
  BY <1>1
<1> QED BY <1>1, <1>2, SeqDef

LEMMA SetItemsSeq == ASSUME NEW s \in Seq(Key) PROVE SetItems(s) \in Seq(Items)
<1>1. PICK m \in Nat : DOMAIN s = 1 .. m /\ \A j \in 1 .. m : s[j] \in Key
  BY SeqTyped
<1>2. SetItems(s) \in [1 .. m -> Items]
  BY <1>1 DEF SetItems, Item, Items
<1> QED BY <1>1, <1>2, SeqDef

LEMMA StartOperands ==
  ASSUME Init
  PROVE  /\ op \in Ops /\ (op \in {"union", "pipe_assign"} => Proper(y))
         /\ x \in Seq(Items) /\ Proper(x) /\ y \in Seq(Items)
<1> DEFINE D == {Item(k, v) : k \in Key, v \in Value}
<1>1. MaxX \in Nat /\ MaxY \in Nat
  BY BulkAssumption
<1>2. D \subseteq Items
  BY DEF Item, Items
<1>3. op \in Ops
  BY DEF Init
<1> HIDE DEF D
<1>4. CASE /\ op \in DictOps
           /\ x \in {s \in SeqsUpTo(D, MaxX) : Proper(s)}
           /\ y \in {s \in SeqsUpTo(D, MaxY) : op = "update" \/ Proper(s)}
  <2>1. x \in Seq(D) /\ y \in Seq(D)
    BY <1>1, <1>4, UpToSeq
  <2>2. x \in Seq(Items) /\ y \in Seq(Items)
    BY <1>2, <2>1, SeqWider
  <2> QED BY <1>3, <1>4, <2>2
<1>5. CASE /\ op \in SetOps \cup TestOps
           /\ x \in {s \in {SetItems(t) : t \in SeqsUpTo(Key, MaxX)} : Proper(s)}
           /\ y \in {SetItems(t) : t \in SeqsUpTo(Key, MaxY)}
  <2>1. PICK t \in SeqsUpTo(Key, MaxX) : x = SetItems(t)
    BY <1>5
  <2>2. PICK u \in SeqsUpTo(Key, MaxY) : y = SetItems(u)
    BY <1>5
  <2>3. x \in Seq(Items) /\ y \in Seq(Items)
    BY <1>1, <2>1, <2>2, UpToSeq, SetItemsSeq
  <2> QED BY <1>3, <1>5, <2>3 DEF SetOps, TestOps
<1> QED BY <1>4, <1>5 DEF Init, D

LEMMA StartInv == ASSUME Init PROVE IInv
<1>1. /\ op \in Ops /\ (op \in {"union", "pipe_assign"} => Proper(y))
      /\ x \in Seq(Items) /\ Proper(x) /\ y \in Seq(Items)
  BY StartOperands
<1>2. i = 1 /\ seen = {} /\ pc = "copy" /\ err = "none" /\ lost = FALSE
  BY DEF Init
<1>3. <<>> \in Seq(Items) /\ Proper(<<>>) /\ Len(<<>>) = 0
  BY EmptySeq DEF Proper
<1>4. todo = x \/ todo = <<>>
  BY DEF Init
<1>5. Typed
  <2>1. Sound(z)
    <3>1. CASE \E a \in BOOLEAN : (x # <<>> => a) /\ z = [alloc |-> a, items |-> x]
      <4>1. PICK a \in BOOLEAN : (x # <<>> => a) /\ z = [alloc |-> a, items |-> x]
        BY <3>1
      <4>2. z \in Table /\ z.items = x /\ z.alloc = a
        BY <1>1, <4>1 DEF Table
      <4> QED BY <1>1, <4>1, <4>2, Zenon DEF Sound
    <3>2. CASE z = [New EXCEPT !.alloc = (op = "union")]
      <4>1. z.items = <<>>
        BY <3>2 DEF New
      <4>2. z \in Table
        <5>1. CASE op = "union"
          BY <1>3, <3>2, <5>1 DEF New, Table
        <5>2. CASE op # "union"
          BY <1>3, <3>2, <5>2 DEF New, Table
        <5> QED BY <5>1, <5>2
      <4> QED BY <1>3, <4>1, <4>2 DEF Sound
    <3> QED BY <3>1, <3>2 DEF Init
  <2>2. 1 \in 1 .. Len(y) + 1
    <3>1. PICK n \in Nat : n = Len(y)
      BY <1>1, SeqTyped
    <3> QED BY <3>1
  <2> QED BY <1>1, <1>2, <1>3, <1>4, <2>1, <2>2 DEF Typed
<1>6. Copied
  <2>1. PICK n \in Nat : n = Len(x)
    BY <1>1, SeqTyped
  <2>2. Parts(x, <<>>, x) /\ Parts(<<>>, x, x)
    BY <1>3, <2>1 DEF Parts
  <2>3. op \in DictOps \cup SetOps \cup TestOps
    BY <1>1, BulkAssumption
  <2>4. IF op = "intersection" THEN z.items = <<>> /\ todo = <<>> ELSE Parts(z.items, todo, x)
    BY <2>2, <2>3 DEF Init, New, DictOps, SetOps, TestOps
  <2> QED BY <1>2, <2>4 DEF Copied
<1> QED BY <1>2, <1>5, <1>6 DEF IInv, Ended, LostOnlyIf, Answered

LEMMA Prefix ==
  ASSUME Typed, i <= Len(y)
  PROVE  \E n \in Nat, e \in Items :
           /\ i = n + 1 /\ i - 1 = n /\ i + 1 - 1 = n + 1
           /\ n + 1 \in 1 .. Len(y) /\ e = y[i] /\ e = y[n + 1] /\ i + 1 \in 1 .. Len(y) + 1
<1>1. PICK h \in Nat : h = Len(y) /\ \A j \in 1 .. h : y[j] \in Items
  BY SeqTyped DEF Typed
<1>2. i \in 1 .. h + 1 /\ i <= h
  BY <1>1 DEF Typed
<1>3. PICK n \in Nat : n = i - 1
  BY <1>2
<1>4. i = n + 1 /\ i + 1 - 1 = n + 1 /\ n + 1 \in 1 .. h /\ i + 1 \in 1 .. h + 1
  BY <1>2, <1>3
<1>5. y[i] \in Items
  BY <1>1, <1>4
<1> QED BY <1>1, <1>3, <1>4, <1>5

LEMMA StepCopy == ASSUME IInv, Copy PROVE IInv'
<1> DEFINE s == z.items
           e == Head(todo)
<1>1. /\ pc = "copy" /\ todo # <<>> /\ op # "intersection"
      /\ s \in Seq(Items) /\ todo \in Seq(Items) /\ x \in Seq(Items) /\ Sound(z)
      /\ Parts(s, todo, x)
  BY DEF IInv, Copy, Copied, Typed, Sound, Table
<1>2. PICK k \in Nat : k = Len(s)
  BY <1>1, SeqTyped
<1>3. PICK m \in Nat : m = Len(todo) /\ 1 \in 1 .. m /\ Len(x) = k + m
  <2>1. PICK m \in Nat : m = Len(todo) /\ DOMAIN todo = 1 .. m
    BY <1>1, SeqTyped
  <2>2. m # 0
    BY <1>1, <2>1
  <2> QED BY <1>1, <1>2, <2>1, <2>2 DEF Parts
<1>4. e \in Items /\ e = x[k + 1] /\ k + 1 \in 1 .. k + m /\ \A j \in 1 .. k : j \in 1 .. k + m
  BY <1>1, <1>2, <1>3 DEF Parts
<1> HIDE DEF e
<1>5. DOMAIN x = 1 .. k + m /\ DOMAIN s = 1 .. k
  BY <1>1, <1>2, <1>3, SeqTyped
<1>6. e.key \notin Unhashable /\ ~Has(z, e.key)
  <2>1. Proper(x) /\ \A j \in 1 .. k : s[j] = x[j] /\ j # k + 1
    BY <1>1, <1>2 DEF IInv, Typed, Parts
  <2>2. \A j \in 1 .. k : Class[s[j].key] # Class[e.key]
    BY <1>4, <1>5, <2>1 DEF Proper
  <2>3. Class[e.key] \notin Classes(s)
    BY <1>5, <2>2 DEF Classes
  <2>4. e.key \notin Unhashable
    BY <1>4, <1>5, <2>1 DEF Proper
  <2> QED BY <1>1, <1>4, <2>3, <2>4, Found DEF Items, Sound
<1>7. /\ InsertErr(z, e.key) = "none" /\ Sound(Inserted(z, e.key, e.val))
      /\ Inserted(z, e.key, e.val).items = Append(s, e)
  BY <1>1, <1>4, <1>6, InsertedNew
<1>8. /\ Sound(z') /\ z'.items = Append(s, e) /\ todo' = Tail(todo) /\ lost' = FALSE
      /\ UNCHANGED <<op, x, y, i, seen, pc, err>>
  BY <1>1, <1>7 DEF IInv, Copy, Copied, e
<1>9. Parts(Append(s, e), Tail(todo), x)
  <2>1. Len(Append(s, e)) = k + 1 /\ Append(s, e)[k + 1] = e /\ \A j \in 1 .. k : Append(s, e)[j] = s[j]
    BY <1>1, <1>2, <1>4, Appended
  <2>2. Len(Tail(todo)) = m - 1 /\ \A j \in 1 .. m - 1 : Tail(todo)[j] = todo[j + 1]
    BY <1>1, <1>3
  <2>3. \A j \in 1 .. k + 1 : Append(s, e)[j] = x[j]
    <3>1. \A j \in 1 .. k + 1 : j \in 1 .. k \/ j = k + 1
      OBVIOUS
    <3> QED BY <1>1, <1>2, <1>4, <2>1, <3>1 DEF Parts
  <2>4. \A j \in 1 .. m - 1 : Tail(todo)[j] = x[k + 1 + j]
    <3> TAKE j \in 1 .. m - 1
    <3>1. j + 1 \in 1 .. m /\ k + (j + 1) = k + 1 + j
      BY <1>3
    <3> QED BY <1>1, <1>2, <1>3, <2>2, <3>1 DEF Parts
  <2>5. k + m = k + 1 + (m - 1)
    BY <1>3
  <2> QED BY <1>3, <2>1, <2>2, <2>3, <2>4, <2>5 DEF Parts
<1>10. Tail(todo) \in Seq(Items)
  BY <1>1
<1>11. Typed'
  BY <1>8, <1>10 DEF IInv, Typed
<1>12. Copied'
  BY <1>1, <1>8, <1>9 DEF IInv, Copied
<1>13. pc' = "copy" /\ ~Answered' /\ LostOnlyIf'
  BY <1>1, <1>8 DEF Answered, LostOnlyIf
<1> QED BY <1>11, <1>12, <1>13 DEF IInv, Ended

LEMMA StepCopyDone == ASSUME IInv, CopyDone PROVE IInv'
<1>1. /\ pc = "copy" /\ todo = <<>> /\ pc' = "loop" /\ i = 1 /\ seen = {} /\ ~lost
      /\ UNCHANGED <<op, x, y, z, todo, i, seen, err, lost>>
  BY DEF IInv, Copied, CopyDone
<1>2. Typed /\ Typed'
  BY <1>1 DEF IInv, Typed, Sound, Table, Proper
<1>3. i - 1 = 0 /\ Upto(y, i - 1) = {}
  BY <1>1, UptoZero
<1>4. op # "intersection" => z.items = x
  <2> HAVE op # "intersection"
  <2>1. PICK n \in Nat : n = Len(x) /\ DOMAIN x = 1 .. n
    BY <1>2, SeqTyped DEF Typed
  <2>2. PICK s \in Seq(Items) : s = z.items
    BY <1>2 DEF Typed, Sound, Table
  <2>3. PICK k \in Nat : k = Len(s) /\ DOMAIN s = 1 .. k
    BY <2>2, SeqTyped
  <2>4. Parts(s, <<>>, x)
    BY <1>1, <2>2 DEF IInv, Copied
  <2>5. k = n /\ \A j \in 1 .. n : s[j] = x[j]
    BY <2>1, <2>3, <2>4 DEF Parts
  <2> QED BY <1>2, <2>1, <2>2, <2>3, <2>5, SeqEqual DEF Typed
<1>5. op = "intersection" => z.items = <<>>
  BY <1>1 DEF IInv, Copied
<1>6. Merged
  BY <1>2, <1>3, <1>4, MergeStart DEF Merged, Unions, Typed
<1>7. Subtracted /\ Common
  BY <1>3, <1>4, <1>5 DEF Subtracted, Common, Classes
<1>8. Flipped
  <2> SUFFICES ASSUME op = "symmetric_difference" PROVE Flipped
    BY DEF Flipped
  <2>1. Toggled(x, y, x, 0)
    <3>1. \A c : ~Odd(y, 0, c)
      BY OddZero
    <3> QED BY <3>1 DEF Toggled
  <2> QED BY <1>2, <1>3, <1>4, <2>1 DEF Flipped, Typed, Sound
<1>9. Tested
  BY <1>1, <1>3, <1>4 DEF Tested, TestOps, Met
<1>10. Reached'
  BY <1>1, <1>6, <1>7, <1>8, <1>9
     DEF Reached, Merged, Subtracted, Common, Flipped, Tested
<1>11. Copied' /\ Ended' /\ LostOnlyIf'
  BY <1>1 DEF Copied, Ended, Answered, LostOnlyIf
<1> QED BY <1>2, <1>10, <1>11 DEF IInv

LEMMA AtIs ==
  ASSUME NEW s, NEW k
  PROVE  /\ \A j : j \in At(s, k) <=> j \in DOMAIN s /\ Class[s[j].key] = Class[k]
         /\ At(s, k) # {} <=> Class[k] \in Classes(s)
BY DEF At, Equal, Classes

LEMMA Errors ==
  ASSUME NEW t, NEW k PROVE InsertErr(t, k) \in {"none", "unhashable", "depth"}
BY DEF InsertErr

(* What the loop's steps have in common: the operands do not change, and   *)
(* the variables keep their types.                                         *)
LEMMA StillTyped ==
  ASSUME Typed, UNCHANGED <<op, x, y, todo>>, Sound(z'), i' \in 1 .. Len(y) + 1,
         seen' \subseteq DOMAIN x, pc' \in {"loop", "done"},
         err' \in {"none", "unhashable", "depth"}, lost' \in BOOLEAN
  PROVE  Typed'
BY DEF Typed, Proper

LEMMA StepAddItem == ASSUME IInv, AddItem PROVE IInv'
<1>1. /\ Typed /\ op \in Unions /\ i <= Len(y) /\ pc = "loop"
      /\ Merge(x, y, z.items, i - 1) /\ Sound(z) /\ LostOnlyIf
      /\ x \in Seq(Items) /\ y \in Seq(Items)
      /\ UNCHANGED <<op, x, y, todo, seen>>
  BY DEF IInv, AddItem, Reached, Merged, Unions, Typed
<1>2. PICK n \in Nat, e \in Items :
        /\ i = n + 1 /\ i - 1 = n /\ i + 1 - 1 = n + 1
        /\ n + 1 \in 1 .. Len(y) /\ e = y[i] /\ e = y[n + 1] /\ i + 1 \in 1 .. Len(y) + 1
  BY <1>1, Prefix
<1> DEFINE failure == InsertErr(z, e.key)
           ignored == op \in {"union", "pipe_assign"}
           r == Inserted(z, e.key, e.val)
<1>3. /\ z' = r
      /\ lost' = (lost \/ (failure # "none" /\ ignored))
      /\ \/ failure = "none" /\ i' = i + 1 /\ pc' = pc /\ err' = err
         \/ failure # "none" /\ pc' = "done" /\ i' = i
              /\ err' = IF ignored THEN "none" ELSE failure
  BY <1>2 DEF AddItem, Advance, Return
<1>4. op \notin {"difference", "intersection", "symmetric_difference"} \cup TestOps
  BY <1>1 DEF Unions, TestOps
<1>5. Sound(z')
  BY <1>1, <1>3, InsertedSound
<1>6. Merged'
  <2>1. CASE failure = "none"
    <3>1. Merge(x, y, r.items, n + 1)
      BY <1>1, <1>2, <2>1, MergeStep
    <3>2. i' - 1 = n + 1
      BY <1>2, <1>3, <2>1
    <3> QED BY <1>1, <1>3, <3>1, <3>2 DEF Merged
  <2>2. CASE failure # "none"
    <3>1. r.items = z.items
      BY <1>1, <2>2, InsertedFails
    <3> QED BY <1>1, <1>3, <2>2, <3>1 DEF Merged
  <2> QED BY <2>1, <2>2
<1>7. Reached' /\ Copied'
  BY <1>1, <1>3, <1>4, <1>6
     DEF Reached, Subtracted, Common, Flipped, Tested, Copied
<1>8. lost' \in BOOLEAN /\ failure \in {"none", "unhashable", "depth"}
  BY <1>3, Errors
<1>9. LostOnlyIf'
  <2>1. CASE failure # "none" /\ ignored
    <3>1. Proper(y) /\ DOMAIN y = 1 .. Len(y)
      BY <1>1, <2>1, SeqTyped DEF Typed
    <3>2. e.key \notin Unhashable
      BY <1>2, <3>1 DEF Proper
    <3>3. Has(z, e.key) /\ e.key \in Deep
      BY <1>1, <2>1, <3>2, InsertedFails
    <3>4. Class[e.key] \in Classes(z.items)
      BY <3>3, AtIs DEF Has
    <3>5. \A j \in 1 .. n : j \in 1 .. Len(y) /\ j # n + 1
      BY <1>2
    <3>6. Class[e.key] \notin Upto(y, n)
      BY <1>2, <3>1, <3>5 DEF Proper, Upto
    <3>7. Class[e.key] \in Classes(x)
      BY <1>1, <1>2, <3>4, <3>6 DEF Merge
    <3>8. At(x, e.key) # {}
      BY <3>7, AtIs
    <3>9. \E j \in DOMAIN y : y[j].key \in Deep /\ At(x, y[j].key) # {}
      BY <1>2, <3>1, <3>3, <3>8
    <3> QED BY <1>1, <2>1, <3>9 DEF LostOnlyIf
  <2>2. CASE ~(failure # "none" /\ ignored)
    <3>1. lost' => lost
      <4> HIDE DEF failure, ignored, r
      <4> QED BY <1>3, <2>2, Zenon
    <3> QED BY <1>1, <3>1 DEF LostOnlyIf
  <2> QED BY <2>1, <2>2
<1>10. Ended'
  BY <1>1, <1>3, <1>4 DEF Ended, Answered, TestOps
<1>11. Typed'
  BY <1>1, <1>2, <1>3, <1>5, <1>8, StillTyped DEF Typed
<1> QED BY <1>7, <1>9, <1>10, <1>11 DEF IInv

LEMMA StepRemove == ASSUME IInv, Remove PROVE IInv'
<1>1. /\ Typed /\ op = "difference" /\ i <= Len(y) /\ pc = "loop" /\ ~lost /\ err \in {"none", "unhashable", "depth"}
      /\ Classes(z.items) = Classes(x) \ Upto(y, i - 1) /\ Sound(z)
      /\ x \in Seq(Items) /\ y \in Seq(Items)
      /\ UNCHANGED <<op, x, y, todo, seen, lost>>
  BY DEF IInv, Remove, Reached, Subtracted, Typed, LostOnlyIf
<1>2. PICK n \in Nat, e \in Items :
        /\ i = n + 1 /\ i - 1 = n /\ i + 1 - 1 = n + 1
        /\ n + 1 \in 1 .. Len(y) /\ e = y[i] /\ e = y[n + 1] /\ i + 1 \in 1 .. Len(y) + 1
  BY <1>1, Prefix
<1>3. \/ /\ z' = Deleted(z, e.key) /\ i' = i + 1 /\ pc' = pc /\ err' = err
      \/ /\ DeleteErr(z, e.key) # "none" /\ pc' = "done" /\ err' = DeleteErr(z, e.key)
         /\ UNCHANGED <<z, i>>
  BY <1>2 DEF Remove, Advance, Return
<1>4. DeleteErr(z, e.key) \in {"none", "unhashable", "depth"} /\ e.key \in Key
  BY Errors DEF DeleteErr, Items
<1>5. Sound(z') /\ Subtracted'
  <2>1. CASE z' = Deleted(z, e.key) /\ i' = i + 1
    <3>1. Sound(z') /\ Classes(z'.items) = Classes(z.items) \ {Class[e.key]}
      BY <1>1, <1>4, <2>1, DeletedClass
    <3>2. Upto(y, i' - 1) = Upto(y, n) \cup {Class[e.key]}
      BY <1>2, <2>1, UptoNext
    <3> QED BY <1>1, <1>2, <3>1, <3>2 DEF Subtracted
  <2>2. CASE UNCHANGED <<z, i>>
    BY <1>1, <2>2 DEF Subtracted, Sound, Table, Proper
  <2> QED BY <1>3, <2>1, <2>2
<1>6. Reached' /\ Copied'
  BY <1>1, <1>3, <1>5
     DEF Reached, Merged, Unions, Common, Flipped, Tested, TestOps, Copied
<1>7. LostOnlyIf' /\ Ended'
  BY <1>1, <1>3 DEF Ended, Answered, TestOps, LostOnlyIf
<1>8. Typed'
  BY <1>1, <1>2, <1>3, <1>4, <1>5, StillTyped DEF Typed
<1> QED BY <1>6, <1>7, <1>8 DEF IInv

LEMMA StepToggle == ASSUME IInv, Toggle PROVE IInv'
<1>1. /\ Typed /\ op = "symmetric_difference" /\ i <= Len(y) /\ pc = "loop" /\ LostOnlyIf
      /\ lost \in BOOLEAN /\ err \in {"none", "unhashable", "depth"}
      /\ (x # <<>> => z.alloc) /\ (~lost => Toggled(x, y, z.items, i - 1)) /\ Sound(z)
      /\ x \in Seq(Items) /\ y \in Seq(Items)
      /\ UNCHANGED <<op, x, y, todo, seen>>
  BY DEF IInv, Toggle, Reached, Flipped, Typed
<1>2. PICK n \in Nat, e \in Items :
        /\ i = n + 1 /\ i - 1 = n /\ i + 1 - 1 = n + 1
        /\ n + 1 \in 1 .. Len(y) /\ e = y[i] /\ e = y[n + 1] /\ i + 1 \in 1 .. Len(y) + 1
  BY <1>1, Prefix
<1> DEFINE found == Has(z, e.key)
           g == Item(e.key, NoneVal)
           r == IF found THEN Deleted(z, e.key) ELSE Inserted(z, e.key, NoneVal)
           failed == ~found /\ InsertErr(z, e.key) # "none"
<1>3. \/ /\ DeleteErr(z, e.key) = "none" /\ z' = r /\ lost' = (lost \/ failed)
         /\ i' = i + 1 /\ pc' = pc /\ err' = err
      \/ /\ DeleteErr(z, e.key) # "none" /\ pc' = "done" /\ err' = DeleteErr(z, e.key)
         /\ UNCHANGED <<z, i, lost>>
  BY <1>2 DEF Toggle, Advance, Return
<1>4. /\ DeleteErr(z, e.key) \in {"none", "unhashable", "depth"}
      /\ e.key \in Key /\ g \in Items /\ g.key = e.key /\ g.val = NoneVal
  BY Errors DEF DeleteErr, Items, Item
<1>5. /\ Sound(r) /\ (z.alloc => r.alloc)
      /\ ~failed => \A c : c \in Classes(r.items) <=> (c \in Classes(z.items) <=> c # Class[e.key])
  <2>1. CASE found
    <3>1. /\ Sound(Deleted(z, e.key)) /\ Deleted(z, e.key).alloc = z.alloc
          /\ Classes(Deleted(z, e.key).items) = Classes(z.items) \ {Class[e.key]}
      BY <1>1, <1>4, DeletedClass
    <3>2. Class[e.key] \in Classes(z.items)
      BY <2>1, AtIs DEF Has
    <3> QED BY <2>1, <3>1, <3>2
  <2>2. CASE ~found
    <3>1. /\ Sound(Inserted(z, e.key, NoneVal)) /\ Inserted(z, e.key, NoneVal).alloc
          /\ InsertErr(z, e.key) = "none" =>
               Classes(Inserted(z, e.key, NoneVal).items) = Classes(z.items) \cup {ClassOf(g)}
      <4> HIDE DEF g
      <4>1. /\ Sound(Inserted(z, g.key, g.val)) /\ Inserted(z, g.key, g.val).alloc
            /\ InsertErr(z, g.key) = "none" =>
                 Classes(Inserted(z, g.key, g.val).items) = Classes(z.items) \cup {ClassOf(g)}
        BY <1>1, <1>4, InsertedSound
      <4> QED BY <1>4, <4>1
    <3>2. Class[e.key] \notin Classes(z.items) /\ ClassOf(g) = Class[e.key]
      BY <1>4, <2>2, AtIs DEF Has, ClassOf
    <3>3. r = Inserted(z, e.key, NoneVal)
      BY <2>2
    <3> HIDE DEF r, g
    <3>4. ~failed => InsertErr(z, e.key) = "none"
      BY <2>2
    <3> QED BY <3>1, <3>2, <3>3, <3>4
  <2> QED BY <2>1, <2>2
<1> HIDE DEF r, failed
<1>6. failed \in BOOLEAN
  BY DEF failed
<1>7. CASE DeleteErr(z, e.key) # "none"
  <2>1. pc' = "done" /\ err' # "none" /\ UNCHANGED <<op, x, y, todo, seen, z, i, lost>>
    BY <1>1, <1>3, <1>7
  <2>2. Reached' /\ Copied' /\ Ended' /\ LostOnlyIf'
    BY <1>1, <2>1
       DEF Reached, Merged, Unions, Subtracted, Common, Flipped, Tested, TestOps, Copied, Ended,
           Answered, LostOnlyIf
  <2>3. Sound(z')
    BY <1>1, <2>1 DEF Sound, Table, Proper
  <2>4. Typed'
    BY <1>1, <1>3, <1>4, <1>7, <2>1, <2>3, StillTyped DEF Typed
  <2> QED BY <2>2, <2>4 DEF IInv
<1>8. CASE DeleteErr(z, e.key) = "none"
  <2>1. z' = r /\ lost' = (lost \/ failed) /\ i' = i + 1 /\ pc' = "loop" /\ err' = err
    BY <1>1, <1>3, <1>8
  <2>2. Flipped'
    <3>1. x # <<>> => z'.alloc
      BY <1>1, <1>5, <2>1
    <3>2. ASSUME ~lost' PROVE Toggled(x, y, z'.items, n + 1)
      <4>1. ~lost /\ ~failed
        BY <2>1, <3>2
      <4>2. \A c : Odd(y, n + 1, c) <=> (Odd(y, n, c) <=> Class[e.key] # c)
        BY <1>2, OddNext
      <4>3. \A c : c \in Classes(z.items) <=> (c \in Classes(x) <=> ~Odd(y, n, c))
        BY <1>1, <1>2, <4>1 DEF Toggled
      <4>4. \A c : c \in Classes(z'.items) <=> (c \in Classes(z.items) <=> c # Class[e.key])
        BY <1>5, <2>1, <4>1
      <4> QED BY <4>2, <4>3, <4>4 DEF Toggled
    <3>3. i' - 1 = n + 1
      BY <1>2, <2>1
    <3> QED BY <1>1, <3>1, <3>2, <3>3 DEF Flipped
  <2>3. Reached' /\ Copied' /\ Ended'
    BY <1>1, <2>1, <2>2
       DEF Reached, Merged, Unions, Subtracted, Common, Tested, TestOps, Copied, Ended, Answered
  <2>4. LostOnlyIf'
    <3>1. CASE failed
      <4>1. e.key \in Unhashable /\ ~found
        BY <3>1, <1>4 DEF InsertErr, Has, failed
      <4>2. ~z.alloc
        BY <1>8, <4>1 DEF DeleteErr, InsertErr
      <4>3. x = <<>> /\ n + 1 \in DOMAIN y
        BY <1>1, <1>2, <4>2, SeqTyped
      <4> QED BY <1>1, <1>2, <4>1, <4>3 DEF LostOnlyIf
    <3>2. CASE ~failed
      <4>1. lost' => lost
        BY <2>1, <3>2, Zenon
      <4> QED BY <1>1, <4>1 DEF LostOnlyIf
    <3> QED BY <3>1, <3>2
  <2>5. lost' \in BOOLEAN
    BY <1>1, <1>6, <2>1, Zenon
  <2>6. Sound(z')
    BY <1>5, <2>1
  <2>7. Typed'
    BY <1>1, <1>2, <2>1, <2>5, <2>6, StillTyped DEF Typed
  <2> QED BY <2>2, <2>3, <2>4, <2>7 DEF IInv
<1> QED BY <1>7, <1>8

LEMMA StepKeep == ASSUME IInv, Keep PROVE IInv'
<1>1. /\ Typed /\ op = "intersection" /\ i <= Len(y) /\ pc = "loop" /\ ~lost
      /\ err \in {"none", "unhashable", "depth"}
      /\ Classes(z.items) = Classes(x) \cap Upto(y, i - 1) /\ Sound(z)
      /\ x \in Seq(Items) /\ y \in Seq(Items)
      /\ UNCHANGED <<op, x, y, todo, seen, lost>>
  BY DEF IInv, Keep, Reached, Common, Typed, LostOnlyIf
<1>2. PICK n \in Nat, e \in Items :
        /\ i = n + 1 /\ i - 1 = n /\ i + 1 - 1 = n + 1
        /\ n + 1 \in 1 .. Len(y) /\ e = y[i] /\ e = y[n + 1] /\ i + 1 \in 1 .. Len(y) + 1
  BY <1>1, Prefix
<1> DEFINE found == Has(Self, e.key)
           g == Item(e.key, NoneVal)
           failure == IF LookupErr(Self, e.key) # "none" THEN LookupErr(Self, e.key)
                      ELSE IF found THEN InsertErr(z, e.key) ELSE "none"
           r == IF found THEN Inserted(z, e.key, NoneVal) ELSE z
<1>3. \/ failure = "none" /\ z' = r /\ i' = i + 1 /\ pc' = pc /\ err' = err
      \/ failure # "none" /\ pc' = "done" /\ err' = failure /\ UNCHANGED <<z, i>>
  BY <1>2 DEF Keep, Advance, Return
<1>4. /\ failure \in {"none", "unhashable", "depth"}
      /\ e.key \in Key /\ g \in Items /\ g.key = e.key /\ g.val = NoneVal
  BY Errors DEF LookupErr, Items, Item
<1>5. found <=> Class[e.key] \in Classes(x)
  BY AtIs DEF Has, Self
<1>6. found /\ failure = "none" => InsertErr(z, e.key) = "none"
  OBVIOUS
<1> HIDE DEF failure, g
<1>7. CASE failure # "none"
  <2>1. pc' = "done" /\ err' = failure /\ UNCHANGED <<op, x, y, todo, seen, lost, z, i>>
    BY <1>1, <1>3, <1>7
  <2>2. Reached' /\ Copied' /\ Ended' /\ LostOnlyIf'
    BY <1>1, <1>7, <2>1
       DEF Reached, Merged, Unions, Subtracted, Common, Flipped, Tested, TestOps, Copied, Ended,
           Answered, LostOnlyIf
  <2>3. Sound(z')
    BY <1>1, <2>1 DEF Sound, Table, Proper
  <2>4. Typed'
    BY <1>1, <1>4, <2>1, <2>3, StillTyped DEF Typed
  <2> QED BY <2>2, <2>4 DEF IInv
<1>8. CASE failure = "none"
  <2>1. z' = r /\ i' = i + 1 /\ pc' = "loop" /\ UNCHANGED <<op, x, y, todo, seen, lost, err>>
    BY <1>1, <1>3, <1>8
  <2>2. Upto(y, i' - 1) = Upto(y, n) \cup {Class[e.key]}
    BY <1>2, <2>1, UptoNext
  <2>3. Sound(z') /\ Classes(z'.items) = Classes(x) \cap Upto(y, i' - 1)
    <3>1. CASE found
      <4>1. /\ Sound(Inserted(z, g.key, g.val))
            /\ Classes(Inserted(z, g.key, g.val).items) = Classes(z.items) \cup {ClassOf(g)}
        BY <1>1, <1>4, <1>6, <1>8, <3>1, InsertedSound
      <4>2. z' = Inserted(z, g.key, g.val) /\ ClassOf(g) = Class[e.key]
        BY <1>4, <2>1, <3>1 DEF ClassOf
      <4> QED BY <1>1, <1>2, <1>5, <2>2, <3>1, <4>1, <4>2
    <3>2. CASE ~found
      <4>1. z' = z
        BY <2>1, <3>2
      <4> QED BY <1>1, <1>2, <1>5, <2>2, <3>2, <4>1
    <3> QED BY <3>1, <3>2
  <2>4. Reached' /\ Copied' /\ Ended' /\ LostOnlyIf'
    BY <1>1, <2>1, <2>3
       DEF Reached, Merged, Unions, Subtracted, Common, Flipped, Tested, TestOps, Copied, Ended,
           Answered, LostOnlyIf
  <2>5. Typed'
    BY <1>1, <1>2, <2>1, <2>3, StillTyped DEF Typed
  <2> QED BY <2>4, <2>5 DEF IInv
<1> QED BY <1>7, <1>8

LEMMA StepTestSuperset == ASSUME IInv, TestSuperset PROVE IInv'
<1>1. /\ Typed /\ op = "issuperset" /\ i <= Len(y) /\ pc = "loop" /\ ~lost
      /\ err \in {"none", "unhashable", "depth"}
      /\ z.items = x /\ Upto(y, i - 1) \subseteq Classes(x) /\ Sound(z)
      /\ UNCHANGED <<op, x, y, z, todo, seen, lost>>
  BY DEF IInv, TestSuperset, Reached, Tested, TestOps, Typed, LostOnlyIf
<1>2. PICK n \in Nat, e \in Items :
        /\ i = n + 1 /\ i - 1 = n /\ i + 1 - 1 = n + 1
        /\ n + 1 \in 1 .. Len(y) /\ e = y[i] /\ e = y[n + 1] /\ i + 1 \in 1 .. Len(y) + 1
  BY <1>1, Prefix
<1>3. \/ /\ LookupErr(z, e.key) = "none" /\ Has(z, e.key)
         /\ i' = i + 1 /\ pc' = pc /\ err' = err
      \/ /\ LookupErr(z, e.key) # "none" \/ ~Has(z, e.key)
         /\ pc' = "done" /\ err' = LookupErr(z, e.key) /\ UNCHANGED i
  BY <1>2 DEF TestSuperset, Advance, Return
<1>4. LookupErr(z, e.key) \in {"none", "unhashable", "depth"}
  BY Errors DEF LookupErr
<1>5. Has(z, e.key) <=> Class[e.key] \in Classes(x)
  BY <1>1, AtIs DEF Has
<1>6. Tested'
  <2>1. CASE Has(z, e.key) /\ i' = i + 1
    <3>1. Upto(y, i' - 1) = Upto(y, n) \cup {Class[e.key]}
      BY <1>2, <2>1, UptoNext
    <3> QED BY <1>1, <1>2, <1>5, <2>1, <3>1 DEF Tested
  <2>2. CASE UNCHANGED i
    BY <1>1, <2>2 DEF Tested
  <2> QED BY <1>3, <2>1, <2>2
<1>7. Reached' /\ Copied' /\ LostOnlyIf'
  BY <1>1, <1>3, <1>6
     DEF Reached, Merged, Unions, Subtracted, Common, Flipped, Copied, LostOnlyIf
<1>8. Ended'
  <2>1. CASE pc' = pc
    BY <1>1, <2>1 DEF Ended, Answered
  <2>2. CASE /\ LookupErr(z, e.key) # "none" \/ ~Has(z, e.key)
             /\ pc' = "done" /\ err' = LookupErr(z, e.key) /\ UNCHANGED i
    BY <1>1, <1>2, <1>5, <2>2 DEF Ended, Answered, TestOps
  <2> QED BY <1>3, <2>1, <2>2
<1>9. Sound(z') /\ seen' \subseteq DOMAIN x
  BY <1>1 DEF Sound, Table, Proper, Typed
<1>10. Typed'
  BY <1>1, <1>2, <1>3, <1>4, <1>9, StillTyped DEF Typed
<1> QED BY <1>7, <1>8, <1>10 DEF IInv

LEMMA StepTestSubset == ASSUME IInv, TestSubset PROVE IInv'
<1>1. /\ Typed /\ op = "issubset" /\ i <= Len(y) /\ pc = "loop" /\ ~lost
      /\ err \in {"none", "unhashable", "depth"}
      /\ z.items = x /\ seen = Met(x, Upto(y, i - 1)) /\ Sound(z)
      /\ x \in Seq(Items)
      /\ UNCHANGED <<op, x, y, z, todo, lost>>
  BY DEF IInv, TestSubset, Reached, Tested, TestOps, Typed, LostOnlyIf
<1>2. PICK n \in Nat, e \in Items :
        /\ i = n + 1 /\ i - 1 = n /\ i + 1 - 1 = n + 1
        /\ n + 1 \in 1 .. Len(y) /\ e = y[i] /\ e = y[n + 1] /\ i + 1 \in 1 .. Len(y) + 1
  BY <1>1, Prefix
<1> DEFINE decided == ~z.alloc \/ Cardinality(seen) = Len(x)
<1>3. \/ decided /\ pc' = "done" /\ err' = "none" /\ UNCHANGED <<i, seen>>
      \/ /\ LookupErr(z, e.key) = "none" /\ seen' = seen \cup At(x, e.key)
         /\ i' = i + 1 /\ pc' = pc /\ err' = err
      \/ /\ LookupErr(z, e.key) # "none"
         /\ pc' = "done" /\ err' = LookupErr(z, e.key) /\ UNCHANGED <<i, seen>>
  BY <1>2 DEF TestSubset, Advance, Return
<1>4. LookupErr(z, e.key) \in {"none", "unhashable", "depth"}
  BY Errors DEF LookupErr
<1>5. decided => Cardinality(seen) = Len(x)
  <2> SUFFICES ASSUME ~z.alloc PROVE Cardinality(seen) = Len(x)
    OBVIOUS
  <2>1. x = <<>>
    BY <1>1 DEF Sound
  <2>2. DOMAIN x = {} /\ Len(x) = 0
    BY <2>1
  <2>3. seen = {}
    BY <1>1, <2>2 DEF Met
  <2> QED BY <2>2, <2>3, FS_EmptySet
<1> HIDE DEF decided
<1>6. Tested' /\ seen' \subseteq DOMAIN x
  <2>1. CASE seen' = seen \cup At(x, e.key) /\ i' = i + 1
    <3>1. Upto(y, i' - 1) = Upto(y, n) \cup {Class[e.key]}
      BY <1>2, <2>1, UptoNext
    <3>2. At(x, e.key) = {j \in DOMAIN x : Class[x[j].key] = Class[e.key]}
      BY AtIs
    <3>3. seen' = Met(x, Upto(y, i' - 1))
      BY <1>1, <1>2, <2>1, <3>1, <3>2 DEF Met
    <3> QED BY <1>1, <3>3 DEF Tested, Met
  <2>2. CASE UNCHANGED <<i, seen>>
    BY <1>1, <2>2 DEF Tested, Met
  <2> QED BY <1>3, <2>1, <2>2
<1>7. Reached' /\ Copied' /\ LostOnlyIf'
  BY <1>1, <1>3, <1>6
     DEF Reached, Merged, Unions, Subtracted, Common, Flipped, Copied, LostOnlyIf
<1>8. Ended'
  BY <1>1, <1>3, <1>5 DEF Ended, Answered, TestOps
<1>9. Sound(z')
  BY <1>1 DEF Sound, Table, Proper
<1>10. Typed'
  BY <1>1, <1>2, <1>3, <1>4, <1>6, <1>9, StillTyped DEF Typed
<1> QED BY <1>7, <1>8, <1>10 DEF IInv

LEMMA StepFinish == ASSUME IInv, Finish PROVE IInv'
<1>1. /\ Typed /\ Reached /\ LostOnlyIf /\ pc = "loop" /\ pc' = "done" /\ err' = "none"
      /\ UNCHANGED <<op, x, y, z, todo, i, seen, lost>> /\ y \in Seq(Items)
      /\ i \in 1 .. Len(y) + 1 /\ i > Len(y)
  BY DEF IInv, Finish, Return, Typed
<1>2. i = Len(y) + 1
  <2>1. PICK h \in Nat : h = Len(y)
    BY <1>1, SeqTyped
  <2> QED BY <1>1, <2>1
<1>3. Typed'
  BY <1>1 DEF Typed, Sound, Table, Proper
<1>4. Reached'
  BY <1>1 DEF Reached, Merged, Subtracted, Common, Flipped, Tested
<1>5. Copied' /\ LostOnlyIf' /\ Ended'
  BY <1>1, <1>2 DEF Copied, LostOnlyIf, Ended
<1> QED BY <1>3, <1>4, <1>5 DEF IInv

LEMMA StepInv == IInv /\ [Next]_vars => IInv'
<1> SUFFICES ASSUME IInv, [Next]_vars PROVE IInv'
  OBVIOUS
<1>1. CASE UNCHANGED vars
  <2>1. UNCHANGED <<op, x, y, z, todo, i, seen, pc, err, lost>>
    BY <1>1 DEF vars
  <2>2. Typed' /\ Copied'
    BY <2>1 DEF IInv, Typed, Copied, Sound, Table, Proper
  <2>3. (pc # "copy" => Reached)'
    BY <2>1 DEF IInv, Reached, Merged, Subtracted, Common, Flipped, Tested
  <2>4. Ended' /\ LostOnlyIf'
    BY <2>1 DEF IInv, Ended, Answered, LostOnlyIf
  <2> QED BY <2>2, <2>3, <2>4 DEF IInv
<1> QED BY <1>1, StepCopy, StepCopyDone, StepAddItem, StepRemove, StepToggle, StepKeep,
           StepTestSuperset, StepTestSubset, StepFinish DEF Next

LEMMA Invariant == Spec => []IInv
<1>1. Init => IInv
  BY StartInv
<1> QED BY <1>1, StepInv, PTL DEF Spec
-----------------------------------------------------------------------------
(* An insertion whose error the code discards fails in two cases only: a   *)
(* union of dicts that share a deep key, and the symmetric difference of   *)
(* an empty set and an unhashable element.  The copy of the left operand   *)
(* never fails (the comments "can't fail" in value.go).                    *)
THEOREM DiscardsAreHarmless == Spec => []DiscardedOnlyIf
<1>1. IInv => DiscardedOnlyIf
  BY DEF IInv, Copied, DiscardedOnlyIf, CopyCannotFail
<1> QED BY <1>1, Invariant, PTL

LEMMA TypedIsTypeOK == ASSUME Typed PROVE TypeOK
<1>1. z.alloc \in BOOLEAN
  BY DEF Typed, Sound, Table
<1> QED BY <1>1 DEF Typed, TypeOK, Sound

(* The result of every union has the left operand's keys first and then    *)
(* the new ones in the order they first appear, the first of two equal     *)
(* keys, and the right operand's last value where it has the key.          *)
THEOREM UnionIsExact == Spec => []UnionExact
<1>1. ASSUME IInv PROVE UnionExact
  <2>1. TypeOK /\ Typed
    BY <1>1, TypedIsTypeOK DEF IInv
  <2>2. ASSUME Answered, ~lost, op \in Unions
        PROVE  UnionOf(x, y, z.items)
    <3>1. /\ x \in Seq(Items) /\ Proper(x) /\ y \in Seq(Items)
          /\ z.items \in Seq(Items) /\ Proper(z.items)
      BY <2>1 DEF Typed, Sound, Table
    <3>2. i = Len(y) + 1 /\ Merge(x, y, z.items, i - 1)
      BY <1>1, <2>2 DEF IInv, Ended, Answered, Reached, Merged, Unions, TestOps
    <3>3. i - 1 = Len(y)
      <4>1. PICK h \in Nat : h = Len(y)
        BY <3>1, SeqTyped
      <4> QED BY <3>2, <4>1
    <3> QED BY <3>1, <3>2, <3>3, MergeEnd
  <2> QED BY <2>1, <2>2 DEF UnionExact, UnionOf, Unions
<1> QED BY <1>1, Invariant, PTL

(* Every position of x has been met if as many positions have been met as  *)
(* x has.                                                                  *)
LEMMA AllMet ==
  ASSUME NEW a \in Seq(Items), NEW S \in SUBSET DOMAIN a
  PROVE  Cardinality(S) = Len(a) <=> S = DOMAIN a
<1>1. PICK n \in Nat : n = Len(a) /\ DOMAIN a = 1 .. n
  BY SeqTyped
<1>2. IsFiniteSet(1 .. n) /\ Cardinality(1 .. n) = n
  <2>1. 1 \in Int /\ n \in Int
    BY <1>1
  <2>2. IsFiniteSet(1 .. n) /\ Cardinality(1 .. n) = IF 1 > n THEN 0 ELSE n - 1 + 1
    BY <2>1, FS_Interval
  <2> QED BY <1>1, <2>2
<1> QED BY <1>1, <1>2, FS_Subset

(* In a sequence that repeats no class each occurs once. *)
LEMMA OccursOnce ==
  ASSUME NEW b \in Seq(Items), ~Repeats(b), NEW c \in Classes(b)
  PROVE  Cardinality({j \in DOMAIN b : Class[b[j].key] = c}) % 2 = 1
<1>1. PICK l \in DOMAIN b : Class[b[l].key] = c
  BY DEF Classes
<1>2. {j \in DOMAIN b : Class[b[j].key] = c} = {l}
  BY <1>1 DEF Repeats
<1>3. Cardinality({l}) = 1
  BY FS_Singleton
<1>4. 1 % 2 = 1
  OBVIOUS
<1> QED BY <1>2, <1>3, <1>4

(* The set operations compute what doc/spec.md says of them, whatever an   *)
(* operand repeats, and the two tests decide inclusion although they stop  *)
(* early; but symmetric_difference does so only of an iterable without     *)
(* repetition, and toggles what is repeated.                               *)
THEOREM AlgebraIsExact == Spec => []AlgebraExact
<1>1. ASSUME IInv, Answered PROVE SetAlgebraExact /\ SymmetricExact /\ RepeatsToggle
  <2>1. PICK h \in Nat : h = Len(y) /\ DOMAIN y = 1 .. h /\ i \in 1 .. h + 1
    BY <1>1, SeqTyped DEF IInv, Typed
  <2>2. /\ x \in Seq(Items) /\ y \in Seq(Items) /\ Reached /\ LostOnlyIf /\ Ended
        /\ seen \subseteq DOMAIN x
    BY <1>1 DEF IInv, Answered, Typed
  <2>3. Upto(y, h) = Classes(y) /\ Upto(y, i - 1) \subseteq Classes(y)
    <3>1. Upto(y, h) = Classes(y)
      BY <2>1, <2>2, UptoAll
    <3>2. 1 .. i - 1 \subseteq DOMAIN y
      BY <2>1
    <3> QED BY <3>1, <3>2 DEF Upto, Classes
  <2>4. i = h + 1 => i - 1 = h /\ i > h
    BY <2>1
  <2>5. CASE op = "difference"
    <3>1. i = h + 1
      BY <1>1, <2>1, <2>2, <2>5 DEF Ended, LostOnlyIf, TestOps
    <3> QED BY <2>2, <2>3, <2>4, <2>5, <3>1
            DEF Reached, Subtracted, SetAlgebraExact, SymmetricExact, RepeatsToggle
  <2>6. CASE op = "intersection"
    <3>1. i = h + 1
      BY <1>1, <2>1, <2>2, <2>6 DEF Ended, LostOnlyIf, TestOps
    <3> QED BY <2>2, <2>3, <2>4, <2>6, <3>1
            DEF Reached, Common, SetAlgebraExact, SymmetricExact, RepeatsToggle
  <2>7. CASE op = "issuperset"
    <3>1. /\ i = h + 1 \/ Class[y[i].key] \notin Classes(x)
          /\ Upto(y, i - 1) \subseteq Classes(x)
      BY <1>1, <2>1, <2>2, <2>7 DEF Ended, Reached, Tested, TestOps
    <3>2. CASE i = h + 1
      BY <2>1, <2>3, <2>4, <2>7, <3>1, <3>2 DEF SetAlgebraExact, SymmetricExact, RepeatsToggle
    <3>3. CASE i # h + 1
      <4>1. i \in DOMAIN y /\ ~(i > h)
        BY <2>1, <3>3
      <4>2. Class[y[i].key] \in Classes(y)
        BY <4>1 DEF Classes
      <4> QED BY <2>1, <2>7, <3>1, <3>3, <4>1, <4>2 DEF SetAlgebraExact, SymmetricExact, RepeatsToggle
    <3> QED BY <3>2, <3>3
  <2>8. CASE op = "issubset"
    <3>1. /\ i = h + 1 \/ Cardinality(seen) = Len(x)
          /\ seen = Met(x, Upto(y, i - 1))
      BY <1>1, <2>1, <2>2, <2>8 DEF Ended, Reached, Tested, TestOps
    <3>2. Cardinality(seen) = Len(x) <=> seen = DOMAIN x
      BY <2>2, AllMet
    <3>3. seen = DOMAIN x => Classes(x) \subseteq Classes(y)
      BY <2>3, <3>1 DEF Met, Classes
    <3>4. i = h + 1 /\ Classes(x) \subseteq Classes(y) => seen = DOMAIN x
      <4> SUFFICES ASSUME i = h + 1, Classes(x) \subseteq Classes(y) PROVE seen = DOMAIN x
        OBVIOUS
      <4>1. seen = Met(x, Classes(y))
        BY <2>3, <2>4, <3>1
      <4>2. \A j \in DOMAIN x : Class[x[j].key] \in Classes(x)
        BY DEF Classes
      <4> QED BY <4>1, <4>2 DEF Met
    <3> QED BY <2>8, <3>1, <3>2, <3>3, <3>4 DEF SetAlgebraExact, SymmetricExact, RepeatsToggle
  <2>9. CASE op = "symmetric_difference"
    <3> SUFFICES ASSUME ~lost PROVE SymmetricExact /\ RepeatsToggle
      BY <2>9 DEF SetAlgebraExact, SymmetricExact, RepeatsToggle
    <3> DEFINE odd == {c \in Classes(y) :
                         Cardinality({j \in DOMAIN y : Class[y[j].key] = c}) % 2 = 1}
    <3>1. i = h + 1 /\ Toggled(x, y, z.items, i - 1)
      BY <1>1, <2>1, <2>2, <2>9 DEF Ended, TestOps, Reached, Flipped
    <3>2. Toggled(x, y, z.items, h)
      BY <2>4, <3>1
    <3>3. \A c : Odd(y, h, c) <=> c \in odd
      BY <2>1, <2>2, OddAll
    <3>4. ~Repeats(y) => odd = Classes(y)
      BY <2>2, OccursOnce
    <3> HIDE DEF odd
    <3>5. \A c : c \in Classes(z.items) <=> (c \in Classes(x) <=> c \notin odd)
      BY <3>2, <3>3 DEF Toggled
    <3>6. Classes(z.items) = (Classes(x) \ odd) \cup (odd \ Classes(x))
      BY <3>5
    <3>7. SymmetricExact
      BY <3>4, <3>6 DEF SymmetricExact
    <3>8. RepeatsToggle
      BY <3>6 DEF RepeatsToggle, odd
    <3> QED BY <3>7, <3>8
  <2> QED BY <2>5, <2>6, <2>7, <2>8, <2>9 DEF SetAlgebraExact, SymmetricExact, RepeatsToggle
<1>2. IInv => AlgebraExact
  BY <1>1 DEF AlgebraExact, SetAlgebraExact, SymmetricExact, RepeatsToggle
<1> QED BY <1>2, Invariant, PTL
=============================================================================

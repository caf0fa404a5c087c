----------------------------- MODULE HashTable ------------------------------
(***************************************************************************)
(* The hash table behind Starlark dicts and sets: starlark/hashtable.go.   *)
(*                                                                         *)
(* An entry lives at an address <<b, i>>: slot i of the chain of buckets   *)
(* that starts at table[b].  A chain is a whole number of buckets of       *)
(* BucketSize slots, so it is kept as its number of slots, cap[b].  ent is *)
(* the contents of the slots in use (an empty slot is a zeroed entry).     *)
(* Entries also form a doubly-linked list in insertion order; a link is    *)
(* the address of an entry's next field, or HeadLink for &ht.head.         *)
(*                                                                         *)
(* Moving the entries to a larger table (grow) is a loop; each of its      *)
(* iterations is a step here, and no other operation is enabled meanwhile. *)
(***************************************************************************)
EXTENDS StarlarkKeys, FiniteSets

CONSTANTS
  Iter,        (* iterators that may be in use at one time                 *)
  BucketSize,  (* slots per bucket: 8 in the code                          *)
  LoadNum,     (* LoadNum \div LoadDen is the load factor per bucket:      *)
  LoadDen,     (* 13 / 2 in the code                                       *)
  InitSizes    (* sizes passed to NewDict and NewSet                       *)

(* The code's constants satisfy these: one doubling of the table always    *)
(* relieves the overload.                                                  *)
ASSUME TableAssumption ==
  /\ BucketSize \in Nat \ {0}
  /\ LoadDen \in Nat \ {0}
  /\ LoadNum \in Nat
  /\ LoadNum >= LoadDen
  /\ 2 * LoadNum > BucketSize * LoadDen
  /\ InitSizes \subseteq Nat
  /\ IsFiniteSet(Iter)

VARIABLES
  nb,         (* len(ht.table); 0 before the table is allocated            *)
  cap,        (* cap[b]: slots in the chain of bucket b                    *)
  ent,        (* slots in use: [key, val, next, prev]                      *)
  head,       (* ht.head                                                   *)
  tailLink,   (* ht.tailLink                                               *)
  len,        (* ht.len                                                    *)
  frozen,     (* ht.frozen                                                 *)
  itercount,  (* ht.itercount                                              *)
  iters,      (* state of each iterator                                    *)
  old,        (* during grow: the old table, the cursor, and the insertion *)
              (* that caused it                                            *)
  ret,        (* result of the last operation                              *)
  order       (* history variable, read by no guard: the addresses of the  *)
              (* entries in the order of their insertion                   *)

contents == <<nb, cap, ent, head, tailLink, len, old, order>>
vars == <<nb, cap, ent, head, tailLink, len, frozen, itercount, iters, old, ret, order>>

Nil == <<0, 0>>       (* the nil *entry     *)
HeadLink == <<0, 0>>  (* the link &ht.head  *)
Addr == Nat \X (Nat \ {0})
Empty == [a \in {} |-> a]
NotGrowing == [on |-> FALSE, ent |-> Empty, e |-> Nil, order |-> <<>>]
Off == [kind |-> "off", e |-> Nil, counted |-> FALSE]

(* overloaded: is the table too small for elems entries? *)
Overloaded(elems, buckets) ==
  elems >= BucketSize /\ elems * LoadDen >= LoadNum * buckets

(* init(size): the least power of two that size entries do not overload. *)
InitBuckets(size) ==
  {n \in 1 .. 2 * size + 1 :
     /\ \E i \in 0 .. size : n = 2 ^ i
     /\ ~Overloaded(size, n)
     /\ n > 1 => \E m \in 1 .. size : n = 2 * m /\ Overloaded(size, m)}

Fresh(n) == [b \in 0 .. n - 1 |-> BucketSize]

(* A table is the zero value of its type, or made for a size. *)
Init ==
  /\ \/ nb = 0
     \/ \E s \in InitSizes : nb \in InitBuckets(s)
  /\ cap = Fresh(nb)
  /\ ent = Empty /\ head = Nil /\ tailLink = HeadLink /\ len = 0
  /\ frozen = FALSE /\ itercount = 0
  /\ iters = [i \in Iter |-> Off]
  /\ old = NotGrowing
  /\ ret = "none"
  /\ order = <<>>
-----------------------------------------------------------------------------
(* A wrong checkMutable, that forgets the iterations. *)
MutableAnytime == ~frozen

(* checkMutable *)
Mutable == ~frozen /\ itercount = 0
Refusal == IF frozen THEN "frozen" ELSE "iterating"

Idle == ~old.on

Answer(r) == ret' = r /\ UNCHANGED <<contents, frozen, itercount, iters>>

(* The table an insertion works on: init(1) if there is none yet. *)
Buckets == IF nb = 0 THEN 1 ELSE nb
Capacity == IF nb = 0 THEN Fresh(1) ELSE cap

(* A wrong scan, that looks at the first bucket of the chain only. *)
StopsInFirstBucket(k) ==
  {a \in DOMAIN ent : /\ a[1] = Hash(k) % Buckets /\ a[2] <= BucketSize
                      /\ Hash(ent[a].key) = Hash(k)
                      /\ Equal(k, ent[a].key) # "ne"}

(* The entries at which the scan of k's chain stops: equal to k, or not to *)
(* be compared with it.                                                    *)
Stops(k) ==
  {a \in DOMAIN ent : /\ a[1] = Hash(k) % Buckets
                      /\ Hash(ent[a].key) = Hash(k)
                      /\ Equal(k, ent[a].key) # "ne"}

FirstOf(S) == CHOOSE a \in S : \A b \in S : a[2] <= b[2]
LastOf(S) == CHOOSE a \in S : \A b \in S : a[2] >= b[2]

(* The slot for a new key: the last empty one of its chain, or the first   *)
(* slot of a bucket added to the chain.                                    *)
EmptySlots(b) == {<<b, i>> : i \in 1 .. Capacity[b]} \ DOMAIN ent
SlotFor(k) ==
  LET b == Hash(k) % Buckets
  IN  IF EmptySlots(b) = {} THEN <<b, Capacity[b] + 1>> ELSE LastOf(EmptySlots(b))

(* Fill the slot and append it to the list. *)
Place(k, v) ==
  LET b == Hash(k) % Buckets
      a == SlotFor(k)
      new == [key |-> k, val |-> v, next |-> Nil, prev |-> tailLink]
  IN  /\ nb' = Buckets
      /\ cap' = IF EmptySlots(b) = {}
                THEN [Capacity EXCEPT ![b] = @ + BucketSize] ELSE Capacity
      /\ ent' = [x \in DOMAIN ent \cup {a} |->
                   IF x = a THEN new
                   ELSE IF x = tailLink THEN [ent[x] EXCEPT !.next = a]
                   ELSE ent[x]]
      /\ head' = IF tailLink = HeadLink THEN a ELSE head
      /\ tailLink' = a
      /\ len' = len + 1
      /\ order' = Append(order, a)

(* Wrong versions of grow: it does not double the table; it saves the head *)
(* of the list after resetting it.                                         *)
GrowBeginSameSize(k, v) ==
  /\ nb' = nb
  /\ cap' = Fresh(nb)
  /\ ent' = Empty /\ head' = Nil /\ tailLink' = HeadLink /\ len' = 0
  /\ order' = <<>>
  /\ old' = [on |-> TRUE, ent |-> ent, e |-> head, k |-> k, v |-> v, order |-> order]

GrowBeginHeadLost(k, v) ==
  /\ nb' = 2 * nb
  /\ cap' = Fresh(2 * nb)
  /\ ent' = Empty /\ head' = Nil /\ tailLink' = HeadLink /\ len' = 0
  /\ order' = <<>>
  /\ old' = [on |-> TRUE, ent |-> ent, e |-> Nil, k |-> k, v |-> v, order |-> order]

(* grow: allocate a table twice the size, and start over the old list. *)
GrowBegin(k, v) ==
  /\ nb' = 2 * nb
  /\ cap' = Fresh(2 * nb)
  /\ ent' = Empty /\ head' = Nil /\ tailLink' = HeadLink /\ len' = 0
  /\ order' = <<>>
  /\ old' = [on |-> TRUE, ent |-> ent, e |-> head, k |-> k, v |-> v, order |-> order]

(* insert, up to its return or to the call of grow. *)
InsertNew(k, v) ==
  /\ Idle /\ Mutable /\ k \notin Unhashable /\ Stops(k) = {}
  /\ \/ /\ Overloaded(len, Buckets)
        /\ GrowBegin(k, v)
        /\ UNCHANGED ret
     \/ /\ ~Overloaded(len, Buckets)
        /\ Place(k, v)
        /\ ret' = "ok"
        /\ UNCHANGED old
  /\ UNCHANGED <<frozen, itercount, iters>>

InsertKnown(k, v) ==
  /\ Idle /\ Mutable /\ k \notin Unhashable /\ Stops(k) # {}
  /\ LET a == FirstOf(Stops(k))
     IN  IF Equal(k, ent[a].key) = "err"
         THEN ret' = "depth" /\ UNCHANGED ent
         ELSE ent' = [ent EXCEPT ![a].val = v] /\ ret' = "ok"
  /\ UNCHANGED <<nb, cap, head, tailLink, len, old, order, frozen, itercount, iters>>

InsertRefused(k) ==
  /\ Idle
  /\ \/ ~Mutable /\ Answer(Refusal)
     \/ /\ Mutable /\ k \in Unhashable
        /\ nb' = Buckets /\ cap' = Capacity
        /\ ret' = "unhashable"
        /\ UNCHANGED <<ent, head, tailLink, len, old, order, frozen, itercount, iters>>

(* A wrong loop, that does not move on to the next entry. *)
GrowStepStuck ==
  /\ old.on /\ old.e # Nil
  /\ LET e == old.ent[old.e]
     IN  \/ Stops(e.key) = {} /\ Place(e.key, e.val)
         \/ Stops(e.key) # {} /\ UNCHANGED <<nb, cap, ent, head, tailLink, len, order>>
  /\ UNCHANGED <<old, frozen, itercount, iters, ret>>

(* One iteration of grow's loop.  The code ignores the result of insert,   *)
(* which "can't fail": only the path that places the key is modelled, and  *)
(* GrowCannotFail below says that insert takes no other.                   *)
GrowStep ==
  /\ old.on /\ old.e # Nil
  /\ LET e == old.ent[old.e]
     IN  /\ Stops(e.key) = {} /\ ~Overloaded(len, nb)
         /\ Place(e.key, e.val)
         /\ old' = [old EXCEPT !.e = e.next]
  /\ UNCHANGED <<frozen, itercount, iters, ret>>

(* After grow, insert retries the key it was called with. *)
GrowEnd ==
  /\ old.on /\ old.e = Nil
  /\ Stops(old.k) = {} /\ ~Overloaded(len, nb)
  /\ Place(old.k, old.v)
  /\ old' = NotGrowing
  /\ ret' = "ok"
  /\ UNCHANGED <<frozen, itercount, iters>>

Insert(k, v) == InsertNew(k, v) \/ InsertKnown(k, v)
-----------------------------------------------------------------------------
(* The sequence o without its element a. *)
Without(o, a) ==
  LET p == CHOOSE i \in 1 .. Len(o) : o[i] = a
  IN  [i \in 1 .. Len(o) - 1 |-> IF i < p THEN o[i] ELSE o[i + 1]]

(* A wrong unlinking, that forgets that the last entry may go. *)
UnlinkKeepsTail(a) ==
  LET p == ent[a].prev
      n == ent[a].next
  IN  /\ head' = IF p = HeadLink THEN n ELSE head
      /\ tailLink' = tailLink
      /\ ent' = [x \in DOMAIN ent \ {a} |->
                   IF x = p THEN [ent[x] EXCEPT !.next = n]
                   ELSE IF x = n THEN [ent[x] EXCEPT !.prev = p]
                   ELSE ent[x]]
      /\ len' = len - 1
      /\ order' = Without(order, a)

(* Take entry a out of the list and zero its slot. *)
Unlink(a) ==
  LET p == ent[a].prev
      n == ent[a].next
  IN  /\ head' = IF p = HeadLink THEN n ELSE head
      /\ tailLink' = IF n = Nil THEN p ELSE tailLink
      /\ ent' = [x \in DOMAIN ent \ {a} |->
                   IF x = p THEN [ent[x] EXCEPT !.next = n]
                   ELSE IF x = n THEN [ent[x] EXCEPT !.prev = p]
                   ELSE ent[x]]
      /\ len' = len - 1
      /\ order' = Without(order, a)

DeleteFound(k) ==
  /\ Idle /\ Mutable /\ k \notin Unhashable /\ Stops(k) # {}
  /\ LET a == FirstOf(Stops(k))
     IN  /\ Equal(k, ent[a].key) = "eq"
         /\ Unlink(a)
         /\ ret' = ent[a].val
  /\ UNCHANGED <<nb, cap, old, frozen, itercount, iters>>

DeleteOther(k) ==
  /\ Idle
  /\ \/ ~Mutable /\ Answer(Refusal)
     \/ Mutable /\ nb = 0 /\ Answer("missing")
     \/ Mutable /\ nb # 0 /\ k \in Unhashable /\ Answer("unhashable")
     \/ /\ Mutable /\ nb # 0 /\ k \notin Unhashable
        /\ \/ Stops(k) = {} /\ Answer("missing")
           \/ /\ Stops(k) # {} /\ Equal(k, ent[FirstOf(Stops(k))].key) = "err"
              /\ Answer("depth")

(* lookup changes nothing; a table that was not allocated holds no key. *)
Lookup(k) ==
  /\ Idle
  /\ \/ k \in Unhashable /\ Answer("unhashable")
     \/ k \notin Unhashable /\ Stops(k) = {} /\ Answer("missing")
     \/ /\ k \notin Unhashable /\ Stops(k) # {}
        /\ LET e == ent[FirstOf(Stops(k))]
           IN  Answer(IF Equal(k, e.key) = "err" THEN "depth" ELSE e.val)

(* clear drops the buckets added to the chains and keeps the table. *)
Clear ==
  /\ Idle
  /\ \/ ~Mutable /\ Answer(Refusal)
     \/ /\ Mutable
        /\ cap' = Fresh(nb)
        /\ ent' = Empty /\ head' = Nil /\ tailLink' = HeadLink /\ len' = 0
        /\ order' = <<>>
        /\ ret' = "ok"
        /\ UNCHANGED <<nb, old, frozen, itercount, iters>>

(* freeze (of this table; what it does to keys and values is not here). *)
Freeze ==
  /\ Idle
  /\ frozen' = TRUE
  /\ ret' = "ok"
  /\ UNCHANGED <<contents, itercount, iters>>
-----------------------------------------------------------------------------
Deref(link) == IF link = HeadLink THEN head ELSE ent[link].next

(* iterate, keyIterator.Next and keyIterator.Done. *)
Iterate(i) ==
  /\ Idle /\ iters[i].kind = "off"
  /\ itercount' = IF frozen THEN itercount ELSE itercount + 1
  /\ iters' = [iters EXCEPT ![i] = [kind |-> "key", e |-> head, counted |-> FALSE]]
  /\ ret' = "ok"
  /\ UNCHANGED <<contents, frozen>>

NextKey(i) ==
  /\ Idle /\ iters[i].kind = "key" /\ iters[i].e # Nil
  /\ ret' = ent[iters[i].e].key
  /\ iters' = [iters EXCEPT ![i].e = ent[iters[i].e].next]
  /\ UNCHANGED <<contents, frozen, itercount>>

(* Wrong versions of Done: it decrements whether frozen or not; it does    *)
(* not decrement.                                                          *)
DoneAlwaysCounts(i) ==
  /\ Idle /\ iters[i].kind = "key"
  /\ itercount' = itercount - 1
  /\ iters' = [iters EXCEPT ![i] = Off]
  /\ ret' = "ok"
  /\ UNCHANGED <<contents, frozen>>

DoneNeverCounts(i) ==
  /\ Idle /\ iters[i].kind = "key"
  /\ iters' = [iters EXCEPT ![i] = Off]
  /\ ret' = "ok"
  /\ UNCHANGED <<contents, frozen, itercount>>

Done(i) ==
  /\ Idle /\ iters[i].kind = "key"
  /\ itercount' = IF frozen THEN itercount ELSE itercount - 1
  /\ iters' = [iters EXCEPT ![i] = Off]
  /\ ret' = "ok"
  /\ UNCHANGED <<contents, frozen>>

(* entries, the range-over-func iteration: the decrement is deferred when  *)
(* the iteration began unfrozen.  e is the entry last passed to yield.     *)
EntriesBegin(i) ==
  /\ Idle /\ iters[i].kind = "off"
  /\ itercount' = IF frozen THEN itercount ELSE itercount + 1
  /\ iters' = [iters EXCEPT ![i] = [kind |-> "entries", e |-> HeadLink, counted |-> ~frozen]]
  /\ ret' = "ok"
  /\ UNCHANGED <<contents, frozen>>

EntriesYield(i) ==
  /\ Idle /\ iters[i].kind = "entries"
  /\ Deref(iters[i].e) # Nil
  /\ ret' = ent[Deref(iters[i].e)].key
  /\ iters' = [iters EXCEPT ![i].e = Deref(iters[i].e)]
  /\ UNCHANGED <<contents, frozen, itercount>>

EntriesEnd(i) ==
  /\ Idle /\ iters[i].kind = "entries"
  /\ itercount' = IF iters[i].counted THEN itercount - 1 ELSE itercount
  /\ iters' = [iters EXCEPT ![i] = Off]
  /\ ret' = "ok"
  /\ UNCHANGED <<contents, frozen>>

Next ==
  \/ \E k \in Key, v \in Value : Insert(k, v)
  \/ \E k \in Key : InsertRefused(k) \/ DeleteFound(k) \/ DeleteOther(k) \/ Lookup(k)
  \/ GrowStep
  \/ GrowEnd
  \/ Clear
  \/ Freeze
  \/ \E i \in Iter : \/ Iterate(i) \/ NextKey(i) \/ Done(i)
                     \/ EntriesBegin(i) \/ EntriesYield(i) \/ EntriesEnd(i)

Spec == Init /\ [][Next]_vars

(* An insertion that has called grow runs to its end: it is sequential code. *)
FairSpec == Spec /\ WF_vars(GrowStep \/ GrowEnd)
-----------------------------------------------------------------------------
Entry == [key : Key, val : Value, next : Addr \cup {Nil}, prev : Addr \cup {HeadLink}]

EntryMap(f) == f \in [DOMAIN f -> Entry] /\ DOMAIN f \subseteq Addr

Iterator == [kind : {"off", "key", "entries"}, e : Addr \cup {Nil}, counted : BOOLEAN]

TableTypeOK ==
  /\ nb \in Nat
  /\ cap \in [0 .. nb - 1 -> Nat]
  /\ EntryMap(ent)
  /\ head \in Addr \cup {Nil}
  /\ tailLink \in Addr \cup {HeadLink}
  /\ len \in Nat
  /\ order \in Seq(Addr)

GrowTypeOK ==
  \/ old = NotGrowing
  \/ /\ old \in [on : {TRUE}, ent : {old.ent}, e : Addr \cup {Nil},
                 k : Key \ Unhashable, v : Value, order : Seq(Addr)]
     /\ EntryMap(old.ent)

(* Every variable has its type. *)
TypeOK ==
  /\ TableTypeOK
  /\ GrowTypeOK
  /\ frozen \in BOOLEAN
  /\ itercount \in Nat
  /\ iters \in [Iter -> Iterator]

(* The pointers next and prev link the entries of f in the order o. *)
Chain(f, o) ==
  /\ \A i \in 1 .. Len(o) : o[i] \in DOMAIN f
  /\ \A a \in DOMAIN f : \E i \in 1 .. Len(o) : o[i] = a
  /\ \A i, j \in 1 .. Len(o) : o[i] = o[j] => i = j
  /\ \A i \in 1 .. Len(o) :
       /\ f[o[i]].next = IF i = Len(o) THEN Nil ELSE o[i + 1]
       /\ f[o[i]].prev = IF i = 1 THEN HeadLink ELSE o[i - 1]

(* The linked list holds exactly the entries in use, each once, in the     *)
(* order of their insertion; prevLink and tailLink agree with it; ht.len   *)
(* counts it (insert's append, delete's unlinking, clear, grow).           *)
ListInOrder ==
  /\ Chain(ent, order)
  /\ head = IF Len(order) = 0 THEN Nil ELSE order[1]
  /\ tailLink = IF Len(order) = 0 THEN HeadLink ELSE order[Len(order)]
  /\ len = Len(order)

(* Every entry the list holds is the one, and the only one, that a lookup  *)
(* of its key stops at: none is stranded in a chain its hash no longer     *)
(* selects, and no two are equal (insert, grow, delete and the zero hash). *)
LookupFinds == \A a \in DOMAIN ent : Stops(ent[a].key) = {a}

(* The comment "can't fail" in grow: while entries move to the new table,  *)
(* the next insertion neither meets an equal or incomparable key nor finds *)
(* the new table overloaded, so no entry is dropped and grow does not      *)
(* reenter itself.                                                         *)
GrowCannotFail ==
  old.on => LET k == IF old.e = Nil THEN old.k ELSE old.ent[old.e].key
            IN  Stops(k) = {} /\ ~Overloaded(len, nb)

Live == {i \in Iter : iters[i].kind # "off"}
Deferring == {i \in Live : iters[i].counted}

(* While the table is not frozen, itercount is the number of iterations in *)
(* progress, so it forbids updates exactly while there is one; frozen or   *)
(* not, the deferred decrement of entries never takes it below zero        *)
(* (Iterate, Done and entries test frozen at different times).             *)
IterCountExact ==
  /\ ~frozen => itercount = Cardinality(Live)
  /\ itercount >= Cardinality(Deferring)

(* An iterator never holds a pointer to an entry that has been deleted,    *)
(* cleared or left behind by grow.                                         *)
IterPointersLive ==
  \A i \in Iter : iters[i].e # Nil => iters[i].e \in DOMAIN ent

(* An insertion that makes the table grow returns: the loop over the old   *)
(* list and the retry end.                                                 *)
InsertReturns == old.on ~> ~old.on
-----------------------------------------------------------------------------
(* The map this table represents.  During grow it is the entries already   *)
(* moved followed by the old ones from the cursor on.                      *)
ItemsOf(f, o) == [i \in 1 .. Len(o) |-> [key |-> f[o[i]].key, val |-> f[o[i]].val]]
From(o, e) == IF e = Nil THEN <<>>
              ELSE SubSeq(o, CHOOSE i \in 1 .. Len(o) : o[i] = e, Len(o))
AbsItems == ItemsOf(ent, order) \o ItemsOf(old.ent, From(old.order, old.e))
AbsLeft == [i \in Iter |->
              LET it == iters[i]
                  e  == IF it.kind = "entries" THEN Deref(it.e) ELSE it.e
                  o  == From(order, e)
              IN  IF it.kind = "off" THEN <<>> ELSE [j \in 1 .. Len(o) |-> ent[o[j]].key]]

Map == INSTANCE OrderedMap WITH items <- AbsItems, left <- AbsLeft, active <- Live

(* The table implements the insertion-ordered map: every operation has the *)
(* map's effect and result, and growing is not observable.                 *)
ImplementsOrderedMap == Map!Spec
=============================================================================

------------------------------- MODULE BulkOps ------------------------------
(***************************************************************************)
(* The operations that build a dict or set out of others, element by       *)
(* element: Dict.Union, dict |= dict, dict.update, Set.clone, Union,       *)
(* InsertAll, Difference, Intersection, SymmetricDifference, IsSuperset    *)
(* and IsSubset (starlark/value.go, interp.go, library.go, hashtable.go).  *)
(*                                                                         *)
(* Each is a loop over one operand; a step here is one iteration of it.    *)
(* Tables are the maps of OrderedMap, which HashTable implements; alloc    *)
(* tells a table that was allocated from the zero value, the one thing     *)
(* about its representation that an operation reveals (delete).  No table  *)
(* is frozen or iterated over other than by the loop.                      *)
(***************************************************************************)
EXTENDS StarlarkKeys, FiniteSets

CONSTANTS
  NoneVal,  (* the value stored with the elements of a set   *)
  MaxX,     (* bound on the elements of the left operand     *)
  MaxY,     (* bound on the elements of the right operand    *)
  Ops       (* the operations to run                         *)

DictOps == {"union", "pipe_assign", "update"}
SetOps == {"set_union", "set_update", "difference", "intersection", "symmetric_difference"}
TestOps == {"issuperset", "issubset"}

ASSUME BulkAssumption ==
  /\ MaxX \in Nat /\ MaxY \in Nat
  /\ Ops \subseteq DictOps \cup SetOps \cup TestOps

VARIABLES
  op,    (* the operation, or "none"                                        *)
  x,     (* left operand, as it was on entry: a sequence of items           *)
  y,     (* right operand: the items, or the elements, of what is iterated  *)
  z,     (* the table under construction: [alloc, items]                    *)
  todo,  (* items of x still to be copied to z                              *)
  i,     (* cursor in y                                                     *)
  seen,  (* issubset: positions of x found so far (the bitsets of count)    *)
  pc,    (* "copy", "loop" or "done"                                        *)
  err,   (* the error returned to the caller, or "none"                     *)
  lost   (* history: an insertion failed and the failure was discarded      *)

vars == <<op, x, y, z, todo, i, seen, pc, err, lost>>
-----------------------------------------------------------------------------
Item(k, v) == [key |-> k, val |-> v]
At(s, k) == {j \in DOMAIN s : Equal(k, s[j].key) # "ne"}

(* A wrong insert, that refuses a key that is there already. *)
InsertErrDuplicate(t, k) ==
  IF k \in Unhashable THEN "unhashable"
  ELSE IF At(t.items, k) # {} THEN "depth" ELSE "none"

(* What insert, delete and lookup return, in the order of their checks. *)
InsertErr(t, k) ==
  IF k \in Unhashable THEN "unhashable"
  ELSE IF At(t.items, k) # {} /\ k \in Deep THEN "depth" ELSE "none"
DeleteErr(t, k) == IF t.alloc THEN InsertErr(t, k) ELSE "none"
LookupErr(t, k) == InsertErr(t, k)
Has(t, k) == At(t.items, k) # {}

(* A wrong insert, in which an equal key replaces the one that is there. *)
InsertedRekeys(t, k, v) ==
  [alloc |-> TRUE,
   items |-> IF Has(t, k)
             THEN [j \in DOMAIN t.items |->
                     IF j \in At(t.items, k) THEN Item(k, v) ELSE t.items[j]]
             ELSE Append(t.items, Item(k, v))]

Inserted(t, k, v) ==
  IF k \in Unhashable \/ (Has(t, k) /\ k \in Deep) THEN [t EXCEPT !.alloc = TRUE]
  ELSE [alloc |-> TRUE,
        items |-> IF Has(t, k)
                  THEN [j \in DOMAIN t.items |->
                          IF j \in At(t.items, k) THEN Item(t.items[j].key, v) ELSE t.items[j]]
                  ELSE Append(t.items, Item(k, v))]
Deleted(t, k) ==
  IF ~Has(t, k) THEN t
  ELSE LET j == CHOOSE l \in At(t.items, k) : TRUE
       IN  [t EXCEPT !.items = SubSeq(@, 1, j - 1) \o SubSeq(@, j + 1, Len(@))]

(* A table's contents: hashable keys that were told apart when inserted. *)
Proper(s) ==
  \A j, l \in DOMAIN s : /\ s[j].key \notin Unhashable
                         /\ j # l => Class[s[j].key] # Class[s[l].key]
SeqsUpTo(S, n) == UNION {[1 .. m -> S] : m \in 0 .. n}
SetItems(s) == [j \in DOMAIN s |-> Item(s[j], NoneVal)]

New == [alloc |-> FALSE, items |-> <<>>]

(* Operands: a dict operation has two dicts, except that update takes any  *)
(* sequence of pairs; a set operation has a set and any iterable.          *)
(* pipe_assign, update and set_update work on x itself, which may be a     *)
(* zero table if it is empty; issuperset and issubset only read it; the    *)
(* others build a new table.                                               *)
Init ==
  /\ op \in Ops
  /\ \/ /\ op \in DictOps
        /\ x \in {s \in SeqsUpTo({Item(k, v) : k \in Key, v \in Value}, MaxX) : Proper(s)}
        /\ y \in {s \in SeqsUpTo({Item(k, v) : k \in Key, v \in Value}, MaxY) :
                 op = "update" \/ Proper(s)}
     \/ /\ op \in SetOps \cup TestOps
        /\ x \in {s \in {SetItems(t) : t \in SeqsUpTo(Key, MaxX)} : Proper(s)}
        /\ y \in {SetItems(t) : t \in SeqsUpTo(Key, MaxY)}
  /\ IF op \in {"pipe_assign", "update", "set_update"} \cup TestOps
     THEN \E a \in BOOLEAN : (x # <<>> => a) /\ z = [alloc |-> a, items |-> x]
     ELSE z = [New EXCEPT !.alloc = (op = "union")]
  /\ todo = IF op \in {"union", "set_union", "difference", "symmetric_difference"}
            THEN x ELSE <<>>
  /\ i = 1 /\ seen = {} /\ pc = "copy" /\ err = "none" /\ lost = FALSE

(* No operation at all. *)
Idle ==
  /\ op = "none" /\ pc = "done"
  /\ x = <<>> /\ y = <<>> /\ todo = <<>> /\ i = 1 /\ z = New
  /\ seen = {} /\ err = "none" /\ lost = FALSE
-----------------------------------------------------------------------------
(* The copy of x into the new table: addAll(&x.ht) in Dict.Union, which    *)
(* stops at the first error, and Set.clone, which goes on.  Both discard   *)
(* the error.                                                              *)
Copy ==
  /\ pc = "copy" /\ todo # <<>>
  /\ LET e == Head(todo)
         failed == InsertErr(z, e.key) # "none"
     IN  /\ z' = Inserted(z, e.key, e.val)
         /\ lost' = (lost \/ failed)
         /\ todo' = IF failed /\ op = "union" THEN <<>> ELSE Tail(todo)
  /\ UNCHANGED <<op, x, y, i, seen, pc, err>>

CopyDone ==
  /\ pc = "copy" /\ todo = <<>>
  /\ pc' = "loop"
  /\ UNCHANGED <<op, x, y, z, todo, i, seen, err, lost>>

Return(e) == pc' = "done" /\ err' = e
Advance == i' = i + 1 /\ UNCHANGED <<pc, err>>

(* The insertion of y's item i; what becomes of an error depends on op. *)
AddItem ==
  /\ pc = "loop" /\ i <= Len(y)
  /\ op \in {"union", "pipe_assign", "update", "set_union", "set_update"}
  /\ LET e == y[i]
         failure == InsertErr(z, e.key)
         ignored == op \in {"union", "pipe_assign"}
     IN  /\ z' = Inserted(z, e.key, e.val)
         /\ lost' = (lost \/ (failure # "none" /\ ignored))
         /\ \/ failure = "none" /\ Advance
            \/ failure # "none" /\ Return(IF ignored THEN "none" ELSE failure) /\ UNCHANGED i
  /\ UNCHANGED <<op, x, y, todo, seen>>

Remove ==
  /\ pc = "loop" /\ i <= Len(y) /\ op = "difference"
  /\ LET k == y[i].key
     IN  \/ DeleteErr(z, k) = "none" /\ z' = Deleted(z, k) /\ Advance
         \/ DeleteErr(z, k) # "none" /\ Return(DeleteErr(z, k)) /\ UNCHANGED <<z, i>>
  /\ UNCHANGED <<op, x, y, todo, seen, lost>>

(* SymmetricDifference: delete the element, or insert it if it was not     *)
(* there; the result of that insertion is discarded.                       *)
Toggle ==
  /\ pc = "loop" /\ i <= Len(y) /\ op = "symmetric_difference"
  /\ LET k == y[i].key
         found == Has(z, k)
     IN  \/ /\ DeleteErr(z, k) = "none"
            /\ z' = IF found THEN Deleted(z, k) ELSE Inserted(z, k, NoneVal)
            /\ lost' = (lost \/ (~found /\ InsertErr(z, k) # "none"))
            /\ Advance
         \/ DeleteErr(z, k) # "none" /\ Return(DeleteErr(z, k)) /\ UNCHANGED <<z, i, lost>>
  /\ UNCHANGED <<op, x, y, todo, seen>>

Self == [alloc |-> TRUE, items |-> x]

Keep ==
  /\ pc = "loop" /\ i <= Len(y) /\ op = "intersection"
  /\ LET k == y[i].key
         failure == IF LookupErr(Self, k) # "none" THEN LookupErr(Self, k)
                    ELSE IF Has(Self, k) THEN InsertErr(z, k) ELSE "none"
     IN  \/ /\ failure = "none" /\ Advance
            /\ z' = IF Has(Self, k) THEN Inserted(z, k, NoneVal) ELSE z
         \/ failure # "none" /\ Return(failure) /\ UNCHANGED <<z, i>>
  /\ UNCHANGED <<op, x, y, todo, seen, lost>>

(* IsSuperset returns at the first element that is not found. *)
TestSuperset ==
  /\ pc = "loop" /\ i <= Len(y) /\ op = "issuperset"
  /\ LET k == y[i].key
     IN  \/ LookupErr(z, k) = "none" /\ Has(z, k) /\ Advance
         \/ /\ LookupErr(z, k) # "none" \/ ~Has(z, k)
            /\ Return(LookupErr(z, k)) /\ UNCHANGED i
  /\ UNCHANGED <<op, x, y, z, todo, seen, lost>>

(* A wrong count, that stops one element early. *)
TestSubsetStopsEarly ==
  /\ pc = "loop" /\ i <= Len(y) /\ op = "issubset"
  /\ IF ~z.alloc \/ Cardinality(seen) + 1 >= Len(x)
     THEN Return("none") /\ UNCHANGED <<i, seen>>
     ELSE LET k == y[i].key
          IN  \/ LookupErr(z, k) = "none" /\ seen' = seen \cup At(x, k) /\ Advance
              \/ LookupErr(z, k) # "none" /\ Return(LookupErr(z, k)) /\ UNCHANGED <<i, seen>>
  /\ UNCHANGED <<op, x, y, z, todo, lost>>

(* IsSubset: count marks the elements of x met in y, and returns at once   *)
(* if the table is not allocated, or when all have been met.               *)
TestSubset ==
  /\ pc = "loop" /\ i <= Len(y) /\ op = "issubset"
  /\ IF ~z.alloc \/ Cardinality(seen) = Len(x)
     THEN Return("none") /\ UNCHANGED <<i, seen>>
     ELSE LET k == y[i].key
          IN  \/ LookupErr(z, k) = "none" /\ seen' = seen \cup At(x, k) /\ Advance
              \/ LookupErr(z, k) # "none" /\ Return(LookupErr(z, k)) /\ UNCHANGED <<i, seen>>
  /\ UNCHANGED <<op, x, y, z, todo, lost>>

Finish ==
  /\ pc = "loop" /\ i > Len(y)
  /\ Return("none")
  /\ UNCHANGED <<op, x, y, z, todo, i, seen, lost>>

Next == Copy \/ CopyDone \/ AddItem \/ Remove \/ Toggle \/ Keep
        \/ TestSuperset \/ TestSubset \/ Finish

Spec == Init /\ [][Next]_vars
-----------------------------------------------------------------------------
(* Every variable has its type, and a table tells its keys apart. *)
TypeOK ==
  /\ op \in Ops \cup {"none"}
  /\ pc \in {"copy", "loop", "done"}
  /\ err \in {"none", "unhashable", "depth"}
  /\ i \in 1 .. Len(y) + 1
  /\ seen \subseteq DOMAIN x
  /\ lost \in BOOLEAN
  /\ z.alloc \in BOOLEAN /\ Proper(z.items)

Answered == pc = "done" /\ err = "none"
Classes(s) == {Class[s[j].key] : j \in DOMAIN s}
Where(s, c) == CHOOSE j \in DOMAIN s : Class[s[j].key] = c
LastIn(s, c) == CHOOSE j \in DOMAIN s :
                  Class[s[j].key] = c /\ \A l \in j + 1 .. Len(s) : Class[s[l].key] # c
FirstIn(s, c) == CHOOSE j \in DOMAIN s :
                   Class[s[j].key] = c /\ \A l \in 1 .. j - 1 : Class[s[l].key] # c

(* doc/spec.md on dict | dict, |= and set.union: the result has the keys   *)
(* of both operands, the left operand's first and then the others in the   *)
(* order they first appear, and the right operand's (last) value where it  *)
(* has the key; the kept key of an equal pair is the left one.             *)
UnionExact ==
  /\ TypeOK
  /\ Answered /\ ~lost /\ op \in {"union", "pipe_assign", "update", "set_union", "set_update"} =>
    LET added == Classes(y) \ Classes(x)
    IN  /\ Len(z.items) = Len(x) + Cardinality(added)
        /\ \A j \in DOMAIN x : z.items[j].key = x[j].key
        /\ \A c \in added : z.items[Where(z.items, c)].key = y[FirstIn(y, c)].key
        /\ \A c, d \in added :
             Where(z.items, c) < Where(z.items, d) <=> FirstIn(y, c) < FirstIn(y, d)
        /\ op \in DictOps =>
             \A c \in Classes(z.items) :
               z.items[Where(z.items, c)].val =
                 IF c \in Classes(y) THEN y[LastIn(y, c)].val ELSE x[Where(x, c)].val

(* Set.Difference and Set.Intersection return the difference and the       *)
(* intersection, whatever y repeats; issuperset and issubset decide        *)
(* inclusion although they stop early.                                     *)
SetAlgebraExact ==
  Answered =>
    /\ op = "difference" => Classes(z.items) = Classes(x) \ Classes(y)
    /\ op = "intersection" => Classes(z.items) = Classes(x) \cap Classes(y)
    /\ op = "issuperset" => ((i > Len(y)) <=> Classes(y) \subseteq Classes(x))
    /\ op = "issubset" => ((Cardinality(seen) = Len(x)) <=> Classes(x) \subseteq Classes(y))

(* Set.SymmetricDifference of an iterable that repeats no element returns  *)
(* what doc/spec.md:3757 says: the items of S not in y, and those of y not *)
(* in S.                                                                   *)
Repeats(s) == \E j, l \in DOMAIN s : j # l /\ Class[s[j].key] = Class[s[l].key]
SymmetricExact ==
  Answered /\ ~lost /\ op = "symmetric_difference" /\ ~Repeats(y) =>
    Classes(z.items) = (Classes(x) \ Classes(y)) \cup (Classes(y) \ Classes(x))

(* Where y repeats an element the code departs from doc/spec.md:3757: it   *)
(* toggles the element at each occurrence (starlark/value.go, Set.Symmet-  *)
(* ricDifference), so one that occurs an even number of times is left as   *)
(* it was, in S or not, where the document takes it away or inserts it.    *)
RepeatsToggle ==
  Answered /\ ~lost /\ op = "symmetric_difference" /\ Repeats(y) =>
    LET odd == {c \in Classes(y) :
                  Cardinality({j \in DOMAIN y : Class[y[j].key] = c}) % 2 = 1}
    IN  Classes(z.items) = (Classes(x) \ odd) \cup (odd \ Classes(x))

(* The set operations return what doc/spec.md says of them, but for        *)
(* symmetric_difference of an iterable with repeated elements, which does  *)
(* what RepeatsToggle says and the document does not.                      *)
AlgebraExact == SetAlgebraExact /\ SymmetricExact /\ RepeatsToggle

(* The comments "can't fail" on the insertions whose error is discarded    *)
(* are right but for two cases: a union of dicts that share a deep key,    *)
(* and SymmetricDifference of an empty set (which hashed nothing before)   *)
(* and an unhashable element.                                              *)
LostOnlyIf ==
  lost =>
    \/ /\ op \in {"union", "pipe_assign"}
       /\ \E j \in DOMAIN y : y[j].key \in Deep /\ At(x, y[j].key) # {}
    \/ op = "symmetric_difference" /\ x = <<>> /\ \E j \in DOMAIN y : y[j].key \in Unhashable

(* The copy of the left operand never fails, whatever its keys: they were  *)
(* told apart once, and are compared in the same pairs again.              *)
CopyCannotFail == pc = "copy" => ~lost

(* An insertion whose error is discarded fails in the two cases only. *)
DiscardedOnlyIf == LostOnlyIf /\ CopyCannotFail
=============================================================================

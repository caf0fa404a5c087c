----------------------------- MODULE OrderedMap -----------------------------
(***************************************************************************)
(* What a Starlark dict or set promises: a map that remembers the order in *)
(* which its keys were first inserted, refuses every update while it is    *)
(* frozen or while some iteration of it is active, and whose iterations    *)
(* each yield the keys present when the iteration began, in order.         *)
(***************************************************************************)
EXTENDS StarlarkKeys

CONSTANT Iter   (* identifiers of iterations *)

VARIABLES
  items,    (* sequence of [key, val], in insertion order        *)
  frozen,
  left,     (* left[i]: keys iteration i has still to yield      *)
  active,   (* the iterations that have begun and not finished   *)
  ret       (* result of the last operation                      *)

absVars == <<items, frozen, left, active, ret>>

Mutable == ~frozen /\ active = {}

Refusal == IF frozen THEN "frozen" ELSE "iterating"

(* The positions whose key is not told apart from k. *)
At(k) == {i \in DOMAIN items : Equal(k, items[i].key) # "ne"}

Without(s, i) == SubSeq(s, 1, i - 1) \o SubSeq(s, i + 1, Len(s))

Keys == [i \in DOMAIN items |-> items[i].key]

Answer(r) == ret' = r /\ UNCHANGED <<items, frozen, left, active>>

Init ==
  /\ items = <<>>
  /\ frozen = FALSE
  /\ left = [i \in Iter |-> <<>>]
  /\ active = {}
  /\ ret = "none"

(* A new key goes to the end; a known one keeps its place and its key. *)
Insert(k, v) ==
  \/ ~Mutable /\ Answer(Refusal)
  \/ Mutable /\ k \in Unhashable /\ Answer("unhashable")
  \/ /\ Mutable /\ k \notin Unhashable /\ At(k) # {} /\ k \in Deep
     /\ Answer("depth")
  \/ /\ ret' = "ok" /\ Mutable /\ k \notin Unhashable /\ k \notin Deep
     /\ \E i \in At(k) : items' = [items EXCEPT ![i].val = v]
     /\ UNCHANGED <<frozen, left, active>>
  \/ /\ ret' = "ok" /\ Mutable /\ k \notin Unhashable
     /\ At(k) = {} /\ items' = Append(items, [key |-> k, val |-> v])
     /\ UNCHANGED <<frozen, left, active>>

(* An empty map may answer "missing" without hashing the key. *)
Delete(k) ==
  \/ ~Mutable /\ Answer(Refusal)
  \/ Mutable /\ k \in Unhashable /\ Answer("unhashable")
  \/ Mutable /\ items = <<>> /\ Answer("missing")
  \/ /\ Mutable /\ k \notin Unhashable /\ At(k) # {} /\ k \in Deep
     /\ Answer("depth")
  \/ Mutable /\ k \notin Unhashable /\ At(k) = {} /\ Answer("missing")
  \/ /\ Mutable /\ k \notin Unhashable /\ k \notin Deep
     /\ \E i \in At(k) : /\ items' = Without(items, i)
                         /\ ret' = items[i].val
     /\ UNCHANGED <<frozen, left, active>>

(* Reading is never refused. *)
Lookup(k) ==
  \/ k \in Unhashable /\ Answer("unhashable")
  \/ k \notin Unhashable /\ At(k) = {} /\ Answer("missing")
  \/ k \notin Unhashable /\ At(k) # {} /\ k \in Deep /\ Answer("depth")
  \/ /\ k \notin Unhashable /\ k \notin Deep
     /\ \E i \in At(k) : Answer(items[i].val)

Clear ==
  \/ ~Mutable /\ Answer(Refusal)
  \/ Mutable /\ items' = <<>> /\ ret' = "ok" /\ UNCHANGED <<frozen, left, active>>

Freeze == frozen' = TRUE /\ ret' = "ok" /\ UNCHANGED <<items, left, active>>

Begin(i) ==
  /\ i \notin active
  /\ active' = active \cup {i}
  /\ left' = [left EXCEPT ![i] = Keys]
  /\ ret' = "ok"
  /\ UNCHANGED <<items, frozen>>

Step(i) ==
  /\ i \in active /\ left[i] # <<>>
  /\ left' = [left EXCEPT ![i] = Tail(@)]
  /\ ret' = Head(left[i])
  /\ UNCHANGED <<items, frozen, active>>

Finish(i) ==
  /\ i \in active
  /\ active' = active \ {i}
  /\ left' = [left EXCEPT ![i] = <<>>]
  /\ ret' = "ok"
  /\ UNCHANGED <<items, frozen>>

Next ==
  \/ \E k \in Key, v \in Value : Insert(k, v)
  \/ \E k \in Key : Delete(k) \/ Lookup(k)
  \/ Clear
  \/ Freeze
  \/ \E i \in Iter : Begin(i) \/ Step(i) \/ Finish(i)

Spec == Init /\ [][Next]_absVars
=============================================================================

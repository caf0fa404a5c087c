---------------------------- MODULE MCHashTable -----------------------------
(***************************************************************************)
(* Constants for checking HashTable with TLC.  k0 hashes to zero, and so   *)
(* to the hash of k1 once the reserved value is replaced; k1 and k1f are   *)
(* equal (as 1 and 1.0 are); kd is a deep tuple whose hash is that of k3;  *)
(* ku cannot be hashed.  All are odd hashes: they share a chain until the  *)
(* table has four buckets.                                                 *)
(***************************************************************************)
EXTENDS HashTable, TLC

CONSTANTS k0, k1, k1f, k3, k5, kd, ku, v1, v2

AllClass ==
  (k0 :> 0) @@ (k1 :> 1) @@ (k1f :> 1) @@ (k3 :> 3) @@ (k5 :> 5) @@ (kd :> 13) @@ (ku :> 10)
AllHash ==
  (k0 :> 0) @@ (k1 :> 1) @@ (k1f :> 1) @@ (k3 :> 3) @@ (k5 :> 5) @@ (kd :> 3) @@ (ku :> 0)
MCClass == [k \in Key |-> AllClass[k]]
MCHashOf == [k \in Key |-> AllHash[k]]

(* Two ways to use a table, chosen at the start: to fill it with five keys *)
(* of one chain, so that it grows twice; and to iterate over a smaller one *)
(* with two iterators at a time, two values, two equal keys and one that   *)
(* cannot be hashed, and to freeze it.                                     *)
VARIABLE use
Uses == {[keys |-> {k0, k1, k3, k5, kd}, values |-> {v1}, iters |-> {}, size |-> 2],
         [keys |-> {k0, k1, k1f, ku}, values |-> {v1, v2}, iters |-> {1, 2}, size |-> 1]}

MCInit == Init /\ use \in {u \in Uses : nb \in {0} \cup InitBuckets(u.size)}
MCNext ==
  /\ \/ \E k \in use.keys, v \in use.values : Insert(k, v)
     \/ \E k \in use.keys : InsertRefused(k) \/ DeleteFound(k) \/ DeleteOther(k) \/ Lookup(k)
     \/ GrowStep \/ GrowEnd \/ Clear
     \/ use.iters # {} /\ Freeze
     \/ \E i \in use.iters : \/ Iterate(i) \/ NextKey(i) \/ Done(i)
                            \/ EntriesBegin(i) \/ EntriesYield(i) \/ EntriesEnd(i)
  /\ UNCHANGED use
MCSpec == MCInit /\ [][MCNext]_<<vars, use>> /\ WF_<<vars, use>>((GrowStep \/ GrowEnd) /\ UNCHANGED use)
=============================================================================

---------------------------- MODULE StarlarkKeys ----------------------------
(***************************************************************************)
(* What dicts and sets need to know of the values used as their keys: how  *)
(* Value.Hash and Equal answer (starlark/value.go).                        *)
(*                                                                         *)
(* Class[k] is the equivalence class of k under Equal: 1 and 1.0 are two   *)
(* keys of one class.  A key in Deep is a tuple nested deeper than         *)
(* CompareLimit: Equal has no identity shortcut, so comparing it with any  *)
(* key it is not told apart from within the limit, itself included, is an  *)
(* error; Class gathers the deep keys that are not told apart.             *)
(***************************************************************************)
EXTENDS Integers, Sequences

CONSTANTS
  Key,         (* values offered as keys                                   *)
  Value,       (* values stored under them                                 *)
  Unhashable,  (* keys whose Hash method fails (lists, dicts, sets...)     *)
  Deep,        (* hashable keys nested deeper than CompareLimit            *)
  Class,       (* equality class of each key                               *)
  HashOf       (* result of the Hash method of each hashable key           *)

(* Equal keys have equal hashes (the contract of Value.Hash), and keys of  *)
(* one class are all deep or all shallow.                                  *)
ASSUME KeyAssumption ==
  /\ Unhashable \subseteq Key
  /\ Deep \subseteq Key
  /\ Class \in [Key -> Int]
  /\ HashOf \in [Key -> Nat]
  /\ \A a, b \in Key : Class[a] = Class[b] => /\ HashOf[a] = HashOf[b]
                                              /\ a \in Deep <=> b \in Deep

(* The hash stored in an entry: zero is reserved for an empty slot. *)
Hash(k) == IF HashOf[k] = 0 THEN 1 ELSE HashOf[k]

(* Equal(a, b): "eq", "ne", or "err" when the recursion limit is hit. *)
Equal(a, b) ==
  IF Class[a] # Class[b] THEN "ne" ELSE IF a \in Deep THEN "err" ELSE "eq"
=============================================================================

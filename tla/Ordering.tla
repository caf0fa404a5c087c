------------------------------ MODULE Ordering ------------------------------
(***************************************************************************)
(* Comparison of values (starlark/value.go), and what is built on it:      *)
(* sorted, min and max (starlark/library.go).                              *)
(*                                                                         *)
(* A value is [t, n, e]: its type; its rank, if it is a number, a string   *)
(* or a bool; its elements otherwise, keys and values of a dict            *)
(* alternating.  NaN is the float of the highest rank: floatCmp puts it    *)
(* after all other numbers.  The keys of dicts, and the elements of sets,  *)
(* are scalars.  A comparison is "yes" or "no", or it fails: "depth" if it *)
(* recurs too deeply, "type" if there is no order.                         *)
(***************************************************************************)
EXTENDS Integers, Sequences, FiniteSets, Asked

CONSTANTS
  CompareLimit,
  NaN,          (* the rank of NaN among numbers                           *)
  Comparands,   (* values compared, and their elements                     *)
  SortKeys,     (* keys sorted                                             *)
  MaxKeys       (* bound on how many                                       *)

Scalar(t, n) == [t |-> t, n |-> n, e |-> <<>>]
Compound(t, e) == [t |-> t, n |-> 0, e |-> e]
Ranked == {"int", "float", "bool", "string"}
Numeric == {"int", "float"}
IsNaN(x) == x.t = "float" /\ x.n = NaN
Scalars == Ranked \cup {"NoneType"}
Types == Scalars \cup {"list", "tuple", "set", "dict"}

(* Numbers that are equal are the same key. *)
AsKey(k) == IF k.t = "float" THEN Scalar("int", k.n) ELSE k
Pairs(e) == 1 .. Len(e) \div 2
IsKeyed(keys) ==
  /\ \A i \in DOMAIN keys : keys[i].t \in Scalars
  /\ \A i, j \in DOMAIN keys : AsKey(keys[i]) = AsKey(keys[j]) => i = j

ASSUME OrderingAssumption ==
  /\ CompareLimit \in Nat \ {0}
  /\ \A x \in Comparands :
       /\ x \in [t : Types, n : Int, e : Seq(Comparands)]
       /\ x.t = "set" => IsKeyed(x.e)
       /\ x.t = "dict" => Len(x.e) % 2 = 0 /\ IsKeyed([j \in Pairs(x.e) |-> x.e[2 * j - 1]])
  /\ NaN \in Int
  /\ \A x \in Comparands : x.t \in Numeric /\ ~IsNaN(x) => x.n < NaN
  /\ SortKeys \subseteq Comparands
  /\ MaxKeys \in 0 .. 20

YesNo(b) == IF b THEN "yes" ELSE "no"
Negated(r) == CASE r = "yes" -> "no" [] r = "no" -> "yes" [] OTHER -> r
Failures == {"depth", "type"}
First(S) == CHOOSE i \in S : \A j \in S : i <= j
-----------------------------------------------------------------------------
Equality == {"==", "!="}
Operators == Equality \cup {"<", "<=", ">", ">="}
Threeway(op, cmp) ==
  YesNo(CASE op = "==" -> cmp = 0
          [] op = "!=" -> cmp # 0
          [] op = "<=" -> cmp <= 0
          [] op = "<" -> cmp < 0
          [] op = ">=" -> cmp >= 0
          [] op = ">" -> cmp > 0)

(* Lists and tuples: the first elements that differ decide, or the length. *)
(* Lists of different length are told apart without a look at an element.  *)
(* inner is the comparison of elements, one level deeper.                  *)
SliceCompare(op, x, y, inner) ==
  LET differ == {i \in DOMAIN x \cap DOMAIN y : inner["=="][x[i]][y[i]] # "yes"}
      i == First(differ)
      equal == inner["=="][x[i]][y[i]]
  IN  IF Len(x) # Len(y) /\ op \in Equality THEN YesNo(op = "!=")
      ELSE IF differ = {} THEN Threeway(op, Len(x) - Len(y))
      ELSE IF equal \in Failures THEN equal
      ELSE IF op \in Equality THEN YesNo(op = "!=")
      ELSE inner[op][x[i]][y[i]]

(* dictsEqual finds the keys of x in y, then compares the values in the    *)
(* order of x.                                                             *)
KeysOf(e) == {AsKey(e[2 * j - 1]) : j \in Pairs(e)}
ValueAt(e, k) == LET j == CHOOSE j \in Pairs(e) : AsKey(e[2 * j - 1]) = AsKey(k) IN e[2 * j]
DictsEqual(x, y, inner) ==
  LET found(j) == AsKey(x[2 * j - 1]) \in KeysOf(y)
      equal(j) == inner["=="][x[2 * j]][ValueAt(y, x[2 * j - 1])]
      decide == {j \in Pairs(x) : ~found(j) \/ equal(j) # "yes"}
  IN  IF Len(x) # Len(y) THEN "no"
      ELSE IF decide = {} THEN "yes"
      ELSE IF ~found(First(decide)) THEN "no"
      ELSE equal(First(decide))

(* Sets are ordered by inclusion; the lengths are compared first. *)
Includes(x, y) == {AsKey(y[i]) : i \in DOMAIN y} \subseteq {AsKey(x[i]) : i \in DOMAIN x}
SetCompare(op, x, y) ==
  YesNo(CASE op = "==" -> Len(x) = Len(y) /\ Includes(y, x)
          [] op = "!=" -> ~(Len(x) = Len(y) /\ Includes(y, x))
          [] op = ">=" -> Len(x) >= Len(y) /\ Includes(x, y)
          [] op = "<=" -> Len(x) <= Len(y) /\ Includes(y, x)
          [] op = ">" -> Len(x) > Len(y) /\ Includes(x, y)
          [] op = "<" -> Len(x) < Len(y) /\ Includes(y, x))

CompareSameType(op, x, y, inner) ==
  CASE x.t \in Ranked -> Threeway(op, x.n - y.n)
    [] x.t \in {"list", "tuple"} -> SliceCompare(op, x.e, y.e, inner)
    [] x.t = "set" -> SetCompare(op, x.e, y.e)
    [] x.t = "dict" /\ op = "==" -> DictsEqual(x.e, y.e, inner)
    [] x.t = "dict" /\ op = "!=" -> Negated(DictsEqual(x.e, y.e, inner))
    [] x.t = "NoneType" /\ op \in Equality -> YesNo(op = "==")
    [] x.t \in {"dict", "NoneType"} /\ op \notin Equality -> "type"

(* What a comparison may recur to: comparison[depth] is CompareDepth.      *)
comparison[depth \in 0 .. CompareLimit] ==
  [op \in Operators |-> [x \in Comparands |-> [y \in Comparands |->
     IF depth < 1 THEN "depth"
     ELSE IF x.t = y.t THEN CompareSameType(op, x, y, comparison[depth - 1])
     ELSE IF {x.t, y.t} = {"int", "float"} THEN Threeway(op, x.n - y.n)
     ELSE IF op \in Equality THEN YesNo(op = "!=") ELSE "type"]]]
CompareDepth(op, x, y, depth) == comparison[depth][op][x][y]
Compare(op, x, y) == CompareDepth(op, x, y, CompareLimit)
-----------------------------------------------------------------------------
(* A wrong reversal, that negates the order instead of swapping the sides. *)
LessNegated(keys, reverse, i, j) ==
  IF reverse THEN Negated(Compare("<", keys[i], keys[j])) ELSE Compare("<", keys[i], keys[j])

(* sorted: sort.Stable of up to twenty elements is an insertion sort that  *)
(* moves each element down while it is less than its predecessor, or, in   *)
(* reverse, its predecessor is less than it.  A comparison that fails      *)
(* counts as "no" and is remembered.  order[i] is the place of the i-th of *)
(* the result in the argument.                                             *)
Less(keys, reverse, i, j) ==
  IF reverse THEN Compare("<", keys[j], keys[i]) ELSE Compare("<", keys[i], keys[j])

Sink(keys, reverse, s, j) ==
  LET less(p) == Less(keys, reverse, s.order[j], s.order[p - 1])
      to == CHOOSE p \in 1 .. j : /\ \A q \in p + 1 .. j : less(q) = "yes"
                                  /\ p = 1 \/ less(p) # "yes"
  IN  [order |-> [i \in DOMAIN s.order |-> IF i = to THEN s.order[j]
                                           ELSE IF i \in to + 1 .. j THEN s.order[i - 1]
                                           ELSE s.order[i]],
       err |-> IF to > 1 /\ less(to) \in Failures THEN less(to) ELSE s.err]

UpTo(n) == [i \in 1 .. n |-> i]
Sorted(keys, reverse) ==
  LET sunk[j \in 0 .. Len(keys)] ==
        IF j = 0 THEN [order |-> UpTo(Len(keys)), err |-> "none"]
        ELSE Sink(keys, reverse, sunk[j - 1], j)
  IN  sunk[Len(keys)]

(* min and max keep the first extreme element, and stop at a failure. *)
Better(keys, op, s, j) ==
  LET r == Compare(op, keys[j], keys[s.best])
  IN  IF s.err # "none" THEN s
      ELSE IF r \in Failures THEN [best |-> s.best, err |-> r]
      ELSE IF r = "yes" THEN [best |-> j, err |-> "none"] ELSE s
Extremum(keys, op) ==
  LET seen[j \in 1 .. Len(keys)] ==
        IF j = 1 THEN [best |-> 1, err |-> "none"] ELSE Better(keys, op, seen[j - 1], j)
  IN  IF keys = <<>> THEN [best |-> 0, err |-> "empty"] ELSE seen[Len(keys)]
-----------------------------------------------------------------------------
(* A program compares values, or sorts some. *)
AskToCompare == question \in [kind : {"compare"}, values : [1 .. 3 -> Comparands]]
AskToSort ==
  \E n \in 0 .. MaxKeys :
    question \in [kind : {"sort"}, keys : [1 .. n -> SortKeys], reverse : BOOLEAN]
OrderingSpec == (AskToCompare \/ AskToSort) /\ NothingElse
-----------------------------------------------------------------------------
(* No set is among a value and its elements, as deep as comparison goes. *)
total[depth \in 0 .. CompareLimit] ==
  [x \in Comparands |->
     depth > 0 => x.t # "set" /\ \A i \in DOMAIN x.e : total[depth - 1][x.e[i]]]
Total(x) == total[CompareLimit][x]

(* doc/spec.md: lists and tuples are ordered lexicographically. *)
Lexicographic(x, y) ==
  \E i \in (DOMAIN x \cap DOMAIN y) \cup {0} :
    /\ \A j \in 1 .. i : Compare("==", x[j], y[j]) = "yes"
    /\ i < Len(y)
    /\ i = Len(x) \/ Compare("<", x[i + 1], y[i + 1]) = "yes"

(* The same answer, or none on either side. *)
Agree(r, s) == r = s \/ {r, s} \subseteq Failures

(* What doc/spec.md has comparison be: != the negation of ==, and a > b    *)
(* the same as b < a; == an equivalence on values shallow enough to        *)
(* compare; x <= y just if x < y or x == y, and x < y just if x <= y and   *)
(* x != y; <= transitive; lists and tuples lexicographical; < with ==      *)
(* total on values that it does not refuse, if no sets are among them.  Of *)
(* two dicts the first may be found unequal to the second while the second *)
(* is too deep to be compared with the first.                              *)
Lawful(x, y, z) ==
  LET eq == Compare("==", x, y)
      lt == Compare("<", x, y)
  IN  /\ Compare("!=", x, y) = Negated(eq)
      /\ eq = "yes" <=> Compare("==", y, x) = "yes"
      /\ Agree(lt, Compare(">", y, x)) /\ Agree(Compare("<=", x, y), Compare(">=", y, x))
      /\ Compare("==", x, x) \in {"yes", "depth"}
      /\ eq = "yes" /\ Compare("==", y, z) = "yes" => Compare("==", x, z) = "yes"
      /\ lt \in Failures <=> Compare("<=", x, y) \in Failures
      /\ lt \notin Failures => Compare("<=", x, y) = YesNo(lt = "yes" \/ eq = "yes")
      /\ lt = "yes" => eq = "no"
      /\ lt \notin Failures /\ x.t = y.t /\ x.t \in {"list", "tuple"} =>
           (lt = "yes" <=> Lexicographic(x.e, y.e))
      /\ lt \notin Failures /\ Total(x) =>
           Cardinality({r \in {"<", "==", ">"} : Compare(r, x, y) = "yes"}) = 1
      /\ Compare("<=", x, y) = "yes" /\ Compare("<=", y, z) = "yes" =>
           Compare("<=", x, z) = "yes"

(* NaN is not among a value and what it holds, as deep as comparison goes. *)
ordinary[depth \in 0 .. CompareLimit] ==
  [x \in Comparands |->
     depth > 0 => ~IsNaN(x) /\ \A i \in DOMAIN x.e : ordinary[depth - 1][x.e[i]]]
Ordinary(x) == ordinary[CompareLimit][x]

(* Comparison is what doc/spec.md says of values that hold no NaN. *)
ComparedAsSpecified(x, y, z) ==
  Ordinary(x) /\ Ordinary(y) /\ Ordinary(z) => Lawful(x, y, z)

(* Where the code departs from the document.  A NaN is equal to itself and *)
(* greater than any other number, and a list that holds one is equal to    *)
(* itself, so the laws have no exception: floatCmp (starlark/value.go:500) *)
(* against doc/spec.md:466-471 and 1853-1856 (a NaN is neither less than,  *)
(* greater than, nor equal to any value) and the comment at value.go:1027. *)
(* And None is not ordered, against the table at doc/spec.md:1844.         *)
ComparedOtherwise(x, y, z) ==
  /\ ~(Ordinary(x) /\ Ordinary(y) /\ Ordinary(z)) => Lawful(x, y, z)
  /\ IsNaN(x) /\ y.t \in Numeric =>
       /\ Compare("==", x, y) = YesNo(IsNaN(y))
       /\ Compare(">", x, y) = YesNo(~IsNaN(y))
  /\ x.t = "NoneType" /\ y.t = "NoneType" => Compare("<=", x, y) = "type"

Orderable(keys) == \A i, j \in DOMAIN keys : i # j => Compare("<", keys[i], keys[j]) \notin Failures

(* sorted returns a permutation in which each element is at most (or, in   *)
(* reverse, at least) those after it, in the order of the code, which has  *)
(* NaN last, and elements that are equal keep their order in either        *)
(* direction; it fails just if some two of the keys have no order.         *)
SortedStably(keys, reverse, s) ==
  /\ s.err = "none" <=> Orderable(keys)
  /\ s.err = "none" =>
       /\ DOMAIN s.order = DOMAIN keys /\ {s.order[i] : i \in DOMAIN keys} = DOMAIN keys
       /\ \A i, j \in DOMAIN s.order : i < j =>
            \/ Compare(IF reverse THEN ">" ELSE "<", keys[s.order[i]], keys[s.order[j]]) = "yes"
            \/ Compare("==", keys[s.order[i]], keys[s.order[j]]) = "yes" /\ s.order[i] < s.order[j]

(* min (max) returns the first element that none is less (greater) than.   *)
IsExtremum(keys, op, s) ==
  Orderable(keys) /\ keys # <<>> =>
    /\ s.err = "none" /\ s.best \in DOMAIN keys
    /\ \A j \in DOMAIN keys \ {s.best} :
         /\ Compare(op, keys[j], keys[s.best]) = "no"
         /\ j < s.best => Compare(op, keys[s.best], keys[j]) = "yes"

SortsRight(keys, reverse) ==
  (\A i \in DOMAIN keys : Total(keys[i])) =>
    /\ SortedStably(keys, reverse, Sorted(keys, reverse))
    /\ LET extreme == IF reverse THEN ">" ELSE "<"
       IN  IsExtremum(keys, extreme, Extremum(keys, extreme))

(* Comparison is what doc/spec.md says, at any depth it reaches, except of *)
(* NaN and None, for which it is what ComparedOtherwise says; sorted is    *)
(* stable in both directions and fails just if two of its keys have no     *)
(* order; min and max return the first extreme element; of keys without    *)
(* sets, which are ordered in part.                                        *)
OrderExact ==
  /\ question.kind = "compare" =>
       LET v == question.values
       IN  ComparedAsSpecified(v[1], v[2], v[3]) /\ ComparedOtherwise(v[1], v[2], v[3])
  /\ question.kind = "sort" => SortsRight(question.keys, question.reverse)
=============================================================================

------------------------------ MODULE MCLibrary -----------------------------
(***************************************************************************)
(* Constants for checking Library with TLC.  Of the keys of dicts and      *)
(* sets, k1 and k1f are equal, kd is a deep tuple, ku cannot be hashed.    *)
(***************************************************************************)
EXTENDS Library, TLC

CONSTANTS k1, k1f, k2, k3, kd, ku, v1, v2

AllClass == (k1 :> 1) @@ (k1f :> 1) @@ (k2 :> 2) @@ (k3 :> 3) @@ (kd :> 4) @@ (ku :> 5)
AllHash == (k1 :> 1) @@ (k1f :> 1) @@ (k2 :> 2) @@ (k3 :> 3) @@ (kd :> 4) @@ (ku :> 0)
MCClass == [k \in Key |-> AllClass[k]]
MCHashOf == [k \in Key |-> AllHash[k]]

(* Indices within and just outside the sequences, two far away and one too *)
(* large for an index.                                                     *)
MCRangeArgs == {<<a, b, c>> : a \in {-1, 0, 2}, b \in {-4, 0, 3, 5}, c \in {-2, -1, 1, 2}}
MCIndexArgs == {-100, -3, -2, -1, 0, 1, 2, 3, 100, 200}

(* What keeps slices of these ranges within ints of 16 bits; an index or a *)
(* stride is 100 at most.                                                  *)
MCSteps == [c \in 0 .. Calls + 1 |-> 2 * 100 ^ c]
ASSUME LibraryFits == Fits(5, MCSteps)

One == Scalar("int", 1)
Two == Scalar("int", 2)
Word1 == Scalar("string", 1)
NotANumber == Scalar("float", NaN)
ListOf(s) == Compound("list", s)
SetOf(s) == Compound("set", s)
DictOf(s) == Compound("dict", s)

(* Equal numbers of both types, and NaN, by itself and in a list; lists    *)
(* with a common prefix, of elements with an order and without, and as     *)
(* deep as the limit and below it; sets that include one another or not;   *)
(* dicts in two orders, and two of which only one finds the other too      *)
(* deep.                                                                   *)
Lists == {ListOf(s) : s \in {<<>>, <<One>>, <<One, Word1>>, <<One, Two>>, <<Two>>}}
MCSortKeys ==
  {One, Two, Scalar("float", 1), NotANumber, Word1, Scalar("NoneType", 0)} \cup
  {ListOf(<<One>>), ListOf(<<One, Word1>>), ListOf(<<One, Two>>)}
Deeper == ListOf(<<ListOf(<<One>>)>>)
Compared ==
  {One, Two, Scalar("float", 1), NotANumber, Word1, Scalar("bool", 1), Scalar("NoneType", 0)}
  \cup Lists \cup {Deeper, ListOf(<<ListOf(<<ListOf(<<>>)>>)>>), ListOf(<<NotANumber>>), Compound("tuple", <<One>>)}
  \cup {SetOf(<<One>>), SetOf(<<One, Two>>), SetOf(<<Two, Scalar("float", 1)>>), SetOf(<<Two>>)}
  \cup {ListOf(<<SetOf(<<Two>>)>>), ListOf(<<SetOf(<<One, Two>>)>>)}
  \cup {DictOf(<<One, Two>>), DictOf(<<One, ListOf(<<>>), Two, Word1>>),
        DictOf(<<Two, Word1, One, ListOf(<<>>)>>),
        DictOf(<<One, Deeper, Two, Word1>>), DictOf(<<Two, Two, One, Deeper>>)}
WithElements(S) == S \cup UNION {{c.e[n] : n \in DOMAIN c.e} : c \in S}
MCComparands == WithElements(WithElements(WithElements(Compared)))

MCNumerals == -20 .. 20

MCParameters == [name : {"a", "b"}, mark : {"", "?", "??"}, type : {"Value", "int"}]

(* Keys out of order, and one that is not a string. *)
MCKeyLists == {<<>>, <<0>>, <<2, 1>>}
MCTokens == {Mark(t) : t \in {"[", "]", "{", "}", ",", ":", "null"}} \cup {[t |-> "string", n |-> 1]}
=============================================================================

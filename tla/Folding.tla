-------------------------------- MODULE Folding --------------------------------
(***************************************************************************)
(* The fold of a long sequence, by halves: the depth of the evaluation     *)
(* grows with the logarithm of the length, where that of FoldLeft grows    *)
(* with the length.  TLC evaluates an argument when it is first used, so   *)
(* the first half is looked at, without effect, before the second begins.  *)
(***************************************************************************)
EXTENDS Integers, Sequences

LeftFold(op(_, _), base, s) ==
  LET RECURSIVE from(_, _, _)
      from(acc, i, j) ==
        LET mid == (i + j) \div 2
            half == from(acc, i, mid)
        IN CASE i > j -> acc
             [] i = j -> op(acc, s[i])
             [] i < j /\ half \notin {} -> from(half, mid + 1, j)
  IN from(base, 1, Len(s))

Concat(ss) == LeftFold(LAMBDA acc, x : acc \o x, <<>>, ss)
=============================================================================

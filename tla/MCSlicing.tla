------------------------------ MODULE MCSlicing -----------------------------
(* One range and one stride, the least, for checking Slicing with TLC. *)
EXTENDS Slicing

MCRangeArgs == {<<0, 3, 1>>}
MCIndexArgs == {-8}
=============================================================================

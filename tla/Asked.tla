-------------------------------- MODULE Asked -------------------------------
(***************************************************************************)
(* What a program asks of operations that have no state: one question in a *)
(* behaviour, of any kind.                                                 *)
(***************************************************************************)
VARIABLE question

Nothing == [kind |-> "nothing"]
NothingElse == [][FALSE]_question
=============================================================================

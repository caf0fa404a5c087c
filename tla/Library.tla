------------------------------- MODULE Library ------------------------------
(***************************************************************************)
(* The operations on data that programs reach through operators, built-in  *)
(* functions and methods, one of them at a time: a bulk operation on dicts *)
(* and sets, step by step (BulkOps); slices and updates of a sequence, one *)
(* after another (Slicing); or a question: calls without state, of which   *)
(* comparisons and sorts (Ordering), arithmetic (Numbers), the arguments   *)
(* of a built-in (Unpacking) or JSON (Json) are asked about.               *)
(***************************************************************************)
EXTENDS BulkOps, Slicing, Ordering, Numbers, Unpacking, Json

CONSTANTS
  Tokens,       (* tokens of JSON texts                                    *)
  MaxTokens     (* bound on how many                                       *)

Questions ==
  \/ AskToCompare
  \/ AskToSort
  \/ AskToCompute
  \/ AskToBind
  \/ \E a \in NewObjects(<<>>, 3) : \E b \in NewObjects(<<a>>, 3) :
       \E c \in NewObjects(<<a, b>>, 3), arg \in 1 .. 3 :
         question = [kind |-> "encode", heap |-> <<a, b, c>>, arg |-> arg]
  \/ \E n \in 0 .. MaxTokens : question \in [kind : {"decode"}, text : [1 .. n -> Tokens]]

LibraryInit ==
  \/ Init /\ seq = Nothing /\ calls = 0 /\ question = Nothing
  \/ Idle /\ SlicingInit /\ question = Nothing
  \/ Idle /\ seq = Nothing /\ calls = 0 /\ Questions

LibraryNext ==
  \/ Next /\ UNCHANGED <<seq, calls, question>>
  \/ SlicingNext /\ UNCHANGED <<vars, question>>

LibrarySpec == LibraryInit /\ [][LibraryNext]_<<vars, seq, calls, question>>
-----------------------------------------------------------------------------
(* encode reports what has no encoding, cycles among it, and nothing else  *)
(* but slices of a tuple inside it; decode accepts just JSON, and reads    *)
(* what encode wrote back as an equal value.                               *)
JsonExact ==
  /\ question.kind = "encode" => EncodedFaithfully(question.heap, question.arg)
  /\ question.kind = "decode" => DecodedExactly(question.text)
=============================================================================

-------------------------------- MODULE Scanner --------------------------------
(***************************************************************************)
(* The scanner's treatment of layout: scanner.nextToken of syntax/scan.go. *)
(* The source is a sequence of runes: spaces, tabs, newlines, "#", "\\",   *)
(* brackets, and lexemes that stand for a token each, whose characters are *)
(* left out.  Reading a line of input costs nothing here; in the REPL      *)
(* (repl), where lines are read on demand, what matters is that no rune is *)
(* looked at before it is needed.                                          *)
(***************************************************************************)
EXTENDS Syntax

Open == {"(", "[", "{"}
Close == {")", "]", "}"}
Space == {" ", "\t"}

(* The kind of a lexeme that is neither a keyword nor punctuation.         *)
TokenOf(lexeme) ==
  CASE lexeme \in {"0", "1", "2"} -> Word("INT", lexeme)
    [] SubSeq(lexeme, 1, 1) = "'" -> Word("STRING", SubSeq(lexeme, 2, Len(lexeme) - 1))
    [] lexeme \in {"a", "b", "c", "d", "f", "g", "m", "x", "y", "z", "set"} -> Word("IDENT", lexeme)
    [] OTHER -> Tok(lexeme)

(* The scanner: the next rune, the nesting of brackets, the stack of       *)
(* indentations, the saved INDENTs or OUTDENTs, and whether it is at the   *)
(* start of a line; and the comments it has kept.                          *)
NewScanner == [i |-> 1, depth |-> 0, stk |-> <<0>>, dents |-> 0, ls |-> TRUE,
               lineComments |-> <<>>, suffixComments |-> <<>>]

Peek(src, i) == IF i > Len(src) THEN "" ELSE src[i]

RECURSIVE Skip(_, _, _), Spaces(_, _, _, _)
Skip(src, i, S) == IF Peek(src, i) \in S THEN Skip(src, i + 1, S) ELSE i

(* Where the spaces that begin a line end, and the column they reach.  The *)
(* rune's column n (Position.Col - 1) counts a tab as one.                 *)
Spaces(src, i, n, col) ==
  CASE Peek(src, i) = " " -> Spaces(src, i + 1, n + 1, col + 1)
    [] Peek(src, i) = "\t" -> Spaces(src, i + 1, n + 1, col + 8 - (n % 8))
    [] OTHER -> [i |-> i, col |-> col]

(* The stack of indentations at a line that begins at col.                 *)
Indented(stk, col) == IF col > Last(stk) THEN Append(stk, col)
                      ELSE SelectSeq(stk, LAMBDA c : c <= col)

Comment(src, s, i, blank) ==
  IF Peek(src, i) # "#" THEN s
  ELSE IF blank THEN [s EXCEPT !.lineComments = Append(@, i)]
  ELSE [s EXCEPT !.suffixComments = Append(@, i)]

Illegal(s) == <<Tok("ILLEGAL"), s>>

RECURSIVE NextToken(_, _, _)
(* The next token and the scanner after it.                                *)
NextToken(src, repl, s) ==
  LET lead == IF s.ls THEN Spaces(src, s.i, 0, 0) ELSE [i |-> s.i, col |-> 0]
      blank == s.ls /\ Peek(src, lead.i) \in {"#", "\n", ""}
      moves == s.ls /\ ~blank /\ s.depth = 0
      stk == IF moves THEN Indented(s.stk, lead.col) ELSE s.stk
      dents == s.dents + Len(stk) - Len(s.stk)
      s1 == [s EXCEPT !.i = lead.i, !.ls = FALSE, !.stk = stk, !.dents = dents]
      start == Skip(src, lead.i, Space)
      k == IF Peek(src, start) = "#" THEN Skip(src, start, ToSet(src) \ {"\n"}) ELSE start
      c == Peek(src, k)
      s2 == [Comment(src, s1, start, blank) EXCEPT !.i = k]
      line == [s2 EXCEPT !.i = k + 1, !.ls = TRUE]     (* past the newline *)
      unindent == [s2 EXCEPT !.dents = 1 - Len(stk), !.stk = <<0>>]
  IN CASE (moves /\ Last(stk) # lead.col) \/ (repl /\ c = "" /\ dents = 0) -> Illegal(s1)
       [] dents < 0 -> <<Tok("OUTDENT"), [s1 EXCEPT !.dents = @ + 1]>>
       [] dents > 0 -> <<Tok("INDENT"), [s1 EXCEPT !.dents = @ - 1]>>
       [] OTHER ->
  CASE c = "\n" /\ (s.depth > 0 \/ (blank /\ ~repl)) -> NextToken(src, repl, line)
    [] c = "\n" /\ s.depth = 0 /\ blank /\ repl /\ Len(stk) > 1 ->
         NextToken(src, repl, [unindent EXCEPT !.ls = TRUE])
    [] c = "\n" /\ s.depth = 0 /\ (~blank \/ (repl /\ Len(stk) = 1)) -> <<Tok("NEWLINE"), line>>
    [] c = "" /\ Len(stk) > 1 /\ s.ls -> NextToken(src, repl, unindent)
    [] c = "" /\ Len(stk) > 1 /\ ~s.ls -> <<Tok("NEWLINE"), [s2 EXCEPT !.ls = TRUE]>>
    [] c = "" /\ Len(stk) = 1 -> <<Tok("EOF"), s2>>
    [] c = "\\" -> IF Peek(src, k + 1) = "\n" THEN NextToken(src, repl, [s2 EXCEPT !.i = k + 2])
                   ELSE Illegal(s2)
    [] c \in Open -> <<Tok(c), [s2 EXCEPT !.i = k + 1, !.depth = @ + 1]>>
    [] c \in Close -> IF s.depth = 0 THEN Illegal(s2)
                      ELSE <<Tok(c), [s2 EXCEPT !.i = k + 1, !.depth = @ - 1]>>
    [] OTHER -> <<TokenOf(c), [s2 EXCEPT !.i = k + 1]>>
=============================================================================

------------------------------- MODULE LineTable -------------------------------
(***************************************************************************)
(* The table that maps the program counter to source positions, and the    *)
(* encoding of operands: generate, addUint32, argLen, decodeLNT and        *)
(* Position of internal/compile/compile.go.                                *)
(*                                                                         *)
(* A row is a record [pc, line, col].  The encoded table is a sequence of  *)
(* 16-bit words: 4 bits of pc, 5 of line and 6 of column, each a           *)
(* difference that saturates, and a bit that says the row goes on.         *)
(***************************************************************************)
EXTENDS Folding, SequencesExt

Clip(x, lo, hi) == IF x > hi THEN hi ELSE IF x < lo THEN lo ELSE x

Word16(dpc, dline, dcol, incomplete) ==
  dpc * 4096 + (dline % 32) * 128 + (dcol % 64) * 2 + (IF incomplete THEN 1 ELSE 0)

RECURSIVE RowWords(_, _)
(* The words that lead from the row prev to the row.                       *)
RowWords(prev, row) ==
  LET dpc == Clip(row.pc - prev.pc, 0, 15)
      dline == Clip(row.line - prev.line, -16, 15)
      dcol == Clip(row.col - prev.col, -32, 31)
      next == [pc |-> prev.pc + dpc, line |-> prev.line + dline, col |-> prev.col + dcol]
  IN IF next = row THEN <<Word16(dpc, dline, dcol, FALSE)>>
     ELSE <<Word16(dpc, dline, dcol, TRUE)>> \o RowWords(next, row)

(* The table of the rows of a function whose own position is pos.          *)
EncodeRows(pos, rows) ==
  LET start == [pc |-> 0, line |-> pos[1], col |-> pos[2]]
  IN Concat([j \in DOMAIN rows |-> RowWords(IF j = 1 THEN start ELSE rows[j - 1], rows[j])])

Signed(x, width) == IF x >= width \div 2 THEN x - width ELSE x

DecodeRows(pos, words) ==
  LET step(acc, x) ==
        LET e == [pc |-> acc.at.pc + (x \div 4096),
                  line |-> acc.at.line + Signed((x \div 128) % 32, 32),
                  col |-> acc.at.col + Signed((x \div 2) % 64, 64)]
        IN [at |-> e, rows |-> IF x % 2 = 0 THEN Append(acc.rows, e) ELSE acc.rows]
  IN LeftFold(step, [at |-> [pc |-> 0, line |-> pos[1], col |-> pos[2]], rows |-> <<>>], words).rows

RECURSIVE Search(_, _, _, _)
(* The binary search for the last row not after pc, in [i, j).             *)
Search(rows, pc, i, j) ==
  LET h == (i + j) \div 2
  IN IF i >= j THEN i
     ELSE IF h < Len(rows) - 1 /\ rows[h + 2].pc <= pc THEN Search(rows, pc, h + 1, j)
     ELSE Search(rows, pc, i, h)

(* Where the program is in the source at pc.                               *)
Position(pos, words, pc) ==
  LET rows == DecodeRows(pos, words)
      i == Search(rows, pc, 0, Len(rows))
  IN IF i < Len(rows) THEN <<rows[i + 1].line, rows[i + 1].col>> ELSE <<0, 0>>
-----------------------------------------------------------------------------
Jumps == {"CJMP", "ITERJMP"}
Calls == {"CALL", "CALL_VAR", "CALL_KW", "CALL_VAR_KW"}
(* The instructions from OpcodeArgMin on: those with an operand.           *)
HasArg(op) ==
  op \in Jumps \cup Calls \cup
    {"JMP", "CONSTANT", "MAKETUPLE", "MAKELIST", "MAKEFUNC", "LOAD", "SETLOCAL", "SETGLOBAL",
     "LOCAL", "FREE", "FREECELL", "LOCALCELL", "SETLOCALCELL", "GLOBAL", "PREDECLARED",
     "UNIVERSAL", "ATTR", "SETFIELD", "UNPACK"}

RECURSIVE Varint(_)
(* An operand: seven bits to the byte, the lowest first.                   *)
Varint(x) == IF x < 128 THEN <<x>> ELSE <<128 + (x % 128)>> \o Varint(x \div 128)
ArgLen(x) == Len(Varint(x))
Nops(n) == [j \in 1..Clip(n, 0, 4) |-> "NOP"]
(* The operand of a jump is padded to four bytes, that the code may be laid *)
(* out before the addresses are known.                                     *)
AddUint32(x, min) == Varint(x) \o Nops(min - ArgLen(x))

RECURSIVE ReadVarint(_, _)
(* The operand at pc (from 0), and where it ends.                          *)
ReadVarint(code, pc) ==
  LET b == code[pc + 1]
      rest == ReadVarint(code, pc + 1)
  IN IF b < 128 THEN [arg |-> b, next |-> pc + 1]
     ELSE [arg |-> (b % 128) + 128 * rest.arg, next |-> rest.next]
=============================================================================

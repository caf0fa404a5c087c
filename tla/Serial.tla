--------------------------------- MODULE Serial ---------------------------------
(***************************************************************************)
(* Saved programs: internal/compile/serial.go.  The encoded program is two *)
(* sections: p, of integers (a varint is one of them), and s, the          *)
(* characters of all strings and the bytes of all code one after the       *)
(* other.  A string is known in p by its length only, so that the decoder  *)
(* must ask for strings in the order in which the encoder gave them.       *)
(*                                                                         *)
(* The positions of variables, which only messages use, are left out.      *)
(***************************************************************************)
EXTENDS Folding, SequencesExt, TLC

Version == 14
Magic == "!sky"
B2i(b) == IF b THEN 1 ELSE 0

Chars(str) == [j \in 1..Len(str) |-> SubSeq(str, j, j)]
Spelled(chars) == LeftFold(LAMBDA acc, c : acc \o c, "", chars)

(* What a field adds to p and to s; a list of fields gives kinds and values.*)
Nothing == [p |-> <<>>, s |-> <<>>]
And(e, f) == [p |-> e.p \o f.p, s |-> e.s \o f.s]
Number(n) == [p |-> <<n>>, s |-> <<>>]
Types == <<"STRING", "BYTES", "INT">>          (* the types of constants   *)

RECURSIVE Put(_, _)
Fields(list) == LeftFold(And, Nothing, [j \in DOMAIN list |-> Put(list[j][1], list[j][2])])
PutAll(kind, xs) == LeftFold(And, Number(Len(xs)), [j \in DOMAIN xs |-> Put(kind, xs[j])])

PutConstant(c) ==
  LET type == CHOOSE j \in DOMAIN Types : Types[j] = c.tok
  IN And(Number(type - 1), Put(IF c.tok = "INT" THEN "int" ELSE "string", c.val))

PutFunction(fn) ==
  Fields(<<<<"string", fn.name>>, <<"pos", fn.pos>>, <<"string", fn.doc>>, <<"bytes", fn.code>>,
           <<"ints", fn.lines>>, <<"strings", fn.locals>>, <<"ints", fn.cells>>,
           <<"strings", fn.freevars>>, <<"int", fn.maxstack>>, <<"int", fn.params>>,
           <<"int", fn.kwonly>>, <<"bool", fn.varargs>>, <<"bool", fn.kwargs>>>>)

Put(kind, x) ==
  CASE kind = "int" -> Number(x)
    [] kind = "bool" -> Number(B2i(x))
    [] kind = "string" -> [p |-> <<Len(x)>>, s |-> Chars(x)]
    [] kind = "bytes" -> [p |-> <<Len(x)>>, s |-> x]
    [] kind = "pos" -> [p |-> x, s |-> <<>>]
    [] kind = "ints" -> [p |-> <<Len(x)>> \o x, s |-> <<>>]
    [] kind = "strings" -> PutAll("string", x)
    [] kind = "constants" -> PutAll("constant", x)
    [] kind = "functions" -> PutAll("function", x)
    [] kind = "constant" -> PutConstant(x)
    [] kind = "function" -> PutFunction(x)

Encode(prog) ==
  LET e == Fields(<<<<"int", Version>>, <<"strings", prog.loads>>, <<"strings", prog.names>>,
                    <<"constants", prog.constants>>, <<"strings", prog.globals>>,
                    <<"function", prog.toplevel>>, <<"functions", prog.functions>>,
                    <<"bool", prog.recursion>>>>)
  IN [magic |-> Magic, p |-> e.p, s |-> e.s]
-----------------------------------------------------------------------------
(* The decoder d: what is left of the two sections, and in v the last field.*)
RECURSIVE Get(_, _)
(* The fields of the kinds, one after the other.                           *)
Collect(vs, r) == [d |-> r, vs |-> Append(vs, r.v)]
GetAll(d, kinds) ==
  LET whole(acc) == [acc.d EXCEPT !.v = acc.vs]
  IN whole(LeftFold(LAMBDA acc, kind : Collect(acc.vs, Get(acc.d, kind)), [d |-> d, vs |-> <<>>], kinds))
Times(n, kind) == [j \in 1..n |-> kind]

FunctionFields == <<"string", "pos", "string", "bytes", "ints", "strings", "ints", "strings",
                    "int", "int", "int", "bool", "bool">>
(* A wrong version of the next: the counts of parameters are read in the   *)
(* wrong order.                                                            *)
FunctionOfSwapped(v) ==
  [name |-> v[1], pos |-> v[2], doc |-> v[3], code |-> v[4], lines |-> v[5], locals |-> v[6],
   cells |-> v[7], freevars |-> v[8], maxstack |-> v[9], params |-> v[11], kwonly |-> v[10],
   varargs |-> v[12], kwargs |-> v[13]]

FunctionOf(v) ==
  [name |-> v[1], pos |-> v[2], doc |-> v[3], code |-> v[4], lines |-> v[5], locals |-> v[6],
   cells |-> v[7], freevars |-> v[8], maxstack |-> v[9], params |-> v[10], kwonly |-> v[11],
   varargs |-> v[12], kwargs |-> v[13]]

Take(d, n) == [d EXCEPT !.s = SubSeq(@, n + 1, Len(@)), !.v = SubSeq(d.s, 1, n)]
TakeInts(d, n) == [d EXCEPT !.p = SubSeq(@, n + 1, Len(@)), !.v = SubSeq(d.p, 1, n)]
(* The list of n things of a kind, n being the next integer.               *)
ListKind == "strings" :> "string" @@ "constants" :> "constant" @@ "functions" :> "function"
(* A constant of the n-th type.                                            *)
GetConstant(d, n) ==
  LET r == Get(d, IF Types[n + 1] = "INT" THEN "int" ELSE "string")
  IN [r EXCEPT !.v = [tok |-> Types[n + 1], val |-> @]]

Get(d, kind) ==
  LET n == Head(d.p)
      rest == [d EXCEPT !.p = Tail(@), !.v = n]
  IN CASE kind = "int" -> rest
       [] kind = "bool" -> [rest EXCEPT !.v = n # 0]
       [] kind = "bytes" -> Take(rest, n)
       [] kind = "string" -> [Take(rest, n) EXCEPT !.v = Spelled(@)]
       [] kind = "pos" -> TakeInts(d, 2)
       [] kind = "ints" -> TakeInts(rest, n)
       [] kind \in DOMAIN ListKind -> GetAll(rest, Times(n, ListKind[kind]))
       [] kind = "constant" -> GetConstant(rest, n)
       [] kind = "function" -> [GetAll(d, FunctionFields) EXCEPT !.v = FunctionOf(@)]

ProgramFields == <<"int", "strings", "strings", "constants", "strings", "function", "functions", "bool">>
(* DecodeProgram: the program, and whether there is nothing left over.     *)
Whole(r, magic) ==
  [ok |-> magic = Magic /\ r.v[1] = Version /\ r.p = <<>> /\ r.s = <<>>,
   program |-> [loads |-> r.v[2], names |-> r.v[3], constants |-> r.v[4], globals |-> r.v[5],
                toplevel |-> r.v[6], functions |-> r.v[7], recursion |-> r.v[8]]]
Decode(data) == Whole(GetAll([p |-> data.p, s |-> data.s, v |-> 0], ProgramFields), data.magic)
=============================================================================

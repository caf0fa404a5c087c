--------------------------------- MODULE Values ---------------------------------
(***************************************************************************)
(* Values, as far as the flow of control and of data tells them apart: the *)
(* kinds of starlark/value.go that programs make, and terms for what comes *)
(* from outside or from an operation.  Lists, dicts and cells live in a    *)
(* heap h; f are the facts known of terms.                                 *)
(***************************************************************************)
EXTENDS Arguments, TLC

NoneV == [t |-> "none"]
Bool(b) == [t |-> "bool", b |-> b]
Const(c) == [t |-> "const", c |-> c]
Tuple(e) == [t |-> "tuple", e |-> e]
Ref(kind, id) == [t |-> kind, id |-> id]
Host(name) == [t |-> "host", name |-> name]
Term(op, args) == [t |-> "term", op |-> op, args |-> args]
StringV(s) == Const([tok |-> "STRING", val |-> s])
Number(n) == [t |-> "number", n |-> n]

RECURSIVE Show(_, _)
(* What a value shows, in the heap h.                                      *)
Show(h, v) ==
  CASE v.t = "tuple" -> [t |-> "tuple", e |-> [j \in DOMAIN v.e |-> Show(h, v.e[j])]]
    [] v.t = "list" -> [t |-> "list", e |-> [j \in DOMAIN h[v.id] |-> Show(h, h[v.id][j])]]
    [] v.t = "dict" -> [t |-> "dict", d |-> [j \in DOMAIN h[v.id] |->
                                              <<Show(h, h[v.id][j][1]), Show(h, h[v.id][j][2])>>]]
    [] v.t = "fn" -> [t |-> "fn", name |-> v.name]
    [] OTHER -> v
ShowAll(h, vs) == [j \in DOMAIN vs |-> Show(h, vs[j])]
-----------------------------------------------------------------------------
Opaque(v) == v.t = "term"
Truth(f, h, v) ==
  CASE v.t = "term" -> f.truth[v]
    [] v.t = "bool" -> v.b
    [] v.t = "none" -> FALSE
    [] v.t = "const" -> v.c.val \notin {"0", ""}
    [] v.t = "tuple" -> v.e # <<>>
    [] v.t \in {"list", "dict"} -> h[v.id] # <<>>
    [] OTHER -> TRUE

Iterable(f, v) == v.t \in {"tuple", "list", "dict"} \/ (Opaque(v) /\ f.iter[v] >= 0)
Elements(f, h, v) ==
  CASE v.t = "term" -> [j \in 1..f.iter[v] |-> Term("elem", <<v, Number(j)>>)]
    [] v.t = "tuple" -> v.e
    [] v.t = "list" -> h[v.id]
    [] v.t = "dict" -> [j \in DOMAIN h[v.id] |-> h[v.id][j][1]]

(* Binary, Unary, getIndex, getAttr, slice: operations on values.  Sums of *)
(* strings, tuples and lists are made; the rest are terms.                 *)
Alike(x, y) ==
  /\ x.t = y.t
  /\ \/ x.t \in {"tuple", "list"}
     \/ x.t = "const" /\ x.c.tok = y.c.tok /\ x.c.tok \in {"STRING", "BYTES"}
Joined(x, y) == IF x.t = "const" THEN [x EXCEPT !.c.val = @ \o y.c.val] ELSE [x EXCEPT !.e = @ \o y.e]

(* x + y for shown values that make no sum: (x + l) + l' is x + (l + l').   *)
SumTerm(x, y) ==
  IF x.t = "term" /\ x.op = "PLUS" /\ Alike(x.args[2], y)
  THEN Term("PLUS", <<x.args[1], Joined(x.args[2], y)>>)
  ELSE Term("PLUS", <<x, y>>)
OperationTerm(h, op, args) ==
  IF op = "PLUS" THEN SumTerm(Show(h, args[1]), Show(h, args[2])) ELSE Term(op, ShowAll(h, args))

(* The term of a call of a host function, the n-th event; pairs are names   *)
(* and values.                                                             *)
CallTerm(h, fn, args, pairs, n) ==
  Term("call", <<Show(h, fn), Tuple(ShowAll(h, args)),
                 Tuple([j \in DOMAIN pairs |-> Tuple(<<StringV(pairs[j][1]), Show(h, pairs[j][2])>>)]), Number(n)>>)
ResultOf(n) == Term("result", <<Number(n)>>)

SetItem(items, k, v) ==
  IF \E j \in DOMAIN items : items[j][1] = k
  THEN [j \in DOMAIN items |-> IF items[j][1] = k THEN <<k, v>> ELSE items[j]] ELSE Append(items, <<k, v>>)
=============================================================================

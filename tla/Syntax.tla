-------------------------------- MODULE Syntax --------------------------------
(***************************************************************************)
(* Tokens and syntax trees: syntax/scan.go (the kinds of token),           *)
(* syntax/syntax.go (the nodes) and syntax/walk.go (the traversal).        *)
(*                                                                         *)
(* A node is a record whose field k names its Go type; positions and       *)
(* comments are left out.  A token is its spelling, with its text if its   *)
(* kind has one.  Names and literal values are model strings.              *)
(***************************************************************************)
EXTENDS Folding, SequencesExt, Functions, TLC

Tok(t) == [t |-> t, v |-> ""]
Word(t, v) == [t |-> t, v |-> v]

AugmentedOps == {"+=", "-=", "*=", "/=", "//=", "%=", "&=", "|=", "^=", "<<=", ">>="}
Comparisons == {"==", "!=", "<", ">", "<=", ">=", "in", "not in"}

(* preclevels, weakest first; the sixth groups and above hold the operators *)
(* of arithmetic.                                                          *)
PrecLevels == <<{"or"}, {"and"}, {"not"}, Comparisons, {"|"}, {"^"}, {"&"},
                {"<<", ">>"}, {"-", "+"}, {"*", "%", "/", "//"}>>
Operators == UNION {PrecLevels[l] : l \in DOMAIN PrecLevels}
Precedence(t) ==
  IF t \in Operators THEN CHOOSE l \in DOMAIN PrecLevels : t \in PrecLevels[l] ELSE 0
-----------------------------------------------------------------------------
None == [k |-> "None"]      (* an absent node                              *)

Ident(name) == [k |-> "Ident", name |-> name]
Literal(tok, val) == [k |-> "Literal", tok |-> tok, val |-> val]
Paren(x) == [k |-> "Paren", x |-> x]
CallExpr(fn, args) == [k |-> "Call", fn |-> fn, args |-> args]
Dot(x, name) == [k |-> "Dot", x |-> x, name |-> name]
Comp(curly, body, clauses) ==
  [k |-> "Comp", curly |-> curly, body |-> body, clauses |-> clauses]
ForClause(v, x) == [k |-> "ForClause", vars |-> v, x |-> x]
IfClause(cond) == [k |-> "IfClause", cond |-> cond]
DictExpr(list) == [k |-> "Dict", list |-> list]
DictEntry(key, value) == [k |-> "Entry", key |-> key, value |-> value]
Lambda(params, body) == [k |-> "Lambda", params |-> params, body |-> body]
ListExpr(list) == [k |-> "List", list |-> list]
CondExpr(cond, t, f) == [k |-> "Cond", cond |-> cond, t |-> t, f |-> f]
TupleExpr(list) == [k |-> "Tuple", list |-> list]
Unary(op, x) == [k |-> "Unary", op |-> op, x |-> x]
Binary(x, op, y) == [k |-> "Binary", x |-> x, op |-> op, y |-> y]
SliceExpr(x, lo, hi, step) ==
  [k |-> "Slice", x |-> x, lo |-> lo, hi |-> hi, step |-> step]
Index(x, y) == [k |-> "Index", x |-> x, y |-> y]

Assign(op, lhs, rhs) == [k |-> "Assign", op |-> op, lhs |-> lhs, rhs |-> rhs]
Branch(tok) == [k |-> "Branch", tok |-> tok]
ClassStmt(name, bases, body, decs) ==
  [k |-> "Class", name |-> name, bases |-> bases, body |-> body, decs |-> decs]
Def(name, params, body, decs) ==
  [k |-> "Def", name |-> name, params |-> params, body |-> body, decs |-> decs]
ExprStmt(x) == [k |-> "Expr", x |-> x]
IfStmt(cond, t, f) == [k |-> "If", cond |-> cond, t |-> t, f |-> f]
Load(module, from, to) == [k |-> "Load", module |-> module, from |-> from, to |-> to]
Return(result) == [k |-> "Return", result |-> result]
For(v, x, body) == [k |-> "For", vars |-> v, x |-> x, body |-> body]
While(cond, body) == [k |-> "While", cond |-> cond, body |-> body]

Present(xs) == SelectSeq(xs, LAMBDA x : x # None)

(* The children that Walk visits, in its order.                            *)
Children(n) ==
  CASE n.k \in {"Ident", "Literal", "Branch", "None"} -> <<>>
    [] n.k \in {"Expr", "Paren"} -> <<n.x>>
    [] n.k = "If" -> <<n.cond>> \o n.t \o n.f
    [] n.k = "Cond" -> <<n.cond, n.t, n.f>>
    [] n.k = "Assign" -> <<n.lhs, n.rhs>>
    [] n.k = "Def" -> n.decs \o <<Ident(n.name)>> \o n.params \o n.body
    [] n.k = "Class" -> n.decs \o <<Ident(n.name)>> \o n.bases \o n.body
    [] n.k = "For" -> <<n.vars, n.x>> \o n.body
    [] n.k = "While" -> <<n.cond>> \o n.body
    [] n.k = "Return" -> Present(<<n.result>>)
    [] n.k = "Load" -> <<Literal("STRING", n.module)>>
                       \o [j \in DOMAIN n.from |-> Ident(n.from[j])]
                       \o [j \in DOMAIN n.to |-> Ident(n.to[j])]
    [] n.k \in {"List", "Tuple", "Dict"} -> n.list
    [] n.k \in {"Index", "Binary"} -> <<n.x, n.y>>
    [] n.k = "Entry" -> <<n.key, n.value>>
    [] n.k = "Slice" -> Present(<<n.x, n.lo, n.hi, n.step>>)
    [] n.k = "Comp" -> <<n.body>> \o n.clauses
    [] n.k = "IfClause" -> <<n.cond>>
    [] n.k = "ForClause" -> <<n.vars, n.x>>
    [] n.k = "Unary" -> Present(<<n.x>>)
    [] n.k = "Dot" -> <<n.x, Ident(n.name)>>
    [] n.k = "Call" -> <<n.fn>> \o n.args
    [] n.k = "Lambda" -> n.params \o <<n.body>>

(* The fields that hold a list of nodes, and those that hold one.          *)
IsList(k, f) ==
  \/ f \in {"args", "clauses", "list", "params", "bases", "decs"}
  \/ f = "body" /\ k \notin {"Lambda", "Comp"}
  \/ f \in {"t", "f"} /\ k = "If"
IsNode(f) == f \in {"x", "y", "fn", "body", "cond", "t", "f", "lo", "hi", "step", "key", "value",
                    "vars", "lhs", "rhs", "result"}

RECURSIVE Locate(_, _)
(* The tree with its positions: of a node, the way to it from the root.    *)
Locate(n, at) ==
  ("at" :> at) @@
  [f \in DOMAIN n |->
     IF IsList(n.k, f) THEN [j \in DOMAIN n[f] |-> Locate(n[f][j], at \o <<f, j>>)]
     ELSE IF IsNode(f) /\ n[f] # None THEN Locate(n[f], at \o <<f, 0>>) ELSE n[f]]

RECURSIVE Nodes(_)
(* The nodes of the trees ns, in prefix order.                             *)
Nodes(ns) ==
  IF ns = <<>> THEN <<>>
  ELSE <<Head(ns)>> \o Nodes(Children(Head(ns))) \o Nodes(Tail(ns))
=============================================================================

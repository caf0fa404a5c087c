-------------------------------- MODULE Source --------------------------------
(***************************************************************************)
(* How programs are written: the tokens of a syntax tree by the grammar    *)
(* and the precedences of doc/spec.md, with parentheses only where these   *)
(* ask for them, and the text of a sequence of tokens in several layouts.  *)
(* This is what the scanner and the parser are to read back.               *)
(***************************************************************************)
EXTENDS Syntax, FiniteSets, FiniteSetsExt

BinaryLevels == <<{"or"}, {"and"}, {"not"}, Comparisons, {"|"}, {"^"}, {"&"},
                  {"<<", ">>"}, {"-", "+"}, {"*", "/", "//", "%"}>>
OpLevel(op) == 2 + CHOOSE l \in DOMAIN BinaryLevels : op \in BinaryLevels[l]

AnExpr == 1    AnyTest == 2    NoCond == 3    AnOperand == 13    APrimary == 14

(* How tightly an expression holds together.                               *)
Level(x) ==
  CASE x.k = "Tuple" -> IF x.list = <<>> THEN APrimary ELSE IF Len(x.list) = 1 THEN 0 ELSE AnExpr
    [] x.k \in {"Lambda", "Cond"} -> AnyTest
    [] x.k = "Binary" -> OpLevel(x.op)
    [] x.k = "Unary" -> IF x.op = "not" THEN OpLevel("not") ELSE AnOperand
    [] OTHER -> APrimary

Join(ss, sep) ==
  LeftFold(LAMBDA acc, s : IF acc = <<>> THEN s ELSE acc \o sep \o s, <<>>, ss)
Comma == <<Tok(",")>>
OpTokens(op) == IF op = "not in" THEN <<Tok("not"), Tok("in")>> ELSE <<Tok(op)>>
LiteralTokens(x) == <<Word(x.tok, x.val)>>

(* An expression where one of the level is expected; a statement.          *)
RECURSIVE Shown(_, _)
Show(x, level) == Shown(x, level)
ShowStmt(s, inline) == Shown(s, inline)

ShowAll(xs, level) == [j \in DOMAIN xs |-> Show(xs[j], level)]
(* A parameter or an argument.                                             *)
ShowArg(a) ==
  CASE a.k = "Unary" /\ a.op \in {"*", "**"} ->
         <<Tok(a.op)>> \o (IF a.x = None THEN <<>> ELSE Show(a.x, AnyTest))
    [] a.k = "Binary" /\ a.op = "=" -> Show(a.x, APrimary) \o <<Tok("=")>> \o Show(a.y, AnyTest)
    [] OTHER -> Show(a, AnyTest)
ShowArgs(as) == Join([j \in DOMAIN as |-> ShowArg(as[j])], Comma)
(* The variables of a loop need no parentheses.                            *)
ShowVars(v) ==
  IF v.k = "Tuple" /\ Len(v.list) > 1 THEN Join(ShowAll(v.list, AnOperand), Comma)
  ELSE Show(v, AnOperand)
ShowOpt(x) == IF x = None THEN <<>> ELSE Show(x, AnyTest)
ShowClause(c) ==
  IF c.k = "IfClause" THEN <<Tok("if")>> \o Show(c.cond, NoCond)
  ELSE <<Tok("for")>> \o ShowVars(c.vars) \o <<Tok("in")>> \o Show(c.x, NoCond)
Bracketed(x, open, close) == <<Tok(open)>> \o x \o <<Tok(close)>>

Bare(x) ==
  CASE x.k = "Ident" -> <<Word("IDENT", x.name)>>
    [] x.k = "Literal" -> LiteralTokens(x)
    [] x.k = "Tuple" -> IF x.list = <<>> THEN <<Tok("("), Tok(")")>>
                        ELSE Join(ShowAll(x.list, AnyTest), Comma)
                             \o (IF Len(x.list) = 1 THEN Comma ELSE <<>>)
    [] x.k = "List" -> Bracketed(Join(ShowAll(x.list, AnyTest), Comma), "[", "]")
    [] x.k = "Dict" -> Bracketed(Join(ShowAll(x.list, 0), Comma), "{", "}")
    [] x.k = "Entry" -> Show(x.key, AnyTest) \o <<Tok(":")>> \o Show(x.value, AnyTest)
    [] x.k = "Comp" -> Bracketed(Show(x.body, AnyTest)
                         \o Concat([j \in DOMAIN x.clauses |-> ShowClause(x.clauses[j])]),
                         IF x.curly THEN "{" ELSE "[", IF x.curly THEN "}" ELSE "]")
    [] x.k = "Call" -> Show(x.fn, APrimary) \o Bracketed(ShowArgs(x.args), "(", ")")
    [] x.k = "Dot" -> Show(x.x, APrimary) \o <<Tok("."), Word("IDENT", x.name)>>
    [] x.k = "Index" -> Show(x.x, APrimary) \o Bracketed(Show(x.y, AnExpr), "[", "]")
    [] x.k = "Slice" -> Show(x.x, APrimary) \o Bracketed(ShowOpt(x.lo) \o <<Tok(":")>> \o ShowOpt(x.hi)
                          \o (IF x.step = None THEN <<>> ELSE <<Tok(":")>> \o ShowOpt(x.step)), "[", "]")
    [] x.k = "Lambda" -> <<Tok("lambda")>> \o ShowArgs(x.params) \o <<Tok(":")>> \o Show(x.body, AnyTest)
    [] x.k = "Cond" -> Show(x.t, NoCond) \o <<Tok("if")>> \o Show(x.cond, NoCond)
                       \o <<Tok("else")>> \o Show(x.f, AnyTest)
    [] x.k = "Unary" -> <<Tok(x.op)>> \o Show(x.x, Level(x))
    [] x.k = "Binary" ->
         Show(x.x, IF x.op \in Comparisons THEN Level(x) + 1 ELSE Level(x))
         \o OpTokens(x.op) \o Show(x.y, Level(x) + 1)
WithParens(ts, needed) == IF needed THEN <<Tok("(")>> \o ts \o <<Tok(")")>> ELSE ts

Simple(s) == s.k \in {"Assign", "Branch", "Expr", "Load", "Return"}
NewLine == <<Tok("NEWLINE")>>
ShowSimple(s) ==
  CASE s.k = "Assign" -> Show(s.lhs, AnExpr) \o <<Tok(s.op)>> \o Show(s.rhs, AnExpr)
    [] s.k = "Branch" -> <<Tok(s.tok)>>
    [] s.k = "Expr" -> Show(s.x, AnExpr)
    [] s.k = "Return" -> <<Tok("return")>> \o (IF s.result = None THEN <<>> ELSE Show(s.result, AnExpr))
    [] s.k = "Load" ->
         <<Tok("load"), Tok("("), Word("STRING", s.module), Tok(",")>>
         \o Join([j \in DOMAIN s.to |->
                   (IF s.to[j] = s.from[j] THEN <<>> ELSE <<Word("IDENT", s.to[j]), Tok("=")>>)
                   \o <<Word("STRING", s.from[j])>>], Comma)
         \o <<Tok(")")>>

ShowStmts(ss, inline) == Concat([j \in DOMAIN ss |-> ShowStmt(ss[j], inline)])
(* A block; inline, on the line of its header if it can be.                *)
ShowSuite(b, inline) ==
  IF inline /\ \A j \in DOMAIN b : Simple(b[j])
  THEN Join([j \in DOMAIN b |-> ShowSimple(b[j])], <<Tok(";")>>) \o NewLine
  ELSE NewLine \o <<Tok("INDENT")>> \o ShowStmts(b, inline) \o <<Tok("OUTDENT")>>

ShowIf(s, word, inline) == <<Tok(word)>> \o Show(s.cond, AnyTest) \o <<Tok(":")>> \o ShowSuite(s.t, inline)
RECURSIVE ShowElse(_, _)
ShowElse(f, inline) ==
  IF f = <<>> THEN <<>>
  ELSE IF Len(f) = 1 /\ f[1].k = "If"
  THEN ShowIf(f[1], "elif", inline) \o ShowElse(f[1].f, inline)
  ELSE <<Tok("else"), Tok(":")>> \o ShowSuite(f, inline)

StmtTokens(s, inline) ==
  LET decs == IF s.k \in {"Def", "Class"}
              THEN Concat([j \in DOMAIN s.decs |->
                     <<Tok("@")>> \o Show(s.decs[j], AnyTest) \o NewLine]) ELSE <<>>
  IN CASE Simple(s) -> ShowSimple(s) \o NewLine
       [] s.k = "If" -> ShowIf(s, "if", inline) \o ShowElse(s.f, inline)
       [] s.k = "For" -> <<Tok("for")>> \o ShowVars(s.vars) \o <<Tok("in")>> \o Show(s.x, AnExpr)
                         \o <<Tok(":")>> \o ShowSuite(s.body, inline)
       [] s.k = "While" -> <<Tok("while")>> \o Show(s.cond, AnyTest) \o <<Tok(":")>>
                           \o ShowSuite(s.body, inline)
       [] s.k = "Def" -> decs \o <<Tok("def"), Word("IDENT", s.name)>>
                         \o Bracketed(ShowArgs(s.params), "(", ")") \o <<Tok(":")>>
                         \o ShowSuite(s.body, inline)
       [] s.k = "Class" -> decs \o <<Tok("class"), Word("IDENT", s.name)>>
                           \o (IF s.bases = <<>> THEN <<>>
                               ELSE Bracketed(Join(ShowAll(s.bases, AnyTest), Comma), "(", ")"))
                           \o <<Tok(":")>> \o ShowSuite(s.body, inline)

Shown(n, a) ==
  IF n.k \in {"Assign", "Branch", "Class", "Def", "Expr", "For", "If", "Load", "Return", "While"}
  THEN StmtTokens(n, a)
  ELSE WithParens(Bare(n), Level(n) < a)
-----------------------------------------------------------------------------
RECURSIVE Strip(_)
(* The tree without its parentheses and positions.                         *)
Strip(n) ==
  IF n.k = "Paren" THEN Strip(n.x)
  ELSE [f \in DOMAIN n \ {"at"} |->
         IF IsList(n.k, f) THEN [j \in DOMAIN n[f] |-> Strip(n[f][j])]
         ELSE IF IsNode(f) THEN Strip(n[f]) ELSE n[f]]
-----------------------------------------------------------------------------
(* The text of tokens: lines indented by their blocks.  In the noisy       *)
(* layout blocks are indented by tabs, blank lines and comments at odd     *)
(* columns stand between lines, lines go on after a bracket's comma and    *)
(* after a backslash, and end in a comment.                                *)
Spelling(t) == IF t.t = "STRING" THEN "'" \o t.v \o "'" ELSE IF t.v # "" THEN t.v ELSE t.t
Margin(level, noisy) == [j \in 1..(IF noisy THEN level ELSE 2 * level) |-> IF noisy THEN "\t" ELSE " "]
Noise(noisy) == IF noisy THEN <<"\n", " ", " ", " ", "#", "x", "\n">> ELSE <<>>

Count(ts, j, kinds) == Cardinality({i \in 1..j : ts[i].t \in kinds})
Dents == {"INDENT", "OUTDENT"}
BeginsLine(ts, j) ==
  LET before == {i \in 1..(j - 1) : ts[i].t \notin Dents}
  IN before = {} \/ ts[Max(before)].t = "NEWLINE"
TokenText(ts, j, noisy) ==
  LET level == Count(ts, j, {"INDENT"}) - Count(ts, j, {"OUTDENT"})
      depth == Count(ts, j, {"(", "[", "{"}) - Count(ts, j, {")", "]", "}"})
      lead == IF BeginsLine(ts, j) THEN Noise(noisy) \o Margin(level, noisy) ELSE <<>>
  IN CASE ts[j].t \in Dents -> <<>>
       [] ts[j].t = "NEWLINE" -> (IF noisy THEN <<" ", "#", "x">> ELSE <<>>) \o <<"\n">>
       [] OTHER -> lead \o <<Spelling(ts[j]), " ">>
                   \o (IF ~noisy THEN <<>>
                       ELSE IF ts[j].t = "," /\ depth > 0 THEN <<"#", "x", "\n", "\n", " ">>
                       ELSE IF BeginsLine(ts, j) THEN <<"\\", "\n">> ELSE <<>>)
Text(ts, noisy) == Concat([j \in DOMAIN ts |-> TokenText(ts, j, noisy)]) \o Noise(noisy)
=============================================================================

-------------------------------- MODULE Parser --------------------------------
(***************************************************************************)
(* The recursive-descent parser: syntax/parse.go.  Each operator takes the *)
(* tokens ahead, the scanner's current one first, and yields the node and  *)
(* the tokens that are left, as a pair.  An error panics to Parse; here it *)
(* leaves Failed ahead, where no production can go on.                     *)
(***************************************************************************)
EXTENDS Syntax

Failed == <<Tok("ILLEGAL")>>
Kind(r) == Head(r).t
Consume(r, t) == IF Kind(r) = t THEN Tail(r) ELSE Failed
Fail == <<None, Failed>>
TerminatesExprList(t) == t \in {"EOF", "NEWLINE", "=", "}", "]", ")", ";"}

(* parseIdent; the name alone.                                             *)
Name(r) == IF Kind(r) = "IDENT" THEN <<Head(r).v, Tail(r)>> ELSE <<"", Failed>>

(* The operator ahead in an operand's place, "not in" being two tokens;    *)
(* a "not" without its "in" is an error.                                   *)
BinaryOp(r) ==
  IF Kind(r) # "not" THEN <<Kind(r), Tail(r)>>
  ELSE IF Kind(Tail(r)) = "in" THEN <<"not in", Tail(Tail(r))>> ELSE <<"ILLEGAL", Failed>>

(* A wrong version: operators of one precedence associate to the right.    *)
OperandAfterAlike(level) == level

(* The precedence at which a binary operator's right operand is parsed.    *)
OperandAfter(level) == level + 1

(* The productions that are reached again from within themselves, p naming *)
(* one and a being its parameter, if any.                                  *)
RECURSIVE Production(_, _, _)
Test(r) == Production("test", 0, r)
TestNoCond(r) == Production("test without if", 0, r)
TestPrec(r, prec) == Production("binary", prec, r)
Operand(r) == Production("operand", 0, r)
ExprList(r, inParens) == Production("expr", inParens, r)
Suite(r, classes) == Production("suite", classes, r)
Stmt(r, classes) == Production("stmt", classes, r)

RECURSIVE BinopLoop(_, _, _, _), SuffixesOf(_, _), Exprs(_, _, _), Params(_, _), Args(_, _),
  Entries(_, _), Clauses(_, _, _), LoopVars(_, _)

(* parseExpr: a test, or a tuple of them without parentheses.              *)
ParseExpr(r, inParens) ==
  LET x == Test(r)
      xs == Exprs(<<x[1]>>, x[2], inParens)
  IN IF Kind(x[2]) # "," THEN x ELSE <<TupleExpr(xs[1]), xs[2]>>

Exprs(list, r, trailing) ==
  LET x == Test(Tail(r))
  IN CASE Kind(r) # "," -> <<list, r>>
       [] Kind(r) = "," /\ TerminatesExprList(Kind(Tail(r))) ->
            <<list, IF trailing THEN Tail(r) ELSE Failed>>
       [] OTHER -> IF x[2] = Failed THEN Fail ELSE Exprs(Append(list, x[1]), x[2], trailing)

LambdaExpr(r, allowCond) ==
  LET params == IF Kind(Tail(r)) = ":" THEN <<<<>>, Tail(r)>> ELSE Params(<<>>, Tail(r))
      inner == Consume(params[2], ":")
      body == IF allowCond THEN Test(inner) ELSE TestNoCond(inner)
  IN <<Lambda(params[1], body[1]), body[2]>>

ParseTest(r) ==
  LET x == TestPrec(r, 1)
      cond == TestPrec(Tail(x[2]), 1)
      f == Test(Consume(cond[2], "else"))
  IN CASE Kind(r) = "lambda" -> LambdaExpr(r, TRUE)
       [] Kind(r) # "lambda" /\ Kind(x[2]) # "if" -> x
       [] OTHER -> <<CondExpr(cond[1], x[1], f[1]), f[2]>>

ParseTestNoCond(r) == IF Kind(r) = "lambda" THEN LambdaExpr(r, FALSE) ELSE TestPrec(r, 1)

(* parseTestPrec and parseBinopExpr: precedence climbing.  The loops of    *)
(* all levels from prec on are one; last is the level of the operator      *)
(* before, for comparisons do not associate.                               *)
ParseTestPrec(r, prec) ==
  LET isNot == Kind(r) = "not" /\ prec <= Precedence("not")
      x == IF isNot THEN TestPrec(Tail(r), Precedence("not")) ELSE Operand(r)
  IN IF x[2] = Failed THEN Fail
     ELSE BinopLoop(IF isNot THEN Unary("not", x[1]) ELSE x[1], x[2], prec, 0)

BinopLoop(x, r, prec, last) ==
  LET op == BinaryOp(r)
      level == Precedence(op[1])
      y == TestPrec(op[2], OperandAfter(level))
  IN CASE level < prec /\ op[1] # "ILLEGAL" -> <<x, r>>
       [] op[1] = "ILLEGAL" \/ (level >= prec /\ level = last /\ level = Precedence("==")) -> Fail
       [] OTHER -> IF y[2] = Failed THEN Fail ELSE BinopLoop(Binary(x, op[1], y[1]), y[2], prec, level)

(* What may stand between the colons of a slice: absent before stop.       *)
Bound(r, stop) == IF Kind(r) \in stop THEN <<None, r>> ELSE Test(r)

SliceSuffix(x, r) ==
  LET lo == IF Kind(r) = ":" THEN <<None, r>> ELSE ExprList(r, FALSE)
      hi == IF Kind(lo[2]) = ":" THEN Bound(Tail(lo[2]), {":", "]"}) ELSE <<None, lo[2]>>
      step == IF Kind(hi[2]) = ":" THEN Bound(Tail(hi[2]), {"]"}) ELSE <<None, hi[2]>>
  IN IF lo[1] # None /\ Kind(lo[2]) = "]" THEN <<Index(x, lo[1]), Tail(lo[2])>>
     ELSE <<SliceExpr(x, lo[1], hi[1], step[1]), Consume(step[2], "]")>>

SuffixesOf(x, r) ==
  LET name == Name(Tail(r))
      slice == SliceSuffix(x, Tail(r))
      args == Args(<<>>, Tail(r))
  IN CASE Kind(r) = "." -> SuffixesOf(Dot(x, name[1]), name[2])
       [] Kind(r) = "[" -> SuffixesOf(slice[1], slice[2])
       [] Kind(r) = "(" -> SuffixesOf(CallExpr(x, args[1]), Consume(args[2], ")"))
       [] OTHER -> <<x, r>>

Params(ps, r0) ==
  LET r == IF ps = <<>> THEN r0 ELSE Consume(r0, ",")
      rest == Tail(r)
      star == IF Kind(r) = "**" \/ Kind(rest) = "IDENT" THEN Name(rest) ELSE <<"", rest>>
      id == Name(r)
      dflt == Test(Tail(id[2]))
  IN IF Kind(r0) \in {")", ":", "EOF", "ILLEGAL"} THEN <<ps, r0>>
     ELSE IF Kind(r) = ")" THEN <<ps, r>>
     ELSE IF Kind(r) \in {"*", "**"}
     THEN Params(Append(ps, Unary(Kind(r), IF star[1] = "" THEN None ELSE Ident(star[1]))), star[2])
     ELSE IF Kind(id[2]) = "="
     THEN Params(Append(ps, Binary(Ident(id[1]), "=", dflt[1])), dflt[2])
     ELSE Params(Append(ps, Ident(id[1])), id[2])

Args(as, r0) ==
  LET r == IF as = <<>> THEN r0 ELSE Consume(r0, ",")
      x == Test(r)
      star == Test(Tail(r))
      y == IF x[1].k = "Ident" THEN Test(Tail(x[2])) ELSE Fail
  IN IF Kind(r0) \in {")", "EOF", "ILLEGAL"} THEN <<as, r0>>
     ELSE IF Kind(r) = ")" THEN <<as, r>>
     ELSE IF Kind(r) \in {"*", "**"} THEN Args(Append(as, Unary(Kind(r), star[1])), star[2])
     ELSE IF Kind(x[2]) = "=" THEN Args(Append(as, Binary(x[1], "=", y[1])), y[2])
     ELSE Args(Append(as, x[1]), x[2])

(* parseForLoopVariables, less the tuple it makes of more than one.        *)
LoopVars(list, r) ==
  LET x == Operand(Tail(r))
  IN IF Kind(r) # "," THEN <<list, r>>
     ELSE IF TerminatesExprList(Kind(Tail(r))) THEN <<list, Tail(r)>>
     ELSE LoopVars(Append(list, x[1]), x[2])

ForLoopVariables(r) ==
  LET x == Operand(r)
      xs == LoopVars(<<x[1]>>, x[2])
  IN IF Kind(x[2]) # "," THEN x ELSE <<TupleExpr(xs[1]), xs[2]>>

(* The clauses of a comprehension; its closing bracket is left ahead.      *)
Clauses(cs, r, end) ==
  LET vars == ForLoopVariables(Tail(r))
      x == TestPrec(Consume(vars[2], "in"), 1)
      cond == TestNoCond(Tail(r))
  IN IF Kind(r) = end THEN <<cs, r>>
     ELSE IF Kind(r) = "for" THEN Clauses(Append(cs, ForClause(vars[1], x[1])), x[2], end)
     ELSE IF Kind(r) = "if" THEN Clauses(Append(cs, IfClause(cond[1])), cond[2], end)
     ELSE <<cs, Failed>>

Comprehension(body, r, end) ==
  LET cs == Clauses(<<>>, r, end)
  IN <<Comp(end = "}", body, cs[1]), Consume(cs[2], end)>>

Entry(r) ==
  LET key == Test(r)
      value == Test(Consume(key[2], ":"))
  IN <<DictEntry(key[1], value[1]), value[2]>>

Entries(list, r) ==
  LET e == Entry(Tail(r))
  IN IF Kind(r) # "," THEN <<list, r>>
     ELSE IF Kind(Tail(r)) = "}" THEN <<list, Tail(r)>>
     ELSE Entries(Append(list, e[1]), e[2])

List(r) ==
  LET x == Test(r)
      xs == Exprs(<<x[1]>>, x[2], TRUE)
  IN IF Kind(r) = "]" THEN <<ListExpr(<<>>), Tail(r)>>
     ELSE IF Kind(x[2]) = "for" THEN Comprehension(x[1], x[2], "]")
     ELSE <<ListExpr(xs[1]), Consume(xs[2], "]")>>

Dict(r) ==
  LET e == Entry(r)
      es == Entries(<<e[1]>>, e[2])
  IN IF Kind(r) = "}" THEN <<DictExpr(<<>>), Tail(r)>>
     ELSE IF Kind(e[2]) = "for" THEN Comprehension(e[1], e[2], "}")
     ELSE <<DictExpr(es[1]), Consume(es[2], "}")>>

Parenthesized(r) ==
  LET x == ExprList(r, TRUE)
  IN IF Kind(r) = ")" THEN <<TupleExpr(<<>>), Tail(r)>> ELSE <<Paren(x[1]), Consume(x[2], ")")>>

Primary(r) ==
  LET t == Kind(r)
      x == Operand(Tail(r))
  IN CASE t = "IDENT" -> <<Ident(Head(r).v), Tail(r)>>
       [] t \in {"INT", "FLOAT", "STRING", "BYTES"} -> <<Literal(t, Head(r).v), Tail(r)>>
       [] t = "[" -> List(Tail(r))
       [] t = "{" -> Dict(Tail(r))
       [] t = "(" -> Parenthesized(Tail(r))
       [] t \in {"-", "+", "~"} -> <<Unary(t, x[1]), x[2]>>
       [] OTHER -> Fail

(* parsePrimaryWithSuffix.                                                 *)
PrimaryWithSuffix(r) ==
  LET x == Primary(r) IN IF x[2] = Failed THEN Fail ELSE SuffixesOf(x[1], x[2])
-----------------------------------------------------------------------------
(* Statements.  classes is FileOptions.Classes.                            *)

RECURSIVE LoadNames(_, _, _)
LoadNames(from, to, r0) ==
  LET r == Consume(r0, ",")
      alias == Consume(Tail(r), "=")
  IN IF Kind(r0) \in {")", "EOF"} THEN <<from, to, r0>>
     ELSE IF Kind(r) = ")" THEN <<from, to, r>>
     ELSE IF Kind(r) = "STRING" THEN LoadNames(Append(from, Head(r).v), Append(to, Head(r).v), Tail(r))
     ELSE IF Kind(r) = "IDENT" /\ Kind(alias) = "STRING"
     THEN LoadNames(Append(from, Head(alias).v), Append(to, Head(r).v), Tail(alias))
     ELSE <<from, to, Failed>>

LoadStmt(r0) ==
  LET r == Consume(Tail(r0), "(")
      ns == LoadNames(<<>>, <<>>, Tail(r))
      ok == Kind(r) = "STRING" /\ ns[2] # <<>>
  IN <<Load(Head(r).v, ns[1], ns[2]), IF ok THEN Consume(ns[3], ")") ELSE Failed>>

SmallStmt(r) ==
  LET x == ExprList(r, FALSE)
      rhs == ExprList(Tail(x[2]), FALSE)
      result == IF Kind(Tail(r)) \in {"EOF", "NEWLINE", ";"} THEN <<None, Tail(r)>>
                ELSE ExprList(Tail(r), FALSE)
  IN CASE Kind(r) = "return" -> <<Return(result[1]), result[2]>>
       [] Kind(r) \in {"break", "continue", "pass"} -> <<Branch(Kind(r)), Tail(r)>>
       [] Kind(r) = "load" -> LoadStmt(r)
       [] OTHER -> IF Kind(x[2]) \in AugmentedOps \cup {"="}
                   THEN <<Assign(Kind(x[2]), x[1], rhs[1]), rhs[2]>>
                   ELSE <<ExprStmt(x[1]), x[2]>>

RECURSIVE SimpleStmt(_, _, _), Stmts(_, _), IfTail(_, _), Decorated(_, _, _)

SimpleStmt(stmts, r, consumeNL) ==
  LET s == SmallStmt(r)
      all == Append(stmts, s[1])
      rest == IF Kind(s[2]) = ";" THEN Tail(s[2]) ELSE s[2]
  IN IF Kind(s[2]) = ";" /\ Kind(rest) \notin {"NEWLINE", "EOF"}
     THEN SimpleStmt(all, rest, consumeNL)
     ELSE <<all, IF Kind(rest) # "EOF" /\ consumeNL THEN Consume(rest, "NEWLINE") ELSE rest>>

DefStmt(r, decs, classes) ==
  LET id == Name(Tail(r))
      params == Params(<<>>, Consume(id[2], "("))
      body == Suite(Consume(Consume(params[2], ")"), ":"), classes)
  IN <<Def(id[1], params[1], body[1], decs), body[2]>>

(* The statements a class body is restricted to.                           *)
InClassBody(s) ==
  \/ s.k \in {"Def", "Class", "Expr"}
  \/ s.k = "Assign" /\ s.op = "=" /\ s.lhs.k = "Ident"
  \/ s.k = "Branch" /\ s.tok = "pass"

(* parseClassStmt's base list.                                             *)
RECURSIVE Bases(_, _)
Bases(list, r) ==
  LET x == Test(r)
  IN IF Kind(r) = ")" THEN <<list, Tail(r)>>
     ELSE IF Kind(x[2]) = "," THEN Bases(Append(list, x[1]), Tail(x[2]))
     ELSE <<Append(list, x[1]), Consume(x[2], ")")>>

ClassDef(r, decs, classes) ==
  LET id == Name(Tail(r))
      bases == IF Kind(id[2]) = "(" THEN Bases(<<>>, Tail(id[2])) ELSE <<<<>>, id[2]>>
      body == Suite(Consume(bases[2], ":"), classes)
      ok == \A j \in DOMAIN body[1] : InClassBody(body[1][j])
  IN <<ClassStmt(id[1], bases[1], body[1], decs), IF ok THEN body[2] ELSE Failed>>

Decorated(decs, r, classes) ==
  LET x == Test(Tail(r))
  IN CASE Kind(r) = "@" -> Decorated(Append(decs, x[1]), Consume(x[2], "NEWLINE"), classes)
       [] Kind(r) = "def" -> DefStmt(r, decs, classes)
       [] Kind(r) = "class" -> ClassDef(r, decs, classes)
       [] OTHER -> Fail

(* An if statement and its elifs, which become nested else branches.       *)
IfTail(r, classes) ==
  LET cond == Test(Tail(r))
      t == Suite(Consume(cond[2], ":"), classes)
      elif == IfTail(t[2], classes)
      else == Suite(Consume(Tail(t[2]), ":"), classes)
  IN CASE Kind(t[2]) = "elif" -> <<IfStmt(cond[1], t[1], <<elif[1]>>), elif[2]>>
       [] Kind(t[2]) = "else" -> <<IfStmt(cond[1], t[1], else[1]), else[2]>>
       [] OTHER -> <<IfStmt(cond[1], t[1], <<>>), t[2]>>

ForStmt(r, classes) ==
  LET vars == ForLoopVariables(Tail(r))
      x == ExprList(Consume(vars[2], "in"), FALSE)
      body == Suite(Consume(x[2], ":"), classes)
  IN <<For(vars[1], x[1], body[1]), body[2]>>

WhileStmt(r, classes) ==
  LET cond == Test(Tail(r))
      body == Suite(Consume(cond[2], ":"), classes)
  IN <<While(cond[1], body[1]), body[2]>>

(* parseStmt: the statements of a line, or the compound one.               *)
ParseStmt(r, classes) ==
  LET one(s) == <<<<s[1]>>, s[2]>>
  IN CASE Kind(r) = "def" -> one(DefStmt(r, <<>>, classes))
       [] Kind(r) = "class" /\ classes -> one(ClassDef(r, <<>>, classes))
       [] Kind(r) = "@" /\ classes -> one(Decorated(<<>>, r, classes))
       [] Kind(r) = "if" -> one(IfTail(r, classes))
       [] Kind(r) = "for" -> one(ForStmt(r, classes))
       [] Kind(r) = "while" -> one(WhileStmt(r, classes))
       [] OTHER -> SimpleStmt(<<>>, r, TRUE)

(* The statements of an indented block.                                    *)
RECURSIVE Block(_, _, _)
Block(stmts, r, classes) ==
  LET s == Stmt(r, classes)
  IN IF Kind(r) \in {"OUTDENT", "EOF", "ILLEGAL"} THEN <<stmts, Consume(r, "OUTDENT")>>
     ELSE IF s[2] = Failed THEN Fail ELSE Block(stmts \o s[1], s[2], classes)

ParseSuite(r, classes) ==
  IF Kind(r) = "NEWLINE" THEN Block(<<>>, Consume(Tail(r), "INDENT"), classes)
  ELSE SimpleStmt(<<>>, r, TRUE)

Production(p, a, r) ==
  CASE p = "test" -> ParseTest(r)
    [] p = "test without if" -> ParseTestNoCond(r)
    [] p = "binary" -> ParseTestPrec(r, a)
    [] p = "operand" -> PrimaryWithSuffix(r)
    [] p = "expr" -> ParseExpr(r, a)
    [] p = "suite" -> ParseSuite(r, a)
    [] p = "stmt" -> ParseStmt(r, a)

(* parseFile: the statements and what is ahead, EOF unless it failed.      *)
Stmts(stmts, r) ==
  LET s == Stmt(r, TRUE)
  IN CASE Kind(r) = "EOF" -> <<stmts, r>>
       [] Kind(r) = "NEWLINE" -> Stmts(stmts, Tail(r))
       [] OTHER -> IF s[2] = Failed THEN <<<<>>, Failed>> ELSE Stmts(stmts \o s[1], s[2])

ParseFile(tokens) == Stmts(<<>>, tokens)

(* ParseCompoundStmt: what the REPL reads; the newline is left ahead.      *)
CompoundStmt(tokens, classes) ==
  LET s == IF Kind(tokens) \in {"def", "if", "for", "while"} THEN Stmt(tokens, classes)
           ELSE IF Kind(tokens) = "NEWLINE" THEN <<<<>>, tokens>>
           ELSE SimpleStmt(<<>>, tokens, FALSE)
      simple == Kind(tokens) \notin {"def", "if", "for", "while", "NEWLINE"}
  IN IF simple /\ Kind(s[2]) # "NEWLINE" THEN <<s[1], Failed>> ELSE s
=============================================================================

-------------------------------- MODULE CodeGen --------------------------------
(***************************************************************************)
(* The compiler: internal/compile/compile.go.  A function's statements     *)
(* become a graph of blocks of instructions, which is then laid out, with  *)
(* the depth of the operand stack computed along the way, and encoded.     *)
(*                                                                         *)
(* The compiler is a record c: the pools of the program, and of the        *)
(* function being compiled its blocks, the current block (0: none), the    *)
(* enclosing loops and the pending source position, which the next         *)
(* instruction takes with it.  What a construct emits is written as a list *)
(* of items: instructions, subexpressions, and moves between blocks.       *)
(***************************************************************************)
EXTENDS Syntax, LineTable, FiniteSetsExt

NoPos == <<"-">>            (* no position is pending                   *)

BinaryOps ==
  "+" :> "PLUS" @@ "-" :> "MINUS" @@ "*" :> "STAR" @@ "/" :> "SLASH" @@ "//" :> "SLASHSLASH"
  @@ "%" :> "PERCENT" @@ "&" :> "AMP" @@ "|" :> "PIPE" @@ "^" :> "CIRCUMFLEX" @@ "<<" :> "LTLT"
  @@ ">>" :> "GTGT" @@ "in" :> "IN" @@ "==" :> "EQL" @@ "!=" :> "NEQ" @@ "<" :> "LT"
  @@ ">" :> "GT" @@ "<=" :> "LE" @@ ">=" :> "GE"
UnaryOps == "-" :> "UMINUS" @@ "+" :> "UPLUS" @@ "not" :> "NOT" @@ "~" :> "TILDE"

(* The effect of an instruction on the depth of the operand stack.         *)
StackEffect(op, arg) ==
  CASE op \in Calls -> -(2 * (arg % 256) + (arg \div 256))
                       - (IF op # "CALL" THEN 1 ELSE 0) - (IF op = "CALL_VAR_KW" THEN 1 ELSE 0)
    [] op \in {"MAKELIST", "MAKETUPLE"} -> 1 - arg
    [] op = "UNPACK" -> arg - 1
    [] op \in {"SETDICT", "SETDICTUNIQ", "SETINDEX", "SLICE"} -> -3
    [] op \in {"APPEND", "SETFIELD"} -> -2
    [] op \in {"CJMP", "INDEX", "INPLACE_ADD", "INPLACE_PIPE", "ITERPUSH", "LOAD", "POP", "RETURN",
               "SETLOCALCELL", "SETGLOBAL", "SETLOCAL"} \cup {BinaryOps[t] : t \in DOMAIN BinaryOps} -> -1
    [] op \in {"CONSTANT", "DUP", "FALSE", "FREE", "FREECELL", "GLOBAL", "LOCAL", "LOCALCELL",
               "MAKEDICT", "MANDATORY", "NONE", "PREDECLARED", "TRUE", "UNIVERSAL"} -> 1
    [] op = "DUP2" -> 2
    [] OTHER -> 0
-----------------------------------------------------------------------------
(* The blocks of a function.                                               *)
NewBlock == [insns |-> <<>>, jmp |-> 0, cjmp |-> 0]
NewBlocks(c, n) == [c EXCEPT !.blocks = @ \o [j \in 1..n |-> NewBlock]]
Begin(c, b) == [c EXCEPT !.cur = b]
Dead(c) == Begin(NewBlocks(c, 1), Len(c.blocks) + 1)

SetPos(c, at) == [c EXCEPT !.pos = at]
Emit(c, op, arg) ==
  [c EXCEPT !.blocks[c.cur].insns = Append(@, [op |-> op, arg |-> arg, at |-> c.pos]), !.pos = NoPos]
Jump(c, b) == [c EXCEPT !.blocks[c.cur].jmp = b, !.cur = 0]
CondJump(c, op, t, f) == Jump([Emit(c, op, 0) EXCEPT !.blocks[c.cur].cjmp = t], f)

(* The pools: names, constants, functions, each once.                      *)
IndexIn(pool, x) == IF x \in ToSet(pool) THEN (CHOOSE j \in DOMAIN pool : pool[j] = x) - 1 ELSE Len(pool)
Added(pool, x) == IF x \in ToSet(pool) THEN pool ELSE Append(pool, x)
Named(c, op, name) == Emit([c EXCEPT !.names = Added(@, name)], op, IndexIn(c.names, name))
Constant(c, v) == Emit([c EXCEPT !.constants = Added(@, v)], "CONSTANT", IndexIn(c.constants, v))
String(s) == [tok |-> "STRING", val |-> s]

BindingOf(c, at) == c.r.binds[c.r.of[at]]
Set(c, at) ==
  LET b == BindingOf(c, at)
  IN CASE b.scope = "local" -> Emit(c, "SETLOCAL", b.index)
       [] b.scope = "cell" -> Emit(c, "SETLOCALCELL", b.index)
       [] b.scope = "global" -> Emit(c, "SETGLOBAL", b.index)
Lookup(c, id) ==
  LET b == BindingOf(c, id.at)
      c1 == IF b.scope = "universal" THEN c ELSE SetPos(c, id.at)
  IN CASE b.scope = "local" -> Emit(c1, "LOCAL", b.index)
       [] b.scope = "free" -> Emit(c1, "FREECELL", b.index)
       [] b.scope = "cell" -> Emit(c1, "LOCALCELL", b.index)
       [] b.scope = "global" -> Emit(c1, "GLOBAL", b.index)
       [] b.scope = "predeclared" -> Named(c1, "PREDECLARED", id.name)
       [] b.scope = "universal" -> Named(c1, "UNIVERSAL", id.name)
-----------------------------------------------------------------------------
(* Items, and the compiler after a list of them.                           *)
X(x) == [do |-> "expr", x |-> x]
Op(op) == [do |-> "op", op |-> op]
Op1(op, arg) == [do |-> "op1", op |-> op, arg |-> arg]
NameOp(op, name) == [do |-> "name", op |-> op, name |-> name]
Const(v) == [do |-> "const", v |-> v]
At(at) == [do |-> "at", at |-> at]
Store(at) == [do |-> "set", at |-> at]
AssignTo(at, lhs) == [do |-> "assign", at |-> at, lhs |-> lhs]
Block(ss) == [do |-> "stmts", ss |-> ss]
LoopBody(ss, brk, cont) == [do |-> "loop", ss |-> ss, brk |-> brk, cont |-> cont]
Goto(b) == [do |-> "jump", b |-> b]
Branching(op, t, f) == [do |-> "condjump", op |-> op, t |-> t, f |-> f]
Test(cond, t, f) == [do |-> "ifelse", cond |-> cond, t |-> t, f |-> f]
Label(b) == [do |-> "begin", b |-> b]
Iteration(e, n) == [do |-> "clauses", e |-> e, n |-> n]

RECURSIVE Item(_, _), Expr(_, _), AssignCode(_, _, _), Stmt(_, _), IfElse(_, _, _, _), Clauses(_, _, _)

Item(c, i) ==
  CASE c.panics -> c
    [] i.do = "expr" -> Expr(c, i.x)
    [] i.do = "op" -> Emit(c, i.op, 0)
    [] i.do = "op1" -> Emit(c, i.op, i.arg)
    [] i.do = "name" -> Named(c, i.op, i.name)
    [] i.do = "const" -> Constant(c, i.v)
    [] i.do = "at" -> SetPos(c, i.at)
    [] i.do = "set" -> Set(c, i.at)
    [] i.do = "assign" -> AssignCode(c, i.at, i.lhs)
    [] i.do = "stmts" -> LeftFold(Stmt, c, i.ss)
    [] i.do = "loop" ->
         [LeftFold(Stmt, [c EXCEPT !.loops = Append(@, [brk |-> i.brk, cont |-> i.cont])], i.ss)
            EXCEPT !.loops = c.loops]
    [] i.do = "jump" -> Jump(c, i.b)
    [] i.do = "condjump" -> CondJump(c, i.op, i.t, i.f)
    [] i.do = "ifelse" -> IfElse(c, i.cond, i.t, i.f)
    [] i.do = "begin" -> Begin(c, i.b)
    [] i.do = "clauses" -> Clauses(c, i.e, i.n)
Do(c, items) == LeftFold(Item, c, items)
All(xs) == [j \in DOMAIN xs |-> X(xs[j])]
Each(xs, F(_)) == Concat([j \in DOMAIN xs |-> F(xs[j])])

RECURSIVE Unparen(_)
Unparen(e) == IF e.k = "Paren" THEN Unparen(e.x) ELSE e

(* if cond then goto t else goto f                                         *)
IfElse(c, cond, t, f) ==
  LET y == Len(c.blocks) + 1
      op == IF cond.k \in {"Unary", "Binary"} THEN cond.op ELSE ""
  IN CASE op = "not" -> Do(c, <<Test(cond.x, f, t)>>)
       [] op = "and" -> Do(NewBlocks(c, 1), <<X(cond.x), Branching("CJMP", y, f), Label(y), Test(cond.y, t, f)>>)
       [] op = "or" -> Do(NewBlocks(c, 1), <<X(cond.x), Branching("CJMP", t, y), Label(y), Test(cond.y, t, f)>>)
       [] op = "not in" -> Do(c, <<X([cond EXCEPT !.op = "in"]), Branching("CJMP", f, t)>>)
       [] OTHER -> Do(c, <<X(cond), Branching("CJMP", t, f)>>)

(* A loop of statements or of a comprehension: ITERJMP goes on to the body *)
(* with the next element, or jumps to the tail when there is none.         *)
Loop(c, at, vars, x, body(_, _)) ==
  LET n == Len(c.blocks)
      head == n + 1
      tail == n + 3
  IN Do(NewBlocks(c, 3),
        <<X(x), At(at), Op("ITERPUSH"), Goto(head),
          Label(head), Branching("ITERJMP", tail, n + 2),
          Label(n + 2), AssignTo(at, vars), body(tail, head), Goto(head),
          Label(tail), Op("ITERPOP")>>)

(* lhs = the value on the stack                                            *)
AssignCode(c, at, lhs) ==
  CASE lhs.k = "Paren" -> Do(c, <<AssignTo(at, lhs.x)>>)
    [] lhs.k = "Ident" -> Set(c, lhs.at)
    [] lhs.k \in {"Tuple", "List"} ->
         Do(c, <<At(at), Op1("UNPACK", Len(lhs.list))>>
               \o [j \in DOMAIN lhs.list |-> AssignTo(at, lhs.list[j])])
    [] lhs.k = "Index" -> Do(c, <<X(lhs.x), Op("EXCH"), X(lhs.y), Op("EXCH"), At(lhs.at), Op("SETINDEX")>>)
    [] lhs.k = "Dot" -> Do(c, <<X(lhs.x), Op("EXCH"), At(lhs.at), NameOp("SETFIELD", lhs.name)>>)

(* x op= y, the parts of x evaluated once.                                 *)
OpItems(op) == IF op = "not in" THEN <<Op("IN"), Op("NOT")>> ELSE <<Op(BinaryOps[op])>>
InPlace ==
  "+=" :> "INPLACE_ADD" @@ "|=" :> "INPLACE_PIPE" @@ "-=" :> "MINUS" @@ "*=" :> "STAR"
  @@ "/=" :> "SLASH" @@ "//=" :> "SLASHSLASH" @@ "%=" :> "PERCENT" @@ "&=" :> "AMP"
  @@ "^=" :> "CIRCUMFLEX" @@ "<<=" :> "LTLT" @@ ">>=" :> "GTGT"
Augmented(c, s) ==
  LET lhs == Unparen(s.lhs)
      rhs == <<X(s.rhs), At(s.at), Op(InPlace[s.op])>>
  IN CASE lhs.k = "Ident" -> Do(c, <<X(lhs)>> \o rhs \o <<Store(lhs.at)>>)
       [] lhs.k = "Index" ->
            Do(c, <<X(lhs.x), X(lhs.y), Op("DUP2"), At(lhs.at), Op("INDEX")>> \o rhs
                  \o <<At(lhs.at), Op("SETINDEX")>>)
       [] lhs.k = "Dot" ->
            Do(c, <<X(lhs.x), Op("DUP"), At(lhs.at), NameOp("ATTR", lhs.name)>> \o rhs
                  \o <<At(lhs.at), NameOp("SETFIELD", lhs.name)>>)

LoadCode(c, s) ==
  LET n == Len(s.from)
  IN Do([c EXCEPT !.loads = Append(@, s.module)],
        [j \in 1..n |-> Const(String(s.from[j]))]
        \o <<Const(String(s.module)), At(s.at), Op1("LOAD", n)>>
        \o [j \in 1..n |-> Store(s.at \o <<"to", n + 1 - j>>)])
-----------------------------------------------------------------------------
(* Sums.  The operands of ((a + b) + ...) + z, with adjacent literals of   *)
(* the same type put together.                                             *)
RECURSIVE Summands(_)
Summands(e) ==
  LET left == Unparen(e.x)
      last == [x |-> Unparen(e.y), at |-> e.at]
  IN IF left.k = "Binary" /\ left.op = "+" THEN Append(Summands(left), last)
     ELSE <<[x |-> left, at |-> NoPos], last>>

Addable(x) ==
  CASE x.k = "Literal" -> IF x.tok \in {"STRING", "BYTES"} THEN x.tok ELSE ""
    [] x.k \in {"List", "Tuple"} -> x.k
    [] OTHER -> ""
SameKind(x, y) == Addable(x) # "" /\ Addable(x) = Addable(y)
Add(x, y) == IF x.k = "Literal" THEN [x EXCEPT !.val = @ \o y.val] ELSE [x EXCEPT !.list = @ \o y.list]
Fold(args) ==
  LET step(acc, a) ==
        IF acc # <<>> /\ SameKind(Last(acc).x, a.x)
        THEN [acc EXCEPT ![Len(acc)].x = Add(@, a.x)] ELSE Append(acc, a)
  IN LeftFold(step, <<>>, args)

Plus(c, e) ==
  LET args == Fold(Summands(e))
      more(a) == <<X(a.x), At(a.at), Op("PLUS")>>
  IN Do(c, <<X(args[1].x)>> \o Each(Tail(args), more))

(* Calls: positional and named arguments in order, then *args and **kwargs.*)
IsNamed(a) == a.k = "Binary" /\ a.op = "="
IsStar(a) == a.k = "Unary" /\ a.op = "*"
IsStarStar(a) == a.k = "Unary" /\ a.op = "**"
CallMode(args) == IF \E j \in DOMAIN args : IsStarStar(args[j])
                  THEN IF \E j \in DOMAIN args : IsStar(args[j]) THEN "CALL_VAR_KW" ELSE "CALL_KW"
                  ELSE IF \E j \in DOMAIN args : IsStar(args[j]) THEN "CALL_VAR" ELSE "CALL"
Call(c, e) ==
  LET named == SelectSeq(e.args, IsNamed)
      stars == SelectSeq(e.args, LAMBDA a : IsStar(a) \/ IsStarStar(a))
      plain == SelectSeq(e.args, LAMBDA a : ~IsStar(a) /\ ~IsStarStar(a))
      arg(a) == IF IsNamed(a) THEN <<Const(String(a.x.name)), X(a.y)>> ELSE <<X(a)>>
      p == Len(plain) - Len(named)
  IN Do(c, <<X(e.fn)>> \o Each(plain, arg) \o Each(stars, LAMBDA a : <<X(a.x)>>)
           \o <<At(e.at), Op1(CallMode(e.args), p * 256 + Len(named))>>)

(* The clauses of a comprehension from the n-th, its value on the stack.   *)
Clauses(c, e, n) ==
  LET cl == e.clauses[n]
      b == Len(c.blocks)
  IN IF n > Len(e.clauses)
     THEN Do(c, IF e.curly
                THEN <<Op("DUP"), X(e.body.key), X(e.body.value), At(e.body.at), Op("SETDICT")>>
                ELSE <<Op("DUP"), X(e.body), Op("APPEND")>>)
     ELSE IF cl.k = "IfClause"
     THEN Do(NewBlocks(c, 2), <<Test(cl.cond, b + 1, b + 2), Label(b + 1), Iteration(e, n + 1),
                                Goto(b + 2), Label(b + 2)>>)
     ELSE Loop(c, cl.at, cl.vars, cl.x, LAMBDA brk, cont : Iteration(e, n + 1))
-----------------------------------------------------------------------------
RECURSIVE MakeFunction(_, _, _, _, _)

(* x and y, x or y: x stays on the stack unless it does not decide.        *)
ShortCircuit(c, e, t, f) ==
  Do(NewBlocks(c, 2),
     LET done == Len(c.blocks) + 1
         y == Len(c.blocks) + 2
         to(b) == IF b = "y" THEN y ELSE done
     IN <<X(e.x), Op("DUP"), Branching("CJMP", to(t), to(f)),
          Label(y), Op("POP"), X(e.y), Goto(done), Label(done)>>)

Either(c, cond, t, f) ==
  LET n == Len(c.blocks)
  IN Do(NewBlocks(c, 3), <<Test(cond, n + 1, n + 2), Label(n + 1), t, Goto(n + 3),
                           Label(n + 2), f, Goto(n + 3), Label(n + 3)>>)

OrNone(x) == IF x = None THEN Op("NONE") ELSE X(x)
Expr(c, e) ==
  CASE e.k = "Paren" -> Do(c, <<X(e.x)>>)
    [] e.k = "Ident" -> Lookup(c, e)
    [] e.k = "Literal" -> Constant(c, [tok |-> e.tok, val |-> e.val])
    [] e.k = "List" -> Do(c, All(e.list) \o <<Op1("MAKELIST", Len(e.list))>>)
    [] e.k = "Tuple" -> Do(c, All(e.list) \o <<Op1("MAKETUPLE", Len(e.list))>>)
    [] e.k = "Cond" -> Either(c, e.cond, X(e.t), X(e.f))
    [] e.k = "Index" -> Do(c, <<X(e.x), X(e.y), At(e.at), Op("INDEX")>>)
    [] e.k = "Slice" ->
         Do(c, <<At(e.at), X(e.x), OrNone(e.lo), OrNone(e.hi), OrNone(e.step), Op("SLICE")>>)
    [] e.k = "Comp" -> Do(c, <<IF e.curly THEN Op("MAKEDICT") ELSE Op1("MAKELIST", 0), Iteration(e, 1)>>)
    [] e.k = "Dict" ->
         Do(c, <<Op("MAKEDICT")>>
               \o Each(e.list, LAMBDA n : <<Op("DUP"), X(n.key), X(n.value), At(n.at), Op("SETDICTUNIQ")>>))
    [] e.k = "Unary" -> Do(c, <<X(e.x), At(e.at), Op(UnaryOps[e.op])>>)
    [] e.k = "Binary" /\ e.op = "or" -> ShortCircuit(c, e, "done", "y")
    [] e.k = "Binary" /\ e.op = "and" -> ShortCircuit(c, e, "y", "done")
    [] e.k = "Binary" /\ e.op = "+" -> Plus(c, e)
    [] e.k = "Binary" /\ e.op \notin {"or", "and", "+"} -> Do(c, <<X(e.x), X(e.y), At(e.at)>> \o OpItems(e.op))
    [] e.k = "Dot" -> Do(c, <<X(e.x), At(e.at), NameOp("ATTR", e.name)>>)
    [] e.k = "Call" -> Call(c, e)
    [] e.k = "Lambda" -> MakeFunction(c, e.at, "lambda", e.params, <<Return(e.body)>>)

(* Where break and continue go.                                            *)
Target(loop, tok) == IF tok = "break" THEN loop.brk ELSE loop.cont

Stmt(c, s) ==
  LET b == Len(c.blocks)
  IN CASE c.panics -> c
       [] s.k = "Expr" -> IF s.x.k = "Literal" THEN c ELSE Do(c, <<X(s.x), Op("POP")>>)
       [] s.k = "Branch" -> IF s.tok = "pass" THEN c
                            ELSE Dead(Jump(c, Target(Last(c.loops), s.tok)))
       [] s.k = "If" -> Either(c, s.cond, Block(s.t), Block(s.f))
       [] s.k = "Assign" -> IF s.op = "=" THEN Do(c, <<X(s.rhs), AssignTo(s.at, s.lhs)>>)
                            ELSE Augmented(c, s)
       [] s.k = "Def" -> Set(MakeFunction(c, s.at, s.name, s.params, s.body), s.at)
       [] s.k = "For" -> Loop(c, s.at, s.vars, s.x, LAMBDA brk, cont : LoopBody(s.body, brk, cont))
       [] s.k = "While" ->
            Do(NewBlocks(c, 3), <<Goto(b + 1), Label(b + 1), Test(s.cond, b + 2, b + 3), Label(b + 2),
                                  LoopBody(s.body, b + 3, b + 1), Goto(b + 1), Label(b + 3)>>)
       [] s.k = "Return" -> Dead(Do(c, <<OrNone(s.result), Op("RETURN")>>))
       [] s.k = "Load" -> LoadCode(c, s)

-----------------------------------------------------------------------------
(* Laying out the graph: the order and addresses of the blocks that are    *)
(* reached, the depth of the stack at the start of each, and its maximum.  *)
RECURSIVE Thread(_, _)
Thread(blocks, b) == IF b # 0 /\ blocks[b].insns = <<>> THEN Thread(blocks, blocks[b].jmp) ELSE b

Size(insn) == 1 + (IF insn.op \in Jumps THEN 4 ELSE IF HasArg(insn.op) THEN ArgLen(insn.arg) ELSE 0)
EffectOf(insns) == LeftFold(LAMBDA d, i : d + StackEffect(i.op, i.arg), 0, insns)
(* The depths within a block; a wrong version looks at its end alone.      *)
DepthsAtEnd(insns, d) == {d + EffectOf(insns)}
Depths(insns, d) == {d + EffectOf(SubSeq(insns, 1, j)) + (IF insns[j].op = "ITERJMP" THEN 1 ELSE 0) :
                       j \in DOMAIN insns}

InitialStack(l, b, depth) ==
  IF b \in DOMAIN l.depth THEN [l EXCEPT !.oops = @ \/ l.depth[b] # depth]
  ELSE [l EXCEPT !.depth = (b :> depth) @@ @]

RECURSIVE Visit(_, _, _)
Visit(blocks, l, b) ==
  LET block == blocks[b]
      in == l.depth[b]
      out == in + EffectOf(block.insns)
      iter == IF \E j \in DOMAIN block.insns : block.insns[j].op = "ITERJMP" THEN 1 ELSE 0
      size == LeftFold(LAMBDA n, i : n + Size(i), 0, block.insns)
      jmp == Thread(blocks, block.jmp)
      cjmp == Thread(blocks, block.cjmp)
      here == [l EXCEPT !.order = Append(@, b), !.addr = (b :> l.pc) @@ @, !.pc = @ + size,
                        !.max = Max({@} \cup Depths(block.insns, in)),
                        !.oops = @ \/ \E d \in Depths(block.insns, in) : d < 0]
      next == InitialStack(here, jmp, out + iter)
      fall == IF jmp = 0 THEN here
              ELSE IF jmp \in DOMAIN next.addr THEN [next EXCEPT !.pc = @ + 5]
              ELSE Visit(blocks, next, jmp)
  IN IF b \in DOMAIN l.addr THEN l
     ELSE IF cjmp = 0 THEN fall ELSE Visit(blocks, InitialStack(fall, cjmp, out), cjmp)

Layout(blocks) ==
  Visit(blocks, [order |-> <<>>, addr |-> <<>>, pc |-> 0, depth |-> 1 :> 0, max |-> 0, oops |-> FALSE], 1)

(* The instructions of a block as laid out: jumps know their addresses,    *)
(* and a successor that does not come next is jumped to.                   *)
Resolved(blocks, l, j) ==
  LET block == blocks[l.order[j]]
      jmp == Thread(blocks, block.jmp)
      cjmp == Thread(blocks, block.cjmp)
      falls == jmp = 0 \/ (j < Len(l.order) /\ l.order[j + 1] = jmp)
  IN [i \in DOMAIN block.insns |->
        IF block.insns[i].op \in Jumps THEN [block.insns[i] EXCEPT !.arg = l.addr[cjmp]] ELSE block.insns[i]]
     \o (IF falls THEN <<>> ELSE <<[op |-> "JMP", arg |-> l.addr[jmp], at |-> NoPos]>>)

Bytes(insn) ==
  <<insn.op>> \o (IF insn.op \in Jumps \cup {"JMP"} THEN AddUint32(insn.arg, 4)
                  ELSE IF HasArg(insn.op) THEN AddUint32(insn.arg, 0) ELSE <<>>)

(* The code and its rows of the line table; where gives each position its  *)
(* line and column.                                                        *)
Generate(c, l) ==
  LET insns == Concat([j \in DOMAIN l.order |-> Resolved(c.blocks, l, j)])
      one(acc, insn) ==
        [code |-> acc.code \o Bytes(insn),
         rows |-> IF insn.at = NoPos THEN acc.rows
                  ELSE Append(acc.rows, [pc |-> Len(acc.code), line |-> c.where[insn.at][1],
                                         col |-> c.where[insn.at][2]])]
  IN LeftFold(one, [code |-> <<>>, rows |-> <<>>], insns)

NamesOf(c, binds) == [j \in DOMAIN binds |-> c.r.binds[binds[j]].name]
DocString(ss) == IF ss # <<>> /\ ss[1].k = "Expr" /\ ss[1].x.k = "Literal" /\ ss[1].x.tok = "STRING"
                 THEN ss[1].x.val ELSE ""

(* The code of a function, and the pools with what it has added to them;    *)
(* panics: the depths or the length of the code were not as computed.      *)
(* whole is the compiler after the body, l the layout, g the code.         *)
Packed(c, at, name, doc, whole, l, g) ==
  LET info == c.r.fns[at]
  IN [c |-> [c EXCEPT !.names = whole.names, !.constants = whole.constants,
                      !.functions = whole.functions, !.loads = whole.loads,
                      !.panics = whole.panics \/ l.oops \/ Len(g.code) # l.pc],
      fn |-> [name |-> name, pos |-> c.where[at], doc |-> doc, code |-> g.code,
              lines |-> EncodeRows(c.where[at], g.rows), locals |-> NamesOf(c, info.locals),
              cells |-> SelectSeq([j \in DOMAIN info.locals |-> j - 1],
                                  LAMBDA i : c.r.binds[info.locals[i + 1]].scope = "cell"),
              freevars |-> NamesOf(c, info.free), maxstack |-> l.max, params |-> 0,
              kwonly |-> info.kwonly, varargs |-> info.varargs, kwargs |-> info.kwargs]]
Assembled(c, at, name, doc, whole, l) == Packed(c, at, name, doc, whole, l, Generate(whole, l))
Ended(c, at, name, doc, whole) == Assembled(c, at, name, doc, whole, Layout(whole.blocks))
FunctionCode(c, at, name, ss) ==
  Ended(c, at, name, DocString(ss),
        Do([c EXCEPT !.blocks = <<NewBlock>>, !.cur = 1, !.loops = <<>>, !.pos = at],
           <<Block(ss), Op("NONE"), Op("RETURN")>>))

(* The value of a def or lambda: its defaults and the cells it captures in *)
(* a tuple, and the code.                                                  *)
Stars(ps, n) == \E j \in 1..n : ps[j].k = "Unary"
Defaults(ps) ==
  Concat([j \in DOMAIN ps |->
    CASE ps[j].k = "Binary" -> <<X(ps[j].y)>>
      [] ps[j].k = "Ident" /\ Stars(ps, j - 1) -> <<Op("MANDATORY")>>
      [] OTHER -> <<>>])
CellOf(c, b) == IF c.r.binds[b].scope = "free" THEN Op1("FREE", c.r.binds[b].index)
                ELSE Op1("LOCAL", c.r.binds[b].index)
Made(f, n) ==
  Emit([f.c EXCEPT !.functions = Append(@, [f.fn EXCEPT !.params = n])], "MAKEFUNC", Len(f.c.functions))
MakeFunction(c, at, name, params, ss) ==
  LET info == c.r.fns[at]
      items == Defaults(params) \o [j \in DOMAIN info.free |-> CellOf(c, info.free[j])]
      tuple == <<At(at)>> \o items \o <<Op1("MAKETUPLE", Len(items))>>
  IN Made(FunctionCode(Do(c, tuple), at, name, ss),
          Len(params) - (IF info.kwonly > 0 /\ ~info.varargs THEN 1 ELSE 0))

(* The program of a file: r is what the resolver found, where the lines    *)
(* and columns of its positions.                                           *)
Compiled(top, recursion, globals) ==
  [panics |-> top.c.panics,
   program |-> [loads |-> top.c.loads, names |-> top.c.names, constants |-> top.c.constants,
                functions |-> top.c.functions, toplevel |-> top.fn, globals |-> globals,
                recursion |-> recursion]]
CompileFile(ss, r, where, recursion) ==
  LET c == [names |-> <<>>, constants |-> <<>>, functions |-> <<>>, loads |-> <<>>,
            blocks |-> <<>>, cur |-> 0, loops |-> <<>>, pos |-> NoPos, r |-> r, where |-> where,
            panics |-> FALSE]
  IN Compiled(FunctionCode(c, <<>>, "<toplevel>", ss), recursion, NamesOf(c, r.module))
=============================================================================

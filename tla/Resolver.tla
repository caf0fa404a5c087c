------------------------------- MODULE Resolver -------------------------------
(***************************************************************************)
(* Name resolution: resolve/resolve.go and resolve/binding.go.  The        *)
(* resolver is a record that every operator takes and yields; its Binding  *)
(* objects, which are shared and change scope once captured, are numbered  *)
(* in binds, and what an identifier is bound to is of[at].                 *)
(*                                                                         *)
(* Nodes carry their position, at; a block and a function are known by the *)
(* position of the node that makes them, and the file's are File.          *)
(***************************************************************************)
EXTENDS Syntax, TLC

CONSTANT ArgLimit    (* how many positional, or named, arguments a call has: 255 *)

Put(f, k, v) == (k :> v) @@ f
Empty == <<>>               (* the function without arguments              *)
File == <<>>

(* File options and the names known outside the file: opts.reassign,       *)
(* opts.control, opts.while, opts.loadGlobal, opts.set are flags; opts.prior *)
(* (isGlobal), opts.predeclared and opts.universal sets of names.          *)
Block(parent, kind) == [parent |-> parent, kind |-> kind, names |-> Empty,
                        children |-> <<>>, uses |-> <<>>]
FunctionInfo == [locals |-> <<>>, free |-> <<>>, varargs |-> FALSE, kwargs |-> FALSE, kwonly |-> 0]

NewResolver(opts) ==
  [opts |-> opts, env |-> File, binds |-> <<>>, blocks |-> File :> Block(File, "file"),
   fns |-> File :> FunctionInfo, module |-> <<>>, globals |-> Empty, pre |-> Empty,
   of |-> Empty, loops |-> 0, ifs |-> 0, errors |-> {}]

Error(r, what) == [r EXCEPT !.errors = @ \cup {what}]
ErrorIf(r, cond, what) == IF cond THEN Error(r, what) ELSE r

RECURSIVE ContainerOf(_, _)
ContainerOf(r, env) ==
  IF r.blocks[env].kind = "comp" THEN ContainerOf(r, r.blocks[env].parent) ELSE env
Container(r) == ContainerOf(r, r.env)

Push(r, at, kind) ==
  [r EXCEPT !.blocks = Put([@ EXCEPT ![r.env].children = Append(@, at)], at, Block(r.env, kind)),
            !.env = at]
Pop(r) == [r EXCEPT !.env = r.blocks[r.env].parent]

(* A new Binding, the last of binds.                                       *)
NewBind(r, scope, index, name) ==
  [r EXCEPT !.binds = Append(@, [scope |-> scope, index |-> index, name |-> name])]
Newest(r) == Len(r.binds)

Name(r, env, name, b) == [r EXCEPT !.blocks[env].names = Put(@, name, b)]

GlobalBind(r, name) ==
  LET r1 == NewBind(r, "global", Len(r.module), name)
  IN [r1 EXCEPT !.globals = Put(@, name, Newest(r1)), !.module = Append(@, Newest(r1))]

(* What useToplevel finds for a name: the resolver and the binding.        *)
TopLevel(r, name) ==
  LET fresh(scope) == LET r1 == NewBind(r, scope, 0, name)
                      IN <<[r1 EXCEPT !.pre = Put(@, name, Newest(r1))], Newest(r1)>>
      global == GlobalBind(r, name)
      undefined == NewBind(Error(r, "undefined"), "undefined", 0, name)
      universal == fresh("universal")
  IN IF name \in DOMAIN r.blocks[File].names THEN <<r, r.blocks[File].names[name]>>
     ELSE IF name \in DOMAIN r.globals THEN <<r, r.globals[name]>>
     ELSE IF name \in r.opts.prior THEN <<global, Newest(global)>>
     ELSE IF name \in DOMAIN r.pre THEN <<r, r.pre[name]>>
     ELSE IF name \in r.opts.predeclared THEN fresh("predeclared")
     ELSE IF name \in r.opts.universal
     THEN <<ErrorIf(universal[1], name = "set" /\ ~r.opts.set, "set"), universal[2]>>
     ELSE <<undefined, Newest(undefined)>>

UseToplevel(r, at, name) ==
  LET found == TopLevel(r, name) IN [found[1] EXCEPT !.of = Put(@, at, found[2])]

(* With reassignment, top-level names are resolved as they are met; in a   *)
(* wrong version, always.                                                  *)
UseAtOnce(r, at, name) ==
  IF r.env = File THEN UseToplevel(r, at, name)
  ELSE [r EXCEPT !.blocks[Container(r)].uses =
          Append(@, [at |-> at, name |-> name, env |-> r.env])]
Use(r, at, name) ==
  IF r.opts.reassign /\ r.env = File THEN UseToplevel(r, at, name)
  ELSE [r EXCEPT !.blocks[Container(r)].uses =
          Append(@, [at |-> at, name |-> name, env |-> r.env])]

BindLocal(r, at, name) ==
  LET c == Container(r)
      r1 == NewBind(r, "local", Len(r.fns[c].locals), name)
      r2 == Name([r1 EXCEPT !.fns[c].locals = Append(@, Newest(r1))], r.env, name, Newest(r1))
  IN Use(IF name \in DOMAIN r.blocks[r.env].names THEN r ELSE r2, at, name)

IsBound(r, name) ==
  name \in DOMAIN r.blocks[r.env].names \/ (r.env = File /\ name \in DOMAIN r.globals)

BindGlobal(r, at, name) ==
  LET r1 == IF IsBound(r, name) THEN ErrorIf(r, ~r.opts.reassign, "reassign") ELSE GlobalBind(r, name)
      b == IF name \in DOMAIN r1.blocks[File].names THEN r1.blocks[File].names[name] ELSE r1.globals[name]
  IN [r1 EXCEPT !.of = Put(@, at, b)]

Bind(r, at, name) == IF r.env = File THEN BindGlobal(r, at, name) ELSE BindLocal(r, at, name)

(* lookupLocal: the binding in the use's own function, 0 if none.          *)
RECURSIVE LookupLocal(_, _, _)
LookupLocal(r, name, env) ==
  IF name \in DOMAIN r.blocks[env].names THEN r.blocks[env].names[name]
  ELSE IF r.blocks[env].kind = "comp" THEN LookupLocal(r, name, r.blocks[env].parent) ELSE 0

IsLocalUse(r, u) ==
  LET b == LookupLocal(r, u.name, u.env) IN b # 0 /\ r.binds[b].scope \in {"local", "cell"}

ResolveLocalUses(r, c) ==
  LET here == SelectSeq(r.blocks[c].uses, LAMBDA u : IsLocalUse(r, u))
      of == LeftFold(LAMBDA acc, u : Put(acc, u.at, LookupLocal(r, u.name, u.env)), r.of, here)
  IN [r EXCEPT !.blocks[c].uses = SelectSeq(@, LAMBDA u : ~IsLocalUse(r, u)), !.of = of]

(* A wrong version of the next: the free variable is always the first.    *)
CaptureIndexOff(r, env, b, name) ==
  LET r1 == [r EXCEPT !.binds[b].scope = IF @ = "local" THEN "cell" ELSE @,
                      !.fns[env].free = Append(@, b)]
      r2 == NewBind(r1, "free", 0, name)
  IN <<r2, Newest(r2)>>

(* The binding b of the enclosing function, captured by the function at    *)
(* env: its variable becomes a cell, and a free variable refers to it.     *)
Capture(r, env, b, name) ==
  LET r1 == [r EXCEPT !.binds[b].scope = IF @ = "local" THEN "cell" ELSE @,
                      !.fns[env].free = Append(@, b)]
      r2 == NewBind(r1, "free", Len(r.fns[env].free), name)
  IN <<r2, Newest(r2)>>

RECURSIVE LookupLexical(_, _, _)
LookupLexical(r, name, env) ==
  LET outer == LookupLexical(r, name, r.blocks[env].parent)
      b == outer[2]
      captured == r.blocks[env].kind = "fn" /\ outer[1].binds[b].scope \in {"local", "free", "cell"}
      found == IF captured THEN Capture(outer[1], env, b, name) ELSE outer
  IN IF env = File THEN TopLevel(r, name)
     ELSE IF name \in DOMAIN r.blocks[env].names THEN <<r, r.blocks[env].names[name]>>
     ELSE <<Name(found[1], env, name, found[2]), found[2]>>

RECURSIVE ResolveNonLocalUses(_, _)
ResolveNonLocalUses(r, block) ==
  LET inner == LeftFold(LAMBDA acc, c : ResolveNonLocalUses(acc, c), r, r.blocks[block].children)
      one(acc, u) == LET found == LookupLexical(acc, u.name, u.env)
                     IN [found[1] EXCEPT !.of = Put(@, u.at, found[2])]
  IN LeftFold(one, inner, inner.blocks[block].uses)
-----------------------------------------------------------------------------
RECURSIVE Expr(_, _), AssignTo(_, _, _), Stmt(_, _), Function(_, _, _, _)

Exprs(r, xs) == LeftFold(LAMBDA acc, x : Expr(acc, x), r, xs)
Stmts(r, ss) == LeftFold(LAMBDA acc, s : Stmt(acc, s), r, ss)

AssignTo(r, lhs, augmented) ==
  CASE lhs.k = "Ident" -> Bind(r, lhs.at, lhs.name)
    [] lhs.k = "Index" -> Exprs(r, <<lhs.x, lhs.y>>)
    [] lhs.k = "Dot" -> Expr(r, lhs.x)
    [] lhs.k \in {"Tuple", "List"} ->
         LeftFold(LAMBDA acc, x : AssignTo(acc, x, augmented),
                  ErrorIf(r, augmented, "augmented"), lhs.list)
    [] lhs.k = "Paren" -> AssignTo(r, lhs.x, augmented)
    [] OTHER -> Error(r, "assign")

(* The kinds of arguments that may not precede one of each kind.           *)
ArgKind(a) == IF a.k = "Unary" /\ a.op \in {"*", "**"} THEN a.op
              ELSE IF a.k = "Binary" /\ a.op = "=" THEN "named" ELSE "positional"
MayNotFollow(kind) == CASE kind = "**" -> {"**"} [] kind = "*" -> {"*", "**"}
                        [] kind = "named" -> {"*", "**"} [] OTHER -> {"*", "**", "named"}
BadArgs(args) ==
  \E i, j \in DOMAIN args : i < j /\
     \/ ArgKind(args[i]) \in MayNotFollow(ArgKind(args[j]))
     \/ ArgKind(args[i]) = "named" /\ ArgKind(args[j]) = "named" /\ args[i].x.name = args[j].x.name
ArgValue(a) == IF ArgKind(a) = "named" THEN a.y ELSE a
(* A call's instruction has a byte for each number of arguments.           *)
TooMany(args, kind) == Len(SelectSeq(args, LAMBDA a : ArgKind(a) = kind)) > ArgLimit
CheckArgs(r, args) ==
  ErrorIf(ErrorIf(ErrorIf(r, BadArgs(args), "argument"),
                  TooMany(args, "positional"), "positional limit"), TooMany(args, "named"), "keyword limit")

Comprehend(r, e) ==
  LET first == e.clauses[1]
      inner == AssignTo(Push(Expr(r, first.x), e.at, "comp"), first.vars, FALSE)
      clause(acc, c) == IF c.k = "IfClause" THEN Expr(acc, c.cond)
                        ELSE Expr(AssignTo(acc, c.vars, FALSE), c.x)
  IN Pop(Expr(LeftFold(clause, inner, Tail(e.clauses)), e.body))

Expr(r, e) ==
  CASE e.k = "Ident" -> Use(r, e.at, e.name)
    [] e.k = "Call" ->
         Exprs(CheckArgs(Expr(r, e.fn), e.args), [j \in DOMAIN e.args |-> ArgValue(e.args[j])])
    [] e.k = "Comp" -> Comprehend(r, e)
    [] e.k = "Lambda" -> Function(r, e.at, e.params, <<Return(e.body)>>)
    [] e.k = "Dot" -> Expr(r, e.x)
    [] OTHER -> Exprs(r, Children(e))

(* Parameters.  A required one may follow an optional one only after *.    *)
IsStar(p) == p.k = "Unary" /\ p.op = "*"
IsStarStar(p) == p.k = "Unary" /\ p.op = "**"
Stars(ps, n) == \E j \in 1..n : IsStar(ps[j])
BadParam(ps, j) ==
  \/ \E i \in 1..(j - 1) : IsStarStar(ps[i])
  \/ IsStar(ps[j]) /\ Stars(ps, j - 1)
  \/ ps[j].k = "Ident" /\ ~Stars(ps, j - 1) /\ \E i \in 1..(j - 1) : ps[i].k = "Binary"
ParamName(p) == IF p.k = "Ident" THEN p ELSE p.x
(* The order in which parameters are bound: *args and **kwargs last.       *)
Ordered(ps) ==
  SelectSeq(ps, LAMBDA p : p.k # "Unary")
  \o (LET s == SelectSeq(ps, IsStar) IN IF s # <<>> /\ s[1].x # None THEN <<s[1]>> ELSE <<>>)
  \o (LET s == SelectSeq(ps, IsStarStar) IN IF s # <<>> THEN <<Last(s)>> ELSE <<>>)
KwonlyCount(ps) ==
  Len(SelectSeq([j \in DOMAIN ps |-> ps[j].k # "Unary" /\ Stars(ps, j - 1)], LAMBDA b : b))

BindParam(r, p) ==
  LET id == ParamName(p)
  IN Bind(ErrorIf(r, IsBound(r, id.name), "duplicate"), id.at, id.name)

Function(r, at, params, body) ==
  LET dflts == SelectSeq(params, LAMBDA p : p.k = "Binary")
      bare == Stars(params, Len(params)) /\ ~\E j \in DOMAIN params : IsStar(params[j]) /\ params[j].x # None
      info == [FunctionInfo EXCEPT
                 !.varargs = \E j \in DOMAIN params : IsStar(params[j]) /\ params[j].x # None,
                 !.kwargs = \E j \in DOMAIN params : IsStarStar(params[j]),
                 !.kwonly = KwonlyCount(params)]
      r1 == Push(Exprs(r, [j \in DOMAIN dflts |-> dflts[j].y]), at, "fn")
      r2 == [r1 EXCEPT !.fns = Put(@, at, info), !.loops = 0]
      r3 == ErrorIf(ErrorIf(r2, \E j \in DOMAIN params : BadParam(params, j), "parameter"),
                    bare /\ info.kwonly = 0, "parameter")
      r4 == Stmts(LeftFold(BindParam, r3, Ordered(params)), body)
  IN [Pop(ResolveLocalUses(r4, at)) EXCEPT !.loops = r.loops]

(* One name of a load: from is the module's name for it, to the file's.    *)
(* Without loadGlobal it is looked for in the file block alone, where there *)
(* are no globals.                                                         *)
Underscored(name) == name # "" /\ SubSeq(name, 1, 1) = "_"
LoadName(r, at, from, to) ==
  LET r1 == ErrorIf(r, Underscored(from), "underscore")
      again == to \in DOMAIN r.blocks[r.env].names
  IN IF from = "" THEN Error(r, "empty name")
     ELSE IF r.opts.loadGlobal THEN Bind(r1, at, to)
     ELSE BindLocal(ErrorIf(r1, again /\ ~r.opts.reassign, "reassign"), at, to)
LoadNames(r, s) ==
  LeftFold(LAMBDA acc, j : LoadName(acc, s.at \o <<"to", j>>, s.from[j], s.to[j]),
           r, [j \in DOMAIN s.to |-> j])

InFunction(r) == Container(r) # File
Control(r) == ErrorIf(r, ~r.opts.control /\ ~InFunction(r), "control")
Looping(r, body) == [Stmts([r EXCEPT !.loops = @ + 1], body) EXCEPT !.loops = r.loops]

Stmt(r, s) ==
  CASE s.k = "Expr" -> Expr(r, s.x)
    [] s.k = "Branch" -> ErrorIf(r, r.loops = 0 /\ s.tok # "pass", "branch")
    [] s.k = "If" ->
         [Stmts([Expr(Control(r), s.cond) EXCEPT !.ifs = @ + 1], s.t \o s.f) EXCEPT !.ifs = r.ifs]
    [] s.k = "Assign" -> AssignTo(Expr(r, s.rhs), s.lhs, s.op # "=")
    [] s.k = "Def" -> Function(Bind(r, s.at, s.name), s.at, s.params, s.body)
    [] s.k = "For" -> Looping(AssignTo(Expr(Control(r), s.x), s.vars, FALSE), s.body)
    [] s.k = "While" ->
         Looping(Expr(Control(ErrorIf(r, ~r.opts.while, "while")), s.cond), s.body)
    [] s.k = "Return" ->
         Exprs(ErrorIf(r, ~InFunction(r), "return"), Present(<<s.result>>))
    [] s.k = "Load" ->
         LoadNames(ErrorIf(r, InFunction(r) \/ r.loops > 0 \/ r.ifs > 0, "load"), s)
    [] OTHER -> Error(r, "panic: unexpected stmt")

Resolve(stmts, opts) ==
  LET r == ResolveLocalUses(Stmts(NewResolver(opts), stmts), File)
  IN ResolveNonLocalUses(r, File)

(* ExprOptions: an expression alone.                                       *)
ResolveExpr(e, opts) == ResolveNonLocalUses(ResolveLocalUses(Expr(NewResolver(opts), e), File), File)
=============================================================================

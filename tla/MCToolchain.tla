------------------------------ MODULE MCToolchain ------------------------------
(***************************************************************************)
(* Programs for TLC, by theme.  a, b, c and d are predeclared, g and       *)
(* $make_class universal; the program's own names are f, x, y and z.       *)
(***************************************************************************)
EXTENDS Toolchain

Absent == W!None
Id(n) == W!Ident(n)
VA == Id("a")   VB == Id("b")   VC == Id("c")   VX == Id("x")   VY == Id("y")   VZ == Id("z")
One == W!Literal("INT", "1")
Str(v) == W!Literal("STRING", v)
Bin(x, op, y) == W!Binary(x, op, y)
Not(x) == W!Unary("not", x)
Star(op, x) == W!Unary(op, x)
Eq(x, y) == W!Binary(x, "=", y)
Call(f, args) == W!CallExpr(f, args)
Set(x, y) == W!Assign("=", x, y)
Do(x) == W!ExprStmt(x)
Tup(xs) == W!TupleExpr(xs)
List(xs) == W!ListExpr(xs)
Fn(name, params, body) == W!Def(name, params, body, <<>>)
Ret(x) == W!Return(x)
Pass == W!Branch("pass")
ForIn(v, x) == W!ForClause(v, x)
Each(body, v, x) == W!Comp(FALSE, body, <<ForIn(v, x)>>)

Options ==
  [classes |-> TRUE, recursion |-> FALSE, reassign |-> FALSE, control |-> TRUE, while |-> TRUE,
   loadGlobal |-> FALSE, set |-> TRUE, prior |-> {}, predeclared |-> {"a", "b", "c", "d"},
   universal |-> {"g", "$make_class"}]
Src(ss) == [ss |-> ss, noisy |-> FALSE, inline |-> FALSE, opts |-> Options, fails |-> FALSE, spread |-> FALSE]
Failing(sources) == {[s EXCEPT !.fails = TRUE] : s \in sources}
Noisy(sources) == {[s EXCEPT !.noisy = TRUE] : s \in sources}
Inline(sources) == {[s EXCEPT !.inline = TRUE] : s \in sources}
Spread(sources) == {[s EXCEPT !.spread = TRUE, !.fails = TRUE] : s \in sources}

(* Expressions: every operator under every other, on both sides, and every *)
(* kind of expression in every place.                                      *)
SomeOps == {"or", "and", "==", "not in", "|", "^", "&", "<<", "-", "*"}
Nested == {Bin(Bin(VA, p, VB), q, VC) : p, q \in SomeOps} \cup {Bin(VA, p, Bin(VB, q, VC)) : p, q \in SomeOps}
Kinds == {VA, Bin(VA, "or", VB), Not(VA), Bin(VA, "==", VB), Bin(VA, "+", VB), Star("-", VA),
          W!CondExpr(VA, VB, VC), Tup(<<VA, VB>>), W!Dot(VA, "x"), Call(VA, <<>>), W!Lambda(<<>>, VB)}
Places(x) ==
  {Bin(x, "+", VC), Bin(VC, "-", x), Star("-", x), Not(x), W!Dot(x, "y"), W!Index(x, VC), W!Index(VC, x),
   Call(x, <<>>), Call(VC, <<x, VB>>), Call(VC, <<Eq(VY, x)>>), Call(VC, <<Star("*", x)>>), List(<<x>>),
   W!DictExpr(<<W!DictEntry(x, VC)>>), Tup(<<x>>), Each(x, VY, VC), Each(VY, VY, x),
   W!Comp(FALSE, VY, <<ForIn(VY, VC), W!IfClause(x)>>), W!Lambda(<<Eq(VY, x)>>, VB), W!CondExpr(VC, x, VA),
   W!CondExpr(x, VC, VA), W!CondExpr(VC, VB, x)}
Slices(x) == {W!SliceExpr(x, Absent, Absent, Absent), W!SliceExpr(VC, x, Absent, VA), W!SliceExpr(VC, Absent, x, Absent)}
Expressions == {Src(<<Do(e)>>) : e \in Nested \cup UNION {Places(x) \cup Slices(x) : x \in Kinds}}

(* Statements: branches, loops and what leaves them, assignments.          *)
Brk == W!Branch("break")
Cnt == W!Branch("continue")
If(c, t, f) == W!IfStmt(c, t, f)
For(v, x, body) == W!For(v, x, body)
Acc(x) == Do(Call(Id("g"), <<x>>))
Branching ==
  {<<If(VA, <<Acc(One)>>, <<If(VB, <<Pass>>, <<Acc(VC)>>)>>), Acc(VA)>>,
   <<If(Bin(Not(VA), "and", Bin(VB, "or", VC)), <<Acc(One)>>, <<>>), Do(Bin(VA, "and", VB))>>,
   <<If(Bin(VA, "not in", VB), <<If(VA, <<If(VB, <<Acc(VA)>>, <<>>)>>, <<>>)>>, <<Acc(VB)>>), Acc(VC)>>,
   <<For(VX, VA, <<If(VX, <<Brk>>, <<>>), Acc(VX), If(VB, <<Cnt>>, <<Pass>>), Acc(VC)>>)>>,
   <<For(VX, VA, <<For(VY, VB, <<If(VX, <<Cnt>>, <<>>), Acc(VY), Brk>>), Acc(VX)>>)>>,
   <<W!While(Call(Id("g"), <<>>), <<For(VX, VA, <<If(VX, <<Brk>>, <<Cnt>>)>>), Acc(VC)>>)>>,
   <<W!While(Call(VB, <<>>), <<W!While(Call(VC, <<>>), <<Brk>>), Acc(VA)>>)>>}
Assigning ==
  {<<Set(Tup(<<VY, VZ>>), VB), Set(List(<<Tup(<<Id("f")>>)>>), VC), Acc(Tup(<<VY, VZ>>))>>,
   <<Set(W!Index(VA, VB), VC), Set(W!Dot(VA, "x"), VB), W!Assign("+=", W!Dot(Call(VA, <<>>), "x"), VC)>>,
   <<W!Assign("+=", W!Index(Call(VA, <<>>), Call(VB, <<>>)), Call(VC, <<>>))>>,
   <<Fn("f", <<VX, VY>>, <<W!Assign("+=", VX, VY), W!Assign("|=", VY, VX), Ret(VX)>>),
     Set(VX, List(<<VA>>)), Set(VZ, Call(Id("f"), <<VX, Tup(<<VB>>)>>))>>,
   <<Fn("f", <<VX>>, <<W!Assign("|=", VX, W!DictExpr(<<W!DictEntry(VB, VC)>>))>>),
     Set(VX, W!DictExpr(<<W!DictEntry(VA, One)>>)), Acc(Call(Id("f"), <<VX>>)), Acc(VX)>>,
   <<For(Tup(<<VX, VY>>), VA, <<Acc(VY)>>)>>,
   <<Set(VZ, W!Comp(TRUE, W!DictEntry(VX, VY), <<ForIn(Tup(<<VX, VY>>), VB)>>))>>,
   <<Set(VX, W!DictExpr(<<W!DictEntry(VA, VB), W!DictEntry(VC, One), W!DictEntry(VA, VC)>>))>>,
   <<W!Load("m", <<"a", "b">>, <<"x", "y">>), Set(VZ, Tup(<<VX, VY>>)), W!Load("s", <<"a">>, <<"d">>), Acc(Id("d"))>>}
(* Code in which a jump's operand takes two bytes.                         *)
Long == {<<If(VA, <<Acc(List([j \in 1..8 |-> Bin(VB, "and", VC)]))>>, <<>>), Acc(VA)>>}

(* Closures: variables captured, shared, shadowed and never bound.         *)
Nest(body) == <<Fn("f", <<VX>>, body), Set(VZ, Call(Id("f"), <<VA>>))>>
Closures ==
  {Nest(<<Fn("m", <<>>, <<Ret(VX)>>), Set(VX, VB), Ret(Call(Id("m"), <<>>))>>),
   Nest(<<Fn("m", <<>>, <<Ret(W!Lambda(<<>>, VX))>>), Ret(Call(Call(Id("m"), <<>>), <<>>))>>),
   Nest(<<Ret(Each(W!Lambda(<<>>, Tup(<<VX, VZ>>)), VX, VA))>>),
   <<Set(VY, Each(W!Lambda(<<>>, VX), VX, VA)), Set(VZ, Each(Call(VX, <<>>), VX, VY))>>,
   Nest(<<Ret(Each(Tup(<<VX, Each(VX, VX, VX)>>), VX, VX))>>),
   Nest(<<Set(VY, W!Lambda(<<Eq(VX, VX)>>, VX)), Set(VX, One), Ret(Call(VY, <<>>))>>),
   Nest(<<Fn("m", <<VY>>, <<Ret(Tup(<<VX, VY, Id("f")>>))>>), Ret(Call(Id("m"), <<VX>>))>>),
   Nest(<<Ret(W!Lambda(<<>>, Tup(<<VZ, VY, VX>>))), Set(VY, VX)>>),
   Nest(<<Set(VY, Call(W!Lambda(<<>>, VY), <<>>)), Ret(VY)>>),
   Nest(<<Acc(VY), Set(VY, VX)>>),
   Nest(<<Ret(Each(VY, VX, Each(VY, VY, VX)))>>),
   Nest(<<Ret(W!Lambda(<<VY, Eq(VZ, VX)>>, W!Lambda(<<>>, Tup(<<VX, VY, VZ>>))))>>) \o <<Acc(Call(Call(VZ, <<VB>>), <<>>))>>,
   Nest(<<Ret(Call(Id("f"), <<VX>>))>>),
   Nest(<<W!While(VX, <<Set(Tup(<<VX, VY>>), VX), If(VY, <<Ret(VY)>>, <<>>)>>)>>),
   Nest(<<For(VY, VX, <<For(VZ, VY, <<Ret(VZ)>>)>>)>>)}
Recursive == {Nest(<<If(Call(Id("g"), <<VX>>), <<Ret(Call(Id("f"), <<VB>>))>>, <<>>)>>)}

(* Calls: kinds of parameters and of arguments.                            *)
Signatures ==
  {<<>>, <<VX>>, <<VX, Eq(VY, One)>>, <<VX, Star("*", VY)>>, <<Eq(VX, VA), Star("*", Absent), VY, Eq(VZ, VB)>>,
   <<VX, Star("**", VZ)>>, <<VX, Eq(VY, One), Star("*", VZ), Star("**", Id("d"))>>, <<Star("*", VX), VY>>}
Arguments ==
  {<<>>, <<VA>>, <<VA, VB>>, <<VA, VB, VC>>, <<Eq(VX, VA)>>, <<VA, Eq(VX, VB)>>, <<VA, Eq(VY, VB)>>,
   <<Eq(VY, VA), Eq(VX, VB), Eq(VZ, VC)>>, <<VA, Star("*", Tup(<<VB, VC>>))>>, <<Star("*", VA)>>,
   <<Star("**", W!DictExpr(<<W!DictEntry(Str("x"), VA), W!DictEntry(Str("y"), VB)>>))>>,
   <<VA, Eq(VY, VB), Star("**", W!DictExpr(<<W!DictEntry(Str("y"), VC)>>))>>,
   <<Star("*", List(<<VA>>)), Star("**", W!DictExpr(<<W!DictEntry(Str("z"), VB)>>))>>,
   <<Star("**", W!DictExpr(<<W!DictEntry(One, VB)>>))>>, <<Star("**", VA)>>}
Names(ps) == SelectSeq([j \in DOMAIN ps |-> IF ps[j].k = "Ident" THEN ps[j] ELSE ps[j].x], LAMBDA x : x # Absent)
Calling == {<<Fn("f", ps, <<Ret(Tup(Names(ps)))>>), Do(Call(Id("m"), <<Call(Id("f"), as)>>))>> :
           ps \in Signatures, as \in Arguments}

(* Sums, whose literals are put together by the compiler.                  *)
Summands == {VA, Str("s"), Str("a"), Tup(<<VB, VC>>), List(<<VB>>), List(<<One, VA>>), One}
Sums == {Bin(Bin(x, "+", y), "+", z) : x, y, z \in Summands}

(* Classes and decorators.                                                 *)
Class(name, bases, body, decs) == W!ClassStmt(name, bases, body, decs)
Method(name, x) == Fn(name, <<VX>>, <<Ret(x)>>)
Classes ==
  {<<Class("x", <<>>, <<Pass>>, <<>>), Acc(VX)>>,
   <<Class("x", <<VA, VB>>, <<Set(VY, One), Method("f", VY), Set(VZ, VY)>>, <<VA, Call(VB, <<>>)>>), Acc(VX)>>,
   <<Class("x", <<VA>>, <<Class("y", <<VB>>, <<Method("f", VX)>>, <<>>), Set(VZ, Call(VY, <<VY>>))>>, <<VC>>)>>,
   <<Fn("f", <<VA>>, <<Class("x", <<VA>>, <<Set(VZ, VA)>>, <<>>), W!Def("m", <<>>, <<Ret(VX)>>, <<VB, VC>>), Ret(Id("m"))>>),
     Acc(Call(Id("f"), <<One>>))>>,
   <<Class("x", <<>>, <<W!Def("m", <<VY>>, <<Ret(VY)>>, <<Id("g"), VA>>), Set(Id("f"), Id("m")), Do(Call(VB, <<VC>>))>>, <<>>)>>,
   <<If(VA, <<Class("x", <<>>, <<Set(VY, VB)>>, <<>>)>>, <<Class("z", <<>>, <<Set(VY, VC)>>, <<>>)>>)>>}
(* Classes whose bodies, methods and functions decorated in them do what   *)
(* may fail.                                                               *)
Troubled ==
  {<<Class("x", <<Bin(VA, "-", VB)>>, <<Set(VY, Bin(VB, "-", VC)), Pass, Set(VZ, W!Dot(VY, "x"))>>, <<VA>>), Acc(VX)>>,
   <<Class("x", <<>>, <<Fn("f", <<VY>>, <<Acc(VY), Ret(Bin(VY, "-", VB))>>), Pass, Set(VZ, Call(Id("f"), <<VC>>))>>, <<>>)>>,
   <<Fn("f", <<VX>>, <<Class("y", <<>>, <<Class("z", <<VX>>, <<Do(W!Index(VX, VA))>>, <<>>)>>, <<>>), Ret(VY)>>), Acc(Call(Id("f"), <<VB>>))>>,
   <<Class("x", <<>>, <<W!Def("m", <<VY>>, <<Ret(Not(Star("-", VY)))>>, <<Call(VA, <<VB>>), W!Lambda(<<VZ>>, Call(VZ, <<VC>>))>>)>>, <<>>)>>}
Decorators == {<<W!Def("f", <<VX>>, <<Ret(VX)>>, ds)>> : ds \in {<<VA>>, <<VA, Call(VB, <<VC>>)>>}}


(* The rules: programs that break one under some options, or just do not.  *)
Ask(from, to) == W!Load("m", <<from>>, <<to>>)
Statics ==
  {<<Set(VX, VA), Set(VX, VB)>>, <<Do(VX), Set(VX, VA)>>, <<Fn("f", <<>>, <<Ret(VX)>>), Set(VX, One)>>,
   <<Do(Each(VX, VX, VA)), Do(VX)>>, <<Do(Each(VX, VY, VA))>>, <<Fn("f", <<>>, <<Set(VX, VA)>>), Do(VX)>>,
   <<Fn("f", <<VX>>, <<Set(VX, VX), Fn("f", <<>>, <<Pass>>)>>), Set(Id("f"), VB)>>,
   <<Ask("a", "x"), Ask("b", "x")>>, <<Ask("a", "x"), Set(VX, VA)>>,
   <<If(VA, <<Ask("a", "x")>>, <<Pass>>)>>, <<For(VY, VA, <<Ask("a", "x")>>)>>, <<Fn("f", <<>>, <<Ask("a", "x")>>)>>,
   <<Brk>>, <<For(VX, VA, <<Fn("f", <<>>, <<Cnt>>)>>)>>, <<For(VX, VA, <<Pass>>), Brk>>, <<Ret(VA)>>,
   <<Set(One, VA)>>, <<W!Assign("+=", Tup(<<VX, VY>>), VA)>>, <<W!Assign("+=", VX, VA)>>, <<Do(Id("set"))>>,
   <<W!While(VA, <<Brk>>)>>, <<Fn("f", <<>>, <<W!While(VA, <<Set(VX, VA)>>), Ret(VX)>>)>>,
   <<Fn("f", <<>>, <<If(VA, <<Ret(Id("set"))>>, <<>>)>>)>>, <<Do(W!Lambda(<<VX, VX>>, VX))>>}
Replaced == {<<Set(VX, VA), Ask("a", "x"), Do(VX)>>, <<Ask("a", "x"), Set(VY, VA), Ask("b", "y"), Do(VY)>>,
             <<W!Assign("+=", VA, VB), Do(VA)>>, <<Set(VX, VA), W!Assign("+=", VX, VB)>>}
(* Loads of names that are empty, not exported or no identifiers.          *)
Unnamed == {<<Ask(from, to), Do(VX)>> : from \in {"", "_x", "a b"}, to \in {"x", "y"}}
           \cup {<<Ask(name, name)>> : name \in {"", "_x", "a b"}}
           \cup {<<W!Load("m", <<"", "b">>, <<"x", "x">>), Do(VX)>>, <<W!Load("m", <<"b", "_x">>, <<"x", "x">>), Do(VX)>>}
Shadowing == {<<Set(VA, VA)>>, <<Set(VA, One), Do(VA)>>}
BadCalls == {<<Do(Call(VA, <<x, y>>))>> : x, y \in {VB, Eq(VX, VB), Eq(VY, VC), Star("*", VB), Star("**", VB)}}
(* Calls with as many arguments as they may have, and more.                *)
Unkeyed(n) == [j \in 1..n |-> VB]
Keyed(n) == [j \in 1..n |-> Eq(<<VX, VY, VZ, VC>>[j], VB)]
Crowded == {<<Do(Call(VA, Unkeyed(p) \o Keyed(n) \o more))>> :
              p, n \in {0, 3, 4}, more \in {<<>>, <<Star("*", VB), Star("**", VC)>>}}
BadDefs == {<<Fn("f", <<x, y, z>>, <<Pass>>)>> :
              x, y, z \in {VX, Eq(VY, VA), Eq(VZ, VA), Star("*", Absent), Star("*", VY), Star("**", VZ)}}
With(sources, options) == {[s EXCEPT !.opts = options @@ @] : s \in sources}
WithSet == [universal |-> {"g", "set", "$make_class"}]
Lax == [reassign |-> TRUE, loadGlobal |-> TRUE, set |-> FALSE, prior |-> {"z"}] @@ WithSet
Strict == [control |-> FALSE, while |-> FALSE, prior |-> {"x"}, classes |-> FALSE]

All(progs) == {Src(p) : p \in progs}
Rulings == Statics \cup Replaced \cup Unnamed
Ruled == All(BadCalls \cup BadDefs \cup Shadowing \cup Crowded)
         \cup With(All(Rulings), WithSet) \cup With(All(Rulings), Lax) \cup With(All(Rulings), Strict)
Plain == Failing(All(Branching \cup Assigning \cup Closures \cup Calling \cup Long))
Laid == Noisy(All(Branching \cup Classes)) \cup Inline(All(Branching \cup Classes))
Distant == Spread(All(Branching \cup Assigning))
Lowered == Failing(All(Classes \cup Troubled)) \cup Spread(All(Classes \cup Troubled))
           \cup With(Failing(All(Decorators)) \cup Spread(All(Decorators)), Lax)
Deep == With(All(Recursive), [recursion |-> TRUE])
Decorated == All(Decorators)
Programs == Expressions \cup Plain \cup Lowered \cup {Src(<<Do(e)>>) : e \in Sums} \cup Ruled
            \cup Laid \cup Distant \cup Deep \cup All(Recursive)
=============================================================================

--------------------------------- MODULE Rules ---------------------------------
(***************************************************************************)
(* The static rules of doc/spec.md and of the file options: what a program *)
(* binds and where, and which programs are rejected before they run.  This *)
(* is what the resolver is compared with.  It looks at whole programs, and *)
(* knows nothing of blocks, bindings or the order of resolution, except    *)
(* that with global reassignment a name is used only after it is bound.    *)
(* Unenforced are the rules of doc/spec.md that the resolver does not      *)
(* apply; the limit on the arguments of a call is its own.                 *)
(***************************************************************************)
EXTENDS Syntax

CONSTANT ArgLimit    (* how many positional, or named, arguments a call has *)

RECURSIVE Targets(_), Bindings(_)
Targets(lhs) ==
  CASE lhs.k = "Ident" -> {lhs.name}
    [] lhs.k = "Paren" -> Targets(lhs.x)
    [] lhs.k \in {"Tuple", "List"} -> UNION {Targets(lhs.list[j]) : j \in DOMAIN lhs.list}
    [] OTHER -> {}
(* What a load binds; the names it asks for are identifiers, and exported: *)
(* a blank stands here for whatever an identifier does not have.           *)
Loads(s) == SelectSeq([j \in DOMAIN s.to |-> j], LAMBDA j : s.from[j] # "")
Characters(name) == {SubSeq(name, i, i) : i \in 1..Len(name)}
(* The names that the statements ss bind.                                  *)
Bindings(ss) ==
  UNION {CASE ss[j].k = "Assign" -> Targets(ss[j].lhs)
           [] ss[j].k \in {"Def", "Class"} -> {ss[j].name}
           [] ss[j].k = "For" -> Targets(ss[j].vars) \cup Bindings(ss[j].body)
           [] ss[j].k = "While" -> Bindings(ss[j].body)
           [] ss[j].k = "If" -> Bindings(ss[j].t) \cup Bindings(ss[j].f)
           [] ss[j].k = "Load" -> {ss[j].to[i] : i \in ToSet(Loads(ss[j]))}
           [] OTHER -> {} : j \in DOMAIN ss}
CompTargets(e) ==
  UNION {IF e.clauses[j].k = "ForClause" THEN Targets(e.clauses[j].vars) ELSE {} : j \in DOMAIN e.clauses}
-----------------------------------------------------------------------------
If(cond, what) == IF cond THEN {what} ELSE {}
Kinds(args) ==
  [j \in DOMAIN args |->
     IF args[j].k = "Unary" /\ args[j].op \in {"*", "**"} THEN args[j].op
     ELSE IF args[j].k = "Binary" /\ args[j].op = "=" THEN "=" ELSE "value"]
Before(s, S, T) == \E i, j \in DOMAIN s : i < j /\ s[i] \in S /\ s[j] \in T
Repeated(s) == \E i, j \in DOMAIN s : i < j /\ s[i] = s[j] /\ s[i] # ""

(* Positional arguments, then named ones, then *args, then **kwargs.       *)
ArgumentErrors(args) ==
  LET ks == Kinds(args)
      exceeds(kind) == Len(SelectSeq(ks, LAMBDA k : k = kind)) > ArgLimit
  IN If(\/ Before(ks, {"="}, {"value"}) \/ Before(ks, {"*"}, {"value", "=", "*"})
        \/ Before(ks, {"**"}, {"value", "=", "*", "**"})
        \/ Repeated([j \in DOMAIN args |-> IF ks[j] = "=" THEN args[j].x.name ELSE ""]), "argument")
     \cup If(exceeds("value"), "positional limit") \cup If(exceeds("="), "keyword limit")
(* Required parameters, then optional ones, then * with any keyword-only   *)
(* ones, then **kwargs; no name twice, a second * or ** aside.             *)
ParameterName(p) == IF p.k = "Ident" THEN p.name ELSE IF p.x = None THEN "" ELSE p.x.name
ParameterErrors(ps) ==
  LET ks == Kinds(ps)
      star == SelectSeq([j \in DOMAIN ks |-> j], LAMBDA j : ks[j] = "*")
      open == SubSeq(ks, 1, IF star = <<>> THEN Len(ks) ELSE star[1] - 1)
      bare == star # <<>> /\ ps[star[1]].x = None
      again(j) == ks[j] \in {"*", "**"} /\ \E i \in 1..(j - 1) : ks[i] = ks[j]
  IN If(\/ Before(open, {"="}, {"value"}) \/ Len(star) > 1 \/ Before(ks, {"**"}, {"value", "=", "*", "**"})
        \/ bare /\ ~Before(ks, {"*"}, {"value", "="}), "parameter")
     \cup If(Repeated([j \in DOMAIN ps |-> IF again(j) THEN "" ELSE ParameterName(ps[j])]), "duplicate")

(* Where code stands: the names in scope, whether in a function, a loop, a *)
(* conditional statement; and the options.                                 *)
NameErrors(name, ctx) ==
  IF name \in ctx.names \cup ctx.opts.prior \cup ctx.opts.predeclared THEN {}
  ELSE IF name \notin ctx.opts.universal THEN {"undefined"} ELSE If(name = "set" /\ ~ctx.opts.set, "set")

RECURSIVE ExprErrors(_, _), TargetErrors(_, _, _), StmtErrors(_, _)
AllErrors(xs, ctx) == UNION {ExprErrors(xs[j], ctx) : j \in DOMAIN xs}
BlockErrors(ss, ctx) == UNION {StmtErrors(ss[j], ctx) : j \in DOMAIN ss}
FunctionErrors(ps, body, ctx) ==
  AllErrors([j \in DOMAIN ps |-> IF Kinds(ps)[j] = "=" THEN ps[j].y ELSE None], ctx)
  \cup ParameterErrors(ps)
  \cup BlockErrors(body, [ctx EXCEPT !.names = @ \cup Bindings(body) \cup {ParameterName(ps[j]) : j \in DOMAIN ps},
                                     !.fn = TRUE, !.loop = FALSE])
CompErrors(e, ctx) ==
  LET in == [ctx EXCEPT !.names = @ \cup CompTargets(e)]
      clause(j) == IF e.clauses[j].k = "IfClause" THEN ExprErrors(e.clauses[j].cond, in)
                   ELSE TargetErrors(e.clauses[j].vars, FALSE, in)
                        \cup ExprErrors(e.clauses[j].x, IF j = 1 THEN ctx ELSE in)
  IN ExprErrors(e.body, in) \cup UNION {clause(j) : j \in DOMAIN e.clauses}
ExprErrors(e, ctx) ==
  CASE e.k = "Ident" -> NameErrors(e.name, ctx)
    [] e.k = "Call" -> ArgumentErrors(e.args) \cup ExprErrors(e.fn, ctx)
                       \cup AllErrors([j \in DOMAIN e.args |-> IF Kinds(e.args)[j] = "=" THEN e.args[j].y
                                                               ELSE e.args[j]], ctx)
    [] e.k = "Dot" -> ExprErrors(e.x, ctx)
    [] e.k = "Lambda" -> FunctionErrors(e.params, <<Return(e.body)>>, ctx)
    [] e.k = "Comp" -> CompErrors(e, ctx)
    [] OTHER -> AllErrors(Children(e), ctx)
TargetErrors(lhs, augmented, ctx) ==
  CASE lhs.k = "Ident" -> {}
    [] lhs.k \in {"Index", "Dot"} -> ExprErrors(lhs, ctx)
    [] lhs.k = "Paren" -> TargetErrors(lhs.x, augmented, ctx)
    [] lhs.k \in {"Tuple", "List"} ->
         If(augmented, "augmented") \cup UNION {TargetErrors(lhs.list[j], augmented, ctx) : j \in DOMAIN lhs.list}
    [] OTHER -> {"assign"}

LoadErrors(s, ctx) ==
  LET names == ToSet(s.from)
  IN If(ctx.fn \/ ctx.loop \/ ctx.branch, "load")
     \cup If("" \in names, "empty name")
     \cup If(\E x \in names \ {""} : SubSeq(x, 1, 1) = "_", "underscore")
     \cup If(\E x \in names : " " \in Characters(x), "not an identifier")

StmtErrors(s, ctx) ==
  LET control == If(~ctx.fn /\ ~ctx.opts.control, "control")
      looping == [ctx EXCEPT !.loop = TRUE]
  IN CASE s.k = "Expr" -> ExprErrors(s.x, ctx)
       [] s.k = "Branch" -> If(s.tok # "pass" /\ ~ctx.loop, "branch")
       [] s.k = "Assign" -> ExprErrors(s.rhs, ctx) \cup TargetErrors(s.lhs, s.op # "=", ctx)
                            \cup If(s.op # "=" /\ Targets(s.lhs) # {} /\ ~ctx.fn /\ ~ctx.opts.reassign,
                                    "augmented global")
       [] s.k = "Def" -> FunctionErrors(s.params, s.body, ctx)
       [] s.k = "If" -> control \cup ExprErrors(s.cond, ctx) \cup BlockErrors(s.t \o s.f, [ctx EXCEPT !.branch = TRUE])
       [] s.k = "For" -> control \cup ExprErrors(s.x, ctx) \cup TargetErrors(s.vars, FALSE, ctx)
                         \cup BlockErrors(s.body, looping)
       [] s.k = "While" -> control \cup If(~ctx.opts.while, "while") \cup ExprErrors(s.cond, ctx)
                           \cup BlockErrors(s.body, looping)
       [] s.k = "Return" -> If(~ctx.fn, "return") \cup AllErrors(Present(<<s.result>>), ctx)
       [] s.k = "Load" -> LoadErrors(s, ctx)
-----------------------------------------------------------------------------
(* What happens to names at the top level, in order: they are used, bound, *)
(* or bound by load statements, outside functions and comprehensions.      *)
RECURSIVE UsesOf(_), FileOrder(_, _)
Uses(xs) == Concat([j \in DOMAIN xs |-> UsesOf(xs[j])])
UsesOf(e) ==
  CASE e.k = "Ident" -> <<<<"use", e.name>>>>
    [] e.k = "Lambda" -> Uses([j \in DOMAIN e.params |-> IF Kinds(e.params)[j] = "=" THEN e.params[j].y ELSE None])
    [] e.k = "Comp" -> UsesOf(e.clauses[1].x)
    [] e.k = "Dot" -> UsesOf(e.x)
    [] e.k = "Binary" /\ e.op = "=" -> UsesOf(e.y)
    [] OTHER -> Uses(Children(e))
RECURSIVE BindsOf(_)
BindsOf(lhs) ==
  CASE lhs.k = "Ident" -> <<<<"bind", lhs.name>>>>
    [] lhs.k = "Paren" -> BindsOf(lhs.x)
    [] lhs.k \in {"Tuple", "List"} -> Concat([j \in DOMAIN lhs.list |-> BindsOf(lhs.list[j])])
    [] OTHER -> UsesOf(lhs)
FileOrder(ss, opts) ==
  Concat([j \in DOMAIN ss |->
    LET s == ss[j]
    IN CASE s.k = "Expr" -> UsesOf(s.x)
         [] s.k = "Assign" -> UsesOf(s.rhs) \o BindsOf(s.lhs)
         [] s.k = "Def" -> <<<<"bind", s.name>>>> \o UsesOf(Lambda(s.params, None))
         [] s.k = "If" -> UsesOf(s.cond) \o FileOrder(s.t \o s.f, opts)
         [] s.k = "For" -> UsesOf(s.x) \o BindsOf(s.vars) \o FileOrder(s.body, opts)
         [] s.k = "While" -> UsesOf(s.cond) \o FileOrder(s.body, opts)
         [] s.k = "Load" -> LET js == Loads(s)
                            IN [i \in DOMAIN js |-> <<IF opts.loadGlobal THEN "bind" ELSE "load", s.to[js[i]]>>]
         [] OTHER -> <<>>])

(* A top-level name is bound once; neither does a load bind the name of a  *)
(* global, nor a statement a name that a load has bound.                   *)
OrderErrors(order, opts) ==
  LET twice == \E i, j \in DOMAIN order :
                 /\ i < j /\ order[i][2] = order[j][2]
                 /\ \/ order[i][1] \in {"bind", "load"} /\ order[j][1] = "bind"
                    \/ order[i][1] = "load" /\ order[j][1] = "load"
      taken == \E i, j \in DOMAIN order :
                 i < j /\ order[i] = <<"bind", order[j][2]>> /\ order[j][1] = "load"
      early == \E j \in DOMAIN order :
                 /\ order[j][1] = "use"
                 /\ order[j][2] \notin opts.prior \cup opts.predeclared \cup opts.universal
                 /\ ~\E i \in 1..(j - 1) : order[i][1] # "use" /\ order[i][2] = order[j][2]
  IN If(twice /\ ~opts.reassign, "reassign") \cup If(taken /\ ~opts.reassign, "load of a global")
     \cup If(early /\ opts.reassign, "undefined")

StaticErrors(ss, opts) ==
  BlockErrors(ss, [names |-> Bindings(ss), fn |-> FALSE, loop |-> FALSE, branch |-> FALSE, opts |-> opts])
  \cup OrderErrors(FileOrder(ss, opts), opts)

(* What the resolver lets pass: a load that binds the name of an earlier    *)
(* global, against doc/spec.md:1149 (resolve.go:595 looks in the file block *)
(* alone); x op= y at top level, against doc/spec.md:1254, when nothing     *)
(* else binds x (resolve.go:320 does not know that the assignment is        *)
(* augmented); and a load of a name that is no identifier, against          *)
(* doc/spec.md:2861.                                                       *)
Unenforced == {"load of a global", "augmented global", "not an identifier"}
=============================================================================

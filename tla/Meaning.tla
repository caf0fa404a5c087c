-------------------------------- MODULE Meaning --------------------------------
(***************************************************************************)
(* What programs mean, by doc/spec.md: an evaluator of syntax trees as     *)
(* they are written, classes and decorators included, with lexical scope   *)
(* by environments.  It knows nothing of bindings, cells, stacks or code.  *)
(* It is what the compiled program is compared with: it is given the facts *)
(* that the run of the program has chosen.                                 *)
(*                                                                         *)
(* A scope is [frame, block, names]: the call it belongs to, the node that *)
(* makes it and the names bound in it.  env is the list of scopes from the *)
(* innermost; the variables of all frames are in vars.                     *)
(***************************************************************************)
EXTENDS Rules, Values

(* The evaluation: the value v of what was evaluated last, and how it went *)
(* on: "next", "break", "continue", "return", "error".                     *)
Begin(ss, facts, opts) ==
  [heap |-> <<>>, vars |-> [k \in {<<0, <<>>, x>> : x \in opts.prior} |-> Host(k[3])],
   events |-> <<>>, facts |-> facts, ctl |-> "next", v |-> NoneV,
   env |-> <<[frame |-> 0, block |-> <<>>, names |-> Bindings(ss)]>>, frames |-> 1,
   calls |-> <<>>, active |-> <<>>, recursion |-> opts.recursion, why |-> "", at |-> <<>>]

Value(st, v) == [st EXCEPT !.v = v]
Err(st, why, at) == [st EXCEPT !.ctl = "error", !.why = why, !.at = at]
Goes(st) == st.ctl = "next"

Visible(st, name) == {j \in DOMAIN st.env : name \in st.env[j].names}
Key(st, name) ==
  LET j == CHOOSE i \in Visible(st, name) : \A k \in Visible(st, name) : i <= k
  IN <<st.env[j].frame, st.env[j].block, name>>
Read(st, id) ==
  IF Visible(st, id.name) = {} THEN Value(st, Host(id.name))
  ELSE IF Key(st, id.name) \notin DOMAIN st.vars THEN Err(st, "unbound", id.at)
  ELSE Value(st, st.vars[Key(st, id.name)])
Write(st, name, v) == [st EXCEPT !.vars = (Key(st, name) :> v) @@ @]

Allocate(st, kind, object) ==
  [st EXCEPT !.heap = Append(@, object), !.v = Ref(kind, Len(st.heap) + 1)]
Allowed(st, term) == IF term \in DOMAIN st.facts.ok THEN st.facts.ok[term] ELSE TRUE
Operation(st, op, args, at) ==
  LET term == OperationTerm(st.heap, op, args)
  IN IF op = "PLUS" /\ Alike(args[1], args[2])
     THEN IF args[1].t = "list" THEN Allocate(st, "list", st.heap[args[1].id] \o st.heap[args[2].id])
          ELSE Value(st, Joined(args[1], args[2]))
     ELSE IF Allowed(st, term) THEN Value(st, term) ELSE Err(st, "operation", at)
Event(st, term, at) ==
  IF Allowed(st, term) THEN [st EXCEPT !.events = Append(@, term)] ELSE Err(st, "operation", at)
IsTrue(st, v) == Truth(st.facts, st.heap, v)
Names ==
  "+" :> "PLUS" @@ "-" :> "MINUS" @@ "*" :> "STAR" @@ "/" :> "SLASH" @@ "//" :> "SLASHSLASH"
  @@ "%" :> "PERCENT" @@ "&" :> "AMP" @@ "|" :> "PIPE" @@ "^" :> "CIRCUMFLEX" @@ "<<" :> "LTLT"
  @@ ">>" :> "GTGT" @@ "in" :> "IN" @@ "==" :> "EQL" @@ "!=" :> "NEQ" @@ "<" :> "LT" @@ ">" :> "GT"
  @@ "<=" :> "LE" @@ ">=" :> "GE"

(* What is evaluated from within itself: expressions, statements, targets   *)
(* of assignments, calls.                                                  *)
RECURSIVE Do(_, _), Gather(_, _, _, _), WhileLoop(_, _)
Eval(st, e) == Do(st, [do |-> "eval", e |-> e])
Exec(st, s) == Do(st, [do |-> "exec", s |-> s])
Bind(st, lhs, v, at) == Do(st, [do |-> "bind", lhs |-> lhs, v |-> v, at |-> at])
Apply(st, fn, args, pairs, at) ==
  Do(st, [do |-> "call", fn |-> fn, args |-> args, pairs |-> pairs, at |-> at])

(* The values of several expressions, in order.                            *)
EvalAll(st, xs) ==
  LET one(acc, x) ==
        LET r == Eval(acc.st, x) IN IF Goes(acc.st) THEN [st |-> r, vs |-> Append(acc.vs, r.v)] ELSE acc
  IN LeftFold(one, [st |-> st, vs |-> <<>>], xs)
ExecAll(st, ss) == LeftFold(LAMBDA acc, s : IF Goes(acc) THEN Exec(acc, s) ELSE acc, st, ss)

(* What depends on the values of xs.                                       *)
After(st, xs, then(_, _)) ==
  LET r == EvalAll(st, xs) IN IF Goes(r.st) THEN then(r.st, r.vs) ELSE r.st

(* Calls.  The parameters by the rules of the specification: each has one  *)
(* source, the positional argument, the named one or the default.          *)
Plain(ps) == SelectSeq(ps, LAMBDA p : p.k # "Unary")
NameOf(p) == IF p.k = "Ident" THEN p.name ELSE p.x.name
StarAt(ps) == {j \in DOMAIN ps : ps[j].k = "Unary" /\ ps[j].op = "*"}
Collects(ps, op) == \E j \in DOMAIN ps : ps[j].k = "Unary" /\ ps[j].op = op /\ ps[j].x # None
CollectorOf(ps, op) == (CHOOSE p \in ToSet(ps) : p.k = "Unary" /\ p.op = op /\ p.x # None).x.name

BindArguments(ps, defaults, args, pairs) ==
  LET plain == Plain(ps)
      positional == Len(SelectSeq([j \in DOMAIN ps |-> ps[j].k # "Unary" /\ \A s \in StarAt(ps) : j < s],
                                  LAMBDA b : b))
      filled(j) == j <= positional /\ j <= Len(args)
      named(x) == {j \in DOMAIN pairs : pairs[j][1] = x}
      source(j) == IF filled(j) THEN args[j]
                   ELSE IF named(NameOf(plain[j])) # {} THEN pairs[CHOOSE i \in named(NameOf(plain[j])) : TRUE][2]
                   ELSE defaults[NameOf(plain[j])]
      ordinary == {NameOf(plain[j]) : j \in DOMAIN plain}
  IN [err |-> \/ Len(args) > positional /\ ~Collects(ps, "*")
              \/ \E i, j \in DOMAIN pairs : i # j /\ pairs[i][1] = pairs[j][1]
              \/ \E j \in DOMAIN pairs : pairs[j][1] \notin ordinary /\ ~Collects(ps, "**")
              \/ \E j \in DOMAIN plain :
                   \/ filled(j) /\ named(NameOf(plain[j])) # {}
                   \/ ~filled(j) /\ named(NameOf(plain[j])) = {} /\ NameOf(plain[j]) \notin DOMAIN defaults,
      vals |-> [j \in DOMAIN plain |-> <<NameOf(plain[j]), source(j)>>],
      rest |-> SubSeq(args, positional + 1, Len(args)),
      kw |-> SelectSeq(pairs, LAMBDA p : p[1] \notin ordinary)]

Invoke(st, fn, args, pairs, at) ==
  LET b == BindArguments(fn.params, fn.defaults, args, pairs)
      scope == [frame |-> st.frames, block |-> fn.at,
                names |-> Bindings(fn.body) \cup {b.vals[j][1] : j \in DOMAIN b.vals}
                          \cup {CollectorOf(fn.params, op) : op \in {o \in {"*", "**"} : Collects(fn.params, o)}}]
      in == [st EXCEPT !.env = <<scope>> \o fn.env, !.frames = @ + 1, !.calls = Append(@, at),
                       !.active = Append(@, fn.at)]
      bound == LeftFold(LAMBDA s, p : Write(s, p[1], p[2]), in, b.vals)
      dict == Allocate(bound, "dict", [j \in DOMAIN b.kw |-> <<StringV(b.kw[j][1]), b.kw[j][2]>>])
      rest == IF Collects(fn.params, "**") THEN Write(dict, CollectorOf(fn.params, "**"), dict.v) ELSE bound
      whole == IF Collects(fn.params, "*") THEN Write(rest, CollectorOf(fn.params, "*"), Tuple(b.rest)) ELSE rest
      out == ExecAll(Value(whole, NoneV), fn.body)
      back == [out EXCEPT !.env = st.env, !.active = st.active]
  IN IF ~st.recursion /\ fn.at \in ToSet(st.active) THEN Err(st, "recursion", at)
     ELSE IF b.err THEN Err(st, "arguments", at)
     ELSE IF out.ctl = "error" THEN back
     ELSE [back EXCEPT !.calls = st.calls, !.ctl = "next", !.v = IF out.ctl = "return" THEN @ ELSE NoneV]

Call(st, fn, args, pairs, at) ==
  IF fn.t = "fn" THEN Invoke(st, fn, args, pairs, at)
  ELSE Value(Event(st, CallTerm(st.heap, fn, args, pairs, Len(st.events)), at), ResultOf(Len(st.events)))

Closure(st, at, name, ps, body) ==
  LET optional == SelectSeq(ps, LAMBDA p : p.k = "Binary")
      then(s, vs) == Value(s, [t |-> "fn", name |-> name, at |-> at, env |-> s.env, params |-> ps, body |-> body,
                               defaults |-> [x \in {NameOf(optional[j]) : j \in DOMAIN vs} |->
                                              vs[CHOOSE j \in DOMAIN vs : NameOf(optional[j]) = x]]])
  IN After(st, [j \in DOMAIN optional |-> optional[j].y], then)
-----------------------------------------------------------------------------
Named(a) == a.k = "Binary" /\ a.op = "="
Starred(a, op) == a.k = "Unary" /\ a.op = op
CallArgs(args, op) == SelectSeq(args, LAMBDA a : IF op = "=" THEN Named(a) ELSE Starred(a, op))

(* fn(args): positional and named arguments in order, then *x, then **x.   *)
EvalCall(st, e) ==
  LET inline == SelectSeq(e.args, LAMBDA a : ~Starred(a, "*") /\ ~Starred(a, "**"))
      star == CallArgs(e.args, "*")
      double == CallArgs(e.args, "**")
      xs == <<e.fn>> \o [j \in DOMAIN inline |-> IF Named(inline[j]) THEN inline[j].y ELSE inline[j]]
            \o [j \in DOMAIN star |-> star[j].x] \o [j \in DOMAIN double |-> double[j].x]
      n == Len(inline)
      then(s, vs) ==
        LET plain == SelectSeq([j \in 1..n |-> j], LAMBDA j : ~Named(inline[j]))
            named == SelectSeq([j \in 1..n |-> j], LAMBDA j : Named(inline[j]))
            more == IF star = <<>> THEN <<>> ELSE Elements(s.facts, s.heap, vs[n + 2])
            dict == Last(vs)
            items == IF double = <<>> THEN <<>> ELSE s.heap[dict.id]
            args == [j \in DOMAIN plain |-> vs[plain[j] + 1]] \o more
            pairs == [j \in DOMAIN named |-> <<inline[named[j]].x.name, vs[named[j] + 1]>>]
                     \o [j \in DOMAIN items |-> <<items[j][1].c.val, items[j][2]>>]
        IN IF double # <<>> /\ (dict.t # "dict" \/ \E j \in DOMAIN s.heap[dict.id] :
                                                     s.heap[dict.id][j][1].t # "const"
                                                     \/ s.heap[dict.id][j][1].c.tok # "STRING")
           THEN Err(s, "keywords", e.at)
           ELSE IF star # <<>> /\ ~Iterable(s.facts, vs[n + 2]) THEN Err(s, "not iterable", e.at)
           ELSE Apply(s, vs[1], args, pairs, e.at)
  IN After(st, xs, then)

(* The value of x or y, x and y.                                           *)
Decide(st, e, stops) ==
  LET x == Eval(st, e.x) IN IF ~Goes(x) \/ IsTrue(x, x.v) = stops THEN x ELSE Eval(x, e.y)

(* Each element of the value v bound to vars, then the rest.               *)
ForEach(st, at, vars, v, rest(_)) ==
  LET one(acc, elem) ==
        LET bound == Bind([acc EXCEPT !.ctl = "next"], vars, elem, at)
        IN IF acc.ctl \notin {"next", "continue"} THEN acc ELSE IF Goes(bound) THEN rest(bound) ELSE bound
  IN IF ~Goes(st) THEN st
     ELSE IF ~Iterable(st.facts, v) THEN Err(st, "not iterable", at)
     ELSE LeftFold(one, st, Elements(st.facts, st.heap, v))

(* The clauses cs of the comprehension e, which makes the list or dict into.*)
Gather(st, e, cs, into) ==
  LET c == Head(cs)
      rest(s) == Gather(s, e, Tail(cs), into)
      entry(s, vs) == [s EXCEPT !.heap[into.id] = SetItem(@, vs[1], vs[2])]
      elem(s, vs) == [s EXCEPT !.heap[into.id] = Append(@, vs[1])]
      x == Eval(st, IF c.k = "ForClause" THEN c.x ELSE c.cond)
  IN IF cs = <<>>
     THEN IF e.curly THEN After(st, <<e.body.key, e.body.value>>, entry) ELSE After(st, <<e.body>>, elem)
     ELSE IF c.k = "ForClause" THEN ForEach(x, c.at, c.vars, x.v, rest)
     ELSE IF Goes(x) /\ IsTrue(x, x.v) THEN rest(x) ELSE x

(* The first operand is evaluated outside the comprehension's block.       *)
Comprehend(st, e) ==
  LET first == e.clauses[1]
      made == Allocate(st, IF e.curly THEN "dict" ELSE "list", <<>>)
      x == Eval(made, first.x)
      scope == [frame |-> st.env[1].frame, block |-> e.at, names |-> CompTargets(e)]
      done == ForEach([x EXCEPT !.env = <<scope>> \o @], first.at, first.vars, x.v,
                      LAMBDA s : Gather(s, e, Tail(e.clauses), made.v))
  IN [Value(done, made.v) EXCEPT !.env = st.env]

EvalDict(st, e) ==
  LET made == Allocate(st, "dict", <<>>)
      dict == made.v
      one(acc, entry) ==
        LET then(s, vs) ==
              IF \E j \in DOMAIN s.heap[dict.id] : Show(s.heap, s.heap[dict.id][j][1]) = Show(s.heap, vs[1])
              THEN Err(s, "duplicate key", entry.at)
              ELSE [s EXCEPT !.heap[dict.id] = SetItem(@, vs[1], vs[2])]
        IN IF Goes(acc) THEN After(acc, <<entry.key, entry.value>>, then) ELSE acc
  IN Value(LeftFold(one, made, e.list), dict)

Opt(x) == IF x = None THEN Literal("NONE", "") ELSE x
Sliced(e) == <<e.x, Opt(e.lo), Opt(e.hi), Opt(e.step)>>
Unaries == "-" :> "UMINUS" @@ "+" :> "UPLUS" @@ "~" :> "TILDE"

EvalExpr(st, e) ==
  LET not(s, vs) == Value(s, Bool(~IsTrue(s, vs[1])))
      notin(s, vs) == LET r == Operation(s, "IN", vs, e.at) IN IF Goes(r) THEN not(r, <<r.v>>) ELSE r
      cond == Eval(st, e.cond)
  IN CASE e.k = "Paren" -> Eval(st, e.x)
       [] e.k = "Ident" -> Read(st, e)
       [] e.k = "Literal" -> Value(st, IF e.tok = "NONE" THEN NoneV ELSE Const([tok |-> e.tok, val |-> e.val]))
       [] e.k = "Tuple" -> After(st, e.list, LAMBDA s, vs : Value(s, Tuple(vs)))
       [] e.k = "List" -> After(st, e.list, LAMBDA s, vs : Allocate(s, "list", vs))
       [] e.k = "Dict" -> EvalDict(st, e)
       [] e.k = "Comp" -> Comprehend(st, e)
       [] e.k = "Cond" -> IF ~Goes(cond) THEN cond ELSE Eval(cond, IF IsTrue(cond, cond.v) THEN e.t ELSE e.f)
       [] e.k = "Index" -> After(st, <<e.x, e.y>>, LAMBDA s, vs : Operation(s, "INDEX", vs, e.at))
       [] e.k = "Slice" -> After(st, Sliced(e), LAMBDA s, vs : Operation(s, "SLICE", vs, e.at))
       [] e.k = "Dot" -> After(st, <<e.x>>, LAMBDA s, vs : Operation(s, "ATTR", <<vs[1], StringV(e.name)>>, e.at))
       [] e.k = "Unary" -> IF e.op = "not" THEN After(st, <<e.x>>, not)
                           ELSE After(st, <<e.x>>, LAMBDA s, vs : Operation(s, Unaries[e.op], vs, e.at))
       [] e.k = "Binary" /\ e.op \in {"or", "and"} -> Decide(st, e, e.op = "or")
       [] e.k = "Binary" /\ e.op = "not in" -> After(st, <<e.x, e.y>>, notin)
       [] e.k = "Binary" /\ e.op \in DOMAIN Names ->
            After(st, <<e.x, e.y>>, LAMBDA s, vs : Operation(s, Names[e.op], vs, e.at))
       [] e.k = "Call" -> EvalCall(st, e)
       [] e.k = "Lambda" -> Closure(st, e.at, "lambda", e.params, <<Return(e.body)>>)
-----------------------------------------------------------------------------
(* lhs = v                                                                 *)
Store(op, s, vs, at) == Event(s, Term(op, ShowAll(s.heap, vs)), at)
BindTarget(st, lhs, v, at) ==
  LET vs == Elements(st.facts, st.heap, v)
      n == Len(lhs.list)
      one(acc, j) == IF Goes(acc) THEN Bind(acc, lhs.list[j], vs[j], at) ELSE acc
  IN CASE lhs.k = "Paren" -> Bind(st, lhs.x, v, at)
       [] lhs.k = "Ident" -> Write(st, lhs.name, v)
       [] lhs.k \in {"Tuple", "List"} ->
            IF ~Iterable(st.facts, v) THEN Err(st, "not iterable", at)
            ELSE IF Len(vs) # n THEN Err(st, "unpack", at) ELSE LeftFold(one, st, [j \in 1..n |-> j])
       [] lhs.k = "Index" ->
            After(st, <<lhs.x, lhs.y>>, LAMBDA s, xs : Store("SETINDEX", s, Append(xs, v), lhs.at))
       [] lhs.k = "Dot" ->
            After(st, <<lhs.x>>, LAMBDA s, xs : Store("SETFIELD", s, <<xs[1], v, StringV(lhs.name)>>, lhs.at))

(* x op= y: a list is extended and a dict updated in place.                *)
Combined(s, op, x, y, at) ==
  CASE op = "+=" /\ x.t = "list" /\ y.t \in {"list", "tuple"} ->
         Value([s EXCEPT !.heap[x.id] = @ \o Elements(s.facts, s.heap, y)], x)
    [] op = "|=" /\ x.t = "dict" /\ y.t = "dict" ->
         Value([s EXCEPT !.heap[x.id] = LeftFold(LAMBDA acc, kv : SetItem(acc, kv[1], kv[2]), @, s.heap[y.id])], x)
    [] OTHER -> Operation(s, Names[CHOOSE o \in DOMAIN Names : o \o "=" = op /\ o \notin Comparisons], <<x, y>>, at)
RECURSIVE Bare(_)
Bare(x) == IF x.k = "Paren" THEN Bare(x.x) ELSE x
Augment(st, s) ==
  LET lhs == Bare(s.lhs)
      parts == IF lhs.k = "Index" THEN <<lhs.x, lhs.y>> ELSE IF lhs.k = "Dot" THEN <<lhs.x>> ELSE <<>>
      then(t, ps) ==
        LET old == CASE lhs.k = "Ident" -> Read(t, lhs)
                     [] lhs.k = "Index" -> Operation(t, "INDEX", ps, lhs.at)
                     [] lhs.k = "Dot" -> Operation(t, "ATTR", <<ps[1], StringV(lhs.name)>>, lhs.at)
            y == Eval(old, s.rhs)
            new == Combined(y, s.op, old.v, y.v, s.at)
        IN IF ~Goes(old) THEN old ELSE IF ~Goes(y) THEN y ELSE IF ~Goes(new) THEN new
           ELSE CASE lhs.k = "Ident" -> Write(new, lhs.name, new.v)
                  [] lhs.k = "Index" -> Store("SETINDEX", new, Append(ps, new.v), lhs.at)
                  [] lhs.k = "Dot" -> Store("SETFIELD", new, <<ps[1], new.v, StringV(lhs.name)>>, lhs.at)
  IN After(st, parts, then)

WhileLoop(st, s) ==
  LET cond == Eval(st, s.cond)
      body == ExecAll(cond, s.body)
  IN IF ~Goes(cond) \/ ~IsTrue(cond, cond.v) THEN cond
     ELSE IF body.ctl \in {"next", "continue"} THEN WhileLoop([body EXCEPT !.ctl = "next"], s) ELSE body
Ended(st) == IF st.ctl \in {"break", "continue"} THEN [st EXCEPT !.ctl = "next"] ELSE st

(* Decorators are evaluated in order and applied from the last to the first.*)
Decorated(st, decs, at, then(_)) ==
  LET apply(acc, d) == IF Goes(acc) THEN Apply(acc, d, <<acc.v>>, <<>>, at) ELSE acc
      made(s, ds) == LET r == then(s) IN IF Goes(r) THEN LeftFold(apply, r, Reverse(ds)) ELSE r
  IN After(st, decs, made)

(* A class: its body in a call of its own, then $make_class.               *)
ClassNames(body) ==
  LeftFold(LAMBDA acc, s :
             LET x == IF s.k \in {"Def", "Class"} THEN s.name
                      ELSE IF s.k = "Assign" /\ s.lhs.k = "Ident" THEN s.lhs.name ELSE ""
             IN IF x = "" \/ x \in ToSet(acc) THEN acc ELSE Append(acc, x), <<>>, body)
EvalClass(st, c) ==
  LET scope == [frame |-> st.frames, block |-> c.at, names |-> Bindings(c.body)]
      then(s, bases) ==
        LET body == ExecAll([s EXCEPT !.env = <<scope>> \o @, !.frames = @ + 1,
                                      !.calls = Append(@, c.at)], c.body)
            names == ClassNames(c.body)
            dict == Allocate(body, "dict", [j \in DOMAIN names |->
                                             <<StringV(names[j]), body.vars[Key(body, names[j])]>>])
            out == [dict EXCEPT !.env = s.env, !.calls = s.calls]
        IN IF ~Goes(body) THEN [body EXCEPT !.env = s.env]
           ELSE Apply(out, Host("$make_class"), <<StringV(c.name), Tuple(bases), dict.v>>, <<>>, c.at)
  IN After(st, c.bases, then)

ExecStmt(st, s) ==
  LET x == Eval(st, s.x)
      cond == Eval(st, s.cond)
      rhs == Eval(st, s.rhs)
      def == Closure(st, s.at, s.name, s.params, s.body)
      class == Decorated(st, s.decs, s.at, LAMBDA t : EvalClass(t, s))
      decorated == Decorated(Write(def, s.name, def.v), s.decs, s.at, LAMBDA t : Read(t, s))
      named(t) == IF Goes(t) THEN Write(t, s.name, t.v) ELSE t
  IN CASE s.k = "Expr" -> x
       [] s.k = "Branch" -> IF s.tok = "pass" THEN st ELSE [st EXCEPT !.ctl = s.tok]
       [] s.k = "If" -> IF ~Goes(cond) THEN cond ELSE ExecAll(cond, IF IsTrue(cond, cond.v) THEN s.t ELSE s.f)
       [] s.k = "Assign" -> IF s.op # "=" THEN Augment(st, s)
                            ELSE IF Goes(rhs) THEN Bind(rhs, s.lhs, rhs.v, s.at) ELSE rhs
       [] s.k = "Def" -> IF ~Goes(def) THEN def ELSE IF s.decs = <<>> THEN named(def) ELSE named(decorated)
       [] s.k = "Class" -> named(class)
       [] s.k = "For" -> Ended(ForEach(x, s.at, s.vars, x.v, LAMBDA t : ExecAll(t, s.body)))
       [] s.k = "While" -> Ended(WhileLoop(st, s))
       [] s.k = "Return" -> IF s.result = None THEN [Value(st, NoneV) EXCEPT !.ctl = "return"]
                            ELSE LET r == Eval(st, s.result) IN IF Goes(r) THEN [r EXCEPT !.ctl = "return"] ELSE r
       [] s.k = "Load" ->
            LET module == StringV(s.module)
                done == Event(st, Term("load", <<module, Number(Len(st.events))>>), s.at)
            IN IF ~Goes(done) THEN done
               ELSE LeftFold(LAMBDA acc, j : Write(acc, s.to[j], Term("member", <<module, StringV(s.from[j])>>)),
                             done, [j \in DOMAIN s.to |-> j])

Do(st, a) ==
  CASE a.do = "eval" -> EvalExpr(st, a.e)
    [] a.do = "exec" -> ExecStmt(st, a.s)
    [] a.do = "bind" -> BindTarget(st, a.lhs, a.v, a.at)
    [] a.do = "call" -> Call(st, a.fn, a.args, a.pairs, a.at)

(* How the program ends, what it has done and its global variables; where   *)
(* gives each node its line and column.                                    *)
Result(st, ss, where) ==
  LET stack == Append(st.calls, st.at)
  IN [outcome |-> IF st.ctl = "error"
                  THEN [kind |-> "error", why |-> st.why, stack |-> [j \in DOMAIN stack |-> where[stack[j]]]]
                  ELSE [kind |-> "done", value |-> NoneV],
      events |-> st.events,
      globals |-> [x \in Bindings(ss) |-> IF <<0, <<>>, x>> \in DOMAIN st.vars
                                          THEN Show(st.heap, st.vars[<<0, <<>>, x>>]) ELSE Unset]]
Meaning(ss, facts, opts, where) == Result(ExecAll(Begin(ss, facts, opts), ss), ss, where)
=============================================================================

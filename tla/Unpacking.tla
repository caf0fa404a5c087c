------------------------------ MODULE Unpacking -----------------------------
(***************************************************************************)
(* How built-in functions get their arguments (starlark/unpack.go): from   *)
(* the positional and the named ones of the call, UnpackArgs sets the      *)
(* variables of a list of parameters [name, mark, type].  The mark "?"     *)
(* makes a parameter and all that follow optional, and "??" makes None the *)
(* same as no argument as well.                                            *)
(***************************************************************************)
EXTENDS Naturals, Sequences, Asked

CONSTANTS
  NoneArg,
  Parameters,   (* parameters of built-ins                                 *)
  MaxParams,    (* bound on how many                                       *)
  ArgValues,    (* values passed to them                                   *)
  ArgNames,     (* names under which they are passed                       *)
  MaxNamed      (* bound on how many of those                              *)

ASSUME UnpackingAssumption == MaxParams \in Nat /\ MaxNamed \in Nat

(* UnpackArg, for variables of type Value and of any other type. *)
Accepts(type, v) == type = "Value" \/ v = type

Unset == "unset"
Start(params) == [err |-> "none", vars |-> [i \in DOMAIN params |-> Unset], defined |-> {}]

SkipsNone(p, v) == p.mark = "??" /\ v = NoneArg

(* A wrong binding, that does not count an argument skipped as given. *)
BindSkipping(s, params, i, v) ==
  IF SkipsNone(params[i], v) THEN s
  ELSE IF Accepts(params[i].type, v)
  THEN [s EXCEPT !.vars[i] = v, !.defined = @ \cup {i}]
  ELSE [s EXCEPT !.err = "type"]

(* One argument for parameter i. *)
Bind(s, params, i, v) ==
  LET marked == [s EXCEPT !.defined = @ \cup {i}]
  IN  IF SkipsNone(params[i], v) THEN marked
      ELSE IF Accepts(params[i].type, v) THEN [marked EXCEPT !.vars[i] = v]
      ELSE [marked EXCEPT !.err = "type"]

(* A named argument goes to the first parameter of that name. *)
BindNamed(s, params, name, v) ==
  LET at == {i \in DOMAIN params : params[i].name = name}
      i == CHOOSE i \in at : \A j \in at : i <= j
  IN  CASE at = {} -> [s EXCEPT !.err = "unexpected"]
        [] at # {} /\ i \in s.defined -> [s EXCEPT !.err = "multiple"]
        [] OTHER -> Bind(s, params, i, v)

(* The n-th argument, of the positional ones and then the named ones; the *)
(* first error ends it.                                                    *)
Take(s, params, args, kwargs, n) ==
  CASE s.err # "none" -> s
    [] s.err = "none" /\ n <= Len(args) -> Bind(s, params, n, args[n])
    [] OTHER -> LET k == kwargs[n - Len(args)] IN BindNamed(s, params, k.name, k.val)
TakeAll(params, args, kwargs) ==
  LET after[n \in 0 .. Len(args) + Len(kwargs)] ==
        IF n = 0 THEN Start(params) ELSE Take(after[n - 1], params, args, kwargs, n)
  IN  after[Len(args) + Len(kwargs)]

(* Then the check that those before the first optional parameter are there. *)
Missing(s, params) ==
  {i \in DOMAIN params \ s.defined : \A j \in 1 .. i : params[j].mark = ""}

UnpackArgs(params, args, kwargs) ==
  IF Len(args) > Len(params) THEN [Start(params) EXCEPT !.err = "too many"]
  ELSE LET s == TakeAll(params, args, kwargs)
       IN  IF s.err = "none" /\ Missing(s, params) # {} THEN [s EXCEPT !.err = "missing"] ELSE s

(* UnpackPositionalArgs has no names and no marks, but a minimum number. *)
UnpackPositionalArgs(params, args, kwargs, min) ==
  LET failure == CASE kwargs # <<>> -> "unexpected"
                   [] Len(args) < min -> "missing"
                   [] Len(args) > Len(params) -> "too many"
                   [] OTHER -> "none"
      unmarked == [i \in DOMAIN params |->
                     [name |-> params[i].name, mark |-> "", type |-> params[i].type]]
  IN  IF failure = "none" THEN TakeAll(unmarked, args, kwargs)
      ELSE [Start(params) EXCEPT !.err = failure]
-----------------------------------------------------------------------------
(* The calls of up to so many parameters, of different names. *)
DifferentNames(params) ==
  \A i, j \in DOMAIN params : params[i].name = params[j].name => i = j
AskToBind ==
  \E l \in 0 .. MaxParams, n \in 0 .. MaxParams + 1, m \in 0 .. MaxNamed :
    question \in [kind : {"bind"}, params : {p \in [1 .. l -> Parameters] : DifferentNames(p)},
                  args : [1 .. n -> ArgValues],
                  kwargs : [1 .. m -> [name : ArgNames, val : ArgValues]]]
UnpackingSpec == AskToBind /\ NothingElse
-----------------------------------------------------------------------------
(* What a call means: each parameter has the arguments in its place and of *)
(* its name.  It succeeds just if every argument has a parameter, none has *)
(* two, those before the first optional one have one, and each is of the   *)
(* type or a None that is skipped.                                         *)
NamedFor(params, kwargs, i) == {k \in DOMAIN kwargs : kwargs[k].name = params[i].name}
ValuesFor(params, args, kwargs, i) ==
  {args[j] : j \in {i} \cap DOMAIN args} \cup {kwargs[k].val : k \in NamedFor(params, kwargs, i)}
Twice(params, args, kwargs, i) ==
  \/ i \in DOMAIN args /\ NamedFor(params, kwargs, i) # {}
  \/ \E k, l \in NamedFor(params, kwargs, i) : k # l
Optionals(params, i) == \E j \in 1 .. i : params[j].mark # ""

BoundAsCalled(params, args, kwargs, s) ==
  LET values(i) == ValuesFor(params, args, kwargs, i)
  IN  /\ s.err = "none" <=>
           /\ Len(args) <= Len(params)
           /\ \A k \in DOMAIN kwargs : \E i \in DOMAIN params : params[i].name = kwargs[k].name
           /\ \A i \in DOMAIN params :
                /\ ~Twice(params, args, kwargs, i)
                /\ values(i) = {} => Optionals(params, i)
                /\ \A v \in values(i) : SkipsNone(params[i], v) \/ Accepts(params[i].type, v)
      /\ s.err = "none" =>
           \A i \in DOMAIN params :
             {s.vars[i]} = IF \E v \in values(i) : ~SkipsNone(params[i], v)
                           THEN values(i) ELSE {Unset}
BoundInOrder(params, args, kwargs, min, s) ==
  s.err = "none" <=>
    /\ kwargs = <<>> /\ min <= Len(args) /\ Len(args) <= Len(params)
    /\ \A i \in DOMAIN args : Accepts(params[i].type, args[i])

(* UnpackArgs and UnpackPositionalArgs accept just the calls that give     *)
(* every parameter what it needs, and set the variables accordingly.       *)
BindsExact ==
  question.kind = "bind" =>
    LET bound == UnpackArgs(question.params, question.args, question.kwargs)
        placed(min) ==
          UnpackPositionalArgs(question.params, question.args, question.kwargs, min)
    IN  /\ BoundAsCalled(question.params, question.args, question.kwargs, bound)
        /\ \A min \in 0 .. MaxParams :
             BoundInOrder(question.params, question.args, question.kwargs, min, placed(min))
=============================================================================

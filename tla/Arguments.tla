------------------------------- MODULE Arguments -------------------------------
(***************************************************************************)
(* The binding of a call's arguments to a function's parameters: setArgs   *)
(* and findParam of starlark/eval.go.  A function f has params parameters  *)
(* (with *args and **kwargs, if varargs and kwargs), the last kwonly of    *)
(* the ordinary ones keyword-only, and the names of its locals, which      *)
(* start with the parameters.                                              *)
(***************************************************************************)
EXTENDS Folding, SequencesExt, FiniteSets

Unset == [t |-> "unset"]
Mandatory == [t |-> "mandatory"]

Nparams(f) == f.params - (IF f.kwargs THEN 1 ELSE 0) - (IF f.varargs THEN 1 ELSE 0)

(* The positional arguments, the first of them to parameters.              *)
Positional(f, args) ==
  LET nonkwonly == Nparams(f) - f.kwonly
      n == IF Len(args) > nonkwonly THEN nonkwonly ELSE Len(args)
  IN [n |-> n, err |-> Len(args) > nonkwonly /\ ~f.varargs,
      vals |-> [j \in 1..Nparams(f) |-> IF j <= n THEN args[j] ELSE Unset],
      rest |-> SubSeq(args, n + 1, Len(args)), kw |-> <<>>]

FindParam(f, name) == {j \in 1..Nparams(f) : f.locals[j] = name}

(* One named argument <<name, value>>.                                     *)
Keyword(f, s, arg) ==
  LET param == FindParam(f, arg[1])
      j == CHOOSE i \in param : TRUE
      twice == IF param # {} THEN s.vals[j] # Unset ELSE \E i \in DOMAIN s.kw : s.kw[i][1] = arg[1]
  IN IF twice \/ (param = {} /\ ~f.kwargs) THEN [s EXCEPT !.err = TRUE]
     ELSE IF param # {} THEN [s EXCEPT !.vals[j] = arg[2]]
     ELSE [s EXCEPT !.kw = Append(@, arg)]

(* The defaults are those of the last parameters.                          *)
Default(f, defaults, s, j) ==
  LET m == Nparams(f) - Len(defaults)
  IN IF s.vals[j] # Unset \/ j <= m THEN s.vals[j]
     ELSE IF defaults[j - m] = Mandatory THEN Unset ELSE defaults[j - m]

(* What the parameters are bound to: their values, the rest for *args, the *)
(* pairs for **kwargs; or an error.                                        *)
SetArgs(f, defaults, args, kwargs) ==
  LET named == LeftFold(LAMBDA s, a : Keyword(f, s, a), Positional(f, args), kwargs)
      need == named.n < Nparams(f) \/ f.kwonly > 0
      vals == IF need THEN [j \in DOMAIN named.vals |-> Default(f, defaults, named, j)] ELSE named.vals
  IN IF f.params = 0 THEN [err |-> args # <<>> \/ kwargs # <<>>, vals |-> <<>>, rest |-> <<>>, kw |-> <<>>]
     ELSE [err |-> named.err \/ \E j \in DOMAIN vals : vals[j] = Unset,
           vals |-> vals, rest |-> named.rest, kw |-> named.kw]
=============================================================================

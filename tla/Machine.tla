-------------------------------- MODULE Machine --------------------------------
(***************************************************************************)
(* The interpreter of compiled programs: Function.CallInternal of          *)
(* starlark/interp.go, one action per group of instructions.               *)
(*                                                                         *)
(* What the program's environment does is left open: a value that comes    *)
(* from outside, or that an operation on values makes, is a term, and      *)
(* whether a term is true, what iterating over it gives, and whether an    *)
(* operation on it fails are facts, chosen when they are first asked for   *)
(* and kept.  Calls of host functions and stores into terms are events.    *)
(* Lists, dicts and cells live in the heap; facts and events are about     *)
(* what values show (Show), lists and dicts with their elements.           *)
(***************************************************************************)
EXTENDS LineTable, Values, FiniteSets

CONSTANTS MaxElems,  (* how many elements iterating over a term may give   *)
          MaxTrue    (* how many terms may be true, so that loops end      *)

VARIABLES program,   (* the compiled program                               *)
          refusing,  (* whether operations may be refused                  *)
          frames,    (* the call stack, each with its stacks and counters  *)
          heap,      (* the lists, dicts and cells                         *)
          globals,   (* the module's variables                             *)
          facts,     (* what has been chosen                               *)
          events,    (* what the environment has seen                      *)
          outcome    (* how the program has ended                          *)
machine == <<frames, heap, globals, facts, events, outcome>>

Running == [kind |-> "running"]
NoFacts == [truth |-> <<>>, iter |-> <<>>, ok |-> <<>>]

-----------------------------------------------------------------------------
(* The facts the environment may add to f so that something is known of v. *)
Knowing(f, field, v, choices) ==
  IF v \in DOMAIN f[field] THEN {f} ELSE {[f EXCEPT ![field] = (v :> c) @@ @] : c \in choices}
(* An operation may be refused if the program is to fail.                  *)
Fallible == IF refusing THEN BOOLEAN ELSE {TRUE}

TruthChoices(f) == IF Cardinality({v \in DOMAIN f.truth : f.truth[v]}) < MaxTrue THEN BOOLEAN ELSE {FALSE}
FactsOfTruth(f, v) == IF Opaque(v) THEN Knowing(f, "truth", v, TruthChoices(f)) ELSE {f}
(* Iterate: -1 when the value is not iterable.                             *)
FactsOfIter(f, v) ==
  IF Opaque(v) THEN Knowing(f, "iter", v, (IF refusing THEN {-1} ELSE {}) \cup 0..MaxElems)
  ELSE {f}
FactsOfOp(f, term) == Knowing(f, "ok", term, Fallible)
-----------------------------------------------------------------------------
(* The instruction at hand and the operand stack.                          *)
Called(code) == IF code = 0 THEN program.toplevel ELSE program.functions[code]
Top == Last(frames)
S == Top.stack
Arg(k) == S[Len(S) - k]                      (* the k-th from the top, from 0 *)
Args(n) == SubSeq(S, Len(S) - n + 1, Len(S))
Below(n) == SubSeq(S, 1, Len(S) - n)
I == LET code == Called(Top.code).code
         op == code[Top.pc + 1]
         read == ReadVarint(code, Top.pc + 1)
     IN IF HasArg(op) THEN [op |-> op, arg |-> read.arg, next |-> read.next]
        ELSE [op |-> op, arg |-> 0, next |-> Top.pc + 1]
At(ops) == outcome = Running /\ frames # <<>> /\ I.op \in ops

At0(f) == [f EXCEPT !.at = f.pc]
Resume(f) == frames' = [frames EXCEPT ![Len(frames)] = f]
Advance(stack) == Resume([Top EXCEPT !.at = Top.pc, !.pc = I.next, !.stack = stack])
JumpTo(stack, pc) == Resume([Top EXCEPT !.at = Top.pc, !.pc = pc, !.stack = stack])

(* The error, and where each function was; the frames are gone.            *)
Traceback(fs) == [j \in DOMAIN fs |-> Position(Called(fs[j].code).pos, Called(fs[j].code).lines, fs[j].at)]
Raise(why) ==
  /\ outcome' = [kind |-> "error", why |-> why,
                 stack |-> Traceback([frames EXCEPT ![Len(frames)] = At0(Top)])]
  /\ frames' = <<>>
  /\ UNCHANGED <<heap, globals, events>>

New(object, stack) ==
  /\ heap' = Append(heap, object)
  /\ Advance(stack)
-----------------------------------------------------------------------------
(* DUP, DUP2, POP, EXCH; NOP also pads the operands of jumps.              *)
MoveOnStack ==
  /\ At({"NOP", "DUP", "DUP2", "POP", "EXCH"})
  /\ Advance(CASE I.op = "NOP" -> S
               [] I.op = "DUP" -> Append(S, Arg(0))
               [] I.op = "DUP2" -> S \o Args(2)
               [] I.op = "POP" -> Below(1)
               [] I.op = "EXCH" -> Below(2) \o <<Arg(0), Arg(1)>>)
  /\ UNCHANGED <<program, refusing, heap, globals, facts, events, outcome>>

PushValue ==
  /\ At({"NONE", "MANDATORY", "CONSTANT", "PREDECLARED", "UNIVERSAL", "FREE"})
  /\ Advance(Append(S, CASE I.op = "NONE" -> NoneV
                         [] I.op = "MANDATORY" -> Mandatory
                         [] I.op = "CONSTANT" -> Const(program.constants[I.arg + 1])
                         [] I.op = "FREE" -> Top.free[I.arg + 1]
                         [] OTHER -> Host(program.names[I.arg + 1])))
  /\ UNCHANGED <<program, refusing, heap, globals, facts, events, outcome>>

(* LOCAL of a cell, in the making of a closure, pushes the cell.           *)
Variable ==
  CASE I.op = "LOCAL" -> Top.locals[I.arg + 1]
    [] I.op = "LOCALCELL" -> heap[Top.locals[I.arg + 1].id]
    [] I.op = "FREECELL" -> heap[Top.free[I.arg + 1].id]
    [] I.op = "GLOBAL" -> globals[I.arg + 1]
PushVariable ==
  /\ At({"LOCAL", "LOCALCELL", "FREECELL", "GLOBAL"})
  /\ IF Variable = Unset THEN Raise("unbound")
     ELSE Advance(Append(S, Variable)) /\ UNCHANGED <<heap, globals, events, outcome>>
  /\ UNCHANGED <<program, refusing, facts>>

StoreVariable ==
  /\ At({"SETLOCAL", "SETLOCALCELL", "SETGLOBAL"})
  /\ Resume([Top EXCEPT !.at = Top.pc, !.pc = I.next, !.stack = Below(1),
                        !.locals = IF I.op = "SETLOCAL" THEN [@ EXCEPT ![I.arg + 1] = Arg(0)] ELSE @])
  /\ heap' = IF I.op = "SETLOCALCELL" THEN [heap EXCEPT ![Top.locals[I.arg + 1].id] = Arg(0)] ELSE heap
  /\ globals' = IF I.op = "SETGLOBAL" THEN [globals EXCEPT ![I.arg + 1] = Arg(0)] ELSE globals
  /\ UNCHANGED <<program, refusing, facts, events, outcome>>

(* Operations on values, which may refuse them.                            *)
Arity(op) == IF op \in {"UMINUS", "UPLUS", "TILDE", "ATTR"} THEN 1 ELSE IF op = "SLICE" THEN 4 ELSE 2
BinaryCodes == {"PLUS", "MINUS", "STAR", "SLASH", "SLASHSLASH", "PERCENT", "AMP", "PIPE", "CIRCUMFLEX",
                "LTLT", "GTGT", "IN", "EQL", "NEQ", "LT", "GT", "LE", "GE"}
InplaceList == I.op = "INPLACE_ADD" /\ Arg(1).t = "list" /\ Arg(0).t \in {"list", "tuple"}
InplaceDict == I.op = "INPLACE_PIPE" /\ Arg(1).t = "dict" /\ Arg(0).t = "dict"
OpCode == CASE I.op = "INPLACE_ADD" -> "PLUS" [] I.op = "INPLACE_PIPE" -> "PIPE" [] OTHER -> I.op
Sum == OpCode = "PLUS" /\ Alike(Arg(1), Arg(0))
Operate ==
  /\ At(BinaryCodes \cup {"UMINUS", "UPLUS", "TILDE", "ATTR", "INDEX", "SLICE", "INPLACE_ADD", "INPLACE_PIPE"})
  /\ ~InplaceList /\ ~InplaceDict /\ ~Sum
  /\ LET n == Arity(OpCode)
         named == IF I.op = "ATTR" THEN <<StringV(program.names[I.arg + 1])>> ELSE <<>>
         term == OperationTerm(heap, OpCode, Args(n) \o named)
     IN /\ facts' \in FactsOfOp(facts, term)
        /\ IF facts'.ok[term] THEN Advance(Append(Below(n), term)) /\ UNCHANGED <<heap, globals, events, outcome>>
           ELSE Raise("operation")
  /\ UNCHANGED <<program, refusing>>

(* Sums of strings, tuples and lists, which make a new value...            *)
AddValues ==
  /\ At({"PLUS", "INPLACE_ADD"})
  /\ Sum /\ ~InplaceList
  /\ IF Arg(0).t = "list" THEN New(heap[Arg(1).id] \o heap[Arg(0).id], Append(Below(2), Ref("list", Len(heap) + 1)))
     ELSE Advance(Append(Below(2), Joined(Arg(1), Arg(0)))) /\ UNCHANGED heap
  /\ UNCHANGED <<program, refusing, globals, facts, events, outcome>>

(* ... and x += y and x |= y, which change x.                              *)
InPlaceOp ==
  /\ At({"INPLACE_ADD", "INPLACE_PIPE"})
  /\ InplaceList \/ InplaceDict
  /\ heap' = [heap EXCEPT ![Arg(1).id] =
                IF InplaceList THEN @ \o Elements(facts, heap, Arg(0))
                ELSE LeftFold(LAMBDA acc, kv : SetItem(acc, kv[1], kv[2]), @, heap[Arg(0).id])]
  /\ Advance(Below(1))
  /\ UNCHANGED <<program, refusing, globals, facts, events, outcome>>

(* Stores into lists and dicts are events like those into terms.           *)
Update ==
  /\ At({"SETINDEX", "SETFIELD"})
  /\ LET n == IF I.op = "SETINDEX" THEN 3 ELSE 2
         named == IF I.op = "SETFIELD" THEN <<StringV(program.names[I.arg + 1])>> ELSE <<>>
         term == Term(I.op, ShowAll(heap, Args(n) \o named))
     IN /\ facts' \in FactsOfOp(facts, term)
        /\ IF facts'.ok[term] THEN Advance(Below(n)) /\ events' = Append(events, term) /\ UNCHANGED <<heap, globals, outcome>>
           ELSE Raise("operation")
  /\ UNCHANGED <<program, refusing>>

MakeValue ==
  /\ At({"MAKETUPLE", "MAKELIST", "MAKEDICT", "MAKEFUNC"})
  /\ CASE I.op = "MAKETUPLE" -> Advance(Append(Below(I.arg), Tuple(Args(I.arg)))) /\ UNCHANGED heap
       [] I.op = "MAKELIST" -> New(Args(I.arg), Append(Below(I.arg), Ref("list", Len(heap) + 1)))
       [] I.op = "MAKEDICT" -> New(<<>>, Append(S, Ref("dict", Len(heap) + 1)))
       [] I.op = "MAKEFUNC" ->
            LET fn == program.functions[I.arg + 1]
                tuple == Arg(0).e
                n == Len(tuple) - Len(fn.freevars)
            IN Advance(Append(Below(1), [t |-> "fn", name |-> fn.name, code |-> I.arg + 1,
                                         defaults |-> SubSeq(tuple, 1, n), free |-> SubSeq(tuple, n + 1, Len(tuple))]))
               /\ UNCHANGED heap
  /\ UNCHANGED <<program, refusing, globals, facts, events, outcome>>

(* The elements of comprehensions and of dict displays.                    *)
HasKey(items, k) == \E j \in DOMAIN items : Show(heap, items[j][1]) = Show(heap, k)
AddElement ==
  /\ At({"APPEND", "SETDICT", "SETDICTUNIQ"})
  /\ IF I.op = "APPEND"
     THEN Advance(Below(2)) /\ heap' = [heap EXCEPT ![Arg(1).id] = Append(@, Arg(0))] /\ UNCHANGED <<globals, events, outcome>>
     ELSE IF I.op = "SETDICTUNIQ" /\ HasKey(heap[Arg(2).id], Arg(1)) THEN Raise("duplicate key")
     ELSE /\ Advance(Below(3))
          /\ heap' = [heap EXCEPT ![Arg(2).id] = SetItem(@, Arg(1), Arg(0))]
          /\ UNCHANGED <<globals, events, outcome>>
  /\ UNCHANGED <<program, refusing, facts>>

Branch ==
  /\ At({"JMP", "CJMP", "NOT"})
  /\ facts' \in IF I.op = "JMP" THEN {facts} ELSE FactsOfTruth(facts, Arg(0))
  /\ CASE I.op = "JMP" -> JumpTo(S, I.arg)
       [] I.op = "CJMP" -> JumpTo(Below(1), IF Truth(facts', heap, Arg(0)) THEN I.arg ELSE I.next)
       [] I.op = "NOT" -> Advance(Append(Below(1), Bool(~Truth(facts', heap, Arg(0)))))
  /\ UNCHANGED <<program, refusing, heap, globals, events, outcome>>

(* Iterators, each with the elements still to come.                        *)
StartIteration ==
  /\ At({"ITERPUSH"})
  /\ facts' \in FactsOfIter(facts, Arg(0))
  /\ IF ~Iterable(facts', Arg(0)) THEN Raise("not iterable")
     ELSE /\ Resume([Top EXCEPT !.at = Top.pc, !.pc = I.next, !.stack = Below(1),
                                !.iters = Append(@, Elements(facts', heap, Arg(0)))])
          /\ UNCHANGED <<heap, globals, events, outcome>>
  /\ UNCHANGED <<program, refusing>>

Iterate ==
  /\ At({"ITERJMP", "ITERPOP"})
  /\ LET n == Len(Top.iters)
     IN IF I.op = "ITERPOP" THEN Resume([Top EXCEPT !.at = Top.pc, !.pc = I.next, !.iters = Front(@)])
        ELSE IF Top.iters[n] = <<>> THEN JumpTo(S, I.arg)
        ELSE Resume([Top EXCEPT !.at = Top.pc, !.pc = I.next, !.stack = Append(@, Head(Top.iters[n])),
                                !.iters[n] = Tail(@)])
  /\ UNCHANGED <<program, refusing, heap, globals, facts, events, outcome>>

Unpack ==
  /\ At({"UNPACK"})
  /\ facts' \in FactsOfIter(facts, Arg(0))
  /\ LET elems == Elements(facts', heap, Arg(0))
     IN IF ~Iterable(facts', Arg(0)) THEN Raise("not iterable")
        ELSE IF Len(elems) # I.arg THEN Raise("unpack")
        ELSE Advance(Below(1) \o Reverse(elems)) /\ UNCHANGED <<heap, globals, events, outcome>>
  /\ UNCHANGED <<program, refusing>>
-----------------------------------------------------------------------------
(* Calls.  The operands: fn, positional, name-value pairs, *args, **kwargs. *)
Named == I.arg % 256
Npos == I.arg \div 256
KwArg == IF I.op \in {"CALL_KW", "CALL_VAR_KW"} THEN 1 ELSE 0
VarArg == IF I.op \in {"CALL_VAR", "CALL_VAR_KW"} THEN 1 ELSE 0
Rest == Arg(KwArg)                               (* the operand of *args   *)
Pairs ==
  LET base == Len(S) - KwArg - VarArg - 2 * Named
  IN [j \in 1..Named |-> <<S[base + 2 * j - 1].c.val, S[base + 2 * j]>>]
     \o (IF KwArg = 1 THEN [j \in DOMAIN heap[Arg(0).id] |-> <<heap[Arg(0).id][j][1].c.val, heap[Arg(0).id][j][2]>>]
         ELSE <<>>)
Callee == Len(S) - KwArg - VarArg - 2 * Named - Npos
PositionalArgs(f) ==
  SubSeq(S, Callee + 1, Callee + Npos) \o (IF VarArg = 1 THEN Elements(f, heap, Rest) ELSE <<>>)
StringKeys(items) == \A j \in DOMAIN items : items[j][1].t = "const" /\ items[j][1].c.tok = "STRING"
BadKwargs == KwArg = 1 /\ (Arg(0).t # "dict" \/ (Arg(0).t = "dict" /\ ~StringKeys(heap[Arg(0).id])))

(* The frame of a called function: its parameters, and the cells of the    *)
(* locals that closures share.                                             *)
LocalsOf(fn, bound) ==
  bound.vals \o (IF fn.varargs THEN <<Tuple(bound.rest)>> ELSE <<>>)
             \o (IF fn.kwargs THEN <<Ref("dict", Len(heap) + 1)>> ELSE <<>>)
AllLocals(fn, params) == params \o [j \in 1..(Len(fn.locals) - Len(params)) |-> Unset]
Cells(fn, locals, base) ==
  [j \in DOMAIN locals |->
     IF j - 1 \in ToSet(fn.cells)
     THEN Ref("cell", base + (CHOOSE k \in DOMAIN fn.cells : fn.cells[k] = j - 1)) ELSE locals[j]]
NewFrame(code, free, locals) ==
  [code |-> code, free |-> free, locals |-> locals, stack |-> <<>>, iters |-> <<>>, at |-> 0, pc |-> 0]
Enter(v, args, pairs) ==
  LET fn == Called(v.code)
      bound == SetArgs(fn, v.defaults, args, pairs)
      locals == AllLocals(fn, LocalsOf(fn, bound))
      h == IF fn.kwargs THEN Append(heap, [j \in DOMAIN bound.kw |-> <<StringV(bound.kw[j][1]), bound.kw[j][2]>>])
           ELSE heap
      recursive == ~program.recursion /\ \E j \in DOMAIN frames : frames[j].code = v.code
      caller == [Top EXCEPT !.at = Top.pc, !.pc = I.next, !.stack = SubSeq(S, 1, Callee - 1)]
  IN IF recursive THEN Raise("recursion")
     ELSE IF bound.err THEN Raise("arguments")
     ELSE /\ heap' = h \o [j \in DOMAIN fn.cells |-> locals[fn.cells[j] + 1]]
          /\ frames' = Append([frames EXCEPT ![Len(frames)] = caller],
                              NewFrame(v.code, v.free, Cells(fn, locals, Len(h))))
          /\ UNCHANGED <<globals, events, outcome>>

CallFunction ==
  /\ At(Calls)
  /\ facts' \in IF VarArg = 1 THEN FactsOfIter(facts, Rest) ELSE {facts}
  /\ S[Callee].t = "fn"
  /\ IF BadKwargs THEN Raise("keywords")
     ELSE IF VarArg = 1 /\ ~Iterable(facts', Rest) THEN Raise("not iterable")
     ELSE Enter(S[Callee], PositionalArgs(facts'), Pairs)
  /\ UNCHANGED <<program, refusing>>

(* A call that leaves the program: its result is new.                      *)
CallHost ==
  /\ At(Calls)
  /\ S[Callee].t # "fn"
  /\ \E f \in IF VarArg = 1 THEN FactsOfIter(facts, Rest) ELSE {facts} :
       IF BadKwargs \/ (VarArg = 1 /\ ~Iterable(f, Rest))
       THEN facts' = f /\ Raise(IF BadKwargs THEN "keywords" ELSE "not iterable")
       ELSE LET call == CallTerm(heap, S[Callee], PositionalArgs(f), Pairs, Len(events))
            IN /\ facts' \in FactsOfOp(f, call)
               /\ IF facts'.ok[call]
                  THEN /\ Advance(Append(SubSeq(S, 1, Callee - 1), ResultOf(Len(events))))
                       /\ events' = Append(events, call)
                       /\ UNCHANGED <<heap, globals, outcome>>
                  ELSE Raise("operation")
  /\ UNCHANGED <<program, refusing>>

Leave ==
  /\ At({"RETURN"})
  /\ IF Len(frames) = 1
     THEN frames' = <<>> /\ outcome' = [kind |-> "done", value |-> Show(heap, Arg(0))]
     ELSE /\ frames' = [Front(frames) EXCEPT ![Len(frames) - 1].stack = Append(@, Arg(0))]
          /\ UNCHANGED outcome
  /\ UNCHANGED <<program, refusing, heap, globals, facts, events>>

(* LOAD: the module's variables take the place of their names.             *)
LoadModule ==
  /\ At({"LOAD"})
  /\ LET load == Term("load", <<Arg(0), Number(Len(events))>>)
     IN /\ facts' \in FactsOfOp(facts, load)
        /\ IF facts'.ok[load]
           THEN /\ Advance(Below(1 + I.arg)
                           \o [j \in 1..I.arg |-> Term("member", <<Arg(0), Arg(I.arg + 1 - j)>>)])
                /\ events' = Append(events, load)
                /\ UNCHANGED <<heap, globals, outcome>>
           ELSE Raise("operation")
  /\ UNCHANGED <<program, refusing>>

(* Program.Init; or a REPL chunk, with the globals that it finds.          *)
Start(p, prior) ==
  LET fn == p.toplevel
      locals == AllLocals(fn, <<>>)
  IN /\ frames' = <<NewFrame(0, <<>>, Cells(fn, locals, 0))>>
     /\ heap' = [j \in DOMAIN fn.cells |-> Unset]
     /\ globals' = [j \in DOMAIN p.globals |-> IF p.globals[j] \in prior THEN Host(p.globals[j]) ELSE Unset]
     /\ facts' = NoFacts
     /\ events' = <<>>
     /\ outcome' = Running

Instruction ==
  \/ MoveOnStack \/ PushValue \/ PushVariable \/ StoreVariable \/ Operate \/ AddValues \/ InPlaceOp
  \/ Update \/ MakeValue \/ AddElement \/ Branch \/ StartIteration \/ Iterate \/ Unpack
  \/ CallFunction \/ CallHost \/ Leave \/ LoadModule
=============================================================================

------------------------------- MODULE Classes -------------------------------
(***************************************************************************)
(* The class runtime: starlark/class.go and classbuiltins.go.  Classes are *)
(* created with a linearization of their ancestors (C3); attributes of     *)
(* instances, classes and super() proxies are looked up along it and bound *)
(* to a receiver; a bound method records its owning class and receiver in  *)
(* a thread-local stack of contexts, in which super() finds them.          *)
(*                                                                         *)
(* A class has at most one member here, __init__: construction calls it,   *)
(* and programs may call it in every way they may call another method.  A  *)
(* function is named by the class whose body defines it.                   *)
(***************************************************************************)
EXTENDS Naturals, Sequences, FiniteSets

CONSTANTS
  MaxClasses,  (* bound: classes                                           *)
  MaxBases,    (* bound: bases of one class                                *)
  MaxInst,     (* bound: instances                                         *)
  MaxAny,      (* bound: classes of a program that calls any of them; of   *)
               (* more, it calls one that all the others are ancestors of  *)
  MaxCalls,    (* bound: functions that are being called                   *)
  MaxOdd,      (* bound: classes whose member is neither "none" nor "def"  *)
  Members      (* what __init__ may be in a class: "none", "def", "static" *)
               (* and "class" (methods so marked), "var" (no callable)     *)

ASSUME ClassesAssumption ==
  /\ {MaxClasses, MaxBases, MaxInst, MaxAny, MaxCalls, MaxOdd} \subseteq Nat
  /\ Members \subseteq {"none", "def", "static", "class", "var"}

VARIABLES
  bases,    (* Class.bases, by class in order of creation                  *)
  mro,      (* Class.mro                                                   *)
  member,   (* Class.members                                               *)
  class,    (* Instance.class, by instance in order of creation            *)
  stack,    (* the thread's frames: of functions ("fn"), bound methods     *)
            (* ("bound") and classes being called ("class")                *)
  ctx,      (* the super contexts (thread.Local): [class, recv]            *)
  mode      (* "run", or "unwind" while an error or a panic propagates     *)

heap == <<bases, mro, member, class>>
vars == <<heap, stack, ctx, mode>>

Class == DOMAIN mro
Inst == DOMAIN class
Nothing == <<"nothing", 0>>
InstVal(i) == <<"instance", i>>
ClassVal(c) == <<"class", c>>
Receivers == {InstVal(i) : i \in Inst} \cup {ClassVal(c) : c \in Class} \cup {Nothing}

Init ==
  /\ bases = <<>> /\ mro = <<>> /\ member = <<>> /\ class = <<>>
  /\ stack = <<>> /\ ctx = <<>> /\ mode = "run"
-----------------------------------------------------------------------------
First(S) == CHOOSE j \in S : \A l \in S : j <= l
In(x, s) == \E j \in DOMAIN s : s[j] = x

(* A wrong inTail, that looks at the heads too. *)
InWhole(c, seqs) == \E j \in DOMAIN seqs : In(c, seqs[j])

InTail(c, seqs) == \E j \in DOMAIN seqs : \E l \in 2 .. Len(seqs[j]) : seqs[j][l] = c

(* One iteration of c3merge: take the first head that is in no tail.  The  *)
(* sequences that are exhausted are passed over rather than dropped.       *)
MergeStep(st) ==
  LET live == {j \in DOMAIN st.seqs : st.seqs[j] # <<>>}
      heads == {j \in live : ~InTail(Head(st.seqs[j]), st.seqs)}
      cand == Head(st.seqs[First(heads)])
  IN  IF live = {} \/ ~st.ok THEN st
      ELSE IF heads = {} THEN [st EXCEPT !.ok = FALSE]
      ELSE [seqs |-> [j \in DOMAIN st.seqs |->
                        IF j \in live /\ Head(st.seqs[j]) = cand THEN Tail(st.seqs[j])
                        ELSE st.seqs[j]],
            out |-> Append(st.out, cand), ok |-> TRUE]

(* c3merge takes one class per iteration. *)
Merge(seqs) ==
  LET after[n \in 0 .. Len(mro) + 1] ==
        IF n = 0 THEN [seqs |-> seqs, out |-> <<>>, ok |-> TRUE] ELSE MergeStep(after[n - 1])
  IN  after[Len(mro) + 1]

(* linearize, but for the class itself that it puts in front. *)
Linearize(bs) ==
  Merge([j \in DOMAIN bs |-> mro[bs[j]]] \o (IF bs = <<>> THEN <<>> ELSE <<bs>>))

Error == mode' = "unwind" /\ UNCHANGED <<stack, ctx>>

(* makeClass rejects a repeated base before it linearizes.  A class never  *)
(* changes: to define them before there are instances is no restriction.   *)
BaseLists == {bs \in UNION {[1 .. n -> Class] : n \in 0 .. MaxBases} :
                \A j, l \in DOMAIN bs : bs[j] = bs[l] => j = l}

MakeClass(bs, m) ==
  /\ stack = <<>> /\ mode = "run" /\ class = <<>> /\ Len(mro) < MaxClasses
  /\ m \in {"none", "def"} \/ Cardinality({c \in Class : member[c] \notin {"none", "def"}}) < MaxOdd
  /\ LET merged == Linearize(bs)
     IN  \/ /\ merged.ok
            /\ bases' = Append(bases, bs)
            /\ mro' = Append(mro, <<Len(mro) + 1>> \o merged.out)
            /\ member' = Append(member, m)
            /\ UNCHANGED <<class, stack, ctx, mode>>
         \/ ~merged.ok /\ Error /\ UNCHANGED heap
-----------------------------------------------------------------------------
(* The positions of the classes of a linearization that have the member:   *)
(* lookup finds the first.                                                 *)
Having(order) == {j \in DOMAIN order : member[order[j]] # "none"}
Lookup(order) == order[First(Having(order))]

After(order, c) ==
  SubSeq(order, First({j \in DOMAIN order : order[j] = c}) + 1, Len(order))

Fn(c, self) == [kind |-> "fn", class |-> c, recv |-> self, via |-> "call"]
Bound(c, recv, via) == [kind |-> "bound", class |-> c, recv |-> recv, via |-> via]

(* bindMember: the frames that calling the member found in class dc pushes *)
(* (a function not bound to a receiver gets the argument given to it).     *)
Bind(dc, inst, recvClass, given, via) ==
  CASE member[dc] = "def" /\ inst # Nothing -> <<Bound(dc, inst, via), Fn(dc, inst)>>
    [] member[dc] = "class" ->
         <<Bound(dc, ClassVal(recvClass), via), Fn(dc, ClassVal(recvClass))>>
    [] OTHER -> <<Fn(dc, given)>>

(* The contexts of the bound methods among the frames. *)
Contexts(frames) ==
  LET upto[n \in 0 .. Len(frames)] ==
        IF n = 0 THEN <<>>
        ELSE IF frames[n].kind = "bound"
        THEN Append(upto[n - 1], [class |-> frames[n].class, recv |-> frames[n].recv])
        ELSE upto[n - 1]
  IN  upto[Len(frames)]

(* Call pushes the frames, and boundMethod.CallInternal the context; a     *)
(* function that is active already may not be called (interp.go).          *)
Enter(frames) ==
  LET dc == frames[Len(frames)].class
  IN  \/ /\ member[dc] # "var"
         /\ Cardinality({d \in DOMAIN stack : stack[d].kind = "fn"}) < MaxCalls
         /\ \A d \in DOMAIN stack : ~(stack[d].kind = "fn" /\ stack[d].class = dc)
         /\ stack' = stack \o frames
         /\ ctx' = ctx \o Contexts(frames)
         /\ UNCHANGED mode
      \/ /\ \/ member[dc] = "var"
            \/ \E d \in DOMAIN stack : stack[d].kind = "fn" /\ stack[d].class = dc
         /\ Error

(* The host, or the function on top of the stack, is about to do something. *)
Running == mode = "run"

(* C(...): Class.CallInternal.  __init__ must be callable as it stands, so *)
(* static and class methods are not; without one, arguments are an error.  *)
(* The instance of a call that fails at once is lost.                      *)
Construct(c) ==
  /\ Running /\ Len(class) < MaxInst
  /\ Len(mro) > MaxAny => Len(mro[c]) = Len(mro)
  /\ LET found == Having(mro[c]) # {}
         dc == Lookup(mro[c])
         inst == InstVal(Len(class) + 1)
     IN  \/ ~found /\ (Error \/ UNCHANGED <<stack, ctx, mode>>)
         \/ found /\ member[dc] # "def" /\ Error
         \/ /\ found /\ member[dc] = "def"
            /\ Enter(<<[kind |-> "class", class |-> c, recv |-> inst, via |-> "call"],
                       Bound(dc, inst, "call"), Fn(dc, inst)>>)
  /\ class' = IF mode' = "unwind" THEN class ELSE Append(class, c)
  /\ UNCHANGED <<bases, mro, member>>

(* x.__init__(...), looked up along an order, or an error if there is none. *)
CallAttr(order, inst, recvClass, given, via) ==
  /\ \/ Having(order) = {} /\ Error
     \/ Having(order) # {} /\ Enter(Bind(Lookup(order), inst, recvClass, given, via))
  /\ UNCHANGED heap

(* Instance.Attr; no field hides the member here. *)
CallOnInstance(i, given) ==
  Running /\ CallAttr(mro[class[i]], InstVal(i), class[i], given, "call")

(* Class.Attr *)
CallOnClass(c, given) ==
  Running /\ CallAttr(mro[c], Nothing, c, given, "call")

(* Wrong: super() continues in the order of the class it is written in. *)
SuperOwnOrder(c, recv, given, via) ==
  \/ /\ \E i \in Inst : recv = InstVal(i) /\ In(c, mro[class[i]])
     /\ CallAttr(Tail(mro[c]), recv, c, given, via)
  \/ /\ ~ \E i \in Inst : recv = InstVal(i) /\ In(c, mro[class[i]])
     /\ Error /\ UNCHANGED heap

(* newSuper and superProxy.Attr. *)
CallOnSuper(c, recv, given, via) ==
  \/ /\ \E i \in Inst : recv = InstVal(i) /\ In(c, mro[class[i]])
     /\ LET k == class[recv[2]]
        IN  CallAttr(After(mro[k], c), recv, k, given, via)
  \/ /\ ~ \E i \in Inst : recv = InstVal(i) /\ In(c, mro[class[i]])
     /\ Error /\ UNCHANGED heap

(* super(Cls, obj) *)
Super2(c, recv, given) == Running /\ CallOnSuper(c, recv, given, "call")

(* super(): the innermost context of the thread. *)
Super0(given) ==
  /\ Running /\ stack # <<>>
  /\ \/ ctx = <<>> /\ Error /\ UNCHANGED heap
     \/ /\ ctx # <<>>
        /\ CallOnSuper(ctx[Len(ctx)].class, ctx[Len(ctx)].recv, given, "super")
-----------------------------------------------------------------------------
(* The caller's frame: the next function's below the top. *)
CallerDepth ==
  LET fns == {d \in 1 .. Len(stack) - 1 : stack[d].kind = "fn"}
  IN  IF fns = {} THEN 0 ELSE CHOOSE d \in fns : \A e \in fns : e <= d

(* The frames of a call end together: each bound method's deferred         *)
(* popSuperContext, each Call's deferred pop.                              *)
PopCall ==
  LET dropped == SubSeq(stack, CallerDepth + 1, Len(stack))
      n == Len(ctx) - Len(Contexts(dropped))
  IN  /\ stack' = SubSeq(stack, 1, CallerDepth)
      /\ ctx' = SubSeq(ctx, 1, n)

Return ==
  /\ Running /\ stack # <<>>
  /\ PopCall
  /\ UNCHANGED <<heap, mode>>

(* The function fails, or the host's built-in that it calls panics. *)
Fail == Running /\ stack # <<>> /\ Error /\ UNCHANGED heap

(* A wrong unwinding: popSuperContext is not deferred. *)
UnwindWithoutDefer ==
  /\ mode = "unwind"
  /\ IF stack = <<>> THEN UNCHANGED stack ELSE stack' = SubSeq(stack, 1, CallerDepth)
  /\ mode' \in IF CallerDepth = 0 THEN {"run"} ELSE {"run", "unwind"}
  /\ UNCHANGED <<heap, ctx>>

(* An error propagates to the caller, which goes on only if the call was   *)
(* made by a built-in that handles errors.                                 *)
Unwind ==
  /\ mode = "unwind"
  /\ IF stack = <<>> THEN UNCHANGED <<stack, ctx>> ELSE PopCall
  /\ mode' \in IF CallerDepth = 0 THEN {"run"} ELSE {"run", "unwind"}
  /\ UNCHANGED heap

Next ==
  \/ \E bs \in BaseLists, m \in Members : MakeClass(bs, m)
  \/ \E c \in Class : Construct(c)
  \/ \E g \in {InstVal(i) : i \in Inst} \cup {Nothing} :
       \/ \E i \in Inst : CallOnInstance(i, g)
       \/ \E c \in Class : CallOnClass(c, g) \/ \E r \in Receivers : Super2(c, r, g)
       \/ Super0(g)
  \/ Return \/ Fail \/ Unwind

Spec == Init /\ [][Next]_vars
-----------------------------------------------------------------------------
(* Every variable has its type. *)
TypeOK ==
  /\ bases \in Seq(Seq(Class)) /\ mro \in Seq(Seq(Class)) /\ member \in Seq(Members)
  /\ Len(bases) = Len(mro) /\ Len(member) = Len(mro)
  /\ class \in Seq(Class)
  /\ mode \in {"run", "unwind"}
  /\ stack \in Seq([kind : {"fn", "bound", "class"}, class : Class, recv : Receivers,
                     via : {"call", "super"}])
  /\ ctx \in Seq([class : Class, recv : Receivers])
  /\ stack # <<>> => stack[Len(stack)].kind = "fn"

Elements(s) == {s[j] : j \in DOMAIN s}
Ancestors(S) ==
  LET anc[c \in Class] == {c} \cup UNION {anc[b] : b \in Elements(bases[c])}
  IN  UNION {anc[c] : c \in S}
(* A later class of s is never put before an earlier one. *)
Respects(order, s) ==
  \A j, l \in DOMAIN s : j < l =>
    \A p, q \in DOMAIN order : order[p] = s[j] /\ order[q] = s[l] => p < q
Consistent(order, bs) ==
  /\ Elements(order) = Ancestors(Elements(bs))
  /\ Cardinality(Elements(order)) = Len(order)
  /\ Respects(order, bs)
  /\ \A j \in DOMAIN bs : Respects(order, mro[bs[j]])

(* The method resolution order of a class is the class, then each of its   *)
(* ancestors once, in an order that agrees with its bases and with every   *)
(* base's own order (linearize, c3merge).                                  *)
MroConsistent ==
  class = <<>> =>
    \A c \in Class : mro[c][1] = c /\ Consistent(Tail(mro[c]), bases[c])

(* A class is refused as inconsistent only if no such order exists, in any *)
(* program (the members play no part, so one choice of them is enough).    *)
RefusedOnlyIfInconsistent ==
  (\A c \in Class : member[c] = "none") =>
    \A bs \in BaseLists :
      ~Linearize(bs).ok =>
        LET anc == Ancestors(Elements(bs))
        IN  ~ \E order \in [1 .. Cardinality(anc) -> anc] : Consistent(order, bs)

(* Both: the merge finds a consistent order if there is one.               *)
LinearizationExact == MroConsistent /\ RefusedOnlyIfInconsistent

(* The thread's contexts are those of the bound methods that are being     *)
(* called, whatever returns, errors and panics there were: none is left    *)
(* for the next call on the thread.                                        *)
ContextsMatchStack == TypeOK /\ ctx = Contexts(stack)

(* A method that was called as one, and calls super().__init__, reaches    *)
(* with its own receiver the next class with that method in the order of   *)
(* the receiver's class, not of its own class.                             *)
SuperIsNext ==
  \A d \in 3 .. Len(stack) :
    stack[d].kind = "bound" /\ stack[d].via = "super" /\ stack[d - 2].kind = "bound" =>
      LET f == stack[d - 1]
          i == f.recv[2]
      IN  /\ f.recv = InstVal(i)
          /\ stack[d].class = Lookup(After(mro[class[i]], f.class))
          /\ stack[d].recv \in {f.recv, ClassVal(class[i])}

(* class.go: the context "records the executing method's owning class and  *)
(* receiver so a zero-arg super() resolves like super(class, recv)",       *)
(* however the method was called on an instance of its class.              *)
SuperFindsOwner ==
  Running /\ stack # <<>> /\ ctx # <<>> =>
    LET f == stack[Len(stack)]
    IN  member[f.class] = "def"
        /\ (\E i \in Inst : f.recv = InstVal(i) /\ In(f.class, mro[class[i]]))
        => ctx[Len(ctx)] = [class |-> f.class, recv |-> f.recv]
=============================================================================

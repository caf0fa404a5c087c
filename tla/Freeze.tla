------------------------------- MODULE Freeze -------------------------------
(***************************************************************************)
(* Freezing a module's values so that other threads may share them: the    *)
(* Freeze methods of the value types, called on the globals when           *)
(* ExecFileOptions has executed the file (starlark/eval.go, value.go,      *)
(* interp.go, class.go, hashtable.go).                                     *)
(*                                                                         *)
(* The file's execution builds an object graph.  elem[o] are the objects   *)
(* that o's Freeze method visits; link[o] are the objects it refers to     *)
(* without visiting them (the classes behind a class, an instance, a bound *)
(* method or a super proxy).  Immutable values that refer to nothing are   *)
(* left out.  Freeze calls itself: its Go call stack is explicit here.     *)
(***************************************************************************)
EXTENDS Integers, Sequences, FiniteSets

CONSTANTS
  MaxObj,    (* bound: objects the file creates                            *)
  MaxElems,  (* bound: elements of one object                              *)
  MaxGlobals,  (* bound: global variables                                  *)
  MaxApart,  (* bound: objects that the globals do not lead to in any way  *)
  Kinds,     (* the kinds of objects the file creates                      *)
  GoStack    (* calls that the Go stack has room for                       *)

(* "list" stands for the types with a frozen flag and elements (list, dict *)
(* and set, struct); "tuple" for those with elements and no flag (tuple,   *)
(* bound built-in method, module, static and class method).                *)
AllKinds == {"list", "tuple", "function", "cell", "class", "instance", "bound", "super"}

(* The Go stack is deeper than any path that meets no flag twice, and no   *)
(* object twice between two flags.                                         *)
ASSUME FreezeAssumption ==
  /\ MaxObj \in Nat /\ MaxElems \in Nat /\ MaxGlobals \in Nat /\ MaxApart \in Nat
  /\ Kinds \subseteq AllKinds
  /\ GoStack \in Nat
  /\ \A flags \in 0 .. MaxObj : GoStack > flags + (flags + 1) * (MaxObj - flags)

VARIABLES
  kind,     (* kind of each object created so far                          *)
  elem,     (* objects Freeze visits                                       *)
  link,     (* objects referred to, and not visited                        *)
  frozen,   (* the frozen flag; it stays FALSE for types without one       *)
  globals,  (* the module's globals, once executed                         *)
  phase,    (* "running", "freezing", "published", or "crashed"            *)
  stack     (* calls of Freeze: [obj, todo], innermost last                *)

heap == <<kind, elem, link>>
vars == <<kind, elem, link, frozen, globals, phase, stack>>

Objects == DOMAIN kind
Of(k) == {o \in Objects : kind[o] = k}
Values == Objects \ Of("cell")

Init ==
  /\ kind = <<>> /\ elem = <<>> /\ link = <<>> /\ frozen = <<>>
  /\ globals = {}
  /\ phase = "running"
  /\ stack = <<>>
-----------------------------------------------------------------------------
(* The program creates values... *)
Make(k, es, ls) ==
  /\ phase = "running" /\ Len(kind) < MaxObj /\ k \in Kinds
  /\ k # "bound" => Cardinality(es) <= MaxElems
  /\ kind' = Append(kind, k)
  /\ elem' = Append(elem, es)
  /\ link' = Append(link, ls)
  /\ frozen' = Append(frozen, FALSE)
  /\ UNCHANGED <<globals, phase, stack>>

MakeList == \E es \in SUBSET Values : Make("list", es, {})
MakeTuple == \E es \in SUBSET Values : Make("tuple", es, {})
(* A local variable that an inner function refers to. *)
MakeCell == Make("cell", {}, {})
(* MAKEFUNC: parameter defaults and free variables. *)
MakeFunction == \E es \in SUBSET Objects : Make("function", es, {})
(* $make_class *)
MakeClass == \E es \in SUBSET Values, bases \in SUBSET Of("class") : Make("class", es, bases)
(* Class.CallInternal *)
MakeInstance == \E c \in Of("class") : Make("instance", {}, {c})

(* The class of an instance and the classes it inherits from. *)
Supers(c) ==
  {d \in Of("class") : \A T \in SUBSET Of("class") :
     c \in T /\ (\A e \in T : link[e] \subseteq T) => d \in T}
Mro(i) == UNION {Supers(c) : c \in link[i]}

(* bindMember, for a member found in class d of the receiver's mro: a      *)
(* callable binds to the instance, a class method to the class.            *)
Callables == Of("function") \cup Of("class") \cup Of("bound")
MakeBound ==
  \/ \E i \in Of("instance") : \E d \in Mro(i) : \E f \in elem[d] \cap Callables :
       Make("bound", {i, f}, {d})
  \/ \E c \in Of("class") : \E d \in Supers(c) : \E m \in elem[d] \cap Of("tuple") :
       \E f \in elem[m] \cap Callables : Make("bound", {c, f}, {d})
(* super *)
MakeSuper ==
  \E i \in Of("instance") : \E d \in Mro(i) : Make("super", {}, {i, d} \cup link[i])

(* ...and updates them: an insertion into a list, dict or set, SetField of *)
(* an instance.  The file may do so until its execution ends.              *)
Update(o, x) ==
  /\ kind[o] \in {"list", "instance"}
  /\ ~frozen[o]
  /\ x \notin elem[o] /\ Cardinality(elem[o]) < MaxElems
  /\ elem' = [elem EXCEPT ![o] = @ \cup {x}]
  /\ UNCHANGED <<kind, link, frozen, globals, phase, stack>>

Mutate == phase = "running" /\ \E o, x \in Values : Update(o, x)

(* SETLOCALCELL, by the function whose local variable it is. *)
SetCell ==
  /\ phase = "running"
  /\ \E c \in Of("cell"), x \in Values :
       elem[c] # {x} /\ elem' = [elem EXCEPT ![c] = {x}]
  /\ UNCHANGED <<kind, link, frozen, globals, phase, stack>>
-----------------------------------------------------------------------------
HasFlag(o) == kind[o] \in {"list", "class", "instance"}
(* Wrong Freeze methods: Function.Freeze visits neither defaults nor free  *)
(* variables; an instance freezes its class, a class its bases.            *)
VisitsNoFreeVars(o) == IF kind[o] \in {"super", "function"} THEN {} ELSE elem[o]
VisitsLinks(o) == elem[o] \cup link[o]

(* The objects that o's Freeze method visits: that of superProxy does nothing. *)
Visits(o) == IF kind[o] = "super" THEN {} ELSE elem[o]

(* What code that has g can get hold of, a class or a super proxy's        *)
(* receiver included: the least set with g closed under all references.    *)
Closed(T) == \A o \in T : elem[o] \cup link[o] \subseteq T
Reachable(g) == {o \in Objects : \A T \in SUBSET Objects : g \subseteq T /\ Closed(T) => o \in T}

(* ExecFileOptions: StringDict.Freeze of whatever globals were assigned. *)
FreezeGlobals ==
  /\ phase = "running"
  /\ \E g \in SUBSET Values \ {{}} :
       /\ Cardinality(g) <= MaxGlobals
       /\ Cardinality(Objects \ Reachable(g)) <= MaxApart
       /\ globals' = g
       /\ stack' = <<[obj |-> 0, todo |-> g]>>
  /\ phase' = "freezing"
  /\ UNCHANGED <<heap, frozen>>

Top == stack[Len(stack)]

(* A wrong Freeze, that does not test the flag. *)
VisitWithoutTest ==
  /\ phase = "freezing"
  /\ \E o \in Top.todo :
       LET rest == [stack EXCEPT ![Len(stack)].todo = @ \ {o}]
       IN  /\ frozen' = [frozen EXCEPT ![o] = HasFlag(o)]
           /\ IF Len(stack) < GoStack
              THEN stack' = Append(rest, [obj |-> o, todo |-> Visits(o)]) /\ UNCHANGED phase
              ELSE stack' = rest /\ phase' = "crashed"
  /\ UNCHANGED <<heap, globals>>

(* The next object of the innermost call is visited.  A type with a flag   *)
(* tests it and sets it first.  Go maps are visited in any order.          *)
Visit ==
  /\ phase = "freezing"
  /\ \E o \in Top.todo :
       LET rest == [stack EXCEPT ![Len(stack)].todo = @ \ {o}]
       IN  IF HasFlag(o) /\ frozen[o]
           THEN stack' = rest /\ UNCHANGED <<frozen, phase>>
           ELSE /\ frozen' = [frozen EXCEPT ![o] = HasFlag(o)]
                /\ IF Len(stack) < GoStack
                   THEN stack' = Append(rest, [obj |-> o, todo |-> Visits(o)]) /\ UNCHANGED phase
                   ELSE stack' = rest /\ phase' = "crashed"
  /\ UNCHANGED <<heap, globals>>

Return ==
  /\ phase = "freezing" /\ Top.todo = {}
  /\ stack' = SubSeq(stack, 1, Len(stack) - 1)
  /\ phase' = IF Len(stack) = 1 THEN "published" ELSE phase
  /\ UNCHANGED <<heap, frozen, globals>>
-----------------------------------------------------------------------------
(* Another thread updates what it has got from the module. *)
Share == phase = "published" /\ \E o, x \in Reachable(globals) \cap Values : Update(o, x)

Next ==
  \/ MakeList \/ MakeTuple \/ MakeCell \/ MakeFunction
  \/ MakeClass \/ MakeInstance \/ MakeBound \/ MakeSuper
  \/ Mutate \/ SetCell
  \/ FreezeGlobals \/ Visit \/ Return
  \/ Share

Spec == Init /\ [][Next]_vars
-----------------------------------------------------------------------------
(* Every variable has its type. *)
TypeOK ==
  /\ kind \in Seq(AllKinds)
  /\ elem \in Seq(SUBSET Objects) /\ link \in Seq(SUBSET Objects) /\ frozen \in Seq(BOOLEAN)
  /\ DOMAIN elem = Objects /\ DOMAIN link = Objects /\ DOMAIN frozen = Objects
  /\ globals \subseteq Values
  /\ phase \in {"running", "freezing", "published", "crashed"}
  /\ stack \in Seq([obj : Objects \cup {0}, todo : SUBSET Objects])
  /\ phase = "freezing" => stack # <<>>

(* The objects that g leads to through collections and closures. *)
Visited(g) ==
  {o \in Objects : \A T \in SUBSET Objects :
     g \subseteq T /\ (\A p \in T : elem[p] \subseteq T) => o \in T}

(* value.go: Freeze marks all values transitively reachable "through       *)
(* collections and closures": no other thread ever changes one of them,    *)
(* although Freeze stops at a flag that is already set.                    *)
PublishedImmutable ==
  [][phase = "published" => \A o \in Visited(globals) : elem'[o] = elem[o]]_vars

(* Freeze marks nothing but what the globals lead to: a value the module   *)
(* has kept to itself, or lent to a host, stays mutable.                   *)
OnlyReachableFrozen ==
  /\ TypeOK
  /\ phase \in {"freezing", "published"} =>
       \A o \in Objects : frozen[o] => o \in Visited(globals)

(* value.go: implementations of Freeze are defensive against reference     *)
(* cycles.  The recursion exhausts the stack only on a cycle of functions, *)
(* cells, tuples and bound methods, the types that have no flag to test.   *)
EndsUnlessFlagless ==
  phase = "crashed" =>
    \E C \in SUBSET Visited(globals) \ {{}} :
      \A o \in C : ~HasFlag(o) /\ Visits(o) \cap C # {}

(* The same comment without the exception. *)
DefensiveAgainstCycles == phase # "crashed"
=============================================================================

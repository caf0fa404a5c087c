---------------------------- MODULE FreezeProofs ----------------------------
(***************************************************************************)
(* That freezing is sound for every program, every object graph and every  *)
(* order in which objects are visited: nothing that the globals lead to is *)
(* changed once they are published, and nothing else is frozen.            *)
(*                                                                         *)
(* Freeze stops at a flag that is set, and a type without a flag leaves no *)
(* trace of a visit.  What the proof needs is a set of finished objects:   *)
(* those with a flag in it have it set, and what an object of the set      *)
(* refers to is in the set or waits, in some call, to be visited.  When no *)
(* call is left, the set is closed and contains the globals.               *)
(*                                                                         *)
(* The active calls are a path in the object graph that meets no flagged   *)
(* object twice.  When it is as long as the Go stack allows, some object   *)
(* occurs twice with no flag in between: a cycle that no flag ends.        *)
(***************************************************************************)
EXTENDS Freeze, SequenceTheorems, FiniteSetTheorems, TLAPS

(* Some call of Freeze has not come to x yet. *)
Pending(x) == \E d \in DOMAIN stack : x \in stack[d].todo

Finished(D) ==
  /\ \A o \in D : HasFlag(o) => frozen[o]
  /\ \A o \in Objects : frozen[o] => o \in D
  /\ \A x \in globals : x \in D \/ Pending(x)
  /\ \A o \in D : \A x \in elem[o] : x \in D \/ Pending(x)

(* While the file is executed nothing is frozen, and no call is active but *)
(* when freezing; a super proxy has nothing to visit.                      *)
Quiet ==
  /\ phase = "running" => stack = <<>> /\ \A o \in Objects : ~frozen[o]
  /\ phase = "published" => stack = <<>>
  /\ \A o \in Objects : frozen[o] => HasFlag(o)
  /\ \A o \in Objects : kind[o] = "super" => elem[o] = {}

Marking ==
  phase \in {"freezing", "published"} =>
    /\ \A d \in DOMAIN stack : stack[d].todo \subseteq Visited(globals)
    /\ \A o \in Objects : frozen[o] => o \in Visited(globals)
    /\ \E D \in SUBSET Objects : Finished(D)

IInv == TypeOK /\ Quiet /\ Marking
-----------------------------------------------------------------------------
(* A sequence over S is a function into S. *)
LEMMA SeqTyped ==
  ASSUME NEW S, NEW s \in Seq(S)
  PROVE  Len(s) \in Nat /\ DOMAIN s = 1 .. Len(s) /\ \A d \in DOMAIN s : s[d] \in S
OBVIOUS

(* What is appended to a sequence leaves its elements alone. *)
LEMMA AppendKeeps ==
  ASSUME NEW S, NEW s \in Seq(S), NEW e
  PROVE  \A o \in 1 .. Len(s) : Append(s, e)[o] = s[o]
OBVIOUS

LEMMA AppendTyped ==
  ASSUME NEW S, NEW s \in Seq(S), NEW e \in S
  PROVE  /\ Append(s, e) \in Seq(S) /\ Append(s, e) # <<>>
         /\ DOMAIN Append(s, e) = 1 .. Len(s) + 1
         /\ Append(s, e)[Len(s) + 1] = e
OBVIOUS

(* Types, in the form in which the proofs use them. *)
LEMMA Types ==
  ASSUME TypeOK
  PROVE  /\ Objects = 1 .. Len(kind) /\ Len(kind) \in Nat
         /\ Len(elem) = Len(kind) /\ Len(link) = Len(kind) /\ Len(frozen) = Len(kind)
         /\ \A o \in Objects : kind[o] \in AllKinds /\ frozen[o] \in BOOLEAN
         /\ \A o \in Objects : elem[o] \in SUBSET Objects /\ link[o] \in SUBSET Objects
         /\ Len(stack) \in Nat /\ DOMAIN stack = 1 .. Len(stack)
         /\ \A d \in DOMAIN stack : stack[d] \in [obj : Objects \cup {0}, todo : SUBSET Objects]
<1>1. kind \in Seq(AllKinds) /\ Objects = DOMAIN kind
  BY DEF TypeOK, Objects
<1>2. elem \in Seq(SUBSET Objects) /\ link \in Seq(SUBSET Objects) /\ frozen \in Seq(BOOLEAN)
  BY DEF TypeOK
<1>3. DOMAIN elem = Objects /\ DOMAIN link = Objects /\ DOMAIN frozen = Objects
  BY DEF TypeOK
<1>4. stack \in Seq([obj : Objects \cup {0}, todo : SUBSET Objects])
  BY DEF TypeOK
<1>5. Objects = 1 .. Len(kind) /\ Len(kind) \in Nat /\ \A o \in Objects : kind[o] \in AllKinds
  BY <1>1
<1>6. Len(elem) = Len(kind) /\ \A o \in Objects : elem[o] \in SUBSET Objects
  BY <1>2, <1>3, <1>5
<1>7. Len(link) = Len(kind) /\ \A o \in Objects : link[o] \in SUBSET Objects
  BY <1>2, <1>3, <1>5
<1>8. Len(frozen) = Len(kind) /\ \A o \in Objects : frozen[o] \in BOOLEAN
  BY <1>2, <1>3, <1>5
<1>9. /\ Len(stack) \in Nat /\ DOMAIN stack = 1 .. Len(stack)
      /\ \A d \in DOMAIN stack : stack[d] \in [obj : Objects \cup {0}, todo : SUBSET Objects]
  BY <1>4, SeqTyped, Zenon
<1> QED BY <1>5, <1>6, <1>7, <1>8, <1>9

(* A sequence over a set is one over any larger set. *)
LEMMA SeqOfLarger ==
  ASSUME NEW S, NEW T, S \subseteq T, NEW s \in Seq(S)
  PROVE  s \in Seq(T)
OBVIOUS

(* What the globals lead to: the least set that contains them and, with an *)
(* object, those that it visits.                                           *)
LEMMA VisitedClosed ==
  ASSUME TypeOK, NEW g \in SUBSET Objects
  PROVE  /\ g \subseteq Visited(g) /\ Visited(g) \subseteq Objects
         /\ \A o \in Visited(g) : elem[o] \subseteq Visited(g)
<1>1. \A o \in Objects : elem[o] \subseteq Objects
  BY Types
<1> QED BY <1>1 DEF Visited

LEMMA VisitedLeast ==
  ASSUME NEW g, NEW D \in SUBSET Objects, g \subseteq D, \A o \in D : elem[o] \subseteq D
  PROVE  Visited(g) \subseteq D
BY DEF Visited

(* When no call is left, the finished objects are closed. *)
LEMMA PublishedFrozen ==
  ASSUME IInv, phase = "published"
  PROVE  \E D \in SUBSET Objects :
           /\ Finished(D) /\ Visited(globals) \subseteq D
           /\ \A o \in D : elem[o] \subseteq D /\ (HasFlag(o) => frozen[o])
<1>1. stack = <<>> /\ \E D \in SUBSET Objects : Finished(D)
  BY DEF IInv, Quiet, Marking
<1>2. PICK D \in SUBSET Objects : Finished(D)
  BY <1>1
<1>3. \A x : ~Pending(x)
  BY <1>1 DEF Pending
<1>4. globals \subseteq D /\ \A o \in D : elem[o] \subseteq D /\ (HasFlag(o) => frozen[o])
  BY <1>2, <1>3, Types DEF Finished, IInv
<1>5. Visited(globals) \subseteq D
  BY <1>4, VisitedLeast
<1> QED BY <1>2, <1>4, <1>5
-----------------------------------------------------------------------------
LEMMA InitInv == Init => IInv
<1> SUFFICES ASSUME Init PROVE IInv
  OBVIOUS
<1> USE DEF Init
<1>1. TypeOK
  BY DEF TypeOK, Objects, Values, Of
<1>2. Quiet
  BY DEF Quiet, Objects
<1>3. Marking
  BY DEF Marking
<1> QED BY <1>1, <1>2, <1>3 DEF IInv

(* Objects are made while the file is executed. *)
LEMMA MakeInv ==
  ASSUME IInv, NEW k, NEW es \in SUBSET Objects, NEW ls \in SUBSET Objects, Make(k, es, ls),
         k \in AllKinds, k = "super" => es = {}
  PROVE  IInv'
<1> DEFINE n == Len(kind)
<1>1. /\ phase = "running" /\ phase' = "running" /\ stack = <<>> /\ stack' = stack
      /\ kind' = Append(kind, k) /\ elem' = Append(elem, es) /\ link' = Append(link, ls)
      /\ frozen' = Append(frozen, FALSE) /\ globals' = globals
  BY DEF Make, IInv, Quiet
<1>2. TypeOK
  BY DEF IInv
<1>3. /\ Objects = 1 .. n /\ n \in Nat /\ Len(elem) = n /\ Len(link) = n /\ Len(frozen) = n
      /\ kind \in Seq(AllKinds) /\ frozen \in Seq(BOOLEAN)
      /\ elem \in Seq(SUBSET Objects) /\ link \in Seq(SUBSET Objects)
  BY <1>2, Types DEF TypeOK
<1>4. kind' \in Seq(AllKinds) /\ frozen' \in Seq(BOOLEAN) /\ Len(kind') = n + 1 /\ Len(frozen') = n + 1
  BY <1>1, <1>3
<1>5. Objects' = 1 .. n + 1 /\ Objects \subseteq Objects'
  BY <1>3, <1>4 DEF Objects
<1>6. elem \in Seq(SUBSET Objects') /\ link \in Seq(SUBSET Objects')
  <2>1. SUBSET Objects \subseteq SUBSET (Objects')
    BY <1>5
  <2> QED BY <2>1, <1>3, SeqOfLarger
<1>7. elem' \in Seq(SUBSET Objects') /\ Len(elem') = n + 1
  <2>1. es \in SUBSET Objects'
    BY <1>5
  <2> QED BY <2>1, <1>1, <1>3, <1>6
<1>8. link' \in Seq(SUBSET Objects') /\ Len(link') = n + 1
  <2>1. ls \in SUBSET Objects'
    BY <1>5
  <2> QED BY <2>1, <1>1, <1>3, <1>6
<1>9. \A o \in Objects : kind'[o] = kind[o] /\ elem'[o] = elem[o] /\ frozen'[o] = frozen[o]
  <2>1. \A o \in Objects : kind'[o] = kind[o]
    BY <1>1, <1>3
  <2>2. \A o \in Objects : elem'[o] = elem[o]
    BY <1>1, <1>3
  <2>3. \A o \in Objects : frozen'[o] = frozen[o]
    <3>1. frozen \in Seq(BOOLEAN)
      BY <1>3
    <3>2. \A o \in 1 .. Len(frozen) : Append(frozen, FALSE)[o] = frozen[o]
      BY <3>1, AppendKeeps, Zenon
    <3>3. 1 .. Len(frozen) = Objects /\ frozen' = Append(frozen, FALSE)
      BY <1>1, <1>3
    <3> QED BY <3>2, <3>3, Zenon
  <2> QED BY <2>1, <2>2, <2>3
<1>10. kind'[n + 1] = k /\ elem'[n + 1] = es /\ frozen'[n + 1] = FALSE
  BY <1>1, <1>3
<1>11. TypeOK'
  <2>1. globals' \subseteq Values'
    <3>1. globals \subseteq {o \in Objects : kind[o] # "cell"}
      BY <1>2 DEF TypeOK, Values, Of
    <3> QED BY <3>1, <1>1, <1>5, <1>9 DEF Values, Of
  <2>2. DOMAIN elem' = Objects' /\ DOMAIN link' = Objects' /\ DOMAIN frozen' = Objects'
    BY <1>4, <1>5, <1>7, <1>8
  <2> QED BY <1>1, <1>4, <1>7, <1>8, <2>1, <2>2 DEF TypeOK
<1>12. \A o \in Objects' : o \in Objects \/ o = n + 1
  BY <1>3, <1>5
<1>13. Quiet'
  <2>1. \A o \in Objects' : ~frozen'[o]
    BY <1>1, <1>9, <1>10, <1>12 DEF IInv, Quiet
  <2>2. \A o \in Objects' : kind'[o] = "super" => elem'[o] = {}
    BY <1>9, <1>10, <1>12 DEF IInv, Quiet
  <2> QED BY <1>1, <2>1, <2>2 DEF Quiet
<1> QED BY <1>1, <1>11, <1>13 DEF IInv, Marking

(* The class of an instance, and the classes it inherits from, are classes. *)
LEMMA MroIsObjects == \A i : Mro(i) \subseteq Objects
BY DEF Mro, Supers, Of

LEMMA MakeActionsInv ==
  ASSUME IInv,
         \/ MakeList \/ MakeTuple \/ MakeCell \/ MakeFunction
         \/ MakeClass \/ MakeInstance \/ MakeBound \/ MakeSuper
  PROVE  IInv'
<1> USE DEF AllKinds
<1>1. Values \subseteq Objects /\ \A k : Of(k) \subseteq Objects
  BY DEF Values, Of
<1>2. Callables \subseteq Objects
  BY <1>1 DEF Callables
<1>3. \A o \in Objects : link[o] \subseteq Objects
  BY Types DEF IInv
<1>4. CASE MakeList
  <2>1. PICK es \in SUBSET Values : Make("list", es, {})
    BY <1>4 DEF MakeList
  <2> QED BY <1>1, <2>1, MakeInv
<1>5. CASE MakeTuple
  <2>1. PICK es \in SUBSET Values : Make("tuple", es, {})
    BY <1>5 DEF MakeTuple
  <2> QED BY <1>1, <2>1, MakeInv
<1>6. CASE MakeCell
  BY <1>6, MakeInv DEF MakeCell
<1>7. CASE MakeFunction
  <2>1. PICK es \in SUBSET Objects : Make("function", es, {})
    BY <1>7 DEF MakeFunction
  <2> QED BY <2>1, MakeInv
<1>8. CASE MakeClass
  <2>1. PICK es \in SUBSET Values, bases \in SUBSET Of("class") : Make("class", es, bases)
    BY <1>8 DEF MakeClass
  <2>2. es \in SUBSET Objects /\ bases \in SUBSET Objects
    BY <1>1
  <2> QED BY <2>1, <2>2, MakeInv
<1>9. CASE MakeInstance
  <2>1. PICK c \in Of("class") : Make("instance", {}, {c})
    BY <1>9 DEF MakeInstance
  <2>2. {c} \in SUBSET Objects
    BY <1>1
  <2> QED BY <2>1, <2>2, MakeInv
<1>10. CASE MakeBound
  <2>1. CASE \E i \in Of("instance") : \E d \in Mro(i) : \E f \in elem[d] \cap Callables :
               Make("bound", {i, f}, {d})
    <3>1. PICK i \in Of("instance"), d \in Objects, f \in Callables : Make("bound", {i, f}, {d})
      BY <2>1, MroIsObjects
    <3>2. {i, f} \in SUBSET Objects /\ {d} \in SUBSET Objects
      BY <1>1, <1>2
    <3> QED BY <3>1, <3>2, MakeInv
  <2>2. CASE \E c \in Of("class") : \E d \in Supers(c) : \E m \in elem[d] \cap Of("tuple") :
               \E f \in elem[m] \cap Callables : Make("bound", {c, f}, {d})
    <3>1. PICK c \in Of("class"), d \in Objects, f \in Callables : Make("bound", {c, f}, {d})
      BY <2>2, <1>1 DEF Supers
    <3>2. {c, f} \in SUBSET Objects /\ {d} \in SUBSET Objects
      BY <1>1, <1>2
    <3> QED BY <3>1, <3>2, MakeInv
  <2> QED BY <1>10, <2>1, <2>2 DEF MakeBound
<1>11. CASE MakeSuper
  <2>1. PICK i \in Of("instance"), d \in Objects : Make("super", {}, {i, d} \cup link[i])
    BY <1>11, MroIsObjects DEF MakeSuper
  <2>2. {i, d} \cup link[i] \in SUBSET Objects
    BY <1>1, <1>3
  <2> QED BY <2>1, <2>2, MakeInv
<1> QED BY <1>4, <1>5, <1>6, <1>7, <1>8, <1>9, <1>10, <1>11
-----------------------------------------------------------------------------
(* One object gets another value, and nothing else changes. *)
LEMMA ElemInv ==
  ASSUME IInv, NEW c \in Objects, NEW es \in SUBSET Objects,
         elem' = [elem EXCEPT ![c] = es], kind[c] # "super",
         UNCHANGED <<kind, link, frozen, globals, phase, stack>>
  PROVE  TypeOK' /\ Quiet'
<1>1. TypeOK /\ Quiet
  BY DEF IInv
<1>2. elem \in Seq(SUBSET Objects) /\ DOMAIN elem = Objects /\ Objects' = Objects
  BY <1>1 DEF TypeOK, Objects
<1>3. elem' \in Seq(SUBSET Objects) /\ DOMAIN elem' = Objects
  BY <1>2
<1>4. TypeOK'
  BY <1>1, <1>2, <1>3 DEF TypeOK, Values, Of
<1>5. \A o \in Objects : kind[o] = "super" => elem'[o] = {}
  BY <1>1, <1>2 DEF Quiet
<1> QED BY <1>1, <1>2, <1>4, <1>5 DEF Quiet, HasFlag

LEMMA RunningInv ==
  ASSUME IInv, Mutate \/ SetCell
  PROVE  IInv'
<1>1. phase = "running" /\ UNCHANGED <<kind, link, frozen, globals, phase, stack>>
  BY DEF Mutate, SetCell, Update
<1>2. \E c \in Objects, es \in SUBSET Objects : elem' = [elem EXCEPT ![c] = es] /\ kind[c] # "super"
  <2>1. CASE Mutate
    <3>1. PICK o \in Values, x \in Values : Update(o, x)
      BY <2>1 DEF Mutate
    <3>2. elem[o] \in SUBSET Objects /\ o \in Objects /\ x \in Objects
      BY Types DEF Values, IInv
    <3>3. elem' = [elem EXCEPT ![o] = elem[o] \cup {x}] /\ kind[o] # "super"
      BY <3>1 DEF Update
    <3>4. elem[o] \cup {x} \in SUBSET Objects
      BY <3>2
    <3> QED BY <3>2, <3>3, <3>4
  <2>2. CASE SetCell
    <3>1. PICK c \in Of("cell"), x \in Values : elem' = [elem EXCEPT ![c] = {x}]
      BY <2>2 DEF SetCell
    <3>2. c \in Objects /\ kind[c] # "super" /\ {x} \in SUBSET Objects
      BY DEF Of, Values
    <3> QED BY <3>1, <3>2
  <2> QED BY <2>1, <2>2
<1>3. TypeOK' /\ Quiet'
  BY <1>1, <1>2, ElemInv
<1> QED BY <1>1, <1>3 DEF IInv, Marking
-----------------------------------------------------------------------------
LEMMA FreezeGlobalsInv ==
  ASSUME IInv, FreezeGlobals
  PROVE  IInv'
<1>1. PICK g \in SUBSET Values : globals' = g /\ stack' = <<[obj |-> 0, todo |-> g]>>
  BY DEF FreezeGlobals
<1>2. phase = "running" /\ phase' = "freezing" /\ UNCHANGED <<kind, elem, link, frozen>>
  BY DEF FreezeGlobals, heap
<1>3. TypeOK /\ Quiet /\ Objects' = Objects /\ Values' = Values /\ g \in SUBSET Objects
  BY <1>2 DEF IInv, Objects, Values, Of
<1>4. /\ stack' \in Seq([obj : Objects \cup {0}, todo : SUBSET Objects]) /\ stack' # <<>>
      /\ DOMAIN stack' = {1} /\ stack'[1].todo = g
  BY <1>1, <1>3
<1>5. TypeOK'
  BY <1>1, <1>2, <1>3, <1>4 DEF TypeOK
<1>6. Quiet'
  BY <1>2, <1>3 DEF Quiet, HasFlag
<1>7. \A d \in DOMAIN stack' : stack'[d].todo \subseteq Visited(globals)'
  <2>1. g \subseteq Visited(globals)'
    BY <1>1, <1>2, <1>3 DEF Visited
  <2> QED BY <1>4, <2>1
<1>8. \A o \in Objects' : ~frozen'[o]
  BY <1>2, <1>3 DEF Quiet
<1>9. Finished({})'
  BY <1>1, <1>4, <1>8 DEF Finished, Pending
<1> QED BY <1>5, <1>6, <1>7, <1>8, <1>9 DEF IInv, Marking

(* A step of the recursion leaves what the globals lead to as it is. *)
LEMMA FreezingTypes ==
  ASSUME IInv, phase = "freezing"
  PROVE  /\ Len(stack) \in Nat \ {0} /\ DOMAIN stack = 1 .. Len(stack)
         /\ stack \in Seq([obj : Objects \cup {0}, todo : SUBSET Objects])
         /\ globals \subseteq Objects
<1>1. stack # <<>> /\ stack \in Seq([obj : Objects \cup {0}, todo : SUBSET Objects])
  BY DEF IInv, TypeOK
<1>2. Len(stack) \in Nat \ {0} /\ DOMAIN stack = 1 .. Len(stack)
  BY <1>1
<1>3. globals \subseteq Objects
  BY DEF IInv, TypeOK, Values
<1> QED BY <1>1, <1>2, <1>3

LEMMA VisitInv ==
  ASSUME IInv, Visit
  PROVE  IInv'
<1> DEFINE n == Len(stack)
           Frame == [obj : Objects \cup {0}, todo : SUBSET Objects]
<1>1. /\ phase = "freezing" /\ UNCHANGED <<kind, elem, link, globals>>
      /\ TypeOK /\ Quiet /\ Objects' = Objects /\ Values' = Values
      /\ Visited(globals)' = Visited(globals) /\ \A p : HasFlag(p)' = HasFlag(p)
  BY DEF Visit, heap, IInv, Objects, Values, Of, Visited, HasFlag
<1>2. /\ n \in Nat \ {0} /\ DOMAIN stack = 1 .. n /\ stack \in Seq(Frame)
      /\ \A d \in 1 .. n : stack[d] \in Frame
  <2>1. n \in Nat \ {0} /\ DOMAIN stack = 1 .. n /\ stack \in Seq(Frame)
    BY <1>1, FreezingTypes
  <2>2. \A d \in DOMAIN stack : stack[d] \in Frame
    BY <2>1, SeqTyped, Zenon
  <2> QED BY <2>1, <2>2
<1>3. PICK o \in stack[n].todo :
        LET rest == [stack EXCEPT ![n].todo = @ \ {o}]
        IN  IF HasFlag(o) /\ frozen[o]
            THEN stack' = rest /\ UNCHANGED <<frozen, phase>>
            ELSE /\ frozen' = [frozen EXCEPT ![o] = HasFlag(o)]
                 /\ IF n < GoStack
                    THEN stack' = Append(rest, [obj |-> o, todo |-> Visits(o)]) /\ UNCHANGED phase
                    ELSE stack' = rest /\ phase' = "crashed"
  BY DEF Visit, Top
<1> DEFINE rest == [stack EXCEPT ![n].todo = @ \ {o}]
<1>4. o \in Objects /\ o \in Visited(globals)
  BY <1>1, <1>2 DEF IInv, Marking
<1>5. /\ rest \in Seq(Frame) /\ Len(rest) = n /\ DOMAIN rest = 1 .. n
      /\ rest[n].todo = stack[n].todo \ {o}
      /\ \A d \in 1 .. n - 1 : rest[d] = stack[d]
  BY <1>2
<1>6. /\ \A d \in 1 .. n : rest[d].todo \subseteq stack[d].todo
      /\ \A d \in 1 .. n : \A x \in stack[d].todo : x = o \/ x \in rest[d].todo
  BY <1>2, <1>5
<1>7. PICK D \in SUBSET Objects : Finished(D)
  BY <1>1 DEF IInv, Marking
<1>8. CASE HasFlag(o) /\ frozen[o]
  <2>1. stack' = rest /\ UNCHANGED <<frozen, phase>>
    BY <1>3, <1>8
  <2>2. TypeOK'
    <3>1. stack' \in Seq(Frame) /\ stack' # <<>>
      BY <1>2, <1>5, <2>1
    <3> QED BY <1>1, <2>1, <3>1 DEF TypeOK
  <2>3. Quiet'
    BY <1>1, <2>1 DEF Quiet
  <2>4. \A x : Pending(x) => x = o \/ Pending(x)'
    BY <1>2, <1>5, <1>6, <2>1 DEF Pending
  <2>5. o \in D
    BY <1>4, <1>7, <1>8 DEF Finished
  <2>6. Finished(D)'
    BY <1>1, <1>7, <2>1, <2>4, <2>5 DEF Finished
  <2>7. \A d \in DOMAIN stack' : stack'[d].todo \subseteq Visited(globals)'
    BY <1>1, <1>2, <1>5, <1>6, <2>1 DEF IInv, Marking
  <2>8. \A p \in Objects' : frozen'[p] => p \in Visited(globals)'
    BY <1>1, <2>1 DEF IInv, Marking
  <2> QED BY <1>1, <2>2, <2>3, <2>6, <2>7, <2>8 DEF IInv, Marking
<1>9. CASE ~(HasFlag(o) /\ frozen[o])
  <2>1. frozen' = [frozen EXCEPT ![o] = HasFlag(o)]
    BY <1>3, <1>9
  <2>2. HasFlag(o) \in BOOLEAN
    BY DEF HasFlag
  <2>3. frozen' \in Seq(BOOLEAN) /\ DOMAIN frozen' = Objects
    BY <1>1, <1>4, <2>1, <2>2 DEF TypeOK
  <2>4. \A p \in Objects : p # o => frozen'[p] = frozen[p]
    BY <1>1, <2>1 DEF TypeOK
  <2>5. frozen'[o] = HasFlag(o)
    BY <1>1, <1>4, <2>1 DEF TypeOK
  <2>6. \A p \in Objects' : /\ frozen'[p] => HasFlag(p)' /\ p \in Visited(globals)'
                            /\ kind'[p] = "super" => elem'[p] = {}
    <3>1. \A p \in Objects : p # o /\ frozen'[p] => HasFlag(p) /\ p \in Visited(globals)
      BY <1>1, <2>4 DEF Quiet, IInv, Marking
    <3> QED BY <1>1, <1>4, <2>5, <3>1 DEF Quiet
  <2>7. CASE n < GoStack
    <3> DEFINE frame == [obj |-> o, todo |-> Visits(o)]
    <3>1. stack' = Append(rest, frame) /\ phase' = phase
      BY <1>3, <1>9, <2>7
    <3>2. Visits(o) \subseteq elem[o] /\ elem[o] \subseteq Visits(o) /\ elem[o] \subseteq Objects
      BY <1>1, <1>4, Types DEF Visits, Quiet
    <3>3. frame \in Frame
      BY <1>4, <3>2
    <3>4. /\ stack' \in Seq(Frame) /\ stack' # <<>> /\ DOMAIN stack' = 1 .. n + 1
          /\ stack'[n + 1] = frame /\ \A d \in 1 .. n : stack'[d] = rest[d]
      <4>1. /\ stack' \in Seq(Frame) /\ stack' # <<>> /\ DOMAIN stack' = 1 .. Len(rest) + 1
            /\ stack'[Len(rest) + 1] = frame
        <5> HIDE DEF n, Frame, rest, frame
        <5> QED BY <1>5, <3>1, <3>3, AppendTyped
      <4>2. \A d \in 1 .. Len(rest) : stack'[d] = rest[d]
        BY <1>5, <3>1, AppendKeeps, Zenon
      <4>3. Len(rest) = n
        BY <1>5
      <4> HIDE DEF n, Frame, rest, frame
      <4> QED BY <4>1, <4>2, <4>3
    <3>5. TypeOK'
      BY <1>1, <2>3, <3>1, <3>4 DEF TypeOK
    <3>6. Quiet'
      BY <1>1, <2>6, <3>1 DEF Quiet
    <3>7. stack'[n + 1].todo = Visits(o)
      BY <3>4
    <3>8. \A x : Pending(x) => x = o \/ Pending(x)'
      BY <1>2, <1>6, <3>4 DEF Pending
    <3>9. \A x \in elem[o] : Pending(x)'
      BY <1>2, <3>2, <3>4, <3>7 DEF Pending
    <3>10. Finished(D \cup {o})'
      <4>1. \A p \in D \cup {o} : HasFlag(p)' => frozen'[p]
        BY <1>1, <1>7, <2>4, <2>5 DEF Finished
      <4>2. \A p \in Objects' : frozen'[p] => p \in D \cup {o}
        BY <1>1, <1>7, <2>4 DEF Finished
      <4>3. \A x \in globals' : x \in D \cup {o} \/ Pending(x)'
        BY <1>1, <1>7, <3>8 DEF Finished
      <4>4. \A p \in D \cup {o} : \A x \in elem'[p] : x \in D \cup {o} \/ Pending(x)'
        BY <1>1, <1>7, <3>8, <3>9 DEF Finished
      <4> QED BY <4>1, <4>2, <4>3, <4>4 DEF Finished
    <3>11. \A d \in DOMAIN stack' : stack'[d].todo \subseteq Visited(globals)'
      <4>1. elem[o] \subseteq Visited(globals)
        BY <1>1, <1>4, FreezingTypes, VisitedClosed
      <4>2. \A d \in 1 .. n : rest[d].todo \subseteq Visited(globals)
        BY <1>1, <1>2, <1>6 DEF IInv, Marking
      <4>3. \A d \in DOMAIN stack' : d \in 1 .. n \/ d = n + 1
        BY <1>2, <3>4
      <4>4. \A d \in 1 .. n : stack'[d].todo \subseteq Visited(globals)
        BY <3>4, <4>2
      <4>5. stack'[n + 1].todo \subseteq Visited(globals)
        BY <3>2, <3>7, <4>1
      <4> HIDE DEF n
      <4> QED BY <1>1, <4>3, <4>4, <4>5
    <3>12. D \cup {o} \in SUBSET Objects'
      BY <1>1, <1>4
    <3> QED BY <2>6, <3>5, <3>6, <3>10, <3>11, <3>12 DEF IInv, Marking
  <2>8. CASE ~(n < GoStack)
    <3>1. stack' = rest /\ phase' = "crashed"
      BY <1>3, <1>9, <2>8
    <3>2. TypeOK'
      BY <1>1, <1>5, <2>3, <3>1 DEF TypeOK
    <3>3. Quiet'
      BY <2>6, <3>1 DEF Quiet
    <3> QED BY <3>1, <3>2, <3>3 DEF IInv, Marking
  <2> QED BY <2>7, <2>8
<1> QED BY <1>8, <1>9

(* What SubSeq keeps of a sequence without its last element. *)
LEMMA FrontTyped ==
  ASSUME NEW S, NEW s \in Seq(S), Len(s) \in Nat \ {0}
  PROVE  LET f == SubSeq(s, 1, Len(s) - 1)
         IN  /\ f \in Seq(S) /\ DOMAIN f = 1 .. Len(s) - 1
             /\ \A d \in 1 .. Len(s) - 1 : f[d] = s[d]
             /\ Len(s) = 1 => f = <<>>
             /\ Len(s) # 1 => f # <<>>
<1> DEFINE n == Len(s) - 1
<1>1. n \in Int /\ 1 \in Int /\ n >= 0
  OBVIOUS
<1>2. \A i \in 1 .. n : s[i] \in S
  OBVIOUS
<1>3. /\ SubSeq(s, 1, n) \in Seq(S)
      /\ Len(SubSeq(s, 1, n)) = IF 1 <= n THEN n - 1 + 1 ELSE 0
      /\ \A i \in 1 .. n - 1 + 1 : SubSeq(s, 1, n)[i] = s[1 + i - 1]
  <2> HIDE DEF n
  <2> QED BY <1>1, <1>2, SubSeqProperties
<1>4. Len(SubSeq(s, 1, n)) = n
  <2> HIDE DEF n
  <2> QED BY <1>1, <1>3
<1>5. \A d \in 1 .. n : SubSeq(s, 1, n)[d] = s[d]
  <2> HIDE DEF n
  <2> TAKE d \in 1 .. n
  <2>1. d \in 1 .. n - 1 + 1 /\ 1 + d - 1 = d
    BY <1>1
  <2> QED BY <1>3, <2>1
<1>6. DOMAIN SubSeq(s, 1, n) = 1 .. n
  <2> HIDE DEF n
  <2>1. DOMAIN SubSeq(s, 1, n) = 1 .. Len(SubSeq(s, 1, n))
    BY <1>3, SeqTyped, Zenon
  <2> QED BY <1>4, <2>1
<1>7. Len(s) = 1 => SubSeq(s, 1, n) = <<>>
  <2> SUFFICES ASSUME Len(s) = 1 PROVE SubSeq(s, 1, n) = <<>>
    OBVIOUS
  <2>1. n < 1
    OBVIOUS
  <2> HIDE DEF n
  <2> QED BY <1>1, <2>1, SubSeqEmpty
<1>8. Len(s) # 1 => SubSeq(s, 1, n) # <<>>
  <2> SUFFICES ASSUME Len(s) # 1 PROVE SubSeq(s, 1, n) # <<>>
    OBVIOUS
  <2>1. n # 0
    OBVIOUS
  <2> HIDE DEF n
  <2> QED BY <1>4, <2>1
<1> HIDE DEF n
<1> QED BY <1>3, <1>5, <1>6, <1>7, <1>8 DEF n

LEMMA ReturnInv ==
  ASSUME IInv, Return
  PROVE  IInv'
<1> DEFINE n == Len(stack)
           Frame == [obj : Objects \cup {0}, todo : SUBSET Objects]
<1>1. /\ phase = "freezing" /\ stack[n].todo = {} /\ stack' = SubSeq(stack, 1, n - 1)
      /\ phase' = IF n = 1 THEN "published" ELSE phase
      /\ UNCHANGED <<kind, elem, link, frozen, globals>>
  BY DEF Return, Top, heap
<1>2. /\ TypeOK /\ Quiet /\ Objects' = Objects /\ Values' = Values
      /\ Visited(globals)' = Visited(globals) /\ \A p : HasFlag(p)' = HasFlag(p)
  BY <1>1 DEF IInv, Objects, Values, Of, Visited, HasFlag
<1>3. n \in Nat \ {0} /\ DOMAIN stack = 1 .. n /\ stack \in Seq(Frame)
  BY <1>1, FreezingTypes
<1>4. /\ stack' \in Seq(Frame) /\ DOMAIN stack' = 1 .. n - 1
      /\ \A d \in 1 .. n - 1 : stack'[d] = stack[d]
      /\ n = 1 => stack' = <<>>
      /\ n # 1 => stack' # <<>>
  <2> HIDE DEF Frame
  <2> QED BY <1>1, <1>3, FrontTyped, Zenon
<1>5. TypeOK'
  BY <1>1, <1>2, <1>4 DEF TypeOK
<1>6. Quiet'
  BY <1>1, <1>2, <1>4 DEF Quiet
<1>7. \A x : Pending(x) => Pending(x)'
  <2> SUFFICES ASSUME NEW x, Pending(x) PROVE Pending(x)'
    OBVIOUS
  <2>1. PICK d \in 1 .. n : x \in stack[d].todo
    BY <1>3 DEF Pending
  <2>2. d \in 1 .. n - 1
    BY <1>1, <1>3, <2>1
  <2> QED BY <1>4, <2>1, <2>2 DEF Pending
<1>8. PICK D \in SUBSET Objects : Finished(D)
  BY <1>1 DEF IInv, Marking
<1>9. Finished(D)'
  BY <1>1, <1>2, <1>7, <1>8 DEF Finished
<1>10. \A d \in DOMAIN stack' : stack'[d].todo \subseteq Visited(globals)'
  <2>1. \A d \in 1 .. n : stack[d].todo \subseteq Visited(globals)
    BY <1>1, <1>3 DEF IInv, Marking
  <2>2. \A d \in 1 .. n - 1 : d \in 1 .. n
    BY <1>3
  <2> QED BY <1>2, <1>4, <2>1, <2>2
<1>11. \A o \in Objects' : frozen'[o] => o \in Visited(globals)'
  BY <1>1, <1>2 DEF IInv, Marking
<1> QED BY <1>2, <1>5, <1>6, <1>8, <1>9, <1>10, <1>11 DEF IInv, Marking
-----------------------------------------------------------------------------
(* Another thread cannot change a finished object, and everything that the *)
(* globals lead to is finished.                                            *)
LEMMA ShareKeeps ==
  ASSUME IInv, Share
  PROVE  \E D \in SUBSET Objects :
           /\ Finished(D) /\ globals \subseteq D /\ Visited(globals) \subseteq D
           /\ \A p \in D : elem'[p] = elem[p] /\ elem[p] \subseteq D
<1>1. phase = "published"
  BY DEF Share
<1>2. PICK D \in SUBSET Objects :
        /\ Finished(D) /\ Visited(globals) \subseteq D
        /\ \A p \in D : elem[p] \subseteq D /\ (HasFlag(p) => frozen[p])
  BY <1>1, PublishedFrozen
<1>3. PICK o, x : Update(o, x)
  BY DEF Share
<1>4. o \notin D
  BY <1>2, <1>3 DEF Update, HasFlag
<1>5. \A p \in D : elem'[p] = elem[p]
  BY <1>3, <1>4, Types DEF Update, IInv, TypeOK
<1>6. globals \subseteq D
  BY <1>2, VisitedClosed DEF IInv, TypeOK, Values
<1> QED BY <1>2, <1>5, <1>6

LEMMA ShareInv ==
  ASSUME IInv, Share
  PROVE  IInv'
<1>1. PICK o \in Objects, x \in Objects : Update(o, x)
  BY DEF Share, Values
<1>2. /\ phase = "published" /\ UNCHANGED <<kind, link, frozen, globals, phase, stack>>
      /\ elem' = [elem EXCEPT ![o] = elem[o] \cup {x}] /\ kind[o] # "super"
  BY <1>1 DEF Share, Update
<1>3. TypeOK /\ Quiet /\ Objects' = Objects /\ \A p : HasFlag(p)' = HasFlag(p)
  BY <1>2 DEF IInv, Objects, HasFlag
<1>4. \A p \in Objects : elem[p] \in SUBSET Objects
  BY <1>3, Types
<1>5. TypeOK' /\ Quiet'
  <2>1. elem[o] \cup {x} \in SUBSET Objects
    BY <1>4
  <2> QED BY <1>2, <2>1, ElemInv
<1>6. \A p \in Objects : elem[p] \subseteq elem'[p]
  BY <1>2, <1>3 DEF TypeOK
<1>7. Visited(globals) \subseteq Visited(globals)'
  <2> SUFFICES ASSUME NEW p \in Visited(globals), NEW T \in SUBSET Objects, globals \subseteq T,
                      \A q \in T : elem'[q] \subseteq T
               PROVE  p \in T
    BY <1>2, <1>3 DEF Visited
  <2>1. \A q \in T : elem[q] \subseteq T
    BY <1>6
  <2> QED BY <2>1 DEF Visited
<1>8. PICK D \in SUBSET Objects :
        /\ Finished(D) /\ globals \subseteq D /\ Visited(globals) \subseteq D
        /\ \A p \in D : elem'[p] = elem[p] /\ elem[p] \subseteq D
  BY ShareKeeps
<1>9. Finished(D)'
  BY <1>2, <1>3, <1>8 DEF Finished
<1>10. stack' = <<>>
  BY <1>2, <1>3 DEF Quiet
<1>11. \A p \in Objects' : frozen'[p] => p \in Visited(globals)'
  BY <1>2, <1>3, <1>7 DEF IInv, Marking
<1>12. \A d \in DOMAIN stack' : stack'[d].todo \subseteq Visited(globals)'
  BY <1>10
<1> QED BY <1>3, <1>5, <1>8, <1>9, <1>11, <1>12 DEF IInv, Marking
-----------------------------------------------------------------------------
LEMMA StepInv == IInv /\ [Next]_vars => IInv'
<1> SUFFICES ASSUME IInv, [Next]_vars PROVE IInv'
  OBVIOUS
<1>1. CASE \/ MakeList \/ MakeTuple \/ MakeCell \/ MakeFunction
           \/ MakeClass \/ MakeInstance \/ MakeBound \/ MakeSuper
  BY <1>1, MakeActionsInv
<1>2. CASE Mutate \/ SetCell
  BY <1>2, RunningInv
<1>3. CASE FreezeGlobals
  BY <1>3, FreezeGlobalsInv
<1>4. CASE Visit
  BY <1>4, VisitInv
<1>5. CASE Return
  BY <1>5, ReturnInv
<1>6. CASE Share
  BY <1>6, ShareInv
<1>7. CASE UNCHANGED vars
  <2>1. /\ UNCHANGED <<kind, elem, link, frozen, globals, phase, stack>>
        /\ Objects' = Objects /\ Values' = Values /\ Visited(globals)' = Visited(globals)
        /\ \A p : HasFlag(p)' = HasFlag(p) /\ Pending(p)' = Pending(p)
    BY <1>7 DEF vars, Objects, Values, Of, Visited, HasFlag, Pending
  <2>2. TypeOK'
    BY <2>1 DEF IInv, TypeOK
  <2>3. Quiet'
    BY <2>1 DEF IInv, Quiet
  <2>4. \A D : Finished(D)' = Finished(D)
    BY <2>1 DEF Finished
  <2>5. Marking'
    BY <2>1, <2>4 DEF IInv, Marking
  <2> QED BY <2>2, <2>3, <2>5 DEF IInv
<1> QED BY <1>1, <1>2, <1>3, <1>4, <1>5, <1>6, <1>7 DEF Next

(* In every reachable state the objects whose Freeze method has begun are  *)
(* a set that is closed but for what the active calls have still to visit. *)
THEOREM FreezeInvariance == Spec => []IInv
<1>1. Init => IInv
  BY InitInv
<1>2. IInv /\ [Next]_vars => IInv'
  BY StepInv
<1> QED BY <1>1, <1>2, PTL DEF Spec

(* Freeze marks no value but those that the globals lead to through        *)
(* collections and closures, when ExecFileOptions freezes them and ever    *)
(* after, whatever other threads do to what has stayed mutable.            *)
THEOREM FreezesOnlyReachable == Spec => []OnlyReachableFrozen
<1>1. IInv => OnlyReachableFrozen
  BY DEF IInv, Marking, OnlyReachableFrozen
<1> QED BY <1>1, FreezeInvariance, PTL

(* No step of any thread changes a value that a published module's globals *)
(* lead to, although Freeze stops at each flag that is already set and     *)
(* marks tuples, functions and cells in no way.                            *)
THEOREM FreezePublishesImmutable == Spec => PublishedImmutable
<1>1. IInv /\ [Next]_vars =>
        (phase = "published" => \A o \in Visited(globals) : elem'[o] = elem[o])
  <2> SUFFICES ASSUME IInv, [Next]_vars, phase = "published", NEW o \in Visited(globals)
               PROVE  elem'[o] = elem[o]
    OBVIOUS
  <2>1. CASE Share
    BY <2>1, ShareKeeps
  <2>2. CASE Next /\ ~Share
    BY <2>2 DEF Next, MakeList, MakeTuple, MakeCell, MakeFunction, MakeClass, MakeInstance,
                MakeBound, MakeSuper, Make, Mutate, SetCell, FreezeGlobals, Visit, Return, heap
  <2>3. CASE UNCHANGED vars
    BY <2>3 DEF vars
  <2> QED BY <2>1, <2>2, <2>3
<1> QED BY <1>1, FreezeInvariance, PTL DEF Spec, PublishedImmutable
-----------------------------------------------------------------------------
(* The calls of Freeze that are active were each made by the one before,   *)
(* for an object that the globals lead to.  One that has a flag has set    *)
(* it, and is not visited again.                                           *)
Descending ==
  /\ \A d \in 2 .. Len(stack) :
       /\ stack[d].obj \in Visited(globals)
       /\ stack[d].todo \subseteq Visits(stack[d].obj)
       /\ HasFlag(stack[d].obj) => frozen[stack[d].obj]
       /\ \A c \in 2 .. Len(stack) : d = c + 1 => stack[d].obj \in Visits(stack[c].obj)
  /\ \A c, d \in 2 .. Len(stack) : c < d /\ HasFlag(stack[c].obj) => stack[c].obj # stack[d].obj

Depth ==
  /\ Len(kind) <= MaxObj
  /\ phase = "freezing" => Descending
  /\ EndsUnlessFlagless

(* The cardinality of an interval of the natural numbers. *)
LEMMA UpTo ==
  ASSUME NEW n \in Nat
  PROVE  /\ IsFiniteSet(0 .. n) /\ Cardinality(0 .. n) = n + 1
         /\ IsFiniteSet(1 .. n) /\ Cardinality(1 .. n) = n
<1>1. 0 \in Int /\ 1 \in Int /\ n \in Int
  OBVIOUS
<1>2. IsFiniteSet(0 .. n) /\ Cardinality(0 .. n) = IF 0 > n THEN 0 ELSE n - 0 + 1
  BY <1>1, FS_Interval
<1>3. IsFiniteSet(1 .. n) /\ Cardinality(1 .. n) = IF 1 > n THEN 0 ELSE n - 1 + 1
  BY <1>1, FS_Interval
<1> QED BY <1>2, <1>3

(* A path that meets no flagged object twice, and is longer than the sum   *)
(* of their number and, before, after and between them, of all others,     *)
(* returns to an object without meeting a flag.                            *)
LEMMA LongPath ==
  ASSUME NEW Obj, IsFiniteSet(Obj), NEW F \in SUBSET Obj, NEW n \in Nat, NEW p \in [1 .. n -> Obj],
         \A c, d \in 1 .. n : c < d /\ p[c] \in F => p[c] # p[d],
         n > Cardinality(F) + (Cardinality(F) + 1) * Cardinality(Obj \ F)
  PROVE  \E a, b \in 1 .. n : a < b /\ p[a] = p[b] /\ \A d \in a .. b : p[d] \notin F
<1> DEFINE f == Cardinality(F)
           U == Obj \ F
           met == [d \in 1 .. n |-> {c \in 1 .. d : p[c] \in F}]
           mark == [d \in 1 .. n |-> <<IF p[d] \in F THEN f + 1 ELSE Cardinality(met[d]), p[d]>>]
           T == ({f + 1} \X F) \cup ((0 .. f) \X U)
<1>1. IsFiniteSet(F) /\ IsFiniteSet(U) /\ f \in Nat /\ Cardinality(U) \in Nat
  BY FS_Subset, FS_CardinalityType
<1>2. \A d \in 1 .. n : /\ IsFiniteSet(met[d]) /\ Cardinality(met[d]) \in 0 .. f
  <2> TAKE d \in 1 .. n
  <2> DEFINE g == [c \in met[d] |-> p[c]]
  <2>1. g \in Injection(met[d], F)
    <3>1. g \in [met[d] -> F]
      OBVIOUS
    <3>2. \A a, b \in met[d] : g[a] = g[b] => a = b
      <4> SUFFICES ASSUME NEW a \in met[d], NEW b \in met[d], p[a] = p[b] PROVE a = b
        OBVIOUS
      <4>1. a \in 1 .. n /\ b \in 1 .. n /\ p[a] \in F /\ p[b] \in F
        OBVIOUS
      <4>2. ~(a < b) /\ ~(b < a)
        BY <4>1
      <4> QED BY <4>1, <4>2
    <3> HIDE DEF g, met
    <3> QED BY <3>1, <3>2 DEF Injection, IsInjective
  <2> HIDE DEF g, met
  <2>2. IsFiniteSet(met[d]) /\ Cardinality(met[d]) <= f
    BY <1>1, <2>1, FS_Injection
  <2>3. Cardinality(met[d]) \in Nat
    BY <2>2, FS_CardinalityType
  <2> QED BY <1>1, <2>2, <2>3
<1>3. mark \in [1 .. n -> T]
  <2> SUFFICES ASSUME NEW d \in 1 .. n PROVE mark[d] \in T
    OBVIOUS
  <2> HIDE DEF f, met
  <2> QED BY <1>2
<1>4. IsFiniteSet(T) /\ Cardinality(T) < n
  <2>1. IsFiniteSet({f + 1}) /\ Cardinality({f + 1}) = 1
    BY FS_Singleton
  <2>2. IsFiniteSet(0 .. f) /\ Cardinality(0 .. f) = f + 1
    <3> HIDE DEF f
    <3> QED BY <1>1, UpTo
  <2>3. IsFiniteSet({f + 1} \X F) /\ Cardinality({f + 1} \X F) = 1 * f
    BY <1>1, <2>1, FS_Product
  <2>4. IsFiniteSet((0 .. f) \X U) /\ Cardinality((0 .. f) \X U) = (f + 1) * Cardinality(U)
    <3> HIDE DEF f, U
    <3> QED BY <1>1, <2>2, FS_Product
  <2>5. \A A, B : IsFiniteSet(A) /\ IsFiniteSet(B) =>
           IsFiniteSet(A \cup B) /\ Cardinality(A \cup B) <= Cardinality(A) + Cardinality(B)
    <3> SUFFICES ASSUME NEW A, NEW B, IsFiniteSet(A), IsFiniteSet(B)
                 PROVE  IsFiniteSet(A \cup B) /\ Cardinality(A \cup B) <= Cardinality(A) + Cardinality(B)
      OBVIOUS
    <3>1. Cardinality(A) \in Nat /\ Cardinality(B) \in Nat
      BY FS_CardinalityType
    <3>2. Cardinality(A \cap B) \in Nat
      BY FS_Intersection, FS_CardinalityType
    <3>3. /\ IsFiniteSet(A \cup B)
          /\ Cardinality(A \cup B) = Cardinality(A) + Cardinality(B) - Cardinality(A \cap B)
      BY FS_Union
    <3> QED BY <3>1, <3>2, <3>3
  <2>6. IsFiniteSet(T) /\ Cardinality(T) <= 1 * f + (f + 1) * Cardinality(U)
    <3> DEFINE A == {f + 1} \X F
               B == (0 .. f) \X U
    <3>1. IsFiniteSet(A) /\ Cardinality(A) = 1 * f
      BY <2>3
    <3>2. IsFiniteSet(B) /\ Cardinality(B) = (f + 1) * Cardinality(U)
      BY <2>4
    <3>3. T = A \cup B
      OBVIOUS
    <3> HIDE DEF A, B, T, f, U
    <3> QED BY <3>1, <3>2, <3>3, <2>5
  <2>7. n > f + (f + 1) * Cardinality(U)
    OBVIOUS
  <2>8. Cardinality(T) \in Nat
    BY <2>6, FS_CardinalityType
  <2> DEFINE u == Cardinality(U)
             t == Cardinality(T)
  <2>9. f \in Nat /\ u \in Nat /\ t \in Nat /\ t <= 1 * f + (f + 1) * u /\ n > f + (f + 1) * u
    BY <1>1, <2>6, <2>7, <2>8
  <2> HIDE DEF f, u, t
  <2>10. (f + 1) * u \in Nat
    BY <2>9
  <2>11. t < n
    BY <2>9, <2>10
  <2> QED BY <2>6, <2>11 DEF t
<1>5. IsFiniteSet(1 .. n) /\ Cardinality(1 .. n) = n
  BY UpTo
<1>6. PICK x \in 1 .. n, y \in 1 .. n : x # y /\ mark[x] = mark[y]
  <2> HIDE DEF mark, T
  <2> QED BY <1>3, <1>4, <1>5, FS_PigeonHole
<1>7. PICK a \in 1 .. n, b \in 1 .. n : a < b /\ mark[a] = mark[b]
  <2>1. x < y \/ y < x
    BY <1>6
  <2> HIDE DEF mark
  <2> QED BY <1>6, <2>1
<1>8. p[a] = p[b] /\ p[a] \notin F
  <2>1. \A d \in 1 .. n : mark[d][2] = p[d]
    OBVIOUS
  <2>2. \A d \in 1 .. n : p[d] \in F => mark[d][1] = f + 1
    OBVIOUS
  <2>3. \A d \in 1 .. n : p[d] \notin F => mark[d][1] \in 0 .. f
    <3> HIDE DEF met, f
    <3> QED BY <1>2
  <2>4. p[a] = p[b] /\ mark[a][1] = mark[b][1]
    <3> HIDE DEF mark
    <3> QED BY <1>7, <2>1
  <2>5. ~(p[a] \in F /\ p[b] \in F)
    BY <1>7, <2>4
  <2> QED BY <2>4, <2>5
<1>9. Cardinality(met[a]) = Cardinality(met[b])
  <2>1. \A d \in 1 .. n : p[d] \notin F => mark[d][1] = Cardinality(met[d])
    OBVIOUS
  <2> HIDE DEF mark, met
  <2> QED BY <1>7, <1>8, <2>1
<1>10. met[a] = met[b]
  <2>1. met[a] \subseteq met[b]
    BY <1>7
  <2> HIDE DEF met
  <2> QED BY <1>2, <1>9, <2>1, FS_Subset
<1>11. \A d \in a .. b : p[d] \notin F
  <2> SUFFICES ASSUME NEW d \in a .. b, p[d] \in F PROVE FALSE
    OBVIOUS
  <2>1. d \in met[b] /\ d # a
    BY <1>8
  <2>2. d \in met[a]
    BY <1>10, <2>1
  <2> QED BY <2>1, <2>2
<1> QED BY <1>7, <1>8, <1>11

(* The number of calls that GoStack has room for suffices for every number *)
(* of objects, and of objects with a flag among them.                      *)
LEMMA StackSuffices ==
  ASSUME NEW f \in Nat, NEW u \in Nat, f + u <= MaxObj
  PROVE  GoStack > f + (f + 1) * u
<1>1. f \in 0 .. MaxObj /\ MaxObj \in Nat /\ GoStack \in Nat
  BY FreezeAssumption
<1>2. GoStack > f + (f + 1) * (MaxObj - f)
  BY <1>1, FreezeAssumption
<1> DEFINE v == MaxObj - f
<1>3. v \in Nat /\ u <= v
  BY <1>1
<1> HIDE DEF v
<1>4. (f + 1) * u <= (f + 1) * v
  BY <1>3
<1>5. (f + 1) * u \in Nat /\ (f + 1) * v \in Nat
  BY <1>3
<1> QED BY <1>1, <1>2, <1>4, <1>5 DEF v

(* A flagless cycle is among the objects on the way to o, when the stack   *)
(* has no room left for the call that visits it.                           *)
LEMMA DeepMeansFlagless ==
  ASSUME IInv, Depth, phase = "freezing", Len(stack) >= GoStack,
         NEW o \in Top.todo, ~(HasFlag(o) /\ frozen[o])
  PROVE  \E C \in SUBSET Visited(globals) \ {{}} :
           \A x \in C : ~HasFlag(x) /\ Visits(x) \cap C # {}
<1>1. PICK n \in Nat \ {0} : n = Len(stack) /\ DOMAIN stack = 1 .. n /\ Top = stack[n]
  BY FreezingTypes DEF Top
<1> DEFINE F == {x \in Objects : HasFlag(x)}
           p == [d \in 1 .. n |-> IF d = n THEN o ELSE stack[d + 1].obj]
<1>2. Descending /\ Objects = 1 .. Len(kind) /\ Len(kind) \in Nat /\ Len(kind) <= MaxObj
  BY Types DEF Depth, IInv
<1> DEFINE Call(d) == stack[d].obj
<1>3. /\ \A d \in 2 .. n : /\ Call(d) \in Visited(globals)
                           /\ stack[d].todo \subseteq Visits(Call(d))
                           /\ HasFlag(Call(d)) => frozen[Call(d)]
      /\ \A c, d \in 2 .. n : d = c + 1 => Call(d) \in Visits(Call(c))
      /\ \A c, d \in 2 .. n : c < d /\ HasFlag(Call(c)) => Call(c) # Call(d)
  BY <1>1, <1>2 DEF Descending
<1>4. Visited(globals) \subseteq Objects /\ o \in Visited(globals)
  <2>1. Visited(globals) \subseteq Objects
    BY DEF Visited
  <2> QED BY <1>1, <2>1 DEF IInv, Marking
<1>5. /\ p[n] = o
      /\ \A d \in 1 .. n - 1 : d + 1 \in 2 .. n /\ p[d] = stack[d + 1].obj
  BY <1>1
<1>6. \A d \in 1 .. n : p[d] \in Visited(globals)
  <2>1. \A d \in 1 .. n - 1 : p[d] \in Visited(globals)
    BY <1>5, <1>3
  <2>2. \A d \in 1 .. n : d = n \/ d \in 1 .. n - 1
    OBVIOUS
  <2> HIDE DEF p
  <2> QED BY <1>4, <1>5, <2>1, <2>2
<1>7. p \in [1 .. n -> Objects]
  BY <1>4, <1>6
<1>8. \A d \in 1 .. n - 1 : p[d + 1] \in Visits(p[d])
  <2> SUFFICES ASSUME NEW d \in 1 .. n - 1 PROVE p[d + 1] \in Visits(p[d])
    OBVIOUS
  <2>1. CASE d = n - 1
    <3>1. p[d + 1] = o /\ p[d] = stack[n].obj /\ n \in 2 .. n
      BY <1>1, <1>5, <2>1
    <3>2. stack[n].todo \subseteq Visits(stack[n].obj)
      BY <1>3, <3>1
    <3> QED BY <1>1, <3>1, <3>2
  <2>2. CASE d # n - 1
    <3>1. d + 1 \in 1 .. n - 1
      BY <1>1, <2>2
    <3>2. p[d + 1] = stack[(d + 1) + 1].obj /\ p[d] = stack[d + 1].obj
      BY <1>5, <3>1
    <3>3. d + 1 \in 2 .. n /\ (d + 1) + 1 \in 2 .. n
      BY <1>5, <3>1
    <3> HIDE DEF p
    <3> QED BY <3>2, <3>3, <1>3
  <2> QED BY <2>1, <2>2
<1>9. \A c, d \in 1 .. n : c < d /\ p[c] \in F => p[c] # p[d]
  <2> SUFFICES ASSUME NEW c \in 1 .. n, NEW d \in 1 .. n, c < d, p[c] \in F PROVE p[c] # p[d]
    OBVIOUS
  <2>1. c \in 1 .. n - 1 /\ c + 1 \in 2 .. n /\ p[c] = stack[c + 1].obj /\ HasFlag(stack[c + 1].obj)
    BY <1>1, <1>5
  <2>2. CASE d = n
    <3>1. frozen[stack[c + 1].obj]
      BY <1>3, <2>1
    <3> QED BY <1>5, <2>1, <2>2, <3>1
  <2>3. CASE d # n
    <3>1. d \in 1 .. n - 1 /\ d + 1 \in 2 .. n /\ p[d] = stack[d + 1].obj
      BY <1>1, <1>5, <2>3
    <3>2. c + 1 < d + 1
      OBVIOUS
    <3> HIDE DEF p
    <3> QED BY <1>3, <2>1, <3>1, <3>2
  <2> QED BY <2>2, <2>3
<1>10. /\ IsFiniteSet(Objects) /\ Cardinality(Objects) = Len(kind)
      /\ n > Cardinality(F) + (Cardinality(F) + 1) * Cardinality(Objects \ F)
  <2>1. IsFiniteSet(Objects) /\ Cardinality(Objects) = Len(kind)
    BY <1>2, UpTo
  <2>2. IsFiniteSet(F) /\ Cardinality(F) \in Nat /\ F \subseteq Objects
    BY <2>1, FS_Subset, FS_CardinalityType
  <2>3. IsFiniteSet(Objects \ F) /\ Cardinality(Objects \ F) \in Nat
    BY <2>1, FS_Subset, FS_CardinalityType
  <2>4. Cardinality(Objects \ F) = Cardinality(Objects) - Cardinality(Objects \cap F)
    BY <2>1, FS_Difference
  <2>5. Objects \cap F = F
    OBVIOUS
  <2> HIDE DEF F
  <2> DEFINE f == Cardinality(F)
             u == Cardinality(Objects \ F)
  <2>6. f \in Nat /\ u \in Nat /\ f + u <= MaxObj
    <3>1. u = Len(kind) - f
      BY <2>1, <2>4, <2>5
    <3> QED BY <1>2, <2>2, <2>3, <3>1, FreezeAssumption
  <2> HIDE DEF f, u
  <2>7. GoStack > f + (f + 1) * u
    BY <2>6, StackSuffices
  <2>8. n > f + (f + 1) * u
    BY <1>1, <2>6, <2>7, FreezeAssumption
  <2> QED BY <2>1, <2>8 DEF f, u
<1>11. PICK a \in 1 .. n, b \in 1 .. n : a < b /\ p[a] = p[b] /\ \A d \in a .. b : p[d] \notin F
  <2>1. F \in SUBSET Objects /\ n \in Nat
    BY <1>1
  <2> HIDE DEF p, F
  <2> QED BY <2>1, <1>7, <1>9, <1>10, LongPath
<1> DEFINE C == {p[d] : d \in a .. b - 1}
<1>12. C \in SUBSET Visited(globals) /\ p[a] \in C
  <2>1. \A d \in a .. b - 1 : d \in 1 .. n
    OBVIOUS
  <2>2. a \in a .. b - 1
    BY <1>11
  <2> HIDE DEF p
  <2> QED BY <1>6, <2>1, <2>2
<1>13. \A x \in C : ~HasFlag(x) /\ Visits(x) \cap C # {}
  <2> SUFFICES ASSUME NEW d \in a .. b - 1 PROVE ~HasFlag(p[d]) /\ Visits(p[d]) \cap C # {}
    OBVIOUS
  <2>1. d \in 1 .. n - 1 /\ d \in 1 .. n /\ d \in a .. b
    OBVIOUS
  <2>2. ~HasFlag(p[d])
    BY <1>4, <1>6, <1>11, <2>1
  <2>3. p[d + 1] \in C
    <3>1. CASE d = b - 1
      <4>1. d + 1 = b
        BY <3>1
      <4> HIDE DEF p
      <4> QED BY <4>1, <1>11, <1>12
    <3>2. CASE d # b - 1
      <4>1. d + 1 \in a .. b - 1
        BY <3>2
      <4> HIDE DEF p
      <4> QED BY <4>1
    <3> QED BY <3>1, <3>2
  <2> HIDE DEF p, C
  <2> QED BY <1>8, <2>1, <2>2, <2>3
<1> HIDE DEF C
<1> QED BY <1>12, <1>13

LEMMA VisitDepth ==
  ASSUME IInv, Depth, Visit
  PROVE  Depth'
<1>1. PICK n \in Nat \ {0} : n = Len(stack) /\ DOMAIN stack = 1 .. n /\ Top = stack[n]
  BY FreezingTypes DEF Visit, Top
<1>2. /\ phase = "freezing" /\ Descending /\ UNCHANGED <<kind, elem, link, globals>>
      /\ Objects' = Objects /\ Visited(globals)' = Visited(globals)
      /\ \A x : HasFlag(x)' = HasFlag(x) /\ Visits(x)' = Visits(x)
      /\ Len(kind') = Len(kind)
  BY DEF Visit, heap, Depth, Objects, Visited, HasFlag, Visits
<1>3. PICK o \in Top.todo :
        LET rest == [stack EXCEPT ![Len(stack)].todo = @ \ {o}]
        IN  IF HasFlag(o) /\ frozen[o]
            THEN stack' = rest /\ UNCHANGED <<frozen, phase>>
            ELSE /\ frozen' = [frozen EXCEPT ![o] = HasFlag(o)]
                 /\ IF Len(stack) < GoStack
                    THEN stack' = Append(rest, [obj |-> o, todo |-> Visits(o)]) /\ UNCHANGED phase
                    ELSE stack' = rest /\ phase' = "crashed"
  BY DEF Visit
<1> DEFINE rest == [stack EXCEPT ![n].todo = @ \ {o}]
           Frame == [obj : Objects \cup {0}, todo : SUBSET Objects]
<1>4. stack \in Seq(Frame) /\ \A d \in 1 .. n : stack[d] \in Frame
  <2>1. stack \in Seq(Frame)
    BY <1>2, FreezingTypes
  <2> QED BY <1>1, <2>1, SeqTyped, Zenon
<1>5. /\ rest \in Seq(Frame) /\ Len(rest) = n
      /\ \A d \in 1 .. n : rest[d].obj = stack[d].obj /\ rest[d].todo \subseteq stack[d].todo
  BY <1>1, <1>4
<1>6. o \in Objects /\ o \in Visited(globals)
  <2>1. Visited(globals) \subseteq Objects
    BY DEF Visited
  <2> QED BY <1>1, <1>2, <2>1 DEF IInv, Marking
<1> DEFINE Call(d) == stack[d].obj
<1>7. /\ \A d \in 2 .. n : /\ Call(d) \in Visited(globals)
                           /\ stack[d].todo \subseteq Visits(Call(d))
                           /\ HasFlag(Call(d)) => frozen[Call(d)]
      /\ \A c, d \in 2 .. n : d = c + 1 => Call(d) \in Visits(Call(c))
      /\ \A c, d \in 2 .. n : c < d /\ HasFlag(Call(c)) => Call(c) # Call(d)
  BY <1>1, <1>2 DEF Descending
<1>8. CASE HasFlag(o) /\ frozen[o]
  <2>1. stack' = rest /\ UNCHANGED <<frozen, phase>>
    BY <1>1, <1>3, <1>8
  <2>2. Len(stack') = n /\ \A d \in 1 .. n : stack'[d].obj = Call(d) /\ stack'[d].todo \subseteq stack[d].todo
    BY <1>5, <2>1
  <2>3. \A d \in 2 .. n : d \in 1 .. n
    OBVIOUS
  <2>4. Descending'
    BY <1>2, <1>7, <2>1, <2>2, <2>3 DEF Descending
  <2> QED BY <1>2, <2>1, <2>4 DEF Depth, EndsUnlessFlagless
<1>9. CASE ~(HasFlag(o) /\ frozen[o])
  <2>1. frozen' = [frozen EXCEPT ![o] = HasFlag(o)]
    BY <1>3, <1>9
  <2>2. \A x \in Objects : HasFlag(x) /\ (frozen[x] \/ x = o) => frozen'[x]
    BY <2>1 DEF IInv, TypeOK
  <2>3. CASE n < GoStack
    <3> DEFINE frame == [obj |-> o, todo |-> Visits(o)]
    <3>1. stack' = Append(rest, frame) /\ phase' = phase
      BY <1>1, <1>3, <1>9, <2>3
    <3>2. Len(stack') = n + 1 /\ stack'[n + 1] = frame /\ \A d \in 1 .. n : stack'[d] = rest[d]
      BY <1>5, <3>1
    <3>3. stack'[n + 1].obj = o /\ stack'[n + 1].todo = Visits(o)
      BY <3>2
    <3>4. \A d \in 2 .. n : stack'[d].obj = Call(d) /\ stack'[d].todo \subseteq stack[d].todo
      BY <1>5, <3>2
    <3> HIDE DEF rest, frame
    <3>5. \A d \in 2 .. Len(stack') : d = n + 1 \/ d \in 2 .. n
      BY <3>2
    <3>6. \A d \in 2 .. Len(stack') :
            /\ stack'[d].obj \in Visited(globals)
            /\ stack'[d].todo \subseteq Visits(stack'[d].obj)
            /\ HasFlag(stack'[d].obj) => frozen'[stack'[d].obj]
      <4>1. \A d \in 2 .. n : HasFlag(Call(d)) => frozen'[Call(d)]
        <5>1. Visited(globals) \subseteq Objects
          BY DEF Visited
        <5> QED BY <1>7, <2>2, <5>1
      <4>2. HasFlag(o) => frozen'[o]
        BY <1>6, <2>2
      <4> QED BY <1>6, <1>7, <3>3, <3>4, <3>5, <4>1, <4>2
    <3>7. \A c, d \in 2 .. Len(stack') : d = c + 1 => stack'[d].obj \in Visits(stack'[c].obj)
      <4> SUFFICES ASSUME NEW c \in 2 .. Len(stack'), NEW d \in 2 .. Len(stack'), d = c + 1
                   PROVE  stack'[d].obj \in Visits(stack'[c].obj)
        OBVIOUS
      <4>1. c \in 2 .. n
        BY <3>2
      <4>2. CASE d = n + 1
        BY <1>1, <1>7, <3>3, <3>4, <4>1, <4>2
      <4>3. CASE d \in 2 .. n
        BY <1>7, <3>4, <4>1, <4>3
      <4> QED BY <3>5, <4>2, <4>3
    <3>8. \A c, d \in 2 .. Len(stack') : c < d /\ HasFlag(stack'[c].obj) => stack'[c].obj # stack'[d].obj
      <4> SUFFICES ASSUME NEW c \in 2 .. Len(stack'), NEW d \in 2 .. Len(stack'), c < d,
                          HasFlag(stack'[c].obj)
                   PROVE  stack'[c].obj # stack'[d].obj
        OBVIOUS
      <4>1. c \in 2 .. n
        BY <3>2
      <4>2. CASE d = n + 1
        BY <1>7, <1>9, <3>3, <3>4, <4>1, <4>2
      <4>3. CASE d \in 2 .. n
        BY <1>7, <3>4, <4>1, <4>3
      <4> QED BY <3>5, <4>2, <4>3
    <3>9. Descending'
      BY <1>2, <3>6, <3>7, <3>8 DEF Descending
    <3> QED BY <1>2, <3>1, <3>9 DEF Depth, EndsUnlessFlagless
  <2>4. CASE ~(n < GoStack)
    <3>1. phase' = "crashed"
      BY <1>1, <1>3, <1>9, <2>4
    <3>2. Len(stack) >= GoStack
      BY <1>1, <2>4, FreezeAssumption
    <3>3. \E C \in SUBSET Visited(globals) \ {{}} :
            \A x \in C : ~HasFlag(x) /\ Visits(x) \cap C # {}
      BY <1>2, <1>9, <3>2, DeepMeansFlagless
    <3>4. EndsUnlessFlagless'
      BY <1>2, <3>3 DEF EndsUnlessFlagless
    <3> QED BY <1>2, <3>1, <3>4 DEF Depth
  <2> QED BY <2>3, <2>4
<1> QED BY <1>8, <1>9

LEMMA ReturnDepth ==
  ASSUME IInv, Depth, Return
  PROVE  Depth'
<1>1. /\ phase = "freezing" /\ Descending /\ UNCHANGED <<kind, elem, link, frozen, globals>>
      /\ Visited(globals)' = Visited(globals) /\ phase' # "crashed" /\ Len(kind') = Len(kind)
      /\ \A x : HasFlag(x)' = HasFlag(x) /\ Visits(x)' = Visits(x)
  BY SMTT(60) DEF Return, heap, Depth, Objects, Visited, HasFlag, Visits
<1>2. PICK n \in Nat \ {0} : n = Len(stack) /\ stack' = SubSeq(stack, 1, n - 1)
  BY <1>1, FreezingTypes DEF Return
<1>3. Len(stack') = n - 1 /\ \A d \in 1 .. n - 1 : stack'[d] = stack[d]
  <2> DEFINE Frame == [obj : Objects \cup {0}, todo : SUBSET Objects]
  <2>1. stack \in Seq(Frame) /\ Len(stack) \in Nat \ {0}
    BY <1>1, FreezingTypes
  <2>2. SubSeq(stack, 1, Len(stack) - 1) \in Seq(Frame)
        /\ DOMAIN SubSeq(stack, 1, Len(stack) - 1) = 1 .. Len(stack) - 1
        /\ \A d \in 1 .. Len(stack) - 1 : SubSeq(stack, 1, Len(stack) - 1)[d] = stack[d]
    <3> HIDE DEF Frame
    <3> QED BY <2>1, FrontTyped, Zenon
  <2>3. stack' \in Seq(Frame) /\ DOMAIN stack' = 1 .. n - 1 /\ \A d \in 1 .. n - 1 : stack'[d] = stack[d]
    BY <1>2, <2>2
  <2>4. Len(stack') = n - 1
    BY <2>3
  <2> QED BY <2>3, <2>4
<1>4. \A d \in 2 .. Len(stack') : d \in 2 .. Len(stack) /\ stack'[d] = stack[d]
  BY <1>2, <1>3
<1>5. Descending'
  BY <1>1, <1>4 DEF Descending
<1> QED BY <1>1, <1>5 DEF Depth, EndsUnlessFlagless

LEMMA StepDepth ==
  ASSUME IInv, IInv', Depth, [Next]_vars
  PROVE  Depth'
<1>1. MaxObj \in Nat /\ Len(kind) \in Nat
  BY FreezeAssumption, Types DEF IInv
<1>2. CASE \/ MakeList \/ MakeTuple \/ MakeCell \/ MakeFunction
           \/ MakeClass \/ MakeInstance \/ MakeBound \/ MakeSuper
  <2>1. PICK k, es, ls : Make(k, es, ls)
    BY <1>2 DEF MakeList, MakeTuple, MakeCell, MakeFunction, MakeClass, MakeInstance,
                MakeBound, MakeSuper
  <2>2. phase = "running" /\ phase' = phase /\ kind' = Append(kind, k) /\ Len(kind) < MaxObj
    BY <2>1 DEF Make
  <2>3. kind \in Seq(AllKinds)
    BY DEF IInv, TypeOK
  <2>4. Len(kind') = Len(kind) + 1
    BY <2>2, <2>3
  <2> QED BY <1>1, <2>2, <2>4 DEF Depth, EndsUnlessFlagless
<1>3. CASE Mutate \/ SetCell
  BY <1>3 DEF Mutate, SetCell, Update, Depth, EndsUnlessFlagless
<1>4. CASE FreezeGlobals
  <2>1. PICK g : stack' = <<[obj |-> 0, todo |-> g]>>
    BY <1>4 DEF FreezeGlobals
  <2>2. Len(stack') = 1 /\ phase' = "freezing" /\ kind' = kind
    BY <1>4, <2>1 DEF FreezeGlobals, heap
  <2>3. \A d \in 2 .. Len(stack') : FALSE
    BY <2>2
  <2>4. Descending'
    BY <2>3 DEF Descending
  <2> QED BY <2>2, <2>4 DEF Depth, EndsUnlessFlagless
<1>5. CASE Visit
  BY <1>5, VisitDepth
<1>6. CASE Return
  BY <1>6, ReturnDepth
<1>7. CASE Share
  BY <1>7 DEF Share, Update, Depth, EndsUnlessFlagless
<1>8. CASE UNCHANGED vars
  BY <1>8 DEF vars, Depth, Descending, EndsUnlessFlagless, Objects, Visited, HasFlag, Visits
<1> QED BY <1>2, <1>3, <1>4, <1>5, <1>6, <1>7, <1>8 DEF Next

(* Freeze exhausts the Go stack on no object graph but one in which        *)
(* functions, cells, tuples and bound methods form a cycle that the        *)
(* globals lead to: the flags that it tests end every other recursion,     *)
(* within the depth that their number and that of the objects allow.       *)
THEOREM FreezeEndsUnlessFlagless == Spec => []EndsUnlessFlagless
<1>1. Init => Depth
  BY FreezeAssumption DEF Init, Depth, EndsUnlessFlagless
<1>2. IInv /\ IInv' /\ Depth /\ [Next]_vars => Depth'
  BY StepDepth
<1>3. Depth => EndsUnlessFlagless
  BY DEF Depth
<1> QED BY <1>1, <1>2, <1>3, FreezeInvariance, PTL DEF Spec
=============================================================================

----------------------------- MODULE AskedProofs ----------------------------
(***************************************************************************)
(* Theorems about two of the modules that compute an answer for whatever   *)
(* is asked.                                                               *)
(*                                                                         *)
(* Unpacking: built-in functions bind the arguments of a call as           *)
(* UnpackArgs and UnpackPositionalArgs promise, for any number of          *)
(* parameters and any arguments.                                           *)
(*                                                                         *)
(* Ordering: the comparison operators obey their laws, for any values and  *)
(* at any depth they reach, and sorted, min and max order any keys by      *)
(* them.  comparison[depth] is Deepened(comparison[depth - 1]), and        *)
(* comparison[0] refuses every answer.  What Deepened(c) answers is first  *)
(* stated for each kind of values without SliceCompare and DictsEqual, as  *)
(* EqualHere and LessHere; then each law is shown to pass from c to        *)
(* Deepened(c), and by induction to hold at every depth.  Sorting and the  *)
(* choice of an extreme element rest on the laws alone.                    *)
(***************************************************************************)
EXTENDS Unpacking, Ordering, FiniteSetTheorems, WellFoundedInduction, TLAPS

(* Induction on the natural numbers, for a set of them. *)
LEMMA SetInduction ==
  ASSUME NEW T, 0 \in T, \A n \in Nat : n \in T => n + 1 \in T
  PROVE  Nat \subseteq T
<1> DEFINE S == Nat \ T
           R == OpToRel(<, Nat)
<1>1. SUFFICES ASSUME S # {} PROVE FALSE
  OBVIOUS
<1>2. PICK k \in S : \A j \in S : ~(<<j, k>> \in R)
  <2>1. IsWellFoundedOn(R, Nat)
    BY NatLessThanWellFounded
  <2>2. S \subseteq Nat
    OBVIOUS
  <2> HIDE DEF R, S
  <2> QED BY <1>1, <2>1, <2>2, WFMin
<1>3. k \in Nat /\ k # 0 /\ k - 1 \in Nat
  OBVIOUS
<1>4. <<k - 1, k>> \in R
  <2>1. <<k - 1, k>> \in Nat \X Nat /\ <<k - 1, k>>[1] < <<k - 1, k>>[2]
    BY <1>3
  <2> QED BY <2>1, Zenon DEF OpToRel
<1>5. k - 1 \in T
  <2> HIDE DEF R
  <2> QED BY <1>2, <1>3, <1>4
<1>6. (k - 1) + 1 \in T
  <2> HIDE DEF R, S
  <2> QED BY <1>3, <1>5
<1>7. (k - 1) + 1 = k
  BY <1>3
<1> QED BY <1>6, <1>7

(* A set of naturals has a least element. *)
LEMMA LeastExists ==
  ASSUME NEW S \in SUBSET Nat, S # {}
  PROVE  \E k \in S : \A l \in S : k <= l
<1> DEFINE R == OpToRel(<, Nat)
<1>1. PICK k \in S : \A j \in S : ~(<<j, k>> \in R)
  <2>1. IsWellFoundedOn(R, Nat)
    BY NatLessThanWellFounded
  <2> HIDE DEF R
  <2> QED BY <2>1, WFMin
<1>2. \A j \in S : k <= j
  <2> TAKE j \in S
  <2>1. j \in Nat /\ k \in Nat
    OBVIOUS
  <2>2. <<j, k>> \in Nat \X Nat /\ <<j, k>>[1] = j /\ <<j, k>>[2] = k
    BY <2>1
  <2>3. j < k => <<j, k>> \in R
    BY <2>2, Zenon DEF OpToRel
  <2> HIDE DEF R
  <2>4. ~(j < k)
    BY <1>1, <2>3
  <2> QED BY <2>1, <2>4
<1> QED BY <1>2

-----------------------------------------------------------------------------
(* A call, of parameters with different names. *)
Call(params, args, kwargs) ==
  /\ Len(params) \in Nat /\ DOMAIN params = 1 .. Len(params)
  /\ Len(args) \in Nat /\ DOMAIN args = 1 .. Len(args)
  /\ Len(kwargs) \in Nat /\ DOMAIN kwargs = 1 .. Len(kwargs)
  /\ DifferentNames(params)

(* The n-th argument, and whether it is for parameter i. *)
Given(args, kwargs, n) == IF n <= Len(args) THEN args[n] ELSE kwargs[n - Len(args)].val
IsFor(params, args, kwargs, n, i) ==
  /\ i \in DOMAIN params
  /\ IF n <= Len(args) THEN i = n ELSE params[i].name = kwargs[n - Len(args)].name

(* It is for a parameter that fits it, and no earlier one is for the same. *)
Fitting(p, v) == SkipsNone(p, v) \/ Accepts(p.type, v)
Bindable(params, args, kwargs, n) ==
  \E i \in DOMAIN params :
    /\ IsFor(params, args, kwargs, n, i)
    /\ Fitting(params[i], Given(args, kwargs, n))
    /\ \A m \in 1 .. n - 1 : ~IsFor(params, args, kwargs, m, i)

(* The state after n arguments. *)
Shaped(params, s) ==
  s = [err |-> s.err, vars |-> s.vars, defined |-> s.defined] /\ DOMAIN s.vars = DOMAIN params
Filled(params, args, kwargs, n, s) ==
  /\ \A i \in DOMAIN params :
       i \in s.defined <=> \E m \in 1 .. n : IsFor(params, args, kwargs, m, i)
  /\ \A i \in DOMAIN params, m \in 1 .. n :
       IsFor(params, args, kwargs, m, i) =>
         s.vars[i] = IF SkipsNone(params[i], Given(args, kwargs, m)) THEN Unset
                     ELSE Given(args, kwargs, m)
  /\ \A i \in DOMAIN params : i \notin s.defined => s.vars[i] = Unset
Taken(params, args, kwargs, n, s) ==
  /\ Shaped(params, s)
  /\ s.err = "none" <=> \A m \in 1 .. n : Bindable(params, args, kwargs, m)
  /\ s.err = "none" => Filled(params, args, kwargs, n, s)

(* An argument is for one parameter at most. *)
LEMMA OneParameter ==
  ASSUME NEW params, NEW args, NEW kwargs, Call(params, args, kwargs),
         NEW n, NEW i, NEW j, IsFor(params, args, kwargs, n, i), IsFor(params, args, kwargs, n, j)
  PROVE  i = j
BY DEF Call, DifferentNames, IsFor

(* Bind, component by component. *)
LEMMA BindIs ==
  ASSUME NEW params, NEW s, Shaped(params, s), NEW i \in DOMAIN params, NEW v
  PROVE  LET t == Bind(s, params, i, v)
             p == params[i]
         IN  /\ Shaped(params, t)
             /\ t.err = IF Fitting(p, v) THEN s.err ELSE "type"
             /\ t.defined = s.defined \cup {i}
             /\ Fitting(p, v) => t.vars[i] = IF SkipsNone(p, v) THEN s.vars[i] ELSE v
             /\ \A j \in DOMAIN params : j # i => t.vars[j] = s.vars[j]
<1> DEFINE t == Bind(s, params, i, v)
           marked == [s EXCEPT !.defined = @ \cup {i}]
<1>1. marked = [err |-> s.err, vars |-> s.vars, defined |-> s.defined \cup {i}]
  <2>1. PICK a, b, c : s = [err |-> a, vars |-> b, defined |-> c]
    BY Zenon DEF Shaped
  <2>2. s.err = a /\ s.vars = b /\ s.defined = c
    BY <2>1
  <2>3. marked = [err |-> a, vars |-> b, defined |-> c \cup {i}]
    BY <2>1
  <2> QED BY <2>2, <2>3
<1> HIDE DEF marked
<1>2. CASE SkipsNone(params[i], v)
  <2>1. t = [err |-> s.err, vars |-> s.vars, defined |-> s.defined \cup {i}]
    BY <1>1, <1>2 DEF Bind, marked
  <2> HIDE DEF t
  <2>2. t.err = s.err /\ t.vars = s.vars /\ t.defined = s.defined \cup {i}
    BY <2>1
  <2> QED BY <1>2, <2>1, <2>2 DEF Shaped, Fitting, t
<1>3. CASE ~SkipsNone(params[i], v) /\ Accepts(params[i].type, v)
  <2>1. t = [err |-> s.err, vars |-> [s.vars EXCEPT ![i] = v], defined |-> s.defined \cup {i}]
    <3>1. t = [marked EXCEPT !.vars[i] = v]
      BY <1>3 DEF Bind, marked
    <3> QED BY <1>1, <3>1
  <2> HIDE DEF t
  <2>2. t.err = s.err /\ t.vars = [s.vars EXCEPT ![i] = v] /\ t.defined = s.defined \cup {i}
    BY <2>1
  <2>3. DOMAIN s.vars = DOMAIN params
    BY DEF Shaped
  <2>4. t = [err |-> t.err, vars |-> t.vars, defined |-> t.defined] /\ DOMAIN t.vars = DOMAIN params
    BY <2>1, <2>2, <2>3
  <2>5. t.vars[i] = v /\ \A j \in DOMAIN params : j # i => t.vars[j] = s.vars[j]
    BY <2>2, <2>3
  <2> QED BY <1>3, <2>2, <2>4, <2>5 DEF Shaped, Fitting, t
<1>4. CASE ~SkipsNone(params[i], v) /\ ~Accepts(params[i].type, v)
  <2>1. t = [err |-> "type", vars |-> s.vars, defined |-> s.defined \cup {i}]
    <3>1. t = [marked EXCEPT !.err = "type"]
      BY <1>4 DEF Bind, marked
    <3> QED BY <1>1, <3>1
  <2> HIDE DEF t
  <2>2. t.err = "type" /\ t.vars = s.vars /\ t.defined = s.defined \cup {i}
    BY <2>1
  <2> QED BY <1>4, <2>1, <2>2 DEF Shaped, Fitting, t
<1> QED BY <1>2, <1>3, <1>4

(* The argument for a parameter that has none yet. *)
LEMMA BindTakes ==
  ASSUME NEW params, NEW args, NEW kwargs, Call(params, args, kwargs),
         NEW n \in 1 .. Len(args) + Len(kwargs), NEW s,
         Taken(params, args, kwargs, n - 1, s), s.err = "none",
         NEW i \in DOMAIN params, IsFor(params, args, kwargs, n, i), i \notin s.defined
  PROVE  Taken(params, args, kwargs, n, Bind(s, params, i, Given(args, kwargs, n)))
<1> DEFINE v == Given(args, kwargs, n)
           t == Bind(s, params, i, v)
           For(m, j) == IsFor(params, args, kwargs, m, j)
           Able(m) == Bindable(params, args, kwargs, m)
           Set(m, j) == IF SkipsNone(params[j], Given(args, kwargs, m)) THEN Unset
                        ELSE Given(args, kwargs, m)
<1>1. n \in Nat /\ n >= 1 /\ \A m \in Int : m \in 1 .. n <=> m \in 1 .. n - 1 \/ m = n
  BY DEF Call
<1>2. Shaped(params, s) /\ (\A m \in 1 .. n - 1 : Able(m)) /\ Filled(params, args, kwargs, n - 1, s)
  BY DEF Taken
<1>3. /\ Shaped(params, t)
      /\ t.err = IF Fitting(params[i], v) THEN s.err ELSE "type"
      /\ t.defined = s.defined \cup {i}
      /\ Fitting(params[i], v) => t.vars[i] = IF SkipsNone(params[i], v) THEN s.vars[i] ELSE v
      /\ \A j \in DOMAIN params : j # i => t.vars[j] = s.vars[j]
  BY <1>2, BindIs
<1>4. \A m \in 1 .. n - 1 : ~For(m, i)
  BY <1>2 DEF Filled
<1>5. \A j : For(n, j) => j = i
  BY OneParameter
<1>6. Able(n) <=> Fitting(params[i], v)
  BY <1>4, <1>5, Zenon DEF Bindable
<1> HIDE DEF For, Able, t, v
<1>7. t.err = "none" <=> Fitting(params[i], v)
  BY <1>3
<1>8. t.err = "none" <=> \A m \in 1 .. n : Able(m)
  BY <1>1, <1>2, <1>6, <1>7
<1>9. ASSUME t.err = "none" PROVE Filled(params, args, kwargs, n, t)
  <2>1. For(n, i)
    BY DEF For
  <2>2. \A j \in DOMAIN params : j \in t.defined <=> \E m \in 1 .. n : For(m, j)
    <3> TAKE j \in DOMAIN params
    <3>1. j \in s.defined <=> \E m \in 1 .. n - 1 : For(m, j)
      BY <1>2 DEF Filled, For
    <3>2. j \in t.defined <=> j \in s.defined \/ j = i
      BY <1>3
    <3> QED BY <1>1, <1>5, <2>1, <3>1, <3>2
  <2>3. ASSUME NEW j \in DOMAIN params, NEW m \in 1 .. n, For(m, j)
        PROVE  t.vars[j] = Set(m, j)
    <3>1. CASE m = n
      <4>1. j = i
        BY <1>5, <2>3, <3>1
      <4>2. s.vars[i] = Unset
        BY <1>2 DEF Filled
      <4> QED BY <1>3, <1>7, <1>9, <3>1, <4>1, <4>2 DEF v
    <3>2. CASE m # n
      <4>1. m \in 1 .. n - 1
        BY <1>1, <3>2
      <4>2. j # i
        BY <1>4, <2>3, <4>1
      <4>3. s.vars[j] = Set(m, j)
        BY <1>2, <2>3, <4>1 DEF Filled, For
      <4> QED BY <1>3, <4>2, <4>3
    <3> QED BY <3>1, <3>2
  <2>4. ASSUME NEW j \in DOMAIN params, j \notin t.defined PROVE t.vars[j] = Unset
    <3>1. j \notin s.defined /\ j # i
      BY <1>3, <2>4
    <3>2. s.vars[j] = Unset
      BY <1>2, <3>1 DEF Filled
    <3> QED BY <1>3, <3>1, <3>2
  <2> QED BY <2>2, <2>3, <2>4, Zenon DEF Filled, For
<1> QED BY <1>3, <1>8, <1>9, Zenon DEF Taken, Able, t, v

(* The argument that fails. *)
LEMMA FailureTakes ==
  ASSUME NEW params, NEW args, NEW kwargs, Call(params, args, kwargs),
         NEW n \in 1 .. Len(args) + Len(kwargs), NEW s, Shaped(params, s),
         NEW e, e # "none", ~Bindable(params, args, kwargs, n)
  PROVE  Taken(params, args, kwargs, n, [s EXCEPT !.err = e])
<1> DEFINE t == [s EXCEPT !.err = e]
<1>1. t = [err |-> e, vars |-> s.vars, defined |-> s.defined]
  BY DEF Shaped
<1> HIDE DEF t
<1>2. t.err = e /\ t.vars = s.vars /\ t.defined = s.defined
  BY <1>1
<1>3. Shaped(params, t)
  BY <1>1, <1>2 DEF Shaped
<1>4. n \in 1 .. n
  BY DEF Call
<1>5. ~\A m \in 1 .. n : Bindable(params, args, kwargs, m)
  BY <1>4
<1> QED BY <1>2, <1>3, <1>5, Zenon DEF Taken, t

(* Every argument. *)
LEMMA TakeOne ==
  ASSUME NEW params, NEW args, NEW kwargs, Call(params, args, kwargs), Len(args) <= Len(params),
         NEW n \in 1 .. Len(args) + Len(kwargs), NEW s, Taken(params, args, kwargs, n - 1, s)
  PROVE  Taken(params, args, kwargs, n, Take(s, params, args, kwargs, n))
<1> DEFINE For(m, j) == IsFor(params, args, kwargs, m, j)
<1>1. Len(args) \in Nat /\ Len(params) \in Nat /\ DOMAIN params = 1 .. Len(params) /\ n \in Nat
  BY DEF Call
<1>2. CASE s.err # "none"
  <2>1. Take(s, params, args, kwargs, n) = s
    BY <1>2 DEF Take
  <2>2. PICK m \in 1 .. n - 1 : ~Bindable(params, args, kwargs, m)
    BY <1>2 DEF Taken
  <2>3. m \in 1 .. n
    BY <1>1
  <2>4. ~\A l \in 1 .. n : Bindable(params, args, kwargs, l)
    BY <2>2, <2>3
  <2> QED BY <1>2, <2>1, <2>4 DEF Taken
<1>3. CASE s.err = "none" /\ n <= Len(args)
  <2>1. Take(s, params, args, kwargs, n) = Bind(s, params, n, args[n])
    BY <1>3 DEF Take
  <2>2. n \in DOMAIN params /\ For(n, n) /\ Given(args, kwargs, n) = args[n]
    BY <1>1, <1>3 DEF IsFor, Given
  <2>3. n \notin s.defined
    <3>1. ASSUME NEW m \in 1 .. n - 1 PROVE ~For(m, n)
      <4>1. m <= Len(args) /\ m # n
        BY <1>1, <1>3
      <4> QED BY <4>1 DEF IsFor
    <3>2. n \in s.defined <=> \E m \in 1 .. n - 1 : For(m, n)
      BY <1>3, <2>2 DEF Taken, Filled
    <3> QED BY <3>1, <3>2
  <2> QED BY <1>3, <2>1, <2>2, <2>3, BindTakes
<1>4. CASE s.err = "none" /\ ~(n <= Len(args))
  <2> DEFINE k == kwargs[n - Len(args)]
             at == {i \in DOMAIN params : params[i].name = k.name}
             first == CHOOSE i \in at : \A j \in at : i <= j
  <2>1. Take(s, params, args, kwargs, n) =
          CASE at = {} -> [s EXCEPT !.err = "unexpected"]
            [] at # {} /\ first \in s.defined -> [s EXCEPT !.err = "multiple"]
            [] OTHER -> Bind(s, params, first, k.val)
    BY <1>4 DEF Take, BindNamed
  <2>2. Given(args, kwargs, n) = k.val /\ \A i : For(n, i) <=> i \in at
    BY <1>4 DEF Given, IsFor
  <2>3. Shaped(params, s)
    BY DEF Taken
  <2> HIDE DEF k, at, first
  <2>4. CASE at = {}
    <3>1. ~Bindable(params, args, kwargs, n)
      BY <2>2, <2>4 DEF Bindable
    <3>2. Take(s, params, args, kwargs, n) = [s EXCEPT !.err = "unexpected"]
      BY <2>1, <2>4
    <3>3. "unexpected" # "none"
      OBVIOUS
    <3>4. Taken(params, args, kwargs, n, [s EXCEPT !.err = "unexpected"])
      BY <2>3, <3>1, <3>3, FailureTakes, Zenon
    <3> QED BY <3>2, <3>4
  <2>5. CASE at # {}
    <3>1. PICK i : i \in at
      BY <2>5
    <3>2. \A j \in at : j = i
      BY <2>2, <3>1, OneParameter
    <3>3. i \in DOMAIN params /\ i <= i
      <4>1. i \in DOMAIN params
        BY <3>1 DEF at
      <4> QED BY <1>1, <4>1
    <3>4. first = i
      <4>1. \E j : j \in at /\ \A l \in at : j <= l
        BY <3>1, <3>2, <3>3
      <4>2. first \in at
        BY <4>1, Zenon DEF first
      <4> QED BY <3>2, <4>2
    <3>5. i \in s.defined <=> \E m \in 1 .. n - 1 : For(m, i)
      BY <1>4, <3>3 DEF Taken, Filled
    <3>6. For(n, i)
      BY <2>2, <3>1
    <3>7. CASE i \in s.defined
      <4>1. Take(s, params, args, kwargs, n) = [s EXCEPT !.err = "multiple"]
        BY <2>1, <2>5, <3>4, <3>7
      <4>2. ~Bindable(params, args, kwargs, n)
        BY <2>2, <3>2, <3>5, <3>7 DEF Bindable
      <4>3. "multiple" # "none"
        OBVIOUS
      <4>4. Taken(params, args, kwargs, n, [s EXCEPT !.err = "multiple"])
        BY <2>3, <4>2, <4>3, FailureTakes, Zenon
      <4> QED BY <4>1, <4>4
    <3>8. CASE i \notin s.defined
      <4>1. Take(s, params, args, kwargs, n) = Bind(s, params, i, k.val)
        BY <2>1, <2>5, <3>4, <3>8
      <4> QED BY <1>4, <2>2, <3>3, <3>6, <3>8, <4>1, BindTakes
    <3> QED BY <3>7, <3>8
  <2> QED BY <2>4, <2>5
<1> QED BY <1>2, <1>3, <1>4
-----------------------------------------------------------------------------
(* f is the recursion of TakeAll over the first n arguments. *)
After(params, args, kwargs, n, f) ==
  f = [m \in 0 .. n |-> IF m = 0 THEN Start(params) ELSE Take(f[m - 1], params, args, kwargs, m)]

LEMMA AfterExists ==
  ASSUME NEW params, NEW args, NEW kwargs, NEW n \in Nat
  PROVE  \E f : After(params, args, kwargs, n, f)
<1> DEFINE T == {m \in Nat : \E f : After(params, args, kwargs, m, f)}
           S(g, m) == IF m = 0 THEN Start(params) ELSE Take(g[m - 1], params, args, kwargs, m)
<1>1. 0 \in T
  <2> DEFINE f == [m \in 0 .. 0 |-> Start(params)]
  <2>1. f = [m \in 0 .. 0 |-> S(f, m)]
    OBVIOUS
  <2>2. After(params, args, kwargs, 0, f)
    BY <2>1 DEF After
  <2> QED BY <2>2
<1>2. ASSUME NEW m \in Nat, m \in T PROVE m + 1 \in T
  <2>1. PICK f : After(params, args, kwargs, m, f)
    BY <1>2
  <2>2. \A l \in 0 .. m : f[l] = S(f, l)
    BY <2>1 DEF After
  <2> DEFINE last == Take(f[m], params, args, kwargs, m + 1)
             g == [l \in 0 .. m + 1 |-> IF l = m + 1 THEN last ELSE f[l]]
  <2> HIDE DEF last
  <2>3. \A l \in 0 .. m : g[l] = f[l]
    OBVIOUS
  <2>4. g[m + 1] = last
    OBVIOUS
  <2>5. g = [l \in 0 .. m + 1 |-> g[l]]
    OBVIOUS
  <2> HIDE DEF g
  <2>6. ASSUME NEW l \in 0 .. m + 1 PROVE g[l] = S(g, l)
    <3>1. CASE l = m + 1
      <4>1. l # 0 /\ l - 1 = m /\ g[m] = f[m]
        BY <2>3, <3>1
      <4> QED BY <2>4, <3>1, <4>1 DEF last
    <3>2. CASE l # m + 1
      <4>1. l \in 0 .. m /\ (l # 0 => l - 1 \in 0 .. m)
        BY <3>2
      <4> QED BY <2>2, <2>3, <4>1
    <3> QED BY <3>1, <3>2
  <2> HIDE DEF S
  <2>7. g = [l \in 0 .. m + 1 |-> S(g, l)]
    BY <2>5, <2>6
  <2>8. After(params, args, kwargs, m + 1, g)
    BY <2>7 DEF After, S
  <2> QED BY <2>8
<1>3. Nat \subseteq T
  <2> HIDE DEF T
  <2> QED BY <1>1, <1>2, SetInduction
<1> QED BY <1>3

(* What all arguments leave. *)
LEMMA AllTaken ==
  ASSUME NEW params, NEW args, NEW kwargs, Call(params, args, kwargs), Len(args) <= Len(params)
  PROVE  Taken(params, args, kwargs, Len(args) + Len(kwargs), TakeAll(params, args, kwargs))
<1>1. PICK n \in Nat : n = Len(args) + Len(kwargs)
  BY DEF Call
<1> DEFINE after == CHOOSE f : After(params, args, kwargs, n, f)
<1>2. After(params, args, kwargs, n, after)
  BY AfterExists, Zenon
<1>3. TakeAll(params, args, kwargs) = after[n]
  BY <1>1 DEF TakeAll, After
<1> HIDE DEF after
<1>4. after[0] = Start(params) /\ \A m \in 1 .. n : after[m] = Take(after[m - 1], params, args, kwargs, m)
  <2>1. \A m \in 0 .. n : after[m] = IF m = 0 THEN Start(params)
                                     ELSE Take(after[m - 1], params, args, kwargs, m)
    BY <1>2 DEF After
  <2> QED BY <2>1
<1> DEFINE T == {m \in Nat : m <= n => Taken(params, args, kwargs, m, after[m])}
<1>5. 0 \in T
  <2>1. Shaped(params, Start(params)) /\ Start(params).err = "none" /\ Start(params).defined = {}
    BY DEF Start, Shaped
  <2>2. Filled(params, args, kwargs, 0, Start(params))
    BY DEF Filled, Start
  <2>3. Taken(params, args, kwargs, 0, Start(params))
    BY <2>1, <2>2 DEF Taken
  <2> QED BY <1>4, <2>3
<1>6. ASSUME NEW m \in Nat, m \in T PROVE m + 1 \in T
  <2> SUFFICES ASSUME m + 1 <= n PROVE Taken(params, args, kwargs, m + 1, after[m + 1])
    OBVIOUS
  <2>1. PICK l \in 1 .. Len(args) + Len(kwargs) : l = m + 1 /\ l - 1 = m /\ l \in 1 .. n
    BY <1>1
  <2>2. Taken(params, args, kwargs, l - 1, after[m])
    BY <1>6, <2>1
  <2>3. Taken(params, args, kwargs, l, Take(after[m], params, args, kwargs, l))
    BY <2>2, TakeOne
  <2>4. after[l] = Take(after[m], params, args, kwargs, l)
    BY <1>4, <2>1
  <2> QED BY <2>1, <2>3, <2>4
<1>7. Nat \subseteq T
  <2> HIDE DEF T
  <2> QED BY <1>5, <1>6, SetInduction, SMTT(60)
<1> QED BY <1>1, <1>3, <1>7
-----------------------------------------------------------------------------
(* The arguments for a parameter, and their values. *)
LEMMA ValuesAre ==
  ASSUME NEW params, NEW args, NEW kwargs, Call(params, args, kwargs), Len(args) <= Len(params),
         NEW i \in DOMAIN params
  PROVE  /\ \A n \in 1 .. Len(args) + Len(kwargs) :
              IsFor(params, args, kwargs, n, i) =>
                Given(args, kwargs, n) \in ValuesFor(params, args, kwargs, i)
         /\ \A v \in ValuesFor(params, args, kwargs, i) :
              \E n \in 1 .. Len(args) + Len(kwargs) :
                IsFor(params, args, kwargs, n, i) /\ v = Given(args, kwargs, n)
<1>1. PICK a \in Nat, b \in Nat : a = Len(args) /\ b = Len(kwargs)
  BY DEF Call
<1>2. DOMAIN args = 1 .. a /\ DOMAIN kwargs = 1 .. b
  BY <1>1 DEF Call
<1>3. ASSUME NEW n \in 1 .. a + b, IsFor(params, args, kwargs, n, i)
      PROVE  Given(args, kwargs, n) \in ValuesFor(params, args, kwargs, i)
  <2>1. CASE n <= a
    <3>1. i = n /\ n \in DOMAIN args /\ Given(args, kwargs, n) = args[n]
      BY <1>1, <1>2, <1>3, <2>1 DEF IsFor, Given
    <3> QED BY <3>1 DEF ValuesFor
  <2>2. CASE ~(n <= a)
    <3>1. n - a \in DOMAIN kwargs
      BY <1>2, <2>2
    <3>2. /\ params[i].name = kwargs[n - a].name
          /\ Given(args, kwargs, n) = kwargs[n - a].val
      BY <1>1, <1>3, <2>2 DEF IsFor, Given
    <3> QED BY <3>1, <3>2 DEF ValuesFor, NamedFor
  <2> QED BY <2>1, <2>2
<1>4. ASSUME NEW v \in ValuesFor(params, args, kwargs, i)
      PROVE  \E n \in 1 .. a + b : IsFor(params, args, kwargs, n, i) /\ v = Given(args, kwargs, n)
  <2>1. CASE i \in DOMAIN args /\ v = args[i]
    <3>1. i \in 1 .. a + b /\ i <= a
      BY <1>2, <2>1
    <3> QED BY <1>1, <2>1, <3>1 DEF IsFor, Given
  <2>2. ASSUME NEW k \in NamedFor(params, kwargs, i), v = kwargs[k].val
        PROVE  \E n \in 1 .. a + b : IsFor(params, args, kwargs, n, i) /\ v = Given(args, kwargs, n)
    <3>1. k \in 1 .. b /\ kwargs[k].name = params[i].name
      BY <1>2 DEF NamedFor
    <3>2. PICK n \in 1 .. a + b : n = a + k /\ n - a = k /\ ~(n <= a)
      BY <3>1
    <3>3. IsFor(params, args, kwargs, n, i)
      BY <1>1, <3>1, <3>2 DEF IsFor
    <3>4. Given(args, kwargs, n) = v
      BY <1>1, <2>2, <3>2 DEF Given
    <3> QED BY <3>3, <3>4
  <2> QED BY <2>1, <2>2 DEF ValuesFor
<1> QED BY <1>1, <1>3, <1>4

(* Two arguments for one parameter. *)
LEMMA TwiceIs ==
  ASSUME NEW params, NEW args, NEW kwargs, Call(params, args, kwargs), Len(args) <= Len(params),
         NEW i \in DOMAIN params
  PROVE  Twice(params, args, kwargs, i) <=>
           \E n \in 1 .. Len(args) + Len(kwargs) : \E m \in 1 .. n - 1 :
             IsFor(params, args, kwargs, n, i) /\ IsFor(params, args, kwargs, m, i)
<1>1. PICK a \in Nat, b \in Nat : a = Len(args) /\ b = Len(kwargs)
  BY DEF Call
<1>2. DOMAIN args = 1 .. a /\ DOMAIN kwargs = 1 .. b
  BY <1>1 DEF Call
<1> DEFINE For(n) == IsFor(params, args, kwargs, n, i)
<1>3. \A n \in 1 .. a + b : n <= a => (For(n) <=> i = n)
  BY <1>1 DEF IsFor
<1>4. \A n \in 1 .. a + b : ~(n <= a) => (For(n) <=> n - a \in NamedFor(params, kwargs, i))
  <2> TAKE n \in 1 .. a + b
  <2>1. ~(n <= a) => n - a \in DOMAIN kwargs
    BY <1>2
  <2> QED BY <1>1, <2>1 DEF IsFor, NamedFor
<1>5. \A k \in NamedFor(params, kwargs, i) : k \in 1 .. b
  BY <1>2 DEF NamedFor
<1> HIDE DEF For
<1>6. ASSUME Twice(params, args, kwargs, i)
      PROVE  \E n \in 1 .. a + b : \E m \in 1 .. n - 1 : For(n) /\ For(m)
  <2>1. ASSUME i \in DOMAIN args, NEW k \in NamedFor(params, kwargs, i)
        PROVE  \E n \in 1 .. a + b : \E m \in 1 .. n - 1 : For(n) /\ For(m)
    <3>1. PICK n \in 1 .. a + b : n = a + k /\ n - a = k /\ ~(n <= a)
      BY <1>5
    <3>2. i \in 1 .. n - 1 /\ i \in 1 .. a + b /\ i <= a
      BY <1>2, <2>1, <3>1
    <3> QED BY <1>3, <1>4, <3>1, <3>2
  <2>2. ASSUME NEW k \in NamedFor(params, kwargs, i), NEW l \in NamedFor(params, kwargs, i), k < l
        PROVE  \E n \in 1 .. a + b : \E m \in 1 .. n - 1 : For(n) /\ For(m)
    <3>1. k \in 1 .. b /\ l \in 1 .. b
      BY <1>5
    <3>2. PICK n \in 1 .. a + b : n = a + l /\ n - a = l /\ ~(n <= a)
      BY <3>1
    <3>3. PICK m \in 1 .. a + b : m = a + k /\ m - a = k /\ ~(m <= a)
      BY <3>1
    <3>4. m \in 1 .. n - 1
      BY <2>2, <3>1, <3>2, <3>3
    <3> QED BY <1>4, <3>2, <3>3, <3>4
  <2>3. \A k, l \in NamedFor(params, kwargs, i) : k # l => k < l \/ l < k
    BY <1>5
  <2> QED BY <1>6, <2>1, <2>2, <2>3 DEF Twice
<1>7. ASSUME NEW n \in 1 .. a + b, NEW m \in 1 .. n - 1, For(n), For(m)
      PROVE  Twice(params, args, kwargs, i)
  <2>0. m \in 1 .. a + b /\ m < n
    OBVIOUS
  <2>1. ~(n <= a)
    <3> SUFFICES ASSUME n <= a PROVE FALSE
      OBVIOUS
    <3>1. i = n /\ i = m
      BY <1>3, <1>7, <2>0
    <3> QED BY <2>0, <3>1
  <2>2. n - a \in NamedFor(params, kwargs, i)
    BY <1>4, <1>7, <2>1
  <2>3. CASE m <= a
    <3>1. i = m /\ i \in DOMAIN args
      BY <1>2, <1>3, <1>7, <2>0, <2>3
    <3> QED BY <2>2, <3>1 DEF Twice
  <2>4. CASE ~(m <= a)
    <3>1. m - a \in NamedFor(params, kwargs, i) /\ m - a # n - a
      BY <1>4, <1>7, <2>0, <2>4
    <3> QED BY <2>2, <3>1 DEF Twice
  <2> QED BY <2>3, <2>4
<1> QED BY <1>1, <1>6, <1>7 DEF For

(* The loops accept the arguments if each has a parameter that it fits,    *)
(* and no parameter has two.                                               *)
LEMMA AllBindable ==
  ASSUME NEW params, NEW args, NEW kwargs, Call(params, args, kwargs), Len(args) <= Len(params)
  PROVE  (\A n \in 1 .. Len(args) + Len(kwargs) : Bindable(params, args, kwargs, n)) <=>
           /\ \A k \in DOMAIN kwargs : \E i \in DOMAIN params : params[i].name = kwargs[k].name
           /\ \A i \in DOMAIN params :
                /\ ~Twice(params, args, kwargs, i)
                /\ \A v \in ValuesFor(params, args, kwargs, i) : Fitting(params[i], v)
<1> DEFINE N == 1 .. Len(args) + Len(kwargs)
           For(n, i) == IsFor(params, args, kwargs, n, i)
           Value(n) == Given(args, kwargs, n)
           Values(i) == ValuesFor(params, args, kwargs, i)
           Named == \A k \in DOMAIN kwargs : \E i \in DOMAIN params : params[i].name = kwargs[k].name
           Double(i) == Twice(params, args, kwargs, i)
<1>1. PICK a \in Nat, b \in Nat : a = Len(args) /\ b = Len(kwargs)
  BY DEF Call
<1>2. /\ DOMAIN args = 1 .. a /\ DOMAIN kwargs = 1 .. b /\ a <= Len(params)
      /\ DOMAIN params = 1 .. Len(params) /\ Len(params) \in Nat
  BY <1>1 DEF Call
<1>3. \A i \in DOMAIN params : /\ \A n \in N : For(n, i) => Value(n) \in Values(i)
                               /\ \A v \in Values(i) : \E n \in N : For(n, i) /\ v = Value(n)
  BY ValuesAre
<1>4. \A i \in DOMAIN params : Double(i) <=> \E n \in N : \E m \in 1 .. n - 1 : For(n, i) /\ For(m, i)
  BY TwiceIs
<1>5. Named <=> \A n \in N : \E i \in DOMAIN params : For(n, i)
  <2>1. \A n \in N : n <= a => n \in DOMAIN params /\ For(n, n)
    BY <1>1, <1>2 DEF IsFor
  <2>2. \A n \in N : ~(n <= a) => n - a \in DOMAIN kwargs
    BY <1>1, <1>2
  <2>3. \A n \in N : ~(n <= a) =>
          \A i \in DOMAIN params : For(n, i) <=> params[i].name = kwargs[n - a].name
    BY <1>1 DEF IsFor
  <2>4. \A k \in DOMAIN kwargs : a + k \in N /\ ~(a + k <= a) /\ (a + k) - a = k
    BY <1>1, <1>2
  <2>5. ASSUME Named, NEW n \in N PROVE \E i \in DOMAIN params : For(n, i)
    <3> HIDE DEF For
    <3>1. CASE n <= a
      BY <2>1, <3>1
    <3>2. CASE ~(n <= a)
      <4>1. PICK i \in DOMAIN params : params[i].name = kwargs[n - a].name
        BY <2>2, <2>5, <3>2
      <4>2. For(n, i)
        BY <2>3, <3>2, <4>1
      <4> QED BY <4>2
    <3> QED BY <3>1, <3>2
  <2>6. ASSUME \A n \in N : \E i \in DOMAIN params : For(n, i), NEW k \in DOMAIN kwargs
        PROVE  \E i \in DOMAIN params : params[i].name = kwargs[k].name
    <3> HIDE DEF For
    <3>1. PICK i \in DOMAIN params : For(a + k, i)
      BY <2>4, <2>6
    <3>2. params[i].name = kwargs[(a + k) - a].name
      BY <2>3, <2>4, <3>1
    <3> QED BY <2>4, <3>2
  <2> HIDE DEF N, For
  <2> QED BY <2>5, <2>6
<1>6. \A n \in N : Bindable(params, args, kwargs, n) <=>
        \E i \in DOMAIN params : /\ For(n, i) /\ Fitting(params[i], Value(n))
                                 /\ \A m \in 1 .. n - 1 : ~For(m, i)
  BY DEF Bindable
<1>7. \A n, i, j : For(n, i) /\ For(n, j) => i = j
  BY OneParameter
<1>8. \A n \in N : \A i : For(n, i) => i \in DOMAIN params
  BY DEF IsFor
<1> HIDE DEF N, For, Value, Values, Named, Double
<1>9. ASSUME \A n \in N : Bindable(params, args, kwargs, n)
      PROVE  Named /\ \A i \in DOMAIN params : ~Double(i) /\ \A v \in Values(i) : Fitting(params[i], v)
  <2>1. Named
    BY <1>5, <1>6, <1>9
  <2>2. ASSUME NEW i \in DOMAIN params, NEW n \in N, For(n, i)
        PROVE  Fitting(params[i], Value(n)) /\ \A m \in 1 .. n - 1 : ~For(m, i)
    <3>1. PICK j \in DOMAIN params : /\ For(n, j) /\ Fitting(params[j], Value(n))
                                     /\ \A m \in 1 .. n - 1 : ~For(m, j)
      BY <1>6, <1>9
    <3>2. j = i
      BY <1>7, <2>2, <3>1
    <3> QED BY <3>1, <3>2
  <2>3. ASSUME NEW i \in DOMAIN params PROVE ~Double(i) /\ \A v \in Values(i) : Fitting(params[i], v)
    <3>1. ~Double(i)
      BY <1>4, <2>2, Zenon
    <3>2. ASSUME NEW v \in Values(i) PROVE Fitting(params[i], v)
      <4>1. PICK n \in N : For(n, i) /\ v = Value(n)
        BY <1>3
      <4>2. Fitting(params[i], Value(n))
        BY <2>2, <4>1
      <4> QED BY <4>1, <4>2, Zenon
    <3> QED BY <3>1, <3>2
  <2> QED BY <2>1, <2>3
<1>10. ASSUME Named, \A i \in DOMAIN params : ~Double(i) /\ \A v \in Values(i) : Fitting(params[i], v),
              NEW n \in N
       PROVE  Bindable(params, args, kwargs, n)
  <2>1. PICK i \in DOMAIN params : For(n, i)
    BY <1>5, <1>10
  <2>2. Value(n) \in Values(i)
    BY <1>3, <2>1
  <2>3. Fitting(params[i], Value(n))
    BY <1>10, <2>2
  <2>4. \A m \in 1 .. n - 1 : ~For(m, i)
    BY <1>4, <1>10, <2>1
  <2> QED BY <1>6, <2>1, <2>3, <2>4
<1> QED BY <1>9, <1>10, Zenon DEF N, For, Value, Values, Named, Double
-----------------------------------------------------------------------------
(* The parameters without an argument are optional, or some are missing. *)
LEMMA MissingIs ==
  ASSUME NEW params, NEW args, NEW kwargs, Call(params, args, kwargs), Len(args) <= Len(params),
         NEW s, Filled(params, args, kwargs, Len(args) + Len(kwargs), s)
  PROVE  Missing(s, params) = {} <=>
           \A i \in DOMAIN params :
             ValuesFor(params, args, kwargs, i) = {} => Optionals(params, i)
<1> DEFINE N == 1 .. Len(args) + Len(kwargs)
           Values(i) == ValuesFor(params, args, kwargs, i)
<1>1. \A i \in DOMAIN params : i \in s.defined <=> \E n \in N : IsFor(params, args, kwargs, n, i)
  BY DEF Filled
<1>2. \A i \in DOMAIN params : Values(i) # {} <=> \E n \in N : IsFor(params, args, kwargs, n, i)
  BY ValuesAre
<1> HIDE DEF N, Values
<1>3. \A i \in DOMAIN params : i \notin s.defined <=> Values(i) = {}
  BY <1>1, <1>2
<1>4. \A i \in DOMAIN params :
        i \in Missing(s, params) <=> Values(i) = {} /\ ~Optionals(params, i)
  BY <1>3, Zenon DEF Missing, Optionals
<1>5. Missing(s, params) \subseteq DOMAIN params
  BY DEF Missing
<1> QED BY <1>4, <1>5 DEF Values

(* What the variables of the parameters hold, once each has at most one argument. *)
LEMMA VarsHold ==
  ASSUME NEW params, NEW args, NEW kwargs, Call(params, args, kwargs), Len(args) <= Len(params),
         NEW s, Filled(params, args, kwargs, Len(args) + Len(kwargs), s),
         NEW i \in DOMAIN params, ~Twice(params, args, kwargs, i)
  PROVE  {s.vars[i]} = IF \E v \in ValuesFor(params, args, kwargs, i) : ~SkipsNone(params[i], v)
                       THEN ValuesFor(params, args, kwargs, i) ELSE {Unset}
<1> DEFINE N == 1 .. Len(args) + Len(kwargs)
           For(n) == IsFor(params, args, kwargs, n, i)
           Value(n) == Given(args, kwargs, n)
           values == ValuesFor(params, args, kwargs, i)
           Skips(v) == SkipsNone(params[i], v)
<1>1. \A n \in N : For(n) => Value(n) \in values
  BY ValuesAre
<1>2. \A v \in values : \E n \in N : For(n) /\ v = Value(n)
  BY ValuesAre
<1>3. \A n \in N : n \in Nat
  BY DEF Call
<1>4. \A n \in N : \A m \in 1 .. n - 1 : ~(For(n) /\ For(m))
  BY TwiceIs
<1>5. \A n, m \in N : For(n) /\ For(m) => n = m
  <2> HIDE DEF For
  <2>1. \A n, m \in N : m < n => m \in 1 .. n - 1
    BY DEF Call
  <2>2. \A n, m \in N : n < m \/ m < n \/ n = m
    BY DEF Call
  <2> HIDE DEF N
  <2> QED BY <1>4, <2>1, <2>2
<1>6. \A n \in N : For(n) => s.vars[i] = IF Skips(Value(n)) THEN Unset ELSE Value(n)
  BY DEF Filled
<1>7. (\A n \in N : ~For(n)) => s.vars[i] = Unset
  BY DEF Filled
<1> HIDE DEF N, For, Value, values, Skips
<1>8. CASE \E v \in values : ~Skips(v)
  <2>1. PICK v \in values : ~Skips(v)
    BY <1>8
  <2>2. PICK n \in N : For(n) /\ v = Value(n)
    BY <1>2
  <2>3. s.vars[i] = v
    BY <1>6, <2>1, <2>2
  <2>4. ASSUME NEW w \in values PROVE w = v
    <3>1. PICK m \in N : For(m) /\ w = Value(m)
      BY <1>2
    <3>2. m = n
      BY <1>5, <2>2, <3>1
    <3> QED BY <2>2, <3>1, <3>2
  <2>5. values = {v}
    BY <2>4
  <2> QED BY <1>8, <2>3, <2>5 DEF values, Skips
<1>9. CASE ~\E v \in values : ~Skips(v)
  <2>1. s.vars[i] = Unset
    <3>1. CASE \A n \in N : ~For(n)
      BY <1>7, <3>1
    <3>2. ASSUME NEW n \in N, For(n) PROVE s.vars[i] = Unset
      <4>1. Skips(Value(n))
        BY <1>1, <1>9, <3>2
      <4> QED BY <1>6, <3>2, <4>1
    <3> QED BY <3>1, <3>2
  <2> QED BY <1>9, <2>1 DEF values, Skips
<1> QED BY <1>8, <1>9

(* UnpackArgs accepts and sets what it should. *)
LEMMA ArgsBound ==
  ASSUME NEW params, NEW args, NEW kwargs, Call(params, args, kwargs)
  PROVE  BoundAsCalled(params, args, kwargs, UnpackArgs(params, args, kwargs))
<1> DEFINE t == UnpackArgs(params, args, kwargs)
           s == TakeAll(params, args, kwargs)
           N == 1 .. Len(args) + Len(kwargs)
           Values(i) == ValuesFor(params, args, kwargs, i)
           Named == \A k \in DOMAIN kwargs : \E i \in DOMAIN params : params[i].name = kwargs[k].name
           Fits(i) == \A v \in Values(i) : Fitting(params[i], v)
           Once(i) == ~Twice(params, args, kwargs, i)
           There(i) == Values(i) = {} => Optionals(params, i)
           Var(i) == IF \E v \in Values(i) : ~SkipsNone(params[i], v) THEN Values(i) ELSE {Unset}
           Right == /\ Len(args) <= Len(params) /\ Named
                    /\ \A i \in DOMAIN params : Once(i) /\ There(i) /\ Fits(i)
           Bound == /\ t.err = "none" <=> Right
                    /\ t.err = "none" => \A i \in DOMAIN params : {t.vars[i]} = Var(i)
<1>1. ASSUME Bound PROVE BoundAsCalled(params, args, kwargs, t)
  <2> HIDE DEF t
  <2> QED BY <1>1, Zenon DEF BoundAsCalled, Fitting
<1>2. ASSUME ~(Len(args) <= Len(params)) PROVE Bound
  <2>1. Len(args) > Len(params)
    BY <1>2 DEF Call
  <2>2. t = [Start(params) EXCEPT !.err = "too many"]
    BY <2>1 DEF UnpackArgs
  <2>3. t.err = "too many"
    BY <2>2 DEF Start
  <2>4. t.err # "none"
    BY <2>3
  <2> HIDE DEF t
  <2> QED BY <1>2, <2>4
<1>3. ASSUME Len(args) <= Len(params) PROVE Bound
  <2>1. t = IF s.err = "none" /\ Missing(s, params) # {} THEN [s EXCEPT !.err = "missing"] ELSE s
    <3>1. ~(Len(args) > Len(params))
      BY <1>3 DEF Call
    <3> QED BY <3>1 DEF UnpackArgs
  <2> HIDE DEF t, s
  <2>2. Taken(params, args, kwargs, Len(args) + Len(kwargs), s)
    BY <1>3, AllTaken DEF s
  <2>3. Shaped(params, s) /\ (s.err = "none" <=> \A n \in N : Bindable(params, args, kwargs, n))
    BY <2>2 DEF Taken
  <2>4. s.err = "none" <=> Named /\ \A i \in DOMAIN params : Once(i) /\ Fits(i)
    BY <1>3, <2>3, AllBindable, Zenon
  <2>5. s.err = "none" => (Missing(s, params) = {} <=> \A i \in DOMAIN params : There(i))
    BY <1>3, <2>2, MissingIs DEF Taken
  <2>6. s.err = "none" => \A i \in DOMAIN params : {s.vars[i]} = Var(i)
    <3> SUFFICES ASSUME s.err = "none", NEW i \in DOMAIN params PROVE {s.vars[i]} = Var(i)
      OBVIOUS
    <3>1. Once(i)
      BY <2>4
    <3>2. Filled(params, args, kwargs, Len(args) + Len(kwargs), s)
      BY <2>2 DEF Taken
    <3> QED BY <1>3, <3>1, <3>2, VarsHold
  <2> HIDE DEF Named, Fits, Once, There, Var
  <2>7. CASE s.err = "none" /\ Missing(s, params) # {}
    <3>1. t = [s EXCEPT !.err = "missing"]
      BY <2>1, <2>7
    <3>2. t.err = "missing"
      BY <2>3, <3>1 DEF Shaped
    <3>3. t.err # "none"
      BY <3>2
    <3> QED BY <2>5, <2>7, <3>3
  <2>8. CASE ~(s.err = "none" /\ Missing(s, params) # {})
    <3>1. t = s
      BY <2>1, <2>8
    <3> QED BY <1>3, <2>4, <2>5, <2>6, <2>8, <3>1
  <2> QED BY <2>7, <2>8
<1> HIDE DEF Bound
<1> QED BY <1>1, <1>2, <1>3

(* UnpackPositionalArgs too. *)
LEMMA OrderBound ==
  ASSUME NEW params, NEW args, NEW kwargs, Call(params, args, kwargs),
         NEW min \in Nat
  PROVE  BoundInOrder(params, args, kwargs, min, UnpackPositionalArgs(params, args, kwargs, min))
<1> DEFINE t == UnpackPositionalArgs(params, args, kwargs, min)
           failure == CASE kwargs # <<>> -> "unexpected"
                        [] Len(args) < min -> "missing"
                        [] Len(args) > Len(params) -> "too many"
                        [] OTHER -> "none"
           unmarked == [i \in DOMAIN params |->
                          [name |-> params[i].name, mark |-> "", type |-> params[i].type]]
           Fits == \A i \in DOMAIN args : Accepts(params[i].type, args[i])
<1>1. t = IF failure = "none" THEN TakeAll(unmarked, args, kwargs)
          ELSE [Start(params) EXCEPT !.err = failure]
  BY SMTT(60) DEF UnpackPositionalArgs
<1>2. PICK a \in Nat, l \in Nat : a = Len(args) /\ l = Len(params)
  BY DEF Call
<1>3. failure = "none" <=> kwargs = <<>> /\ min <= Len(args) /\ Len(args) <= Len(params)
  BY <1>2
<1> HIDE DEF t, failure
<1>4. CASE failure # "none"
  <2>1. t.err = failure
    BY <1>1, <1>4 DEF Start
  <2> QED BY <1>3, <1>4, <2>1 DEF BoundInOrder, t
<1>5. CASE failure = "none"
  <2>1. \A i \in DOMAIN params :
          unmarked[i].name = params[i].name /\ unmarked[i].mark = "" /\ unmarked[i].type = params[i].type
    OBVIOUS
  <2>2. DOMAIN unmarked = 1 .. l /\ Len(unmarked) = l
    <3>1. DOMAIN unmarked = 1 .. l
      BY <1>2 DEF Call
    <3> QED BY <1>2, <3>1
  <2>3. Len(kwargs) = 0 /\ a <= l /\ DOMAIN args = 1 .. a
    BY <1>2, <1>3, <1>5 DEF Call
  <2>4. DOMAIN params = 1 .. l
    BY <1>2 DEF Call
  <2> HIDE DEF unmarked
  <2>5. Call(unmarked, args, kwargs)
    BY <2>1, <2>2, <2>4 DEF Call, DifferentNames
  <2>6. Taken(unmarked, args, kwargs, Len(args) + Len(kwargs), TakeAll(unmarked, args, kwargs))
    BY <1>2, <2>2, <2>3, <2>5, AllTaken
  <2>7. t.err = "none" <=> \A n \in 1 .. a : Bindable(unmarked, args, kwargs, n)
    <3>1. Len(args) + Len(kwargs) = a
      BY <1>2, <2>3
    <3> QED BY <1>1, <1>5, <2>6, <3>1 DEF Taken
  <2>8. ASSUME NEW n \in 1 .. a
        PROVE  Bindable(unmarked, args, kwargs, n) <=> Accepts(params[n].type, args[n])
    <3>1. \A m \in 1 .. a : \A i : IsFor(unmarked, args, kwargs, m, i) <=> i = m
      BY <1>2, <2>2, <2>3 DEF IsFor
    <3>2. Given(args, kwargs, n) = args[n] /\ n \in DOMAIN unmarked /\ n \in DOMAIN params
      BY <1>2, <2>2, <2>3, <2>4 DEF Given
    <3>3. Fitting(unmarked[n], args[n]) <=> Accepts(params[n].type, args[n])
      BY <2>1, <3>2 DEF Fitting, SkipsNone
    <3>4. \A m \in 1 .. n - 1 : m \in 1 .. a /\ m # n
      OBVIOUS
    <3> QED BY <3>1, <3>2, <3>3, <3>4 DEF Bindable
  <2>9. t.err = "none" <=> Fits
    BY <2>3, <2>7, <2>8
  <2> QED BY <1>3, <1>5, <2>9 DEF BoundInOrder, t
<1> QED BY <1>4, <1>5
-----------------------------------------------------------------------------
(* The sequences of a call. *)
LEMMA SequenceOf ==
  ASSUME NEW S, NEW n \in Nat, NEW s \in [1 .. n -> S]
  PROVE  Len(s) = n /\ DOMAIN s = 1 .. Len(s)
<1>1. DOMAIN s = 1 .. n
  OBVIOUS
<1>2. Len(s) = n
  BY <1>1
<1> QED BY <1>1, <1>2

(* Every call asked about is bound as it should be. *)
LEMMA AskedIsBound == AskToBind => BindsExact
<1> SUFFICES ASSUME AskToBind PROVE BindsExact
  OBVIOUS
<1> DEFINE params == question.params
           args == question.args
           kwargs == question.kwargs
           Named == [name : ArgNames, val : ArgValues]
<1>1. MaxParams \in Nat /\ MaxNamed \in Nat
  BY UnpackingAssumption
<1>2. PICK l \in 0 .. MaxParams, n \in 0 .. MaxParams + 1, m \in 0 .. MaxNamed :
        question \in [kind : {"bind"}, params : {p \in [1 .. l -> Parameters] : DifferentNames(p)},
                      args : [1 .. n -> ArgValues], kwargs : [1 .. m -> Named]]
  BY DEF AskToBind
<1>3. /\ params \in [1 .. l -> Parameters] /\ DifferentNames(params)
      /\ args \in [1 .. n -> ArgValues] /\ kwargs \in [1 .. m -> Named]
  BY <1>2
<1>4. l \in Nat /\ n \in Nat /\ m \in Nat
  BY <1>1
<1> HIDE DEF params, args, kwargs, Named
<1>5. Len(params) = l /\ DOMAIN params = 1 .. Len(params)
  BY <1>3, <1>4, SequenceOf
<1>6. Len(args) = n /\ DOMAIN args = 1 .. Len(args)
  BY <1>3, <1>4, SequenceOf
<1>7. Len(kwargs) = m /\ DOMAIN kwargs = 1 .. Len(kwargs)
  BY <1>3, <1>4, SequenceOf
<1>8. Call(params, args, kwargs)
  BY <1>3, <1>4, <1>5, <1>6, <1>7 DEF Call
<1>9. BoundAsCalled(params, args, kwargs, UnpackArgs(params, args, kwargs))
  BY <1>8, ArgsBound
<1>10. \A min \in 0 .. MaxParams :
         BoundInOrder(params, args, kwargs, min, UnpackPositionalArgs(params, args, kwargs, min))
  <2>1. \A min \in 0 .. MaxParams : min \in Nat
    BY <1>1
  <2>2. \A min \in Nat :
          BoundInOrder(params, args, kwargs, min, UnpackPositionalArgs(params, args, kwargs, min))
    BY <1>8, OrderBound, Zenon
  <2> QED BY <2>1, <2>2, Zenon
<1> QED BY <1>9, <1>10, Zenon DEF BindsExact, params, args, kwargs

(* Built-in functions bind arguments as their callers expect: UnpackArgs   *)
(* and UnpackPositionalArgs accept just the calls in which every argument  *)
(* has a parameter of its own that it fits, and no parameter that must be  *)
(* given is missing, and they set the variables to the arguments.  For any *)
(* parameters, marks, values and names, and any number of them.            *)
THEOREM BindsAreExact == UnpackingSpec => []BindsExact
<1>1. BindsExact /\ [FALSE]_question => BindsExact'
  <2> SUFFICES ASSUME BindsExact, question' = question PROVE BindsExact'
    OBVIOUS
  <2> QED BY DEF BindsExact
<1> QED BY <1>1, AskedIsBound, PTL DEF UnpackingSpec, NothingElse

-----------------------------------------------------------------------------
(* What is computed step by step from a function of steps. *)
StepsOn(S, n) == [1 .. n -> [S -> S]]
Follows(f, S, n, base, st) ==
  f \in [0 .. n -> S] /\ f[0] = base /\ \A k \in 1 .. n : f[k] = st[k][f[k - 1]]

LEMMA Recursion ==
  ASSUME NEW n \in Nat, NEW S, NEW base \in S, NEW st \in StepsOn(S, n)
  PROVE  \E f : Follows(f, S, n, base, st)
<1> USE DEF StepsOn
<1> DEFINE Begins(m, g) ==
             g \in [0 .. m -> S] /\ g[0] = base /\ \A k \in 1 .. m : g[k] = st[k][g[k - 1]]
           T == {m \in Nat : m <= n => \E g : Begins(m, g)}
<1>1. 0 \in T
  <2> DEFINE g == [k \in 0 .. 0 |-> base]
  <2>1. Begins(0, g)
    OBVIOUS
  <2> QED BY <2>1
<1>2. ASSUME NEW m \in Nat, m \in T PROVE m + 1 \in T
  <2> SUFFICES ASSUME m + 1 <= n PROVE \E g : Begins(m + 1, g)
    OBVIOUS
  <2>1. PICK f : Begins(m, f)
    BY <1>2
  <2>2. m + 1 \in 1 .. n /\ f[m] \in S /\ st[m + 1] \in [S -> S]
    BY <2>1
  <2> DEFINE last == st[m + 1][f[m]]
             g == [l \in 0 .. m + 1 |-> IF l = m + 1 THEN last ELSE f[l]]
  <2>3. last \in S
    BY <2>2
  <2> HIDE DEF last
  <2>4. g \in [0 .. m + 1 -> S] /\ g[m + 1] = last
    BY <2>1, <2>3
  <2>5. \A l \in 0 .. m : g[l] = f[l]
    OBVIOUS
  <2> HIDE DEF g
  <2>6. ASSUME NEW l \in 1 .. m + 1 PROVE g[l] = st[l][g[l - 1]]
    <3>1. CASE l = m + 1
      <4>1. l - 1 = m /\ m \in 0 .. m
        BY <3>1
      <4>2. g[l - 1] = f[m] /\ g[l] = last
        BY <2>4, <2>5, <3>1, <4>1
      <4> QED BY <3>1, <4>2 DEF last
    <3>2. CASE l # m + 1
      <4>1. l \in 1 .. m /\ l \in 0 .. m /\ l - 1 \in 0 .. m
        BY <3>2
      <4>2. g[l] = f[l] /\ g[l - 1] = f[l - 1] /\ f[l] = st[l][f[l - 1]]
        BY <2>1, <2>5, <4>1
      <4> QED BY <4>2
    <3> QED BY <3>1, <3>2
  <2>7. g[0] = base
    BY <2>1, <2>5
  <2> QED BY <2>4, <2>6, <2>7
<1>3. Nat \subseteq T
  <2> HIDE DEF T
  <2> QED BY <1>1, <1>2, SetInduction
<1>4. \E g : Begins(n, g)
  BY <1>3
<1> QED BY <1>4 DEF Follows

(* Values, and what there is in them. *)
LEMMA Typed ==
  ASSUME NEW x \in Comparands
  PROVE  /\ x.t \in Types /\ x.n \in Int /\ x.e \in Seq(Comparands)
         /\ x.t = "set" => IsKeyed(x.e)
         /\ x.t = "dict" => Len(x.e) % 2 = 0 /\ IsKeyed([j \in Pairs(x.e) |-> x.e[2 * j - 1]])
BY OrderingAssumption

LEMMA InPairs ==
  ASSUME NEW S, NEW e \in Seq(S), NEW j \in Pairs(e)
  PROVE  2 * j \in DOMAIN e /\ 2 * j - 1 \in DOMAIN e /\ e[2 * j] \in S /\ e[2 * j - 1] \in S
<1>1. PICK n \in Nat : n = Len(e) /\ DOMAIN e = 1 .. n
  OBVIOUS
<1>2. j \in 1 .. n \div 2
  BY <1>1 DEF Pairs
<1>3. 2 * j \in 1 .. n /\ 2 * j - 1 \in 1 .. n
  BY <1>2
<1> QED BY <1>1, <1>3

(* The answers of a comparison. *)
Answers == {"yes", "no"} \cup Failures
Comparisons == [Operators -> [Comparands -> [Comparands -> Answers]]]
Eq(c, x, y) == c["=="][x][y]
Lt(c, x, y) == c["<"][x][y]

(* One level deeper. *)
Deepened(c) ==
  [op \in Operators |-> [x \in Comparands |-> [y \in Comparands |->
     IF x.t = y.t THEN CompareSameType(op, x, y, c)
     ELSE IF {x.t, y.t} = {"int", "float"} THEN Threeway(op, x.n - y.n)
     ELSE IF op \in Equality THEN YesNo(op = "!=") ELSE "type"]]]
Refused == [op \in Operators |-> [x \in Comparands |-> [y \in Comparands |-> "depth"]]]

LEMMA AnswersAre ==
  /\ \A b : YesNo(b) \in {"yes", "no"}
  /\ \A op, k : Threeway(op, k) \in {"yes", "no"}
  /\ \A op, p, q : SetCompare(op, p, q) \in {"yes", "no"}
  /\ \A r \in Answers : Negated(r) \in Answers
  /\ \A c \in Comparisons, op \in Operators, x, y \in Comparands : c[op][x][y] \in Answers
<1>1. \A b : YesNo(b) \in {"yes", "no"}
  BY Zenon DEF YesNo
<1>2. \A r \in Answers : Negated(r) \in Answers
  BY DEF Negated, Answers, Failures
<1>3. \A op, k : Threeway(op, k) \in {"yes", "no"}
  BY <1>1, Zenon DEF Threeway
<1>4. \A op, p, q : SetCompare(op, p, q) \in {"yes", "no"}
  BY <1>1, Zenon DEF SetCompare
<1>5. \A c \in Comparisons, op \in Operators, x, y \in Comparands : c[op][x][y] \in Answers
  BY DEF Comparisons
<1> QED BY <1>1, <1>2, <1>3, <1>4, <1>5

LEMMA ThreewayIs ==
  ASSUME NEW k \in Int
  PROVE  /\ Threeway("==", k) = YesNo(k = 0) /\ Threeway("!=", k) = YesNo(k # 0)
         /\ Threeway("<", k) = YesNo(k < 0) /\ Threeway("<=", k) = YesNo(k <= 0)
         /\ Threeway(">", k) = YesNo(k > 0) /\ Threeway(">=", k) = YesNo(k >= 0)
BY DEF Threeway

LEMMA YesIs ==
  /\ \A b \in BOOLEAN : YesNo(b) = "yes" <=> b
  /\ \A b \in BOOLEAN : YesNo(b) = "no" <=> ~b
  /\ \A b : YesNo(b) \notin Failures
BY DEF YesNo, Failures

-----------------------------------------------------------------------------
(* Two sequences of elements: all that they both have are equal, or there  *)
(* is a first that is not, and decides.                                    *)
Both(p, q) == DOMAIN p \cap DOMAIN q
AllEqual(c, p, q) == \A i \in Both(p, q) : Eq(c, p[i], q[i]) = "yes"
Decides(c, p, q, i) ==
  /\ i \in Both(p, q) /\ Eq(c, p[i], q[i]) # "yes"
  /\ \A j \in 1 .. i - 1 : Eq(c, p[j], q[j]) = "yes"

LEMMA BothIs ==
  ASSUME NEW S, NEW p \in Seq(S), NEW q \in Seq(S)
  PROVE  /\ \A i : i \in Both(p, q) <=> i \in Nat /\ 1 <= i /\ i <= Len(p) /\ i <= Len(q)
         /\ \A i \in Both(p, q) : p[i] \in S /\ q[i] \in S
         /\ \A i \in Both(p, q) : \A j \in 1 .. i : j \in Both(p, q)
         /\ Both(p, q) \subseteq Nat
<1>1. PICK m \in Nat : m = Len(p) /\ DOMAIN p = 1 .. m
  OBVIOUS
<1>2. PICK n \in Nat : n = Len(q) /\ DOMAIN q = 1 .. n
  OBVIOUS
<1>3. \A i : i \in Both(p, q) <=> i \in Nat /\ 1 <= i /\ i <= Len(p) /\ i <= Len(q)
  BY <1>1, <1>2 DEF Both
<1>4. \A i \in Both(p, q) : p[i] \in S /\ q[i] \in S
  BY DEF Both
<1>5. \A i \in Both(p, q) : \A j \in 1 .. i : j \in Both(p, q)
  BY <1>3, <1>1, <1>2
<1> QED BY <1>3, <1>4, <1>5

LEMMA FirstIs ==
  ASSUME NEW S \in SUBSET Nat, S # {}
  PROVE  First(S) \in S /\ \A j \in S : First(S) <= j
<1>1. \E i \in S : \A j \in S : i <= j
  BY LeastExists
<1> QED BY <1>1, Zenon DEF First

LEMMA FirstOnly ==
  ASSUME NEW S \in SUBSET Nat, NEW i \in S, \A j \in S : i <= j
  PROVE  First(S) = i
<1>1. First(S) \in S /\ \A j \in S : First(S) <= j
  BY FirstIs
<1>2. First(S) <= i /\ i <= First(S) /\ First(S) \in Nat /\ i \in Nat
  BY <1>1
<1> QED BY <1>2

LEMMA SliceCases ==
  ASSUME NEW c, NEW p \in Seq(Comparands), NEW q \in Seq(Comparands)
  PROVE  AllEqual(c, p, q) \/ \E i \in Both(p, q) : Decides(c, p, q, i)
<1> SUFFICES ASSUME ~AllEqual(c, p, q) PROVE \E i \in Both(p, q) : Decides(c, p, q, i)
  OBVIOUS
<1> DEFINE S == {i \in Both(p, q) : Eq(c, p[i], q[i]) # "yes"}
<1>1. S \in SUBSET Nat /\ S # {}
  BY BothIs DEF AllEqual
<1>2. PICK i \in S : \A j \in S : i <= j
  <2> HIDE DEF S
  <2> QED BY <1>1, LeastExists
<1>3. ASSUME NEW j \in 1 .. i - 1 PROVE Eq(c, p[j], q[j]) = "yes"
  <2>1. i \in Nat
    <3> HIDE DEF S
    <3> QED BY <1>1
  <2>2. i \in Nat /\ j \in 1 .. i /\ ~(i <= j)
    BY <2>1
  <2>3. j \in Both(p, q)
    BY <2>2, BothIs
  <2> QED BY <1>2, <2>2, <2>3
<1> QED BY <1>2, <1>3 DEF Decides

LEMMA SliceEqual ==
  ASSUME NEW c, NEW p \in Seq(Comparands), NEW q \in Seq(Comparands),
         NEW op \in Operators, AllEqual(c, p, q)
  PROVE  SliceCompare(op, p, q, c) = Threeway(op, Len(p) - Len(q))
<1>1. {i \in DOMAIN p \cap DOMAIN q : c["=="][p[i]][q[i]] # "yes"} = {}
  BY DEF AllEqual, Eq, Both
<1>2. Len(p) - Len(q) \in Int /\ (Len(p) # Len(q) <=> Len(p) - Len(q) # 0)
  OBVIOUS
<1>3. Len(p) # Len(q) /\ op \in Equality => Threeway(op, Len(p) - Len(q)) = YesNo(op = "!=")
  <2> SUFFICES ASSUME Len(p) # Len(q), op \in Equality
               PROVE  Threeway(op, Len(p) - Len(q)) = YesNo(op = "!=")
    OBVIOUS
  <2>1. CASE op = "=="
    BY <1>2, <2>1, ThreewayIs DEF YesNo
  <2>2. CASE op = "!="
    BY <1>2, <2>2, ThreewayIs DEF YesNo
  <2> QED BY <2>1, <2>2 DEF Equality
<1> QED BY <1>1, <1>3, Zenon DEF SliceCompare

(* What the first pair that differs decides. *)
Decision(op, c, p, q, i) ==
  IF Eq(c, p[i], q[i]) \in Failures THEN Eq(c, p[i], q[i])
  ELSE IF op \in Equality THEN YesNo(op = "!=")
  ELSE c[op][p[i]][q[i]]

LEMMA SliceDecided ==
  ASSUME NEW c, NEW p \in Seq(Comparands), NEW q \in Seq(Comparands),
         NEW i, NEW op \in Operators, Decides(c, p, q, i)
  PROVE  Len(p) = Len(q) \/ op \notin Equality => SliceCompare(op, p, q, c) = Decision(op, c, p, q, i)
<1> DEFINE S == {j \in DOMAIN p \cap DOMAIN q : c["=="][p[j]][q[j]] # "yes"}
<1>1. S \in SUBSET Nat /\ i \in S
  BY BothIs DEF Decides, Both, Eq
<1>2. \A j \in S : i <= j
  <2>1. \A j \in S : j \in 1 .. Len(p) /\ Eq(c, p[j], q[j]) # "yes"
    BY DEF Eq
  <2>2. i \in 1 .. Len(p) /\ \A j \in 1 .. i - 1 : Eq(c, p[j], q[j]) = "yes"
    BY DEF Decides, Both
  <2> HIDE DEF S
  <2> QED BY <2>1, <2>2
<1>3. First(S) = i /\ S # {}
  <2> HIDE DEF S
  <2> QED BY <1>1, <1>2, FirstOnly, Zenon
<1>4. SliceCompare(op, p, q, c) =
        IF Len(p) # Len(q) /\ op \in Equality THEN YesNo(op = "!=")
        ELSE Decision(op, c, p, q, i)
  BY <1>3, Zenon DEF SliceCompare, Eq, Decision
<1> QED BY <1>4

LEMMA SliceUneven ==
  ASSUME NEW c, NEW p, NEW q, NEW op \in Equality, Len(p) # Len(q)
  PROVE  SliceCompare(op, p, q, c) = YesNo(op = "!=")
BY Zenon DEF SliceCompare

-----------------------------------------------------------------------------
(* Keys that are distinct: no more of them fit into fewer others. *)
Images(k) == {AsKey(k[i]) : i \in DOMAIN k}

LEMMA Pigeons ==
  ASSUME NEW m \in Nat, NEW n \in Nat, NEW p, NEW q, DOMAIN p = 1 .. m, DOMAIN q = 1 .. n,
         IsKeyed(p), IsKeyed(q), Images(p) \subseteq Images(q)
  PROVE  m <= n /\ (m = n => Images(p) = Images(q))
<1> DEFINE f == [i \in 1 .. m |-> CHOOSE j \in 1 .. n : AsKey(q[j]) = AsKey(p[i])]
<1>1. ASSUME NEW i \in 1 .. m
      PROVE  f[i] \in 1 .. n /\ AsKey(q[f[i]]) = AsKey(p[i])
  <2>1. AsKey(p[i]) \in Images(q)
    BY DEF Images
  <2>2. \E j \in 1 .. n : AsKey(q[j]) = AsKey(p[i])
    BY <2>1 DEF Images
  <2>3. f[i] = CHOOSE j \in 1 .. n : AsKey(q[j]) = AsKey(p[i])
    OBVIOUS
  <2> QED BY <2>2, <2>3, Zenon
<1>2. f \in [1 .. m -> 1 .. n]
  <2> DEFINE g(i) == CHOOSE j \in 1 .. n : AsKey(q[j]) = AsKey(p[i])
  <2>1. \A i \in 1 .. m : g(i) \in 1 .. n
    BY <1>1
  <2> HIDE DEF g
  <2>2. [i \in 1 .. m |-> g(i)] \in [1 .. m -> 1 .. n]
    BY <2>1
  <2> QED BY <2>2 DEF g
<1> HIDE DEF f
<1>3. \A i, j \in 1 .. m : f[i] = f[j] => i = j
  <2> TAKE i, j \in 1 .. m
  <2> HAVE f[i] = f[j]
  <2>1. AsKey(p[i]) = AsKey(p[j])
    BY <1>1
  <2> QED BY <2>1 DEF IsKeyed
<1>4. f \in Injection(1 .. m, 1 .. n)
  BY <1>2, <1>3 DEF Injection, IsInjective
<1>5. /\ IsFiniteSet(1 .. n) /\ Cardinality(1 .. n) = n
      /\ Cardinality(1 .. m) = m
  <2>1. m \in Int /\ n \in Int /\ 1 \in Int
    OBVIOUS
  <2> QED BY <2>1, FS_Interval
<1>6. m <= n /\ (m = n => f \in Surjection(1 .. m, 1 .. n))
  BY <1>4, <1>5, FS_Injection
<1>7. ASSUME m = n PROVE Images(q) \subseteq Images(p)
  <2>1. \A t \in 1 .. n : \E s \in 1 .. m : f[s] = t
    BY <1>6, <1>7 DEF Surjection
  <2> SUFFICES ASSUME NEW j \in 1 .. n PROVE AsKey(q[j]) \in Images(p)
    BY DEF Images
  <2>2. PICK s \in 1 .. m : f[s] = j
    BY <2>1
  <2>3. AsKey(q[j]) = AsKey(p[s])
    BY <1>1, <2>2
  <2> QED BY <2>3 DEF Images
<1> QED BY <1>6, <1>7

LEMMA SetIs ==
  ASSUME NEW p \in Seq(Comparands), NEW q \in Seq(Comparands), IsKeyed(p), IsKeyed(q)
  PROVE  /\ SetCompare("==", p, q) = YesNo(Images(p) = Images(q))
         /\ SetCompare("!=", p, q) = YesNo(Images(p) # Images(q))
         /\ SetCompare("<=", p, q) = YesNo(Images(p) \subseteq Images(q))
         /\ SetCompare(">=", p, q) = YesNo(Images(q) \subseteq Images(p))
         /\ SetCompare("<", p, q) = YesNo(Images(p) \subseteq Images(q) /\ Images(p) # Images(q))
         /\ SetCompare(">", p, q) = YesNo(Images(q) \subseteq Images(p) /\ Images(p) # Images(q))
<1>1. PICK m \in Nat : m = Len(p) /\ DOMAIN p = 1 .. m
  OBVIOUS
<1>2. PICK n \in Nat : n = Len(q) /\ DOMAIN q = 1 .. n
  OBVIOUS
<1>3. Images(p) \subseteq Images(q) => m <= n /\ (m = n => Images(p) = Images(q))
  BY <1>1, <1>2, Pigeons
<1>4. Images(q) \subseteq Images(p) => n <= m /\ (m = n => Images(p) = Images(q))
  BY <1>1, <1>2, Pigeons
<1>5. /\ Includes(q, p) <=> Images(p) \subseteq Images(q)
      /\ Includes(p, q) <=> Images(q) \subseteq Images(p)
  BY DEF Includes, Images
<1>6. /\ SetCompare("==", p, q) = YesNo(m = n /\ Includes(q, p))
      /\ SetCompare("!=", p, q) = YesNo(~(m = n /\ Includes(q, p)))
      /\ SetCompare("<=", p, q) = YesNo(m <= n /\ Includes(q, p))
      /\ SetCompare(">=", p, q) = YesNo(m >= n /\ Includes(p, q))
      /\ SetCompare("<", p, q) = YesNo(m < n /\ Includes(q, p))
      /\ SetCompare(">", p, q) = YesNo(m > n /\ Includes(p, q))
  BY <1>1, <1>2 DEF SetCompare
<1>7. /\ m = n /\ Includes(q, p) <=> Images(p) = Images(q)
      /\ m <= n /\ Includes(q, p) <=> Images(p) \subseteq Images(q)
      /\ m >= n /\ Includes(p, q) <=> Images(q) \subseteq Images(p)
      /\ m < n /\ Includes(q, p) <=> Images(p) \subseteq Images(q) /\ Images(p) # Images(q)
      /\ m > n /\ Includes(p, q) <=> Images(q) \subseteq Images(p) /\ Images(p) # Images(q)
  BY <1>3, <1>4, <1>5
<1> QED BY <1>6, <1>7 DEF YesNo

(* Two dicts with the same keys, and equal values for them. *)
Keyed(e) == Len(e) % 2 = 0 /\ IsKeyed([j \in Pairs(e) |-> e[2 * j - 1]])
Matches(c, p, q, j, k) == AsKey(p[2 * j - 1]) = AsKey(q[2 * k - 1]) /\ Eq(c, p[2 * j], q[2 * k]) = "yes"
Same(c, p, q) ==
  /\ Len(p) = Len(q)
  /\ \A j \in Pairs(p) : \E k \in Pairs(q) : Matches(c, p, q, j, k)

LEMMA KeysDiffer ==
  ASSUME NEW e, NEW j \in Pairs(e), NEW k \in Pairs(e), Keyed(e),
         AsKey(e[2 * j - 1]) = AsKey(e[2 * k - 1])
  PROVE  j = k
<1> DEFINE f == [i \in Pairs(e) |-> e[2 * i - 1]]
<1>1. DOMAIN f = Pairs(e) /\ f[j] = e[2 * j - 1] /\ f[k] = e[2 * k - 1]
  OBVIOUS
<1>2. IsKeyed(f)
  BY DEF Keyed
<1> HIDE DEF f
<1> QED BY <1>1, <1>2 DEF IsKeyed

LEMMA ValueIs ==
  ASSUME NEW q, NEW k \in Pairs(q), NEW key, Keyed(q), AsKey(key) = AsKey(q[2 * k - 1])
  PROVE  ValueAt(q, key) = q[2 * k]
<1> DEFINE at == CHOOSE j \in Pairs(q) : AsKey(q[2 * j - 1]) = AsKey(key)
<1>1. at \in Pairs(q) /\ AsKey(q[2 * at - 1]) = AsKey(key)
  <2>1. \E j \in Pairs(q) : AsKey(q[2 * j - 1]) = AsKey(key)
    OBVIOUS
  <2> QED BY <2>1, Zenon
<1>2. ValueAt(q, key) = q[2 * at]
  BY DEF ValueAt
<1> HIDE DEF at
<1>3. at = k
  BY <1>1, KeysDiffer
<1> QED BY <1>2, <1>3

Found(p, q, j) == AsKey(p[2 * j - 1]) \in KeysOf(q)
Verdict(c, p, q, j) == Eq(c, p[2 * j], ValueAt(q, p[2 * j - 1]))
Differs(c, p, q, j) ==
  /\ j \in Pairs(p) /\ (~Found(p, q, j) \/ Verdict(c, p, q, j) # "yes")
  /\ \A i \in Pairs(p) : i < j => Found(p, q, i) /\ Verdict(c, p, q, i) = "yes"

LEMMA FoundKey ==
  ASSUME NEW p, NEW q, NEW j
  PROVE  Found(p, q, j) <=> \E k \in Pairs(q) : AsKey(p[2 * j - 1]) = AsKey(q[2 * k - 1])
BY DEF Found, KeysOf

LEMMA FoundIs ==
  ASSUME NEW c, NEW p, NEW q, NEW j \in Pairs(p), Keyed(q)
  PROVE  /\ \A k \in Pairs(q) :
              AsKey(p[2 * j - 1]) = AsKey(q[2 * k - 1]) => Verdict(c, p, q, j) = Eq(c, p[2 * j], q[2 * k])
         /\ Found(p, q, j) /\ Verdict(c, p, q, j) = "yes" <=>
              \E k \in Pairs(q) : Matches(c, p, q, j, k)
<1>1. Found(p, q, j) <=> \E k \in Pairs(q) : AsKey(p[2 * j - 1]) = AsKey(q[2 * k - 1])
  BY FoundKey
<1>2. \A k \in Pairs(q) :
        AsKey(p[2 * j - 1]) = AsKey(q[2 * k - 1]) => Verdict(c, p, q, j) = Eq(c, p[2 * j], q[2 * k])
  <2> TAKE k \in Pairs(q)
  <2> HAVE AsKey(p[2 * j - 1]) = AsKey(q[2 * k - 1])
  <2>1. ValueAt(q, p[2 * j - 1]) = q[2 * k]
    BY ValueIs
  <2> QED BY <2>1 DEF Verdict
<1> QED BY <1>1, <1>2 DEF Matches

LEMMA DictCases ==
  ASSUME NEW c, NEW p \in Seq(Comparands), NEW q \in Seq(Comparands), Keyed(q)
  PROVE  /\ Len(p) # Len(q) => DictsEqual(p, q, c) = "no"
         /\ Same(c, p, q) => DictsEqual(p, q, c) = "yes"
         /\ \A j : Differs(c, p, q, j) /\ Len(p) = Len(q) =>
              DictsEqual(p, q, c) = IF ~Found(p, q, j) THEN "no" ELSE Verdict(c, p, q, j)
         /\ Len(p) = Len(q) /\ ~Same(c, p, q) => \E j \in Pairs(p) : Differs(c, p, q, j)
<1> DEFINE D == {j \in Pairs(p) : ~Found(p, q, j) \/ Verdict(c, p, q, j) # "yes"}
<1>1. D \in SUBSET Nat
  BY DEF Pairs
<1>2. DictsEqual(p, q, c) =
        IF Len(p) # Len(q) THEN "no"
        ELSE IF D = {} THEN "yes"
        ELSE IF ~Found(p, q, First(D)) THEN "no" ELSE Verdict(c, p, q, First(D))
  BY Zenon DEF DictsEqual, Found, Verdict, Eq
<1>3. Len(p) = Len(q) => (Same(c, p, q) <=> D = {})
  <2>1. \A j \in Pairs(p) : j \notin D <=> \E k \in Pairs(q) : Matches(c, p, q, j, k)
    BY FoundIs
  <2> QED BY <2>1 DEF Same
<1>4. ASSUME NEW j, Differs(c, p, q, j) PROVE D # {} /\ First(D) = j
  <2>1. j \in D /\ j \in Nat
    BY <1>1, <1>4 DEF Differs
  <2>2. \A i \in D : j <= i
    BY <1>1, <1>4, <2>1 DEF Differs
  <2> HIDE DEF D
  <2> QED BY <1>1, <2>1, <2>2, FirstOnly
<1>5. ASSUME D # {} PROVE \E j \in Pairs(p) : Differs(c, p, q, j)
  <2>1. PICK j \in D : \A i \in D : j <= i
    <3> HIDE DEF D
    <3> QED BY <1>1, <1>5, LeastExists
  <2>2. \A i \in Pairs(p) : i < j => i \notin D
    BY <1>1, <2>1 DEF Pairs
  <2>3. Differs(c, p, q, j)
    BY <2>1, <2>2 DEF Differs
  <2> QED BY <2>1, <2>3
<1>6. Same(c, p, q) => Len(p) = Len(q)
  BY DEF Same
<1> HIDE DEF D
<1> QED BY <1>2, <1>3, <1>4, <1>5, <1>6

LEMMA SameSymmetric ==
  ASSUME NEW c, NEW p \in Seq(Comparands), NEW q \in Seq(Comparands), Keyed(p), Keyed(q),
         \A x, y \in Comparands : Eq(c, x, y) = "yes" => Eq(c, y, x) = "yes",
         Same(c, p, q)
  PROVE  Same(c, q, p)
<1> DEFINE a == [j \in Pairs(p) |-> p[2 * j - 1]]
           b == [j \in Pairs(q) |-> q[2 * j - 1]]
<1>1. PICK m \in Nat : m = Len(p) \div 2
  OBVIOUS
<1>2. Pairs(p) = 1 .. m /\ Pairs(q) = 1 .. m /\ Len(p) = Len(q)
  BY <1>1 DEF Pairs, Same
<1>3. \A j \in 1 .. m : a[j] = p[2 * j - 1] /\ b[j] = q[2 * j - 1]
  BY <1>2
<1>4. DOMAIN a = 1 .. m /\ DOMAIN b = 1 .. m /\ IsKeyed(a) /\ IsKeyed(b)
  BY <1>2 DEF Keyed
<1> HIDE DEF a, b
<1>5. Images(a) \subseteq Images(b)
  <2> SUFFICES ASSUME NEW j \in 1 .. m PROVE AsKey(a[j]) \in Images(b)
    BY <1>4 DEF Images
  <2>1. PICK k \in 1 .. m : AsKey(p[2 * j - 1]) = AsKey(q[2 * k - 1])
    BY <1>2 DEF Same, Matches
  <2>2. AsKey(a[j]) = AsKey(b[k])
    BY <1>3, <2>1
  <2> QED BY <1>4, <2>2 DEF Images
<1>6. Images(b) = Images(a)
  BY <1>4, <1>5, Pigeons
<1>7. ASSUME NEW k \in Pairs(q) PROVE \E j \in Pairs(p) : Matches(c, q, p, k, j)
  <2>1. AsKey(b[k]) \in Images(a)
    BY <1>2, <1>4, <1>6, <1>7 DEF Images
  <2>2. PICK j \in 1 .. m : AsKey(b[k]) = AsKey(a[j])
    BY <1>4, <2>1 DEF Images
  <2>3. AsKey(q[2 * k - 1]) = AsKey(p[2 * j - 1])
    BY <1>2, <1>3, <1>7, <2>2
  <2>4. PICK l \in Pairs(q) : Matches(c, p, q, j, l)
    BY <1>2 DEF Same
  <2>5. l = k
    BY <2>3, <2>4, KeysDiffer DEF Matches
  <2>6. p[2 * j] \in Comparands /\ q[2 * k] \in Comparands
    BY <1>2, InPairs
  <2>7. Eq(c, q[2 * k], p[2 * j]) = "yes"
    BY <2>4, <2>5, <2>6 DEF Matches
  <2> QED BY <1>2, <2>3, <2>7 DEF Matches
<1> QED BY <1>2, <1>7 DEF Same

-----------------------------------------------------------------------------
(* What a comparison does, by the types of its operands. *)
Rankable(x, y) == x.t \in Ranked /\ (x.t = y.t \/ {x.t, y.t} = {"int", "float"})
Listed(x, y) == x.t \in {"list", "tuple"} /\ y.t = x.t
OfType(x, y, t) == x.t = t /\ y.t = t
Apart(x, y) == x.t # y.t /\ {x.t, y.t} # {"int", "float"}

LEMMA Kinds ==
  ASSUME NEW x \in Comparands, NEW y \in Comparands
  PROVE  \/ Rankable(x, y) \/ Listed(x, y) \/ OfType(x, y, "set")
         \/ OfType(x, y, "dict") \/ OfType(x, y, "NoneType") \/ Apart(x, y)
<1>1. x.t \in Types /\ y.t \in Types
  BY Typed
<1>2. {x.t, y.t} = {"int", "float"} => x.t \in Ranked
  BY DEF Ranked
<1> QED BY <1>1, <1>2 DEF Rankable, Listed, OfType, Apart, Types, Scalars, Ranked

LEMMA DeepenedIs ==
  ASSUME NEW c, NEW x \in Comparands, NEW y \in Comparands, NEW op \in Operators
  PROVE  /\ Rankable(x, y) => Deepened(c)[op][x][y] = Threeway(op, x.n - y.n)
         /\ Listed(x, y) => Deepened(c)[op][x][y] = SliceCompare(op, x.e, y.e, c)
         /\ OfType(x, y, "set") => Deepened(c)[op][x][y] = SetCompare(op, x.e, y.e)
         /\ OfType(x, y, "dict") =>
              Deepened(c)[op][x][y] =
                IF op = "==" THEN DictsEqual(x.e, y.e, c)
                ELSE IF op = "!=" THEN Negated(DictsEqual(x.e, y.e, c)) ELSE "type"
         /\ OfType(x, y, "NoneType") =>
              Deepened(c)[op][x][y] = IF op \in Equality THEN YesNo(op = "==") ELSE "type"
         /\ Apart(x, y) =>
              Deepened(c)[op][x][y] = IF op \in Equality THEN YesNo(op = "!=") ELSE "type"
<1>1. Deepened(c)[op][x][y] =
        IF x.t = y.t THEN CompareSameType(op, x, y, c)
        ELSE IF {x.t, y.t} = {"int", "float"} THEN Threeway(op, x.n - y.n)
        ELSE IF op \in Equality THEN YesNo(op = "!=") ELSE "type"
  BY DEF Deepened
<1>2. ASSUME x.t = y.t, x.t \in Ranked
      PROVE  CompareSameType(op, x, y, c) = Threeway(op, x.n - y.n)
  BY <1>2 DEF CompareSameType, Ranked
<1>3. ASSUME Listed(x, y)
      PROVE  CompareSameType(op, x, y, c) = SliceCompare(op, x.e, y.e, c)
  BY <1>3 DEF CompareSameType, Ranked, Listed
<1>4. ASSUME x.t = "set"
      PROVE  CompareSameType(op, x, y, c) = SetCompare(op, x.e, y.e)
  BY <1>4 DEF CompareSameType, Ranked
<1>5. ASSUME x.t = "dict"
      PROVE  CompareSameType(op, x, y, c) =
                IF op = "==" THEN DictsEqual(x.e, y.e, c)
                ELSE IF op = "!=" THEN Negated(DictsEqual(x.e, y.e, c)) ELSE "type"
  <2>1. CASE op = "=="
    BY <1>5, <2>1 DEF CompareSameType, Ranked, Equality
  <2>2. CASE op = "!="
    BY <1>5, <2>2 DEF CompareSameType, Ranked, Equality
  <2>3. CASE op \notin Equality
    BY <1>5, <2>3 DEF CompareSameType, Ranked, Equality
  <2> QED BY <2>1, <2>2, <2>3 DEF Equality
<1>6. ASSUME x.t = "NoneType"
      PROVE  CompareSameType(op, x, y, c) = IF op \in Equality THEN YesNo(op = "==") ELSE "type"
  BY <1>6 DEF CompareSameType, Ranked, Equality
<1>7. Rankable(x, y) => x.t \in Ranked /\ (x.t = y.t \/ (x.t # y.t /\ {x.t, y.t} = {"int", "float"}))
  BY DEF Rankable
<1>8. Rankable(x, y) => Deepened(c)[op][x][y] = Threeway(op, x.n - y.n)
  BY <1>1, <1>2, <1>7
<1>9. Listed(x, y) => Deepened(c)[op][x][y] = SliceCompare(op, x.e, y.e, c)
  BY <1>1, <1>3 DEF Listed
<1>10. OfType(x, y, "set") => Deepened(c)[op][x][y] = SetCompare(op, x.e, y.e)
  BY <1>1, <1>4 DEF OfType
<1>11. OfType(x, y, "dict") =>
         Deepened(c)[op][x][y] =
           IF op = "==" THEN DictsEqual(x.e, y.e, c)
           ELSE IF op = "!=" THEN Negated(DictsEqual(x.e, y.e, c)) ELSE "type"
  BY <1>1, <1>5 DEF OfType
<1>12. OfType(x, y, "NoneType") =>
         Deepened(c)[op][x][y] = IF op \in Equality THEN YesNo(op = "==") ELSE "type"
  BY <1>1, <1>6 DEF OfType
<1>13. Apart(x, y) => Deepened(c)[op][x][y] = IF op \in Equality THEN YesNo(op = "!=") ELSE "type"
  BY <1>1 DEF Apart
<1> QED BY <1>8, <1>9, <1>10, <1>11, <1>12, <1>13

LEMMA KeyedIs ==
  ASSUME NEW x \in Comparands
  PROVE  (x.t = "set" => IsKeyed(x.e)) /\ (x.t = "dict" => Keyed(x.e))
BY Typed DEF Keyed

(* Equality, which never fails for want of an order. *)
Answered(c) == c \in Comparisons /\ \A x, y \in Comparands : Eq(c, x, y) # "type"
EqualHere(c, x, y) ==
  \/ Rankable(x, y) /\ x.n = y.n
  \/ Listed(x, y) /\ Len(x.e) = Len(y.e) /\ AllEqual(c, x.e, y.e)
  \/ OfType(x, y, "set") /\ Images(x.e) = Images(y.e)
  \/ OfType(x, y, "dict") /\ Same(c, x.e, y.e)
  \/ OfType(x, y, "NoneType")

LEMMA Answering == {"==", "!=", "<", "<=", ">", ">="} \subseteq Operators /\ Equality \subseteq Operators
BY DEF Operators, Equality

LEMMA NoneBoth ==
  ASSUME NEW x, NEW y
  PROVE  /\ Rankable(x, y) => ~Listed(x, y) /\ ~Apart(x, y)
                              /\ \A t \in {"set", "dict", "NoneType"} : ~OfType(x, y, t)
         /\ Listed(x, y) => ~Apart(x, y) /\ \A t \in {"set", "dict", "NoneType"} : ~OfType(x, y, t)
         /\ \A t : OfType(x, y, t) => ~Apart(x, y)
         /\ \A s, t : OfType(x, y, t) /\ OfType(x, y, s) => s = t
BY DEF Rankable, Listed, OfType, Apart, Ranked

LEMMA EqualIs ==
  ASSUME NEW c, NEW x \in Comparands, NEW y \in Comparands, Answered(c)
  PROVE  /\ Eq(Deepened(c), x, y) = "yes" <=> EqualHere(c, x, y)
         /\ Eq(Deepened(c), x, y) \in {"yes", "no", "depth"}
         /\ Deepened(c)["!="][x][y] = Negated(Eq(Deepened(c), x, y))
<1> DEFINE r == Eq(Deepened(c), x, y)
           s == Deepened(c)["!="][x][y]
           Goal == (r = "yes" <=> EqualHere(c, x, y)) /\ r \in {"yes", "no", "depth"} /\ s = Negated(r)
<1> SUFFICES Goal
  OBVIOUS
<1>1. r = Deepened(c)["=="][x][y]
  BY DEF Eq
<1>2. x.n \in Int /\ y.n \in Int /\ x.e \in Seq(Comparands) /\ y.e \in Seq(Comparands)
  BY Typed
<1> HIDE DEF r, s
<1>3. CASE Rankable(x, y)
  <2>1. r = Threeway("==", x.n - y.n) /\ s = Threeway("!=", x.n - y.n)
    BY <1>1, <1>3, DeepenedIs, Answering DEF s
  <2>2. r = YesNo(x.n - y.n = 0) /\ s = YesNo(x.n - y.n # 0)
    BY <1>2, <2>1, ThreewayIs
  <2>3. EqualHere(c, x, y) <=> x.n = y.n
    BY <1>3, NoneBoth DEF EqualHere
  <2>4. x.n - y.n = 0 <=> x.n = y.n
    BY <1>2
  <2> QED BY <2>2, <2>3, <2>4 DEF YesNo, Negated
<1>4. CASE Listed(x, y)
  <2>1. r = SliceCompare("==", x.e, y.e, c) /\ s = SliceCompare("!=", x.e, y.e, c)
    BY <1>1, <1>4, DeepenedIs, Answering DEF s
  <2>2. EqualHere(c, x, y) <=> Len(x.e) = Len(y.e) /\ AllEqual(c, x.e, y.e)
    BY <1>4, NoneBoth DEF EqualHere
  <2>3. CASE AllEqual(c, x.e, y.e)
    <3>1. r = Threeway("==", Len(x.e) - Len(y.e)) /\ s = Threeway("!=", Len(x.e) - Len(y.e))
      BY <1>2, <2>1, <2>3, SliceEqual, Answering
    <3>2. Len(x.e) - Len(y.e) \in Int /\ (Len(x.e) - Len(y.e) = 0 <=> Len(x.e) = Len(y.e))
      BY <1>2
    <3>3. r = YesNo(Len(x.e) - Len(y.e) = 0) /\ s = YesNo(Len(x.e) - Len(y.e) # 0)
      BY <3>1, <3>2, ThreewayIs
    <3> QED BY <2>2, <2>3, <3>2, <3>3 DEF YesNo, Negated
  <2>4. ASSUME NEW i \in Both(x.e, y.e), Decides(c, x.e, y.e, i) PROVE Goal
    <3> DEFINE e == Eq(c, x.e[i], y.e[i])
    <3>1. e # "yes" /\ ~AllEqual(c, x.e, y.e)
      BY <2>4 DEF Decides, AllEqual
    <3>2. e \in {"no", "depth"}
      <4>1. x.e[i] \in Comparands /\ y.e[i] \in Comparands
        BY <1>2, BothIs
      <4>2. e \in Answers /\ e # "type"
        BY <4>1, AnswersAre, Answering DEF Eq, Answered
      <4> QED BY <3>1, <4>2 DEF Answers, Failures
    <3>3. /\ r = IF Len(x.e) # Len(y.e) THEN "no" ELSE e
          /\ s = IF Len(x.e) # Len(y.e) THEN "yes" ELSE Negated(e)
      <4> HIDE DEF e
      <4>1. ASSUME NEW op \in {"==", "!="}
            PROVE  SliceCompare(op, x.e, y.e, c) =
                     IF Len(x.e) # Len(y.e) THEN YesNo(op = "!=")
                     ELSE IF e \in Failures THEN e ELSE YesNo(op = "!=")
        <5>1. op \in Operators /\ op \in Equality
          BY DEF Operators, Equality
        <5>2. /\ Len(x.e) # Len(y.e) => SliceCompare(op, x.e, y.e, c) = YesNo(op = "!=")
              /\ Len(x.e) = Len(y.e) => SliceCompare(op, x.e, y.e, c) = Decision(op, c, x.e, y.e, i)
          BY <1>2, <2>4, <5>1, SliceDecided, SliceUneven
        <5>3. Decision(op, c, x.e, y.e, i) = IF e \in Failures THEN e ELSE YesNo(op = "!=")
          BY <5>1 DEF Decision, e
        <5> QED BY <5>2, <5>3
      <4> QED BY <2>1, <3>2, <4>1 DEF YesNo, Negated, Failures
    <3> HIDE DEF e
    <3> QED BY <2>2, <3>1, <3>2, <3>3 DEF Negated
  <2>5. AllEqual(c, x.e, y.e) \/ \E i \in Both(x.e, y.e) : Decides(c, x.e, y.e, i)
    BY <1>2, SliceCases
  <2> HIDE DEF Goal
  <2> QED BY <2>3, <2>4, <2>5
<1>5. CASE OfType(x, y, "set")
  <2>1. r = SetCompare("==", x.e, y.e) /\ s = SetCompare("!=", x.e, y.e)
    BY <1>1, <1>5, DeepenedIs, Answering DEF s
  <2>2. r = YesNo(Images(x.e) = Images(y.e)) /\ s = YesNo(Images(x.e) # Images(y.e))
    BY <1>2, <1>5, <2>1, SetIs, KeyedIs DEF OfType
  <2>3. EqualHere(c, x, y) <=> Images(x.e) = Images(y.e)
    BY <1>5, NoneBoth DEF EqualHere
  <2> QED BY <2>2, <2>3 DEF YesNo, Negated
<1>6. CASE OfType(x, y, "dict")
  <2> DEFINE d == DictsEqual(x.e, y.e, c)
  <2>1. r = d /\ s = Negated(d)
    BY <1>1, <1>6, DeepenedIs, Answering DEF s
  <2>2. EqualHere(c, x, y) <=> Same(c, x.e, y.e)
    BY <1>6, NoneBoth DEF EqualHere
  <2>3. Keyed(x.e) /\ Keyed(y.e)
    BY <1>6, KeyedIs DEF OfType
  <2>4. (d = "yes" <=> Same(c, x.e, y.e)) /\ d \in {"yes", "no", "depth"}
    <3>1. CASE Len(x.e) # Len(y.e)
      BY <1>2, <2>3, <3>1, DictCases DEF Same
    <3>2. CASE Same(c, x.e, y.e)
      BY <1>2, <2>3, <3>2, DictCases
    <3>3. CASE Len(x.e) = Len(y.e) /\ ~Same(c, x.e, y.e)
      <4>1. PICK j \in Pairs(x.e) : Differs(c, x.e, y.e, j)
        BY <1>2, <2>3, <3>3, DictCases
      <4>2. d = IF ~Found(x.e, y.e, j) THEN "no" ELSE Verdict(c, x.e, y.e, j)
        BY <1>2, <2>3, <3>3, <4>1, DictCases
      <4>3. Found(x.e, y.e, j) => Verdict(c, x.e, y.e, j) \in {"no", "depth"}
        <5> SUFFICES ASSUME Found(x.e, y.e, j) PROVE Verdict(c, x.e, y.e, j) \in {"no", "depth"}
          OBVIOUS
        <5>1. PICK k \in Pairs(y.e) : AsKey(x.e[2 * j - 1]) = AsKey(y.e[2 * k - 1])
          BY FoundKey
        <5>2. Verdict(c, x.e, y.e, j) = Eq(c, x.e[2 * j], y.e[2 * k])
          BY <2>3, <5>1, FoundIs
        <5>3. x.e[2 * j] \in Comparands /\ y.e[2 * k] \in Comparands
          BY <1>2, InPairs
        <5>4. Verdict(c, x.e, y.e, j) \in Answers /\ Verdict(c, x.e, y.e, j) # "type"
          BY <5>2, <5>3, AnswersAre, Answering DEF Eq, Answered
        <5>5. Verdict(c, x.e, y.e, j) # "yes"
          BY <4>1 DEF Differs
        <5> QED BY <5>4, <5>5 DEF Answers, Failures
      <4> QED BY <3>3, <4>2, <4>3
    <3> QED BY <3>1, <3>2, <3>3
  <2> HIDE DEF d
  <2> QED BY <2>1, <2>2, <2>4
<1>7. CASE OfType(x, y, "NoneType")
  <2>1. r = YesNo("==" = "==")
    BY <1>1, <1>7, DeepenedIs, Answering DEF Equality
  <2>2. s = YesNo("!=" = "==")
    BY <1>7, DeepenedIs, Answering DEF s, Equality
  <2> HIDE DEF r, s
  <2>3. r = "yes" /\ s = "no"
    BY <2>1, <2>2, Zenon DEF YesNo
  <2> QED BY <1>7, <2>3 DEF EqualHere, Negated
<1>8. CASE Apart(x, y)
  <2>1. r = YesNo("==" = "!=")
    <3>1. Deepened(c)["=="][x][y] = IF "==" \in Equality THEN YesNo("==" = "!=") ELSE "type"
      BY <1>8, DeepenedIs, Answering
    <3> QED BY <1>1, <3>1, Answering DEF Equality
  <2>2. s = YesNo("!=" = "!=")
    BY <1>8, DeepenedIs, Answering DEF s, Equality
  <2> HIDE DEF r, s
  <2>3. r = "no" /\ s = "yes"
    BY <2>1, <2>2 DEF YesNo
  <2>4. ~EqualHere(c, x, y)
    BY <1>8, NoneBoth DEF EqualHere
  <2> QED BY <2>3, <2>4 DEF Negated
<1> HIDE DEF Goal
<1> QED BY <1>3, <1>4, <1>5, <1>6, <1>7, <1>8, Kinds

-----------------------------------------------------------------------------
(* Order, by the types of the operands. *)
Orders == {"<", "<=", ">", ">="}

LEMMA OrderRanked ==
  ASSUME NEW c, NEW x \in Comparands, NEW y \in Comparands, NEW op \in Orders, Rankable(x, y)
  PROVE  Deepened(c)[op][x][y] = Threeway(op, x.n - y.n)
BY DeepenedIs DEF Orders, Operators

LEMMA OrderSets ==
  ASSUME NEW c, NEW x \in Comparands, NEW y \in Comparands, NEW op \in Orders, OfType(x, y, "set")
  PROVE  Deepened(c)[op][x][y] = SetCompare(op, x.e, y.e)
BY DeepenedIs DEF Orders, Operators

LEMMA OrderEqual ==
  ASSUME NEW c, NEW x \in Comparands, NEW y \in Comparands, NEW op \in Orders,
         Listed(x, y), AllEqual(c, x.e, y.e)
  PROVE  Deepened(c)[op][x][y] = Threeway(op, Len(x.e) - Len(y.e))
<1>1. op \in Operators /\ x.e \in Seq(Comparands) /\ y.e \in Seq(Comparands)
  BY Typed DEF Orders, Operators
<1>2. Deepened(c)[op][x][y] = SliceCompare(op, x.e, y.e, c)
  BY <1>1, DeepenedIs
<1>3. \A p, q \in Seq(Comparands) :
        AllEqual(c, p, q) => SliceCompare(op, p, q, c) = Threeway(op, Len(p) - Len(q))
  BY <1>1, SliceEqual
<1> QED BY <1>1, <1>2, <1>3, Zenon

LEMMA OrderDecided ==
  ASSUME NEW c, NEW x \in Comparands, NEW y \in Comparands, NEW op \in Orders, NEW i,
         Answered(c), Listed(x, y), Decides(c, x.e, y.e, i)
  PROVE  Deepened(c)[op][x][y] =
           IF Eq(c, x.e[i], y.e[i]) = "depth" THEN "depth" ELSE c[op][x.e[i]][y.e[i]]
<1>1. op \in Operators /\ op \notin Equality /\ x.e \in Seq(Comparands) /\ y.e \in Seq(Comparands)
  BY Typed DEF Orders, Operators, Equality
<1>2. Deepened(c)[op][x][y] = SliceCompare(op, x.e, y.e, c)
  BY <1>1, DeepenedIs
<1>3. SliceCompare(op, x.e, y.e, c) = Decision(op, c, x.e, y.e, i)
  BY <1>1, SliceDecided
<1>4. x.e[i] \in Comparands /\ y.e[i] \in Comparands
  BY <1>1, BothIs DEF Decides
<1>5. Eq(c, x.e[i], y.e[i]) \in Failures <=> Eq(c, x.e[i], y.e[i]) = "depth"
  BY <1>4 DEF Answered, Failures
<1>6. Decision(op, c, x.e, y.e, i) =
        IF Eq(c, x.e[i], y.e[i]) = "depth" THEN "depth" ELSE c[op][x.e[i]][y.e[i]]
  BY <1>1, <1>5 DEF Decision
<1> QED BY <1>2, <1>3, <1>6

LEMMA OrderNone ==
  ASSUME NEW c, NEW x \in Comparands, NEW y \in Comparands, NEW op \in Orders,
         ~Rankable(x, y), ~Listed(x, y), ~OfType(x, y, "set")
  PROVE  Deepened(c)[op][x][y] = "type"
<1>1. op \in Operators /\ op \notin Equality /\ op # "==" /\ op # "!="
  BY DEF Orders, Operators, Equality
<1>2. OfType(x, y, "dict") \/ OfType(x, y, "NoneType") \/ Apart(x, y)
  BY Kinds
<1> QED BY <1>1, <1>2, DeepenedIs

LEMMA EqualListed ==
  ASSUME NEW c, NEW x \in Comparands, NEW y \in Comparands, Answered(c), Listed(x, y)
  PROVE  /\ Len(x.e) # Len(y.e) => Eq(Deepened(c), x, y) = "no"
         /\ \A i : Decides(c, x.e, y.e, i) /\ Len(x.e) = Len(y.e) =>
              Eq(Deepened(c), x, y) = Eq(c, x.e[i], y.e[i])
<1>0. x.e \in Seq(Comparands) /\ y.e \in Seq(Comparands)
  BY Typed
<1>1. x.e \in Seq(Comparands) /\ y.e \in Seq(Comparands) /\ "==" \in Operators /\ "==" \in Equality
  BY <1>0 DEF Operators, Equality
<1>2. Eq(Deepened(c), x, y) = SliceCompare("==", x.e, y.e, c)
  <2>1. Deepened(c)["=="][x][y] = SliceCompare("==", x.e, y.e, c)
    BY <1>1, DeepenedIs
  <2> QED BY <2>1 DEF Eq
<1>3. ASSUME Len(x.e) # Len(y.e) PROVE SliceCompare("==", x.e, y.e, c) = "no"
  <2>1. SliceCompare("==", x.e, y.e, c) = YesNo("==" = "!=")
    BY <1>1, <1>3, SliceUneven
  <2> QED BY <2>1 DEF YesNo
<1>4. ASSUME NEW i, Decides(c, x.e, y.e, i), Len(x.e) = Len(y.e)
      PROVE  SliceCompare("==", x.e, y.e, c) = Eq(c, x.e[i], y.e[i])
  <2> DEFINE e == Eq(c, x.e[i], y.e[i])
  <2>1. SliceCompare("==", x.e, y.e, c) = IF e \in Failures THEN e ELSE YesNo("==" = "!=")
    <3>1. SliceCompare("==", x.e, y.e, c) = Decision("==", c, x.e, y.e, i)
      BY <1>1, <1>4, SliceDecided
    <3> QED BY <1>1, <3>1 DEF Decision
  <2>2. x.e[i] \in Comparands /\ y.e[i] \in Comparands
    BY <1>1, <1>4, BothIs DEF Decides
  <2>3. e \in Answers /\ e # "yes"
    BY <1>4, <2>2, AnswersAre, Answering DEF Decides, Eq, Answered
  <2> HIDE DEF e
  <2>4. SliceCompare("==", x.e, y.e, c) = e
    BY <2>1, <2>3 DEF Answers, Failures, YesNo
  <2> QED BY <2>4 DEF e
<1> QED BY <1>2, <1>3, <1>4

(* The first sequence is less than the second. *)
Precedes(c, p, q) ==
  \E i \in Nat :
    /\ i <= Len(p) /\ i < Len(q) /\ \A j \in 1 .. i : Eq(c, p[j], q[j]) = "yes"
    /\ i = Len(p) \/ Lt(c, p[i + 1], q[i + 1]) = "yes"
LessHere(c, x, y) ==
  \/ Rankable(x, y) /\ x.n < y.n
  \/ Listed(x, y) /\ Precedes(c, x.e, y.e)
  \/ OfType(x, y, "set") /\ Images(x.e) \subseteq Images(y.e) /\ Images(x.e) # Images(y.e)
Sharp(c) == \A x, y \in Comparands : Lt(c, x, y) = "yes" => Eq(c, x, y) = "no"

LEMMA PrecedesAt ==
  ASSUME NEW c, NEW p \in Seq(Comparands), NEW q \in Seq(Comparands), Sharp(c), Precedes(c, p, q)
  PROVE  \/ AllEqual(c, p, q) /\ Len(p) < Len(q)
         \/ \E i \in Both(p, q) : /\ Decides(c, p, q, i) /\ Eq(c, p[i], q[i]) = "no"
                                  /\ Lt(c, p[i], q[i]) = "yes"
<1>1. PICK i \in Nat : /\ i <= Len(p) /\ i < Len(q) /\ \A j \in 1 .. i : Eq(c, p[j], q[j]) = "yes"
                       /\ i = Len(p) \/ Lt(c, p[i + 1], q[i + 1]) = "yes"
  BY DEF Precedes
<1>2. CASE i = Len(p)
  <2>1. \A j \in Both(p, q) : j \in 1 .. i
    BY <1>2, BothIs
  <2> QED BY <1>1, <1>2, <2>1 DEF AllEqual
<1>3. CASE i # Len(p)
  <2>1. PICK k \in Nat : k = i + 1
    OBVIOUS
  <2>2. k \in Both(p, q) /\ 1 .. k - 1 = 1 .. i
    <3>1. Len(p) \in Nat /\ Len(q) \in Nat
      OBVIOUS
    <3>2. 1 <= k /\ k <= Len(p) /\ k <= Len(q) /\ k - 1 = i
      BY <1>1, <1>3, <2>1, <3>1
    <3> QED BY <3>2, BothIs
  <2>3. Lt(c, p[k], q[k]) = "yes"
    BY <1>1, <1>3, <2>1
  <2>4. Eq(c, p[k], q[k]) = "no"
    BY <2>2, <2>3, BothIs DEF Sharp
  <2>5. Decides(c, p, q, k)
    BY <1>1, <2>2, <2>4 DEF Decides
  <2> QED BY <2>2, <2>3, <2>4, <2>5
<1> QED BY <1>2, <1>3

LEMMA AtPrecedes ==
  ASSUME NEW c, NEW p \in Seq(Comparands), NEW q \in Seq(Comparands),
         \/ AllEqual(c, p, q) /\ Len(p) < Len(q)
         \/ \E i \in Both(p, q) : Decides(c, p, q, i) /\ Lt(c, p[i], q[i]) = "yes"
  PROVE  Precedes(c, p, q)
<1>0. Len(p) \in Nat /\ Len(q) \in Nat
  OBVIOUS
<1>1. CASE AllEqual(c, p, q) /\ Len(p) < Len(q)
  <2>1. \A j \in 1 .. Len(p) : j \in Both(p, q)
    BY <1>0, <1>1, BothIs
  <2> QED BY <1>0, <1>1, <2>1 DEF AllEqual, Precedes
<1>2. ASSUME NEW i \in Both(p, q), Decides(c, p, q, i), Lt(c, p[i], q[i]) = "yes"
      PROVE  Precedes(c, p, q)
  <2>1. PICK k \in Nat : k = i - 1 /\ k + 1 = i /\ k < Len(p) /\ k < Len(q)
    BY <1>0, BothIs
  <2>2. \A j \in 1 .. k : Eq(c, p[j], q[j]) = "yes"
    BY <1>2, <2>1 DEF Decides
  <2>3. Lt(c, p[k + 1], q[k + 1]) = "yes" /\ k <= Len(p)
    BY <1>0, <1>2, <2>1
  <2> QED BY <2>1, <2>2, <2>3 DEF Precedes
<1> QED BY <1>1, <1>2

LEMMA LessIs ==
  ASSUME NEW c, NEW x \in Comparands, NEW y \in Comparands, Answered(c), Sharp(c)
  PROVE  /\ Lt(Deepened(c), x, y) = "yes" <=> LessHere(c, x, y)
         /\ LessHere(c, x, y) => Eq(Deepened(c), x, y) = "no"
<1> DEFINE r == Lt(Deepened(c), x, y)
           e == Eq(Deepened(c), x, y)
           Goal == (r = "yes" <=> LessHere(c, x, y)) /\ (LessHere(c, x, y) => e = "no")
<1> SUFFICES Goal
  OBVIOUS
<1>1. /\ r = Deepened(c)["<"][x][y] /\ e = Deepened(c)["=="][x][y]
      /\ "<" \in Orders /\ "==" \in Operators
  BY Answering DEF Eq, Lt, Orders
<1> HIDE DEF r, e
<1>2. x.n \in Int /\ y.n \in Int /\ x.e \in Seq(Comparands) /\ y.e \in Seq(Comparands)
  BY Typed
<1>3. CASE Rankable(x, y)
  <2>1. r = Threeway("<", x.n - y.n) /\ e = Threeway("==", x.n - y.n)
    <3>1. Deepened(c)["<"][x][y] = Threeway("<", x.n - y.n)
      BY <1>1, <1>3, OrderRanked
    <3>2. Deepened(c)["=="][x][y] = Threeway("==", x.n - y.n)
      BY <1>1, <1>3, DeepenedIs
    <3> QED BY <1>1, <3>1, <3>2
  <2>2. r = YesNo(x.n - y.n < 0) /\ e = YesNo(x.n - y.n = 0)
    BY <1>2, <2>1, ThreewayIs
  <2>3. LessHere(c, x, y) <=> x.n < y.n
    BY <1>3, NoneBoth DEF LessHere
  <2>4. (x.n - y.n < 0 <=> x.n < y.n) /\ (x.n < y.n => x.n - y.n # 0)
    BY <1>2
  <2> QED BY <2>2, <2>3, <2>4 DEF YesNo
<1>4. CASE Listed(x, y)
  <2>1. LessHere(c, x, y) <=> Precedes(c, x.e, y.e)
    BY <1>4, NoneBoth DEF LessHere
  <2>2. CASE AllEqual(c, x.e, y.e)
    <3>1. r = Threeway("<", Len(x.e) - Len(y.e))
      <4>1. Deepened(c)["<"][x][y] = Threeway("<", Len(x.e) - Len(y.e))
        BY <1>1, <1>4, <2>2, OrderEqual
      <4> QED BY <1>1, <4>1
    <3>2. Len(x.e) - Len(y.e) \in Int /\ (Len(x.e) - Len(y.e) < 0 <=> Len(x.e) < Len(y.e))
      <4>1. \A m, n \in Nat : m - n \in Int /\ (m - n < 0 <=> m < n)
        OBVIOUS
      <4>2. Len(x.e) \in Nat /\ Len(y.e) \in Nat
        BY <1>2
      <4> QED BY <4>1, <4>2, Zenon
    <3>3. r = YesNo(Len(x.e) - Len(y.e) < 0)
      BY <3>1, <3>2, ThreewayIs
    <3>4. r = "yes" <=> Len(x.e) < Len(y.e)
      BY <3>2, <3>3 DEF YesNo
    <3>5. Precedes(c, x.e, y.e) <=> Len(x.e) < Len(y.e)
      <4>1. ~\E i \in Both(x.e, y.e) : Decides(c, x.e, y.e, i)
        BY <2>2 DEF AllEqual, Decides
      <4> QED BY <1>2, <2>2, <4>1, PrecedesAt, AtPrecedes
    <3>6. Len(x.e) < Len(y.e) => e = "no"
      <4>1. Len(x.e) < Len(y.e) => Len(x.e) # Len(y.e)
        BY <1>2
      <4> QED BY <1>4, <4>1, EqualListed DEF e
    <3> QED BY <2>1, <3>4, <3>5, <3>6
  <2>3. ASSUME NEW i \in Both(x.e, y.e), Decides(c, x.e, y.e, i) PROVE Goal
    <3>1. r = IF Eq(c, x.e[i], y.e[i]) = "depth" THEN "depth" ELSE Lt(c, x.e[i], y.e[i])
      <4>1. Deepened(c)["<"][x][y] =
              IF Eq(c, x.e[i], y.e[i]) = "depth" THEN "depth" ELSE c["<"][x.e[i]][y.e[i]]
        BY <1>1, <1>4, <2>3, OrderDecided
      <4> QED BY <1>1, <4>1 DEF Lt
    <3>2. x.e[i] \in Comparands /\ y.e[i] \in Comparands
      BY <1>2, BothIs
    <3>3. Lt(c, x.e[i], y.e[i]) = "yes" => Eq(c, x.e[i], y.e[i]) = "no"
      BY <3>2 DEF Sharp
    <3>4. ASSUME Precedes(c, x.e, y.e) PROVE r = "yes" /\ e = "no"
      <4>1. ~AllEqual(c, x.e, y.e)
        BY <2>3 DEF AllEqual, Decides
      <4>2. PICK k \in Both(x.e, y.e) : /\ Decides(c, x.e, y.e, k) /\ Eq(c, x.e[k], y.e[k]) = "no"
                                        /\ Lt(c, x.e[k], y.e[k]) = "yes"
        BY <1>2, <3>4, <4>1, PrecedesAt
      <4>3. r = Lt(c, x.e[k], y.e[k])
        <5>1. Deepened(c)["<"][x][y] =
                IF Eq(c, x.e[k], y.e[k]) = "depth" THEN "depth" ELSE c["<"][x.e[k]][y.e[k]]
          BY <1>1, <1>4, <4>2, OrderDecided
        <5> QED BY <1>1, <4>2, <5>1 DEF Lt
      <4>5. Len(x.e) = Len(y.e) \/ Len(x.e) # Len(y.e)
        OBVIOUS
      <4>4. e = "no"
        BY <1>2, <1>4, <4>2, <4>5, EqualListed DEF e
      <4> QED BY <4>2, <4>3, <4>4
    <3>5. ASSUME r = "yes" PROVE Precedes(c, x.e, y.e)
      <4>1. Lt(c, x.e[i], y.e[i]) = "yes"
        BY <3>1, <3>5
      <4> QED BY <1>2, <2>3, <4>1, AtPrecedes
    <3> QED BY <2>1, <3>4, <3>5
  <2>4. AllEqual(c, x.e, y.e) \/ \E i \in Both(x.e, y.e) : Decides(c, x.e, y.e, i)
    BY <1>2, SliceCases
  <2> HIDE DEF Goal
  <2> QED BY <2>2, <2>3, <2>4
<1>5. CASE OfType(x, y, "set")
  <2>1. r = SetCompare("<", x.e, y.e) /\ e = SetCompare("==", x.e, y.e)
    <3>1. Deepened(c)["<"][x][y] = SetCompare("<", x.e, y.e)
      BY <1>1, <1>5, OrderSets
    <3>2. Deepened(c)["=="][x][y] = SetCompare("==", x.e, y.e)
      BY <1>1, <1>5, DeepenedIs
    <3> QED BY <1>1, <3>1, <3>2
  <2>2. r = YesNo(Images(x.e) \subseteq Images(y.e) /\ Images(x.e) # Images(y.e))
        /\ e = YesNo(Images(x.e) = Images(y.e))
    BY <1>2, <1>5, <2>1, SetIs, KeyedIs DEF OfType
  <2>3. LessHere(c, x, y) <=> Images(x.e) \subseteq Images(y.e) /\ Images(x.e) # Images(y.e)
    BY <1>5, NoneBoth DEF LessHere
  <2> QED BY <2>2, <2>3 DEF YesNo
<1>6. CASE ~Rankable(x, y) /\ ~Listed(x, y) /\ ~OfType(x, y, "set")
  <2>1. r = "type"
    <3>1. Deepened(c)["<"][x][y] = "type"
      BY <1>1, <1>6, OrderNone
    <3> QED BY <1>1, <3>1
  <2>2. ~LessHere(c, x, y)
    BY <1>6 DEF LessHere
  <2> QED BY <2>1, <2>2
<1> HIDE DEF Goal
<1> QED BY <1>3, <1>4, <1>5, <1>6

-----------------------------------------------------------------------------
(* The laws of the answer "yes". *)
Symmetric(c) == \A x, y \in Comparands : Eq(c, x, y) = "yes" => Eq(c, y, x) = "yes"
Transitive(c) ==
  \A x, y, z \in Comparands : Eq(c, x, y) = "yes" /\ Eq(c, y, z) = "yes" => Eq(c, x, z) = "yes"
RightCongruent(c) ==
  \A x, y, z \in Comparands : Lt(c, x, y) = "yes" /\ Eq(c, y, z) = "yes" => Lt(c, x, z) = "yes"
LeftCongruent(c) ==
  \A x, y, z \in Comparands : Eq(c, x, y) = "yes" /\ Lt(c, y, z) = "yes" => Lt(c, x, z) = "yes"
Chained(c) ==
  \A x, y, z \in Comparands : Lt(c, x, y) = "yes" /\ Lt(c, y, z) = "yes" => Lt(c, x, z) = "yes"

LEMMA RankableIs ==
  ASSUME NEW x, NEW y
  PROVE  Rankable(x, y) <=> \/ x.t \in {"int", "float"} /\ y.t \in {"int", "float"}
                            \/ x.t = "bool" /\ y.t = "bool"
                            \/ x.t = "string" /\ y.t = "string"
<1>1. {x.t, y.t} = {"int", "float"} <=> \/ x.t = "int" /\ y.t = "float"
                                        \/ x.t = "float" /\ y.t = "int"
  OBVIOUS
<1>2. Rankable(x, y) <=> \/ x.t \in {"int", "float"} /\ y.t \in {"int", "float"}
                         \/ x.t = "bool" /\ y.t = "bool"
                         \/ x.t = "string" /\ y.t = "string"
  BY <1>1 DEF Rankable, Ranked
<1> QED BY <1>2

LEMMA RankableSymmetric == ASSUME NEW x, NEW y, Rankable(x, y) PROVE Rankable(y, x)
BY RankableIs

(* Of values compared with a third, and what kind they are together. *)
LEMMA KindsMeet ==
  ASSUME NEW x, NEW y, NEW z
  PROVE  /\ Rankable(x, y) => ~Listed(y, z) /\ ~OfType(y, z, "set") /\ ~OfType(y, z, "dict")
                              /\ ~OfType(y, z, "NoneType")
         /\ Listed(x, y) => ~Rankable(y, z) /\ ~OfType(y, z, "set") /\ ~OfType(y, z, "dict")
                            /\ ~OfType(y, z, "NoneType")
         /\ OfType(x, y, "set") => ~Rankable(y, z) /\ ~Listed(y, z) /\ ~OfType(y, z, "dict")
                                   /\ ~OfType(y, z, "NoneType")
         /\ OfType(x, y, "dict") => ~Rankable(y, z) /\ ~Listed(y, z) /\ ~OfType(y, z, "set")
                                   /\ ~OfType(y, z, "NoneType")
         /\ OfType(x, y, "NoneType") => ~Rankable(y, z) /\ ~Listed(y, z) /\ ~OfType(y, z, "set")
                                   /\ ~OfType(y, z, "dict")
         /\ Rankable(x, y) /\ Rankable(y, z) => Rankable(x, z)
         /\ Listed(x, y) /\ Listed(y, z) => Listed(x, z)
         /\ \A t : OfType(x, y, t) /\ OfType(y, z, t) => OfType(x, z, t)
BY RankableIs DEF Listed, OfType

LEMMA EqualSymmetric ==
  ASSUME NEW c, Answered(c), Symmetric(c)
  PROVE  Symmetric(Deepened(c))
<1> SUFFICES ASSUME NEW x \in Comparands, NEW y \in Comparands, EqualHere(c, x, y)
             PROVE  EqualHere(c, y, x)
  BY EqualIs DEF Symmetric
<1>1. x.n \in Int /\ y.n \in Int /\ x.e \in Seq(Comparands) /\ y.e \in Seq(Comparands)
  BY Typed
<1>2. CASE Rankable(x, y) /\ x.n = y.n
  BY <1>2, RankableSymmetric DEF EqualHere
<1>3. CASE Listed(x, y) /\ Len(x.e) = Len(y.e) /\ AllEqual(c, x.e, y.e)
  <2>1. Listed(y, x) /\ Both(y.e, x.e) = Both(x.e, y.e)
    BY <1>3 DEF Listed, Both
  <2>2. AllEqual(c, y.e, x.e)
    <3> SUFFICES ASSUME NEW i \in Both(x.e, y.e) PROVE Eq(c, y.e[i], x.e[i]) = "yes"
      BY <2>1 DEF AllEqual
    <3>1. x.e[i] \in Comparands /\ y.e[i] \in Comparands
      BY <1>1, BothIs
    <3> QED BY <1>3, <3>1 DEF AllEqual, Symmetric
  <2> QED BY <1>3, <2>1, <2>2 DEF EqualHere
<1>4. CASE OfType(x, y, "set") /\ Images(x.e) = Images(y.e)
  BY <1>4 DEF OfType, EqualHere
<1>5. CASE OfType(x, y, "dict") /\ Same(c, x.e, y.e)
  <2>1. Keyed(x.e) /\ Keyed(y.e)
    BY <1>5, KeyedIs DEF OfType
  <2>2. Same(c, y.e, x.e)
    BY <1>1, <1>5, <2>1, SameSymmetric DEF Symmetric
  <2> QED BY <1>5, <2>2 DEF OfType, EqualHere
<1>6. CASE OfType(x, y, "NoneType")
  BY <1>6 DEF OfType, EqualHere
<1> QED BY <1>2, <1>3, <1>4, <1>5, <1>6 DEF EqualHere

LEMMA AllTransitive ==
  ASSUME NEW c, NEW p \in Seq(Comparands), NEW q \in Seq(Comparands), NEW s \in Seq(Comparands),
         NEW i \in Nat, Transitive(c), i <= Len(p), i <= Len(q), i <= Len(s),
         \A j \in 1 .. i : Eq(c, p[j], q[j]) = "yes", \A j \in 1 .. i : Eq(c, q[j], s[j]) = "yes"
  PROVE  \A j \in 1 .. i : Eq(c, p[j], s[j]) = "yes"
<1> SUFFICES ASSUME NEW j \in 1 .. i PROVE Eq(c, p[j], s[j]) = "yes"
  OBVIOUS
<1>1. j \in 1 .. Len(p) /\ j \in 1 .. Len(q) /\ j \in 1 .. Len(s)
  OBVIOUS
<1>2. p[j] \in Comparands /\ q[j] \in Comparands /\ s[j] \in Comparands
  BY <1>1
<1> QED BY <1>2 DEF Transitive

LEMMA AllIs ==
  ASSUME NEW c, NEW p \in Seq(Comparands), NEW q \in Seq(Comparands), Len(p) = Len(q)
  PROVE  AllEqual(c, p, q) <=> \A j \in 1 .. Len(p) : Eq(c, p[j], q[j]) = "yes"
<1>1. Both(p, q) = 1 .. Len(p)
  BY DEF Both
<1> QED BY <1>1 DEF AllEqual

LEMMA EqualTransitive ==
  ASSUME NEW c, Answered(c), Transitive(c)
  PROVE  Transitive(Deepened(c))
<1> SUFFICES ASSUME NEW x \in Comparands, NEW y \in Comparands, NEW z \in Comparands,
                    EqualHere(c, x, y), EqualHere(c, y, z)
             PROVE  EqualHere(c, x, z)
  BY EqualIs DEF Transitive
<1>1. /\ x.n \in Int /\ y.n \in Int /\ z.n \in Int
      /\ x.e \in Seq(Comparands) /\ y.e \in Seq(Comparands) /\ z.e \in Seq(Comparands)
  BY Typed
<1>2. CASE Rankable(x, y) /\ x.n = y.n
  <2>1. Rankable(y, z) /\ y.n = z.n
    BY <1>2, KindsMeet DEF EqualHere
  <2> QED BY <1>2, <2>1, KindsMeet DEF EqualHere
<1>3. CASE Listed(x, y) /\ Len(x.e) = Len(y.e) /\ AllEqual(c, x.e, y.e)
  <2>1. Listed(y, z) /\ Len(y.e) = Len(z.e) /\ AllEqual(c, y.e, z.e)
    BY <1>3, KindsMeet DEF EqualHere
  <2>2. Listed(x, z)
    BY <1>3, <2>1, KindsMeet
  <2>3. PICK n \in Nat : n = Len(x.e) /\ n = Len(y.e) /\ n = Len(z.e)
    BY <1>1, <1>3, <2>1
  <2>4. /\ \A j \in 1 .. n : Eq(c, x.e[j], y.e[j]) = "yes"
        /\ \A j \in 1 .. n : Eq(c, y.e[j], z.e[j]) = "yes"
    BY <1>1, <1>3, <2>1, <2>3, AllIs
  <2>5. \A j \in 1 .. n : Eq(c, x.e[j], z.e[j]) = "yes"
    <3>1. n <= Len(x.e) /\ n <= Len(y.e) /\ n <= Len(z.e)
      BY <2>3
    <3> QED BY <1>1, <2>4, <3>1, AllTransitive
  <2>6. AllEqual(c, x.e, z.e)
    BY <1>1, <2>3, <2>5, AllIs
  <2> QED BY <2>2, <2>3, <2>6 DEF EqualHere
<1>4. CASE OfType(x, y, "set") /\ Images(x.e) = Images(y.e)
  <2>1. OfType(y, z, "set") /\ Images(y.e) = Images(z.e)
    BY <1>4, KindsMeet DEF EqualHere
  <2> QED BY <1>4, <2>1, KindsMeet DEF EqualHere
<1>5. CASE OfType(x, y, "dict") /\ Same(c, x.e, y.e)
  <2>1. OfType(y, z, "dict") /\ Same(c, y.e, z.e)
    BY <1>5, KindsMeet DEF EqualHere
  <2>2. Len(x.e) = Len(z.e)
    BY <1>5, <2>1 DEF Same
  <2>3. ASSUME NEW j \in Pairs(x.e) PROVE \E l \in Pairs(z.e) : Matches(c, x.e, z.e, j, l)
    <3>1. PICK k \in Pairs(y.e) : Matches(c, x.e, y.e, j, k)
      BY <1>5 DEF Same
    <3>2. PICK l \in Pairs(z.e) : Matches(c, y.e, z.e, k, l)
      BY <2>1 DEF Same
    <3>3. x.e[2 * j] \in Comparands /\ y.e[2 * k] \in Comparands /\ z.e[2 * l] \in Comparands
      BY <1>1, InPairs
    <3>4. Eq(c, x.e[2 * j], z.e[2 * l]) = "yes"
      BY <3>1, <3>2, <3>3 DEF Matches, Transitive
    <3>5. AsKey(x.e[2 * j - 1]) = AsKey(z.e[2 * l - 1])
      BY <3>1, <3>2 DEF Matches
    <3> QED BY <3>4, <3>5 DEF Matches
  <2>4. Same(c, x.e, z.e)
    BY <2>2, <2>3 DEF Same
  <2> QED BY <1>5, <2>1, <2>4, KindsMeet DEF EqualHere
<1>6. CASE OfType(x, y, "NoneType")
  <2>1. OfType(y, z, "NoneType")
    BY <1>6, KindsMeet DEF EqualHere
  <2> QED BY <1>6, <2>1, KindsMeet DEF EqualHere
<1> QED BY <1>2, <1>3, <1>4, <1>5, <1>6 DEF EqualHere

LEMMA LessSharp ==
  ASSUME NEW c, Answered(c), Sharp(c)
  PROVE  Sharp(Deepened(c))
BY LessIs DEF Sharp

(* Sequences that precede one another, or are equal, element by element. *)
Upto(c, p, q, i) == i <= Len(p) /\ i <= Len(q) /\ \A j \in 1 .. i : Eq(c, p[j], q[j]) = "yes"
Steps(c, p, q, i) == i < Len(q) /\ (i = Len(p) \/ Lt(c, p[i + 1], q[i + 1]) = "yes")

LEMMA PrecedesIs ==
  ASSUME NEW c, NEW p \in Seq(Comparands), NEW q \in Seq(Comparands)
  PROVE  Precedes(c, p, q) <=> \E i \in Nat : Upto(c, p, q, i) /\ Steps(c, p, q, i)
<1>1. Len(p) \in Nat /\ Len(q) \in Nat
  OBVIOUS
<1> QED BY <1>1 DEF Precedes, Upto, Steps

LEMMA UptoLess ==
  ASSUME NEW c, NEW p \in Seq(Comparands), NEW q \in Seq(Comparands), NEW i \in Nat, NEW j \in Nat,
         Upto(c, p, q, i), j <= i
  PROVE  Upto(c, p, q, j)
<1>1. Len(p) \in Nat /\ Len(q) \in Nat
  OBVIOUS
<1> QED BY <1>1 DEF Upto

LEMMA UptoBoth ==
  ASSUME NEW c, NEW p \in Seq(Comparands), NEW q \in Seq(Comparands), NEW s \in Seq(Comparands),
         NEW i \in Nat, Transitive(c), Upto(c, p, q, i), Upto(c, q, s, i)
  PROVE  Upto(c, p, s, i)
BY AllTransitive DEF Upto

LEMMA NextIn ==
  ASSUME NEW p \in Seq(Comparands), NEW i \in Nat, i < Len(p)
  PROVE  p[i + 1] \in Comparands
OBVIOUS

LEMMA PrecedesChained ==
  ASSUME NEW c, NEW p \in Seq(Comparands), NEW q \in Seq(Comparands), NEW s \in Seq(Comparands),
         Transitive(c), RightCongruent(c), LeftCongruent(c), Chained(c),
         Precedes(c, p, q), Precedes(c, q, s)
  PROVE  Precedes(c, p, s)
<1>1. PICK i \in Nat : Upto(c, p, q, i) /\ Steps(c, p, q, i)
  BY PrecedesIs
<1>2. PICK k \in Nat : Upto(c, q, s, k) /\ Steps(c, q, s, k)
  BY PrecedesIs
<1>3. Len(p) \in Nat /\ Len(q) \in Nat /\ Len(s) \in Nat
  OBVIOUS
<1>4. /\ i <= Len(p) /\ i < Len(q) /\ k <= Len(q) /\ k < Len(s)
      /\ i < Len(p) => p[i + 1] \in Comparands
      /\ i < Len(q) => q[i + 1] \in Comparands
      /\ i < Len(s) => s[i + 1] \in Comparands
      /\ k < Len(p) => p[k + 1] \in Comparands
      /\ k < Len(q) => q[k + 1] \in Comparands
      /\ k < Len(s) => s[k + 1] \in Comparands
  BY <1>1, <1>2, <1>3, NextIn DEF Upto, Steps
<1>5. CASE i < k
  <2>1. Upto(c, q, s, i) /\ Eq(c, q[i + 1], s[i + 1]) = "yes"
    <3>1. i + 1 \in 1 .. k
      BY <1>5
    <3>2. Eq(c, q[i + 1], s[i + 1]) = "yes"
      BY <1>2, <3>1 DEF Upto
    <3> QED BY <1>2, <1>5, <3>2, UptoLess
  <2>2. Upto(c, p, s, i)
    BY <1>1, <2>1, UptoBoth
  <2>3. i < Len(s) /\ i < Len(q)
    BY <1>3, <1>4, <1>5
  <2>4. i = Len(p) \/ Lt(c, p[i + 1], s[i + 1]) = "yes"
    <3> SUFFICES ASSUME i # Len(p) PROVE Lt(c, p[i + 1], s[i + 1]) = "yes"
      OBVIOUS
    <3>1. i < Len(p) /\ Lt(c, p[i + 1], q[i + 1]) = "yes"
      BY <1>1, <1>3, <1>4 DEF Steps
    <3> QED BY <1>4, <2>1, <2>3, <3>1 DEF RightCongruent
  <2> QED BY <2>2, <2>3, <2>4, PrecedesIs DEF Steps
<1>6. CASE k < i
  <2>1. Upto(c, p, q, k) /\ Eq(c, p[k + 1], q[k + 1]) = "yes"
    <3>1. k + 1 \in 1 .. i
      BY <1>6
    <3>2. Eq(c, p[k + 1], q[k + 1]) = "yes"
      BY <1>1, <3>1 DEF Upto
    <3> QED BY <1>1, <1>6, <3>2, UptoLess
  <2>2. Upto(c, p, s, k)
    BY <1>2, <2>1, UptoBoth
  <2>3. k < Len(s) /\ k < Len(q) /\ k < Len(p)
    BY <1>3, <1>4, <1>6
  <2>4. Lt(c, q[k + 1], s[k + 1]) = "yes"
    BY <1>2, <1>3, <2>3 DEF Steps
  <2>5. Lt(c, p[k + 1], s[k + 1]) = "yes"
    BY <1>4, <2>1, <2>3, <2>4 DEF LeftCongruent
  <2> QED BY <2>2, <2>3, <2>5, PrecedesIs DEF Steps
<1>7. CASE i = k
  <2>1. Upto(c, p, s, i)
    BY <1>1, <1>2, <1>7, UptoBoth
  <2>2. i < Len(s) /\ i < Len(q)
    BY <1>4, <1>7
  <2>3. i = Len(p) \/ Lt(c, p[i + 1], s[i + 1]) = "yes"
    <3> SUFFICES ASSUME i # Len(p) PROVE Lt(c, p[i + 1], s[i + 1]) = "yes"
      OBVIOUS
    <3>1. i < Len(p) /\ Lt(c, p[i + 1], q[i + 1]) = "yes"
      BY <1>1, <1>3, <1>4 DEF Steps
    <3>2. Lt(c, q[i + 1], s[i + 1]) = "yes"
      BY <1>2, <1>3, <1>7, <2>2 DEF Steps
    <3> QED BY <1>4, <2>2, <3>1, <3>2 DEF Chained
  <2> QED BY <2>1, <2>2, <2>3, PrecedesIs DEF Steps
<1> QED BY <1>5, <1>6, <1>7

LEMMA PrecedesEqual ==
  ASSUME NEW c, NEW p \in Seq(Comparands), NEW q \in Seq(Comparands), NEW s \in Seq(Comparands),
         Transitive(c), RightCongruent(c),
         Precedes(c, p, q), Len(q) = Len(s), AllEqual(c, q, s)
  PROVE  Precedes(c, p, s)
<1>1. PICK i \in Nat : Upto(c, p, q, i) /\ Steps(c, p, q, i)
  BY PrecedesIs
<1>2. Len(p) \in Nat /\ Len(q) \in Nat /\ i < Len(q) /\ i < Len(s) /\ i <= Len(p)
  BY <1>1 DEF Steps, Upto
<1>3. \A j \in 1 .. Len(q) : Eq(c, q[j], s[j]) = "yes"
  BY AllIs
<1>4. Upto(c, q, s, i)
  BY <1>2, <1>3 DEF Upto
<1>5. Upto(c, p, s, i)
  BY <1>1, <1>4, UptoBoth
<1>6. i = Len(p) \/ Lt(c, p[i + 1], s[i + 1]) = "yes"
  <2> SUFFICES ASSUME i # Len(p) PROVE Lt(c, p[i + 1], s[i + 1]) = "yes"
    OBVIOUS
  <2>1. i < Len(p) /\ Lt(c, p[i + 1], q[i + 1]) = "yes"
    BY <1>1, <1>2 DEF Steps
  <2>2. Eq(c, q[i + 1], s[i + 1]) = "yes"
    <3>1. i + 1 \in 1 .. Len(q)
      BY <1>2
    <3> QED BY <1>3, <3>1
  <2>3. p[i + 1] \in Comparands /\ q[i + 1] \in Comparands /\ s[i + 1] \in Comparands
    BY <1>2, <2>1, NextIn
  <2> QED BY <2>1, <2>2, <2>3 DEF RightCongruent
<1> QED BY <1>2, <1>5, <1>6, PrecedesIs DEF Steps

LEMMA EqualPrecedes ==
  ASSUME NEW c, NEW p \in Seq(Comparands), NEW q \in Seq(Comparands), NEW s \in Seq(Comparands),
         Transitive(c), LeftCongruent(c),
         Len(p) = Len(q), AllEqual(c, p, q), Precedes(c, q, s)
  PROVE  Precedes(c, p, s)
<1>1. PICK i \in Nat : Upto(c, q, s, i) /\ Steps(c, q, s, i)
  BY PrecedesIs
<1>2. Len(p) \in Nat /\ Len(q) \in Nat /\ i <= Len(q) /\ i < Len(s) /\ i <= Len(p)
  BY <1>1 DEF Steps, Upto
<1>3. \A j \in 1 .. Len(p) : Eq(c, p[j], q[j]) = "yes"
  BY AllIs
<1>4. Upto(c, p, q, i)
  BY <1>2, <1>3 DEF Upto
<1>5. Upto(c, p, s, i)
  BY <1>1, <1>4, UptoBoth
<1>6. i = Len(p) \/ Lt(c, p[i + 1], s[i + 1]) = "yes"
  <2> SUFFICES ASSUME i # Len(p) PROVE Lt(c, p[i + 1], s[i + 1]) = "yes"
    OBVIOUS
  <2>1. i < Len(p) /\ i < Len(q) /\ Lt(c, q[i + 1], s[i + 1]) = "yes"
    BY <1>1, <1>2 DEF Steps
  <2>2. Eq(c, p[i + 1], q[i + 1]) = "yes"
    <3>1. i + 1 \in 1 .. Len(p)
      BY <1>2, <2>1
    <3> QED BY <1>3, <3>1
  <2>3. p[i + 1] \in Comparands /\ q[i + 1] \in Comparands /\ s[i + 1] \in Comparands
    BY <1>2, <2>1, NextIn
  <2> QED BY <2>1, <2>2, <2>3 DEF LeftCongruent
<1> QED BY <1>2, <1>5, <1>6, PrecedesIs DEF Steps


LEMMA LessChained ==
  ASSUME NEW c, Answered(c), Sharp(c), Transitive(c), RightCongruent(c), LeftCongruent(c), Chained(c)
  PROVE  RightCongruent(Deepened(c)) /\ LeftCongruent(Deepened(c)) /\ Chained(Deepened(c))
<1>1. ASSUME NEW x \in Comparands, NEW y \in Comparands, NEW z \in Comparands,
             LessHere(c, x, y), EqualHere(c, y, z)
      PROVE  LessHere(c, x, z)
  <2>1. /\ x.n \in Int /\ y.n \in Int /\ z.n \in Int
        /\ x.e \in Seq(Comparands) /\ y.e \in Seq(Comparands) /\ z.e \in Seq(Comparands)
    BY Typed
  <2>2. CASE Rankable(x, y) /\ x.n < y.n
    <3>1. Rankable(y, z) /\ y.n = z.n
      BY <1>1, <2>2, KindsMeet DEF EqualHere
    <3> QED BY <2>2, <3>1, KindsMeet DEF LessHere
  <2>3. CASE Listed(x, y) /\ Precedes(c, x.e, y.e)
    <3>1. Listed(y, z) /\ Len(y.e) = Len(z.e) /\ AllEqual(c, y.e, z.e)
      BY <1>1, <2>3, KindsMeet DEF EqualHere
    <3>2. Precedes(c, x.e, z.e)
      BY <2>1, <2>3, <3>1, PrecedesEqual
    <3> QED BY <2>3, <3>1, <3>2, KindsMeet DEF LessHere
  <2>4. CASE OfType(x, y, "set") /\ Images(x.e) \subseteq Images(y.e) /\ Images(x.e) # Images(y.e)
    <3>1. OfType(y, z, "set") /\ Images(y.e) = Images(z.e)
      BY <1>1, <2>4, KindsMeet DEF EqualHere
    <3> QED BY <2>4, <3>1, KindsMeet DEF LessHere
  <2> QED BY <1>1, <2>2, <2>3, <2>4 DEF LessHere
<1>2. ASSUME NEW x \in Comparands, NEW y \in Comparands, NEW z \in Comparands,
             EqualHere(c, x, y), LessHere(c, y, z)
      PROVE  LessHere(c, x, z)
  <2>1. /\ x.n \in Int /\ y.n \in Int /\ z.n \in Int
        /\ x.e \in Seq(Comparands) /\ y.e \in Seq(Comparands) /\ z.e \in Seq(Comparands)
    BY Typed
  <2>2. CASE Rankable(x, y) /\ x.n = y.n
    <3>1. Rankable(y, z) /\ y.n < z.n
      BY <1>2, <2>2, KindsMeet DEF LessHere
    <3> QED BY <2>2, <3>1, KindsMeet DEF LessHere
  <2>3. CASE Listed(x, y) /\ Len(x.e) = Len(y.e) /\ AllEqual(c, x.e, y.e)
    <3>1. Listed(y, z) /\ Precedes(c, y.e, z.e)
      BY <1>2, <2>3, KindsMeet DEF LessHere
    <3>2. Precedes(c, x.e, z.e)
      BY <2>1, <2>3, <3>1, EqualPrecedes
    <3> QED BY <2>3, <3>1, <3>2, KindsMeet DEF LessHere
  <2>4. CASE OfType(x, y, "set") /\ Images(x.e) = Images(y.e)
    <3>1. OfType(y, z, "set") /\ Images(y.e) \subseteq Images(z.e) /\ Images(y.e) # Images(z.e)
      BY <1>2, <2>4, KindsMeet DEF LessHere
    <3> QED BY <2>4, <3>1, KindsMeet DEF LessHere
  <2>5. CASE OfType(x, y, "dict") \/ OfType(x, y, "NoneType")
    BY <1>2, <2>5, KindsMeet DEF LessHere
  <2> QED BY <1>2, <2>2, <2>3, <2>4, <2>5 DEF EqualHere
<1>3. ASSUME NEW x \in Comparands, NEW y \in Comparands, NEW z \in Comparands,
             LessHere(c, x, y), LessHere(c, y, z)
      PROVE  LessHere(c, x, z)
  <2>1. /\ x.n \in Int /\ y.n \in Int /\ z.n \in Int
        /\ x.e \in Seq(Comparands) /\ y.e \in Seq(Comparands) /\ z.e \in Seq(Comparands)
    BY Typed
  <2>2. CASE Rankable(x, y) /\ x.n < y.n
    <3>1. Rankable(y, z) /\ y.n < z.n
      BY <1>3, <2>2, KindsMeet DEF LessHere
    <3>2. x.n < z.n
      BY <2>1, <2>2, <3>1
    <3> QED BY <2>2, <3>1, <3>2, KindsMeet DEF LessHere
  <2>3. CASE Listed(x, y) /\ Precedes(c, x.e, y.e)
    <3>1. Listed(y, z) /\ Precedes(c, y.e, z.e)
      BY <1>3, <2>3, KindsMeet DEF LessHere
    <3>2. Precedes(c, x.e, z.e)
      BY <2>1, <2>3, <3>1, PrecedesChained
    <3> QED BY <2>3, <3>1, <3>2, KindsMeet DEF LessHere
  <2>4. CASE OfType(x, y, "set") /\ Images(x.e) \subseteq Images(y.e) /\ Images(x.e) # Images(y.e)
    <3>1. OfType(y, z, "set") /\ Images(y.e) \subseteq Images(z.e) /\ Images(y.e) # Images(z.e)
      BY <1>3, <2>4, KindsMeet DEF LessHere
    <3>2. Images(x.e) \subseteq Images(z.e) /\ Images(x.e) # Images(z.e)
      BY <2>4, <3>1
    <3> QED BY <2>4, <3>1, <3>2, KindsMeet DEF LessHere
  <2> QED BY <1>3, <2>2, <2>3, <2>4 DEF LessHere
<1>4. RightCongruent(Deepened(c))
  BY <1>1, EqualIs, LessIs DEF RightCongruent
<1>5. LeftCongruent(Deepened(c))
  BY <1>2, EqualIs, LessIs DEF LeftCongruent
<1>6. Chained(Deepened(c))
  BY <1>3, LessIs DEF Chained
<1> QED BY <1>4, <1>5, <1>6

-----------------------------------------------------------------------------
(* Comparisons at each depth. *)
LEMMA DeepenedTyped == ASSUME NEW c, Answered(c) PROVE Answered(Deepened(c))
<1>1. ASSUME NEW op \in Operators, NEW x \in Comparands, NEW y \in Comparands
      PROVE  Deepened(c)[op][x][y] \in Answers
  <2>0. {"yes", "no", "type", "depth"} \subseteq Answers
    BY DEF Answers, Failures
  <2>1. CASE op = "=="
    BY <2>0, <2>1, EqualIs DEF Eq
  <2>2. CASE op = "!="
    <3>1. Deepened(c)["=="][x][y] \in Answers
      BY <2>0, EqualIs DEF Eq
    <3> QED BY <2>2, <3>1, EqualIs, AnswersAre DEF Eq
  <2>3. CASE op \in Orders
    <3>1. CASE Rankable(x, y)
      BY <2>0, <2>3, <3>1, OrderRanked, AnswersAre
    <3>2. CASE OfType(x, y, "set")
      BY <2>0, <2>3, <3>2, OrderSets, AnswersAre
    <3>3. CASE Listed(x, y)
      <4>1. x.e \in Seq(Comparands) /\ y.e \in Seq(Comparands)
        BY Typed
      <4>2. CASE AllEqual(c, x.e, y.e)
        <5>1. Deepened(c)[op][x][y] = Threeway(op, Len(x.e) - Len(y.e))
          BY <2>3, <3>3, <4>2, OrderEqual
        <5> QED BY <2>0, <5>1, AnswersAre
      <4>3. ASSUME NEW i \in Both(x.e, y.e), Decides(c, x.e, y.e, i)
            PROVE  Deepened(c)[op][x][y] \in Answers
        <5>1. Deepened(c)[op][x][y] =
                IF Eq(c, x.e[i], y.e[i]) = "depth" THEN "depth" ELSE c[op][x.e[i]][y.e[i]]
          BY <2>3, <3>3, <4>3, OrderDecided
        <5>2. x.e[i] \in Comparands /\ y.e[i] \in Comparands
          BY <4>1, BothIs
        <5>3. c[op][x.e[i]][y.e[i]] \in Answers
          BY <5>2, AnswersAre DEF Answered
        <5> QED BY <2>0, <5>1, <5>3
      <4> QED BY <4>1, <4>2, <4>3, SliceCases
    <3>4. CASE ~Rankable(x, y) /\ ~Listed(x, y) /\ ~OfType(x, y, "set")
      BY <2>0, <2>3, <3>4, OrderNone
    <3> QED BY <3>1, <3>2, <3>3, <3>4
  <2> QED BY <2>1, <2>2, <2>3 DEF Operators, Orders, Equality
<1>2. Deepened(c) \in Comparisons
  <2> DEFINE f(op, x, y) ==
               IF x.t = y.t THEN CompareSameType(op, x, y, c)
               ELSE IF {x.t, y.t} = {"int", "float"} THEN Threeway(op, x.n - y.n)
               ELSE IF op \in Equality THEN YesNo(op = "!=") ELSE "type"
  <2>1. Deepened(c) = [op \in Operators |-> [x \in Comparands |-> [y \in Comparands |-> f(op, x, y)]]]
    BY DEF Deepened
  <2> HIDE DEF f
  <2>2. \A op \in Operators : \A x, y \in Comparands : f(op, x, y) \in Answers
    <3> TAKE op \in Operators
    <3> TAKE x, y \in Comparands
    <3>1. Deepened(c)[op][x][y] = f(op, x, y)
      BY <2>1
    <3> QED BY <1>1, <3>1
  <2> QED BY <2>1, <2>2 DEF Comparisons
<1>3. \A x, y \in Comparands : Eq(Deepened(c), x, y) # "type"
  BY EqualIs
<1> QED BY <1>2, <1>3 DEF Answered

LEMMA RefusedTyped == Refused \in Comparisons /\ Answered(Refused)
<1>1. Refused \in Comparisons
  BY DEF Refused, Comparisons, Answers, Failures
<1>2. \A x, y \in Comparands : Eq(Refused, x, y) = "depth"
  BY Answering DEF Refused, Eq
<1> QED BY <1>1, <1>2 DEF Answered

(* Each depth of comparison from the one before. *)
LEMMA ComparisonIs ==
  /\ comparison[0] = Refused
  /\ \A d \in 0 .. CompareLimit : comparison[d] \in Comparisons /\ Answered(comparison[d])
  /\ \A d \in 1 .. CompareLimit : comparison[d] = Deepened(comparison[d - 1])
<1> DEFINE S == {c \in Comparisons : Answered(c)}
           st == [d \in 1 .. CompareLimit |-> [c \in S |-> Deepened(c)]]
           Body(f, d) ==
             [op \in Operators |-> [x \in Comparands |-> [y \in Comparands |->
               IF d < 1 THEN "depth"
               ELSE IF x.t = y.t THEN CompareSameType(op, x, y, f[d - 1])
               ELSE IF {x.t, y.t} = {"int", "float"} THEN Threeway(op, x.n - y.n)
               ELSE IF op \in Equality THEN YesNo(op = "!=") ELSE "type"]]]
<1>1. CompareLimit \in Nat
  BY OrderingAssumption
<1>2. \A c \in S : Deepened(c) \in S
  <2> TAKE c \in S
  <2>1. Answered(Deepened(c))
    BY DeepenedTyped
  <2> QED BY <2>1 DEF Answered
<1>3. Refused \in S
  BY RefusedTyped
<1> HIDE DEF S
<1>4. st \in [1 .. CompareLimit -> [S -> S]]
  BY <1>2
<1>5. \A d \in 1 .. CompareLimit : \A c \in S : st[d][c] = Deepened(c)
  OBVIOUS
<1> HIDE DEF st
<1>6. PICK f : Follows(f, S, CompareLimit, Refused, st)
  <2>1. st \in StepsOn(S, CompareLimit)
    BY <1>4 DEF StepsOn
  <2> QED BY <1>1, <1>3, <2>1, Recursion, Zenon
<1>7. \A d \in 1 .. CompareLimit : d - 1 \in 0 .. CompareLimit /\ f[d - 1] \in S /\ f[d] = Deepened(f[d - 1])
  <2> TAKE d \in 1 .. CompareLimit
  <2>1. d - 1 \in 0 .. CompareLimit
    BY <1>1
  <2> QED BY <1>5, <1>6, <2>1 DEF Follows
<1>8. ASSUME NEW d \in 0 .. CompareLimit PROVE f[d] = Body(f, d)
  <2>1. CASE d = 0
    BY <1>6, <2>1 DEF Refused, Follows
  <2>2. CASE d # 0
    <3>1. d \in 1 .. CompareLimit /\ ~(d < 1)
      BY <1>1, <2>2
    <3>2. Deepened(f[d - 1]) = Body(f, d)
      BY <3>1, Zenon DEF Deepened
    <3> QED BY <1>7, <3>1, <3>2
  <2> QED BY <2>1, <2>2
<1> HIDE DEF Body
<1>9. f = [d \in 0 .. CompareLimit |-> Body(f, d)]
  <2>1. f = [d \in 0 .. CompareLimit |-> f[d]]
    BY <1>6 DEF Follows
  <2> QED BY <1>8, <2>1, Zenon
<1>10. comparison = [d \in 0 .. CompareLimit |-> Body(comparison, d)]
  <2>1. comparison = CHOOSE g : g = [d \in 0 .. CompareLimit |-> Body(g, d)]
    BY Zenon DEF comparison, Body
  <2> QED BY <1>9, <2>1, Zenon
<1>11. \A d \in 0 .. CompareLimit : comparison[d] = Body(comparison, d)
  BY <1>10
<1>12. comparison[0] = Refused
  <2>1. Body(comparison, 0) = Refused
    BY DEF Body, Refused
  <2>2. 0 \in 0 .. CompareLimit
    BY <1>1
  <2> QED BY <1>11, <2>1, <2>2
<1>13. ASSUME NEW d \in 1 .. CompareLimit PROVE comparison[d] = Deepened(comparison[d - 1])
  <2>1. d \in 0 .. CompareLimit /\ ~(d < 1)
    BY <1>1
  <2>2. Deepened(comparison[d - 1]) = Body(comparison, d)
    BY <2>1, Zenon DEF Deepened, Body
  <2> QED BY <1>11, <2>1, <2>2
<1> DEFINE T == {d \in Nat : d <= CompareLimit => comparison[d] \in S}
<1>14. 0 \in T
  BY <1>3, <1>12
<1>15. ASSUME NEW d \in Nat, d \in T PROVE d + 1 \in T
  <2> SUFFICES ASSUME d + 1 <= CompareLimit PROVE comparison[d + 1] \in S
    OBVIOUS
  <2>1. PICK e \in 1 .. CompareLimit : e = d + 1 /\ e - 1 = d
    BY <1>1
  <2>2. comparison[d] \in S
    BY <1>1, <1>15
  <2>3. comparison[e] = Deepened(comparison[d])
    BY <1>13, <2>1
  <2> QED BY <1>2, <2>1, <2>2, <2>3
<1>16. Nat \subseteq T
  <2> HIDE DEF T
  <2> QED BY <1>14, <1>15, SetInduction
<1>17. \A d \in 0 .. CompareLimit : comparison[d] \in S
  BY <1>1, <1>16
<1> QED BY <1>12, <1>13, <1>17 DEF S

-----------------------------------------------------------------------------
(* The laws of failures, and of the operators with one another. *)
Fails(c, op, x, y) == c[op][x][y] \in Failures
Missed(c) ==
  \A x, y \in Comparands : Eq(c, x, y) = "no" /\ Eq(c, y, x) = "depth" =>
    \A op \in Orders : Fails(c, op, x, y) /\ Fails(c, op, y, x)
Reflexive(c) == \A x \in Comparands : Eq(c, x, x) \in {"yes", "depth"}
Together(c) ==
  \A x, y \in Comparands : \A op \in Orders : Fails(c, op, x, y) <=> Fails(c, "<", x, y)
Opposite(op, po) == (op = "<" /\ po = ">") \/ (op = "<=" /\ po = ">=")
Mirrored(c) ==
  \A op, po \in Orders : Opposite(op, po) =>
    \A x, y \in Comparands : Agree(c[op][x][y], c[po][y][x])
LessOrEqual(c) ==
  \A x, y \in Comparands : ~Fails(c, "<", x, y) =>
    c["<="][x][y] = YesNo(Lt(c, x, y) = "yes" \/ Eq(c, x, y) = "yes")

LEMMA NotFailures == {"yes", "no"} \cap Failures = {} /\ {"depth", "type"} \subseteq Failures
BY DEF Failures

LEMMA DecidesMirrored ==
  ASSUME NEW c, NEW p \in Seq(Comparands), NEW q \in Seq(Comparands), NEW i,
         Symmetric(c), Decides(c, p, q, i)
  PROVE  Decides(c, q, p, i)
<1>1. Both(q, p) = Both(p, q) /\ i \in Both(p, q)
  BY DEF Both, Decides
<1>2. \A j \in 1 .. i : p[j] \in Comparands /\ q[j] \in Comparands
  BY <1>1, BothIs
<1>3. i \in Nat /\ i \in 1 .. i
  BY <1>1, BothIs
<1>4. Eq(c, q[i], p[i]) # "yes"
  BY <1>2, <1>3 DEF Decides, Symmetric
<1>5. \A j \in 1 .. i - 1 : j \in 1 .. i /\ Eq(c, p[j], q[j]) = "yes"
  BY <1>3 DEF Decides
<1>6. \A j \in 1 .. i - 1 : Eq(c, q[j], p[j]) = "yes"
  BY <1>2, <1>5 DEF Symmetric
<1> QED BY <1>1, <1>4, <1>6 DEF Decides

LEMMA AllMirrored ==
  ASSUME NEW c, NEW p \in Seq(Comparands), NEW q \in Seq(Comparands), Symmetric(c), AllEqual(c, p, q)
  PROVE  AllEqual(c, q, p)
<1>1. Both(q, p) = Both(p, q)
  BY DEF Both
<1>2. \A j \in Both(p, q) : p[j] \in Comparands /\ q[j] \in Comparands
  BY BothIs
<1> QED BY <1>1, <1>2 DEF AllEqual, Symmetric

(* What differs is unequal, or too deep. *)
LEMMA DecidedIs ==
  ASSUME NEW c, NEW p \in Seq(Comparands), NEW q \in Seq(Comparands), NEW i,
         Answered(c), Decides(c, p, q, i)
  PROVE  /\ p[i] \in Comparands /\ q[i] \in Comparands
         /\ Eq(c, p[i], q[i]) \in {"no", "depth"} /\ ~AllEqual(c, p, q)
<1>1. i \in Both(p, q) /\ p[i] \in Comparands /\ q[i] \in Comparands
  BY BothIs DEF Decides
<1>2. Eq(c, p[i], q[i]) \in Answers
  BY <1>1, AnswersAre, Answering DEF Answered, Eq
<1>3. Eq(c, p[i], q[i]) # "yes" /\ Eq(c, p[i], q[i]) # "type"
  BY <1>1 DEF Decides, Answered
<1> QED BY <1>1, <1>2, <1>3 DEF Answers, Failures, AllEqual

LEMMA FailsIs ==
  ASSUME NEW c, NEW x \in Comparands, NEW y \in Comparands, NEW op \in Orders, Answered(c)
  PROVE  /\ Rankable(x, y) \/ OfType(x, y, "set") => ~Fails(Deepened(c), op, x, y)
         /\ Listed(x, y) /\ AllEqual(c, x.e, y.e) => ~Fails(Deepened(c), op, x, y)
         /\ ~Rankable(x, y) /\ ~Listed(x, y) /\ ~OfType(x, y, "set") => Fails(Deepened(c), op, x, y)
<1>1. Rankable(x, y) => ~Fails(Deepened(c), op, x, y)
  BY OrderRanked, AnswersAre, NotFailures DEF Fails
<1>2. OfType(x, y, "set") => ~Fails(Deepened(c), op, x, y)
  BY OrderSets, AnswersAre, NotFailures DEF Fails
<1>3. Listed(x, y) /\ AllEqual(c, x.e, y.e) => ~Fails(Deepened(c), op, x, y)
  <2> SUFFICES ASSUME Listed(x, y), AllEqual(c, x.e, y.e) PROVE ~Fails(Deepened(c), op, x, y)
    OBVIOUS
  <2>1. Deepened(c)[op][x][y] = Threeway(op, Len(x.e) - Len(y.e))
    BY OrderEqual
  <2>2. Deepened(c)[op][x][y] \in {"yes", "no"}
    BY <2>1, AnswersAre
  <2> QED BY <2>2, NotFailures DEF Fails
<1>4. ~Rankable(x, y) /\ ~Listed(x, y) /\ ~OfType(x, y, "set") => Fails(Deepened(c), op, x, y)
  BY OrderNone, NotFailures DEF Fails
<1> QED BY <1>1, <1>2, <1>3, <1>4

LEMMA FailsDecided ==
  ASSUME NEW c, NEW x \in Comparands, NEW y \in Comparands, NEW op \in Orders, NEW i,
         Answered(c), Listed(x, y), Decides(c, x.e, y.e, i)
  PROVE  /\ Fails(Deepened(c), op, x, y) <=>
              Eq(c, x.e[i], y.e[i]) = "depth" \/ Fails(c, op, x.e[i], y.e[i])
         /\ Eq(c, x.e[i], y.e[i]) # "depth" => Deepened(c)[op][x][y] = c[op][x.e[i]][y.e[i]]
<1>1. Deepened(c)[op][x][y] =
        IF Eq(c, x.e[i], y.e[i]) = "depth" THEN "depth" ELSE c[op][x.e[i]][y.e[i]]
  BY OrderDecided
<1> QED BY <1>1, NotFailures DEF Fails

LEMMA DeepenedTogether ==
  ASSUME NEW c, Answered(c), Together(c)
  PROVE  Together(Deepened(c))
<1> SUFFICES ASSUME NEW x \in Comparands, NEW y \in Comparands, NEW op \in Orders
             PROVE  Fails(Deepened(c), op, x, y) <=> Fails(Deepened(c), "<", x, y)
  BY DEF Together
<1>0. "<" \in Orders /\ x.e \in Seq(Comparands) /\ y.e \in Seq(Comparands)
  BY Typed DEF Orders
<1>1. CASE ~Listed(x, y)
  BY <1>0, <1>1, FailsIs
<1>2. CASE Listed(x, y) /\ AllEqual(c, x.e, y.e)
  BY <1>0, <1>2, FailsIs
<1>3. ASSUME Listed(x, y), NEW i \in Both(x.e, y.e), Decides(c, x.e, y.e, i)
      PROVE  Fails(Deepened(c), op, x, y) <=> Fails(Deepened(c), "<", x, y)
  <2>1. Fails(c, op, x.e[i], y.e[i]) <=> Fails(c, "<", x.e[i], y.e[i])
    BY <1>0, <1>3, DecidedIs DEF Together
  <2> QED BY <1>0, <1>3, <2>1, FailsDecided
<1> QED BY <1>0, <1>1, <1>2, <1>3, SliceCases

LEMMA DeepenedMissed ==
  ASSUME NEW c, Answered(c), Symmetric(c), Missed(c)
  PROVE  Missed(Deepened(c))
<1> SUFFICES ASSUME NEW x \in Comparands, NEW y \in Comparands, NEW op \in Orders,
                    Eq(Deepened(c), x, y) = "no", Eq(Deepened(c), y, x) = "depth"
             PROVE  Fails(Deepened(c), op, x, y) /\ Fails(Deepened(c), op, y, x)
  BY DEF Missed
<1>0. x.e \in Seq(Comparands) /\ y.e \in Seq(Comparands)
  BY Typed
<1>1. CASE Listed(x, y)
  <2>1. Listed(y, x) /\ Len(x.e) = Len(y.e)
    <3>1. Listed(y, x)
      BY <1>1 DEF Listed
    <3>2. Len(y.e) # Len(x.e) => Eq(Deepened(c), y, x) = "no"
      BY <3>1, EqualListed
    <3> QED BY <3>1, <3>2
  <2>2. ~AllEqual(c, x.e, y.e)
    <3>1. ~EqualHere(c, x, y)
      BY EqualIs
    <3> QED BY <1>1, <2>1, <3>1 DEF EqualHere
  <2>3. PICK i \in Both(x.e, y.e) : Decides(c, x.e, y.e, i)
    BY <1>0, <2>2, SliceCases
  <2>4. Decides(c, y.e, x.e, i)
    BY <1>0, <2>3, DecidesMirrored
  <2>5. x.e[i] \in Comparands /\ y.e[i] \in Comparands
    BY <1>0, <2>3, DecidedIs
  <2>6. Eq(c, x.e[i], y.e[i]) = "no"
    BY <1>1, <2>1, <2>3, EqualListed
  <2>7. Eq(c, y.e[i], x.e[i]) = "depth"
    BY <2>1, <2>4, EqualListed
  <2>8. Fails(c, op, x.e[i], y.e[i])
    BY <2>5, <2>6, <2>7 DEF Missed
  <2> QED BY <1>1, <2>1, <2>3, <2>4, <2>7, <2>8, FailsDecided
<1>2. CASE Rankable(x, y)
  <2>1. Rankable(y, x) /\ "==" \in Operators
    BY <1>2, RankableSymmetric, Answering
  <2>2. Eq(Deepened(c), y, x) = Threeway("==", y.n - x.n)
    BY <2>1, DeepenedIs DEF Eq
  <2>3. FALSE
    BY <2>2, AnswersAre
  <2> QED BY <2>3
<1>3. CASE OfType(x, y, "set")
  <2>1. OfType(y, x, "set") /\ "==" \in Operators
    BY <1>3, Answering DEF OfType
  <2>2. Eq(Deepened(c), y, x) = SetCompare("==", y.e, x.e)
    BY <2>1, DeepenedIs DEF Eq
  <2>3. FALSE
    BY <2>2, AnswersAre
  <2> QED BY <2>3
<1>4. CASE ~Rankable(x, y) /\ ~Listed(x, y) /\ ~OfType(x, y, "set")
  <2>1. ~Rankable(y, x) /\ ~Listed(y, x) /\ ~OfType(y, x, "set")
    BY <1>4, RankableSymmetric DEF Listed, OfType
  <2> QED BY <1>4, <2>1, FailsIs
<1> QED BY <1>1, <1>2, <1>3, <1>4

LEMMA DeepenedReflexive ==
  ASSUME NEW c, Answered(c), Reflexive(c)
  PROVE  Reflexive(Deepened(c))
<1> SUFFICES ASSUME NEW x \in Comparands
             PROVE  Eq(Deepened(c), x, x) \in {"yes", "depth"}
  BY DEF Reflexive
<1>0. x.e \in Seq(Comparands) /\ x.t \in Types
  BY Typed
<1>1. CASE x.t \in {"list", "tuple"}
  <2>1. Listed(x, x)
    BY <1>1 DEF Listed
  <2>2. CASE AllEqual(c, x.e, x.e)
    BY <2>1, <2>2, EqualIs DEF EqualHere
  <2>3. ASSUME NEW i \in Both(x.e, x.e), Decides(c, x.e, x.e, i)
        PROVE  Eq(Deepened(c), x, x) \in {"yes", "depth"}
    <3>1. Eq(Deepened(c), x, x) = Eq(c, x.e[i], x.e[i])
      BY <2>1, <2>3, EqualListed
    <3> QED BY <1>0, <2>3, <3>1, DecidedIs DEF Reflexive
  <2> QED BY <1>0, <2>2, <2>3, SliceCases
<1>2. CASE x.t = "dict"
  <2>1. OfType(x, x, "dict") /\ Keyed(x.e)
    BY <1>2, KeyedIs DEF OfType
  <2>2. CASE Same(c, x.e, x.e)
    BY <2>1, <2>2, EqualIs DEF EqualHere
  <2>3. CASE ~Same(c, x.e, x.e)
    <3>1. PICK j \in Pairs(x.e) : Differs(c, x.e, x.e, j)
      BY <1>0, <2>1, <2>3, DictCases
    <3>2. Found(x.e, x.e, j)
      BY FoundKey
    <3>3. Verdict(c, x.e, x.e, j) = Eq(c, x.e[2 * j], x.e[2 * j])
      BY <2>1, FoundIs
    <3>4. DictsEqual(x.e, x.e, c) = Verdict(c, x.e, x.e, j)
      BY <1>0, <2>1, <3>1, <3>2, DictCases
    <3>5. Eq(Deepened(c), x, x) = DictsEqual(x.e, x.e, c)
      BY <2>1, DeepenedIs, Answering DEF Eq
    <3>6. x.e[2 * j] \in Comparands
      BY <1>0, InPairs
    <3> QED BY <3>3, <3>4, <3>5, <3>6 DEF Reflexive
  <2> QED BY <2>2, <2>3
<1>3. CASE x.t \notin {"list", "tuple", "dict"}
  <2>1. x.t \in Ranked \/ x.t = "set" \/ x.t = "NoneType"
    BY <1>0, <1>3 DEF Types, Scalars
  <2>2. EqualHere(c, x, x)
    BY <2>1 DEF EqualHere, Rankable, OfType
  <2> QED BY <2>2, EqualIs
<1> QED BY <1>1, <1>2, <1>3

LEMMA Turned ==
  ASSUME NEW m \in Int, NEW n \in Int, NEW op, NEW po, Opposite(op, po)
  PROVE  Threeway(op, m - n) = Threeway(po, n - m)
<1>1. m - n \in Int /\ n - m \in Int /\ (m - n < 0 <=> n - m > 0) /\ (m - n <= 0 <=> n - m >= 0)
  OBVIOUS
<1>2. CASE op = "<" /\ po = ">"
  BY <1>1, <1>2, ThreewayIs DEF YesNo
<1>3. CASE op = "<=" /\ po = ">="
  BY <1>1, <1>3, ThreewayIs DEF YesNo
<1> QED BY <1>2, <1>3 DEF Opposite

LEMMA DeepenedMirrored ==
  ASSUME NEW c, Answered(c), Symmetric(c), Missed(c), Mirrored(c)
  PROVE  Mirrored(Deepened(c))
<1> SUFFICES ASSUME NEW op \in Orders, NEW po \in Orders, Opposite(op, po),
                    NEW x \in Comparands, NEW y \in Comparands
             PROVE  Agree(Deepened(c)[op][x][y], Deepened(c)[po][y][x])
  BY DEF Mirrored
<1>0. x.e \in Seq(Comparands) /\ y.e \in Seq(Comparands) /\ x.n \in Int /\ y.n \in Int
  BY Typed
<1> DEFINE r == Deepened(c)[op][x][y]
           s == Deepened(c)[po][y][x]
<1> SUFFICES Agree(r, s)
  OBVIOUS
<1>1. CASE Rankable(x, y)
  <2>1. r = Threeway(op, x.n - y.n)
    BY <1>1, OrderRanked
  <2>2. s = Threeway(po, y.n - x.n)
    BY <1>1, RankableSymmetric, OrderRanked
  <2>3. r = s
    BY <1>0, <2>1, <2>2, Turned
  <2> QED BY <2>3 DEF Agree
<1>2. CASE Listed(x, y) /\ AllEqual(c, x.e, y.e)
  <2>1. Listed(y, x) /\ AllEqual(c, y.e, x.e)
    BY <1>0, <1>2, AllMirrored DEF Listed
  <2>2. r = Threeway(op, Len(x.e) - Len(y.e))
    BY <1>2, OrderEqual
  <2>3. s = Threeway(po, Len(y.e) - Len(x.e))
    BY <2>1, OrderEqual
  <2>4. Len(x.e) \in Int /\ Len(y.e) \in Int
    BY <1>0
  <2>5. r = s
    BY <2>2, <2>3, <2>4, Turned
  <2> QED BY <2>5 DEF Agree
<1>3. ASSUME Listed(x, y), NEW i \in Both(x.e, y.e), Decides(c, x.e, y.e, i)
      PROVE  Agree(r, s)
  <2>1. Listed(y, x) /\ Decides(c, y.e, x.e, i)
    BY <1>0, <1>3, DecidesMirrored DEF Listed
  <2> DEFINE a == x.e[i]
             b == y.e[i]
  <2>2. /\ a \in Comparands /\ b \in Comparands
        /\ Eq(c, a, b) \in {"no", "depth"} /\ Eq(c, b, a) \in {"no", "depth"}
    BY <1>0, <1>3, <2>1, DecidedIs
  <2>3. /\ r \in Failures <=> Eq(c, a, b) = "depth" \/ Fails(c, op, a, b)
        /\ Eq(c, a, b) # "depth" => r = c[op][a][b]
    BY <1>3, FailsDecided DEF Fails
  <2>4. /\ s \in Failures <=> Eq(c, b, a) = "depth" \/ Fails(c, po, b, a)
        /\ Eq(c, b, a) # "depth" => s = c[po][b][a]
    BY <2>1, FailsDecided DEF Fails
  <2> HIDE DEF r, s, a, b
  <2>5. Agree(c[op][a][b], c[po][b][a])
    BY <2>2 DEF Mirrored
  <2>6. CASE Eq(c, a, b) = "depth" /\ Eq(c, b, a) = "depth"
    BY <2>3, <2>4, <2>6 DEF Agree
  <2>7. CASE Eq(c, a, b) = "no" /\ Eq(c, b, a) = "depth"
    <3>1. Fails(c, op, a, b)
      BY <2>2, <2>7 DEF Missed
    <3> QED BY <2>3, <2>4, <2>7, <3>1 DEF Agree
  <2>8. CASE Eq(c, a, b) = "depth" /\ Eq(c, b, a) = "no"
    <3>1. Fails(c, po, b, a)
      BY <2>2, <2>8 DEF Missed
    <3> QED BY <2>3, <2>4, <2>8, <3>1 DEF Agree
  <2>9. CASE Eq(c, a, b) = "no" /\ Eq(c, b, a) = "no"
    BY <2>3, <2>4, <2>5, <2>9
  <2> QED BY <2>2, <2>6, <2>7, <2>8, <2>9
<1>4. CASE OfType(x, y, "set")
  <2>1. OfType(y, x, "set") /\ IsKeyed(x.e) /\ IsKeyed(y.e)
    BY <1>4, KeyedIs DEF OfType
  <2>2. r = SetCompare(op, x.e, y.e) /\ s = SetCompare(po, y.e, x.e)
    BY <1>4, <2>1, OrderSets
  <2> HIDE DEF r, s
  <2>3. r = s
    <3>1. CASE op = "<" /\ po = ">"
      BY <1>0, <2>1, <2>2, <3>1, SetIs DEF YesNo
    <3>2. CASE op = "<=" /\ po = ">="
      BY <1>0, <2>1, <2>2, <3>2, SetIs DEF YesNo
    <3> QED BY <3>1, <3>2 DEF Opposite
  <2> QED BY <2>3 DEF Agree
<1>5. CASE ~Rankable(x, y) /\ ~Listed(x, y) /\ ~OfType(x, y, "set")
  <2>1. ~Rankable(y, x) /\ ~Listed(y, x) /\ ~OfType(y, x, "set")
    BY <1>5, RankableSymmetric DEF Listed, OfType
  <2>2. r = "type" /\ s = "type"
    BY <1>5, <2>1, OrderNone
  <2> QED BY <2>2 DEF Agree
<1> HIDE DEF r, s
<1> QED BY <1>0, <1>1, <1>2, <1>3, <1>4, <1>5, SliceCases

LEMMA DeepenedLessOrEqual ==
  ASSUME NEW c, Answered(c), Sharp(c), LessOrEqual(c)
  PROVE  LessOrEqual(Deepened(c))
<1> SUFFICES ASSUME NEW x \in Comparands, NEW y \in Comparands, ~Fails(Deepened(c), "<", x, y)
             PROVE  Deepened(c)["<="][x][y] =
                      YesNo(Lt(Deepened(c), x, y) = "yes" \/ Eq(Deepened(c), x, y) = "yes")
  BY DEF LessOrEqual
<1> DEFINE l == Deepened(c)["<="][x][y]
           r == Lt(Deepened(c), x, y)
           e == Eq(Deepened(c), x, y)
<1> SUFFICES l = YesNo(r = "yes" \/ e = "yes")
  OBVIOUS
<1>0. /\ x.e \in Seq(Comparands) /\ y.e \in Seq(Comparands) /\ x.n \in Int /\ y.n \in Int
      /\ "<" \in Orders /\ "<=" \in Orders
  BY Typed DEF Orders
<1>1. (r = "yes" <=> LessHere(c, x, y)) /\ (e = "yes" <=> EqualHere(c, x, y))
  BY EqualIs, LessIs
<1>2. CASE Rankable(x, y)
  <2>1. l = Threeway("<=", x.n - y.n)
    BY <1>0, <1>2, OrderRanked
  <2>2. x.n - y.n \in Int /\ (x.n - y.n <= 0 <=> x.n < y.n \/ x.n = y.n)
    BY <1>0
  <2>3. l = YesNo(x.n - y.n <= 0)
    BY <2>1, <2>2, ThreewayIs
  <2>4. (r = "yes" <=> x.n < y.n) /\ (e = "yes" <=> x.n = y.n)
    BY <1>1, <1>2, NoneBoth DEF LessHere, EqualHere
  <2> HIDE DEF l, r, e
  <2> QED BY <2>2, <2>3, <2>4 DEF YesNo
<1>3. CASE Listed(x, y) /\ AllEqual(c, x.e, y.e)
  <2>1. l = Threeway("<=", Len(x.e) - Len(y.e)) /\ r = Threeway("<", Len(x.e) - Len(y.e))
    BY <1>0, <1>3, OrderEqual DEF Lt
  <2>2. PICK m \in Nat : m = Len(x.e)
    BY <1>0
  <2>3. PICK n \in Nat : n = Len(y.e)
    BY <1>0
  <2>4. m - n \in Int /\ (m - n <= 0 <=> m - n < 0 \/ m = n)
    OBVIOUS
  <2>5. l = YesNo(m - n <= 0) /\ r = YesNo(m - n < 0)
    BY <2>1, <2>2, <2>3, <2>4, ThreewayIs
  <2>6. e = "yes" <=> m = n
    BY <1>1, <1>3, <2>2, <2>3, NoneBoth DEF EqualHere
  <2> HIDE DEF l, r, e
  <2> QED BY <2>4, <2>5, <2>6 DEF YesNo
<1>4. ASSUME Listed(x, y), NEW i \in Both(x.e, y.e), Decides(c, x.e, y.e, i)
      PROVE  l = YesNo(r = "yes" \/ e = "yes")
  <2> DEFINE a == x.e[i]
             b == y.e[i]
  <2>1. a \in Comparands /\ b \in Comparands /\ Eq(c, a, b) \in {"no", "depth"} /\ ~AllEqual(c, x.e, y.e)
    BY <1>0, <1>4, DecidedIs
  <2>2. Eq(c, a, b) = "no" /\ ~Fails(c, "<", a, b)
    BY <1>0, <1>4, <2>1, FailsDecided
  <2>3. l = c["<="][a][b]
    BY <1>0, <1>4, <2>2, FailsDecided
  <2>4. r = Lt(c, a, b)
    BY <1>0, <1>4, <2>2, FailsDecided DEF Lt
  <2>5. e # "yes"
    BY <1>1, <1>4, <2>1, NoneBoth DEF EqualHere
  <2> HIDE DEF l, r, e, a, b
  <2>6. c["<="][a][b] = YesNo(Lt(c, a, b) = "yes" \/ Eq(c, a, b) = "yes")
    BY <2>1, <2>2 DEF LessOrEqual
  <2> QED BY <2>2, <2>3, <2>4, <2>5, <2>6 DEF YesNo
<1>5. CASE OfType(x, y, "set")
  <2>1. IsKeyed(x.e) /\ IsKeyed(y.e)
    BY <1>5, KeyedIs DEF OfType
  <2>2. l = YesNo(Images(x.e) \subseteq Images(y.e))
    BY <1>0, <1>5, <2>1, OrderSets, SetIs
  <2>3. /\ r = "yes" <=> Images(x.e) \subseteq Images(y.e) /\ Images(x.e) # Images(y.e)
        /\ e = "yes" <=> Images(x.e) = Images(y.e)
    BY <1>1, <1>5, NoneBoth DEF LessHere, EqualHere
  <2> HIDE DEF l, r, e
  <2> QED BY <2>2, <2>3 DEF YesNo
<1>6. CASE ~Rankable(x, y) /\ ~Listed(x, y) /\ ~OfType(x, y, "set")
  BY <1>0, <1>6, FailsIs
<1> HIDE DEF l, r, e
<1> QED BY <1>0, <1>2, <1>3, <1>4, <1>5, <1>6, SliceCases

-----------------------------------------------------------------------------
(* What is answered stays so one level deeper. *)
Certain == {"yes", "no"}
Extends(c, d) ==
  \A op \in Operators, x, y \in Comparands : c[op][x][y] \in Certain => d[op][x][y] = c[op][x][y]

LEMMA EqualExtends ==
  ASSUME NEW c, NEW d, NEW x \in Comparands, NEW y \in Comparands,
         Extends(c, d), Eq(c, x, y) \in Certain
  PROVE  Eq(d, x, y) = Eq(c, x, y)
BY Answering DEF Extends, Eq

LEMMA DecidesExtends ==
  ASSUME NEW c, NEW d, NEW p \in Seq(Comparands), NEW q \in Seq(Comparands), NEW i,
         Extends(c, d), Decides(c, p, q, i), Eq(c, p[i], q[i]) = "no"
  PROVE  Decides(d, p, q, i) /\ Eq(d, p[i], q[i]) = "no"
<1>1. i \in Both(p, q) /\ \A j \in 1 .. i : p[j] \in Comparands /\ q[j] \in Comparands
  BY BothIs DEF Decides
<1>2. i \in Nat /\ i \in 1 .. i
  BY <1>1, BothIs
<1>3. Eq(d, p[i], q[i]) = "no"
  BY <1>1, <1>2, EqualExtends DEF Certain
<1>4. \A j \in 1 .. i - 1 : j \in 1 .. i /\ Eq(c, p[j], q[j]) = "yes"
  BY <1>2 DEF Decides
<1>5. \A j \in 1 .. i - 1 : Eq(d, p[j], q[j]) = "yes"
  BY <1>1, <1>4, EqualExtends DEF Certain
<1> QED BY <1>1, <1>3, <1>5 DEF Decides

LEMMA AllExtends ==
  ASSUME NEW c, NEW d, NEW p \in Seq(Comparands), NEW q \in Seq(Comparands),
         Extends(c, d), AllEqual(c, p, q)
  PROVE  AllEqual(d, p, q)
<1>1. \A i \in Both(p, q) : p[i] \in Comparands /\ q[i] \in Comparands
  BY BothIs
<1> QED BY <1>1, EqualExtends DEF AllEqual, Certain

LEMMA SlicesExtend ==
  ASSUME NEW c, NEW d, NEW p \in Seq(Comparands), NEW q \in Seq(Comparands), NEW op \in Operators,
         Answered(c), Extends(c, d), SliceCompare(op, p, q, c) \in Certain
  PROVE  SliceCompare(op, p, q, d) = SliceCompare(op, p, q, c)
<1>1. CASE Len(p) # Len(q) /\ op \in Equality
  BY <1>1, SliceUneven
<1>2. CASE (Len(p) = Len(q) \/ op \notin Equality) /\ AllEqual(c, p, q)
  BY <1>2, AllExtends, SliceEqual
<1>3. ASSUME Len(p) = Len(q) \/ op \notin Equality, NEW i \in Both(p, q), Decides(c, p, q, i)
      PROVE  SliceCompare(op, p, q, d) = SliceCompare(op, p, q, c)
  <2>1. p[i] \in Comparands /\ q[i] \in Comparands /\ Eq(c, p[i], q[i]) \in {"no", "depth"}
    BY <1>3, DecidedIs
  <2>2. SliceCompare(op, p, q, c) = Decision(op, c, p, q, i)
    BY <1>3, SliceDecided
  <2>3. Eq(c, p[i], q[i]) = "no"
    BY <2>1, <2>2 DEF Decision, Certain, Failures
  <2>4. Decides(d, p, q, i) /\ Eq(d, p[i], q[i]) = "no"
    BY <1>3, <2>3, DecidesExtends
  <2>5. SliceCompare(op, p, q, d) = Decision(op, d, p, q, i)
    BY <1>3, <2>4, SliceDecided
  <2>6. op \notin Equality => c[op][p[i]][q[i]] \in Certain
    BY <2>2, <2>3 DEF Decision, Failures
  <2>7. op \notin Equality => d[op][p[i]][q[i]] = c[op][p[i]][q[i]]
    BY <2>1, <2>6 DEF Extends
  <2> QED BY <2>2, <2>3, <2>4, <2>5, <2>7 DEF Decision, Failures
<1> QED BY <1>1, <1>2, <1>3, SliceCases

LEMMA VerdictExtends ==
  ASSUME NEW c, NEW d, NEW p \in Seq(Comparands), NEW q \in Seq(Comparands), NEW j \in Pairs(p),
         Keyed(q), Extends(c, d), Found(p, q, j), Verdict(c, p, q, j) \in Certain
  PROVE  Verdict(d, p, q, j) = Verdict(c, p, q, j)
<1>1. PICK k \in Pairs(q) : AsKey(p[2 * j - 1]) = AsKey(q[2 * k - 1])
  BY FoundKey
<1>2. p[2 * j] \in Comparands /\ q[2 * k] \in Comparands
  BY InPairs
<1>3. Verdict(c, p, q, j) = Eq(c, p[2 * j], q[2 * k])
  BY <1>1, FoundIs
<1>4. Verdict(d, p, q, j) = Eq(d, p[2 * j], q[2 * k])
  BY <1>1, FoundIs
<1> QED BY <1>2, <1>3, <1>4, EqualExtends

LEMMA DictsExtend ==
  ASSUME NEW c, NEW d, NEW p \in Seq(Comparands), NEW q \in Seq(Comparands),
         Answered(c), Keyed(q), Extends(c, d), DictsEqual(p, q, c) \in Certain
  PROVE  DictsEqual(p, q, d) = DictsEqual(p, q, c)
<1>1. CASE Len(p) # Len(q)
  <2>1. DictsEqual(p, q, c) = "no"
    BY <1>1, DictCases
  <2>2. DictsEqual(p, q, d) = "no"
    BY <1>1, DictCases
  <2> QED BY <2>1, <2>2
<1>2. CASE Same(c, p, q)
  <2>1. ASSUME NEW j \in Pairs(p), NEW k \in Pairs(q), Matches(c, p, q, j, k)
        PROVE  Matches(d, p, q, j, k)
    <3>1. p[2 * j] \in Comparands /\ q[2 * k] \in Comparands
      BY InPairs
    <3> QED BY <2>1, <3>1, EqualExtends DEF Matches, Certain
  <2>2. Same(d, p, q)
    BY <1>2, <2>1 DEF Same
  <2>3. DictsEqual(p, q, c) = "yes"
    BY <1>2, DictCases
  <2>4. DictsEqual(p, q, d) = "yes"
    BY <2>2, DictCases
  <2> QED BY <2>3, <2>4
<1>3. CASE Len(p) = Len(q) /\ ~Same(c, p, q)
  <2>1. PICK j \in Pairs(p) : Differs(c, p, q, j)
    BY <1>3, DictCases
  <2>2. DictsEqual(p, q, c) = IF ~Found(p, q, j) THEN "no" ELSE Verdict(c, p, q, j)
    BY <1>3, <2>1, DictCases
  <2>3. Found(p, q, j) => Verdict(c, p, q, j) \in Certain /\ Verdict(c, p, q, j) # "yes"
    BY <2>1, <2>2 DEF Differs
  <2>4. Found(p, q, j) => Verdict(d, p, q, j) = Verdict(c, p, q, j)
    BY <2>3, VerdictExtends
  <2>5. \A i \in Pairs(p) : i < j => Found(p, q, i) /\ Verdict(d, p, q, i) = "yes"
    <3> TAKE i \in Pairs(p)
    <3> HAVE i < j
    <3>1. Found(p, q, i) /\ Verdict(c, p, q, i) = "yes"
      BY <2>1 DEF Differs
    <3>2. Verdict(c, p, q, i) \in Certain
      BY <3>1 DEF Certain
    <3> QED BY <3>1, <3>2, VerdictExtends
  <2>6. Differs(d, p, q, j)
    BY <2>3, <2>4, <2>5 DEF Differs
  <2>7. DictsEqual(p, q, d) = IF ~Found(p, q, j) THEN "no" ELSE Verdict(d, p, q, j)
    BY <1>3, <2>6, DictCases
  <2> QED BY <2>2, <2>4, <2>7
<1> QED BY <1>1, <1>2, <1>3

LEMMA DeepenedExtends ==
  ASSUME NEW c, NEW d, Answered(c), Answered(d), Extends(c, d)
  PROVE  Extends(Deepened(c), Deepened(d))
<1> SUFFICES ASSUME NEW op \in Operators, NEW x \in Comparands, NEW y \in Comparands,
                    Deepened(c)[op][x][y] \in Certain
             PROVE  Deepened(d)[op][x][y] = Deepened(c)[op][x][y]
  BY DEF Extends
<1>0. x.e \in Seq(Comparands) /\ y.e \in Seq(Comparands)
  BY Typed
<1> DEFINE r == Deepened(c)[op][x][y]
           s == Deepened(d)[op][x][y]
<1> SUFFICES s = r
  OBVIOUS
<1>1. CASE Rankable(x, y)
  BY <1>1, DeepenedIs
<1>2. CASE OfType(x, y, "set")
  BY <1>2, DeepenedIs
<1>3. CASE OfType(x, y, "NoneType")
  BY <1>3, DeepenedIs
<1>4. CASE Apart(x, y)
  BY <1>4, DeepenedIs
<1>5. CASE Listed(x, y)
  <2>1. r = SliceCompare(op, x.e, y.e, c)
    BY <1>5, DeepenedIs
  <2>2. s = SliceCompare(op, x.e, y.e, d)
    BY <1>5, DeepenedIs
  <2> QED BY <1>0, <2>1, <2>2, SlicesExtend
<1>6. CASE OfType(x, y, "dict")
  <2> DEFINE dc == DictsEqual(x.e, y.e, c)
             dd == DictsEqual(x.e, y.e, d)
  <2>1. r = IF op = "==" THEN dc ELSE IF op = "!=" THEN Negated(dc) ELSE "type"
    BY <1>6, DeepenedIs
  <2>2. s = IF op = "==" THEN dd ELSE IF op = "!=" THEN Negated(dd) ELSE "type"
    BY <1>6, DeepenedIs
  <2>3. Keyed(y.e)
    BY <1>6, KeyedIs DEF OfType
  <2>4. dc \in Certain => dd = dc
    BY <1>0, <2>3, DictsExtend
  <2> HIDE DEF dc, dd, s
  <2>5. r \in Certain
    OBVIOUS
  <2> HIDE DEF r
  <2>6. Negated(dc) \in Certain => dc \in Certain
    BY DEF Negated, Certain
  <2> QED BY <2>1, <2>2, <2>4, <2>5, <2>6 DEF Certain
<1> HIDE DEF r, s
<1> QED BY <1>1, <1>2, <1>3, <1>4, <1>5, <1>6, Kinds

-----------------------------------------------------------------------------
(* Equal values are refused an order together; without sets in them, two   *)
(* values that have an order and are unequal are ordered.                  *)
Settled(c) ==
  \A x, y, z \in Comparands :
    Eq(c, x, y) = "yes" /\ ~Fails(c, "<", x, y) /\ Eq(c, x, z) = "yes" => ~Fails(c, "<", x, z)
Connected(c, tot) ==
  \A x, y \in Comparands : x \in tot /\ ~Fails(c, "<", x, y) =>
    Lt(c, x, y) = "yes" \/ Eq(c, x, y) = "yes" \/ Lt(c, y, x) = "yes"
Inside(tot, deep) == \A x \in deep : x.t # "set" /\ \A i \in DOMAIN x.e : x.e[i] \in tot

LEMMA DeepenedSettled ==
  ASSUME NEW c, Answered(c)
  PROVE  Settled(Deepened(c))
<1> SUFFICES ASSUME NEW x \in Comparands, NEW y \in Comparands, NEW z \in Comparands,
                    ~Fails(Deepened(c), "<", x, y), EqualHere(c, x, z)
             PROVE  ~Fails(Deepened(c), "<", x, z)
  BY EqualIs DEF Settled
<1>0. "<" \in Orders
  BY DEF Orders
<1>1. Rankable(x, y) \/ Listed(x, y) \/ OfType(x, y, "set")
  BY <1>0, FailsIs
<1>2. x.t \notin {"dict", "NoneType"}
  BY <1>1 DEF Rankable, Listed, OfType, Ranked
<1>3. Rankable(x, z) \/ (Listed(x, z) /\ AllEqual(c, x.e, z.e)) \/ OfType(x, z, "set")
  BY <1>2 DEF EqualHere, OfType
<1> QED BY <1>0, <1>3, FailsIs

LEMMA DeepenedConnected ==
  ASSUME NEW c, NEW tot, NEW deep, Answered(c), Sharp(c), Symmetric(c), Connected(c, tot), Inside(tot, deep)
  PROVE  Connected(Deepened(c), deep)
<1> SUFFICES ASSUME NEW x \in Comparands, NEW y \in Comparands, x \in deep, ~Fails(Deepened(c), "<", x, y)
             PROVE  LessHere(c, x, y) \/ EqualHere(c, x, y) \/ LessHere(c, y, x)
  BY EqualIs, LessIs DEF Connected
<1>0. /\ x.e \in Seq(Comparands) /\ y.e \in Seq(Comparands) /\ x.n \in Int /\ y.n \in Int
      /\ "<" \in Orders
  BY Typed DEF Orders
<1>1. CASE Rankable(x, y)
  BY <1>0, <1>1, RankableSymmetric DEF LessHere, EqualHere
<1>2. CASE Listed(x, y) /\ AllEqual(c, x.e, y.e)
  <2>1. Listed(y, x) /\ AllEqual(c, y.e, x.e)
    BY <1>0, <1>2, AllMirrored DEF Listed
  <2>2. PICK m \in Nat : m = Len(x.e)
    BY <1>0
  <2>3. PICK n \in Nat : n = Len(y.e)
    BY <1>0
  <2>4. CASE m < n
    BY <1>0, <1>2, <2>2, <2>3, <2>4, AtPrecedes DEF LessHere
  <2>5. CASE n < m
    BY <1>0, <2>1, <2>2, <2>3, <2>5, AtPrecedes DEF LessHere
  <2>6. CASE m = n
    BY <1>2, <2>2, <2>3, <2>6 DEF EqualHere
  <2> QED BY <2>4, <2>5, <2>6
<1>3. ASSUME Listed(x, y), NEW i \in Both(x.e, y.e), Decides(c, x.e, y.e, i)
      PROVE  LessHere(c, x, y) \/ EqualHere(c, x, y) \/ LessHere(c, y, x)
  <2> DEFINE a == x.e[i]
             b == y.e[i]
  <2>1. a \in Comparands /\ b \in Comparands /\ Eq(c, a, b) \in {"no", "depth"}
    BY <1>0, <1>3, DecidedIs
  <2>2. Eq(c, a, b) = "no" /\ ~Fails(c, "<", a, b)
    BY <1>0, <1>3, <2>1, FailsDecided
  <2>3. a \in tot
    <3>1. i \in DOMAIN x.e
      BY DEF Both
    <3> QED BY <3>1 DEF Inside
  <2>4. Listed(y, x) /\ Decides(c, y.e, x.e, i) /\ i \in Both(y.e, x.e)
    BY <1>0, <1>3, DecidesMirrored DEF Listed, Both
  <2>5. Lt(c, a, b) = "yes" => LessHere(c, x, y)
    BY <1>0, <1>3, AtPrecedes DEF LessHere
  <2>6. Lt(c, b, a) = "yes" => LessHere(c, y, x)
    BY <1>0, <2>4, AtPrecedes DEF LessHere
  <2> HIDE DEF a, b
  <2> QED BY <2>1, <2>2, <2>3, <2>5, <2>6 DEF Connected
<1>4. CASE ~Rankable(x, y) /\ ~Listed(x, y)
  <2>1. OfType(x, y, "set")
    BY <1>0, <1>4, FailsIs
  <2> QED BY <2>1 DEF Inside, OfType
<1> QED BY <1>0, <1>1, <1>2, <1>3, <1>4, SliceCases

-----------------------------------------------------------------------------
(* The laws, at every depth. *)
Negating(c) == \A x, y \in Comparands : c["!="][x][y] = Negated(Eq(c, x, y))
Laws(c) ==
  /\ Answered(c) /\ Sharp(c) /\ Symmetric(c) /\ Transitive(c) /\ Reflexive(c) /\ Negating(c)
  /\ RightCongruent(c) /\ LeftCongruent(c) /\ Chained(c)
  /\ Missed(c) /\ Together(c) /\ Mirrored(c) /\ LessOrEqual(c) /\ Settled(c)

LEMMA LawsDeepen == ASSUME NEW c, Laws(c) PROVE Laws(Deepened(c))
<1>1. /\ Answered(c) /\ Sharp(c) /\ Symmetric(c) /\ Transitive(c) /\ Reflexive(c) /\ Negating(c)
      /\ RightCongruent(c) /\ LeftCongruent(c) /\ Chained(c)
      /\ Missed(c) /\ Together(c) /\ Mirrored(c) /\ LessOrEqual(c) /\ Settled(c)
  BY DEF Laws
<1>2. Answered(Deepened(c)) /\ Sharp(Deepened(c))
  BY <1>1, DeepenedTyped, LessSharp
<1>3. Symmetric(Deepened(c)) /\ Transitive(Deepened(c)) /\ Reflexive(Deepened(c))
  BY <1>1, EqualSymmetric, EqualTransitive, DeepenedReflexive
<1>4. Negating(Deepened(c))
  BY <1>1, EqualIs DEF Negating
<1>5. RightCongruent(Deepened(c)) /\ LeftCongruent(Deepened(c)) /\ Chained(Deepened(c))
  BY <1>1, LessChained
<1>6. Missed(Deepened(c)) /\ Together(Deepened(c)) /\ Mirrored(Deepened(c))
  BY <1>1, DeepenedMissed, DeepenedTogether, DeepenedMirrored
<1>7. LessOrEqual(Deepened(c)) /\ Settled(Deepened(c))
  BY <1>1, DeepenedLessOrEqual, DeepenedSettled
<1> QED BY <1>2, <1>3, <1>4, <1>5, <1>6, <1>7 DEF Laws

LEMMA RefusedIs ==
  /\ \A op \in Operators, x, y \in Comparands : Refused[op][x][y] = "depth"
  /\ \A x, y \in Comparands : Eq(Refused, x, y) = "depth" /\ Lt(Refused, x, y) = "depth"
  /\ \A op \in Orders, x, y \in Comparands : Fails(Refused, op, x, y)
<1>1. \A op \in Operators, x, y \in Comparands : Refused[op][x][y] = "depth"
  BY DEF Refused
<1>2. \A x, y \in Comparands : Eq(Refused, x, y) = "depth" /\ Lt(Refused, x, y) = "depth"
  BY <1>1, Answering DEF Eq, Lt
<1>3. Orders \subseteq Operators
  BY DEF Orders, Operators
<1>4. \A op \in Orders, x, y \in Comparands : Fails(Refused, op, x, y)
  BY <1>1, <1>3, NotFailures DEF Fails
<1> QED BY <1>1, <1>2, <1>4

LEMMA LawsRefused == Laws(Refused)
<1>1. Answered(Refused) /\ Sharp(Refused) /\ Symmetric(Refused) /\ Transitive(Refused)
  BY RefusedTyped, RefusedIs DEF Sharp, Symmetric, Transitive
<1>2. Reflexive(Refused)
  BY RefusedIs DEF Reflexive
<1>3. Negating(Refused)
  BY RefusedIs, Answering DEF Negating, Negated
<1>4. RightCongruent(Refused) /\ LeftCongruent(Refused) /\ Chained(Refused)
  BY RefusedIs DEF RightCongruent, LeftCongruent, Chained
<1>5. "<" \in Orders /\ Orders \subseteq Operators
  BY DEF Orders, Operators
<1>6. Missed(Refused) /\ Together(Refused) /\ LessOrEqual(Refused) /\ Settled(Refused)
  BY <1>5, RefusedIs DEF Missed, Together, LessOrEqual, Settled
<1>7. Mirrored(Refused)
  BY <1>5, RefusedIs DEF Mirrored, Agree
<1> QED BY <1>1, <1>2, <1>3, <1>4, <1>6, <1>7 DEF Laws

LEMMA LawsHold == \A d \in 0 .. CompareLimit : Laws(comparison[d])
<1>1. CompareLimit \in Nat
  BY OrderingAssumption
<1> DEFINE T == {d \in Nat : d <= CompareLimit => Laws(comparison[d])}
<1>2. 0 \in T
  BY ComparisonIs, LawsRefused
<1>3. ASSUME NEW d \in Nat, d \in T PROVE d + 1 \in T
  <2> SUFFICES ASSUME d + 1 <= CompareLimit PROVE Laws(comparison[d + 1])
    OBVIOUS
  <2>1. PICK e \in 1 .. CompareLimit : e = d + 1 /\ e - 1 = d
    BY <1>1
  <2>2. Laws(comparison[d])
    BY <1>1, <1>3
  <2>3. comparison[e] = Deepened(comparison[d])
    BY <2>1, ComparisonIs
  <2>4. Laws(comparison[e])
    BY <2>2, <2>3, LawsDeepen
  <2> QED BY <2>1, <2>4
<1>4. Nat \subseteq T
  <2> HIDE DEF T
  <2> QED BY <1>2, <1>3, SetInduction
<1> QED BY <1>1, <1>4

LEMMA DepthExtends == \A d \in 1 .. CompareLimit : Extends(comparison[d - 1], comparison[d])
<1>1. CompareLimit \in Nat
  BY OrderingAssumption
<1> DEFINE T == {d \in Nat : d + 1 <= CompareLimit => Extends(comparison[d], comparison[d + 1])}
<1>2. 0 \in T
  <2>1. Extends(Refused, comparison[1])
    BY RefusedIs DEF Extends, Certain
  <2> QED BY <2>1, ComparisonIs
<1>3. ASSUME NEW d \in Nat, d \in T PROVE d + 1 \in T
  <2> SUFFICES ASSUME d + 1 + 1 <= CompareLimit PROVE Extends(comparison[d + 1], comparison[d + 1 + 1])
    OBVIOUS
  <2>1. PICK e \in 1 .. CompareLimit : e = d + 1 /\ e - 1 = d
    BY <1>1
  <2>2. PICK f \in 1 .. CompareLimit : f = d + 1 + 1 /\ f - 1 = e
    BY <1>1, <2>1
  <2>3. Extends(comparison[d], comparison[e])
    BY <1>3, <2>1
  <2>4. comparison[e] = Deepened(comparison[d]) /\ comparison[f] = Deepened(comparison[e])
    BY <2>1, <2>2, ComparisonIs
  <2>5. d \in 0 .. CompareLimit /\ e \in 0 .. CompareLimit
    BY <1>1, <2>1
  <2>6. Answered(comparison[d]) /\ Answered(comparison[e])
    BY <2>5, ComparisonIs
  <2>7. Extends(comparison[e], comparison[f])
    BY <2>3, <2>4, <2>6, DeepenedExtends
  <2> QED BY <2>1, <2>2, <2>7
<1>4. Nat \subseteq T
  <2> HIDE DEF T
  <2> QED BY <1>2, <1>3, SetInduction
<1>5. ASSUME NEW d \in 1 .. CompareLimit PROVE Extends(comparison[d - 1], comparison[d])
  <2>1. PICK e \in Nat : e = d - 1 /\ e + 1 = d
    BY <1>1
  <2>2. e \in T
    BY <1>4
  <2> QED BY <1>1, <2>1, <2>2
<1> QED BY <1>5

-----------------------------------------------------------------------------
(* No sets at a depth of a value, and none at the one before in its elements. *)
LEMMA TotalIs ==
  /\ \A x \in Comparands : total[0][x]
  /\ \A d \in 1 .. CompareLimit : \A x \in Comparands :
       total[d][x] <=> x.t # "set" /\ \A i \in DOMAIN x.e : total[d - 1][x.e[i]]
<1> DEFINE S == [Comparands -> BOOLEAN]
           Fine(g, x) == x.t # "set" /\ \A i \in DOMAIN x.e : g[x.e[i]]
           base == [x \in Comparands |-> TRUE]
           st == [d \in 1 .. CompareLimit |-> [g \in S |-> [x \in Comparands |-> Fine(g, x)]]]
           Body(f, d) == [x \in Comparands |-> d > 0 => Fine(f[d - 1], x)]
<1>1. CompareLimit \in Nat
  BY OrderingAssumption
<1>2. base \in S /\ \A x \in Comparands : base[x] = TRUE
  OBVIOUS
<1>3. \A g \in S : [x \in Comparands |-> Fine(g, x)] \in S
  <2> TAKE g \in S
  <2>1. \A x \in Comparands : Fine(g, x) \in BOOLEAN
    BY Zenon
  <2> HIDE DEF Fine
  <2> QED BY <2>1
<1> HIDE DEF S, Fine, base
<1>4. st \in StepsOn(S, CompareLimit)
  BY <1>3 DEF StepsOn
<1>5. \A d \in 1 .. CompareLimit : \A g \in S : st[d][g] = [x \in Comparands |-> Fine(g, x)]
  OBVIOUS
<1> HIDE DEF st
<1>6. PICK f : Follows(f, S, CompareLimit, base, st)
  BY <1>1, <1>2, <1>4, Recursion, Zenon
<1>7. ASSUME NEW d \in 1 .. CompareLimit PROVE f[d] = [x \in Comparands |-> Fine(f[d - 1], x)]
  <2>1. d - 1 \in 0 .. CompareLimit
    BY <1>1
  <2> QED BY <1>5, <1>6, <2>1 DEF Follows
<1>8. ASSUME NEW d \in 0 .. CompareLimit PROVE f[d] = Body(f, d)
  <2>1. CASE d = 0
    <3>1. \A x \in Comparands : (d > 0 => Fine(f[d - 1], x)) = TRUE
      BY <2>1
    <3>2. Body(f, d) = base
      BY <3>1 DEF base
    <3> QED BY <1>6, <2>1, <3>2 DEF Follows
  <2>2. CASE d # 0
    <3>1. d \in 1 .. CompareLimit /\ d > 0
      BY <1>1, <2>2
    <3>2. \A x \in Comparands : Fine(f[d - 1], x) \in BOOLEAN
      BY Zenon DEF Fine
    <3>3. \A x \in Comparands : (d > 0 => Fine(f[d - 1], x)) = Fine(f[d - 1], x)
      BY <3>1, <3>2
    <3>4. Body(f, d) = [x \in Comparands |-> Fine(f[d - 1], x)]
      BY <3>3
    <3> QED BY <1>7, <3>1, <3>4
  <2> QED BY <2>1, <2>2
<1> HIDE DEF Body
<1>9. f = [d \in 0 .. CompareLimit |-> Body(f, d)]
  <2>1. f = [d \in 0 .. CompareLimit |-> f[d]]
    BY <1>6 DEF Follows
  <2> QED BY <1>8, <2>1, Zenon
<1>10. total = [d \in 0 .. CompareLimit |-> Body(total, d)]
  <2>1. total = CHOOSE g : g = [d \in 0 .. CompareLimit |-> Body(g, d)]
    BY Zenon DEF total, Body, Fine
  <2> QED BY <1>9, <2>1, Zenon
<1>11. \A d \in 0 .. CompareLimit : total[d] = Body(total, d)
  BY <1>10
<1>12. ASSUME NEW x \in Comparands PROVE total[0][x]
  <2>1. 0 \in 0 .. CompareLimit
    BY <1>1
  <2>2. total[0][x] = (0 > 0 => Fine(total[0 - 1], x))
    BY <1>11, <2>1 DEF Body
  <2>3. (0 > 0 => Fine(total[0 - 1], x)) = TRUE
    OBVIOUS
  <2>4. total[0][x] = TRUE
    BY <2>2, <2>3, Zenon
  <2> QED BY <2>4
<1>13. ASSUME NEW d \in 1 .. CompareLimit, NEW x \in Comparands
       PROVE  total[d][x] <=> Fine(total[d - 1], x)
  <2>1. d \in 0 .. CompareLimit /\ d > 0
    BY <1>1
  <2>2. total[d][x] = (d > 0 => Fine(total[d - 1], x))
    BY <1>11, <2>1 DEF Body
  <2> QED BY <2>1, <2>2
<1> QED BY <1>12, <1>13 DEF Fine

TotalAt(d) == {x \in Comparands : total[d][x]}

LEMMA TotalInside == \A d \in 1 .. CompareLimit : Inside(TotalAt(d - 1), TotalAt(d))
<1> SUFFICES ASSUME NEW d \in 1 .. CompareLimit, NEW x \in TotalAt(d)
             PROVE  x.t # "set" /\ \A i \in DOMAIN x.e : x.e[i] \in TotalAt(d - 1)
  BY DEF Inside
<1>1. x \in Comparands /\ x.t # "set" /\ \A i \in DOMAIN x.e : total[d - 1][x.e[i]]
  BY TotalIs DEF TotalAt
<1>2. x.e \in Seq(Comparands)
  BY <1>1, Typed
<1>3. \A i \in DOMAIN x.e : x.e[i] \in Comparands
  BY <1>2
<1> QED BY <1>1, <1>3 DEF TotalAt

LEMMA ConnectedHolds == \A d \in 0 .. CompareLimit : Connected(comparison[d], TotalAt(d))
<1>1. CompareLimit \in Nat
  BY OrderingAssumption
<1> DEFINE T == {d \in Nat : d <= CompareLimit => Connected(comparison[d], TotalAt(d))}
<1>2. 0 \in T
  <2>1. "<" \in Orders
    BY DEF Orders
  <2>2. Connected(Refused, TotalAt(0))
    BY <2>1, RefusedIs DEF Connected
  <2> QED BY <2>2, ComparisonIs
<1>3. ASSUME NEW d \in Nat, d \in T PROVE d + 1 \in T
  <2> SUFFICES ASSUME d + 1 <= CompareLimit PROVE Connected(comparison[d + 1], TotalAt(d + 1))
    OBVIOUS
  <2>1. PICK e \in 1 .. CompareLimit : e = d + 1 /\ e - 1 = d
    BY <1>1
  <2>2. Connected(comparison[d], TotalAt(d)) /\ d \in 0 .. CompareLimit
    BY <1>1, <1>3
  <2>3. comparison[e] = Deepened(comparison[d]) /\ Inside(TotalAt(d), TotalAt(e))
    BY <2>1, ComparisonIs, TotalInside
  <2>4. Laws(comparison[d])
    BY <2>2, LawsHold
  <2>5. Connected(comparison[e], TotalAt(e))
    BY <2>2, <2>3, <2>4, DeepenedConnected DEF Laws
  <2> QED BY <2>1, <2>5
<1>4. Nat \subseteq T
  <2> HIDE DEF T
  <2> QED BY <1>2, <1>3, SetInduction
<1> QED BY <1>1, <1>4

-----------------------------------------------------------------------------
(* Comparison as a program asks for it. *)
Full == comparison[CompareLimit]

LEMMA FullIs ==
  /\ Laws(Full) /\ Connected(Full, TotalAt(CompareLimit)) /\ Extends(Full, Deepened(Full))
  /\ \A op, x, y : Compare(op, x, y) = Full[op][x][y]
  /\ \A x, y : Compare("==", x, y) = Eq(Full, x, y) /\ Compare("<", x, y) = Lt(Full, x, y)
<1>1. CompareLimit \in Nat /\ CompareLimit \in 0 .. CompareLimit /\ CompareLimit \in 1 .. CompareLimit
  BY OrderingAssumption
<1>2. Laws(Full) /\ Connected(Full, TotalAt(CompareLimit))
  BY <1>1, LawsHold, ConnectedHolds DEF Full
<1>3. Extends(Full, Deepened(Full))
  <2>1. CompareLimit - 1 \in 0 .. CompareLimit
    BY <1>1
  <2>2. Answered(comparison[CompareLimit - 1]) /\ Answered(Full)
    BY <1>1, <2>1, ComparisonIs DEF Full
  <2>3. Extends(comparison[CompareLimit - 1], Full)
    BY <1>1, DepthExtends DEF Full
  <2>4. Full = Deepened(comparison[CompareLimit - 1])
    BY <1>1, ComparisonIs DEF Full
  <2> QED BY <2>2, <2>3, <2>4, DeepenedExtends
<1>4. \A op, x, y : Compare(op, x, y) = Full[op][x][y]
  BY DEF Compare, CompareDepth, Full
<1> QED BY <1>2, <1>3, <1>4 DEF Eq, Lt

LEMMA LexicographicIs ==
  ASSUME NEW p \in Seq(Comparands), NEW q \in Seq(Comparands)
  PROVE  Lexicographic(p, q) <=> Precedes(Full, p, q)
<1>1. PICK m \in Nat : m = Len(p) /\ DOMAIN p = 1 .. m
  OBVIOUS
<1>2. PICK n \in Nat : n = Len(q) /\ DOMAIN q = 1 .. n
  OBVIOUS
<1>3. Lexicographic(p, q) <=>
        \E i \in (1 .. m \cap 1 .. n) \cup {0} :
          /\ \A j \in 1 .. i : Eq(Full, p[j], q[j]) = "yes"
          /\ i < n
          /\ i = m \/ Lt(Full, p[i + 1], q[i + 1]) = "yes"
  <2>1. \A x, y : Compare("==", x, y) = Eq(Full, x, y) /\ Compare("<", x, y) = Lt(Full, x, y)
    BY FullIs
  <2>2. Lexicographic(p, q) <=>
          \E i \in (DOMAIN p \cap DOMAIN q) \cup {0} :
            /\ \A j \in 1 .. i : Eq(Full, p[j], q[j]) = "yes"
            /\ i < Len(q)
            /\ i = Len(p) \/ Lt(Full, p[i + 1], q[i + 1]) = "yes"
    BY <2>1, Zenon DEF Lexicographic
  <2> QED BY <1>1, <1>2, <2>2, Zenon
<1>4. \A i : i \in (1 .. m \cap 1 .. n) \cup {0} /\ i < n <=> i \in Nat /\ i <= m /\ i < n
  OBVIOUS
<1> QED BY <1>1, <1>2, <1>3, <1>4 DEF Precedes

LEMMA LessLexicographic ==
  ASSUME NEW x \in Comparands, NEW y \in Comparands, Listed(x, y), ~Fails(Full, "<", x, y)
  PROVE  Lt(Full, x, y) = "yes" <=> Lexicographic(x.e, y.e)
<1>1. Answered(Full) /\ Sharp(Full)
  BY FullIs DEF Laws
<1>2. "<" \in Operators
  BY Answering
<1>3. Full["<"][x][y] \in Certain
  <2>1. Full["<"][x][y] \in Answers
    BY <1>1, <1>2, AnswersAre DEF Answered
  <2> QED BY <2>1 DEF Fails, Answers, Certain
<1>4. Deepened(Full)["<"][x][y] = Full["<"][x][y]
  BY <1>2, <1>3, FullIs DEF Extends
<1>5. Lt(Full, x, y) = "yes" <=> LessHere(Full, x, y)
  BY <1>1, <1>4, LessIs DEF Lt
<1>6. LessHere(Full, x, y) <=> Precedes(Full, x.e, y.e)
  BY NoneBoth DEF LessHere
<1>7. x.e \in Seq(Comparands) /\ y.e \in Seq(Comparands)
  BY Typed
<1> QED BY <1>5, <1>6, <1>7, LexicographicIs

LEMMA MoreIs ==
  ASSUME NEW x \in Comparands, NEW y \in Comparands
  PROVE  /\ Full[">"][y][x] = "yes" <=> Lt(Full, x, y) = "yes"
         /\ Full[">"][y][x] \in Failures <=> Fails(Full, "<", x, y)
<1>1. "<" \in Orders /\ ">" \in Orders /\ Opposite("<", ">")
  BY DEF Orders, Opposite
<1>2. Agree(Lt(Full, x, y), Full[">"][y][x])
  BY <1>1, FullIs DEF Laws, Mirrored, Lt
<1> QED BY <1>2 DEF Agree, Fails, Lt, Failures

LEMMA Trichotomy ==
  ASSUME NEW x \in Comparands, NEW y \in Comparands, x \in TotalAt(CompareLimit), ~Fails(Full, "<", x, y)
  PROVE  Cardinality({r \in {"<", "==", ">"} : Compare(r, x, y) = "yes"}) = 1
<1> DEFINE lt == Compare("<", x, y) = "yes"
           eq == Compare("==", x, y) = "yes"
           gt == Compare(">", x, y) = "yes"
           R == {r \in {"<", "==", ">"} : Compare(r, x, y) = "yes"}
<1>1. /\ Sharp(Full) /\ Symmetric(Full) /\ Chained(Full)
      /\ Connected(Full, TotalAt(CompareLimit))
  BY FullIs DEF Laws
<1>2. (lt <=> Lt(Full, x, y) = "yes") /\ (eq <=> Eq(Full, x, y) = "yes") /\ (gt <=> Lt(Full, y, x) = "yes")
  BY FullIs, MoreIs
<1>3. lt \/ eq \/ gt
  BY <1>1, <1>2 DEF Connected
<1>4. ~(lt /\ eq)
  BY <1>1, <1>2 DEF Sharp
<1>5. ~(gt /\ eq)
  BY <1>1, <1>2 DEF Sharp, Symmetric
<1>6. ~(lt /\ gt)
  <2> SUFFICES ASSUME Lt(Full, x, y) = "yes", Lt(Full, y, x) = "yes" PROVE FALSE
    BY <1>2
  <2>1. Lt(Full, x, x) = "yes"
    BY <1>1 DEF Chained
  <2>2. Eq(Full, x, x) = "no"
    BY <1>1, <2>1 DEF Sharp
  <2>3. Eq(Full, x, x) \in {"yes", "depth"}
    BY FullIs DEF Laws, Reflexive
  <2> QED BY <2>2, <2>3
<1>7. \A r : r \in R <=> (r = "<" /\ lt) \/ (r = "==" /\ eq) \/ (r = ">" /\ gt)
  BY Zenon
<1> HIDE DEF R, lt, eq, gt
<1>8. R = {"<"} \/ R = {"=="} \/ R = {">"}
  BY <1>3, <1>4, <1>5, <1>6, <1>7
<1>9. \A a : Cardinality({a}) = 1
  BY FS_Singleton
<1> QED BY <1>8, <1>9 DEF R

LEMMA LessEqual ==
  ASSUME NEW x \in Comparands, NEW y \in Comparands
  PROVE  Full["<="][x][y] = "yes" <=>
           ~Fails(Full, "<", x, y) /\ (Lt(Full, x, y) = "yes" \/ Eq(Full, x, y) = "yes")
<1>1. LessOrEqual(Full) /\ Together(Full) /\ "<=" \in Orders
  BY FullIs DEF Laws, Orders
<1>2. Fails(Full, "<=", x, y) <=> Fails(Full, "<", x, y)
  BY <1>1 DEF Together
<1>3. Full["<="][x][y] = "yes" => ~Fails(Full, "<=", x, y)
  BY DEF Fails, Failures
<1>4. ~Fails(Full, "<", x, y) =>
        Full["<="][x][y] = YesNo(Lt(Full, x, y) = "yes" \/ Eq(Full, x, y) = "yes")
  BY <1>1 DEF LessOrEqual
<1> QED BY <1>2, <1>3, <1>4 DEF YesNo

LEMMA LessEqualChained ==
  ASSUME NEW x \in Comparands, NEW y \in Comparands, NEW z \in Comparands,
         Full["<="][x][y] = "yes", Full["<="][y][z] = "yes"
  PROVE  Full["<="][x][z] = "yes"
<1>1. /\ Transitive(Full) /\ RightCongruent(Full) /\ LeftCongruent(Full) /\ Chained(Full)
      /\ Settled(Full)
  BY FullIs DEF Laws
<1>2. ~Fails(Full, "<", x, y) /\ (Lt(Full, x, y) = "yes" \/ Eq(Full, x, y) = "yes")
  BY LessEqual
<1>3. Lt(Full, y, z) = "yes" \/ Eq(Full, y, z) = "yes"
  BY LessEqual
<1>4. CASE Lt(Full, x, y) = "yes" \/ Lt(Full, y, z) = "yes"
  <2>1. Lt(Full, x, z) = "yes"
    BY <1>1, <1>2, <1>3, <1>4 DEF RightCongruent, LeftCongruent, Chained
  <2>2. ~Fails(Full, "<", x, z)
    BY <2>1 DEF Fails, Lt, Failures
  <2> QED BY <2>1, <2>2, LessEqual
<1>5. CASE Eq(Full, x, y) = "yes" /\ Eq(Full, y, z) = "yes"
  <2>1. Eq(Full, x, z) = "yes"
    BY <1>1, <1>5 DEF Transitive
  <2>2. ~Fails(Full, "<", x, z)
    BY <1>1, <1>2, <1>5, <2>1 DEF Settled
  <2> QED BY <2>1, <2>2, LessEqual
<1> QED BY <1>2, <1>3, <1>4, <1>5

LEMMA LawfulIs ==
  ASSUME NEW x \in Comparands, NEW y \in Comparands, NEW z \in Comparands
  PROVE  Lawful(x, y, z)
<1> DEFINE eq == Compare("==", x, y)
           lt == Compare("<", x, y)
<1>0. /\ \A op, a, b : Compare(op, a, b) = Full[op][a][b]
      /\ \A a, b : Compare("==", a, b) = Eq(Full, a, b) /\ Compare("<", a, b) = Lt(Full, a, b)
  BY FullIs
<1>1. (lt \in Failures <=> Fails(Full, "<", x, y)) /\ eq = Eq(Full, x, y) /\ lt = Lt(Full, x, y)
  BY <1>0 DEF Fails
<1>2. Compare("!=", x, y) = Negated(eq)
  BY <1>0, FullIs DEF Laws, Negating
<1>3. eq = "yes" <=> Compare("==", y, x) = "yes"
  BY <1>0, FullIs DEF Laws, Symmetric
<1>4. Agree(lt, Compare(">", y, x)) /\ Agree(Compare("<=", x, y), Compare(">=", y, x))
  <2>1. {"<", "<=", ">", ">="} \subseteq Orders /\ Opposite("<", ">") /\ Opposite("<=", ">=")
    BY DEF Orders, Opposite
  <2> QED BY <1>0, <2>1, FullIs DEF Laws, Mirrored
<1>5. Compare("==", x, x) \in {"yes", "depth"}
  BY <1>0, FullIs DEF Laws, Reflexive
<1>6. eq = "yes" /\ Compare("==", y, z) = "yes" => Compare("==", x, z) = "yes"
  BY <1>0, FullIs DEF Laws, Transitive
<1>7. lt \in Failures <=> Compare("<=", x, y) \in Failures
  <2>1. "<=" \in Orders
    BY DEF Orders
  <2> QED BY <1>0, <1>1, <2>1, FullIs DEF Laws, Together, Fails
<1>8. lt \notin Failures => Compare("<=", x, y) = YesNo(lt = "yes" \/ eq = "yes")
  BY <1>0, <1>1, FullIs DEF Laws, LessOrEqual
<1>9. lt \notin Failures /\ x.t = y.t /\ x.t \in {"list", "tuple"} =>
        (lt = "yes" <=> Lexicographic(x.e, y.e))
  BY <1>1, LessLexicographic DEF Listed
<1>10. lt \notin Failures /\ Total(x) =>
         Cardinality({r \in {"<", "==", ">"} : Compare(r, x, y) = "yes"}) = 1
  <2>1. Total(x) => x \in TotalAt(CompareLimit)
    BY DEF Total, TotalAt
  <2> QED BY <1>1, <2>1, Trichotomy
<1>11. Compare("<=", x, y) = "yes" /\ Compare("<=", y, z) = "yes" => Compare("<=", x, z) = "yes"
  BY <1>0, LessEqualChained
<1>12. lt = "yes" => eq = "no"
  BY <1>1, FullIs DEF Laws, Sharp
<1> QED BY <1>2, <1>3, <1>4, <1>5, <1>6, <1>7, <1>8, <1>9, <1>10, <1>11, <1>12 DEF Lawful

(* NaN is a number like others, and the greatest; None is refused. *)
LEMMA OtherwiseIs ==
  ASSUME NEW x \in Comparands, NEW y \in Comparands, NEW z \in Comparands
  PROVE  ComparedOtherwise(x, y, z)
<1> DEFINE c == comparison[CompareLimit - 1]
<1>1. \A op : Compare(op, x, y) = Deepened(c)[op][x][y]
  <2>1. CompareLimit \in 1 .. CompareLimit
    BY OrderingAssumption
  <2>2. comparison[CompareLimit] = Deepened(c)
    BY <2>1, ComparisonIs
  <2> QED BY <2>2 DEF Compare, CompareDepth
<1> HIDE DEF c
<1>2. \A op \in Operators :
        Compare(op, x, y) =
          IF x.t = y.t THEN CompareSameType(op, x, y, c)
          ELSE IF {x.t, y.t} = {"int", "float"} THEN Threeway(op, x.n - y.n)
          ELSE IF op \in Equality THEN YesNo(op = "!=") ELSE "type"
  BY <1>1 DEF Deepened
<1>3. {"==", "<=", ">"} \subseteq Operators
  BY Answering
<1>4. ASSUME IsNaN(x), y.t \in Numeric
      PROVE  /\ Compare("==", x, y) = YesNo(IsNaN(y))
             /\ Compare(">", x, y) = YesNo(~IsNaN(y))
  <2>1. x.t = "float" /\ x.n = NaN /\ NaN \in Int /\ y.n \in Int
    BY <1>4, Typed, OrderingAssumption DEF IsNaN
  <2>2. ASSUME NEW op \in Operators PROVE Compare(op, x, y) = Threeway(op, x.n - y.n)
    <3>1. CASE y.t = "float"
      <4>1. CompareSameType(op, x, y, c) = Threeway(op, x.n - y.n)
        BY <2>1, <3>1 DEF CompareSameType, Ranked
      <4> QED BY <1>2, <2>1, <2>2, <3>1, <4>1
    <3>2. CASE y.t = "int"
      BY <1>2, <2>1, <2>2, <3>2 DEF Numeric
    <3> QED BY <1>4, <3>1, <3>2 DEF Numeric
  <2>3. ~IsNaN(y) => y.n < NaN
    BY <1>4, OrderingAssumption
  <2>4. IsNaN(y) => x.n - y.n = 0
    BY <2>1 DEF IsNaN
  <2>5. ~IsNaN(y) => x.n - y.n > 0
    BY <2>1, <2>3
  <2>6. Compare("==", x, y) = YesNo(x.n - y.n = 0) /\ Compare(">", x, y) = YesNo(x.n - y.n > 0)
    BY <1>3, <2>2 DEF Threeway
  <2>7. (x.n - y.n = 0 <=> IsNaN(y)) /\ (x.n - y.n > 0 <=> ~IsNaN(y))
    BY <2>4, <2>5
  <2> QED BY <2>6, <2>7 DEF YesNo
<1>5. ASSUME x.t = "NoneType", y.t = "NoneType" PROVE Compare("<=", x, y) = "type"
  <2>1. CompareSameType("<=", x, y, c) = "type"
    BY <1>5 DEF CompareSameType, Ranked, Equality
  <2> QED BY <1>2, <1>3, <1>5, <2>1
<1> QED BY <1>4, <1>5, LawfulIs DEF ComparedOtherwise

-----------------------------------------------------------------------------
(* Sorting.  One place of the keys is ahead of another if it has to come   *)
(* before it in the result.                                                *)
KeysOn(k, n) == n \in Nat /\ k \in [1 .. n -> Comparands]
Ahead(k, rev, a, b) ==
  /\ Less(k, rev, a, b) \notin Failures
  /\ Less(k, rev, a, b) = "yes" \/ (Eq(Full, k[a], k[b]) = "yes" /\ a < b)

LEMMA FailsSymmetric ==
  ASSUME NEW x \in Comparands, NEW y \in Comparands, Fails(Full, "<", x, y)
  PROVE  Fails(Full, "<", y, x)
<1>1. Full[">"][y][x] \in Failures
  BY MoreIs
<1>2. ">" \in Orders /\ Together(Full)
  BY FullIs DEF Laws, Orders
<1> QED BY <1>1, <1>2 DEF Together, Fails

LEMMA LessSides ==
  ASSUME NEW k, NEW rev \in BOOLEAN, NEW a, NEW b
  PROVE  Less(k, rev, a, b) = IF rev THEN Lt(Full, k[b], k[a]) ELSE Lt(Full, k[a], k[b])
BY FullIs DEF Less

LEMMA LessFails ==
  ASSUME NEW n, NEW k, NEW rev \in BOOLEAN, KeysOn(k, n), NEW a \in 1 .. n, NEW b \in 1 .. n
  PROVE  Less(k, rev, a, b) \in Answers /\ (Less(k, rev, a, b) \in Failures <=> Fails(Full, "<", k[a], k[b]))
<1>1. k[a] \in Comparands /\ k[b] \in Comparands
  BY DEF KeysOn
<1>2. Fails(Full, "<", k[a], k[b]) <=> Fails(Full, "<", k[b], k[a])
  BY <1>1, FailsSymmetric
<1>3. Lt(Full, k[a], k[b]) \in Answers /\ Lt(Full, k[b], k[a]) \in Answers
  BY <1>1, FullIs, AnswersAre, Answering DEF Laws, Answered, Lt
<1> QED BY <1>2, <1>3, LessSides DEF Fails, Lt

LEMMA AheadChained ==
  ASSUME NEW n, NEW k, NEW rev \in BOOLEAN, KeysOn(k, n),
         NEW a \in 1 .. n, NEW b \in 1 .. n, NEW d \in 1 .. n, Ahead(k, rev, a, b), Ahead(k, rev, b, d)
  PROVE  Ahead(k, rev, a, d)
<1> DEFINE x == k[a]
           y == k[b]
           z == k[d]
<1>0. x \in Comparands /\ y \in Comparands /\ z \in Comparands /\ n \in Nat
  BY DEF KeysOn
<1>1. /\ Symmetric(Full) /\ Transitive(Full) /\ Settled(Full)
      /\ RightCongruent(Full) /\ LeftCongruent(Full) /\ Chained(Full)
  BY FullIs DEF Laws
<1>2. \/ Less(k, rev, a, b) = "yes" \/ Less(k, rev, b, d) = "yes"
      \/ Eq(Full, x, y) = "yes" /\ Eq(Full, y, z) = "yes" /\ a < d
  BY <1>0 DEF Ahead
<1>3. Less(k, rev, a, b) = "yes" \/ Eq(Full, x, y) = "yes"
  BY DEF Ahead
<1>4. Less(k, rev, b, d) = "yes" \/ Eq(Full, y, z) = "yes"
  BY DEF Ahead
<1>5. Less(k, rev, a, b) = IF rev THEN Lt(Full, y, x) ELSE Lt(Full, x, y)
  BY LessSides
<1>6. Less(k, rev, b, d) = IF rev THEN Lt(Full, z, y) ELSE Lt(Full, y, z)
  BY LessSides
<1>7. Less(k, rev, a, d) = IF rev THEN Lt(Full, z, x) ELSE Lt(Full, x, z)
  BY LessSides
<1>8. ~Fails(Full, "<", x, y)
  BY LessFails DEF Ahead
<1>9. Less(k, rev, a, d) \in Failures <=> Fails(Full, "<", x, z)
  BY LessFails
<1> HIDE DEF x, y, z
<1>10. CASE Less(k, rev, a, b) = "yes" \/ Less(k, rev, b, d) = "yes"
  <2>1. /\ Eq(Full, x, y) = "yes" <=> Eq(Full, y, x) = "yes"
        /\ Eq(Full, y, z) = "yes" <=> Eq(Full, z, y) = "yes"
    BY <1>0, <1>1 DEF Symmetric
  <2>2. CASE ~rev
    <3>1. Lt(Full, x, z) = "yes"
      BY <1>0, <1>1, <1>3, <1>4, <1>5, <1>6, <1>10, <2>2 DEF RightCongruent, LeftCongruent, Chained
    <3> QED BY <1>7, <2>2, <3>1 DEF Ahead, Failures
  <2>3. CASE rev
    <3>1. Lt(Full, z, x) = "yes"
      BY <1>0, <1>1, <1>3, <1>4, <1>5, <1>6, <1>10, <2>1, <2>3 DEF RightCongruent, LeftCongruent, Chained
    <3> QED BY <1>7, <2>3, <3>1 DEF Ahead, Failures
  <2> QED BY <2>2, <2>3
<1>11. CASE Eq(Full, x, y) = "yes" /\ Eq(Full, y, z) = "yes" /\ a < d
  <2>1. Eq(Full, x, z) = "yes"
    BY <1>0, <1>1, <1>11 DEF Transitive
  <2>2. ~Fails(Full, "<", x, z)
    BY <1>0, <1>1, <1>8, <1>11, <2>1 DEF Settled
  <2> QED BY <1>9, <1>11, <2>1, <2>2 DEF Ahead, x, z
<1> QED BY <1>2, <1>10, <1>11

LEMMA AheadOtherwise ==
  ASSUME NEW n, NEW k, NEW rev \in BOOLEAN, KeysOn(k, n), NEW a \in 1 .. n, NEW b \in 1 .. n,
         k[a] \in TotalAt(CompareLimit), k[b] \in TotalAt(CompareLimit), b < a,
         Less(k, rev, a, b) \notin Failures, Less(k, rev, a, b) # "yes"
  PROVE  Ahead(k, rev, b, a)
<1> DEFINE x == k[a]
           y == k[b]
<1>0. x \in Comparands /\ y \in Comparands
  BY DEF KeysOn
<1>1. Symmetric(Full) /\ Connected(Full, TotalAt(CompareLimit))
  BY FullIs DEF Laws
<1>2. Less(k, rev, a, b) = IF rev THEN Lt(Full, y, x) ELSE Lt(Full, x, y)
  BY LessSides
<1>3. Less(k, rev, b, a) = IF rev THEN Lt(Full, x, y) ELSE Lt(Full, y, x)
  BY LessSides
<1>4. ~Fails(Full, "<", x, y)
  BY LessFails
<1>5. ~Fails(Full, "<", y, x)
  BY <1>0, <1>4, FailsSymmetric
<1>6. Less(k, rev, b, a) \notin Failures
  BY <1>5, LessFails
<1>7. Lt(Full, x, y) = "yes" \/ Eq(Full, x, y) = "yes" \/ Lt(Full, y, x) = "yes"
  BY <1>0, <1>1, <1>4 DEF Connected
<1>8. Eq(Full, x, y) = "yes" => Eq(Full, y, x) = "yes"
  BY <1>0, <1>1 DEF Symmetric
<1> HIDE DEF x, y
<1> QED BY <1>2, <1>3, <1>6, <1>7, <1>8 DEF Ahead, x, y

-----------------------------------------------------------------------------
(* Moving an element down to its place. *)
Progress(n) == [order : [1 .. n -> 1 .. n], err : {"none"} \cup Failures]
Stops(k, rev, s, j, p) ==
  /\ p \in 1 .. j
  /\ \A q \in p + 1 .. j : Less(k, rev, s.order[j], s.order[q - 1]) = "yes"
  /\ p = 1 \/ Less(k, rev, s.order[j], s.order[p - 1]) # "yes"
Moved(o, j, to) == [i \in DOMAIN o |-> IF i = to THEN o[j] ELSE IF i \in to + 1 .. j THEN o[i - 1] ELSE o[i]]

LEMMA SinkIs ==
  ASSUME NEW n, NEW k, NEW rev \in BOOLEAN, KeysOn(k, n), NEW j \in 1 .. n, NEW s \in Progress(n)
  PROVE  \E to : /\ Stops(k, rev, s, j, to)
                 /\ Sink(k, rev, s, j) =
                      [order |-> Moved(s.order, j, to),
                       err |-> IF to > 1 /\ Less(k, rev, s.order[j], s.order[to - 1]) \in Failures
                               THEN Less(k, rev, s.order[j], s.order[to - 1]) ELSE s.err]
<1> DEFINE less(p) == Less(k, rev, s.order[j], s.order[p - 1])
           S == {p \in 1 .. j : \A q \in p + 1 .. j : less(q) = "yes"}
           to == CHOOSE p \in 1 .. j : /\ \A q \in p + 1 .. j : less(q) = "yes"
                                       /\ p = 1 \/ less(p) # "yes"
<1>0. n \in Nat /\ j \in Nat /\ 1 <= j
  BY DEF KeysOn
<1> HIDE DEF less
<1>1. \E p \in 1 .. j : (\A q \in p + 1 .. j : less(q) = "yes") /\ (p = 1 \/ less(p) # "yes")
  <2>1. j \in S /\ S \subseteq Nat
    BY <1>0
  <2> HIDE DEF S
  <2>2. PICK p \in S : \A l \in S : p <= l
    BY <2>1, LeastExists
  <2> USE DEF S
  <2>3. p \in 1 .. j /\ p \in Nat
    BY <1>0
  <2>4. ASSUME p # 1, less(p) = "yes" PROVE FALSE
    <3>1. p - 1 \in 1 .. j /\ p - 1 < p
      BY <1>0, <2>3, <2>4
    <3>2. \A q \in (p - 1) + 1 .. j : q = p \/ q \in p + 1 .. j
      BY <1>0, <2>3
    <3>3. \A q \in (p - 1) + 1 .. j : less(q) = "yes"
      BY <2>4, <3>2
    <3>4. p - 1 \in S
      BY <3>1, <3>3
    <3> QED BY <2>2, <2>3, <3>1, <3>4
  <2> QED BY <2>3, <2>4
<1>2. to \in 1 .. j /\ (\A q \in to + 1 .. j : less(q) = "yes") /\ (to = 1 \/ less(to) # "yes")
  BY <1>1, Zenon
<1>3. Sink(k, rev, s, j) =
        [order |-> Moved(s.order, j, to),
         err |-> IF to > 1 /\ less(to) \in Failures THEN less(to) ELSE s.err]
  BY Zenon DEF Sink, Moved, less
<1>4. Stops(k, rev, s, j, to)
  BY <1>2, Zenon DEF Stops, less
<1> HIDE DEF to
<1> QED BY <1>3, <1>4 DEF less

(* After j elements: those are in order among themselves, or some two of   *)
(* them have none.                                                         *)
SortedUpTo(k, n, rev, j, s) ==
  /\ s \in Progress(n)
  /\ \A i \in 1 .. j : s.order[i] \in 1 .. j
  /\ \A v \in 1 .. j : \E i \in 1 .. j : s.order[i] = v
  /\ \A i \in j + 1 .. n : s.order[i] = i
  /\ s.err = "none" => \A a, b \in 1 .. j : a < b => Ahead(k, rev, s.order[a], s.order[b])
  /\ s.err # "none" => \E a, b \in 1 .. n : a # b /\ Less(k, rev, a, b) \in Failures

LEMMA SortedStep ==
  ASSUME NEW n, NEW k, NEW rev \in BOOLEAN, KeysOn(k, n), NEW j \in 1 .. n, NEW s,
         \A i \in 1 .. n : k[i] \in TotalAt(CompareLimit),
         SortedUpTo(k, n, rev, j - 1, s)
  PROVE  SortedUpTo(k, n, rev, j, Sink(k, rev, s, j))
<1> DEFINE o == s.order
           less(p) == Less(k, rev, o[j], o[p - 1])
<1>1. n \in Nat /\ j \in Nat /\ 1 <= j /\ j <= n /\ j - 1 \in Nat
  BY DEF KeysOn
<1>2. /\ s \in Progress(n)
      /\ \A i \in 1 .. j - 1 : o[i] \in 1 .. j - 1
      /\ \A v \in 1 .. j - 1 : \E i \in 1 .. j - 1 : o[i] = v
      /\ \A i \in (j - 1) + 1 .. n : o[i] = i
  BY DEF SortedUpTo
<1>3. o \in [1 .. n -> 1 .. n] /\ s.err \in {"none"} \cup Failures
  BY <1>2 DEF Progress
<1>4. o[j] = j
  BY <1>1, <1>2
<1>5. PICK to : /\ Stops(k, rev, s, j, to)
                /\ Sink(k, rev, s, j) =
                     [order |-> Moved(o, j, to),
                      err |-> IF to > 1 /\ less(to) \in Failures THEN less(to) ELSE s.err]
  BY <1>2, SinkIs
<1> DEFINE m == Moved(o, j, to)
           e == IF to > 1 /\ less(to) \in Failures THEN less(to) ELSE s.err
           t == Sink(k, rev, s, j)
<1>6. t.order = m /\ t.err = e /\ t = [order |-> m, err |-> e]
  BY <1>5
<1>7. to \in 1 .. j /\ to \in Nat /\ 1 <= to /\ to <= j
  BY <1>1, <1>5 DEF Stops
<1>8. \A q \in to + 1 .. j : less(q) = "yes"
  BY <1>5 DEF Stops
<1>9. to = 1 \/ less(to) # "yes"
  BY <1>5 DEF Stops
<1>10. DOMAIN o = 1 .. n
  BY <1>3
<1>11. \A i \in 1 .. n : m[i] = IF i = to THEN j ELSE IF i \in to + 1 .. j THEN o[i - 1] ELSE o[i]
  BY <1>4, <1>10 DEF Moved
<1>12. m \in [1 .. n -> 1 .. n]
  <2>1. m = [i \in 1 .. n |-> m[i]]
    BY <1>10 DEF Moved
  <2>2. \A i \in 1 .. n : m[i] \in 1 .. n
    <3> TAKE i \in 1 .. n
    <3>1. i \in to + 1 .. j => i - 1 \in 1 .. n
      BY <1>1, <1>7
    <3> HIDE DEF m, o
    <3> QED BY <1>3, <1>11, <3>1
  <2> HIDE DEF m
  <2> QED BY <2>1, <2>2
<1>13. to > 1 => less(to) \in Answers /\ to - 1 \in 1 .. j - 1 /\ o[to - 1] \in 1 .. j - 1
  <2> SUFFICES ASSUME to > 1
               PROVE  less(to) \in Answers /\ to - 1 \in 1 .. j - 1 /\ o[to - 1] \in 1 .. j - 1
    OBVIOUS
  <2>1. to - 1 \in 1 .. j - 1
    BY <1>1, <1>7
  <2>2. o[to - 1] \in 1 .. j - 1
    BY <1>2, <2>1
  <2>3. o[to - 1] \in 1 .. n /\ o[j] \in 1 .. n
    BY <1>1, <1>4, <2>2
  <2> QED BY <2>1, <2>2, <2>3, LessFails
<1> HIDE DEF less, o, m, t, e
<1>14. t \in Progress(n)
  <2>1. e \in {"none"} \cup Failures
    BY <1>3, <1>13 DEF e
  <2> QED BY <1>6, <1>12, <2>1 DEF Progress
<1>15. \A i \in 1 .. j : m[i] \in 1 .. j
  <2> TAKE i \in 1 .. j
  <2>1. i \in 1 .. n /\ (i \in to + 1 .. j => i - 1 \in 1 .. j - 1)
    BY <1>1, <1>7
  <2>2. i # to /\ i \notin to + 1 .. j => i \in 1 .. j - 1
    BY <1>1, <1>7
  <2>3. \A v \in 1 .. j - 1 : v \in 1 .. j
    BY <1>1
  <2> QED BY <1>1, <1>2, <1>11, <2>1, <2>2, <2>3
<1>16. \A v \in 1 .. j : \E i \in 1 .. j : m[i] = v
  <2> TAKE v \in 1 .. j
  <2>1. CASE v = j
    BY <1>1, <1>7, <1>11, <2>1
  <2>2. CASE v # j
    <3>1. v \in 1 .. j - 1
      BY <1>1, <2>2
    <3>2. PICK i \in 1 .. j - 1 : o[i] = v
      BY <1>2, <3>1
    <3>3. i \in Nat /\ i \in 1 .. j /\ i \in 1 .. n /\ i + 1 \in 1 .. j /\ i + 1 \in 1 .. n /\ (i + 1) - 1 = i
      BY <1>1
    <3>4. CASE i < to
      <4>1. i # to /\ i \notin to + 1 .. j
        BY <1>7, <3>3, <3>4
      <4> QED BY <1>11, <3>2, <3>3, <4>1
    <3>5. CASE ~(i < to)
      <4>1. i + 1 # to /\ i + 1 \in to + 1 .. j
        BY <1>1, <1>7, <3>3, <3>5
      <4> QED BY <1>11, <3>2, <3>3, <4>1
    <3> QED BY <3>4, <3>5
  <2> QED BY <2>1, <2>2
<1>17. \A i \in j + 1 .. n : m[i] = i
  <2> TAKE i \in j + 1 .. n
  <2>1. i \in 1 .. n /\ i # to /\ i \notin to + 1 .. j /\ i \in (j - 1) + 1 .. n
    BY <1>1, <1>7
  <2> QED BY <1>2, <1>11, <2>1
<1>18. ASSUME e = "none", NEW a \in 1 .. j, NEW b \in 1 .. j, a < b
       PROVE  Ahead(k, rev, m[a], m[b])
  <2>1. a \in Nat /\ b \in Nat /\ a \in 1 .. n /\ b \in 1 .. n
    BY <1>1
  <2>2. s.err = "none" /\ (to > 1 => less(to) \notin Failures)
    BY <1>18 DEF e, Failures
  <2>3. \A p, q \in 1 .. j - 1 : p < q => Ahead(k, rev, o[p], o[q])
    BY <2>2 DEF SortedUpTo, o
  <2>4. CASE b < to
    <3>1. a \in 1 .. j - 1 /\ b \in 1 .. j - 1
      BY <1>1, <1>7, <1>18, <2>1, <2>4
    <3>2. a # to /\ b # to /\ a \notin to + 1 .. j /\ b \notin to + 1 .. j
      BY <1>7, <1>18, <2>1, <2>4
    <3>3. m[a] = o[a] /\ m[b] = o[b]
      BY <1>11, <2>1, <3>2
    <3> QED BY <1>18, <2>3, <3>1, <3>3
  <2>5. CASE b = to
    <3>1. to > 1 /\ a # to /\ a \notin to + 1 .. j /\ a \in 1 .. j - 1 /\ (a = to - 1 \/ a < to - 1)
      BY <1>1, <1>7, <1>18, <2>1, <2>5
    <3>2. m[a] = o[a] /\ m[b] = j
      BY <1>11, <2>1, <2>5, <3>1
    <3>3. less(to) \notin Failures /\ less(to) # "yes"
      BY <1>9, <2>2, <3>1
    <3>4. Less(k, rev, j, o[to - 1]) \notin Failures /\ Less(k, rev, j, o[to - 1]) # "yes"
      BY <1>4, <3>3 DEF less
    <3>5. to - 1 \in 1 .. j - 1 /\ o[to - 1] \in 1 .. j - 1
      BY <1>13, <3>1
    <3>6. o[to - 1] < j /\ o[to - 1] \in 1 .. n /\ j \in 1 .. n
      BY <1>1, <3>5
    <3>7. k[j] \in TotalAt(CompareLimit) /\ k[o[to - 1]] \in TotalAt(CompareLimit)
      BY <3>6
    <3>8. Ahead(k, rev, o[to - 1], j)
      BY <3>4, <3>6, <3>7, AheadOtherwise
    <3>9. CASE a = to - 1
      BY <3>2, <3>8, <3>9
    <3>10. CASE a < to - 1
      <4>1. Ahead(k, rev, o[a], o[to - 1])
        BY <2>3, <3>1, <3>5, <3>10
      <4>2. o[a] \in 1 .. n
        BY <1>3, <2>1
      <4>3. Ahead(k, rev, o[a], j)
        BY <3>6, <3>8, <4>1, <4>2, AheadChained
      <4> QED BY <3>2, <4>3
    <3> QED BY <3>1, <3>9, <3>10
  <2>6. CASE b > to
    <3>1. b \in to + 1 .. j /\ b # to /\ b - 1 \in 1 .. j - 1
      BY <1>1, <1>7, <2>1, <2>6
    <3>2. m[b] = o[b - 1]
      BY <1>11, <2>1, <3>1
    <3>3. CASE a < to
      <4>1. a # to /\ a \notin to + 1 .. j /\ a \in 1 .. j - 1 /\ a < b - 1
        BY <1>1, <1>7, <2>1, <2>6, <3>3
      <4>2. m[a] = o[a]
        BY <1>11, <2>1, <4>1
      <4> QED BY <2>3, <3>1, <3>2, <4>1, <4>2
    <3>4. CASE a = to
      <4>1. Less(k, rev, j, o[b - 1]) = "yes"
        BY <1>4, <1>8, <3>1 DEF less
      <4>2. m[a] = j
        BY <1>11, <2>1, <3>4
      <4> QED BY <3>2, <4>1, <4>2 DEF Ahead, Failures
    <3>5. CASE a > to
      <4>1. a \in to + 1 .. j /\ a # to /\ a - 1 \in 1 .. j - 1 /\ a - 1 < b - 1
        BY <1>1, <1>7, <1>18, <2>1, <3>5
      <4>2. m[a] = o[a - 1]
        BY <1>11, <2>1, <4>1
      <4> QED BY <2>3, <3>1, <3>2, <4>1, <4>2
    <3> QED BY <1>7, <2>1, <3>3, <3>4, <3>5
  <2> QED BY <1>7, <2>1, <2>4, <2>5, <2>6
<1>19. ASSUME e # "none" PROVE \E a, b \in 1 .. n : a # b /\ Less(k, rev, a, b) \in Failures
  <2>1. CASE to > 1 /\ less(to) \in Failures
    <3>1. Less(k, rev, j, o[to - 1]) \in Failures
      BY <1>4, <2>1 DEF less
    <3>2. o[to - 1] \in 1 .. n /\ o[to - 1] # j /\ j \in 1 .. n
      BY <1>1, <1>13, <2>1
    <3> QED BY <3>1, <3>2
  <2>2. CASE ~(to > 1 /\ less(to) \in Failures)
    <3>1. s.err # "none"
      BY <1>19, <2>2 DEF e
    <3> QED BY <3>1 DEF SortedUpTo
  <2> QED BY <2>1, <2>2
<1> SUFFICES SortedUpTo(k, n, rev, j, t)
  BY DEF t
<1> QED BY <1>6, <1>14, <1>15, <1>16, <1>17, <1>18, <1>19 DEF SortedUpTo

LEMMA MovedTyped ==
  ASSUME NEW n \in Nat, NEW o \in [1 .. n -> 1 .. n], NEW j \in 1 .. n, NEW to \in 1 .. j
  PROVE  Moved(o, j, to) \in [1 .. n -> 1 .. n]
<1>1. \A i \in 1 .. n : i \in to + 1 .. j => i - 1 \in 1 .. n
  OBVIOUS
<1>2. \A i \in 1 .. n : o[i] \in 1 .. n
  OBVIOUS
<1>3. \A i \in 1 .. n : (IF i = to THEN o[j] ELSE IF i \in to + 1 .. j THEN o[i - 1] ELSE o[i]) \in 1 .. n
  BY <1>1, <1>2
<1>4. Moved(o, j, to) = [i \in 1 .. n |-> IF i = to THEN o[j] ELSE IF i \in to + 1 .. j THEN o[i - 1] ELSE o[i]]
  BY DEF Moved
<1> QED BY <1>3, <1>4

LEMMA SinkTyped ==
  ASSUME NEW n, NEW k, NEW rev \in BOOLEAN, KeysOn(k, n), NEW j \in 1 .. n, NEW s \in Progress(n)
  PROVE  Sink(k, rev, s, j) \in Progress(n)
<1>1. PICK to : /\ Stops(k, rev, s, j, to)
                /\ Sink(k, rev, s, j) =
                     [order |-> Moved(s.order, j, to),
                      err |-> IF to > 1 /\ Less(k, rev, s.order[j], s.order[to - 1]) \in Failures
                              THEN Less(k, rev, s.order[j], s.order[to - 1]) ELSE s.err]
  BY SinkIs
<1>2. to \in 1 .. j /\ n \in Nat
  BY <1>1 DEF Stops, KeysOn
<1>3. s.order \in [1 .. n -> 1 .. n] /\ s.err \in {"none"} \cup Failures
  BY DEF Progress
<1>4. Moved(s.order, j, to) \in [1 .. n -> 1 .. n]
  BY <1>2, <1>3, MovedTyped
<1> QED BY <1>1, <1>3, <1>4 DEF Progress

LEMMA SortedIs ==
  ASSUME NEW n, NEW k, NEW rev \in BOOLEAN, KeysOn(k, n), Len(k) = n,
         \A i \in 1 .. n : k[i] \in TotalAt(CompareLimit)
  PROVE  SortedUpTo(k, n, rev, n, Sorted(k, rev))
<1> DEFINE S == Progress(n)
           base == [order |-> UpTo(n), err |-> "none"]
           st == [j \in 1 .. n |-> [s \in S |-> Sink(k, rev, s, j)]]
           Body(f, j) == IF j = 0 THEN [order |-> UpTo(Len(k)), err |-> "none"] ELSE Sink(k, rev, f[j - 1], j)
<1>1. n \in Nat
  BY DEF KeysOn
<1>2. base \in S
  <2>1. UpTo(n) \in [1 .. n -> 1 .. n]
    BY DEF UpTo
  <2> QED BY <2>1 DEF Progress
<1>3. \A j \in 1 .. n : \A s \in S : Sink(k, rev, s, j) \in S
  BY SinkTyped
<1> HIDE DEF S
<1>4. st \in StepsOn(S, n)
  BY <1>3 DEF StepsOn
<1>5. \A j \in 1 .. n : \A s \in S : st[j][s] = Sink(k, rev, s, j)
  OBVIOUS
<1> HIDE DEF st, base
<1>6. PICK f : Follows(f, S, n, base, st)
  BY <1>1, <1>2, <1>4, Recursion, Zenon
<1>7. \A j \in 1 .. n : f[j] = Sink(k, rev, f[j - 1], j)
  <2> TAKE j \in 1 .. n
  <2>1. j - 1 \in 0 .. n
    BY <1>1
  <2> QED BY <1>5, <1>6, <2>1 DEF Follows
<1>8. ASSUME NEW j \in 0 .. n PROVE f[j] = Body(f, j)
  <2>1. CASE j = 0
    BY <1>6, <2>1 DEF base, Follows
  <2>2. CASE j # 0
    <3>1. j \in 1 .. n
      BY <1>1, <2>2
    <3> QED BY <1>7, <2>2, <3>1
  <2> QED BY <2>1, <2>2
<1> HIDE DEF Body
<1>9. f = [j \in 0 .. Len(k) |-> Body(f, j)]
  <2>1. f = [j \in 0 .. n |-> f[j]]
    BY <1>6 DEF Follows
  <2> QED BY <1>8, <2>1, Zenon
<1> DEFINE sunk == CHOOSE g : g = [j \in 0 .. Len(k) |-> Body(g, j)]
<1>10. sunk = [j \in 0 .. Len(k) |-> Body(sunk, j)]
  BY <1>9, Zenon
<1>11. Sorted(k, rev) = sunk[n]
  BY Zenon DEF Sorted, Body
<1> HIDE DEF sunk
<1>12. \A j \in 0 .. n : sunk[j] = Body(sunk, j)
  BY <1>10
<1> DEFINE T == {j \in Nat : j <= n => SortedUpTo(k, n, rev, j, sunk[j])}
<1>13. 0 \in T
  <2>1. sunk[0] = base
    BY <1>1, <1>12 DEF Body, base
  <2>2. base.order = UpTo(n) /\ base.err = "none" /\ base \in Progress(n)
    BY <1>2 DEF base, S
  <2>3. \A i \in 0 + 1 .. n : UpTo(n)[i] = i
    BY DEF UpTo
  <2>4. \A i \in 1 .. 0 : FALSE
    OBVIOUS
  <2> QED BY <2>1, <2>2, <2>3, <2>4 DEF SortedUpTo
<1>14. ASSUME NEW j \in Nat, j \in T PROVE j + 1 \in T
  <2> SUFFICES ASSUME j + 1 <= n PROVE SortedUpTo(k, n, rev, j + 1, sunk[j + 1])
    OBVIOUS
  <2>1. PICK i \in 1 .. n : i = j + 1 /\ i - 1 = j /\ i # 0 /\ i \in 0 .. n
    BY <1>1
  <2>2. SortedUpTo(k, n, rev, i - 1, sunk[i - 1])
    BY <1>1, <1>14, <2>1
  <2>3. sunk[i] = Sink(k, rev, sunk[i - 1], i)
    BY <1>12, <2>1 DEF Body
  <2>4. SortedUpTo(k, n, rev, i, sunk[i])
    BY <2>2, <2>3, SortedStep
  <2> QED BY <2>1, <2>4
<1>15. Nat \subseteq T
  <2> HIDE DEF T
  <2> QED BY <1>13, <1>14, SetInduction
<1> QED BY <1>1, <1>11, <1>15

LEMMA OrderableIs ==
  ASSUME NEW n, NEW k, NEW rev \in BOOLEAN, KeysOn(k, n)
  PROVE  Orderable(k) <=> \A a, b \in 1 .. n : a # b => Less(k, rev, a, b) \notin Failures
<1>1. DOMAIN k = 1 .. n
  BY DEF KeysOn
<1>2. \A a, b \in 1 .. n : Less(k, rev, a, b) \in Failures <=> Fails(Full, "<", k[a], k[b])
  BY LessFails
<1>3. \A a, b : Compare("<", k[a], k[b]) \in Failures <=> Fails(Full, "<", k[a], k[b])
  BY FullIs DEF Fails
<1> QED BY <1>1, <1>2, <1>3 DEF Orderable

(* What min and max look for is what sorting puts first. *)
Side(rev) == IF rev THEN ">" ELSE "<"

LEMMA SideIs ==
  ASSUME NEW n, NEW k, NEW rev \in BOOLEAN, KeysOn(k, n), NEW a \in 1 .. n, NEW b \in 1 .. n
  PROVE  /\ Compare(Side(rev), k[a], k[b]) \in Answers
         /\ Compare(Side(rev), k[a], k[b]) = "yes" <=> Less(k, rev, a, b) = "yes"
         /\ Compare(Side(rev), k[a], k[b]) \in Failures <=> Less(k, rev, a, b) \in Failures
<1>1. k[a] \in Comparands /\ k[b] \in Comparands /\ {"<", ">"} \subseteq Operators
  BY Answering DEF KeysOn
<1>2. Full["<"][k[a]][k[b]] \in Answers /\ Full[">"][k[a]][k[b]] \in Answers
  BY <1>1, FullIs, AnswersAre DEF Laws, Answered
<1>3. CASE ~rev
  <2>1. Compare(Side(rev), k[a], k[b]) = Lt(Full, k[a], k[b])
    BY <1>3, FullIs DEF Side
  <2> QED BY <1>2, <1>3, <2>1, LessSides DEF Lt
<1>4. CASE rev
  <2>1. Compare(Side(rev), k[a], k[b]) = Full[">"][k[a]][k[b]]
    BY <1>4, FullIs DEF Side
  <2>2. /\ Full[">"][k[a]][k[b]] = "yes" <=> Lt(Full, k[b], k[a]) = "yes"
        /\ Full[">"][k[a]][k[b]] \in Failures <=> Lt(Full, k[b], k[a]) \in Failures
    BY <1>1, MoreIs DEF Fails, Lt
  <2>3. Less(k, rev, a, b) = IF rev THEN Lt(Full, k[b], k[a]) ELSE Lt(Full, k[a], k[b])
    BY LessSides
  <2> QED BY <1>2, <1>4, <2>1, <2>2, <2>3
<1> QED BY <1>3, <1>4

LEMMA SortedRight ==
  ASSUME NEW n, NEW k, NEW rev \in BOOLEAN, KeysOn(k, n), Len(k) = n,
         \A i \in 1 .. n : k[i] \in TotalAt(CompareLimit)
  PROVE  SortedStably(k, rev, Sorted(k, rev))
<1> DEFINE s == Sorted(k, rev)
<1>1. SortedUpTo(k, n, rev, n, s)
  BY SortedIs
<1> HIDE DEF s
<1>2. DOMAIN k = 1 .. n /\ n \in Nat
  BY DEF KeysOn
<1>3. s.order \in [1 .. n -> 1 .. n] /\ DOMAIN s.order = 1 .. n
  BY <1>1 DEF SortedUpTo, Progress
<1>4. s.err = "none" => \A a, b \in 1 .. n : a < b => Ahead(k, rev, s.order[a], s.order[b])
  BY <1>1 DEF SortedUpTo
<1>5. \A v \in 1 .. n : \E i \in 1 .. n : s.order[i] = v
  BY <1>1 DEF SortedUpTo
<1>6. s.err # "none" => ~Orderable(k)
  <2>1. s.err # "none" => \E a, b \in 1 .. n : a # b /\ Less(k, rev, a, b) \in Failures
    BY <1>1 DEF SortedUpTo
  <2> QED BY <2>1, OrderableIs
<1>7. s.err = "none" => Orderable(k)
  <2> SUFFICES ASSUME s.err = "none", NEW v \in 1 .. n, NEW w \in 1 .. n, v # w
               PROVE  Less(k, rev, v, w) \notin Failures
    BY OrderableIs
  <2>1. PICK a \in 1 .. n : s.order[a] = v
    BY <1>5
  <2>2. PICK b \in 1 .. n : s.order[b] = w
    BY <1>5
  <2>3. a < b \/ b < a
    BY <1>2, <2>1, <2>2
  <2>4. CASE a < b
    BY <1>4, <2>1, <2>2, <2>4 DEF Ahead
  <2>5. CASE b < a
    <3>1. Less(k, rev, w, v) \notin Failures
      BY <1>4, <2>1, <2>2, <2>5 DEF Ahead
    <3>2. k[v] \in Comparands /\ k[w] \in Comparands
      BY DEF KeysOn
    <3>3. ~Fails(Full, "<", k[w], k[v])
      BY <3>1, LessFails
    <3>4. ~Fails(Full, "<", k[v], k[w])
      BY <3>2, <3>3, FailsSymmetric
    <3> QED BY <3>4, LessFails
  <2> QED BY <2>3, <2>4, <2>5
<1>8. {s.order[i] : i \in DOMAIN k} = DOMAIN k
  BY <1>2, <1>3, <1>5
<1>9. ASSUME s.err = "none", NEW i \in 1 .. n, NEW j \in 1 .. n, i < j
      PROVE  \/ Compare(Side(rev), k[s.order[i]], k[s.order[j]]) = "yes"
             \/ Compare("==", k[s.order[i]], k[s.order[j]]) = "yes" /\ s.order[i] < s.order[j]
  <2>1. Ahead(k, rev, s.order[i], s.order[j])
    BY <1>4, <1>9
  <2>2. s.order[i] \in 1 .. n /\ s.order[j] \in 1 .. n
    BY <1>3
  <2> DEFINE a == s.order[i]
             b == s.order[j]
  <2>3. Less(k, rev, a, b) = "yes" => Compare(Side(rev), k[a], k[b]) = "yes"
    BY <2>2, SideIs
  <2>4. Compare("==", k[a], k[b]) = Eq(Full, k[a], k[b])
    BY FullIs
  <2> HIDE DEF a, b
  <2>5. Ahead(k, rev, a, b)
    BY <2>1 DEF a, b
  <2>6. \/ Compare(Side(rev), k[a], k[b]) = "yes"
        \/ Compare("==", k[a], k[b]) = "yes" /\ a < b
    BY <2>3, <2>4, <2>5 DEF Ahead
  <2> QED BY <2>6 DEF a, b
<1>10. SortedStably(k, rev, s)
  BY <1>2, <1>3, <1>6, <1>7, <1>8, <1>9 DEF SortedStably, Side
<1> QED BY <1>10 DEF s

-----------------------------------------------------------------------------
(* The extreme element of those seen. *)
LEMMA LessThrough ==
  ASSUME NEW n, NEW k, NEW rev \in BOOLEAN, KeysOn(k, n),
         NEW a \in 1 .. n, NEW b \in 1 .. n, NEW d \in 1 .. n,
         Less(k, rev, a, b) = "yes", Less(k, rev, b, d) = "yes" \/ Eq(Full, k[b], k[d]) = "yes"
  PROVE  Less(k, rev, a, d) = "yes"
<1> DEFINE x == k[a]
           y == k[b]
           z == k[d]
<1>0. x \in Comparands /\ y \in Comparands /\ z \in Comparands
  BY DEF KeysOn
<1>1. Symmetric(Full) /\ RightCongruent(Full) /\ LeftCongruent(Full) /\ Chained(Full)
  BY FullIs DEF Laws
<1>2. Less(k, rev, a, b) = IF rev THEN Lt(Full, y, x) ELSE Lt(Full, x, y)
  BY LessSides
<1>3. Less(k, rev, b, d) = IF rev THEN Lt(Full, z, y) ELSE Lt(Full, y, z)
  BY LessSides
<1>4. Less(k, rev, a, d) = IF rev THEN Lt(Full, z, x) ELSE Lt(Full, x, z)
  BY LessSides
<1>5. Less(k, rev, b, d) = "yes" \/ Eq(Full, y, z) = "yes"
  OBVIOUS
<1> HIDE DEF x, y, z
<1>6. CASE ~rev
  BY <1>0, <1>1, <1>2, <1>3, <1>4, <1>5, <1>6 DEF RightCongruent, Chained
<1>7. CASE rev
  <2>1. Eq(Full, y, z) = "yes" => Eq(Full, z, y) = "yes"
    BY <1>0, <1>1 DEF Symmetric
  <2> QED BY <1>0, <1>1, <1>2, <1>3, <1>4, <1>5, <1>7, <2>1 DEF LeftCongruent, Chained
<1> QED BY <1>6, <1>7

LEMMA LessAsymmetric ==
  ASSUME NEW n, NEW k, NEW rev \in BOOLEAN, KeysOn(k, n), NEW a \in 1 .. n, NEW b \in 1 .. n,
         Less(k, rev, a, b) = "yes"
  PROVE  Less(k, rev, b, a) = "no"
<1> DEFINE x == k[a]
           y == k[b]
<1>0. x \in Comparands /\ y \in Comparands
  BY DEF KeysOn
<1>1. Less(k, rev, b, a) # "yes"
  <2> SUFFICES ASSUME Less(k, rev, b, a) = "yes" PROVE FALSE
    OBVIOUS
  <2>1. Less(k, rev, a, a) = "yes"
    BY LessThrough
  <2>2. Lt(Full, x, x) = "yes"
    BY <2>1, LessSides
  <2>3. Eq(Full, x, x) = "no"
    BY <1>0, <2>2, FullIs DEF Laws, Sharp
  <2>4. Eq(Full, x, x) \in {"yes", "depth"}
    BY <1>0, FullIs DEF Laws, Reflexive
  <2> QED BY <2>3, <2>4
<1>2. ~Fails(Full, "<", x, y)
  <2>1. Less(k, rev, a, b) \notin Failures
    BY DEF Failures
  <2> QED BY <2>1, LessFails
<1>3. ~Fails(Full, "<", y, x)
  BY <1>0, <1>2, FailsSymmetric
<1>4. Less(k, rev, b, a) \in Answers /\ Less(k, rev, b, a) \notin Failures
  BY <1>3, LessFails
<1> QED BY <1>1, <1>4 DEF Answers

LEMMA NotLess ==
  ASSUME NEW n, NEW k, NEW rev \in BOOLEAN, KeysOn(k, n), NEW a \in 1 .. n, NEW b \in 1 .. n,
         k[a] \in TotalAt(CompareLimit), Less(k, rev, a, b) = "no"
  PROVE  Less(k, rev, b, a) = "yes" \/ Eq(Full, k[b], k[a]) = "yes"
<1> DEFINE x == k[a]
           y == k[b]
<1>0. x \in Comparands /\ y \in Comparands
  BY DEF KeysOn
<1>1. Symmetric(Full) /\ Connected(Full, TotalAt(CompareLimit))
  BY FullIs DEF Laws
<1>2. Less(k, rev, a, b) = IF rev THEN Lt(Full, y, x) ELSE Lt(Full, x, y)
  BY LessSides
<1>3. Less(k, rev, b, a) = IF rev THEN Lt(Full, x, y) ELSE Lt(Full, y, x)
  BY LessSides
<1>4. ~Fails(Full, "<", x, y)
  <2>1. Less(k, rev, a, b) \notin Failures
    BY DEF Failures
  <2> QED BY <2>1, LessFails
<1>5. Lt(Full, x, y) = "yes" \/ Eq(Full, x, y) = "yes" \/ Lt(Full, y, x) = "yes"
  BY <1>0, <1>1, <1>4 DEF Connected
<1>6. Eq(Full, x, y) = "yes" => Eq(Full, y, x) = "yes"
  BY <1>0, <1>1 DEF Symmetric
<1> SUFFICES Less(k, rev, b, a) = "yes" \/ Eq(Full, y, x) = "yes"
  OBVIOUS
<1> HIDE DEF x, y
<1> QED BY <1>2, <1>3, <1>5, <1>6

Candidates(n) == [best : 1 .. n, err : {"none"} \cup Failures]
ExtremeUpTo(k, n, rev, j, s) ==
  /\ s.err = "none" /\ s.best \in 1 .. j
  /\ \A i \in 1 .. j : i # s.best =>
       /\ Less(k, rev, i, s.best) = "no"
       /\ i < s.best => Less(k, rev, s.best, i) = "yes"

LEMMA ExtremeStep ==
  ASSUME NEW n, NEW k, NEW rev \in BOOLEAN, KeysOn(k, n), NEW j \in 2 .. n, NEW s,
         \A i \in 1 .. n : k[i] \in TotalAt(CompareLimit), Orderable(k),
         ExtremeUpTo(k, n, rev, j - 1, s)
  PROVE  ExtremeUpTo(k, n, rev, j, Better(k, Side(rev), s, j))
<1> DEFINE b == s.best
           r == Compare(Side(rev), k[j], k[b])
           t == Better(k, Side(rev), s, j)
<1>1. n \in Nat /\ j \in Nat /\ 2 <= j /\ j <= n /\ j \in 1 .. n
  BY DEF KeysOn
<1>2. s.err = "none" /\ b \in 1 .. j - 1
  BY DEF ExtremeUpTo
<1>3. \A i \in 1 .. j - 1 : i # b =>
        Less(k, rev, i, b) = "no" /\ (i < b => Less(k, rev, b, i) = "yes")
  BY DEF ExtremeUpTo
<1>4. b \in 1 .. n /\ b \in Nat /\ b < j
  BY <1>1, <1>2
<1>5. t = IF r \in Failures THEN [best |-> b, err |-> r]
          ELSE IF r = "yes" THEN [best |-> j, err |-> "none"] ELSE s
  BY <1>2, Zenon DEF Better
<1>6. /\ r \in Answers
      /\ r = "yes" <=> Less(k, rev, j, b) = "yes"
      /\ r \in Failures <=> Less(k, rev, j, b) \in Failures
  BY <1>1, <1>4, SideIs
<1>7. Less(k, rev, j, b) \notin Failures
  BY <1>1, <1>4, OrderableIs
<1>8. Less(k, rev, j, b) \in Answers
  BY <1>1, <1>4, LessFails
<1> HIDE DEF b, r, t
<1>9. CASE r = "yes"
  <2>1. t.best = j /\ t.err = "none"
    BY <1>5, <1>6, <1>7, <1>9
  <2>2. Less(k, rev, j, b) = "yes"
    BY <1>6, <1>9
  <2>3. ASSUME NEW i \in 1 .. j, i # j
        PROVE  Less(k, rev, j, i) = "yes" /\ Less(k, rev, i, j) = "no"
    <3>1. i \in 1 .. j - 1 /\ i \in 1 .. n
      BY <1>1, <2>3
    <3>2. Less(k, rev, j, i) = "yes"
      <4>1. CASE i = b
        BY <2>2, <4>1
      <4>2. CASE i # b
        <5>1. Less(k, rev, i, b) = "no"
          BY <1>3, <3>1, <4>2
        <5>2. k[i] \in TotalAt(CompareLimit)
          BY <3>1
        <5>3. Less(k, rev, b, i) = "yes" \/ Eq(Full, k[b], k[i]) = "yes"
          BY <1>4, <3>1, <5>1, <5>2, NotLess
        <5> QED BY <1>1, <1>4, <2>2, <3>1, <5>3, LessThrough
      <4> QED BY <4>1, <4>2
    <3>3. Less(k, rev, i, j) = "no"
      BY <1>1, <3>1, <3>2, LessAsymmetric
    <3> QED BY <3>2, <3>3
  <2>4. j \in 1 .. j
    BY <1>1
  <2> QED BY <2>1, <2>3, <2>4 DEF ExtremeUpTo, t
<1>10. CASE r # "yes"
  <2>1. t = s
    BY <1>5, <1>6, <1>7, <1>10
  <2>2. Less(k, rev, j, b) = "no"
    BY <1>6, <1>7, <1>8, <1>10 DEF Answers
  <2>3. \A i \in 1 .. j : i = j \/ i \in 1 .. j - 1
    BY <1>1
  <2>4. \A i \in 1 .. j : i # b =>
          Less(k, rev, i, b) = "no" /\ (i < b => Less(k, rev, b, i) = "yes")
    BY <1>1, <1>3, <1>4, <2>2, <2>3
  <2>5. b \in 1 .. j
    BY <1>1, <1>4
  <2> QED BY <1>2, <2>1, <2>4, <2>5 DEF ExtremeUpTo, b, t
<1> QED BY <1>9, <1>10

LEMMA BetterTyped ==
  ASSUME NEW n, NEW k, NEW rev \in BOOLEAN, KeysOn(k, n), NEW j \in 2 .. n, NEW s \in Candidates(n)
  PROVE  Better(k, Side(rev), s, j) \in Candidates(n)
<1>1. j \in 1 .. n /\ s.best \in 1 .. n
  BY DEF KeysOn, Candidates
<1>2. Compare(Side(rev), k[j], k[s.best]) \in Answers
  BY <1>1, SideIs
<1> QED BY <1>1, <1>2 DEF Better, Candidates

Goes(f, S, n, base, st) ==
  f \in [1 .. n -> S] /\ f[1] = base /\ \A j \in 2 .. n : f[j] = st[j][f[j - 1]]
StepsOver(S, n) == [2 .. n -> [S -> S]]

LEMMA RecursionFromOne ==
  ASSUME NEW n \in Nat, n # 0, NEW S, NEW base \in S, NEW st \in StepsOver(S, n)
  PROVE  \E f : Goes(f, S, n, base, st)
<1> DEFINE up == [j \in 1 .. n - 1 |-> st[j + 1]]
<1>1. n - 1 \in Nat /\ \A j \in 1 .. n - 1 : j + 1 \in 2 .. n
  OBVIOUS
<1>2. up \in StepsOn(S, n - 1)
  <2>1. \A j \in 1 .. n - 1 : st[j + 1] \in [S -> S]
    BY <1>1 DEF StepsOver
  <2> QED BY <2>1 DEF StepsOn
<1>3. \A j \in 1 .. n - 1 : up[j] = st[j + 1]
  OBVIOUS
<1> HIDE DEF up
<1>4. PICK f : Follows(f, S, n - 1, base, up)
  BY <1>1, <1>2, Recursion, Zenon
<1> DEFINE g == [j \in 1 .. n |-> f[j - 1]]
<1>5. g \in [1 .. n -> S]
  <2>1. \A j \in 1 .. n : j - 1 \in 0 .. n - 1
    OBVIOUS
  <2> QED BY <1>4, <2>1 DEF Follows
<1>6. \A j \in 1 .. n : g[j] = f[j - 1]
  OBVIOUS
<1> HIDE DEF g
<1>7. g[1] = base
  <2>1. 1 \in 1 .. n /\ 1 - 1 = 0
    OBVIOUS
  <2> QED BY <1>4, <1>6, <2>1 DEF Follows
<1>8. ASSUME NEW j \in 2 .. n PROVE g[j] = st[j][g[j - 1]]
  <2>1. PICK i \in 1 .. n - 1 : i = j - 1
    OBVIOUS
  <2>2. j = i + 1 /\ j \in 1 .. n /\ i \in 1 .. n
    BY <2>1
  <2>3. g[j] = f[i] /\ g[i] = f[i - 1]
    BY <1>6, <2>1, <2>2
  <2>4. f[i] = up[i][f[i - 1]] /\ up[i] = st[j]
    BY <1>3, <1>4, <2>2 DEF Follows
  <2> QED BY <2>1, <2>3, <2>4
<1> QED BY <1>5, <1>7, <1>8 DEF Goes

LEMMA ExtremeRight ==
  ASSUME NEW n, NEW k, NEW rev \in BOOLEAN, KeysOn(k, n), Len(k) = n, n # 0, k # <<>>,
         \A i \in 1 .. n : k[i] \in TotalAt(CompareLimit), Orderable(k)
  PROVE  ExtremeUpTo(k, n, rev, n, Extremum(k, Side(rev)))
<1> DEFINE op == Side(rev)
           S == Candidates(n)
           base == [best |-> 1, err |-> "none"]
           st == [j \in 2 .. n |-> [s \in S |-> Better(k, op, s, j)]]
           Body(f, j) == IF j = 1 THEN [best |-> 1, err |-> "none"] ELSE Better(k, op, f[j - 1], j)
<1>1. n \in Nat /\ 1 \in 1 .. n
  BY DEF KeysOn
<1>2. base \in S
  BY <1>1 DEF Candidates
<1>3. \A j \in 2 .. n : \A s \in S : Better(k, op, s, j) \in S
  BY BetterTyped
<1> HIDE DEF S
<1>4. st \in StepsOver(S, n)
  BY <1>3 DEF StepsOver
<1>5. \A j \in 2 .. n : \A s \in S : st[j][s] = Better(k, op, s, j)
  OBVIOUS
<1> HIDE DEF st, base
<1>6. PICK f : Goes(f, S, n, base, st)
  BY <1>1, <1>2, <1>4, RecursionFromOne, Zenon
<1>7. ASSUME NEW j \in 1 .. n PROVE f[j] = Body(f, j)
  <2>1. CASE j = 1
    BY <1>6, <2>1 DEF base, Goes
  <2>2. CASE j # 1
    <3>1. j \in 2 .. n /\ j - 1 \in 1 .. n
      BY <1>1, <2>2
    <3>2. f[j] = Better(k, op, f[j - 1], j)
      BY <1>5, <1>6, <3>1 DEF Goes
    <3> QED BY <2>2, <3>2
  <2> QED BY <2>1, <2>2
<1> HIDE DEF Body
<1>8. f = [j \in 1 .. Len(k) |-> Body(f, j)]
  <2>1. f = [j \in 1 .. n |-> f[j]]
    BY <1>6 DEF Goes
  <2> QED BY <1>7, <2>1, Zenon
<1> DEFINE seen == CHOOSE g : g = [j \in 1 .. Len(k) |-> Body(g, j)]
<1>9. seen = [j \in 1 .. Len(k) |-> Body(seen, j)]
  BY <1>8, Zenon
<1>10. Extremum(k, op) = seen[n]
  BY Zenon DEF Extremum, Body
<1> HIDE DEF seen
<1>11. \A j \in 1 .. n : seen[j] = Body(seen, j)
  BY <1>9
<1> DEFINE T == {j \in Nat : j + 1 <= n => ExtremeUpTo(k, n, rev, j + 1, seen[j + 1])}
<1>12. 0 \in T
  <2>1. seen[1].best = 1 /\ seen[1].err = "none"
    BY <1>1, <1>11 DEF Body
  <2>2. \A i \in 1 .. 1 : i = 1
    OBVIOUS
  <2>3. ExtremeUpTo(k, n, rev, 1, seen[1])
    BY <2>1, <2>2 DEF ExtremeUpTo
  <2> QED BY <2>3
<1>13. ASSUME NEW j \in Nat, j \in T PROVE j + 1 \in T
  <2> SUFFICES ASSUME j + 1 + 1 <= n PROVE ExtremeUpTo(k, n, rev, j + 1 + 1, seen[j + 1 + 1])
    OBVIOUS
  <2>1. PICK i \in 2 .. n : i = j + 1 + 1 /\ i - 1 = j + 1 /\ i # 1 /\ i \in 1 .. n
    BY <1>1
  <2>2. ExtremeUpTo(k, n, rev, i - 1, seen[i - 1])
    BY <1>1, <1>13, <2>1
  <2>3. seen[i] = Better(k, op, seen[i - 1], i)
    BY <1>11, <2>1 DEF Body
  <2>4. ExtremeUpTo(k, n, rev, i, seen[i])
    BY <2>2, <2>3, ExtremeStep
  <2> QED BY <2>1, <2>4
<1>14. Nat \subseteq T
  <2> HIDE DEF T
  <2> QED BY <1>12, <1>13, SetInduction
<1>15. n - 1 \in Nat /\ (n - 1) + 1 = n /\ n <= n
  BY <1>1
<1>16. n - 1 \in T
  <2> HIDE DEF T
  <2> QED BY <1>14, <1>15
<1> QED BY <1>10, <1>15, <1>16

LEMMA ExtremumRight ==
  ASSUME NEW n, NEW k, NEW rev \in BOOLEAN, KeysOn(k, n), Len(k) = n,
         \A i \in 1 .. n : k[i] \in TotalAt(CompareLimit)
  PROVE  IsExtremum(k, Side(rev), Extremum(k, Side(rev)))
<1> DEFINE s == Extremum(k, Side(rev))
<1>1. DOMAIN k = 1 .. n /\ n \in Nat
  BY DEF KeysOn
<1> SUFFICES ASSUME Orderable(k), k # <<>>
             PROVE  /\ s.err = "none" /\ s.best \in DOMAIN k
                    /\ \A j \in DOMAIN k \ {s.best} :
                         /\ Compare(Side(rev), k[j], k[s.best]) = "no"
                         /\ j < s.best => Compare(Side(rev), k[s.best], k[j]) = "yes"
  BY Zenon DEF IsExtremum
<1>2. n # 0
  BY DEF KeysOn
<1>3. ExtremeUpTo(k, n, rev, n, s)
  BY <1>2, ExtremeRight
<1> HIDE DEF s
<1>4. s.err = "none" /\ s.best \in 1 .. n
  BY <1>3 DEF ExtremeUpTo
<1>5. ASSUME NEW j \in 1 .. n, j # s.best
      PROVE  /\ Compare(Side(rev), k[j], k[s.best]) = "no"
             /\ j < s.best => Compare(Side(rev), k[s.best], k[j]) = "yes"
  <2>1. Less(k, rev, j, s.best) = "no" /\ (j < s.best => Less(k, rev, s.best, j) = "yes")
    BY <1>3, <1>5 DEF ExtremeUpTo
  <2>2. Compare(Side(rev), k[j], k[s.best]) = "no"
    <3>1. /\ Compare(Side(rev), k[j], k[s.best]) \in Answers
          /\ Compare(Side(rev), k[j], k[s.best]) # "yes"
          /\ Compare(Side(rev), k[j], k[s.best]) \notin Failures
      BY <1>4, <2>1, SideIs, NotFailures
    <3> QED BY <3>1 DEF Answers
  <2>3. j < s.best => Compare(Side(rev), k[s.best], k[j]) = "yes"
    BY <1>4, <2>1, SideIs
  <2> QED BY <2>2, <2>3
<1> QED BY <1>1, <1>4, <1>5

(* Every question is answered right. *)
LEMMA SortsAreRight ==
  ASSUME NEW n \in 0 .. MaxKeys, NEW k \in [1 .. n -> SortKeys], NEW rev \in BOOLEAN
  PROVE  SortsRight(k, rev)
<1>1. n \in Nat /\ SortKeys \subseteq Comparands
  BY OrderingAssumption
<1>2. KeysOn(k, n) /\ Len(k) = n /\ DOMAIN k = 1 .. n
  BY <1>1 DEF KeysOn
<1> SUFFICES ASSUME \A i \in DOMAIN k : Total(k[i])
             PROVE  /\ SortedStably(k, rev, Sorted(k, rev))
                    /\ IsExtremum(k, Side(rev), Extremum(k, Side(rev)))
  BY Zenon DEF SortsRight, Side
<1>3. \A i \in 1 .. n : k[i] \in TotalAt(CompareLimit)
  BY <1>2 DEF Total, TotalAt, KeysOn
<1> QED BY <1>2, <1>3, SortedRight, ExtremumRight

(* A comparison is what doc/spec.md says of it, except of NaN, for which   *)
(* the same laws hold, and None, whatever the values and however deep it   *)
(* reaches; and sorted, min and max rest on the order of the code          *)
(* (Comparisons of value.go, sortSlice and minmax of library.go).          *)
THEOREM OrderIsExact == OrderingSpec => []OrderExact
<1>1. (AskToCompare \/ AskToSort) => OrderExact
  <2>1. ASSUME AskToCompare PROVE OrderExact
    <3>1. question.kind = "compare" /\ question.values \in [1 .. 3 -> Comparands]
      BY <2>1 DEF AskToCompare
    <3>2. \A i \in 1 .. 3 : question.values[i] \in Comparands
      BY <3>1
    <3> DEFINE v == question.values
    <3>3. ComparedAsSpecified(v[1], v[2], v[3]) /\ ComparedOtherwise(v[1], v[2], v[3])
      BY <3>2, LawfulIs, OtherwiseIs DEF ComparedAsSpecified
    <3> QED BY <3>1, <3>3 DEF OrderExact
  <2>2. ASSUME AskToSort PROVE OrderExact
    <3>1. PICK n \in 0 .. MaxKeys :
            question \in [kind : {"sort"}, keys : [1 .. n -> SortKeys], reverse : BOOLEAN]
      BY <2>2 DEF AskToSort
    <3>2. question.kind = "sort" /\ question.keys \in [1 .. n -> SortKeys] /\ question.reverse \in BOOLEAN
      BY <3>1
    <3>3. SortsRight(question.keys, question.reverse)
      BY <3>2, SortsAreRight
    <3> QED BY <3>2, <3>3 DEF OrderExact
  <2> QED BY <2>1, <2>2
<1>2. OrderExact /\ UNCHANGED question => OrderExact'
  BY DEF OrderExact
<1> QED BY <1>1, <1>2, PTL DEF OrderingSpec, NothingElse
=============================================================================

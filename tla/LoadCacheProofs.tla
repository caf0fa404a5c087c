-------------------------- MODULE LoadCacheProofs --------------------------
(***************************************************************************)
(* That the module caches load each module once and never call a load      *)
(* complete that is not: for any number of clients and modules, any load   *)
(* graph and any interleaving of the loading threads.                      *)
(*                                                                         *)
(* The calls of get of one thread form a spine: every call but the         *)
(* innermost executes the load statement that made the next one.  An entry *)
(* that is not ready has one call that will make it so, and what that call *)
(* has loaded so far is loaded for good.                                   *)
(*                                                                         *)
(* That the spine of a thread follows the load statements also tells what  *)
(* an error means: a thread that finds its own call in an entry's way      *)
(* wants a module that needs itself.                                       *)
(***************************************************************************)
EXTENDS LoadCache, SequenceTheorems, FiniteSetTheorems, WellFoundedInduction, TLAPS

Points == {"lookup", "own", "exec", "disown", "close", "owner", "waitsFor", "wait", "blocked"}
Frame ==
  {f \in [mod : Module, at : Points, i : Nat \ {0}, e : Module \cup Thread] :
     /\ f.at \in {"lookup", "owner"} => f.e \in Module
     /\ f.at = "waitsFor" => f.e \in Thread}

(* The frame of a call that makes its module's entry ready; one that has   *)
(* set the entry's owner, and not cleared it.                              *)
Loading(f) == f.at \in {"own", "exec", "disown", "close"}
Owning(f) == f.at \in {"exec", "disown"}

Loaded == ready \ failed
Errs == Module \cup {None, Cycle}

Typed ==
  /\ deps \in [Module -> Seq(Module)]
  /\ cached \subseteq Module /\ ready \subseteq cached /\ failed \subseteq cached
  /\ fault \in [Module -> Errs]
  /\ owner \in [Module -> Thread \cup {None}]
  /\ waitsFor \in [Thread -> Module \cup {None}]
  /\ result \in [Thread -> {"none", "running", "ok", Cycle} \cup Module]
  /\ stack \in [Thread -> Seq(Frame)]
  /\ \A t \in Thread : result[t] = "running" <=> Active(t)

(* Each call was made by the one around it. *)
Spine ==
  \A t \in Thread : \A d \in 1 .. Len(stack[t]) - 1 :
    LET f == stack[t][d]
    IN  /\ f.at = "exec" /\ f.i \in DOMAIN deps[f.mod]
        /\ stack[t][d + 1].mod = deps[f.mod][f.i]

(* What the frames say of their modules' entries. *)
Frames ==
  \A t \in Thread : \A d \in DOMAIN stack[t] :
    LET f == stack[t][d]
    IN  /\ Loading(f) => f.mod \in cached \ ready
        /\ f.at \in {"own", "exec"} => f.mod \notin failed
        /\ f.at \notin {"exec", "disown", "close"} => f.i = 1
        /\ f.mod \notin failed =>
             /\ \A j \in DOMAIN deps[f.mod] : j < f.i => deps[f.mod][j] \in Loaded
             /\ f.at \in {"disown", "close"} => f.i > Len(deps[f.mod])
        /\ sequential => f.at # "own"

OneLoader ==
  /\ \A t, u \in Thread : \A d \in DOMAIN stack[t], c \in DOMAIN stack[u] :
       /\ Loading(stack[t][d]) /\ Loading(stack[u][c])
       /\ stack[t][d].mod = stack[u][c].mod
       => t = u /\ d = c
  /\ \A m \in cached \ ready : \E t \in Thread : \E d \in DOMAIN stack[t] :
       Loading(stack[t][d]) /\ stack[t][d].mod = m

Edges ==
  /\ \A m \in Module : owner[m] # None =>
       /\ ~sequential
       /\ \E d \in DOMAIN stack[owner[m]] :
            Owning(stack[owner[m]][d]) /\ stack[owner[m]][d].mod = m
  /\ \A t \in Thread : waitsFor[t] # None => At(t, "blocked") /\ Top(t).mod = waitsFor[t]

(* What is loaded needs only what is loaded, and not itself. *)
LoadedFirst ==
  \A m \in Loaded : m \notin Needs(m) /\ \A j \in DOMAIN deps[m] : deps[m][j] \in Loaded

IInv == Typed /\ Spine /\ Frames /\ OneLoader /\ Edges /\ LoadedFirst
-----------------------------------------------------------------------------
LEMMA SeqTyped ==
  ASSUME NEW S, NEW s \in Seq(S)
  PROVE  Len(s) \in Nat /\ DOMAIN s = 1 .. Len(s) /\ \A d \in DOMAIN s : s[d] \in S
OBVIOUS

LEMMA LastReplaced ==
  ASSUME NEW S, NEW s \in Seq(S), Len(s) \in Nat \ {0}, NEW g \in S
  PROVE  LET r == [s EXCEPT ![Len(s)] = g]
         IN  /\ r \in Seq(S) /\ Len(r) = Len(s) /\ r # <<>> /\ r[Len(s)] = g
             /\ \A d \in 1 .. Len(s) - 1 : r[d] = s[d]
OBVIOUS

LEMMA Pushed ==
  ASSUME NEW S, NEW s \in Seq(S), NEW g \in S
  PROVE  LET r == Append(s, g)
         IN  /\ r \in Seq(S) /\ Len(r) = Len(s) + 1 /\ r # <<>> /\ r[Len(s) + 1] = g
             /\ \A d \in 1 .. Len(s) : r[d] = s[d]
OBVIOUS

LEMMA Front ==
  ASSUME NEW S, NEW s \in Seq(S), Len(s) \in Nat \ {0}
  PROVE  LET f == SubSeq(s, 1, Len(s) - 1)
         IN  /\ f \in Seq(S) /\ Len(f) = Len(s) - 1
             /\ \A d \in 1 .. Len(s) - 1 : f[d] = s[d]
<1> DEFINE n == Len(s) - 1
<1>1. n \in Int /\ 1 \in Int /\ n >= 0
  OBVIOUS
<1>2. \A i \in 1 .. n : s[i] \in S
  OBVIOUS
<1>3. /\ SubSeq(s, 1, n) \in Seq(S)
      /\ Len(SubSeq(s, 1, n)) = IF 1 <= n THEN n - 1 + 1 ELSE 0
      /\ \A i \in 1 .. n - 1 + 1 : SubSeq(s, 1, n)[i] = s[1 + i - 1]
  <2> HIDE DEF n
  <2> QED BY <1>1, <1>2, SubSeqProperties
<1>4. Len(SubSeq(s, 1, n)) = n
  <2> HIDE DEF n
  <2> QED BY <1>1, <1>3
<1>5. \A d \in 1 .. n : SubSeq(s, 1, n)[d] = s[d]
  <2> HIDE DEF n
  <2> TAKE d \in 1 .. n
  <2>1. d \in 1 .. n - 1 + 1 /\ 1 + d - 1 = d
    BY <1>1
  <2> QED BY <1>3, <2>1
<1> HIDE DEF n
<1> QED BY <1>3, <1>4, <1>5 DEF n
-----------------------------------------------------------------------------
(* How a step of thread t changes its stack: its innermost frame becomes   *)
(* g; or a frame g is added; or the innermost frame is taken away and the  *)
(* one around it becomes g.                                                *)
Others(t) == \A u \in Thread \ {t} : stack'[u] = stack[u]

Moved(t, g) ==
  /\ stack' \in [Thread -> Seq(Frame)] /\ Others(t)
  /\ Len(stack'[t]) = Len(stack[t]) /\ stack'[t] # <<>>
  /\ \A d \in 1 .. Len(stack[t]) - 1 : stack'[t][d] = stack[t][d]
  /\ stack'[t][Len(stack[t])] = g

Called(t, g) ==
  /\ stack' \in [Thread -> Seq(Frame)] /\ Others(t)
  /\ Len(stack'[t]) = Len(stack[t]) + 1 /\ stack'[t] # <<>>
  /\ \A d \in 1 .. Len(stack[t]) : stack'[t][d] = stack[t][d]
  /\ stack'[t][Len(stack[t]) + 1] = g

Returned(t, g) ==
  /\ stack' \in [Thread -> Seq(Frame)] /\ Others(t)
  /\ Len(stack'[t]) = Len(stack[t]) - 1 /\ stack'[t] # <<>>
  /\ \A d \in 1 .. Len(stack[t]) - 2 : stack'[t][d] = stack[t][d]
  /\ stack'[t][Len(stack[t]) - 1] = g

LEMMA Stacks ==
  ASSUME Typed, NEW t \in Thread
  PROVE  /\ stack[t] \in Seq(Frame)
         /\ Len(stack[t]) \in Nat /\ DOMAIN stack[t] = 1 .. Len(stack[t])
         /\ \A d \in 1 .. Len(stack[t]) : stack[t][d] \in Frame
         /\ Active(t) => Len(stack[t]) \in Nat \ {0} /\ Top(t) \in Frame
<1>1. stack[t] \in Seq(Frame)
  BY DEF Typed
<1>2. Len(stack[t]) \in Nat /\ DOMAIN stack[t] = 1 .. Len(stack[t]) /\ \A d \in DOMAIN stack[t] : stack[t][d] \in Frame
  BY <1>1, SeqTyped, Zenon
<1>3. Active(t) => Len(stack[t]) \in Nat \ {0}
  BY <1>1, EmptySeq DEF Active
<1>4. Active(t) => Top(t) \in Frame
  BY <1>2, <1>3 DEF Top
<1> QED BY <1>1, <1>2, <1>3, <1>4

LEMMA GotoMoves ==
  ASSUME Typed, NEW t \in Thread, Active(t), NEW g \in Frame,
         stack' = [stack EXCEPT ![t] = [@ EXCEPT ![Len(stack[t])] = g]]
  PROVE  Moved(t, g)
<1> DEFINE s == stack[t]
<1>1. s \in Seq(Frame) /\ Len(s) \in Nat \ {0}
  BY Stacks
<1>2. stack' = [stack EXCEPT ![t] = [s EXCEPT ![Len(s)] = g]]
  OBVIOUS
<1>3. stack'[t] = [s EXCEPT ![Len(s)] = g] /\ Others(t)
  BY <1>2 DEF Typed, Others
<1>4. /\ stack'[t] \in Seq(Frame) /\ Len(stack'[t]) = Len(s) /\ stack'[t] # <<>> /\ stack'[t][Len(s)] = g
      /\ \A d \in 1 .. Len(s) - 1 : stack'[t][d] = s[d]
  <2> DEFINE r == [s EXCEPT ![Len(s)] = g]
  <2> HIDE DEF s
  <2>1. /\ r \in Seq(Frame) /\ Len(r) = Len(s) /\ r # <<>> /\ r[Len(s)] = g
        /\ \A d \in 1 .. Len(s) - 1 : r[d] = s[d]
    BY <1>1
  <2>2. stack'[t] = r
    BY <1>3
  <2> HIDE DEF r
  <2> QED BY <2>1, <2>2
<1>5. stack' \in [Thread -> Seq(Frame)]
  BY <1>2, <1>3, <1>4 DEF Typed
<1> QED BY <1>3, <1>4, <1>5 DEF Moved

LEMMA MovedFrames ==
  ASSUME Typed, NEW t \in Thread, Active(t), NEW g, Moved(t, g)
  PROVE  \A u \in Thread :
           /\ Len(stack'[u]) = Len(stack[u]) /\ DOMAIN stack'[u] = DOMAIN stack[u]
           /\ \A d \in DOMAIN stack[u] :
                stack'[u][d] = IF u = t /\ d = Len(stack[t]) THEN g ELSE stack[u][d]
<1> SUFFICES ASSUME NEW u \in Thread
             PROVE  /\ Len(stack'[u]) = Len(stack[u]) /\ DOMAIN stack'[u] = DOMAIN stack[u]
                    /\ \A d \in DOMAIN stack[u] :
                         stack'[u][d] = IF u = t /\ d = Len(stack[t]) THEN g ELSE stack[u][d]
  OBVIOUS
<1>1. CASE u # t
  BY <1>1 DEF Moved, Others
<1>2. CASE u = t
  <2>1. stack'[t] \in Seq(Frame) /\ stack[t] \in Seq(Frame)
    BY Stacks DEF Moved
  <2>2. DOMAIN stack'[t] = 1 .. Len(stack'[t]) /\ DOMAIN stack[t] = 1 .. Len(stack[t]) /\ Len(stack[t]) \in Nat
    BY <2>1, SeqTyped, Zenon
  <2>3. Len(stack'[t]) = Len(stack[t])
    BY DEF Moved
  <2>4. \A d \in DOMAIN stack[t] : d # Len(stack[t]) => d \in 1 .. Len(stack[t]) - 1
    BY <2>2
  <2> QED BY <1>2, <2>2, <2>3, <2>4 DEF Moved
<1> QED BY <1>1, <1>2

(* A frame that stays at its call keeps the invariant, if it says of its   *)
(* entry what its new point requires.                                      *)
LEMMA MovedInv ==
  ASSUME IInv, NEW t \in Thread, Active(t), NEW g \in Frame, Moved(t, g),
         g.mod = Top(t).mod, g.i = Top(t).i, Top(t).at = "exec" => g.at \in {"disown", "close"},
         UNCHANGED <<sequential, deps, ready, result>>,
         \/ fault' = fault
         \/ Top(t).at = "exec" /\ fault' = [fault EXCEPT ![g.mod] = g.mod],
         Loading(Top(t)) => Loading(g),
         cached' = IF Loading(g) THEN cached \cup {g.mod} ELSE cached,
         Loading(g) /\ ~Loading(Top(t)) => g.mod \notin cached,
         g.at \in {"disown", "close"} => g.mod \in failed \/ g.i > Len(deps[g.mod]),
         g.at \in {"own", "exec"} => g.mod \notin failed,
         g.at \notin {"exec", "disown", "close"} => g.i = 1,
         sequential => g.at # "own",
         owner' \in [Module -> Thread \cup {None}],
         waitsFor' \in [Thread -> Module \cup {None}],
         Edges'
  PROVE  IInv'
<1> DEFINE n == Len(stack[t])
<1>1. Typed /\ Spine /\ Frames /\ OneLoader /\ LoadedFirst
  BY DEF IInv
<1>2. /\ n \in Nat \ {0} /\ n \in DOMAIN stack[t] /\ Top(t) = stack[t][n]
      /\ \A u \in Thread : Len(stack[u]) \in Nat /\ DOMAIN stack[u] = 1 .. Len(stack[u])
  <2>1. n \in Nat \ {0} /\ DOMAIN stack[t] = 1 .. n
    BY <1>1, Stacks
  <2>2. \A u \in Thread : Len(stack[u]) \in Nat /\ DOMAIN stack[u] = 1 .. Len(stack[u])
    BY <1>1, Stacks
  <2> QED BY <2>1, <2>2 DEF Top
<1>3. \A u \in Thread :
        /\ Len(stack'[u]) = Len(stack[u]) /\ DOMAIN stack'[u] = DOMAIN stack[u]
        /\ \A d \in DOMAIN stack[u] :
             stack'[u][d] = IF u = t /\ d = n THEN g ELSE stack[u][d]
  BY <1>1, MovedFrames
<1>10. /\ failed \subseteq failed'
       /\ \A m \in failed' : m \in failed \/ (Top(t).at = "exec" /\ m = g.mod)
       /\ Top(t).at = "exec" => g.mod \in cached \ ready
  <2>1. g.mod \in Module
    BY DEF Frame
  <2>2. Top(t).at = "exec" => g.mod \in cached \ ready
    BY <1>1, <1>2 DEF Frames, Loading
  <2>3. fault' # fault => \A m \in Module : fault'[m] = IF m = g.mod THEN m ELSE fault[m]
    BY <1>1, <2>1 DEF Typed
  <2>4. CASE fault' = fault
    BY <2>2, <2>4 DEF failed
  <2>5. CASE fault' # fault
    <3>1. Top(t).at = "exec" /\ None \notin Module
      BY <2>5, CacheAssumption
    <3>2. /\ \A m \in Module : fault[m] # None => fault'[m] # None
          /\ \A m \in Module : fault'[m] # None => fault[m] # None \/ m = g.mod
      BY <2>1, <2>3, <2>5, <3>1
    <3> QED BY <2>2, <3>1, <3>2, Zenon DEF failed
  <2> QED BY <2>4, <2>5
<1>4. Typed'
  <2>1. \A u \in Thread : Active(u)' <=> Active(u)
    BY DEF Moved, Others, Active
  <2>2. g.mod \in Module
    BY DEF Frame
  <2>3. cached' \subseteq Module /\ ready \subseteq cached' /\ failed' \subseteq cached'
    <3>1. cached \subseteq Module /\ ready \subseteq cached /\ failed \subseteq cached /\ cached \subseteq cached'
      BY <1>1 DEF Typed
    <3>2. failed' \subseteq cached
      BY <1>10, <3>1, Zenon
    <3> QED BY <2>2, <3>1, <3>2
  <2>4. fault' \in [Module -> Errs]
    BY <1>1, <2>2 DEF Typed, Errs
  <2> QED BY <1>1, <2>1, <2>3, <2>4 DEF Typed, Moved
<1>5. Spine'
  <2> SUFFICES ASSUME NEW u \in Thread, NEW d \in 1 .. Len(stack[u]) - 1
               PROVE  LET f == stack'[u][d]
                      IN  /\ f.at = "exec" /\ f.i \in DOMAIN deps[f.mod]
                          /\ stack'[u][d + 1].mod = deps[f.mod][f.i]
    BY <1>3 DEF Spine
  <2>1. d \in DOMAIN stack[u] /\ d + 1 \in DOMAIN stack[u] /\ ~(u = t /\ d = n)
    BY <1>2
  <2>2. stack'[u][d] = stack[u][d] /\ stack'[u][d + 1].mod = stack[u][d + 1].mod
    BY <1>2, <1>3, <2>1
  <2> QED BY <1>1, <2>2 DEF Spine
<1>6. Loaded' = Loaded
  BY <1>10, Zenon DEF Loaded
<1>7. Frames'
  <2> SUFFICES ASSUME NEW u \in Thread, NEW d \in DOMAIN stack[u]
               PROVE  LET f == stack'[u][d]
                      IN  /\ Loading(f) => f.mod \in cached' \ ready
                          /\ f.at \in {"own", "exec"} => f.mod \notin failed'
                          /\ f.at \notin {"exec", "disown", "close"} => f.i = 1
                          /\ f.mod \notin failed' =>
                               /\ \A j \in DOMAIN deps[f.mod] : j < f.i => deps[f.mod][j] \in Loaded
                               /\ f.at \in {"disown", "close"} => f.i > Len(deps[f.mod])
                          /\ sequential => f.at # "own"
    BY <1>3, <1>6, SMTT(60) DEF Frames, Loading
  <2>1. CASE u = t /\ d = n
    <3>1. stack'[u][d] = g
      BY <1>3, <2>1
    <3>2. Loading(g) => g.mod \in cached' \ ready
      <4>1. Loading(Top(t)) => Top(t).mod \notin ready
        BY <1>1, <1>2 DEF Frames
      <4> QED BY <1>1, <4>1 DEF Typed
    <3>3. g.mod \notin failed => \A j \in DOMAIN deps[g.mod] : j < g.i => deps[g.mod][j] \in Loaded
      BY <1>1, <1>2 DEF Frames
    <3>4. g.at \in {"own", "exec"} => g.mod \notin failed'
      <4>1. Top(t).at = "exec" => g.at \notin {"own", "exec"}
        OBVIOUS
      <4> QED BY <1>10, <4>1, Zenon
    <3>5. /\ g.mod \notin failed' => g.mod \notin failed
          /\ g.mod \notin failed /\ g.at \in {"disown", "close"} => g.i > Len(deps[g.mod])
      BY <1>10
    <3> QED BY <3>1, <3>2, <3>3, <3>4, <3>5
  <2>2. CASE ~(u = t /\ d = n)
    <3>1. stack'[u][d] = stack[u][d]
      BY <1>3, <2>2
    <3>2. cached \subseteq cached'
      OBVIOUS
    <3>3. Loading(stack[u][d]) => stack[u][d].mod \notin failed' \ failed
      <4>1. Loading(stack[u][d]) /\ Top(t).at = "exec" => stack[u][d].mod # g.mod
        <5>1. Top(t).at = "exec" => Loading(stack[t][n])
          BY <1>2 DEF Loading
        <5>2. Top(t).mod = stack[t][n].mod
          BY <1>2
        <5> QED BY <1>1, <1>2, <2>2, <5>1, <5>2 DEF OneLoader
      <4> QED BY <1>10, <4>1, Zenon
    <3> DEFINE f == stack[u][d]
    <3>4. /\ Loading(f) => f.mod \in cached \ ready
          /\ f.at \in {"own", "exec"} => f.mod \notin failed /\ Loading(f)
          /\ f.at \notin {"exec", "disown", "close"} => f.i = 1
          /\ f.mod \notin failed =>
               /\ \A j \in DOMAIN deps[f.mod] : j < f.i => deps[f.mod][j] \in Loaded
               /\ f.at \in {"disown", "close"} => f.i > Len(deps[f.mod])
          /\ sequential => f.at # "own"
      BY <1>1 DEF Frames, Loading
    <3>5. f.mod \notin failed' => f.mod \notin failed
      BY <1>10
    <3> HIDE DEF f
    <3> QED BY <3>1, <3>2, <3>3, <3>4, <3>5 DEF f
  <2> QED BY <2>1, <2>2
<1>8. OneLoader'
  <2>1. ASSUME NEW u \in Thread, NEW v \in Thread, NEW d \in DOMAIN stack[u], NEW c \in DOMAIN stack[v],
               Loading(stack'[u][d]), Loading(stack'[v][c]),
               stack'[u][d].mod = stack'[v][c].mod
        PROVE  u = v /\ d = c
    <3>1. \A w \in Thread : \A e \in DOMAIN stack[w] :
            Loading(stack'[w][e]) =>
              /\ stack'[w][e].mod = stack[w][e].mod
              /\ \/ Loading(stack[w][e]) /\ stack[w][e].mod \in cached
                 \/ w = t /\ e = n /\ stack[w][e].mod \notin cached
      BY <1>1, <1>2, <1>3 DEF Frames
    <3> QED BY <1>1, <2>1, <3>1 DEF OneLoader
  <2>2. ASSUME NEW m \in cached' \ ready
        PROVE  \E u \in Thread : \E d \in DOMAIN stack[u] :
                 Loading(stack'[u][d]) /\ stack'[u][d].mod = m
    <3>1. CASE m \notin cached
      BY <1>2, <1>3, <3>1
    <3>2. CASE m \in cached
      <4>1. PICK u \in Thread : \E d \in DOMAIN stack[u] : Loading(stack[u][d]) /\ stack[u][d].mod = m
        BY <1>1, <3>2 DEF OneLoader
      <4>2. PICK d \in DOMAIN stack[u] : Loading(stack[u][d]) /\ stack[u][d].mod = m
        BY <4>1
      <4> QED BY <1>2, <1>3, <4>2
    <3> QED BY <3>1, <3>2
  <2> QED BY <1>3, <2>1, <2>2 DEF OneLoader, Loading
<1>9. LoadedFirst'
  BY <1>1, <1>6 DEF LoadedFirst, Needs
<1> QED BY <1>4, <1>5, <1>7, <1>8, <1>9 DEF IInv
-----------------------------------------------------------------------------
(* A call of get begins, that has not looked for its entry yet. *)
LEMMA CalledInv ==
  ASSUME IInv, NEW t \in Thread, NEW g \in Frame, Called(t, g),
         g.at = "lookup", g.i = 1,
         Active(t) => /\ Top(t).at = "exec" /\ Top(t).i \in DOMAIN deps[Top(t).mod]
                      /\ g.mod = deps[Top(t).mod][Top(t).i],
         result' = [result EXCEPT ![t] = "running"],
         UNCHANGED <<sequential, deps, shared>>
  PROVE  IInv'
<1> DEFINE n == Len(stack[t])
<1>1. Typed /\ Spine /\ Frames /\ OneLoader /\ Edges /\ LoadedFirst
  BY DEF IInv
<1>2. \A u \in Thread : Len(stack[u]) \in Nat /\ DOMAIN stack[u] = 1 .. Len(stack[u])
  BY <1>1, Stacks
<1>3. \A u \in Thread : Len(stack'[u]) \in Nat /\ DOMAIN stack'[u] = 1 .. Len(stack'[u])
  <2> TAKE u \in Thread
  <2>1. stack'[u] \in Seq(Frame)
    BY DEF Called
  <2> QED BY <2>1, SeqTyped, Zenon
<1>4. /\ \A u \in Thread \ {t} : stack'[u] = stack[u]
      /\ Len(stack'[t]) = n + 1 /\ stack'[t][n + 1] = g
      /\ \A d \in 1 .. n : stack'[t][d] = stack[t][d]
  BY DEF Called, Others
<1>5. UNCHANGED <<sequential, deps, cached, owner, waitsFor, ready, fault, failed>> /\ Loaded' = Loaded
  BY DEF shared, failed, Loaded
<1>6. \A u \in Thread : \A d \in DOMAIN stack'[u] :
        \/ u = t /\ d = n + 1 /\ stack'[u][d] = g
        \/ d \in DOMAIN stack[u] /\ stack'[u][d] = stack[u][d]
  <2> TAKE u \in Thread
  <2>1. CASE u = t
    <3>1. \A d \in 1 .. n + 1 : d = n + 1 \/ d \in 1 .. n
      BY <1>2
    <3> QED BY <1>2, <1>3, <1>4, <2>1, <3>1
  <2>2. CASE u # t
    BY <1>4, <2>2
  <2> QED BY <2>1, <2>2
<1>7. \A u \in Thread : \A d \in DOMAIN stack[u] : d \in DOMAIN stack'[u] /\ stack'[u][d] = stack[u][d]
  <2> TAKE u \in Thread
  <2>1. CASE u = t
    <3>1. \A d \in 1 .. n : d \in 1 .. n + 1
      BY <1>2
    <3> QED BY <1>2, <1>3, <1>4, <2>1, <3>1
  <2>2. CASE u # t
    BY <1>4, <2>2
  <2> QED BY <2>1, <2>2
<1>8. Typed'
  <2>1. \A u \in Thread \ {t} : Active(u)' <=> Active(u)
    BY <1>4 DEF Active
  <2>2. Active(t)'
    BY DEF Called, Active
  <2> QED BY <1>1, <1>5, <2>1, <2>2 DEF Typed, Called
<1>9. Spine'
  <2> SUFFICES ASSUME NEW u \in Thread, NEW d \in 1 .. Len(stack'[u]) - 1
               PROVE  LET f == stack'[u][d]
                      IN  /\ f.at = "exec" /\ f.i \in DOMAIN deps[f.mod]
                          /\ stack'[u][d + 1].mod = deps[f.mod][f.i]
    BY <1>5 DEF Spine
  <2>1. CASE u = t /\ d = n
    <3>1. n \in Nat \ {0} /\ Active(t) /\ Top(t) = stack[t][n]
      BY <1>2, <2>1 DEF Active, Top
    <3> QED BY <1>4, <2>1, <3>1
  <2>2. CASE ~(u = t /\ d = n)
    <3>1. d \in 1 .. Len(stack[u]) - 1
      BY <1>2, <1>4, <2>2
    <3>2. d \in DOMAIN stack[u] /\ d + 1 \in DOMAIN stack[u]
      BY <1>2, <3>1
    <3>3. stack'[u][d] = stack[u][d] /\ stack'[u][d + 1] = stack[u][d + 1]
      BY <1>7, <3>2
    <3> QED BY <1>1, <3>1, <3>3 DEF Spine
  <2> QED BY <2>1, <2>2
<1>10. Frames'
  <2> SUFFICES ASSUME NEW u \in Thread, NEW d \in DOMAIN stack'[u]
               PROVE  LET f == stack'[u][d]
                      IN  /\ Loading(f) => f.mod \in cached \ ready
                          /\ f.at \in {"own", "exec"} => f.mod \notin failed
                          /\ f.at \notin {"exec", "disown", "close"} => f.i = 1
                          /\ f.mod \notin failed =>
                               /\ \A j \in DOMAIN deps[f.mod] : j < f.i => deps[f.mod][j] \in Loaded
                               /\ f.at \in {"disown", "close"} => f.i > Len(deps[f.mod])
                          /\ sequential => f.at # "own"
    BY <1>5 DEF Frames, Loading
  <2>1. CASE stack'[u][d] = g
    <3>1. g.mod \in Module
      BY DEF Frame
    <3>2. deps[g.mod] \in Seq(Module)
      BY <1>1, <3>1 DEF Typed
    <3>3. DOMAIN deps[g.mod] = 1 .. Len(deps[g.mod])
      BY <3>2, SeqTyped, Zenon
    <3>4. \A j \in DOMAIN deps[g.mod] : ~(j < g.i)
      BY <3>3
    <3> QED BY <2>1, <3>4 DEF Loading
  <2>2. CASE d \in DOMAIN stack[u] /\ stack'[u][d] = stack[u][d]
    BY <1>1, <2>2 DEF Frames
  <2> QED BY <1>6, <2>1, <2>2
<1>11. OneLoader'
  <2>1. \A u \in Thread : \A d \in DOMAIN stack'[u] :
          Loading(stack'[u][d]) => d \in DOMAIN stack[u] /\ stack'[u][d] = stack[u][d]
    BY <1>6 DEF Loading
  <2>2. \A m \in cached \ ready : \E u \in Thread : \E d \in DOMAIN stack'[u] :
          Loading(stack'[u][d]) /\ stack'[u][d].mod = m
    BY <1>1, <1>7 DEF OneLoader
  <2> QED BY <1>1, <1>5, <2>1, <2>2 DEF OneLoader, Loading
<1>12. Edges'
  <2>1. \A m \in Module : owner[m] # None =>
          /\ ~sequential
          /\ \E d \in DOMAIN stack'[owner[m]] :
               Owning(stack'[owner[m]][d]) /\ stack'[owner[m]][d].mod = m
    <3> SUFFICES ASSUME NEW m \in Module, owner[m] # None
                 PROVE  /\ ~sequential
                        /\ \E d \in DOMAIN stack'[owner[m]] :
                             Owning(stack'[owner[m]][d]) /\ stack'[owner[m]][d].mod = m
      OBVIOUS
    <3>1. owner[m] \in Thread
      BY <1>1 DEF Typed
    <3>2. ~sequential /\ \E d \in DOMAIN stack[owner[m]] :
             Owning(stack[owner[m]][d]) /\ stack[owner[m]][d].mod = m
      BY <1>1 DEF Edges
    <3> QED BY <1>7, <3>1, <3>2
  <2>2. waitsFor[t] = None
    BY <1>1 DEF Edges, At
  <2>3. \A u \in Thread \ {t} : waitsFor[u] # None => At(u, "blocked")' /\ Top(u)'.mod = waitsFor[u]
    BY <1>1, <1>4 DEF Edges, At, Active, Top
  <2> QED BY <1>5, <2>1, <2>2, <2>3 DEF Edges, Owning
<1>13. LoadedFirst'
  BY <1>1, <1>5 DEF LoadedFirst, Needs
<1> QED BY <1>8, <1>9, <1>10, <1>11, <1>12, <1>13 DEF IInv
-----------------------------------------------------------------------------
(* The frame of the caller when get has returned to it. *)
Caller(f, err) ==
  IF err # None THEN [f EXCEPT !.at = Executed] ELSE [f EXCEPT !.i = @ + 1]

LEMMA ReturnPops ==
  ASSUME IInv, NEW t \in Thread, Active(t), NEW err \in Errs, Return(t, err)
  PROVE  LET n == Len(stack[t])
         IN  /\ stack' \in [Thread -> Seq(Frame)] /\ Others(t)
             /\ Len(stack'[t]) = n - 1
             /\ \A d \in 1 .. n - 1 :
                  stack'[t][d] = IF d = n - 1 THEN Caller(stack[t][d], err) ELSE stack[t][d]
             /\ \A d \in 1 .. n - 1 : Caller(stack[t][d], err) \in Frame
             /\ fault' = IF n # 1 /\ err # None
                         THEN [fault EXCEPT ![stack[t][n - 1].mod] = err] ELSE fault
             /\ failed' = IF n # 1 /\ err # None THEN failed \cup {stack[t][n - 1].mod} ELSE failed
<1> DEFINE n == Len(stack[t])
           outer == SubSeq(stack[t], 1, n - 1)
<1>1. stack[t] \in Seq(Frame) /\ n \in Nat \ {0} /\ \A d \in 1 .. n : stack[t][d] \in Frame
  BY Stacks DEF IInv
<1>2. outer \in Seq(Frame) /\ Len(outer) = n - 1 /\ \A d \in 1 .. n - 1 : outer[d] = stack[t][d]
  BY <1>1, Front
<1>3. Executed \in Points
  BY DEF Executed, Points
<1>4. \A d \in 1 .. n - 1 : Caller(stack[t][d], err) \in Frame
  <2> TAKE d \in 1 .. n - 1
  <2>1. stack[t][d] \in Frame
    BY <1>1
  <2>2. Executed \notin {"lookup", "owner", "waitsFor"}
    BY DEF Executed
  <2>3. CASE err # None
    BY <1>3, <2>1, <2>2, <2>3 DEF Caller, Frame
  <2>4. CASE err = None
    BY <2>1, <2>4 DEF Caller, Frame
  <2> QED BY <2>3, <2>4
<1>5. stack \in [Thread -> Seq(Frame)]
  BY DEF IInv, Typed
<1> HIDE DEF outer
<1>6. CASE n = 1
  <2>1. stack' = [stack EXCEPT ![t] = <<>>] /\ fault' = fault /\ failed' = failed
    BY <1>6 DEF Return, failed
  <2>2. stack'[t] = <<>> /\ Others(t)
    BY <1>5, <2>1 DEF Others
  <2>3. stack' \in [Thread -> Seq(Frame)]
    BY <1>5, <2>1
  <2> QED BY <1>6, <2>1, <2>2, <2>3
<1>7. CASE n # 1
  <2> DEFINE g == Caller(stack[t][n - 1], err)
  <2>0. n - 1 \in 1 .. n - 1
    <3> HIDE DEF n
    <3> QED BY <1>1, <1>7
  <2>1. stack' = [stack EXCEPT ![t] = [outer EXCEPT ![n - 1] = g]]
    <3>1. stack' = [stack EXCEPT ![t] = IF err = None THEN [outer EXCEPT ![n - 1].i = @ + 1]
                                        ELSE [outer EXCEPT ![n - 1].at = Executed]]
      BY <1>7 DEF Return, outer
    <3>2. outer[n - 1] = stack[t][n - 1]
      BY <1>2, <2>0
    <3>3. err # None => [outer EXCEPT ![n - 1].at = Executed] = [outer EXCEPT ![n - 1] = g]
      BY <3>2 DEF Caller
    <3>4. err = None => [outer EXCEPT ![n - 1].i = @ + 1] = [outer EXCEPT ![n - 1] = g]
      BY <3>2 DEF Caller
    <3> HIDE DEF n, g
    <3> QED BY <3>1, <3>3, <3>4
  <2>2. fault' = IF err # None THEN [fault EXCEPT ![stack[t][n - 1].mod] = err] ELSE fault
    <3>1. fault' = IF err = None THEN fault ELSE [fault EXCEPT ![outer[n - 1].mod] = err]
      BY <1>7 DEF Return, outer
    <3> QED BY <1>2, <2>0, <3>1
  <2>10. failed' = IF err # None THEN failed \cup {stack[t][n - 1].mod} ELSE failed
    <3>1. stack[t][n - 1].mod \in Module
      <4>1. n - 1 \in 1 .. n
        <5> HIDE DEF n
        <5> QED BY <1>1, <1>7
      <4> QED BY <1>1, <4>1 DEF Frame
    <3> QED BY <2>2, <3>1 DEF IInv, Typed, failed
  <2>3. g \in Frame
    BY <1>4, <2>0
  <2> HIDE DEF g
  <2> DEFINE r == [outer EXCEPT ![n - 1] = g]
  <2>4. r \in Seq(Frame) /\ Len(r) = n - 1 /\ \A d \in 1 .. n - 1 : r[d] = IF d = n - 1 THEN g ELSE outer[d]
    <3> HIDE DEF n
    <3> QED BY <1>1, <1>2, <1>7, <2>3
  <2>5. stack'[t] = r /\ Others(t)
    <3> HIDE DEF r
    <3>1. stack' = [stack EXCEPT ![t] = r]
      BY <2>1 DEF r
    <3> QED BY <1>5, <3>1 DEF Others
  <2>6. stack' \in [Thread -> Seq(Frame)]
    <3> HIDE DEF r
    <3>1. stack' = [stack EXCEPT ![t] = r]
      BY <2>1 DEF r
    <3> QED BY <1>5, <2>4, <3>1
  <2>7. \A d \in 1 .. n - 1 : stack'[t][d] = IF d = n - 1 THEN g ELSE stack[t][d]
    <3> HIDE DEF r
    <3> QED BY <1>2, <2>4, <2>5
  <2>8. Len(stack'[t]) = n - 1
    BY <2>4, <2>5
  <2>9. /\ fault' = IF n # 1 /\ err # None THEN [fault EXCEPT ![stack[t][n - 1].mod] = err] ELSE fault
        /\ failed' = IF n # 1 /\ err # None THEN failed \cup {stack[t][n - 1].mod} ELSE failed
    BY <1>7, <2>2, <2>10
  <2> QED BY <1>4, <2>5, <2>6, <2>7, <2>8, <2>9 DEF g
<1> QED BY <1>6, <1>7

(* What a module needs is within any closed set that its loads lead into. *)
LEMMA NeedsWithin ==
  ASSUME NEW m, NEW S \in SUBSET Module,
         \A p \in S \cup {m} : \A i \in DOMAIN deps[p] : deps[p][i] \in S
  PROVE  Needs(m) \subseteq S
BY DEF Needs

(* A call of get returns.  If it was making its module's entry ready it    *)
(* has done so; if it succeeds the module is loaded.                       *)
LEMMA ReturnInv ==
  ASSUME IInv, NEW t \in Thread, Active(t), NEW err \in Errs, Return(t, err),
         UNCHANGED <<sequential, deps, cached, owner>>,
         Loading(Top(t)) => Top(t).at = "close" /\ err = fault[Top(t).mod],
         ~Loading(Top(t)) /\ err = None => Top(t).mod \in Loaded,
         ready' = IF Loading(Top(t)) THEN ready \cup {Top(t).mod} ELSE ready,
         waitsFor' \in [Thread -> Module \cup {None}],
         waitsFor'[t] = None, \A u \in Thread \ {t} : waitsFor'[u] = waitsFor[u]
  PROVE  IInv'
<1> DEFINE n == Len(stack[t])
           m == Top(t).mod
           X == IF n # 1 /\ err # None THEN {stack[t][n - 1].mod} ELSE {}
<1>1. Typed /\ Spine /\ Frames /\ OneLoader /\ Edges /\ LoadedFirst
  BY DEF IInv
<1>2. /\ n \in Nat \ {0} /\ n \in DOMAIN stack[t] /\ Top(t) = stack[t][n] /\ Top(t) \in Frame
      /\ \A u \in Thread : Len(stack[u]) \in Nat /\ DOMAIN stack[u] = 1 .. Len(stack[u])
  <2>1. n \in Nat \ {0} /\ DOMAIN stack[t] = 1 .. n /\ Top(t) \in Frame
    BY <1>1, Stacks
  <2>2. \A u \in Thread : Len(stack[u]) \in Nat /\ DOMAIN stack[u] = 1 .. Len(stack[u])
    BY <1>1, Stacks
  <2> QED BY <2>1, <2>2 DEF Top
<1>3. /\ stack' \in [Thread -> Seq(Frame)]
      /\ \A u \in Thread \ {t} : stack'[u] = stack[u]
      /\ Len(stack'[t]) = n - 1
      /\ \A d \in 1 .. n - 1 :
           stack'[t][d] = IF d = n - 1 THEN Caller(stack[t][d], err) ELSE stack[t][d]
      /\ \A d \in 1 .. n - 1 : Caller(stack[t][d], err) \in Frame
      /\ failed' = failed \cup X
      /\ fault' = IF n # 1 /\ err # None THEN [fault EXCEPT ![stack[t][n - 1].mod] = err] ELSE fault
  BY ReturnPops DEF Others
<1>4. \A u \in Thread : Len(stack'[u]) \in Nat /\ DOMAIN stack'[u] = 1 .. Len(stack'[u])
  <2> TAKE u \in Thread
  <2>1. stack'[u] \in Seq(Frame)
    BY <1>3
  <2> QED BY <2>1, SeqTyped, Zenon
(* The frames that are left, and what becomes of them. *)
<1>5. \A u \in Thread : \A d \in DOMAIN stack'[u] :
        /\ d \in DOMAIN stack[u] /\ ~(u = t /\ d = n)
        /\ IF u = t /\ d = n - 1
           THEN n # 1 /\ stack'[u][d] = Caller(stack[u][d], err)
           ELSE stack'[u][d] = stack[u][d]
  <2> TAKE u \in Thread
  <2>1. CASE u = t
    <3>1. \A d \in 1 .. n - 1 : d \in 1 .. n /\ d # n /\ (d = n - 1 => n # 1)
      BY <1>2
    <3> QED BY <1>2, <1>3, <1>4, <2>1, <3>1
  <2>2. CASE u # t
    BY <1>3, <2>2
  <2> QED BY <2>1, <2>2
<1>6. \A u \in Thread : \A d \in DOMAIN stack[u] : (u = t /\ d = n) \/ d \in DOMAIN stack'[u]
  <2> TAKE u \in Thread
  <2>1. CASE u = t
    <3>1. \A d \in 1 .. n : d = n \/ d \in 1 .. n - 1
      BY <1>2
    <3> QED BY <1>2, <1>3, <1>4, <2>1, <3>1
  <2>2. CASE u # t
    BY <1>3, <2>2
  <2> QED BY <2>1, <2>2
<1>7. \A f \in Frame : /\ Caller(f, err).mod = f.mod /\ Caller(f, err).e = f.e
                       /\ Caller(f, err).at = IF err # None THEN Executed ELSE f.at
                       /\ Caller(f, err).i = IF err # None THEN f.i ELSE f.i + 1
  BY SMTT(60) DEF Caller, Frame
(* The caller was executing the load statement that this call served. *)
<1>8. n # 1 => /\ n - 1 \in DOMAIN stack[t] /\ stack[t][n - 1] \in Frame
               /\ stack[t][n - 1].at = "exec"
               /\ stack[t][n - 1].i \in DOMAIN deps[stack[t][n - 1].mod]
               /\ m = deps[stack[t][n - 1].mod][stack[t][n - 1].i]
               /\ stack[t][n - 1].mod \in cached \ ready
               /\ Loading(stack[t][n - 1])
  <2> SUFFICES ASSUME n # 1
               PROVE  /\ n - 1 \in DOMAIN stack[t] /\ stack[t][n - 1] \in Frame
                      /\ stack[t][n - 1].at = "exec"
                      /\ stack[t][n - 1].i \in DOMAIN deps[stack[t][n - 1].mod]
                      /\ m = deps[stack[t][n - 1].mod][stack[t][n - 1].i]
                      /\ stack[t][n - 1].mod \in cached \ ready
                      /\ Loading(stack[t][n - 1])
    OBVIOUS
  <2>1. n - 1 \in 1 .. n - 1 /\ n - 1 \in DOMAIN stack[t] /\ n - 1 + 1 = n
    <3>1. DOMAIN stack[t] = 1 .. n /\ n \in Nat \ {0, 1}
      BY <1>2
    <3> HIDE DEF n
    <3> QED BY <3>1
  <2>2. stack[t][n - 1] \in Frame
    BY <1>1, <1>2, <2>1, Stacks
  <2>3. LET f == stack[t][n - 1]
        IN  f.at = "exec" /\ f.i \in DOMAIN deps[f.mod] /\ stack[t][n - 1 + 1].mod = deps[f.mod][f.i]
    BY <1>1, <2>1 DEF Spine
  <2>4. m = deps[stack[t][n - 1].mod][stack[t][n - 1].i]
    BY <1>2, <2>1, <2>3
  <2>5. Loading(stack[t][n - 1])
    BY <2>3 DEF Loading
  <2> QED BY <1>1, <2>1, <2>2, <2>3, <2>4, <2>5 DEF Frames
<1>9. Loading(Top(t)) => m \in cached \ ready
  BY <1>1, <1>2 DEF Frames
<1>10. Loading(Top(t)) => m \notin X
  <2>1. n # 1 => n - 1 # n
    BY <1>2
  <2> QED BY <1>1, <1>2, <1>8, <2>1 DEF OneLoader
<1>11. X \subseteq cached \ ready
  BY <1>8
(* What is loaded. *)
<1>12. Loaded' = IF Loading(Top(t)) /\ m \notin failed THEN Loaded \cup {m} ELSE Loaded
  <2> HIDE DEF X, m
  <2> QED BY <1>3, <1>9, <1>10, <1>11 DEF Loaded, m
<1>13. err = None => m \in Loaded'
  <2>1. Loading(Top(t)) /\ err = None => m \notin failed
    BY DEF failed
  <2> QED BY <1>12, <2>1
<1>14. Loading(Top(t)) /\ m \notin failed => \A j \in DOMAIN deps[m] : deps[m][j] \in Loaded
  <2> SUFFICES ASSUME Loading(Top(t)), m \notin failed
               PROVE  \A j \in DOMAIN deps[m] : deps[m][j] \in Loaded
    OBVIOUS
  <2>1. /\ \A j \in DOMAIN deps[m] : j < Top(t).i => deps[m][j] \in Loaded
        /\ Top(t).i > Len(deps[m])
    BY <1>1, <1>2 DEF Frames
  <2>2. deps[m] \in Seq(Module)
    BY <1>1, <1>2 DEF Typed, Frame
  <2>3. DOMAIN deps[m] = 1 .. Len(deps[m]) /\ Len(deps[m]) \in Nat
    BY <2>2, SeqTyped, Zenon
  <2>4. Top(t).i \in Nat
    BY <1>2 DEF Frame
  <2>5. \A j \in DOMAIN deps[m] : j < Top(t).i
    BY <2>1, <2>3, <2>4
  <2> QED BY <2>1, <2>5
<1>15. LoadedFirst'
  <2>1. Loaded \subseteq Module
    BY <1>1 DEF Loaded, Typed
  <2>2. ASSUME Loading(Top(t)), m \notin failed
        PROVE  m \notin Needs(m)
    <3>1. Needs(m) \subseteq Loaded
      BY <1>1, <1>14, <2>1, <2>2, NeedsWithin DEF LoadedFirst
    <3> QED BY <1>9, <2>2, <3>1 DEF Loaded
  <2>3. \A x : Needs(x)' = Needs(x)
    BY DEF Needs
  <2> HIDE DEF m
  <2> QED BY <1>1, <1>12, <1>14, <2>2, <2>3 DEF LoadedFirst
<1>16. Typed'
  <2>1. \A u \in Thread \ {t} : /\ Active(u)' <=> Active(u)
                                /\ result'[u] = result[u]
    BY <1>1, <1>3 DEF Active, Return, Typed
  <2>2. Active(t)' <=> n # 1
    <3>1. stack'[t] \in Seq(Frame) /\ Len(stack'[t]) = n - 1
      BY <1>3
    <3>2. n # 1 <=> Len(stack'[t]) # 0
      BY <1>2, <1>3
    <3>3. stack'[t] # <<>> <=> Len(stack'[t]) # 0
      <4> DEFINE q == stack'[t]
      <4>1. q \in Seq(Frame)
        BY <3>1
      <4> HIDE DEF q
      <4>2. q # <<>> <=> Len(q) # 0
        BY <4>1
      <4> QED BY <4>2 DEF q
    <3> QED BY <3>2, <3>3 DEF Active
  <2>3. result' \in [Thread -> {"none", "running", "ok", Cycle} \cup Module] /\ (result'[t] = "running" <=> n # 1)
    <3>1. result' = IF n = 1 THEN [result EXCEPT ![t] = IF err = None THEN "ok" ELSE err] ELSE result
      BY DEF Return
    <3>2. result \in [Thread -> {"none", "running", "ok", Cycle} \cup Module] /\ result[t] = "running"
      BY <1>1 DEF Typed
    <3>3. err # None => err \in Module \cup {Cycle} /\ err # "running"
      BY CacheAssumption DEF Errs
    <3> HIDE DEF n
    <3> QED BY <3>1, <3>2, <3>3
  <2>4. ready' \subseteq cached /\ failed' \subseteq cached
    BY <1>1, <1>3, <1>9, <1>11 DEF Typed
  <2>5. fault' \in [Module -> Errs]
    BY <1>1, <1>3 DEF Typed
  <2> HIDE DEF n, m, X
  <2> QED BY <1>1, <1>3, <2>1, <2>2, <2>3, <2>4, <2>5 DEF Typed
<1>17. Spine'
  <2> SUFFICES ASSUME NEW u \in Thread, NEW d \in 1 .. Len(stack'[u]) - 1
               PROVE  LET f == stack'[u][d]
                      IN  /\ f.at = "exec" /\ f.i \in DOMAIN deps[f.mod]
                          /\ stack'[u][d + 1].mod = deps[f.mod][f.i]
    BY DEF Spine
  <2>1. d \in DOMAIN stack'[u] /\ d + 1 \in DOMAIN stack'[u] /\ ~(u = t /\ d = n - 1)
    BY <1>3, <1>4
  <2>2. d \in DOMAIN stack[u] /\ d + 1 \in DOMAIN stack[u] /\ d \in 1 .. Len(stack[u]) - 1
    <3>1. d + 1 \in DOMAIN stack[u]
      BY <1>5, <2>1
    <3> QED BY <1>2, <3>1
  <2>3. stack'[u][d] = stack[u][d]
    BY <1>5, <2>1
  <2>4. stack'[u][d + 1].mod = stack[u][d + 1].mod
    <3>1. stack[u][d + 1] \in Frame
      BY <1>1, <1>2, <2>2, Stacks
    <3> QED BY <1>5, <1>7, <2>1, <3>1
  <2> QED BY <1>1, <2>2, <2>3, <2>4 DEF Spine
(* What the frames that are left say still holds, except that a failed     *)
(* call fails the caller.                                                  *)
<1>18. Frames'
  <2> SUFFICES ASSUME NEW u \in Thread, NEW d \in DOMAIN stack'[u]
               PROVE  LET f == stack'[u][d]
                      IN  /\ Loading(f) => f.mod \in cached \ ready'
                          /\ f.at \in {"own", "exec"} => f.mod \notin failed'
                          /\ f.at \notin {"exec", "disown", "close"} => f.i = 1
                          /\ f.mod \notin failed' =>
                               /\ \A j \in DOMAIN deps[f.mod] : j < f.i => deps[f.mod][j] \in Loaded'
                               /\ f.at \in {"disown", "close"} => f.i > Len(deps[f.mod])
                          /\ sequential => f.at # "own"
    BY DEF Frames, Loading
  <2> DEFINE f == stack[u][d]
  <2>1. d \in DOMAIN stack[u] /\ ~(u = t /\ d = n)
    BY <1>5
  <2>2. /\ Loading(f) => f.mod \in cached \ ready
        /\ f.at \in {"own", "exec"} => f.mod \notin failed
        /\ f.at \notin {"exec", "disown", "close"} => f.i = 1
        /\ f.mod \notin failed =>
             /\ \A j \in DOMAIN deps[f.mod] : j < f.i => deps[f.mod][j] \in Loaded
             /\ f.at \in {"disown", "close"} => f.i > Len(deps[f.mod])
        /\ sequential => f.at # "own"
    BY <1>1, <2>1 DEF Frames
  <2>3. Loading(f) => f.mod \in cached \ ready'
    <3>1. Loading(f) /\ Loading(Top(t)) => f.mod # m
      BY <1>1, <1>2, <2>1 DEF OneLoader
    <3> QED BY <2>2, <3>1
  <2>4. f.mod \notin failed' => f.mod \notin failed
    BY <1>3
  <2>5. Loaded \subseteq Loaded'
    BY <1>12
  <2>6. CASE ~(u = t /\ d = n - 1)
    <3>1. stack'[u][d] = f
      BY <1>5, <2>6
    <3>2. f.at \in {"own", "exec"} => f.mod \notin failed'
      <4>1. Loading(f) => f.mod \notin X
        BY <1>1, <1>8, <2>1, <2>6 DEF OneLoader
      <4> QED BY <1>3, <2>2, <4>1 DEF Loading
    <3> HIDE DEF f
    <3> QED BY <2>2, <2>3, <2>4, <2>5, <3>1, <3>2
  <2>7. CASE u = t /\ d = n - 1
    <3>1. stack'[u][d] = Caller(f, err) /\ n # 1
      BY <1>5, <2>7
    <3>2. /\ f \in Frame /\ f.at = "exec" /\ m = deps[f.mod][f.i] /\ Loading(f)
      BY <1>8, <2>7, <3>1
    <3>3. f.i \in Nat
      BY <3>2 DEF Frame
    <3>4. CASE err # None
      <4>1. Caller(f, err).mod = f.mod /\ Caller(f, err).at = Executed
        BY <1>7, <3>2, <3>4
      <4>2. f.mod \in failed'
        BY <1>3, <2>7, <3>1, <3>4
      <4>3. Executed \in {"disown", "close"} /\ Executed \notin {"own", "exec"}
        BY DEF Executed
      <4> HIDE DEF f
      <4> QED BY <2>3, <3>1, <3>2, <4>1, <4>2, <4>3
    <3>5. CASE err = None
      <4>1. Caller(f, err).mod = f.mod /\ Caller(f, err).at = "exec" /\ Caller(f, err).i = f.i + 1
        BY <1>7, <3>2, <3>5
      <4>2. \A j \in DOMAIN deps[f.mod] : j < f.i + 1 => j < f.i \/ j = f.i
        <5>1. deps[f.mod] \in Seq(Module)
          BY <1>1, <3>2 DEF Typed, Frame
        <5>2. DOMAIN deps[f.mod] = 1 .. Len(deps[f.mod]) /\ Len(deps[f.mod]) \in Nat
          <6> DEFINE q == deps[f.mod]
          <6>1. q \in Seq(Module)
            BY <5>1
          <6> HIDE DEF q
          <6>2. DOMAIN q = 1 .. Len(q) /\ Len(q) \in Nat
            BY <6>1, SeqTyped
          <6> QED BY <6>2 DEF q
        <5> QED BY <3>3, <5>2
      <4>3. f.mod \notin failed' =>
              \A j \in DOMAIN deps[f.mod] : j < f.i + 1 => deps[f.mod][j] \in Loaded'
        <5> HIDE DEF f, m
        <5> QED BY <1>13, <2>2, <2>4, <2>5, <3>2, <3>5, <4>2
      <4>4. f.mod \notin failed'
        BY <1>3, <2>2, <3>2, <3>5
      <4> HIDE DEF f
      <4> QED BY <2>3, <3>1, <3>2, <4>1, <4>3, <4>4
    <3> QED BY <3>4, <3>5
  <2> QED BY <2>6, <2>7
(* The caller stays the loader of its module. *)
<1>19. \A u \in Thread : \A d \in DOMAIN stack'[u] :
         /\ stack'[u][d].mod = stack[u][d].mod
         /\ Loading(stack'[u][d]) <=> Loading(stack[u][d])
  <2> TAKE u \in Thread
  <2> TAKE d \in DOMAIN stack'[u]
  <2>1. CASE u = t /\ d = n - 1
    <3>1. stack'[u][d] = Caller(stack[u][d], err) /\ n # 1
      BY <1>5, <2>1
    <3>2. stack[u][d] \in Frame /\ Loading(stack[u][d]) /\ stack[u][d].at = "exec"
      BY <1>8, <2>1, <3>1
    <3> QED BY <1>7, <3>1, <3>2 DEF Loading, Executed
  <2>2. CASE ~(u = t /\ d = n - 1)
    BY <1>5, <2>2
  <2> QED BY <2>1, <2>2
<1>20. OneLoader'
  <2>1. ASSUME NEW x \in cached \ ready'
        PROVE  \E u \in Thread : \E d \in DOMAIN stack'[u] :
                 Loading(stack'[u][d]) /\ stack'[u][d].mod = x
    <3>1. x \in cached \ ready
      BY <2>1
    <3>2. PICK u \in Thread : \E d \in DOMAIN stack[u] : Loading(stack[u][d]) /\ stack[u][d].mod = x
      BY <1>1, <3>1 DEF OneLoader
    <3>3. PICK d \in DOMAIN stack[u] : Loading(stack[u][d]) /\ stack[u][d].mod = x
      BY <3>2
    <3>4. ~(u = t /\ d = n)
      BY <1>2, <2>1, <3>3
    <3> QED BY <1>6, <1>19, <3>3, <3>4
  <2>2. \A u, v \in Thread : \A d \in DOMAIN stack'[u], c \in DOMAIN stack'[v] :
          /\ Loading(stack'[u][d]) /\ Loading(stack'[v][c])
          /\ stack'[u][d].mod = stack'[v][c].mod
          => u = v /\ d = c
    BY <1>1, <1>5, <1>19 DEF OneLoader
  <2> QED BY <2>1, <2>2 DEF OneLoader, Loading
<1>21. Edges'
  <2>1. ASSUME NEW x \in Module, owner[x] # None
        PROVE  /\ ~sequential
               /\ \E d \in DOMAIN stack'[owner[x]] :
                    Owning(stack'[owner[x]][d]) /\ stack'[owner[x]][d].mod = x
    <3> DEFINE u == owner[x]
    <3>1. u \in Thread /\ ~sequential
      BY <1>1, <2>1 DEF Typed, Edges
    <3>2. PICK d \in DOMAIN stack[u] : Owning(stack[u][d]) /\ stack[u][d].mod = x
      BY <1>1, <2>1 DEF Edges
    <3>3. ~(u = t /\ d = n)
      BY <1>2, <3>2 DEF Owning, Loading
    <3>4. d \in DOMAIN stack'[u]
      BY <1>6, <3>1, <3>3
    <3>5. Owning(stack'[u][d])
      <4>1. CASE u = t /\ d = n - 1
        <5>1. stack'[u][d] = Caller(stack[u][d], err) /\ n # 1
          BY <1>5, <3>1, <3>4, <4>1
        <5>2. stack[u][d] \in Frame
          BY <1>8, <4>1, <5>1
        <5> QED BY <1>7, <3>1, <3>2, <5>1, <5>2 DEF Owning, Executed
      <4>2. CASE ~(u = t /\ d = n - 1)
        BY <1>5, <3>1, <3>2, <3>4, <4>2
      <4> QED BY <4>1, <4>2
    <3> QED BY <1>19, <3>1, <3>2, <3>4, <3>5
  <2>2. \A u \in Thread \ {t} : waitsFor'[u] # None => At(u, "blocked")' /\ Top(u)'.mod = waitsFor'[u]
    BY <1>1, <1>3 DEF Edges, At, Active, Top
  <2> QED BY <2>1, <2>2 DEF Edges, Owning
<1> QED BY <1>15, <1>16, <1>17, <1>18, <1>20, <1>21 DEF IInv
-----------------------------------------------------------------------------
LEMMA Goes ==
  ASSUME IInv, NEW t \in Thread, NEW p \in Points, Active(t), Goto(t, p),
         p \notin {"lookup", "waitsFor"}, p = "owner" => Top(t).at = "lookup" \/ Top(t).e \in Module
  PROVE  LET g == [Top(t) EXCEPT !.at = p]
         IN  g \in Frame /\ Moved(t, g) /\ g.at = p /\ g.mod = Top(t).mod /\ g.i = Top(t).i
<1> DEFINE g == [Top(t) EXCEPT !.at = p]
<1>1. Top(t) \in Frame
  BY Stacks DEF IInv
<1>2. g \in Frame /\ g.at = p /\ g.mod = Top(t).mod /\ g.i = Top(t).i
  BY <1>1 DEF Frame
<1>3. stack' = [stack EXCEPT ![t] = [@ EXCEPT ![Len(stack[t])] = g]]
  BY DEF Goto, Top
<1>4. Moved(t, g)
  <2> HIDE DEF g
  <2> QED BY <1>2, <1>3, GotoMoves DEF IInv
<1> QED BY <1>2, <1>4

(* The innermost frame is not inside another call. *)
LEMMA TopSays ==
  ASSUME IInv, NEW t \in Thread, Active(t)
  PROVE  LET f == Top(t)
         IN  /\ f \in Frame /\ Len(stack[t]) \in DOMAIN stack[t] /\ f = stack[t][Len(stack[t])]
             /\ Loading(f) => f.mod \in cached \ ready
             /\ f.at \in {"own", "exec"} => f.mod \notin failed
             /\ f.at \notin {"exec", "disown", "close"} => f.i = 1
             /\ f.mod \notin failed /\ f.at \in {"disown", "close"} => f.i > Len(deps[f.mod])
             /\ sequential => f.at # "own"
             /\ f.at # "blocked" => waitsFor[t] = None
<1>1. /\ Len(stack[t]) \in Nat \ {0} /\ DOMAIN stack[t] = 1 .. Len(stack[t])
      /\ Top(t) \in Frame
  BY Stacks DEF IInv
<1>2. Len(stack[t]) \in DOMAIN stack[t] /\ Top(t) = stack[t][Len(stack[t])]
  BY <1>1 DEF Top
<1>3. waitsFor[t] # None => Top(t).at = "blocked"
  BY DEF IInv, Edges, At
<1> QED BY <1>1, <1>2, <1>3 DEF IInv, Frames

LEMMA EdgesMoved ==
  ASSUME IInv, NEW t \in Thread, Active(t), NEW g \in Frame, Moved(t, g), g.mod = Top(t).mod,
         sequential' = sequential,
         \A m \in Module : owner'[m] # None =>
           \/ owner'[m] = owner[m] /\ (m = g.mod /\ Owning(Top(t)) => Owning(g))
           \/ m = g.mod /\ owner'[m] = t /\ Owning(g) /\ ~sequential,
         \A u \in Thread \ {t} : waitsFor'[u] = waitsFor[u],
         waitsFor'[t] # None => g.at = "blocked" /\ waitsFor'[t] = g.mod
  PROVE  Edges'
<1> DEFINE n == Len(stack[t])
<1>1. n \in DOMAIN stack[t] /\ Top(t) = stack[t][n]
  BY TopSays
<1>2. \A u \in Thread :
        /\ Len(stack'[u]) = Len(stack[u]) /\ DOMAIN stack'[u] = DOMAIN stack[u]
        /\ \A d \in DOMAIN stack[u] :
             stack'[u][d] = IF u = t /\ d = n THEN g ELSE stack[u][d]
  BY MovedFrames DEF IInv
<1>3. ASSUME NEW m \in Module, owner'[m] # None
      PROVE  /\ ~sequential
             /\ \E d \in DOMAIN stack'[owner'[m]] :
                  Owning(stack'[owner'[m]][d]) /\ stack'[owner'[m]][d].mod = m
  <2>1. CASE owner'[m] = owner[m] /\ (m = g.mod /\ Owning(Top(t)) => Owning(g))
    <3> DEFINE u == owner[m]
    <3>1. u \in Thread /\ ~sequential
      BY <1>3, <2>1 DEF IInv, Typed, Edges
    <3>2. PICK d \in DOMAIN stack[u] : Owning(stack[u][d]) /\ stack[u][d].mod = m
      BY <1>3, <2>1 DEF IInv, Edges
    <3>3. d \in DOMAIN stack'[u] /\ Owning(stack'[u][d]) /\ stack'[u][d].mod = m
      BY <1>1, <1>2, <2>1, <3>1, <3>2
    <3> QED BY <2>1, <3>1, <3>3
  <2>2. CASE m = g.mod /\ owner'[m] = t /\ Owning(g) /\ ~sequential
    BY <1>1, <1>2, <2>2
  <2> QED BY <1>3, <2>1, <2>2
<1>4. ASSUME NEW u \in Thread, waitsFor'[u] # None
      PROVE  At(u, "blocked")' /\ Top(u)'.mod = waitsFor'[u]
  <2>1. CASE u = t
    BY <1>4, <2>1 DEF Moved, At, Active, Top
  <2>2. CASE u # t
    BY <1>4, <2>2 DEF IInv, Edges, Moved, Others, At, Active, Top
  <2> QED BY <2>1, <2>2
<1> QED BY <1>3, <1>4 DEF Edges, Owning
-----------------------------------------------------------------------------
LEMMA LookupInv ==
  ASSUME IInv, NEW t \in Thread, Lookup(t)
  PROVE  IInv'
<1> USE DEF Loading, Owning, Points
<1>1. /\ Active(t) /\ Top(t).at = "lookup" /\ ~sequential
      /\ UNCHANGED <<sequential, deps, owner, waitsFor, ready, fault, result>>
  BY DEF Lookup, At
<1>2. Top(t).i = 1 /\ waitsFor[t] = None /\ Typed
  BY <1>1, TopSays DEF IInv
<1>3. CASE Top(t).mod \in cached /\ Goto(t, "owner") /\ UNCHANGED cached
  <2> DEFINE g == [Top(t) EXCEPT !.at = "owner"]
  <2>1. g \in Frame /\ Moved(t, g) /\ g.at = "owner" /\ g.mod = Top(t).mod /\ g.i = Top(t).i
    BY <1>1, <1>3, Goes
  <2> HIDE DEF g
  <2>2. Edges'
    BY <1>1, <1>2, <2>1, EdgesMoved
  <2> QED BY <1>1, <1>2, <1>3, <2>1, <2>2, MovedInv DEF Typed
<1>4. CASE Top(t).mod \notin cached /\ Goto(t, "own") /\ cached' = cached \cup {Top(t).mod}
  <2> DEFINE g == [Top(t) EXCEPT !.at = "own"]
  <2>1. g \in Frame /\ Moved(t, g) /\ g.at = "own" /\ g.mod = Top(t).mod /\ g.i = Top(t).i
    BY <1>1, <1>4, Goes
  <2> HIDE DEF g
  <2>2. Edges'
    BY <1>1, <1>2, <2>1, EdgesMoved
  <2> QED BY <1>1, <1>2, <1>4, <2>1, <2>2, MovedInv DEF Typed
<1> QED BY <1>3, <1>4 DEF Lookup

LEMMA LookupSequentialInv ==
  ASSUME IInv, NEW t \in Thread, LookupSequential(t)
  PROVE  IInv'
<1> USE DEF Loading, Owning, Points
<1>1. /\ Active(t) /\ Top(t).at = "lookup" /\ sequential
      /\ UNCHANGED <<sequential, deps, owner, waitsFor, ready>>
  BY DEF LookupSequential, At
<1>2. Top(t).i = 1 /\ waitsFor[t] = None /\ Typed
  BY <1>1, TopSays DEF IInv
<1>3. CASE Top(t).mod \in ready /\ Return(t, fault[Top(t).mod]) /\ UNCHANGED cached
  <2> DEFINE err == fault[Top(t).mod]
  <2>1. Top(t).mod \in Module
    BY <1>1, TopSays DEF Frame
  <2>2. err \in Errs /\ (err = None => Top(t).mod \in Loaded) /\ Return(t, err)
    BY <1>2, <1>3, <2>1 DEF Typed, Loaded, failed
  <2> HIDE DEF err
  <2> QED BY <1>1, <1>2, <1>3, <2>2, ReturnInv DEF Typed
<1>4. CASE Top(t).mod \in cached \ ready /\ Return(t, Cycle) /\ UNCHANGED cached
  <2>1. Cycle \in Errs /\ Cycle # None
    BY CacheAssumption DEF Errs
  <2> QED BY <1>1, <1>2, <1>4, <2>1, ReturnInv DEF Typed
<1>5. CASE /\ Top(t).mod \notin cached /\ cached' = cached \cup {Top(t).mod}
           /\ Goto(t, "exec") /\ UNCHANGED <<fault, result>>
  <2> DEFINE g == [Top(t) EXCEPT !.at = "exec"]
  <2>1. g \in Frame /\ Moved(t, g) /\ g.at = "exec" /\ g.mod = Top(t).mod /\ g.i = Top(t).i
    BY <1>1, <1>5, Goes
  <2> HIDE DEF g
  <2>2. Edges'
    BY <1>1, <1>2, <2>1, EdgesMoved
  <2> QED BY <1>1, <1>2, <1>5, <2>1, <2>2, MovedInv DEF Typed
<1> QED BY <1>3, <1>4, <1>5 DEF LookupSequential

LEMMA SetOwnerInv ==
  ASSUME IInv, NEW t \in Thread, SetOwner(t)
  PROVE  IInv'
<1> USE DEF Loading, Owning, Points
<1> DEFINE g == [Top(t) EXCEPT !.at = "exec"]
<1>1. /\ Active(t) /\ Top(t).at = "own" /\ Goto(t, "exec")
      /\ owner' = [owner EXCEPT ![Top(t).mod] = t]
      /\ UNCHANGED <<sequential, deps, cached, waitsFor, ready, fault, result>>
  BY DEF SetOwner, At
<1>2. /\ Top(t).mod \in cached /\ waitsFor[t] = None /\ ~sequential /\ Typed
      /\ Top(t).mod \notin failed
  BY <1>1, TopSays DEF IInv
<1>3. g \in Frame /\ Moved(t, g) /\ g.at = "exec" /\ g.mod = Top(t).mod /\ g.i = Top(t).i
  BY <1>1, Goes
<1> HIDE DEF g
<1>4. /\ owner' \in [Module -> Thread \cup {None}] /\ Top(t).mod \in Module
      /\ \A m \in Module : owner'[m] = IF m = Top(t).mod THEN t ELSE owner[m]
  BY <1>1, <1>2 DEF Typed
<1>5. Edges'
  BY <1>1, <1>2, <1>3, <1>4, EdgesMoved
<1>6. cached' = cached \cup {g.mod}
  BY <1>1, <1>2, <1>3
<1> QED BY <1>1, <1>2, <1>3, <1>4, <1>5, <1>6, MovedInv DEF Typed

LEMMA ClearOwnerInv ==
  ASSUME IInv, NEW t \in Thread, ClearOwner(t)
  PROVE  IInv'
<1> USE DEF Loading, Owning, Points
<1> DEFINE g == [Top(t) EXCEPT !.at = "close"]
<1>1. /\ Active(t) /\ Top(t).at = "disown" /\ Goto(t, "close")
      /\ owner' = [owner EXCEPT ![Top(t).mod] = None]
      /\ UNCHANGED <<sequential, deps, cached, waitsFor, ready, fault, result>>
  BY DEF ClearOwner, At
<1>2. /\ Top(t).mod \in cached /\ waitsFor[t] = None /\ Typed
      /\ Top(t).mod \notin failed => Top(t).i > Len(deps[Top(t).mod])
  BY <1>1, TopSays DEF IInv
<1>3. g \in Frame /\ Moved(t, g) /\ g.at = "close" /\ g.mod = Top(t).mod /\ g.i = Top(t).i
  BY <1>1, Goes
<1> HIDE DEF g
<1>4. /\ owner' \in [Module -> Thread \cup {None}] /\ Top(t).mod \in Module
      /\ \A m \in Module : owner'[m] = IF m = Top(t).mod THEN None ELSE owner[m]
  BY <1>1, <1>2 DEF Typed
<1>5. Edges'
  BY <1>1, <1>2, <1>3, <1>4, EdgesMoved
<1>6. cached' = cached \cup {g.mod}
  BY <1>1, <1>2, <1>3
<1> QED BY <1>1, <1>2, <1>3, <1>4, <1>5, <1>6, MovedInv DEF Typed

LEMMA CloseInv ==
  ASSUME IInv, NEW t \in Thread, Close(t)
  PROVE  IInv'
<1> DEFINE err == fault[Top(t).mod]
<1>1. /\ Active(t) /\ Top(t).at = "close" /\ Return(t, err) /\ Loading(Top(t))
      /\ ready' = ready \cup {Top(t).mod} 
      /\ UNCHANGED <<sequential, deps, cached, owner, waitsFor>>
  BY DEF Close, At, Loading
<1>2. waitsFor[t] = None /\ Typed /\ Top(t).mod \in Module
  BY <1>1, TopSays DEF IInv, Frame
<1>3. err \in Errs /\ err = fault[Top(t).mod]
  BY <1>2 DEF Typed
<1> HIDE DEF err
<1> QED BY <1>1, <1>2, <1>3, ReturnInv DEF Typed

LEMMA ReceiveInv ==
  ASSUME IInv, NEW t \in Thread, Receive(t)
  PROVE  IInv'
<1> DEFINE err == fault[Top(t).mod]
<1>1. /\ Active(t) /\ Return(t, err) /\ ~Loading(Top(t)) /\ Top(t).mod \in ready
      /\ waitsFor' = [waitsFor EXCEPT ![t] = None]
      /\ UNCHANGED <<sequential, deps, cached, owner, ready>>
  BY DEF Receive, At, Loading
<1>2. /\ waitsFor' \in [Thread -> Module \cup {None}]
      /\ waitsFor'[t] = None /\ \A u \in Thread \ {t} : waitsFor'[u] = waitsFor[u]
  BY <1>1 DEF IInv, Typed
<1>3. Top(t).mod \in Module
  BY <1>1, TopSays DEF Frame
<1>4. err \in Errs /\ (err = None => Top(t).mod \in Loaded)
  BY <1>1, <1>3 DEF IInv, Typed, Loaded, failed
<1> HIDE DEF err
<1> QED BY <1>1, <1>2, <1>4, ReturnInv

LEMMA SetWaitsForInv ==
  ASSUME IInv, NEW t \in Thread, SetWaitsFor(t)
  PROVE  IInv'
<1> USE DEF Loading, Owning, Points
<1> DEFINE g == [Top(t) EXCEPT !.at = "blocked"]
<1>1. /\ Active(t) /\ Top(t).at = "wait" /\ Goto(t, "blocked")
      /\ waitsFor' = [waitsFor EXCEPT ![t] = Top(t).mod]
      /\ UNCHANGED <<sequential, deps, cached, owner, ready, fault, result>>
  BY DEF SetWaitsFor, At
<1>2. Top(t).i = 1 /\ Top(t) \in Frame /\ Typed
  BY <1>1, TopSays DEF IInv
<1>3. g \in Frame /\ Moved(t, g) /\ g.at = "blocked" /\ g.mod = Top(t).mod /\ g.i = Top(t).i
  BY <1>1, Goes
<1> HIDE DEF g
<1>4. /\ waitsFor' \in [Thread -> Module \cup {None}] /\ waitsFor'[t] = Top(t).mod
      /\ \A u \in Thread \ {t} : waitsFor'[u] = waitsFor[u]
  BY <1>1, <1>2 DEF Typed, Frame
<1>5. Edges'
  BY <1>1, <1>2, <1>3, <1>4, EdgesMoved
<1> QED BY <1>1, <1>2, <1>3, <1>4, <1>5, MovedInv DEF Typed

LEMMA LoadOwnerInv ==
  ASSUME IInv, NEW t \in Thread, LoadOwner(t)
  PROVE  IInv'
<1> USE DEF Loading, Owning, Points
<1> DEFINE o == owner[Top(t).e]
<1>1. /\ Active(t) /\ Top(t).at = "owner"
      /\ UNCHANGED <<sequential, deps, cached, owner, waitsFor, ready>>
  BY DEF LoadOwner, At
<1>2. /\ Top(t).i = 1 /\ waitsFor[t] = None /\ Typed /\ Top(t) \in Frame /\ Top(t).e \in Module
      /\ o \in Thread \cup {None}
  <2>1. Top(t).i = 1 /\ waitsFor[t] = None /\ Typed /\ Top(t) \in Frame
    BY <1>1, TopSays DEF IInv
  <2>2. Top(t).e \in Module
    BY <1>1, <2>1 DEF Frame
  <2> QED BY <2>1, <2>2 DEF Typed
<1>3. CASE Goto(t, "wait") /\ UNCHANGED <<fault, result>>
  <2> DEFINE g == [Top(t) EXCEPT !.at = "wait"]
  <2>1. g \in Frame /\ Moved(t, g) /\ g.at = "wait" /\ g.mod = Top(t).mod /\ g.i = Top(t).i
    BY <1>1, <1>3, Goes
  <2> HIDE DEF g
  <2>2. Edges'
    BY <1>1, <1>2, <2>1, EdgesMoved
  <2> QED BY <1>1, <1>2, <1>3, <2>1, <2>2, MovedInv DEF Typed
<1>4. CASE Return(t, Cycle)
  <2>1. Cycle \in Errs /\ Cycle # None
    BY CacheAssumption DEF Errs
  <2> QED BY <1>1, <1>2, <1>4, <2>1, ReturnInv DEF Typed
<1>5. CASE /\ o \notin {None, t}
           /\ stack' = [stack EXCEPT ![t][Len(stack[t])].at = "waitsFor",
                                     ![t][Len(stack[t])].e = o]
           /\ UNCHANGED <<fault, result>>
  <2> DEFINE g == [Top(t) EXCEPT !.at = "waitsFor", !.e = o]
  <2>1. g \in Frame /\ g.at = "waitsFor" /\ g.mod = Top(t).mod /\ g.i = Top(t).i
    BY <1>2, <1>5 DEF Frame
  <2>2. stack' = [stack EXCEPT ![t] = [@ EXCEPT ![Len(stack[t])] = g]]
    BY <1>1, <1>2, <1>5, TopSays DEF Typed
  <2> HIDE DEF g
  <2>3. Moved(t, g)
    BY <1>1, <1>2, <2>1, <2>2, GotoMoves
  <2>4. Edges'
    BY <1>1, <1>2, <2>1, <2>3, EdgesMoved
  <2> QED BY <1>1, <1>2, <1>5, <2>1, <2>3, <2>4, MovedInv DEF Typed
<1> QED BY <1>3, <1>4, <1>5 DEF LoadOwner

LEMMA LoadWaitsForInv ==
  ASSUME IInv, NEW t \in Thread, LoadWaitsFor(t)
  PROVE  IInv'
<1> USE DEF Loading, Owning, Points
<1> DEFINE w == waitsFor[Top(t).e]
           g == [Top(t) EXCEPT !.at = IF w = None THEN "wait" ELSE "owner",
                               !.e = IF w = None THEN @ ELSE w]
<1>1. /\ Active(t) /\ Top(t).at = "waitsFor"
      /\ stack' = [stack EXCEPT ![t][Len(stack[t])].at = IF w = None THEN "wait" ELSE "owner",
                                ![t][Len(stack[t])].e = IF w = None THEN @ ELSE w]
      /\ UNCHANGED <<sequential, deps, cached, owner, waitsFor, ready, fault, result>>
  BY DEF LoadWaitsFor, At, shared
<1>2. Top(t).i = 1 /\ waitsFor[t] = None /\ Typed /\ Top(t) \in Frame
  BY <1>1, TopSays DEF IInv
<1>3. w \in Module \cup {None}
  BY <1>1, <1>2 DEF Frame, Typed
<1>4. g \in Frame /\ g.at \in {"wait", "owner"} /\ g.mod = Top(t).mod /\ g.i = Top(t).i
  BY <1>2, <1>3 DEF Frame
<1>5. stack' = [stack EXCEPT ![t] = [@ EXCEPT ![Len(stack[t])] = g]]
  BY <1>1, <1>2, TopSays DEF Typed
<1> HIDE DEF g
<1>6. Moved(t, g)
  BY <1>1, <1>2, <1>4, <1>5, GotoMoves
<1>7. Edges'
  BY <1>1, <1>2, <1>4, <1>6, EdgesMoved
<1> QED BY <1>1, <1>2, <1>4, <1>6, <1>7, MovedInv DEF Typed

LEMMA ExecInv ==
  ASSUME IInv, NEW t \in Thread, Exec(t)
  PROVE  IInv'
<1> USE DEF Loading, Owning, Points
<1>1. /\ Active(t) /\ Top(t).at = "exec"
      /\ UNCHANGED <<sequential, deps, cached, owner, waitsFor, ready, result>>
  BY DEF Exec, At
<1>2. /\ Top(t) \in Frame /\ Top(t).mod \in cached /\ waitsFor[t] = None /\ Typed
      /\ Top(t).mod \in Module /\ Top(t).i \in Nat \ {0}
  <2>1. Top(t) \in Frame /\ Top(t).mod \in cached /\ waitsFor[t] = None /\ Typed
    BY <1>1, TopSays DEF IInv
  <2> QED BY <2>1 DEF Frame
<1>3. /\ deps[Top(t).mod] \in Seq(Module) /\ DOMAIN deps[Top(t).mod] = 1 .. Len(deps[Top(t).mod])
      /\ Len(deps[Top(t).mod]) \in Nat
      /\ \A j \in DOMAIN deps[Top(t).mod] : deps[Top(t).mod][j] \in Module
  <2>1. deps[Top(t).mod] \in Seq(Module)
    BY <1>2 DEF Typed
  <2> QED BY <2>1, SeqTyped, Zenon
<1>4. CASE /\ Top(t).i <= Len(deps[Top(t).mod]) /\ UNCHANGED fault
           /\ stack' = [stack EXCEPT ![t] = Append(@, Call(deps[Top(t).mod][Top(t).i]))]
  <2> DEFINE x == deps[Top(t).mod][Top(t).i]
             g == Call(x)
  <2>1. Top(t).i \in DOMAIN deps[Top(t).mod] /\ x \in Module
    BY <1>2, <1>3, <1>4
  <2>2. g \in Frame /\ g.at = "lookup" /\ g.i = 1 /\ g.mod = x
    BY <2>1 DEF Call, Frame
  <2>3. stack' = [stack EXCEPT ![t] = Append(@, g)]
    BY <1>4
  <2> HIDE DEF g
  <2>4. Called(t, g)
    <3>1. stack[t] \in Seq(Frame)
      BY <1>2 DEF Typed
    <3>2. stack'[t] = Append(stack[t], g) /\ Others(t)
      BY <1>2, <2>3 DEF Typed, Others
    <3>3. /\ stack'[t] \in Seq(Frame) /\ Len(stack'[t]) = Len(stack[t]) + 1 /\ stack'[t] # <<>>
          /\ stack'[t][Len(stack[t]) + 1] = g
          /\ \A d \in 1 .. Len(stack[t]) : stack'[t][d] = stack[t][d]
      BY <2>2, <3>1, <3>2, Pushed
    <3> QED BY <1>2, <2>3, <3>2, <3>3 DEF Called, Typed
  <2>5. result' = [result EXCEPT ![t] = "running"]
    BY <1>1, <1>2 DEF Typed
  <2> QED BY <1>1, <1>4, <2>1, <2>2, <2>4, <2>5, CalledInv DEF shared
<1>5. CASE /\ Top(t).i > Len(deps[Top(t).mod]) /\ Goto(t, Executed)
           /\ fault' = fault \/ fault' = [fault EXCEPT ![Top(t).mod] = Top(t).mod]
  <2> DEFINE g == [Top(t) EXCEPT !.at = Executed]
  <2>1. g \in Frame /\ Moved(t, g) /\ g.at = Executed /\ g.mod = Top(t).mod /\ g.i = Top(t).i
    <3>1. Executed \in Points /\ Executed \notin {"lookup", "waitsFor", "owner"} /\ Goto(t, Executed)
      BY <1>5 DEF Executed
    <3> QED BY <1>1, <3>1, Goes
  <2>2. g.at \in {"disown", "close"} /\ (~sequential => Owning(g))
    BY <2>1 DEF Executed
  <2> HIDE DEF g
  <2>3. \A m \in Module : owner[m] # None => ~sequential
    BY DEF IInv, Edges
  <2>4. Edges'
    BY <1>1, <1>2, <2>1, <2>2, <2>3, EdgesMoved
  <2>5. g.i > Len(deps[g.mod])
    BY <1>2, <1>3, <1>5, <2>1
  <2>6. cached' = cached \cup {g.mod}
    BY <1>1, <1>2, <2>1
  <2>7. fault' = fault \/ fault' = [fault EXCEPT ![g.mod] = g.mod]
    BY <1>5, <2>1
  <2> QED BY <1>1, <1>2, <2>1, <2>2, <2>4, <2>5, <2>6, <2>7, MovedInv DEF Typed
<1> QED BY <1>4, <1>5 DEF Exec

LEMMA LoadInv ==
  ASSUME IInv, NEW t \in Thread, NEW m \in Module, Load(t, m)
  PROVE  IInv'
<1> DEFINE g == Call(m)
<1>1. /\ result[t] = "none" /\ stack' = [stack EXCEPT ![t] = <<g>>]
      /\ result' = [result EXCEPT ![t] = "running"]
      /\ UNCHANGED <<sequential, deps, shared>>
  BY DEF Load
<1>2. Typed
  BY DEF IInv
<1>3. ~Active(t) /\ stack[t] = <<>>
  BY <1>1, <1>2 DEF Typed, Active
<1>4. g \in Frame /\ g.at = "lookup" /\ g.i = 1
  BY DEF Call, Frame, Points
<1> HIDE DEF g
<1>5. Called(t, g)
  <2>1. stack'[t] = <<g>> /\ Others(t)
    BY <1>1, <1>2 DEF Typed, Others
  <2>2. stack' \in [Thread -> Seq(Frame)]
    BY <1>1, <1>2, <1>4 DEF Typed
  <2> QED BY <1>3, <2>1, <2>2 DEF Called
<1> QED BY <1>1, <1>3, <1>4, <1>5, CalledInv
-----------------------------------------------------------------------------
LEMMA InitInv == Init => IInv
<1> SUFFICES ASSUME Init PROVE IInv
  OBVIOUS
<1>1. /\ cached = {} /\ ready = {} /\ failed = {} /\ fault \in [Module -> Errs]
      /\ owner = [m \in Module |-> None] /\ waitsFor = [t \in Thread |-> None]
      /\ stack = [t \in Thread |-> <<>>] /\ result = [t \in Thread |-> "none"]
  BY DEF Init, Errs, failed
<1>2. deps \in [Module -> Seq(Module)]
  <2>1. LoadLists \subseteq Seq(Module)
    <3>1. \A n \in 0 .. MaxDeps : [1 .. n -> Module] \subseteq Seq(Module)
      BY SeqDef, CacheAssumption
    <3> QED BY <3>1 DEF LoadLists
  <2>2. deps \in [Module -> LoadLists]
    BY DEF Init, Programs
  <2> QED BY <2>1, <2>2
<1>3. Typed
  BY <1>1, <1>2 DEF Typed, Active
<1>4. \A t \in Thread : Len(stack[t]) = 0 /\ DOMAIN stack[t] = {}
  BY <1>1
<1>5. Spine /\ Frames /\ OneLoader
  BY <1>1, <1>4 DEF Spine, Frames, OneLoader
<1>6. Edges /\ LoadedFirst
  BY <1>1 DEF Edges, LoadedFirst, Loaded
<1> QED BY <1>3, <1>5, <1>6 DEF IInv

LEMMA StepInv == IInv /\ [Next]_vars => IInv'
<1> SUFFICES ASSUME IInv, [Next]_vars PROVE IInv'
  OBVIOUS
<1>1. ASSUME NEW t \in Thread, Step(t) PROVE IInv'
  BY <1>1, LookupInv, LookupSequentialInv, SetOwnerInv, ExecInv, ClearOwnerInv, CloseInv,
     LoadOwnerInv, LoadWaitsForInv, SetWaitsForInv, ReceiveInv DEF Step
<1>2. ASSUME NEW t \in Thread, NEW m \in Module, Load(t, m) PROVE IInv'
  BY <1>2, LoadInv
<1>3. CASE UNCHANGED vars
  <2>1. UNCHANGED <<sequential, deps, cached, owner, waitsFor, ready, fault, stack, result>>
    BY <1>3 DEF vars, shared
  <2>2. Typed'
    BY <2>1 DEF IInv, Typed, Active, failed
  <2>3. Spine'
    BY <2>1 DEF IInv, Spine
  <2>4. Frames' /\ OneLoader'
    BY <2>1 DEF IInv, Frames, OneLoader, Loading, Loaded, failed
  <2>5. Edges'
    BY <2>1 DEF IInv, Edges, Owning, At, Active, Top
  <2>6. LoadedFirst'
    BY <2>1 DEF IInv, LoadedFirst, Loaded, failed, Needs
  <2> QED BY <2>2, <2>3, <2>4, <2>5, <2>6 DEF IInv
<1> QED BY <1>1, <1>2, <1>3 DEF Next

(* In every reachable state the calls of get form spines, each entry that  *)
(* is not ready has its one loader, and what a call has loaded is loaded.  *)
THEOREM CacheInvariance == Spec => []IInv
<1> QED BY InitInv, StepInv, PTL DEF Spec

(* A module is complete for its clients only when all that it needs is,    *)
(* and never if it needs itself: for any number of threads that load any   *)
(* parts of a cycle at once, and for the placeholders of the REPL.         *)
THEOREM LoadsComplete == Spec => []LoadedIsClosed
<1>1. IInv => LoadedIsClosed
  <2> SUFFICES ASSUME IInv, NEW m \in Loaded
               PROVE  m \notin Needs(m) /\ Needs(m) \subseteq Loaded
    BY DEF LoadedIsClosed, Loaded
  <2>1. Loaded \in SUBSET Module
    BY DEF IInv, Typed, Loaded
  <2>2. \A p \in Loaded \cup {m} : \A i \in DOMAIN deps[p] : deps[p][i] \in Loaded
    BY DEF IInv, LoadedFirst
  <2>3. Needs(m) \subseteq Loaded
    BY <2>1, <2>2, NeedsWithin
  <2> QED BY <2>3 DEF IInv, LoadedFirst
<1> QED BY <1>1, CacheInvariance, PTL

(* A thread is never in more calls of get than there are modules and one:  *)
(* all but the innermost are loaders of different modules.                 *)
LEMMA Depth ==
  ASSUME IInv, NEW t \in Thread
  PROVE  Len(stack[t]) <= Cardinality(Module) + 1
<1> DEFINE n == Len(stack[t])
           f == [d \in 1 .. n - 1 |-> stack[t][d].mod]
<1>1. /\ n \in Nat /\ DOMAIN stack[t] = 1 .. n /\ \A d \in 1 .. n : stack[t][d] \in Frame
  BY Stacks DEF IInv
<1>2. \A d \in 1 .. n - 1 : d \in DOMAIN stack[t] /\ Loading(stack[t][d]) /\ stack[t][d].mod \in Module
  <2> TAKE d \in 1 .. n - 1
  <2>1. d \in DOMAIN stack[t] /\ stack[t][d] \in Frame
    BY <1>1
  <2>2. stack[t][d].at = "exec"
    BY DEF IInv, Spine
  <2> QED BY <2>1, <2>2 DEF Loading, Frame
<1>3. f \in [1 .. n - 1 -> Module] /\ \A d, c \in 1 .. n - 1 : f[d] = f[c] => d = c
  BY <1>2 DEF IInv, OneLoader
<1>4. IsFiniteSet(Module) /\ Cardinality(Module) \in Nat
  BY CacheAssumption, FS_CardinalityType
<1>5. IsFiniteSet(1 .. n - 1) /\ ~(Cardinality(Module) < Cardinality(1 .. n - 1))
  <2>1. n - 1 \in Int /\ 1 \in Int
    BY <1>1
  <2> HIDE DEF f, n
  <2>2. IsFiniteSet(1 .. n - 1)
    BY <2>1, FS_Interval
  <2> DEFINE S == 1 .. n - 1
  <2>3. IsFiniteSet(S) /\ f \in [S -> Module] /\ \A d, c \in S : f[d] = f[c] => d = c
    BY <1>3, <2>2
  <2> HIDE DEF S
  <2>4. ASSUME Cardinality(Module) < Cardinality(S) PROVE FALSE
    <3>1. \E d, c \in S : d # c /\ f[d] = f[c]
      BY <1>4, <2>3, <2>4, FS_PigeonHole, Zenon
    <3> QED BY <2>3, <3>1
  <2> QED BY <2>2, <2>4 DEF S
<1>6. Cardinality(1 .. n - 1) = IF 1 > n - 1 THEN 0 ELSE n - 1
  <2>1. 1 \in Int /\ n - 1 \in Int
    BY <1>1
  <2> HIDE DEF n
  <2>2. Cardinality(1 .. n - 1) = IF 1 > n - 1 THEN 0 ELSE n - 1 - 1 + 1
    BY <2>1, FS_Interval
  <2> QED BY <2>1, <2>2
<1> HIDE DEF n
<1> QED BY <1>1, <1>4, <1>5, <1>6 DEF n

(* Each entry that is not ready has exactly one call that is making it so, *)
(* an owner is such a call's thread, and only a thread that waits has an   *)
(* edge in the waits-for graph: for any number of modules and clients.     *)
THEOREM OneLoaderEach == Spec => []EveryEntryHasOneLoader
<1>1. IInv => EveryEntryHasOneLoader
  <2> SUFFICES ASSUME IInv PROVE EveryEntryHasOneLoader
    OBVIOUS
  <2>1. Typed /\ OneLoader /\ Edges
    BY DEF IInv
  <2>2. TypeOK
    BY <2>1 DEF Typed, TypeOK, Errs
  <2>3. \A t \in Thread : \A d \in DOMAIN stack[t] : d \in 1 .. Cardinality(Module) + 1
    <3> TAKE t \in Thread
    <3>1. Len(stack[t]) \in Nat /\ DOMAIN stack[t] = 1 .. Len(stack[t])
      BY <2>1, Stacks
    <3>2. Len(stack[t]) <= Cardinality(Module) + 1 /\ Cardinality(Module) \in Nat
      BY Depth, CacheAssumption, FS_CardinalityType
    <3> QED BY <3>1, <3>2
  <2>4. \A m : \A t \in Thread : \A d \in DOMAIN stack[t] :
          Loading(stack[t][d]) /\ stack[t][d].mod = m => <<t, d>> \in Loaders(m)
    BY <2>3 DEF Loaders, Loading
  <2>5. \A m : \A p \in Loaders(m) :
          /\ p = <<p[1], p[2]>> /\ p[1] \in Thread /\ p[2] \in DOMAIN stack[p[1]]
          /\ Loading(stack[p[1]][p[2]]) /\ stack[p[1]][p[2]].mod = m
    BY DEF Loaders, Loading
  <2>6. ASSUME NEW m \in cached \ ready
        PROVE  Cardinality(Loaders(m)) = 1
    <3>1. PICK t \in Thread : \E d \in DOMAIN stack[t] : Loading(stack[t][d]) /\ stack[t][d].mod = m
      BY <2>1 DEF OneLoader
    <3>2. PICK d \in DOMAIN stack[t] : Loading(stack[t][d]) /\ stack[t][d].mod = m
      BY <3>1
    <3>3. <<t, d>> \in Loaders(m)
      BY <2>4, <3>2
    <3>4. \A p \in Loaders(m) : p = <<t, d>>
      BY <2>1, <2>5, <3>2 DEF OneLoader
    <3>5. Loaders(m) = {<<t, d>>}
      BY <3>3, <3>4
    <3> QED BY <3>5, FS_Singleton
  <2>7. ASSUME NEW m \in Module, owner[m] # None
        PROVE  \E d \in 1 .. Cardinality(Module) + 1 : <<owner[m], d>> \in Loaders(m)
    <3>1. owner[m] \in Thread
      BY <2>1, <2>7 DEF Typed
    <3>2. PICK d \in DOMAIN stack[owner[m]] : Owning(stack[owner[m]][d]) /\ stack[owner[m]][d].mod = m
      BY <2>1, <2>7 DEF Edges
    <3>3. Loading(stack[owner[m]][d])
      BY <3>2 DEF Owning, Loading
    <3> QED BY <2>3, <2>4, <3>1, <3>2, <3>3
  <2>8. \A t \in Thread : waitsFor[t] # None => At(t, "blocked") /\ Top(t).mod = waitsFor[t]
    BY <2>1 DEF Edges
  <2> QED BY <2>2, <2>6, <2>7, <2>8 DEF EveryEntryHasOneLoader
<1> QED BY <1>1, CacheInvariance, PTL
-----------------------------------------------------------------------------
(* Induction on the natural numbers, for a set of them. *)
LEMMA SetInduction ==
  ASSUME NEW T, 0 \in T, \A n \in Nat : n \in T => n + 1 \in T
  PROVE  Nat \subseteq T
<1> DEFINE S == Nat \ T
           R == OpToRel(<, Nat)
<1>1. SUFFICES ASSUME S # {} PROVE FALSE
  OBVIOUS
<1>2. PICK k \in S : \A j \in S : ~(<<j, k>> \in R)
  <2>1. IsWellFoundedOn(R, Nat)
    BY NatLessThanWellFounded
  <2>2. S \subseteq Nat
    OBVIOUS
  <2> HIDE DEF R, S
  <2> QED BY <1>1, <2>1, <2>2, WFMin
<1>3. k \in Nat /\ k # 0 /\ k - 1 \in Nat
  OBVIOUS
<1>4. <<k - 1, k>> \in R
  <2>1. <<k - 1, k>> \in Nat \X Nat /\ <<k - 1, k>>[1] < <<k - 1, k>>[2]
    BY <1>3
  <2> QED BY <2>1, Zenon DEF OpToRel
<1>5. k - 1 \in T
  <2> HIDE DEF R
  <2> QED BY <1>2, <1>3, <1>4
<1>6. (k - 1) + 1 \in T
  <2> HIDE DEF R, S
  <2> QED BY <1>3, <1>5
<1>7. (k - 1) + 1 = k
  BY <1>3
<1> QED BY <1>6, <1>7

(* The modules that m loads, and what these need, m needs. *)
LEMMA NeedsLoads ==
  ASSUME Typed, NEW m \in Module, NEW j \in DOMAIN deps[m]
  PROVE  /\ deps[m][j] \in Needs(m)
         /\ Needs(deps[m][j]) \subseteq Needs(m)
<1>1. deps[m] \in Seq(Module) /\ deps[m][j] \in Module
  BY DEF Typed
<1>2. deps[m][j] \in Needs(m)
  BY <1>1 DEF Needs
<1>3. ASSUME NEW n \in Needs(deps[m][j]) PROVE n \in Needs(m)
  <2> SUFFICES ASSUME NEW S \in SUBSET Module,
                      \A p \in S \cup {m} : \A i \in DOMAIN deps[p] : deps[p][i] \in S
               PROVE  n \in S
    BY <1>3 DEF Needs
  <2>1. deps[m][j] \in S
    OBVIOUS
  <2>2. \A p \in S \cup {deps[m][j]} : \A i \in DOMAIN deps[p] : deps[p][i] \in S
    BY <2>1
  <2> QED BY <1>3, <2>2 DEF Needs
<1> QED BY <1>2, <1>3

(* A call of get is for a module that the module of each call around it    *)
(* needs.                                                                  *)
LEMMA SpineNeeds ==
  ASSUME IInv, NEW t \in Thread, NEW d \in DOMAIN stack[t], NEW c \in DOMAIN stack[t], d < c
  PROVE  stack[t][c].mod \in Needs(stack[t][d].mod)
<1> DEFINE n == Len(stack[t])
           mod(e) == stack[t][e].mod
           T == {k \in Nat : d + 1 + k <= n => mod(d + 1 + k) \in Needs(mod(d))}
<1>1. n \in Nat /\ DOMAIN stack[t] = 1 .. n /\ d \in 1 .. n /\ c \in 1 .. n
  BY Stacks DEF IInv
<1>2. \A e \in 1 .. n - 1 : mod(e + 1) \in Needs(mod(e))
  <2> TAKE e \in 1 .. n - 1
  <2>1. stack[t][e] \in Frame /\ mod(e) \in Module
    <3>1. \A a \in 1 .. n : stack[t][a] \in Frame
      BY Stacks DEF IInv
    <3>2. e \in 1 .. n
      BY <1>1
    <3> QED BY <3>1, <3>2 DEF Frame
  <2>2. \E i \in DOMAIN deps[mod(e)] : mod(e + 1) = deps[mod(e)][i]
    BY DEF IInv, Spine
  <2> HIDE DEF mod
  <2> QED BY <2>1, <2>2, NeedsLoads DEF IInv
<1> HIDE DEF mod, n
<1>3. \A e \in 1 .. n - 1 : \A m : mod(e) \in Needs(m) => mod(e + 1) \in Needs(m)
  <2> SUFFICES ASSUME NEW e \in 1 .. n - 1, NEW m, mod(e) \in Needs(m) PROVE mod(e + 1) \in Needs(m)
    OBVIOUS
  <2>1. mod(e + 1) \in Needs(mod(e))
    BY <1>2
  <2> SUFFICES ASSUME NEW S \in SUBSET Module,
                      \A p \in S \cup {m} : \A i \in DOMAIN deps[p] : deps[p][i] \in S
               PROVE  mod(e + 1) \in S
    BY <2>1 DEF Needs
  <2>2. mod(e) \in S
    BY DEF Needs
  <2>3. \A p \in S \cup {mod(e)} : \A i \in DOMAIN deps[p] : deps[p][i] \in S
    BY <2>2
  <2> QED BY <2>1, <2>3 DEF Needs
<1>4. Nat \subseteq T
  <2>1. 0 \in T
    <3>1. d + 1 + 0 = d + 1
      BY <1>1
    <3>2. d + 1 <= n => d \in 1 .. n - 1
      BY <1>1
    <3>3. d + 1 <= n => mod(d + 1) \in Needs(mod(d))
      BY <1>2, <3>2
    <3> QED BY <3>1, <3>3
  <2>2. \A k \in Nat : k \in T => k + 1 \in T
    <3> SUFFICES ASSUME NEW k \in Nat, k \in T, d + 1 + (k + 1) <= n
                 PROVE  mod(d + 1 + (k + 1)) \in Needs(mod(d))
      OBVIOUS
    <3> DEFINE e == d + 1 + k
    <3>1. e \in 1 .. n - 1 /\ d + 1 + (k + 1) = e + 1 /\ e <= n
      BY <1>1
    <3>2. mod(e) \in Needs(mod(d))
      BY <3>1
    <3> HIDE DEF e
    <3> QED BY <1>3, <3>1, <3>2
  <2> HIDE DEF T
  <2> QED BY <2>1, <2>2, SetInduction
<1>5. c - d - 1 \in Nat /\ d + 1 + (c - d - 1) = c
  BY <1>1
<1>6. c - d - 1 \in T
  <2> HIDE DEF T
  <2> QED BY <1>4, <1>5
<1>7. mod(c) \in Needs(mod(d))
  BY <1>1, <1>5, <1>6
<1> QED BY <1>7 DEF mod

(* A module that leads to the load cycle, or to the module that failed by  *)
(* itself, that error e speaks of; such a cycle or module that the cache   *)
(* has met; and a thread that has been the only one to call Load.          *)
LeadsTo(m, e) ==
  IF e = Cycle THEN \E n \in Needs(m) \cup {m} : n \in Needs(n)
  ELSE e \in broken \cap (Needs(m) \cup {m})
Met(e) == IF e = Cycle THEN \E m \in cached : m \in Needs(m) ELSE e \in broken
Alone(t) == \A u \in Thread \ {t} : result[u] = "none"

(* Why a module failed: in the cache of the REPL, because it leads to what *)
(* its error speaks of.  And if one thread is alone, because it has met    *)
(* that; its innermost call is then giving up, or it has returned the      *)
(* error, and all that failed did so for this reason.  It never looks at   *)
(* an entry but the one it wants.                                          *)
Failures ==
  sequential => /\ \A t, u \in Thread : Active(t) /\ Active(u) => t = u
                /\ \A m \in failed : LeadsTo(m, fault[m])

Reason(t) == IF Active(t) THEN fault[Top(t).mod] ELSE result[t]

Unwinding(t) ==
  /\ failed # {} => /\ Met(Reason(t))
                    /\ Active(t) => Top(t).mod \in failed /\ Top(t).at \in {"disown", "close"}
  /\ \A m \in failed : fault[m] = Reason(t)
  /\ result[t] \in Module \cup {Cycle} => Met(result[t])
  /\ Active(t) => /\ Top(t).at # "waitsFor"
                  /\ Top(t).at \in {"lookup", "owner"} => Top(t).e = Top(t).mod

Errors == Failures /\ \A t \in Thread : Alone(t) => Unwinding(t)

(* Nobody but t has called Load if, after a step of t, nobody but u has. *)
LEMMA AloneStep ==
  ASSUME IInv, NEW t \in Thread, NEW u \in Thread, Alone(u)', result'[t] # "none",
         \A v \in Thread \ {t} : result'[v] = result[v]
  PROVE  u = t /\ Alone(t) /\ \A v \in Thread \ {t} : ~Active(v)
<1>1. u = t
  BY DEF Alone
<1>2. \A v \in Thread \ {t} : result[v] = "none"
  BY <1>1 DEF Alone
<1>3. \A v \in Thread \ {t} : ~Active(v)
  BY <1>2 DEF IInv, Typed
<1> QED BY <1>1, <1>2, <1>3 DEF Alone

(* A module that loads one that leads to a failure leads to it. *)
LEMMA LoadsLead ==
  ASSUME Typed, NEW m \in Module, NEW j \in DOMAIN deps[m], NEW e, LeadsTo(deps[m][j], e)
  PROVE  LeadsTo(m, e)
<1>1. \A n \in Needs(deps[m][j]) \cup {deps[m][j]} : n \in Needs(m)
  BY NeedsLoads
<1> QED BY <1>1 DEF LeadsTo

(* What failed by itself stays so, as no module fails twice. *)
LEMMA StaysMet ==
  ASSUME broken \subseteq broken', cached \subseteq cached', UNCHANGED deps, NEW e
  PROVE  /\ Met(e) => Met(e)'
         /\ \A m : LeadsTo(m, e) => LeadsTo(m, e)'
<1>1. \A m : Needs(m)' = Needs(m)
  BY DEF Needs
<1>2. Met(e) => Met(e)'
  BY <1>1 DEF Met
<1>3. \A m : LeadsTo(m, e) => LeadsTo(m, e)'
  BY <1>1 DEF LeadsTo
<1> QED BY <1>2, <1>3

(* A thread that finds one of its own calls to be loading the module it    *)
(* wants has met a cycle.                                                  *)
LEMMA OwnCallIsCycle ==
  ASSUME IInv, NEW t \in Thread, Active(t), ~Loading(Top(t)),
         NEW d \in DOMAIN stack[t], Loading(stack[t][d]), stack[t][d].mod = Top(t).mod
  PROVE  /\ Top(t).mod \in cached /\ Top(t).mod \in Needs(Top(t).mod)
         /\ LeadsTo(Top(t).mod, Cycle) /\ Met(Cycle)
<1>1. Len(stack[t]) \in DOMAIN stack[t] /\ Top(t) = stack[t][Len(stack[t])]
  BY TopSays
<1>2. DOMAIN stack[t] = 1 .. Len(stack[t]) /\ Len(stack[t]) \in Nat
  BY Stacks DEF IInv
<1>3. d < Len(stack[t])
  BY <1>1, <1>2
<1>4. Top(t).mod \in Needs(Top(t).mod)
  BY <1>1, <1>3, SpineNeeds
<1>5. Top(t).mod \in cached
  BY DEF IInv, Frames
<1> QED BY <1>4, <1>5 DEF LeadsTo, Met

LEMMA MovedErrors ==
  ASSUME IInv, Errors, NEW t \in Thread, Active(t), NEW g \in Frame, Moved(t, g),
         UNCHANGED <<sequential, deps, result>>, cached \subseteq cached',
         \/ fault' = fault
         \/ /\ Top(t).at = "exec" /\ g.at \in {"disown", "close"}
            /\ fault' = [fault EXCEPT ![g.mod] = g.mod],
         g.mod = Top(t).mod, Top(t).at \in {"disown", "close"} => g.at \in {"disown", "close"},
         Alone(t) => /\ g.at # "waitsFor"
                     /\ g.at \in {"lookup", "owner"} => g.e = g.mod
  PROVE  Errors'
<1>1. Active(t)' /\ \A u \in Thread : Active(u)' <=> Active(u)
  BY DEF Moved, Others, Active
<1>2. Top(t)' = g
  <2>1. Len(stack'[t]) = Len(stack[t]) /\ stack'[t][Len(stack[t])] = g
    BY DEF Moved
  <2> QED BY <2>1 DEF Top
<1>3. /\ fault \in [Module -> Errs] /\ g.mod \in Module /\ None \notin Module
      /\ Cycle \notin Module /\ result[t] = "running" /\ "running" \notin Module \cup {Cycle}
  BY CacheAssumption DEF IInv, Typed, Frame
<1>4. CASE fault' = fault
  <2>1. UNCHANGED <<failed, broken>>
    BY <1>4 DEF failed, broken
  <2>2. \A e : (Met(e) => Met(e)') /\ \A m : LeadsTo(m, e) => LeadsTo(m, e)'
    BY <2>1, StaysMet
  <2>3. Failures'
    BY <1>1, <1>4, <2>1, <2>2 DEF Errors, Failures
  <2>4. ASSUME NEW u \in Thread, Alone(u)' PROVE Unwinding(u)'
    <3>1. u = t /\ Alone(t)
      BY <1>3, <2>4, AloneStep
    <3>2. Unwinding(t)
      BY <3>1 DEF Errors
    <3>3. Reason(t) = fault[g.mod] /\ Reason(t)' = fault[g.mod]
      BY <1>1, <1>2, <1>4 DEF Reason
    <3>4. failed # {} => Met(Reason(t)) /\ g.mod \in failed /\ g.at \in {"disown", "close"}
      BY <3>2 DEF Unwinding
    <3>5. \A m \in failed : fault[m] = Reason(t)
      BY <3>2 DEF Unwinding
    <3>6. /\ failed' # {} => /\ Met(Reason(t))'
                             /\ Active(t)' => Top(t)'.mod \in failed' /\ Top(t)'.at \in {"disown", "close"}
          /\ \A m \in failed' : fault'[m] = Reason(t)'
      <4>1. Met(Reason(t)) => Met(Reason(t))'
        <5>1. \A m : Needs(m)' = Needs(m)
          BY DEF Needs
        <5> QED BY <1>4, <2>1, <3>3, <5>1 DEF Met
      <4> QED BY <1>2, <1>4, <2>1, <3>3, <3>4, <3>5, <4>1
    <3> QED BY <1>1, <1>2, <1>3, <3>1, <3>6 DEF Unwinding
  <2> QED BY <2>3, <2>4 DEF Errors
(* The module fails by itself. *)
<1>5. CASE /\ Top(t).at = "exec" /\ g.at \in {"disown", "close"}
           /\ fault' = [fault EXCEPT ![g.mod] = g.mod]
  <2>1. g.mod \notin failed /\ fault[g.mod] = None
    BY <1>3, <1>5, TopSays DEF failed
  <2>2. /\ failed' = failed \cup {g.mod} /\ broken' = broken \cup {g.mod}
        /\ fault'[g.mod] = g.mod /\ \A m \in failed : fault'[m] = fault[m]
    BY <1>3, <1>5, <2>1 DEF failed, broken
  <2>3. LeadsTo(g.mod, g.mod)' /\ Met(g.mod)'
    BY <1>3, <2>2 DEF LeadsTo, Met
  <2>5. Failures'
    <3>1. sequential => \A m \in failed : LeadsTo(m, fault[m])'
      <4>1. \A m : Needs(m)' = Needs(m)
        BY DEF Needs
      <4>2. \A m \in failed : LeadsTo(m, fault[m]) => LeadsTo(m, fault[m])'
        BY <2>2, <4>1 DEF LeadsTo
      <4> QED BY <4>2 DEF Errors, Failures
    <3>2. sequential => \A m \in failed' : LeadsTo(m, fault[m])'
      BY <2>2, <2>3, <3>1
    <3> QED BY <1>1, <3>2 DEF Errors, Failures
  <2>6. ASSUME NEW u \in Thread, Alone(u)' PROVE Unwinding(u)'
    <3>1. u = t /\ Alone(t)
      BY <1>3, <2>6, AloneStep
    <3>2. failed = {}
      BY <1>5, <3>1 DEF Errors, Unwinding
    <3>3. Reason(t)' = g.mod
      BY <1>1, <1>2, <2>2 DEF Reason
    <3> QED BY <1>1, <1>2, <1>3, <1>5, <2>2, <2>3, <3>1, <3>2, <3>3 DEF Unwinding
  <2> QED BY <2>5, <2>6 DEF Errors
<1> QED BY <1>4, <1>5

LEMMA CalledErrors ==
  ASSUME IInv, Errors, NEW t \in Thread, NEW m \in Module, Called(t, Call(m)),
         Active(t) => Top(t).at = "exec",
         ~Active(t) => result[t] = "none" /\ (sequential => \A u \in Thread : ~Active(u)),
         result' = [result EXCEPT ![t] = "running"],
         UNCHANGED <<sequential, deps, shared>>
  PROVE  Errors'
<1>1. Active(t)' /\ \A u \in Thread \ {t} : Active(u)' <=> Active(u)
  BY DEF Called, Others, Active
<1>2. Top(t)' = Call(m)
  <2>1. Len(stack'[t]) = Len(stack[t]) + 1 /\ stack'[t][Len(stack[t]) + 1] = Call(m)
    BY DEF Called
  <2> QED BY <2>1 DEF Top
<1>3. UNCHANGED <<sequential, deps, cached, fault, failed, broken>>
  BY DEF shared, failed, broken
<1>4. Failures'
  <2>1. sequential => \A u, v \in Thread : Active(u)' /\ Active(v)' => u = v
    BY <1>1 DEF Errors, Failures
  <2>2. \A n, e : LeadsTo(n, e) => LeadsTo(n, e)'
    BY <1>3, StaysMet
  <2> QED BY <1>3, <2>1, <2>2 DEF Errors, Failures
<1>5. ASSUME NEW u \in Thread, Alone(u)' PROVE Unwinding(u)'
  <2>1. result'[t] = "running" /\ \A v \in Thread \ {t} : result'[v] = result[v]
    BY DEF IInv, Typed
  <2>2. u = t /\ Alone(t)
    BY <1>5, <2>1, AloneStep
  <2>3. failed' = {}
    <3>1. CASE Active(t)
      BY <1>3, <2>2, <3>1 DEF Errors, Unwinding
    <3>2. CASE ~Active(t)
      <4>1. Reason(t) = "none" /\ \A n \in failed : fault[n] = "none"
        BY <2>2, <3>2 DEF Errors, Unwinding, Reason
      <4>2. \A n \in failed : fault[n] \in Module \cup {Cycle}
        BY DEF IInv, Typed, Errs, failed
      <4>3. "none" \notin Module \cup {Cycle}
        BY CacheAssumption
      <4> QED BY <1>3, <4>1, <4>2, <4>3
    <3> QED BY <3>1, <3>2
  <2>4. Call(m).at = "lookup" /\ Call(m).e = Call(m).mod
    BY DEF Call
  <2>5. "running" \notin Module \cup {Cycle}
    BY CacheAssumption
  <2> QED BY <1>1, <1>2, <2>1, <2>2, <2>3, <2>4, <2>5 DEF Unwinding
<1> QED BY <1>4, <1>5 DEF Errors

(* A call of get returns, with an error only if its module leads to what   *)
(* the error speaks of and the thread, when it is alone, has met that and  *)
(* nothing else.                                                           *)
LEMMA ReturnErrors ==
  ASSUME IInv, Errors, NEW t \in Thread, Active(t), NEW err \in Errs, Return(t, err),
         UNCHANGED <<sequential, deps, cached>>,
         sequential /\ err # None => LeadsTo(Top(t).mod, err),
         Alone(t) /\ err # None => Met(err) /\ \A m \in failed : fault[m] = err,
         Alone(t) /\ err = None => failed = {}
  PROVE  Errors'
<1> DEFINE n == Len(stack[t])
<1>1. n \in Nat \ {0} /\ DOMAIN stack[t] = 1 .. n /\ Top(t) = stack[t][n]
  <2>1. n \in Nat \ {0} /\ DOMAIN stack[t] = 1 .. n
    BY Stacks DEF IInv
  <2> QED BY <2>1 DEF Top
<1>2. /\ Len(stack'[t]) = n - 1 /\ \A u \in Thread \ {t} : stack'[u] = stack[u]
      /\ \A d \in 1 .. n - 1 :
           stack'[t][d] = IF d = n - 1 THEN Caller(stack[t][d], err) ELSE stack[t][d]
      /\ failed' = IF n # 1 /\ err # None THEN failed \cup {stack[t][n - 1].mod} ELSE failed
      /\ fault' = IF n # 1 /\ err # None THEN [fault EXCEPT ![stack[t][n - 1].mod] = err] ELSE fault
      /\ stack'[t] \in Seq(Frame)
  BY ReturnPops DEF Others
<1>3. /\ \A v \in Thread \ {t} : result'[v] = result[v]
      /\ result[t] = "running"
      /\ result'[t] = IF n = 1 THEN (IF err = None THEN "ok" ELSE err) ELSE "running"
      /\ {"ok", "running"} \cap (Module \cup {None, Cycle}) = {}
      /\ err # None => err \in Module \cup {Cycle}
  <2>1. result \in [Thread -> {"none", "running", "ok", Cycle} \cup Module] /\ result[t] = "running"
    BY DEF IInv, Typed
  <2>4. /\ {"ok", "running"} \cap (Module \cup {None, Cycle}) = {}
        /\ err # None => err \in Module \cup {Cycle}
    BY CacheAssumption DEF Errs
  <2>2. CASE n = 1
    <3>1. result' = [result EXCEPT ![t] = IF err = None THEN "ok" ELSE err]
      BY <2>2 DEF Return
    <3> QED BY <2>1, <2>2, <2>4, <3>1
  <2>3. CASE n # 1
    <3>1. result' = result
      BY <2>3 DEF Return
    <3> QED BY <2>1, <2>3, <2>4, <3>1
  <2> QED BY <2>2, <2>3
<1>5. /\ \A u \in Thread \ {t} : Active(u)' <=> Active(u)
      /\ Active(t)' <=> n # 1
  <2>1. n = 1 => stack'[t] = <<>>
    <3> HIDE DEF n
    <3> QED BY <1>2, EmptySeq
  <2>2. n # 1 => stack'[t] # <<>>
    <3>1. n # 1 => Len(stack'[t]) # 0
      <4> HIDE DEF n
      <4> QED BY <1>1, <1>2
    <3> QED BY <3>1
  <2> QED BY <1>2, <2>1, <2>2 DEF Active
<1> HIDE DEF n
<1>6. n # 1 => /\ n - 1 \in 1 .. n - 1 /\ n - 1 \in 1 .. n
               /\ stack[t][n - 1] \in Frame /\ stack[t][n - 1].mod \in Module
               /\ stack[t][n - 1].at = "exec"
               /\ \E j \in DOMAIN deps[stack[t][n - 1].mod] :
                    Top(t).mod = deps[stack[t][n - 1].mod][j]
  <2> SUFFICES ASSUME n # 1
               PROVE  /\ n - 1 \in 1 .. n - 1 /\ n - 1 \in 1 .. n
                      /\ stack[t][n - 1] \in Frame /\ stack[t][n - 1].mod \in Module
                      /\ stack[t][n - 1].at = "exec"
                      /\ \E j \in DOMAIN deps[stack[t][n - 1].mod] :
                           Top(t).mod = deps[stack[t][n - 1].mod][j]
    OBVIOUS
  <2> DEFINE f == stack[t][n - 1]
  <2>1. n - 1 \in 1 .. n - 1 /\ n - 1 \in 1 .. n /\ (n - 1) + 1 = n
    BY <1>1
  <2>2. f \in Frame
    <3>1. \A d \in 1 .. n : stack[t][d] \in Frame
      BY Stacks DEF IInv, n
    <3> QED BY <2>1, <3>1
  <2>3. \A d \in 1 .. n - 1 : /\ stack[t][d].at = "exec"
                              /\ stack[t][d].i \in DOMAIN deps[stack[t][d].mod]
                              /\ stack[t][d + 1].mod = deps[stack[t][d].mod][stack[t][d].i]
    BY DEF IInv, Spine, n
  <2>4. f.at = "exec" /\ f.i \in DOMAIN deps[f.mod] /\ Top(t).mod = deps[f.mod][f.i]
    BY <1>1, <2>1, <2>3
  <2>5. f.mod \in Module
    BY <2>2 DEF Frame
  <2> HIDE DEF f
  <2>6. \E j \in DOMAIN deps[f.mod] : Top(t).mod = deps[f.mod][j]
    BY <2>4
  <2> QED BY <2>1, <2>2, <2>4, <2>5, <2>6 DEF f
(* What failed before stays as it was, and what fails now fails with err.  *)
<1>4. /\ \A m \in failed : fault'[m] = fault[m]
      /\ \A m \in failed' \ failed : n # 1 /\ err # None /\ m = stack[t][n - 1].mod /\ fault'[m] = err
      /\ n # 1 /\ err # None => fault'[stack[t][n - 1].mod] = err
      /\ broken \subseteq broken'
  <2>1. fault \in [Module -> Errs] /\ None \notin Module
    BY CacheAssumption DEF IInv, Typed
  <2>2. CASE n # 1 /\ err # None
    <3> DEFINE c == stack[t][n - 1].mod
    <3>1. c \in Module /\ c \notin failed
      BY <1>1, <1>6, <2>2 DEF IInv, Frames
    <3> HIDE DEF c
    <3>2. failed' = failed \cup {c} /\ fault' = [fault EXCEPT ![c] = err]
      BY <1>2, <2>2 DEF c
    <3>3. failed \subseteq Module /\ broken \subseteq failed
      BY <2>1 DEF failed, broken
    <3>4. \A m \in failed : fault'[m] = fault[m]
      BY <2>1, <3>1, <3>2, <3>3
    <3>5. broken \subseteq broken'
      BY <3>3, <3>4 DEF broken
    <3>6. fault'[c] = err
      BY <2>1, <3>1, <3>2
    <3> QED BY <2>2, <3>2, <3>4, <3>5, <3>6 DEF c
  <2>3. CASE ~(n # 1 /\ err # None)
    <3>1. fault' = fault /\ failed' = failed
      BY <1>2, <2>3
    <3> QED BY <2>3, <3>1 DEF broken
  <2> QED BY <2>2, <2>3
<1>7. \A e : (Met(e) => Met(e)') /\ \A m : LeadsTo(m, e) => LeadsTo(m, e)'
  BY <1>4, StaysMet
<1>8. Failures'
  <2>1. sequential => \A u, v \in Thread : Active(u)' /\ Active(v)' => u = v
    BY <1>5 DEF Errors, Failures
  <2>2. sequential /\ n # 1 /\ err # None => LeadsTo(stack[t][n - 1].mod, err)
    BY <1>6, LoadsLead DEF IInv
  <2>3. sequential => \A m \in failed' : LeadsTo(m, fault'[m])
    BY <1>4, <2>2 DEF Errors, Failures
  <2>4. sequential => \A m \in failed' : LeadsTo(m, fault[m])'
    BY <1>7, <2>3
  <2> QED BY <2>1, <2>4 DEF Failures
<1>9. ASSUME NEW u \in Thread, Alone(u)' PROVE Unwinding(u)'
  <2>1. u = t /\ Alone(t)
    <3>1. result'[t] # "none"
      BY <1>3, CacheAssumption
    <3> QED BY <1>3, <1>9, <3>1, AloneStep
  <2>2. (err # None => Met(err)) /\ (err = None => failed' = {})
    BY <1>2, <2>1
  <2>3. err # None => Met(err)' /\ \A m \in failed' : fault'[m] = err
    BY <1>4, <1>7, <2>1, <2>2
  <2>4. CASE n = 1
    <3>1. Reason(t)' = result'[t] /\ ~Active(t)'
      BY <1>5, <2>4 DEF Reason
    <3>2. err # None => Reason(t)' = err
      BY <1>3, <2>4, <3>1
    <3>3. failed' # {} => Met(Reason(t))'
      <4>1. err # None => Met(Reason(t))'
        BY <2>3, <3>2 DEF Met
      <4> QED BY <2>2, <4>1
    <3>4. \A m \in failed' : fault'[m] = Reason(t)'
      BY <2>2, <2>3, <3>2
    <3>5. result'[t] \in Module \cup {Cycle} => Met(result[t])'
      <4>1. err # None => result'[t] = err
        BY <1>3, <2>4
      <4>2. err = None => result'[t] \notin Module \cup {Cycle}
        BY <1>3, <2>4
      <4> QED BY <2>3, <4>1, <4>2 DEF Met
    <3> QED BY <2>1, <3>1, <3>3, <3>4, <3>5 DEF Unwinding
  <2>5. CASE n # 1
    <3> DEFINE f == stack[t][n - 1]
    <3>1. Top(t)' = Caller(f, err) /\ f.at = "exec"
      <4>1. Top(t)' = stack'[t][n - 1]
        BY <1>2 DEF Top
      <4> QED BY <1>2, <1>6, <2>5, <4>1
    <3>2. f \in Frame
      BY <1>6, <2>5
    <3>3. err # None => f.mod \in failed' /\ fault'[f.mod] = err
      BY <1>2, <1>4, <2>5
    <3> HIDE DEF f
    <3>4. err # None => Caller(f, err).mod = f.mod /\ Caller(f, err).at \in {"disown", "close"}
      BY <3>2 DEF Caller, Frame, Executed
    <3>5. err = None => Caller(f, err).at = "exec"
      BY <3>1, <3>2 DEF Caller, Frame
    <3>6. err # None => Reason(t)' = err
      BY <1>5, <2>5, <3>1, <3>3, <3>4 DEF Reason
    <3>7. Active(t)' /\ result'[t] \notin Module \cup {Cycle}
      BY <1>3, <1>5, <2>5
    <3>8. CASE err # None
      <4>1. Met(Reason(t))'
        BY <2>3, <3>6, <3>8 DEF Met
      <4>2. \A m \in failed' : fault'[m] = Reason(t)'
        BY <2>3, <3>6, <3>8
      <4>3. Top(t)'.mod \in failed' /\ Top(t)'.at \in {"disown", "close"}
        BY <3>1, <3>3, <3>4, <3>8
      <4> QED BY <2>1, <3>7, <4>1, <4>2, <4>3 DEF Unwinding
    <3>9. CASE err = None
      <4>1. failed' = {} /\ Top(t)'.at = "exec"
        BY <2>2, <3>1, <3>5, <3>9
      <4> QED BY <2>1, <3>7, <4>1 DEF Unwinding
    <3> QED BY <3>8, <3>9
  <2> QED BY <2>4, <2>5
<1> QED BY <1>8, <1>9 DEF Errors

LEMMA StepErrors ==
  ASSUME IInv, Errors, NEW t \in Thread, Step(t)
  PROVE  Errors'
<1> USE DEF Loading, Owning, Points
<1>1. Active(t)
  BY DEF Step, Lookup, LookupSequential, SetOwner, Exec, ClearOwner, Close, LoadOwner,
         LoadWaitsFor, SetWaitsFor, Receive, At
<1>2. /\ Top(t) \in Frame /\ Top(t).mod \in Module /\ Typed
      /\ \A u \in Thread : result[u] = "running" <=> Active(u)
  <2>1. Top(t) \in Frame /\ Typed
    BY <1>1, TopSays DEF IInv
  <2> QED BY <2>1 DEF Frame, Typed
<1>3. Alone(t) => Unwinding(t) /\ \A u \in Thread \ {t} : ~Active(u)
  BY <1>2 DEF Errors, Alone
<1>4. /\ fault[Top(t).mod] \in Errs /\ (fault[Top(t).mod] = None <=> Top(t).mod \notin failed)
      /\ sequential /\ Top(t).mod \in failed => LeadsTo(Top(t).mod, fault[Top(t).mod])
      /\ Alone(t) /\ Top(t).mod \in failed =>
           Met(fault[Top(t).mod]) /\ \A m \in failed : fault[m] = fault[Top(t).mod]
      /\ Alone(t) /\ Top(t).at \notin {"disown", "close"} => failed = {}
      /\ Alone(t) /\ Top(t).mod \notin failed => failed = {}
      /\ Cycle \in Errs /\ Cycle # None
  <2>1. fault[Top(t).mod] \in Errs /\ (fault[Top(t).mod] = None <=> Top(t).mod \notin failed)
    BY <1>2 DEF Typed, failed
  <2>2. Cycle \in Errs /\ Cycle # None
    BY CacheAssumption DEF Errs
  <2>3. Reason(t) = fault[Top(t).mod]
    BY <1>1 DEF Reason
  <2>4. sequential /\ Top(t).mod \in failed => LeadsTo(Top(t).mod, fault[Top(t).mod])
    BY DEF Errors, Failures
  <2>5. Alone(t) /\ failed # {} => Met(fault[Top(t).mod]) /\ \A m \in failed : fault[m] = fault[Top(t).mod]
    BY <1>3, <2>3 DEF Unwinding
  <2>6. Alone(t) /\ failed # {} => Top(t).mod \in failed /\ Top(t).at \in {"disown", "close"}
    BY <1>1, <1>3 DEF Unwinding
  <2> QED BY <2>1, <2>2, <2>4, <2>5, <2>6
(* An entry that is not ready, and not loaded by another thread. *)
<1>5. ASSUME Top(t).mod \in cached \ ready, \A u \in Thread \ {t} : ~Active(u), ~Loading(Top(t))
      PROVE  LeadsTo(Top(t).mod, Cycle) /\ Met(Cycle)
  <2>1. PICK u \in Thread : \E d \in DOMAIN stack[u] :
               Loading(stack[u][d]) /\ stack[u][d].mod = Top(t).mod
    BY <1>5 DEF IInv, OneLoader
  <2>2. PICK d \in DOMAIN stack[u] : Loading(stack[u][d]) /\ stack[u][d].mod = Top(t).mod
    BY <2>1
  <2>3. u = t
    BY <1>5, <2>2 DEF Active
  <2> QED BY <1>1, <1>5, <2>2, <2>3, OwnCallIsCycle
<1>6. CASE Lookup(t)
  <2>1. Top(t).at = "lookup" /\ UNCHANGED <<sequential, deps, fault, result>> /\ cached \subseteq cached'
    BY <1>6 DEF Lookup, At
  <2>2. PICK p \in {"owner", "own"} : Goto(t, p)
    BY <1>6 DEF Lookup
  <2> DEFINE g == [Top(t) EXCEPT !.at = p]
  <2>3. g \in Frame /\ Moved(t, g) /\ g.at = p /\ g.mod = Top(t).mod
    <3>1. p \in Points /\ p \notin {"lookup", "waitsFor"}
      OBVIOUS
    <3> QED BY <1>1, <2>1, <2>2, <3>1, Goes, Zenon
  <2>4. g.e = Top(t).e
    BY <1>2 DEF Frame
  <2> HIDE DEF g
  <2> QED BY <1>1, <1>3, <2>1, <2>2, <2>3, <2>4, MovedErrors DEF Unwinding
<1>7. CASE LookupSequential(t)
  <2>1. /\ Top(t).at = "lookup" /\ sequential
        /\ UNCHANGED <<sequential, deps, owner, waitsFor, ready>>
    BY <1>7 DEF LookupSequential, At
  <2>2. \A u \in Thread \ {t} : ~Active(u)
    BY <1>1, <2>1 DEF Errors, Failures
  <2>3. CASE Top(t).mod \in ready /\ Return(t, fault[Top(t).mod]) /\ UNCHANGED cached
    <3> DEFINE err == fault[Top(t).mod]
    <3>1. err \in Errs /\ Return(t, err) /\ UNCHANGED <<sequential, deps, cached>>
      BY <1>4, <2>1, <2>3
    <3>2. /\ sequential /\ err # None => LeadsTo(Top(t).mod, err)
          /\ Alone(t) /\ err # None => Met(err) /\ \A m \in failed : fault[m] = err
          /\ Alone(t) /\ err = None => failed = {}
      BY <1>4
    <3> HIDE DEF err
    <3> QED BY <1>1, <3>1, <3>2, ReturnErrors
  <2>4. CASE Top(t).mod \in cached \ ready /\ Return(t, Cycle) /\ UNCHANGED cached
    <3>1. LeadsTo(Top(t).mod, Cycle) /\ Met(Cycle)
      BY <1>5, <2>1, <2>2, <2>4
    <3>2. Alone(t) => failed = {}
      BY <1>4, <2>1
    <3> QED BY <1>1, <1>4, <2>1, <2>4, <3>1, <3>2, ReturnErrors
  <2>5. CASE /\ Top(t).mod \notin cached /\ cached' = cached \cup {Top(t).mod}
             /\ Goto(t, "exec") /\ UNCHANGED <<fault, result>>
    <3> DEFINE g == [Top(t) EXCEPT !.at = "exec"]
    <3>1. g \in Frame /\ Moved(t, g) /\ g.at = "exec" /\ g.mod = Top(t).mod
      BY <1>1, <2>5, Goes
    <3> HIDE DEF g
    <3> QED BY <1>1, <2>1, <2>5, <3>1, MovedErrors
  <2> QED BY <1>7, <2>3, <2>4, <2>5 DEF LookupSequential
<1>8. CASE SetOwner(t) \/ ClearOwner(t) \/ SetWaitsFor(t)
  <2>1. PICK p \in {"exec", "close", "blocked"} :
          /\ Goto(t, p) /\ UNCHANGED <<sequential, deps, cached, fault, result>>
          /\ Top(t).at \in {"disown", "close"} => p = "close"
    BY <1>8 DEF SetOwner, ClearOwner, SetWaitsFor, At
  <2> DEFINE g == [Top(t) EXCEPT !.at = p]
  <2>2. g \in Frame /\ Moved(t, g) /\ g.at = p /\ g.mod = Top(t).mod
    <3>1. p \in Points /\ p \notin {"lookup", "waitsFor"} /\ p # "owner"
      OBVIOUS
    <3> QED BY <1>1, <2>1, <3>1, Goes, Zenon
  <2> HIDE DEF g
  <2> QED BY <1>1, <2>1, <2>2, MovedErrors
<1>9. CASE Exec(t)
  <2>1. Top(t).at = "exec" /\ UNCHANGED <<sequential, deps, cached, owner, waitsFor, ready, result>>
    BY <1>9 DEF Exec, At
  <2>2. CASE /\ Top(t).i <= Len(deps[Top(t).mod]) /\ UNCHANGED fault
             /\ stack' = [stack EXCEPT ![t] = Append(@, Call(deps[Top(t).mod][Top(t).i]))]
    <3> DEFINE m == deps[Top(t).mod][Top(t).i]
    <3>1. m \in Module
      <4>1. deps[Top(t).mod] \in Seq(Module) /\ Top(t).i \in Nat \ {0}
        BY <1>2 DEF Typed, Frame
      <4>2. Len(deps[Top(t).mod]) \in Nat /\ Top(t).i \in 1 .. Len(deps[Top(t).mod])
        BY <2>2, <4>1
      <4> QED BY <4>1, <4>2
    <3>2. stack' = [stack EXCEPT ![t] = Append(@, Call(m))]
      BY <2>2
    <3> HIDE DEF m
    <3>3. Called(t, Call(m))
      <4>1. stack[t] \in Seq(Frame) /\ Call(m) \in Frame
        BY <1>2, <3>1 DEF Typed, Call, Frame
      <4>2. stack'[t] = Append(stack[t], Call(m)) /\ Others(t)
        BY <1>2, <3>2 DEF Typed, Others
      <4> DEFINE g == Call(m)
      <4> HIDE DEF g
      <4>3. /\ stack'[t] \in Seq(Frame) /\ Len(stack'[t]) = Len(stack[t]) + 1 /\ stack'[t] # <<>>
            /\ stack'[t][Len(stack[t]) + 1] = g
            /\ \A d \in 1 .. Len(stack[t]) : stack'[t][d] = stack[t][d]
        BY <4>1, <4>2, Pushed DEF g
      <4> QED BY <1>2, <3>2, <4>2, <4>3 DEF Called, Typed, g
    <3>4. result' = [result EXCEPT ![t] = "running"]
      BY <1>1, <1>2, <2>1 DEF Typed
    <3> QED BY <1>1, <2>1, <2>2, <3>1, <3>3, <3>4, CalledErrors DEF shared
  <2>3. CASE /\ Top(t).i > Len(deps[Top(t).mod]) /\ Goto(t, Executed)
             /\ fault' = fault \/ fault' = [fault EXCEPT ![Top(t).mod] = Top(t).mod]
    <3> DEFINE g == [Top(t) EXCEPT !.at = Executed]
    <3>1. Executed \in {"disown", "close"} /\ Goto(t, Executed)
      BY <2>3 DEF Executed
    <3>2. g \in Frame /\ Moved(t, g) /\ g.at = Executed /\ g.mod = Top(t).mod
      <4>1. Executed \in Points /\ Executed \notin {"lookup", "waitsFor"} /\ Executed # "owner"
        BY <3>1
      <4> QED BY <1>1, <3>1, <4>1, Goes, Zenon
    <3> HIDE DEF g
    <3>3. fault' = fault \/ fault' = [fault EXCEPT ![g.mod] = g.mod]
      BY <2>3, <3>2
    <3> QED BY <1>1, <2>1, <3>1, <3>2, <3>3, MovedErrors
  <2> QED BY <1>9, <2>2, <2>3 DEF Exec
<1>10. CASE Close(t) \/ Receive(t)
  <2> DEFINE err == fault[Top(t).mod]
  <2>1. err \in Errs /\ Return(t, err) /\ UNCHANGED <<sequential, deps, cached>>
    BY <1>4, <1>10 DEF Close, Receive
  <2>2. /\ sequential /\ err # None => LeadsTo(Top(t).mod, err)
        /\ Alone(t) /\ err # None => Met(err) /\ \A m \in failed : fault[m] = err
        /\ Alone(t) /\ err = None => failed = {}
    BY <1>4
  <2> HIDE DEF err
  <2> QED BY <1>1, <2>1, <2>2, ReturnErrors
<1>11. CASE LoadOwner(t)
  <2> DEFINE o == owner[Top(t).e]
  <2>1. /\ Top(t).at = "owner" /\ Top(t).e \in Module
        /\ UNCHANGED <<sequential, deps, cached, owner, waitsFor, ready>>
    BY <1>2, <1>11 DEF LoadOwner, At, Frame
  <2>2. o # None => ~sequential /\ o \in Thread /\ Active(o)
    <3>1. o \in Thread \cup {None}
      BY <1>2, <2>1 DEF Typed
    <3>2. o # None => ~sequential /\ \E d \in DOMAIN stack[o] : Owning(stack[o][d])
      BY <2>1 DEF IInv, Edges
    <3> QED BY <3>1, <3>2 DEF Active
  <2>3. CASE Goto(t, "wait") /\ UNCHANGED <<fault, result>>
    <3> DEFINE g == [Top(t) EXCEPT !.at = "wait"]
    <3>1. g \in Frame /\ Moved(t, g) /\ g.at = "wait" /\ g.mod = Top(t).mod
      BY <1>1, <2>3, Goes
    <3> HIDE DEF g
    <3> QED BY <1>1, <2>1, <2>3, <3>1, MovedErrors
  <2>4. CASE o = t /\ Return(t, Cycle)
    <3>1. ~sequential
      BY <2>2, <2>4, CacheAssumption
    <3>2. Alone(t) => Met(Cycle)
      <4> SUFFICES ASSUME Alone(t) PROVE Met(Cycle)
        OBVIOUS
      <4>1. Top(t).e = Top(t).mod
        BY <1>1, <1>3, <2>1 DEF Unwinding
      <4>2. PICK d \in DOMAIN stack[t] : Owning(stack[t][d]) /\ stack[t][d].mod = Top(t).mod
        BY <1>2, <2>4, <4>1, CacheAssumption DEF IInv, Edges
      <4> QED BY <1>1, <2>1, <4>2, OwnCallIsCycle
    <3>3. Alone(t) => failed = {}
      BY <1>4, <2>1
    <3> QED BY <1>1, <1>4, <2>1, <2>4, <3>1, <3>2, <3>3, ReturnErrors
  <2>5. CASE /\ o \notin {None, t}
             /\ stack' = [stack EXCEPT ![t][Len(stack[t])].at = "waitsFor",
                                       ![t][Len(stack[t])].e = o]
             /\ UNCHANGED <<fault, result>>
    <3> DEFINE g == [Top(t) EXCEPT !.at = "waitsFor", !.e = o]
    <3>1. g \in Frame /\ g.at = "waitsFor" /\ g.mod = Top(t).mod
      BY <1>2, <2>2, <2>5 DEF Frame
    <3>2. stack' = [stack EXCEPT ![t] = [@ EXCEPT ![Len(stack[t])] = g]]
      BY <1>1, <1>2, <2>5, TopSays DEF Typed
    <3>3. ~Alone(t)
      BY <1>3, <2>2, <2>5
    <3> HIDE DEF g
    <3>4. Moved(t, g)
      BY <1>1, <1>2, <3>1, <3>2, GotoMoves
    <3> QED BY <1>1, <2>1, <2>5, <3>1, <3>3, <3>4, MovedErrors
  <2> QED BY <1>11, <2>3, <2>4, <2>5 DEF LoadOwner
<1>12. CASE LoadWaitsFor(t)
  <2> DEFINE w == waitsFor[Top(t).e]
             g == [Top(t) EXCEPT !.at = IF w = None THEN "wait" ELSE "owner",
                                 !.e = IF w = None THEN @ ELSE w]
  <2>1. /\ Top(t).at = "waitsFor" /\ UNCHANGED <<sequential, deps, cached, fault, result>>
        /\ stack' = [stack EXCEPT ![t][Len(stack[t])].at = IF w = None THEN "wait" ELSE "owner",
                                  ![t][Len(stack[t])].e = IF w = None THEN @ ELSE w]
    BY <1>12 DEF LoadWaitsFor, At, shared
  <2>2. w \in Module \cup {None}
    BY <1>2, <2>1 DEF Frame, Typed
  <2>3. g \in Frame /\ g.mod = Top(t).mod
    BY <1>2, <2>2 DEF Frame
  <2>4. stack' = [stack EXCEPT ![t] = [@ EXCEPT ![Len(stack[t])] = g]]
    BY <1>1, <1>2, <2>1, TopSays DEF Typed
  <2>5. ~Alone(t)
    BY <1>1, <1>3, <2>1 DEF Unwinding
  <2> HIDE DEF g
  <2>6. Moved(t, g)
    BY <1>1, <1>2, <2>3, <2>4, GotoMoves
  <2> QED BY <1>1, <2>1, <2>3, <2>5, <2>6, MovedErrors
<1> QED BY <1>6, <1>7, <1>8, <1>9, <1>10, <1>11, <1>12 DEF Step

LEMMA LoadErrors ==
  ASSUME IInv, Errors, NEW t \in Thread, NEW m \in Module, Load(t, m)
  PROVE  Errors'
<1>1. /\ result[t] = "none" /\ Free /\ stack' = [stack EXCEPT ![t] = <<Call(m)>>]
      /\ result' = [result EXCEPT ![t] = "running"] /\ UNCHANGED <<sequential, deps, shared>>
  BY DEF Load
<1>2. Typed
  BY DEF IInv
<1>3. ~Active(t) /\ stack[t] = <<>>
  BY <1>1, <1>2 DEF Typed, Active
<1>4. Called(t, Call(m))
  <2>1. stack'[t] = <<Call(m)>> /\ Others(t)
    BY <1>1, <1>2 DEF Typed, Others
  <2>2. Call(m) \in Frame
    BY DEF Call, Frame, Points
  <2>3. stack' \in [Thread -> Seq(Frame)]
    BY <1>1, <1>2, <2>2 DEF Typed
  <2> DEFINE g == Call(m)
  <2> HIDE DEF g
  <2>4. stack'[t] = <<g>>
    BY <2>1 DEF g
  <2>5. Called(t, g)
    BY <1>3, <2>1, <2>3, <2>4 DEF Called
  <2> QED BY <2>5 DEF g
<1>5. sequential => \A u \in Thread : ~Active(u)
  BY <1>1 DEF Free
<1> QED BY <1>1, <1>3, <1>4, <1>5, CalledErrors

(* What an error means.  A client that is alone succeeds exactly if it met *)
(* neither a load cycle nor a module that fails by itself, and otherwise   *)
(* is told of the one it met, however many modules there are and however   *)
(* they load each other; and an entry of the REPL's cache has an error     *)
(* exactly if its module leads to a cycle or to a module that failed by    *)
(* itself, and has the error of one of those, no matter which modules were *)
(* asked for before.                                                       *)
THEOREM AloneIsExact == Spec => []AloneExact
<1>1. Init => Errors
  <2> SUFFICES ASSUME Init PROVE Errors
    OBVIOUS
  <2>1. failed = {} /\ \A t \in Thread : ~Active(t) /\ result[t] = "none"
    BY DEF Init, failed, Active
  <2>2. "none" \notin Module \cup {Cycle}
    BY CacheAssumption
  <2> QED BY <2>1, <2>2 DEF Errors, Failures, Unwinding
<1>2. IInv /\ Errors /\ [Next]_vars => Errors'
  <2> SUFFICES ASSUME IInv, Errors, [Next]_vars PROVE Errors'
    OBVIOUS
  <2>1. CASE Next
    BY <2>1, StepErrors, LoadErrors DEF Next
  <2>2. CASE UNCHANGED vars
    BY <2>2, ZenonT(60) DEF vars, shared, Errors, Failures, Unwinding, Reason, Alone, Met, LeadsTo,
       Needs, failed, broken, Active, Top
  <2> QED BY <2>1, <2>2
<1>3. IInv /\ LoadedIsClosed /\ Errors => AloneExact
  <2> SUFFICES ASSUME IInv, LoadedIsClosed, Errors PROVE AloneExact
    OBVIOUS
  <2>1. /\ fault \in [Module -> Errs] /\ None \notin Module \cup {Cycle} /\ Cycle \notin Module
        /\ {"none", "running", "ok"} \cap (Module \cup {Cycle}) = {}
        /\ cached \subseteq Module /\ ready \subseteq cached /\ failed \subseteq cached
    BY CacheAssumption DEF IInv, Typed
  <2>2. /\ broken \subseteq failed /\ \A m \in failed : fault[m] \in Module \cup {Cycle}
        /\ \A m \in broken : fault[m] = m /\ m \in Module
    BY <2>1 DEF broken, failed, Errs
  <2>3. ASSUME NEW t \in Thread, Alone(t), result[t] \in {"ok", Cycle} \cup Module
        PROVE  /\ result[t] = "ok" => broken = {} /\ \A m \in cached : m \notin Needs(m)
               /\ result[t] = Cycle => broken = {} /\ \E m \in cached : m \in Needs(m)
               /\ result[t] \in Module => broken = {result[t]}
    <3>1. /\ \A u \in Thread : ~Active(u)
          /\ Reason(t) = result[t]
      <4>1. \A u \in Thread : result[u] # "running"
        BY <2>1, <2>3 DEF Alone
      <4>2. \A u \in Thread : ~Active(u)
        BY <4>1 DEF IInv, Typed
      <4> QED BY <4>2 DEF Reason
    <3>2. /\ \A m \in failed : fault[m] = result[t]
          /\ result[t] \in Module \cup {Cycle} => Met(result[t])
      BY <2>3, <3>1 DEF Errors, Unwinding
    <3>3. \A m \in broken : m = result[t]
      BY <2>2, <3>2
    <3>4. ASSUME result[t] = "ok"
          PROVE  broken = {} /\ \A m \in cached : m \notin Needs(m)
      <4>1. failed = {}
        BY <2>1, <2>2, <3>2, <3>4
      <4>2. \A m \in cached : m \in ready
        BY <3>1 DEF IInv, OneLoader, Active
      <4> QED BY <2>2, <4>1, <4>2 DEF LoadedIsClosed
    <3>5. ASSUME result[t] = Cycle
          PROVE  broken = {} /\ \E m \in cached : m \in Needs(m)
      <4>1. broken = {}
        BY <2>1, <2>2, <3>3, <3>5
      <4>2. Met(Cycle)
        BY <3>2, <3>5
      <4> QED BY <4>1, <4>2 DEF Met
    <3>6. ASSUME result[t] \in Module
          PROVE  broken = {result[t]}
      <4>1. result[t] \in broken
        BY <2>1, <3>2, <3>6 DEF Met
      <4> QED BY <3>3, <4>1
    <3> QED BY <3>4, <3>5, <3>6
  <2>4. ASSUME sequential, NEW m \in ready
        PROVE  LET Reached == Needs(m) \cup {m}
               IN  /\ fault[m] = None => \A n \in Reached : n \notin Needs(n) /\ n \notin broken
                   /\ fault[m] = Cycle => \E n \in Reached : n \in Needs(n)
                   /\ fault[m] \in Module => fault[m] \in broken \cap Reached
    <3>1. m \in Module /\ (m \in failed <=> fault[m] # None)
      BY <2>1 DEF failed
    <3>2. m \in failed => LeadsTo(m, fault[m])
      BY <2>4 DEF Errors, Failures
    <3>3. ASSUME fault[m] = None, NEW n \in Needs(m) \cup {m}
          PROVE  n \notin Needs(n) /\ n \notin broken
      <4>1. m \in ready \ failed
        BY <3>1, <3>3
      <4>2. n \in ready \ failed
        BY <3>3, <4>1 DEF LoadedIsClosed
      <4> QED BY <2>2, <4>2 DEF LoadedIsClosed
    <3> QED BY <2>1, <3>1, <3>2, <3>3 DEF LeadsTo
  <2> QED BY <2>1, <2>3, <2>4 DEF AloneExact, Alone
<1> QED BY <1>1, <1>2, <1>3, CacheInvariance, LoadsComplete, PTL DEF Spec
=============================================================================

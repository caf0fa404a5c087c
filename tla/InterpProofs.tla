---------------------------- MODULE InterpProofs ----------------------------
(***************************************************************************)
(* That a thread keeps its books, for any set of collections, any limits,  *)
(* any number of iterators, calls and frames: iterations are counted       *)
(* exactly and forbid updates, whatever ends them; functions do not recur  *)
(* unnoticed; the step limit holds; spans follow the top of the stack.     *)
(*                                                                         *)
(* Every frame but the top one has begun and waits for a call, and every   *)
(* iterator is in one place of one frame: a step changes the top frame     *)
(* only, or one frame comes or goes.                                       *)
(***************************************************************************)
EXTENDS Interp, SequenceTheorems, FiniteSetTheorems, TLAPS

FrameType ==
  [fn : {"f", "g", "go"}, iters : Seq(Coll), calls : Nat, begun : BOOLEAN, span : BOOLEAN]

Modes == {"idle", "enter", "tick", "exec", "go", "ret", "err", "panic"}

Fits(fr) == /\ fr.fn \in Fn \cup {"go"} /\ fr.calls <= setup.goCalls
            /\ Len(fr.iters) <= setup.iters

Typed ==
  /\ setup \in Setup
  /\ stack \in Seq(FrameType) /\ \A d \in DOMAIN stack : Fits(stack[d])
  /\ mode \in Modes /\ (mode = "idle" <=> stack = <<>>)
  /\ steps \in 0 .. StepCap /\ maxSteps \in Limits \cup {0, Unlimited}
  /\ cancelReason \in Reason \cup {TooMany, NoReason}
  /\ itercount \in [Coll -> Nat] /\ leaked \in [Coll -> Nat]
  /\ frozen \in [Coll -> BOOLEAN] /\ content \in [Coll -> BOOLEAN]

(* What is executing, and that the frames below wait for a call. *)
Control ==
  /\ mode \in {"tick", "exec"} => Top.fn # "go" /\ Top.begun
  /\ mode = "go" => Top.fn = "go" /\ Top.begun
  /\ \A d \in 1 .. Len(stack) - 1 : stack[d].begun

(* Where frames may be if the stack is limited. *)
Depths ==
  Recursion =>
    \A d \in DOMAIN stack :
      /\ d <= setup.depth + setup.goChain + 1
      /\ stack[d].fn = "go" => d <= setup.depth + setup.goChain
      /\ stack[d].fn # "go" /\ stack[d].begun => d <= setup.depth

IInv == /\ Typed /\ Control /\ Depths
        /\ StepLimitHolds /\ NoReentry /\ SpansExact /\ IterAccounting
-----------------------------------------------------------------------------
LEMMA SeqTyped ==
  ASSUME NEW S, NEW s \in Seq(S)
  PROVE  Len(s) \in Nat /\ DOMAIN s = 1 .. Len(s) /\ \A d \in DOMAIN s : s[d] \in S
OBVIOUS

LEMMA LastReplaced ==
  ASSUME NEW S, NEW s \in Seq(S), Len(s) \in Nat \ {0}, NEW g \in S
  PROVE  LET r == [s EXCEPT ![Len(s)] = g]
         IN  /\ r \in Seq(S) /\ Len(r) = Len(s) /\ r # <<>> /\ r[Len(s)] = g
             /\ \A d \in 1 .. Len(s) - 1 : r[d] = s[d]
OBVIOUS

LEMMA Appended ==
  ASSUME NEW S, NEW s \in Seq(S), NEW g \in S
  PROVE  LET r == Append(s, g)
         IN  /\ r \in Seq(S) /\ Len(r) = Len(s) + 1 /\ r # <<>> /\ r[Len(s) + 1] = g
             /\ \A d \in 1 .. Len(s) : r[d] = s[d]
OBVIOUS

(* The stack, in the form in which the proofs use it. *)
LEMMA Stacks ==
  ASSUME Typed
  PROVE  /\ Len(stack) \in Nat /\ DOMAIN stack = 1 .. Len(stack)
         /\ \A d \in 1 .. Len(stack) : stack[d] \in FrameType /\ Fits(stack[d])
         /\ mode # "idle" => /\ Len(stack) \in Nat \ {0} /\ Len(stack) \in DOMAIN stack
                             /\ Top = stack[Len(stack)] /\ Top \in FrameType /\ Fits(Top)
<1>1. stack \in Seq(FrameType)
  BY DEF Typed
<1>2. Len(stack) \in Nat /\ DOMAIN stack = 1 .. Len(stack) /\ \A d \in DOMAIN stack : stack[d] \in FrameType
  BY <1>1, SeqTyped, Zenon
<1>3. \A d \in 1 .. Len(stack) : Fits(stack[d])
  BY <1>2 DEF Typed
<1>4. mode # "idle" => Len(stack) \in Nat \ {0}
  BY <1>1, EmptySeq DEF Typed
<1>5. mode # "idle" => Len(stack) \in 1 .. Len(stack)
  BY <1>2, <1>4
<1> QED BY <1>2, <1>3, <1>4, <1>5 DEF Top

(* Two stacks that differ in their top frames only; one with a frame more; *)
(* one with a frame less.                                                  *)
Retopped(g) ==
  /\ stack' \in Seq(FrameType) /\ Len(stack') = Len(stack) /\ stack' # <<>>
  /\ DOMAIN stack' = DOMAIN stack
  /\ \A d \in 1 .. Len(stack) - 1 : stack'[d] = stack[d]
  /\ stack'[Len(stack)] = g /\ Top' = g

LEMMA SetTopRetops ==
  ASSUME Typed, mode # "idle", NEW g \in FrameType, stack' = SetTop(g)
  PROVE  Retopped(g)
<1>1. stack \in Seq(FrameType) /\ Len(stack) \in Nat \ {0}
  BY Stacks DEF Typed
<1>2. /\ stack' \in Seq(FrameType) /\ Len(stack') = Len(stack) /\ stack' # <<>>
      /\ stack'[Len(stack)] = g /\ \A d \in 1 .. Len(stack) - 1 : stack'[d] = stack[d]
  <2> DEFINE s == stack
             r == [s EXCEPT ![Len(s)] = g]
  <2>1. s \in Seq(FrameType) /\ Len(s) \in Nat \ {0}
    BY <1>1
  <2>2. stack' = r
    BY DEF SetTop
  <2>3. /\ r \in Seq(FrameType) /\ Len(r) = Len(s) /\ r # <<>> /\ r[Len(s)] = g
        /\ \A d \in 1 .. Len(s) - 1 : r[d] = s[d]
    <3> HIDE DEF s
    <3> QED BY <2>1
  <2> HIDE DEF r
  <2> QED BY <2>2, <2>3
<1>3. DOMAIN stack' = DOMAIN stack
  <2>1. DOMAIN stack' = 1 .. Len(stack')
    BY <1>2, SeqTyped, Zenon
  <2> QED BY <1>1, <1>2, <2>1, SeqTyped, Zenon
<1> QED BY <1>2, <1>3 DEF Retopped, Top
-----------------------------------------------------------------------------
Structure == Control /\ Depths /\ NoReentry /\ SpansExact

(* Steps that leave the stack as it is. *)
LEMMA SameStack ==
  ASSUME IInv, UNCHANGED <<setup, stack>>,
         mode' \in {"tick", "exec"} => mode \in {"tick", "exec"},
         mode' = "go" => mode = "go", mode = "panic" => mode' = "panic"
  PROVE  Structure'
<1>1. Top' = Top /\ Fn' = Fn /\ Recursion' = Recursion
  BY DEF Top, Fn, Recursion
<1>2. Control'
  BY <1>1 DEF IInv, Control
<1>3. Depths' /\ NoReentry'
  BY <1>1 DEF IInv, Depths, NoReentry
<1>4. SpansExact'
  BY DEF IInv, SpansExact
<1> QED BY <1>2, <1>3, <1>4 DEF Structure

(* Steps that change the top frame: its iterators, or that it begins. *)
LEMMA RetoppedStructure ==
  ASSUME IInv, NEW g \in FrameType, Retopped(g), setup' = setup,
         mode \notin {"idle", "panic"},
         g.fn = Top.fn, g.span = Top.span,
         g.begun = Top.begun \/ (g.begun = TRUE /\ (g.fn = "go" \/ ~Rejected)),
         mode' \in {"tick", "exec"} => g.begun /\ g.fn # "go",
         mode' = "go" => g.begun /\ g.fn = "go"
  PROVE  Structure'
<1> DEFINE n == Len(stack)
<1>1. /\ Typed /\ Fn' = Fn /\ Recursion' = Recursion
      /\ n \in Nat \ {0} /\ DOMAIN stack = 1 .. n /\ Top = stack[n]
      /\ Len(stack') = n /\ DOMAIN stack' = 1 .. n
  BY Stacks, SMTT(60) DEF IInv, Fn, Recursion, Retopped
<1>2. \A d \in 1 .. n : IF d = n THEN stack'[d] = g ELSE stack'[d] = stack[d] /\ d \in 1 .. n - 1
  <2>1. \A d \in 1 .. n : d = n \/ d \in 1 .. n - 1
    <3> HIDE DEF n
    <3> QED BY <1>1, SMTT(60)
  <2> QED BY <1>1, <2>1, ZenonT(60) DEF Retopped
<1>3. \A d \in 1 .. n : stack'[d].fn = stack[d].fn /\ stack'[d].span = stack[d].span
  BY <1>1, <1>2
<1>4. Control'
  BY <1>1, <1>2 DEF IInv, Control, Retopped
<1>5. Depths'
  <2> SUFFICES ASSUME Recursion, NEW d \in 1 .. n
               PROVE  /\ d <= setup.depth + setup.goChain + 1
                      /\ stack'[d].fn = "go" => d <= setup.depth + setup.goChain
                      /\ stack'[d].fn # "go" /\ stack'[d].begun => d <= setup.depth
    BY <1>1 DEF Depths
  <2>1. /\ d <= setup.depth + setup.goChain + 1
        /\ stack[d].fn = "go" => d <= setup.depth + setup.goChain
        /\ stack[d].fn # "go" /\ stack[d].begun => d <= setup.depth
    BY <1>1 DEF IInv, Depths
  <2>2. CASE stack'[d].begun = stack[d].begun
    BY <1>3, <2>1, <2>2
  <2>3. CASE stack'[d].begun # stack[d].begun
    <3>1. d = n /\ (g.fn = "go" \/ ~Rejected)
      BY <1>1, <1>2, <2>3
    <3>2. ~Rejected => n <= setup.depth
      BY <1>1 DEF Rejected, Typed, Setup
    <3> QED BY <1>2, <1>3, <2>1, <3>1, <3>2, SMTT(60)
  <2> QED BY <2>2, <2>3
<1>6. NoReentry'
  <2> SUFFICES ASSUME ~Recursion, NEW d \in 1 .. n, NEW e \in 1 .. n,
                      stack'[d].begun, stack'[e].begun,
                      stack'[d].fn = stack'[e].fn, stack'[d].fn # "go"
               PROVE  d = e
    BY <1>1 DEF NoReentry
  <2>1. CASE stack[d].begun /\ stack[e].begun
    BY <1>1, <1>3, <2>1 DEF IInv, NoReentry
  <2>2. CASE ~(stack[d].begun /\ stack[e].begun)
    <3>1. (d = n \/ e = n) /\ ~Rejected
      BY <1>1, <1>2, <1>3, <2>2, ZenonT(60)
    <3>2. \A c \in 1 .. n - 1 : stack[c].fn # Top.fn
      BY <3>1 DEF Rejected
    <3>3. \A c \in 1 .. n : c # n => stack[c].fn # stack[n].fn
      BY <1>1, <1>2, <3>2
    <3>4. stack[d].fn = stack[e].fn
      BY <1>3
    <3> QED BY <3>1, <3>3, <3>4, SMTT(60)
  <2> QED BY <2>1, <2>2
<1>7. SpansExact'
  BY <1>1, <1>3 DEF IInv, SpansExact
<1> QED BY <1>4, <1>5, <1>6, <1>7 DEF Structure

(* A call: the frame that makes it waits, a frame that has not begun is on *)
(* top.                                                                    *)
Pushes(f) ==
  LET n == Len(stack)
  IN  /\ stack' \in Seq(FrameType) /\ Len(stack') = n + 1 /\ stack' # <<>>
      /\ DOMAIN stack' = 1 .. n + 1
      /\ \A d \in 1 .. n :
           /\ stack'[d].fn = stack[d].fn /\ stack'[d].begun = stack[d].begun
           /\ stack'[d].iters = stack[d].iters
           /\ stack'[d].span <=> stack[d].fn = "go"
           /\ Fits(stack'[d])
      /\ stack'[n + 1] = Frame(f) /\ Top' = Frame(f)

LEMMA PushedStructure ==
  ASSUME IInv, NEW f \in Fn \cup {"go"}, Pushes(f), setup' = setup, mode' = "enter",
         mode \in {"idle", "exec", "go"},
         f = "go" => (mode = "go" => ~GoChainFull)
  PROVE  Structure'
<1> DEFINE n == Len(stack)
<1>1. /\ Typed /\ Fn' = Fn /\ Recursion' = Recursion
      /\ n \in Nat /\ DOMAIN stack = 1 .. n
      /\ mode # "idle" => n \in Nat \ {0} /\ Top = stack[n]
      /\ setup.depth \in Nat /\ setup.goChain \in Nat \ {0}
  BY Stacks DEF IInv, Fn, Recursion, Typed, Setup
<1>2. /\ Len(stack') = n + 1 /\ DOMAIN stack' = 1 .. n + 1 /\ stack'[n + 1] = Frame(f)
      /\ \A d \in 1 .. n : /\ stack'[d].fn = stack[d].fn /\ stack'[d].begun = stack[d].begun
                           /\ stack'[d].span <=> stack[d].fn = "go"
  BY DEF Pushes
<1>3. Frame(f).fn = f /\ Frame(f).begun = FALSE /\ Frame(f).span = TRUE
  BY DEF Frame
<1>4. \A d \in 1 .. n : stack[d].begun
  <2>1. mode = "idle" => n = 0
    BY <1>1 DEF Typed
  <2>2. mode # "idle" => Top.begun
    BY DEF IInv, Control
  <2>3. n \in Nat /\ \A d \in 1 .. n : n # 0 /\ (d = n \/ d \in 1 .. n - 1)
    <3>1. n \in Nat
      BY <1>1
    <3> HIDE DEF n
    <3> QED BY <3>1
  <2>4. \A d \in 1 .. n - 1 : stack[d].begun
    BY DEF IInv, Control
  <2> HIDE DEF n
  <2> QED BY <1>1, <2>1, <2>2, <2>3, <2>4
<1>5. \A d \in 1 .. n + 1 : d = n + 1 \/ d \in 1 .. n
  BY <1>1
<1>6. Control'
  BY <1>1, <1>2, <1>4 DEF Control
<1>7. Depths'
  <2> SUFFICES ASSUME Recursion, NEW d \in 1 .. n + 1
               PROVE  /\ d <= setup.depth + setup.goChain + 1
                      /\ stack'[d].fn = "go" => d <= setup.depth + setup.goChain
                      /\ stack'[d].fn # "go" /\ stack'[d].begun => d <= setup.depth
    BY <1>1, <1>2 DEF Depths
  <2>1. \A e \in 1 .. n : /\ stack[e].fn = "go" => e <= setup.depth + setup.goChain
                          /\ stack[e].fn # "go" => e <= setup.depth
    BY <1>1, <1>4 DEF IInv, Depths
  <2>2. CASE d \in 1 .. n
    BY <1>1, <1>2, <1>4, <2>1, <2>2 DEF IInv, Depths
  <2>3. CASE d = n + 1
    <3>1. d <= setup.depth + setup.goChain + 1
      <4>1. n = 0 \/ n \in 1 .. n
        BY <1>1
      <4> QED BY <1>1, <2>1, <2>3, <4>1
    <3>2. f = "go" => d <= setup.depth + setup.goChain
      <4> SUFFICES ASSUME f = "go" PROVE n + 1 <= setup.depth + setup.goChain
        BY <2>3
      <4>1. CASE mode = "idle"
        <5>1. n = 0
          BY <1>1, <4>1 DEF Typed
        <5> QED BY <1>1, <5>1
      <4>2. CASE mode = "exec"
        <5>1. Top.fn # "go" /\ n \in 1 .. n
          BY <1>1, <4>2 DEF IInv, Control
        <5> QED BY <1>1, <2>1, <4>2, <5>1
      <4>3. CASE mode = "go"
        <5>1. PICK e \in 0 .. setup.goChain - 1 : ~(e < n /\ stack[n - e].fn = "go")
          BY <4>3 DEF GoChainFull
        <5>2. CASE ~(e < n)
          BY <1>1, <5>1, <5>2
        <5>3. CASE e < n
          <6>1. n - e \in 1 .. n /\ stack[n - e].fn # "go"
            BY <1>1, <5>1, <5>3
          <6>2. n - e <= setup.depth
            BY <2>1, <6>1
          <6> QED BY <1>1, <5>1, <6>2
        <5> QED BY <5>2, <5>3
      <4> QED BY <4>1, <4>2, <4>3
    <3> QED BY <1>2, <1>3, <2>3, <3>1, <3>2
  <2> QED BY <1>5, <2>2, <2>3
<1>8. NoReentry'
  BY <1>1, <1>2, <1>3, <1>5 DEF IInv, NoReentry
<1>9. SpansExact'
  <2>1. \A d \in 1 .. n : d # n + 1
    BY <1>1
  <2> QED BY <1>2, <1>3, <1>5, <2>1 DEF SpansExact
<1> QED BY <1>6, <1>7, <1>8, <1>9 DEF Structure

(* A return: the frame below the top resumes. *)
Pops ==
  LET n == Len(stack) - 1
  IN  /\ stack' \in Seq(FrameType) /\ Len(stack') = n /\ DOMAIN stack' = 1 .. n
      /\ \A d \in 1 .. n :
           /\ stack'[d].fn = stack[d].fn /\ stack'[d].begun = stack[d].begun
           /\ stack'[d].iters = stack[d].iters /\ stack'[d].calls = stack[d].calls
           /\ (d < n \/ mode = "panic") => stack'[d].span = stack[d].span
           /\ ~(d < n \/ mode = "panic") => stack'[d].span = TRUE

LEMMA PoppedPops ==
  ASSUME Typed, mode \in {"ret", "err", "panic"}, stack' = Popped
  PROVE  Pops
<1> DEFINE n == Len(stack) - 1
           F(d) == IF d < n \/ mode = "panic" THEN stack[d] ELSE [stack[d] EXCEPT !.span = TRUE]
<1>1. n \in Nat /\ \A d \in 1 .. n : stack[d] \in FrameType
  BY Stacks
<1>2. stack' = [d \in 1 .. n |-> F(d)]
  BY DEF Popped
<1>3. \A d \in 1 .. n : /\ F(d) \in FrameType
                        /\ F(d).fn = stack[d].fn /\ F(d).begun = stack[d].begun
                        /\ F(d).iters = stack[d].iters /\ F(d).calls = stack[d].calls
                        /\ (d < n \/ mode = "panic") => F(d).span = stack[d].span
                        /\ ~(d < n \/ mode = "panic") => F(d).span = TRUE
  <2> HIDE DEF n
  <2> QED BY <1>1 DEF FrameType
<1> HIDE DEF n, F
<1>4. stack' \in [1 .. n -> FrameType]
  BY <1>2, <1>3
<1>5. stack' \in Seq(FrameType) /\ DOMAIN stack' = 1 .. n
  BY <1>1, <1>4, SeqDef
<1>6. Len(stack') = n
  <2>1. DOMAIN stack' = 1 .. Len(stack') /\ Len(stack') \in Nat
    BY <1>5, SeqTyped, Zenon
  <2>2. 1 .. Len(stack') = 1 .. n
    BY <1>5, <2>1
  <2> QED BY <1>1, <1>5, <2>1, <2>2
<1>7. \A d \in 1 .. n : stack'[d] = F(d)
  BY <1>2
<1> QED BY <1>3, <1>5, <1>6, <1>7 DEF Pops, n

LEMMA PoppedStructure ==
  ASSUME IInv, Pops, setup' = setup, mode \in {"ret", "err", "panic"}, mode' \in Resumptions
  PROVE  Structure' /\ mode' \in Modes /\ (mode' = "idle" <=> stack' = <<>>)
<1> DEFINE n == Len(stack) - 1
<1>1. /\ Typed /\ Fn' = Fn /\ Recursion' = Recursion /\ n \in Nat
      /\ DOMAIN stack = 1 .. n + 1 /\ Len(stack) = n + 1
      /\ \A d \in 1 .. n : d \in 1 .. n + 1
  BY Stacks DEF IInv, Fn, Recursion
<1>2. /\ stack' \in Seq(FrameType) /\ Len(stack') = n /\ DOMAIN stack' = 1 .. n
      /\ \A d \in 1 .. n :
           /\ stack'[d].fn = stack[d].fn /\ stack'[d].begun = stack[d].begun
           /\ (d < n \/ mode = "panic") => stack'[d].span = stack[d].span
           /\ ~(d < n \/ mode = "panic") => stack'[d].span = TRUE
  BY DEF Pops
<1>3. \A d \in 1 .. n : stack[d].begun
  BY DEF IInv, Control
<1>4. /\ mode' = "idle" <=> n = 0
      /\ mode' \in {"idle", "panic", "err", "go", "tick"}
      /\ mode' = "go" => n # 0 /\ stack[n].fn = "go"
      /\ mode' = "tick" => n # 0 /\ stack[n].fn # "go"
      /\ mode = "panic" => mode' \in {"panic", "idle"}
  <2>1. Len(stack) = 1 <=> n = 0
    BY <1>1
  <2> HIDE DEF n
  <2>2. CASE n = 0
    BY <2>1, <2>2 DEF Resumptions
  <2>3. CASE n # 0 /\ stack[n].fn = "go"
    BY <2>1, <2>3 DEF Resumptions, n
  <2>4. CASE n # 0 /\ stack[n].fn # "go"
    BY <2>1, <2>4 DEF Resumptions, n
  <2> QED BY <2>2, <2>3, <2>4
<1> HIDE DEF n
<1>5. mode' \in Modes /\ (mode' = "idle" <=> stack' = <<>>)
  <2>1. stack' = <<>> <=> Len(stack') = 0
    <3> DEFINE q == stack'
    <3>1. q \in Seq(FrameType)
      BY <1>2
    <3> HIDE DEF q
    <3>2. q = <<>> <=> Len(q) = 0
      BY <3>1
    <3> QED BY <3>2 DEF q
  <2> QED BY <1>2, <1>4, <2>1 DEF Modes
<1>6. n # 0 => n \in 1 .. n /\ Top' = stack'[n]
  BY <1>1, <1>2 DEF Top
<1>7. Control'
  <2>1. \A d \in 1 .. n : stack'[d].begun
    BY <1>2, <1>3
  <2>2. \A d \in 1 .. n - 1 : d \in 1 .. n
    BY <1>1
  <2>3. mode' \in {"tick", "exec"} => Top'.fn # "go" /\ Top'.begun
    BY <1>2, <1>4, <1>6, <2>1
  <2>4. mode' = "go" => Top'.fn = "go" /\ Top'.begun
    BY <1>2, <1>4, <1>6, <2>1
  <2> QED BY <1>2, <2>1, <2>2, <2>3, <2>4 DEF Control
<1>8. Depths'
  <2>1. Recursion =>
          \A d \in 1 .. n :
            /\ d <= setup.depth + setup.goChain + 1
            /\ stack[d].fn = "go" => d <= setup.depth + setup.goChain
            /\ stack[d].fn # "go" /\ stack[d].begun => d <= setup.depth
    <3>1. \A d \in 1 .. n : d \in DOMAIN stack
      BY <1>1
    <3> QED BY <3>1 DEF IInv, Depths
  <2> SUFFICES ASSUME Recursion, NEW d \in 1 .. n
               PROVE  /\ d <= setup.depth + setup.goChain + 1
                      /\ stack'[d].fn = "go" => d <= setup.depth + setup.goChain
                      /\ stack'[d].fn # "go" /\ stack'[d].begun => d <= setup.depth
    BY <1>1, <1>2 DEF Depths
  <2>2. stack'[d].fn = stack[d].fn /\ stack'[d].begun = stack[d].begun
    BY <1>2
  <2> QED BY <2>1, <2>2
<1>9. NoReentry'
  BY <1>1, <1>2 DEF IInv, NoReentry
<1>10. SpansExact'
  <2> SUFFICES ASSUME mode # "panic", NEW d \in 1 .. n
               PROVE  stack'[d].span <=> d = n \/ stack'[d].fn = "go"
    BY <1>2, <1>4 DEF SpansExact
  <2>1. stack[d].span <=> stack[d].fn = "go"
    <3>1. d \in DOMAIN stack /\ d # Len(stack)
      BY <1>1
    <3> QED BY <3>1 DEF IInv, SpansExact
  <2>2. d < n \/ d = n
    BY <1>1
  <2>3. CASE d < n
    <3>1. stack'[d].span = stack[d].span /\ stack'[d].fn = stack[d].fn /\ d # n
      BY <1>1, <1>2, <2>3
    <3> QED BY <2>1, <3>1
  <2>4. CASE d = n
    <3>1. stack'[d].span = TRUE
      BY <1>1, <1>2, <2>4
    <3> QED BY <2>4, <3>1
  <2> QED BY <2>2, <2>3, <2>4
<1> QED BY <1>5, <1>7, <1>8, <1>9, <1>10 DEF Structure
-----------------------------------------------------------------------------
(* The iterators over c on a stack s whose frames hold at most m each. *)
Iterating(s, m, c) ==
  {p \in (DOMAIN s) \X (1 .. m) : p[2] \in DOMAIN s[p[1]].iters /\ s[p[1]].iters[p[2]] = c}

LEMMA ActiveIterating ==
  ASSUME NEW c
  PROVE  /\ Active(c) = Iterating(stack, setup.iters, c)
         /\ Active(c)' = Iterating(stack', setup'.iters, c)
BY DEF Active, Iterating

LEMMA IteratingPairs ==
  ASSUME NEW s, NEW m, NEW c
  PROVE  /\ \A p \in Iterating(s, m, c) : p = <<p[1], p[2]>>
         /\ \A d, j : <<d, j>> \in Iterating(s, m, c)
                        <=> /\ d \in DOMAIN s /\ j \in 1 .. m
                            /\ j \in DOMAIN s[d].iters /\ s[d].iters[j] = c
BY DEF Iterating

LEMMA PairsEqual ==
  ASSUME NEW A, NEW B, \A p \in A \cup B : p = <<p[1], p[2]>>,
         \A d, j : <<d, j>> \in A <=> <<d, j>> \in B
  PROVE  A = B
<1>1. \A p \in A : p \in B
  <2> TAKE p \in A
  <2>1. p = <<p[1], p[2]>>
    OBVIOUS
  <2>2. <<p[1], p[2]>> \in B
    BY <2>1
  <2> QED BY <2>1, <2>2
<1>2. \A p \in B : p \in A
  <2> TAKE p \in B
  <2>1. p = <<p[1], p[2]>>
    OBVIOUS
  <2>2. <<p[1], p[2]>> \in A
    BY <2>1
  <2> QED BY <2>1, <2>2
<1> QED BY <1>1, <1>2

LEMMA IteratingFinite ==
  ASSUME NEW T, NEW s \in Seq(T), NEW m \in Nat, NEW c
  PROVE  IsFiniteSet(Iterating(s, m, c)) /\ Cardinality(Iterating(s, m, c)) \in Nat
<1>1. Len(s) \in Nat /\ DOMAIN s = 1 .. Len(s)
  BY SeqTyped
<1>2. IsFiniteSet(DOMAIN s) /\ IsFiniteSet(1 .. m)
  <2>1. IsFiniteSet(1 .. Len(s)) /\ IsFiniteSet(1 .. m)
    BY <1>1, FS_Interval
  <2> QED BY <1>1, <2>1
<1>3. IsFiniteSet((DOMAIN s) \X (1 .. m))
  BY <1>2, FS_Product
<1>4. Iterating(s, m, c) \in SUBSET ((DOMAIN s) \X (1 .. m))
  BY DEF Iterating
<1>5. IsFiniteSet(Iterating(s, m, c))
  BY <1>3, <1>4, FS_Subset
<1> QED BY <1>5, FS_CardinalityType

(* The iterators of s and r differ in frame n at most, where s has q. *)
DifferAt(s, r, m, n, q) ==
  /\ s \in Seq(FrameType) /\ m \in Nat /\ n \in DOMAIN s /\ DOMAIN r = DOMAIN s
  /\ \A d \in DOMAIN s : d # n => r[d].iters = s[d].iters
  /\ s[n].iters = q /\ q \in Seq(Coll) /\ Len(q) <= m

AddsAt(s, r, m, n, q, x) ==
  DifferAt(s, r, m, n, q) /\ x \in Coll /\ r[n].iters = Append(q, x) /\ Len(q) < m

(* An iterator begins, or the last to begin ends, in frame n. *)
LEMMA IteratorAdded ==
  ASSUME NEW s, NEW r, NEW m, NEW n, NEW q, NEW x, AddsAt(s, r, m, n, q, x), NEW c
  PROVE  /\ c # x => Iterating(r, m, c) = Iterating(s, m, c)
         /\ c = x => Cardinality(Iterating(r, m, c)) = Cardinality(Iterating(s, m, c)) + 1
<1> DEFINE I == Iterating(s, m, c)
           J == Iterating(r, m, c)
           k == Len(q) + 1
<1>0. /\ s \in Seq(FrameType) /\ m \in Nat /\ n \in DOMAIN s /\ DOMAIN r = DOMAIN s
      /\ \A d \in DOMAIN s : d # n => r[d].iters = s[d].iters
      /\ s[n].iters = q /\ q \in Seq(Coll)
      /\ x \in Coll /\ r[n].iters = Append(q, x) /\ Len(q) < m
  BY DEF AddsAt, DifferAt
<1>1. /\ \A p \in I \cup J : p = <<p[1], p[2]>>
      /\ \A d, j : <<d, j>> \in I <=> /\ d \in DOMAIN s /\ j \in 1 .. m
                                      /\ j \in DOMAIN s[d].iters /\ s[d].iters[j] = c
      /\ \A d, j : <<d, j>> \in J <=> /\ d \in DOMAIN s /\ j \in 1 .. m
                                      /\ j \in DOMAIN r[d].iters /\ r[d].iters[j] = c
  BY <1>0, IteratingPairs
<1>2. /\ k \in 1 .. m /\ k \notin DOMAIN q
      /\ DOMAIN Append(q, x) = DOMAIN q \cup {k} /\ Append(q, x)[k] = x
      /\ \A j \in DOMAIN q : Append(q, x)[j] = q[j]
  BY <1>0
<1> HIDE DEF k
<1>3. \A d, j : <<d, j>> \in J <=> <<d, j>> \in I \/ (d = n /\ j = k /\ c = x)
  <2> SUFFICES ASSUME NEW d, NEW j
               PROVE  <<d, j>> \in J <=> <<d, j>> \in I \/ (d = n /\ j = k /\ c = x)
    OBVIOUS
  <2>1. CASE d \in DOMAIN s /\ d # n
    <3>1. r[d].iters = s[d].iters /\ d \in DOMAIN r
      BY <1>0, <2>1
    <3> QED BY <1>1, <2>1, <3>1
  <2>2. CASE d = n
    <3>1. /\ k \in 1 .. m /\ k \notin DOMAIN s[d].iters
          /\ DOMAIN r[d].iters = DOMAIN s[d].iters \cup {k} /\ r[d].iters[k] = x
          /\ \A i \in DOMAIN s[d].iters : r[d].iters[i] = s[d].iters[i]
      BY <1>0, <1>2, <2>2, Zenon
    <3>2. CASE j = k
      BY <1>0, <1>1, <2>2, <3>1, <3>2
    <3>3. CASE j # k
      BY <1>0, <1>1, <2>2, <3>1, <3>3
    <3> QED BY <3>2, <3>3
  <2>3. CASE d \notin DOMAIN s
    BY <1>0, <1>1, <2>3
  <2> QED BY <2>1, <2>2, <2>3
<1>4. <<n, k>> \notin I
  BY <1>0, <1>1, <1>2
<1> HIDE DEF I, J
<1>5. c # x => J = I
  <2> SUFFICES ASSUME c # x PROVE J = I
    OBVIOUS
  <2>1. \A d, j : <<d, j>> \in J <=> <<d, j>> \in I
    BY <1>3
  <2> QED BY <1>1, <2>1, PairsEqual
<1>6. c = x => J = I \cup {<<n, k>>}
  <2> SUFFICES ASSUME c = x PROVE J = I \cup {<<n, k>>}
    OBVIOUS
  <2>1. \A d, j : <<d, j>> \in J <=> <<d, j>> \in I \cup {<<n, k>>}
    <3> TAKE d, j
    <3>1. <<d, j>> = <<n, k>> <=> d = n /\ j = k
      OBVIOUS
    <3>2. <<d, j>> \in J <=> <<d, j>> \in I \/ (d = n /\ j = k)
      BY <1>3
    <3> QED BY <3>1, <3>2
  <2>2. \A p \in J \cup (I \cup {<<n, k>>}) : p = <<p[1], p[2]>>
    BY <1>1
  <2> QED BY <2>1, <2>2, PairsEqual
<1>7. IsFiniteSet(I)
  BY <1>0, IteratingFinite DEF I
<1>8. Cardinality(I \cup {<<n, k>>}) = Cardinality(I) + 1
  BY <1>4, <1>7, FS_AddElement
<1> QED BY <1>5, <1>6, <1>8 DEF I, J

LEMMA IteratorRemoved ==
  ASSUME NEW s, NEW r, NEW m, NEW n, NEW q, NEW x, DifferAt(s, r, m, n, q), q # <<>>,
         r[n].iters = SubSeq(q, 1, Len(q) - 1), x = q[Len(q)], NEW c
  PROVE  /\ c # x => Iterating(r, m, c) = Iterating(s, m, c)
         /\ c = x => /\ Cardinality(Iterating(r, m, c)) = Cardinality(Iterating(s, m, c)) - 1
                     /\ Cardinality(Iterating(s, m, c)) \in Nat \ {0}
<1> DEFINE I == Iterating(s, m, c)
           J == Iterating(r, m, c)
           k == Len(q)
<1>0. /\ s \in Seq(FrameType) /\ m \in Nat /\ n \in DOMAIN s /\ DOMAIN r = DOMAIN s
      /\ \A d \in DOMAIN s : d # n => r[d].iters = s[d].iters
      /\ s[n].iters = q /\ q \in Seq(Coll) /\ Len(q) <= m
  BY DEF DifferAt
<1>1. /\ \A p \in I \cup J : p = <<p[1], p[2]>>
      /\ \A d, j : <<d, j>> \in I <=> /\ d \in DOMAIN s /\ j \in 1 .. m
                                      /\ j \in DOMAIN s[d].iters /\ s[d].iters[j] = c
      /\ \A d, j : <<d, j>> \in J <=> /\ d \in DOMAIN s /\ j \in 1 .. m
                                      /\ j \in DOMAIN r[d].iters /\ r[d].iters[j] = c
  BY <1>0, IteratingPairs
<1>2. LET b == SubSeq(q, 1, k - 1)
      IN  /\ k \in 1 .. m /\ k \in DOMAIN q /\ DOMAIN b = DOMAIN q \ {k}
          /\ \A j \in DOMAIN b : b[j] = q[j]
  BY <1>0
<1> HIDE DEF k
<1>3. \A d, j : <<d, j>> \in J <=> <<d, j>> \in I /\ ~(d = n /\ j = k)
  <2> SUFFICES ASSUME NEW d, NEW j
               PROVE  <<d, j>> \in J <=> <<d, j>> \in I /\ ~(d = n /\ j = k)
    OBVIOUS
  <2>1. CASE d \in DOMAIN s /\ d # n
    <3>1. r[d].iters = s[d].iters /\ d \in DOMAIN r
      BY <1>0, <2>1
    <3> QED BY <1>1, <2>1, <3>1
  <2>2. CASE d = n
    <3>1. /\ DOMAIN r[d].iters = DOMAIN s[d].iters \ {k}
          /\ \A i \in DOMAIN r[d].iters : r[d].iters[i] = s[d].iters[i]
      BY <1>0, <1>2, <2>2, Zenon DEF k
    <3>2. CASE j = k
      BY <1>0, <1>1, <2>2, <3>1, <3>2
    <3>3. CASE j # k
      BY <1>0, <1>1, <2>2, <3>1, <3>3
    <3> QED BY <3>2, <3>3
  <2>3. CASE d \notin DOMAIN s
    BY <1>0, <1>1, <2>3
  <2> QED BY <2>1, <2>2, <2>3
<1>4. <<n, k>> \in I <=> c = x
  BY <1>0, <1>1, <1>2
<1> HIDE DEF I, J
<1>5. J = I \ {<<n, k>>}
  <2>1. \A d, j : <<d, j>> \in J <=> <<d, j>> \in I \ {<<n, k>>}
    <3> TAKE d, j
    <3>1. <<d, j>> = <<n, k>> <=> d = n /\ j = k
      OBVIOUS
    <3>2. <<d, j>> \in J <=> <<d, j>> \in I /\ ~(d = n /\ j = k)
      BY <1>3
    <3> QED BY <3>1, <3>2
  <2>2. \A p \in J \cup (I \ {<<n, k>>}) : p = <<p[1], p[2]>>
    BY <1>1
  <2> QED BY <2>1, <2>2, PairsEqual
<1>7. IsFiniteSet(I) /\ Cardinality(I) \in Nat
  BY <1>0, IteratingFinite DEF I
<1>8. Cardinality(I \ {<<n, k>>}) = IF <<n, k>> \in I THEN Cardinality(I) - 1 ELSE Cardinality(I)
  BY <1>7, FS_RemoveElement
<1>9. c # x => J = I
  BY <1>4, <1>5
<1>10. c = x => Cardinality(J) = Cardinality(I) - 1
  BY <1>4, <1>5, <1>8
<1>11. c = x => Cardinality(I) # 0
  BY <1>4, <1>7, FS_EmptySet
<1> QED BY <1>7, <1>9, <1>10, <1>11 DEF I, J, k

(* Frames N without iterators make no difference. *)
GainsIdle(s, r, N) ==
  /\ DOMAIN r = (DOMAIN s) \cup N /\ N \cap DOMAIN s = {}
  /\ \A d \in DOMAIN s : r[d].iters = s[d].iters
  /\ \A d \in N : r[d].iters = <<>>

LEMMA IteratorsKept ==
  ASSUME NEW s, NEW r, NEW N, GainsIdle(s, r, N), NEW m, NEW c
  PROVE  Iterating(r, m, c) = Iterating(s, m, c)
<1> DEFINE I == Iterating(s, m, c)
           J == Iterating(r, m, c)
<1>0. /\ DOMAIN r = (DOMAIN s) \cup N /\ N \cap DOMAIN s = {}
      /\ \A d \in DOMAIN s : r[d].iters = s[d].iters
      /\ \A d \in N : r[d].iters = <<>>
  BY DEF GainsIdle
<1>1. /\ \A p \in I \cup J : p = <<p[1], p[2]>>
      /\ \A d, j : <<d, j>> \in I <=> /\ d \in DOMAIN s /\ j \in 1 .. m
                                      /\ j \in DOMAIN s[d].iters /\ s[d].iters[j] = c
      /\ \A d, j : <<d, j>> \in J <=> /\ d \in DOMAIN r /\ j \in 1 .. m
                                      /\ j \in DOMAIN r[d].iters /\ r[d].iters[j] = c
  BY IteratingPairs
<1>2. DOMAIN <<>> = {}
  OBVIOUS
<1>3. \A d, j : <<d, j>> \in J <=> <<d, j>> \in I
  <2> TAKE d, j
  <2>1. CASE d \in DOMAIN s
    BY <1>0, <1>1, <2>1
  <2>2. CASE d \in N
    <3>1. r[d].iters = <<>> /\ d \notin DOMAIN s
      BY <1>0, <2>2
    <3> QED BY <1>1, <1>2, <3>1
  <2>3. CASE d \notin DOMAIN s /\ d \notin N
    BY <1>0, <1>1, <2>3
  <2> QED BY <2>1, <2>2, <2>3
<1> HIDE DEF I, J
<1>4. J = I
  BY <1>1, <1>3, PairsEqual
<1> QED BY <1>4 DEF I, J

(* Frame n is popped, with the iterators it holds. *)
LosesFrame(s, r, m, n) ==
  /\ s \in Seq(FrameType) /\ r \in Seq(FrameType) /\ m \in Nat /\ n \in DOMAIN s
  /\ DOMAIN r = DOMAIN s \ {n} /\ \A d \in DOMAIN r : r[d].iters = s[d].iters
  /\ s[n].iters \in Seq(Coll) /\ Len(s[n].iters) <= m

LEMMA IteratorsPopped ==
  ASSUME NEW s, NEW r, NEW m, NEW n, LosesFrame(s, r, m, n), NEW c
  PROVE  LET H == {j \in DOMAIN s[n].iters : s[n].iters[j] = c}
         IN  /\ Cardinality(H) \in Nat
             /\ Cardinality(Iterating(s, m, c)) = Cardinality(Iterating(r, m, c)) + Cardinality(H)
<1> DEFINE I == Iterating(s, m, c)
           J == Iterating(r, m, c)
           q == s[n].iters
           H == {j \in DOMAIN s[n].iters : s[n].iters[j] = c}
           K == {n} \X H
<1>0. /\ s \in Seq(FrameType) /\ r \in Seq(FrameType) /\ m \in Nat /\ n \in DOMAIN s
      /\ DOMAIN r = DOMAIN s \ {n} /\ \A d \in DOMAIN r : r[d].iters = s[d].iters
      /\ s[n].iters \in Seq(Coll) /\ Len(s[n].iters) <= m
  BY DEF LosesFrame
<1>1. /\ \A p \in I \cup J \cup K : p = <<p[1], p[2]>>
      /\ \A d, j : <<d, j>> \in I <=> /\ d \in DOMAIN s /\ j \in 1 .. m
                                      /\ j \in DOMAIN s[d].iters /\ s[d].iters[j] = c
      /\ \A d, j : <<d, j>> \in J <=> /\ d \in DOMAIN r /\ j \in 1 .. m
                                      /\ j \in DOMAIN r[d].iters /\ r[d].iters[j] = c
  <2>1. \A p \in K : p = <<p[1], p[2]>>
    OBVIOUS
  <2> QED BY <2>1, IteratingPairs
<1>2. DOMAIN s[n].iters \subseteq 1 .. m /\ IsFiniteSet(DOMAIN s[n].iters)
  <2>1. q \in Seq(Coll) /\ Len(q) <= m
    BY <1>0
  <2>2. DOMAIN q = 1 .. Len(q) /\ Len(q) \in Nat
    BY <2>1, SeqTyped, Zenon
  <2>3. IsFiniteSet(1 .. Len(q))
    BY <2>2, FS_Interval
  <2> HIDE DEF q
  <2>4. DOMAIN q \subseteq 1 .. m /\ IsFiniteSet(DOMAIN q)
    BY <1>0, <2>1, <2>2, <2>3
  <2> QED BY <2>4 DEF q
<1>3. H \in SUBSET DOMAIN s[n].iters
  OBVIOUS
<1>4. IsFiniteSet(H) /\ Cardinality(H) \in Nat
  BY <1>2, <1>3, FS_Subset, FS_CardinalityType
<1>5. \A d, j : <<d, j>> \in K <=> /\ d = n /\ j \in DOMAIN s[n].iters /\ s[n].iters[j] = c
  OBVIOUS
<1>6. \A d, j : <<d, j>> \in I <=> <<d, j>> \in J \/ <<d, j>> \in K
  <2> SUFFICES ASSUME NEW d, NEW j
               PROVE  <<d, j>> \in I <=> <<d, j>> \in J \/ <<d, j>> \in K
    OBVIOUS
  <2>1. CASE d = n
    <3>1. <<d, j>> \notin J /\ (j \in DOMAIN s[n].iters => j \in 1 .. m)
      BY <1>0, <1>1, <1>2, <2>1
    <3> QED BY <1>0, <1>1, <1>5, <2>1, <3>1
  <2>2. CASE d \in DOMAIN r /\ d # n
    BY <1>0, <1>1, <1>5, <2>2, SMTT(60)
  <2>3. CASE d \notin DOMAIN r /\ d # n
    BY <1>0, <1>1, <1>5, <2>3
  <2> QED BY <2>1, <2>2, <2>3
<1>7. \A d, j : ~(<<d, j>> \in J /\ <<d, j>> \in K)
  BY <1>0, <1>1, <1>5
<1>8. Cardinality(K) = Cardinality(H) /\ IsFiniteSet(K)
  <2>1. IsFiniteSet({n}) /\ Cardinality({n}) = 1
    BY FS_Singleton
  <2>2. IsFiniteSet(K) /\ Cardinality(K) = 1 * Cardinality(H)
    BY <1>4, <2>1, FS_Product
  <2> HIDE DEF H, K
  <2> QED BY <1>4, <2>2
<1>9. IsFiniteSet(J) /\ Cardinality(J) \in Nat
  BY <1>0, IteratingFinite
<1> HIDE DEF I, J, K, H
<1>10. I = J \cup K
  <2>1. \A d, j : <<d, j>> \in I <=> <<d, j>> \in J \cup K
    BY <1>6
  <2>2. \A p \in I \cup (J \cup K) : p = <<p[1], p[2]>>
    BY <1>1
  <2> QED BY <2>1, <2>2, PairsEqual
<1>11. J \cap K = {}
  BY <1>1, <1>7
<1>12. Cardinality(J \cup K) = Cardinality(J) + Cardinality(K) - Cardinality(J \cap K)
  BY <1>8, <1>9, FS_Union
<1>13. Cardinality(J \cap K) = 0
  BY <1>11, FS_EmptySet
<1>14. Cardinality(I) = Cardinality(J) + Cardinality(H)
  BY <1>4, <1>8, <1>9, <1>10, <1>12, <1>13
<1> QED BY <1>4, <1>14 DEF I, J, H
-----------------------------------------------------------------------------
StackTyped == stack \in Seq(FrameType) /\ \A d \in DOMAIN stack : Fits(stack[d])

LEMMA RetoppedTyped ==
  ASSUME Typed, mode # "idle", NEW g \in FrameType, Retopped(g), setup' = setup, Fits(g)
  PROVE  StackTyped'
<1>1. /\ Len(stack) \in Nat \ {0} /\ DOMAIN stack = 1 .. Len(stack)
      /\ \A d \in 1 .. Len(stack) : Fits(stack[d])
  BY Stacks
<1>2. \A d \in 1 .. Len(stack) : d = Len(stack) \/ d \in 1 .. Len(stack) - 1
  <2> DEFINE n == Len(stack)
  <2>1. n \in Nat
    BY <1>1
  <2> HIDE DEF n
  <2>2. \A d \in 1 .. n : d = n \/ d \in 1 .. n - 1
    BY <2>1, SMTT(60)
  <2> QED BY <2>2 DEF n
<1>3. \A d \in 1 .. Len(stack) : Fits(stack'[d])
  BY <1>1, <1>2 DEF Retopped
<1> QED BY <1>1, <1>3 DEF StackTyped, Retopped, Fits, Fn

(* The top frame's iterators, in the form of the lemmas above. *)
LEMMA TopIterators ==
  ASSUME Typed, mode # "idle", NEW g \in FrameType, Retopped(g)
  PROVE  /\ Len(stack) \in DOMAIN stack /\ stack \in Seq(FrameType) /\ setup.iters \in Nat
         /\ DOMAIN stack' = DOMAIN stack
         /\ \A d \in DOMAIN stack : d # Len(stack) => stack'[d].iters = stack[d].iters
         /\ stack[Len(stack)] = Top /\ Top.iters \in Seq(Coll) /\ Len(Top.iters) <= setup.iters
         /\ stack'[Len(stack)] = g
<1>1. /\ Len(stack) \in Nat /\ DOMAIN stack = 1 .. Len(stack) /\ Len(stack) \in DOMAIN stack
      /\ Top = stack[Len(stack)] /\ Top \in FrameType /\ Fits(Top)
  BY Stacks
<1>2. \A d \in DOMAIN stack : d # Len(stack) => d \in 1 .. Len(stack) - 1
  <2> DEFINE n == Len(stack)
  <2>1. n \in Nat /\ DOMAIN stack = 1 .. n
    BY <1>1
  <2> HIDE DEF n
  <2>2. \A d \in 1 .. n : d # n => d \in 1 .. n - 1
    BY <2>1
  <2> QED BY <2>1, <2>2 DEF n
<1>3. Top.iters \in Seq(Coll) /\ Len(Top.iters) <= setup.iters
  BY <1>1 DEF FrameType, Fits
<1> QED BY <1>1, <1>2, <1>3 DEF Retopped, Typed, Setup

LEMMA AddedAccounting ==
  ASSUME IInv, mode # "idle", NEW g \in FrameType, Retopped(g), setup' = setup, NEW x \in Coll,
         ItersAreFew, g.iters = Append(Top.iters, x), Counted(x, 1), UNCHANGED <<frozen, leaked>>
  PROVE  IterAccounting' /\ itercount' \in [Coll -> Nat]
<1> DEFINE q == Top.iters
<1>1. Typed
  BY DEF IInv
<1>2. itercount' \in [Coll -> Nat] /\ itercount \in [Coll -> Nat]
  BY <1>1 DEF Counted, Typed
<1>3. DifferAt(stack, stack', setup.iters, Len(stack), q)
  BY <1>1, TopIterators DEF DifferAt
<1>4. AddsAt(stack, stack', setup.iters, Len(stack), q, x)
  BY <1>1, <1>3, TopIterators DEF AddsAt, ItersAreFew
<1> HIDE DEF q
<1>5. IterAccounting'
  <2> SUFFICES ASSUME NEW c \in Coll, ~frozen[c]
               PROVE  itercount'[c] = Cardinality(Active(c)') + leaked[c]
    BY DEF IterAccounting
  <2>1. /\ c # x => Iterating(stack', setup.iters, c) = Iterating(stack, setup.iters, c)
        /\ c = x => Cardinality(Iterating(stack', setup.iters, c))
                      = Cardinality(Iterating(stack, setup.iters, c)) + 1
    BY <1>4, IteratorAdded
  <2>2. /\ c # x => Active(c)' = Active(c)
        /\ c = x => Cardinality(Active(c)') = Cardinality(Active(c)) + 1
    BY <2>1, ActiveIterating
  <2>3. /\ itercount[c] = Cardinality(Active(c)) + leaked[c]
        /\ itercount'[c] = IF c = x THEN itercount[c] + 1 ELSE itercount[c]
    BY <1>2 DEF IInv, IterAccounting, Counted
  <2>4. Cardinality(Active(c)) \in Nat /\ leaked[c] \in Nat
    BY <1>1, IteratingFinite, ActiveIterating DEF Typed, Setup
  <2> QED BY <2>2, <2>3, <2>4
<1> QED BY <1>2, <1>5

LEMMA RemovedAccounting ==
  ASSUME IInv, mode # "idle", NEW g \in FrameType, Retopped(g), setup' = setup,
         Top.iters # <<>>, Counted(Top.iters[Len(Top.iters)], -1),
         g.iters = SubSeq(Top.iters, 1, Len(Top.iters) - 1), UNCHANGED <<frozen, leaked>>
  PROVE  IterAccounting' /\ itercount' \in [Coll -> Nat]
<1> DEFINE q == Top.iters
           x == q[Len(q)]
<1>1. Typed
  BY DEF IInv
<1>2. DifferAt(stack, stack', setup.iters, Len(stack), q)
  BY <1>1, TopIterators DEF DifferAt
<1>3. stack'[Len(stack)].iters = SubSeq(q, 1, Len(q) - 1) /\ q # <<>> /\ q \in Seq(Coll)
  BY <1>1, TopIterators
<1>4. Counted(x, -1)
  OBVIOUS
<1> HIDE DEF q
<1>5. x \in Coll
  BY <1>3
<1>6. \A c \in Coll : /\ c # x => Active(c)' = Active(c)
                      /\ c = x => /\ Cardinality(Active(c)') = Cardinality(Active(c)) - 1
                                  /\ Cardinality(Active(c)) \in Nat \ {0}
  <2> TAKE c \in Coll
  <2>1. /\ c # x => Iterating(stack', setup.iters, c) = Iterating(stack, setup.iters, c)
        /\ c = x => /\ Cardinality(Iterating(stack', setup.iters, c))
                         = Cardinality(Iterating(stack, setup.iters, c)) - 1
                    /\ Cardinality(Iterating(stack, setup.iters, c)) \in Nat \ {0}
    BY <1>2, <1>3, IteratorRemoved
  <2> QED BY <2>1, ActiveIterating
<1> HIDE DEF x
<1>7. \A c \in Coll : /\ Cardinality(Active(c)) \in Nat /\ leaked[c] \in Nat /\ itercount[c] \in Nat
                      /\ ~frozen[c] => itercount[c] = Cardinality(Active(c)) + leaked[c]
  BY <1>1, IteratingFinite, ActiveIterating DEF Typed, Setup, IInv, IterAccounting
<1>8. itercount' \in [Coll -> Nat]
  <2>1. CASE frozen[x]
    BY <1>1, <1>4, <2>1 DEF Counted, Typed
  <2>2. CASE ~frozen[x]
    <3>1. itercount[x] + -1 \in Nat
      BY <1>5, <1>6, <1>7, <2>2
    <3> QED BY <1>1, <1>4, <1>5, <2>2, <3>1 DEF Counted, Typed
  <2> QED BY <2>1, <2>2
<1>9. IterAccounting'
  <2> SUFFICES ASSUME NEW c \in Coll, ~frozen[c]
               PROVE  itercount'[c] = Cardinality(Active(c)') + leaked[c]
    BY DEF IterAccounting
  <2>1. itercount'[c] = IF c = x THEN itercount[c] + -1 ELSE itercount[c]
    BY <1>1, <1>4, <1>5 DEF Counted, Typed
  <2> QED BY <1>6, <1>7, <2>1
<1> QED BY <1>8, <1>9

(* Steps that begin and end no iteration. *)
LEMMA KeptAccounting ==
  ASSUME IInv, \A c \in Coll : Active(c)' = Active(c), UNCHANGED <<itercount, leaked>>,
         \A c \in Coll : ~frozen'[c] => ~frozen[c]
  PROVE  IterAccounting'
BY DEF IInv, IterAccounting

LEMMA SameActive ==
  ASSUME UNCHANGED <<setup, stack>>
  PROVE  \A c \in Coll : Active(c)' = Active(c)
BY DEF Active

LEMMA RetoppedActive ==
  ASSUME Typed, mode # "idle", NEW g \in FrameType, Retopped(g), setup' = setup,
         g.iters = Top.iters
  PROVE  \A c \in Coll : Active(c)' = Active(c)
<1>1. \A d \in DOMAIN stack : stack'[d].iters = stack[d].iters
  BY TopIterators
<1>2. DOMAIN stack' = (DOMAIN stack) \cup {}
  BY TopIterators
<1>3. GainsIdle(stack, stack', {})
  BY <1>1, <1>2 DEF GainsIdle
<1>4. \A c : Iterating(stack', setup.iters, c) = Iterating(stack, setup.iters, c)
  BY <1>3, IteratorsKept
<1> QED BY <1>4, ActiveIterating

LEMMA PushedActive ==
  ASSUME Typed, NEW f, Pushes(f), setup' = setup
  PROVE  \A c \in Coll : Active(c)' = Active(c)
<1> DEFINE n == Len(stack)
<1>1. n \in Nat /\ DOMAIN stack = 1 .. n
  BY Stacks
<1>2. /\ DOMAIN stack' = 1 .. n + 1 /\ \A d \in 1 .. n : stack'[d].iters = stack[d].iters
      /\ stack'[n + 1].iters = <<>>
  BY DEF Pushes, Frame
<1> HIDE DEF n
<1>3. DOMAIN stack' = (DOMAIN stack) \cup {n + 1} /\ {n + 1} \cap DOMAIN stack = {}
  BY <1>1, <1>2
<1>4. \A d \in DOMAIN stack : stack'[d].iters = stack[d].iters
  BY <1>1, <1>2
<1>5. \A d \in {n + 1} : stack'[d].iters = <<>>
  BY <1>2
<1>6. GainsIdle(stack, stack', {n + 1})
  BY <1>3, <1>4, <1>5 DEF GainsIdle
<1>7. \A c : Iterating(stack', setup.iters, c) = Iterating(stack, setup.iters, c)
  BY <1>6, IteratorsKept
<1> QED BY <1>7, ActiveIterating

LEMMA PoppedAccounting ==
  ASSUME IInv, Pops, mode # "idle", UNCHANGED <<setup, frozen, leaked>>,
         itercount' = [c \in Coll |-> IF frozen[c] THEN itercount[c]
                                      ELSE itercount[c] - Held(Top, c)]
  PROVE  IterAccounting' /\ itercount' \in [Coll -> Nat] /\ StackTyped'
<1> DEFINE n == Len(stack)
<1>1. /\ Typed /\ n \in Nat \ {0} /\ DOMAIN stack = 1 .. n /\ n \in DOMAIN stack /\ Top = stack[n]
      /\ \A d \in 1 .. n : Fits(stack[d])
      /\ Top.iters \in Seq(Coll) /\ Len(Top.iters) <= setup.iters
      /\ stack \in Seq(FrameType) /\ setup.iters \in Nat
  BY Stacks DEF IInv, Typed, FrameType, Fits, Setup
<1>2. /\ stack' \in Seq(FrameType) /\ DOMAIN stack' = 1 .. n - 1
      /\ \A d \in 1 .. n - 1 : /\ stack'[d].fn = stack[d].fn /\ stack'[d].calls = stack[d].calls
                               /\ stack'[d].iters = stack[d].iters
  BY DEF Pops
<1> HIDE DEF n
<1>3. DOMAIN stack' = DOMAIN stack \ {n}
  BY <1>1, <1>2
<1>4. StackTyped'
  <2>1. \A d \in 1 .. n - 1 : Fits(stack[d])
    BY <1>1
  <2> QED BY <1>2, <2>1 DEF StackTyped, Fits, Fn
<1>4a. LosesFrame(stack, stack', setup.iters, n)
  BY <1>1, <1>2, <1>3 DEF LosesFrame
<1>5. \A c \in Coll : /\ Held(Top, c) \in Nat /\ Cardinality(Active(c)') \in Nat
                      /\ leaked[c] \in Nat /\ itercount[c] \in Nat
                      /\ Cardinality(Active(c)) = Cardinality(Active(c)') + Held(Top, c)
  <2> TAKE c \in Coll
  <2>1. LET H == {j \in DOMAIN stack[n].iters : stack[n].iters[j] = c}
        IN  /\ Cardinality(H) \in Nat
            /\ Cardinality(Iterating(stack, setup.iters, c))
                 = Cardinality(Iterating(stack', setup.iters, c)) + Cardinality(H)
    BY <1>4a, IteratorsPopped
  <2>2. Cardinality(Iterating(stack', setup.iters, c)) \in Nat
    BY <1>1, <1>2, IteratingFinite
  <2> QED BY <1>1, <2>1, <2>2, ActiveIterating DEF Held, Typed
<1>6. \A c \in Coll : ~frozen[c] => itercount[c] = Cardinality(Active(c)) + leaked[c]
  BY DEF IInv, IterAccounting
<1>7. itercount' \in [Coll -> Nat]
  <2>1. \A c \in Coll : ~frozen[c] => itercount[c] - Held(Top, c) \in Nat
    BY <1>5, <1>6
  <2> QED BY <1>5, <2>1
<1>8. IterAccounting'
  <2> SUFFICES ASSUME NEW c \in Coll, ~frozen[c]
               PROVE  itercount'[c] = Cardinality(Active(c)') + leaked[c]
    BY DEF IterAccounting
  <2> QED BY <1>5, <1>6
<1> QED BY <1>4, <1>7, <1>8
-----------------------------------------------------------------------------
(* Calls push. *)
LEMMA AppendPushes ==
  ASSUME Typed, NEW f \in Fn \cup {"go"}, NEW s \in Seq(FrameType), Len(s) = Len(stack),
         \A d \in 1 .. Len(stack) :
           /\ s[d].fn = stack[d].fn /\ s[d].begun = stack[d].begun /\ s[d].iters = stack[d].iters
           /\ s[d].span <=> stack[d].fn = "go"
           /\ Fits(s[d]),
         stack' = Append(s, Frame(f))
  PROVE  Pushes(f)
<1> DEFINE n == Len(stack)
           g == Frame(f)
<1>1. n \in Nat /\ Len(s) = n
  BY Stacks
<1>2. g \in FrameType
  <2>1. f \in {"f", "g", "go"} /\ <<>> \in Seq(Coll) /\ 0 \in Nat
    BY DEF Typed, Setup, Fn
  <2> QED BY <2>1 DEF Frame, FrameType
<1>3. stack' = Append(s, g)
  OBVIOUS
<1> HIDE DEF g
<1>4. LET r == Append(s, g)
      IN  /\ r \in Seq(FrameType) /\ Len(r) = Len(s) + 1 /\ r # <<>> /\ r[Len(s) + 1] = g
          /\ \A d \in 1 .. Len(s) : r[d] = s[d]
  BY <1>2
<1>5. /\ stack' \in Seq(FrameType) /\ Len(stack') = n + 1 /\ stack' # <<>> /\ stack'[n + 1] = g
      /\ \A d \in 1 .. n : stack'[d] = s[d]
  BY <1>1, <1>3, <1>4
<1>6. DOMAIN stack' = 1 .. n + 1
  BY <1>5, SeqTyped
<1>7. Top' = g
  BY <1>5 DEF Top
<1> QED BY <1>5, <1>6, <1>7 DEF Pushes, g

LEMMA HostPushes ==
  ASSUME Typed, mode = "idle", NEW f \in Fn \cup {"go"}, stack' = Append(stack, Frame(f))
  PROVE  Pushes(f)
<1>1. stack = <<>> /\ stack \in Seq(FrameType)
  BY DEF Typed
<1>2. Len(stack) = 0
  BY <1>1
<1>3. \A d \in 1 .. Len(stack) : FALSE
  BY <1>2
<1> QED BY <1>1, <1>3, AppendPushes

LEMMA CallPushes ==
  ASSUME IInv, mode \in {"exec", "go"}, NEW f \in Fn \cup {"go"}, NEW g \in FrameType,
         g.fn = Top.fn, g.begun = Top.begun, g.iters = Top.iters,
         g.span <=> g.fn = "go", Fits(g),
         stack' = Append(SetTop(g), Frame(f))
  PROVE  Pushes(f)
<1> DEFINE n == Len(stack)
           s == SetTop(g)
<1>1. /\ Typed /\ n \in Nat \ {0} /\ DOMAIN stack = 1 .. n /\ Top = stack[n]
      /\ \A d \in 1 .. n : Fits(stack[d])
      /\ stack \in Seq(FrameType)
  BY Stacks DEF IInv, Typed
<1>2. s \in Seq(FrameType) /\ Len(s) = n /\ s[n] = g /\ \A d \in 1 .. n - 1 : s[d] = stack[d]
  <2> DEFINE q == stack
             r == [q EXCEPT ![Len(q)] = g]
  <2>1. q \in Seq(FrameType) /\ Len(q) \in Nat \ {0}
    BY <1>1
  <2>2. s = r
    BY DEF SetTop
  <2>3. /\ r \in Seq(FrameType) /\ Len(r) = Len(q) /\ r # <<>> /\ r[Len(q)] = g
        /\ \A d \in 1 .. Len(q) - 1 : r[d] = q[d]
    <3> HIDE DEF q
    <3> QED BY <2>1
  <2> HIDE DEF r
  <2> QED BY <2>2, <2>3
<1> HIDE DEF s
<1>3. \A d \in 1 .. n :
           /\ s[d].fn = stack[d].fn /\ s[d].begun = stack[d].begun /\ s[d].iters = stack[d].iters
           /\ s[d].span <=> stack[d].fn = "go"
           /\ Fits(s[d])
  <2> TAKE d \in 1 .. n
  <2>1. d = n \/ (d \in 1 .. n - 1 /\ d # n)
    <3> HIDE DEF n
    <3> QED BY <1>1
  <2>2. CASE d = n
    BY <1>1, <1>2, <2>2, SMTT(60)
  <2>3. CASE d \in 1 .. n - 1 /\ d # n
    <3>1. stack[d].span <=> stack[d].fn = "go"
      BY <1>1, <2>3 DEF IInv, SpansExact
    <3> QED BY <1>1, <1>2, <2>3, <3>1, ZenonT(60)
  <2> QED BY <2>1, <2>2, <2>3
<1>4. stack' = Append(s, Frame(f))
  BY DEF s
<1> QED BY <1>1, <1>2, <1>3, <1>4, AppendPushes

LEMMA PushedTyped ==
  ASSUME Typed, NEW f \in Fn \cup {"go"}, Pushes(f), setup' = setup
  PROVE  StackTyped'
<1> DEFINE n == Len(stack)
<1>1. /\ stack' \in Seq(FrameType) /\ DOMAIN stack' = 1 .. n + 1 /\ stack'[n + 1] = Frame(f)
      /\ \A d \in 1 .. n : Fits(stack'[d])
  BY DEF Pushes
<1>2. Fits(Frame(f))
  <2>1. Len(<<>>) = 0 /\ setup.goCalls \in Nat /\ setup.iters \in Nat
    BY DEF Typed, Setup
  <2> QED BY <2>1 DEF Fits, Frame
<1>3. \A d \in 1 .. n + 1 : d = n + 1 \/ d \in 1 .. n
  <2>1. n \in Nat
    BY Stacks
  <2> HIDE DEF n
  <2> QED BY <2>1
<1>4. \A d \in 1 .. n + 1 : Fits(stack'[d])
  BY <1>1, <1>2, <1>3
<1> QED BY <1>1, <1>4 DEF StackTyped, Fits, Fn
-----------------------------------------------------------------------------
(* Every action. *)
OthersTyped ==
  /\ mode \in Modes /\ (mode = "idle" <=> stack = <<>>)
  /\ steps \in 0 .. StepCap /\ maxSteps \in Limits \cup {0, Unlimited}
  /\ cancelReason \in Reason \cup {TooMany, NoReason}
  /\ leaked \in [Coll -> Nat] /\ frozen \in [Coll -> BOOLEAN] /\ content \in [Coll -> BOOLEAN]

LEMMA Parts ==
  ASSUME IInv, setup' = setup, StackTyped', OthersTyped', itercount' \in [Coll -> Nat],
         Structure', StepLimitHolds', IterAccounting'
  PROVE  IInv'
<1>1. Typed'
  BY DEF IInv, Typed, StackTyped, OthersTyped
<1> QED BY <1>1 DEF IInv, Structure

LEMMA NotExecuting ==
  ASSUME mode' # "exec"
  PROVE  StepLimitHolds'
BY DEF StepLimitHolds, Exec

LEMMA SameStackTyped ==
  ASSUME Typed, UNCHANGED <<setup, stack>>
  PROVE  StackTyped'
BY DEF Typed, StackTyped, Fits, Fn

LEMMA SameStackStep ==
  ASSUME IInv, UNCHANGED <<setup, stack, itercount, leaked>>,
         mode' \in {"tick", "exec"} => mode \in {"tick", "exec"},
         mode' = "go" => mode = "go", mode = "panic" => mode' = "panic",
         OthersTyped', StepLimitHolds',
         \A c \in Coll : ~frozen'[c] => ~frozen[c]
  PROVE  IInv'
<1>1. Structure'
  BY SameStack
<1>2. IterAccounting'
  BY SameActive, KeptAccounting
<1>3. StackTyped' /\ itercount' \in [Coll -> Nat]
  BY SameStackTyped DEF IInv, Typed
<1> QED BY <1>1, <1>2, <1>3, Parts

LEMMA PushStep ==
  ASSUME IInv, mode \in {"idle", "exec", "go"}, NEW f \in Fn \cup {"go"}, NEW s, Push(s, f),
         Pushes(f), f = "go" => (mode = "go" => ~GoChainFull)
  PROVE  IInv'
<1>1. Typed /\ setup' = setup /\ mode' = "enter"
  BY DEF IInv, Push
<1>2. Structure'
  BY <1>1, PushedStructure
<1>3. \A c \in Coll : Active(c)' = Active(c)
  BY <1>1, PushedActive
<1>4. IterAccounting'
  BY <1>3, KeptAccounting DEF Push, collVars
<1>5. StackTyped'
  BY <1>1, PushedTyped
<1>6. OthersTyped' /\ itercount' \in [Coll -> Nat]
  <2>1. stack' # <<>>
    BY DEF Pushes
  <2>2. maxSteps' \in Limits \cup {0, Unlimited}
    BY <1>1 DEF Push, Typed
  <2> QED BY <1>1, <2>1, <2>2 DEF Push, Typed, OthersTyped, collVars, Modes
<1>7. StepLimitHolds'
  BY <1>1, NotExecuting
<1> QED BY <1>1, <1>2, <1>4, <1>5, <1>6, <1>7, Parts

LEMMA HostCallStep ==
  ASSUME IInv, NEW f \in Fn \cup {"go"}, HostCall(f)
  PROVE  IInv'
<1>1. Typed /\ mode = "idle" /\ Push(stack, f)
  BY DEF IInv, HostCall
<1>2. Pushes(f)
  BY <1>1, HostPushes DEF Push
<1> QED BY <1>1, <1>2, PushStep

LEMMA ExecCallStep ==
  ASSUME IInv, NEW f \in Fn \cup {"go"}, ExecCall(f)
  PROVE  IInv'
<1> DEFINE g == [Top EXCEPT !.span = FALSE]
<1>1. Typed /\ mode = "exec" /\ Push(SetTop(g), f)
  BY DEF IInv, ExecCall, Exec
<1>2. Top \in FrameType /\ Fits(Top) /\ Top.fn # "go"
  BY <1>1, Stacks DEF IInv, Control
<1>3. /\ g \in FrameType /\ g.fn = Top.fn /\ g.begun = Top.begun /\ g.iters = Top.iters
      /\ g.calls = Top.calls /\ g.span = FALSE
  BY <1>2 DEF FrameType
<1>4. Fits(g) /\ stack' = Append(SetTop(g), Frame(f))
  BY <1>1, <1>2, <1>3 DEF Fits, Push
<1> HIDE DEF g
<1>5. Pushes(f)
  BY <1>1, <1>2, <1>3, <1>4, CallPushes
<1> QED BY <1>1, <1>5, PushStep

LEMMA GoCallStep ==
  ASSUME IInv, NEW f \in Fn \cup {"go"}, GoCall(f)
  PROVE  IInv'
<1> DEFINE g == [Top EXCEPT !.calls = @ + 1]
<1>1. /\ Typed /\ mode = "go" /\ Push(SetTop(g), f) /\ Top.calls < setup.goCalls
      /\ f = "go" => ~GoChainFull
  BY DEF IInv, GoCall
<1>2. /\ Top \in FrameType /\ Fits(Top) /\ Top.fn = "go"
      /\ Len(stack) \in DOMAIN stack /\ Top = stack[Len(stack)]
  BY <1>1, Stacks DEF IInv, Control
<1>3. Top.span = TRUE
  BY <1>1, <1>2 DEF IInv, SpansExact, FrameType
<1>4. /\ g \in FrameType /\ g.fn = Top.fn /\ g.begun = Top.begun /\ g.iters = Top.iters
      /\ g.calls = Top.calls + 1 /\ g.span = Top.span
  BY <1>2 DEF FrameType
<1>5. g.calls <= setup.goCalls
  <2>1. Top.calls \in Nat /\ setup.goCalls \in Nat
    BY <1>1, <1>2 DEF FrameType, Typed, Setup
  <2> QED BY <1>1, <1>4, <2>1
<1>6. Fits(g) /\ stack' = Append(SetTop(g), Frame(f))
  BY <1>1, <1>2, <1>4, <1>5 DEF Fits, Push
<1> HIDE DEF g
<1>7. Pushes(f)
  BY <1>1, <1>2, <1>3, <1>4, <1>6, CallPushes
<1> QED BY <1>1, <1>7, PushStep

(* The top frame begins, or its iterators change. *)
LEMMA RetopStep ==
  ASSUME IInv, NEW g \in FrameType, stack' = SetTop(g), Fits(g), setup' = setup,
         mode \notin {"idle", "panic"}, g.fn = Top.fn, g.span = Top.span,
         g.begun = Top.begun \/ (g.begun = TRUE /\ (g.fn = "go" \/ ~Rejected)),
         mode' = "tick" => g.begun /\ g.fn # "go",
         mode' = "go" => g.begun /\ g.fn = "go",
         mode' \in {"tick", "go"},
         UNCHANGED <<steps, maxSteps, cancelReason, frozen, content, leaked>>,
         Retopped(g) => IterAccounting' /\ itercount' \in [Coll -> Nat]
  PROVE  IInv'
<1>1. Typed
  BY DEF IInv
<1>2. Retopped(g)
  BY <1>1, SetTopRetops
<1>3. Structure'
  BY <1>2, RetoppedStructure
<1>4. StackTyped'
  BY <1>1, <1>2, RetoppedTyped
<1>5. OthersTyped'
  BY <1>1, <1>2 DEF OthersTyped, Typed, Retopped, Modes
<1>6. StepLimitHolds'
  BY NotExecuting
<1> QED BY <1>2, <1>3, <1>4, <1>5, <1>6, Parts

LEMMA Begins ==
  ASSUME IInv, mode = "enter", stack' = SetTop([Top EXCEPT !.begun = TRUE]),
         \/ mode' = "tick" /\ Top.fn # "go" /\ ~Rejected
         \/ mode' = "go" /\ Top.fn = "go",
         UNCHANGED <<setup, steps, maxSteps, cancelReason, collVars>>
  PROVE  IInv'
<1> DEFINE g == [Top EXCEPT !.begun = TRUE]
<1>1. Typed /\ Top \in FrameType /\ Fits(Top)
  BY Stacks DEF IInv
<1>2. /\ g \in FrameType /\ g.fn = Top.fn /\ g.begun = TRUE /\ g.iters = Top.iters
      /\ g.calls = Top.calls /\ g.span = Top.span
  BY <1>1 DEF FrameType
<1>3. Fits(g) /\ stack' = SetTop(g)
  BY <1>1, <1>2 DEF Fits
<1> HIDE DEF g
<1>4. Retopped(g) => IterAccounting' /\ itercount' \in [Coll -> Nat]
  <2> SUFFICES ASSUME Retopped(g) PROVE IterAccounting' /\ itercount' \in [Coll -> Nat]
    OBVIOUS
  <2>1. \A c \in Coll : Active(c)' = Active(c)
    BY <1>1, <1>2, RetoppedActive
  <2> QED BY <1>1, <2>1, KeptAccounting DEF collVars, Typed
<1> QED BY <1>2, <1>3, <1>4, RetopStep DEF collVars

LEMMA Iterates ==
  ASSUME IInv, NEW x \in Coll, mode \in {"exec", "go"}, ItersAreFew,
         stack' = SetTop([Top EXCEPT !.iters = Append(@, x)]), Counted(x, 1),
         mode = "exec" => mode' = "tick", mode = "go" => mode' = "go",
         UNCHANGED <<setup, steps, maxSteps, cancelReason, frozen, content, leaked>>
  PROVE  IInv'
<1> DEFINE g == [Top EXCEPT !.iters = Append(@, x)]
<1>1. Typed /\ Top \in FrameType /\ Fits(Top)
  BY Stacks DEF IInv
<1>2. /\ Append(Top.iters, x) \in Seq(Coll) /\ Len(Append(Top.iters, x)) <= setup.iters
  <2>1. Top.iters \in Seq(Coll) /\ Len(Top.iters) < setup.iters /\ setup.iters \in Nat
    BY <1>1 DEF FrameType, ItersAreFew, Typed, Setup
  <2> QED BY <2>1
<1>3. /\ g \in FrameType /\ g.fn = Top.fn /\ g.begun = Top.begun
      /\ g.iters = Append(Top.iters, x)
      /\ g.calls = Top.calls /\ g.span = Top.span
  BY <1>1, <1>2 DEF FrameType
<1>4. Fits(g) /\ stack' = SetTop(g)
  BY <1>1, <1>2, <1>3 DEF Fits
<1> HIDE DEF g
<1>5. Retopped(g) => IterAccounting' /\ itercount' \in [Coll -> Nat]
  BY <1>3, AddedAccounting
<1>6. /\ mode = "exec" => Top.begun /\ Top.fn # "go"
      /\ mode = "go" => Top.begun /\ Top.fn = "go"
  BY DEF IInv, Control
<1> QED BY <1>3, <1>4, <1>5, <1>6, RetopStep

LEMMA IterPopStep ==
  ASSUME IInv, IterPop
  PROVE  IInv'
<1> DEFINE q == Top.iters
           g == [Top EXCEPT !.iters = SubSeq(@, 1, Len(q) - 1)]
<1>1. Typed /\ Top \in FrameType /\ Fits(Top) /\ mode = "exec" /\ mode' = "tick"
  BY Stacks DEF IInv, IterPop, Exec
<1>2. SubSeq(q, 1, Len(q) - 1) \in Seq(Coll) /\ Len(SubSeq(q, 1, Len(q) - 1)) <= setup.iters
  <2>1. q \in Seq(Coll) /\ Len(q) <= setup.iters /\ q # <<>> /\ setup.iters \in Nat
    BY <1>1 DEF FrameType, Fits, IterPop, Typed, Setup
  <2> HIDE DEF q
  <2> QED BY <2>1
<1>3. /\ g \in FrameType /\ g.fn = Top.fn /\ g.begun = Top.begun
      /\ g.iters = SubSeq(q, 1, Len(q) - 1)
      /\ g.calls = Top.calls /\ g.span = Top.span
  BY <1>1, <1>2 DEF FrameType
<1>4. Fits(g)
  BY <1>1, <1>2, <1>3 DEF Fits
<1>5. /\ stack' = SetTop(g) /\ Top.iters # <<>> /\ Counted(Top.iters[Len(Top.iters)], -1)
      /\ UNCHANGED <<setup, steps, maxSteps, cancelReason, frozen, content, leaked>>
  BY DEF IterPop, threadVars
<1> HIDE DEF g
<1>6. Retopped(g) => IterAccounting' /\ itercount' \in [Coll -> Nat]
  BY <1>1, <1>3, <1>5, RemovedAccounting
<1>7. Top.begun /\ Top.fn # "go"
  BY <1>1 DEF IInv, Control
<1> QED BY <1>1, <1>3, <1>4, <1>5, <1>6, <1>7, RetopStep

LEMMA TickStep ==
  ASSUME IInv, Tick
  PROVE  IInv'
<1>1. Typed /\ mode = "tick" /\ mode' = "exec"
  BY DEF IInv, Tick
<1>2. steps' \in 0 .. StepCap
  <2>1. StepCap \in Nat /\ steps \in 0 .. StepCap
    BY <1>1, InterpAssumption DEF Typed
  <2> QED BY <2>1 DEF Tick
<1>3. maxSteps \in Int
  BY <1>1, InterpAssumption DEF Typed, Unlimited
<1>4. OthersTyped'
  <2>1. cancelReason' \in Reason \cup {TooMany, NoReason}
    BY <1>1 DEF Tick, Typed
  <2> QED BY <1>1, <1>2, <2>1 DEF OthersTyped, Tick, Typed, Modes, collVars
<1>5. StepLimitHolds'
  <2> SUFFICES ASSUME cancelReason' = NoReason, ~setup.onMaxSteps
               PROVE  steps' < maxSteps
    BY DEF StepLimitHolds, Exec, Tick
  <2>1. ~(steps' >= maxSteps)
    BY InterpAssumption DEF Tick
  <2> QED BY <1>2, <1>3, <2>1
<1> QED BY <1>1, <1>4, <1>5, SameStackStep DEF Tick, collVars

LEMMA CancelStep ==
  ASSUME IInv, NEW r \in Reason, Cancel(r)
  PROVE  IInv'
<1>1. Typed /\ mode' = mode /\ cancelReason' = r
  BY DEF IInv, Cancel
<1>2. OthersTyped'
  BY <1>1 DEF OthersTyped, Cancel, Typed, collVars
<1>3. StepLimitHolds'
  BY <1>1, InterpAssumption DEF StepLimitHolds, Exec
<1> QED BY <1>1, <1>2, <1>3, SameStackStep DEF Cancel, collVars

LEMMA UncancelStep ==
  ASSUME IInv, Uncancel
  PROVE  IInv'
<1>1. Typed /\ mode' = mode
  BY DEF IInv, Uncancel
<1>2. OthersTyped'
  BY <1>1 DEF OthersTyped, Uncancel, Typed, collVars
<1>3. StepLimitHolds'
  BY DEF StepLimitHolds, Uncancel
<1> QED BY <1>1, <1>2, <1>3, SameStackStep DEF Uncancel, collVars

LEMMA SetMaxExecutionStepsStep ==
  ASSUME IInv, NEW n \in Limits, SetMaxExecutionSteps(n)
  PROVE  IInv'
<1>1. Typed /\ mode = "idle" /\ mode' = "idle"
  BY DEF IInv, SetMaxExecutionSteps
<1>2. OthersTyped'
  BY <1>1 DEF OthersTyped, SetMaxExecutionSteps, Typed, collVars
<1>3. StepLimitHolds'
  BY <1>1, NotExecuting
<1> QED BY <1>1, <1>2, <1>3, SameStackStep DEF SetMaxExecutionSteps, collVars

(* Instructions and built-ins that touch no iterator and no frame. *)
LEMMA QuietStep ==
  ASSUME IInv, mode \in {"enter", "exec", "go"}, mode' \in {"tick", "go", "ret", "err", "panic"},
         mode' = "tick" => mode = "exec", mode' = "go" => mode = "go",
         UNCHANGED <<stack, itercount, leaked, threadVars>>,
         frozen' \in [Coll -> BOOLEAN], content' \in [Coll -> BOOLEAN],
         \A c \in Coll : ~frozen'[c] => ~frozen[c]
  PROVE  IInv'
<1>1. Typed
  BY DEF IInv
<1>2. OthersTyped'
  BY <1>1 DEF OthersTyped, Typed, threadVars, Modes
<1>3. StepLimitHolds'
  BY NotExecuting
<1> QED BY <1>2, <1>3, SameStackStep DEF threadVars

LEMMA UpdateStep ==
  ASSUME IInv, NEW c \in Coll, NEW next, Update(c, next),
         (mode = "exec" /\ next = "tick") \/ (mode = "go" /\ next = "go")
  PROVE  IInv'
<1>1. Typed
  BY DEF IInv
<1>2. content' \in [Coll -> BOOLEAN]
  BY <1>1, Zenon DEF Update, Typed
<1>3. mode' \in {next, "err"} /\ UNCHANGED <<stack, itercount, frozen, leaked, threadVars>>
  BY DEF Update
<1>4. frozen' \in [Coll -> BOOLEAN] /\ \A d \in Coll : ~frozen'[d] => ~frozen[d]
  BY <1>1, <1>3 DEF Typed
<1> QED BY <1>2, <1>3, <1>4, QuietStep

LEMMA GoFreezeStep ==
  ASSUME IInv, NEW c \in Coll, GoFreeze(c)
  PROVE  IInv'
<1>1. Typed
  BY DEF IInv
<1>2. /\ mode = "go" /\ mode' = "go" /\ frozen' = [frozen EXCEPT ![c] = TRUE]
      /\ UNCHANGED <<stack, itercount, leaked, content, threadVars>>
  BY DEF GoFreeze
<1>3. frozen \in [Coll -> BOOLEAN] /\ content' \in [Coll -> BOOLEAN]
  BY <1>1, <1>2 DEF Typed
<1>4. frozen' \in [Coll -> BOOLEAN] /\ \A d \in Coll : ~frozen'[d] => ~frozen[d]
  BY <1>2, <1>3
<1> QED BY <1>2, <1>3, <1>4, QuietStep

(* Cancelled, ExecOther, GoLeave, and EnterFunction that fails. *)
LEMMA LeavesFrames ==
  ASSUME IInv, mode \in {"enter", "exec", "go"}, mode' \in {"tick", "ret", "err", "panic"},
         mode' = "tick" => mode = "exec", UNCHANGED <<stack, collVars, threadVars>>
  PROVE  IInv'
<1>1. Typed /\ UNCHANGED <<stack, itercount, leaked, threadVars, frozen, content>>
  BY DEF IInv, collVars
<1>2. /\ frozen' \in [Coll -> BOOLEAN] /\ content' \in [Coll -> BOOLEAN]
      /\ \A c \in Coll : ~frozen'[c] => ~frozen[c]
  BY <1>1 DEF Typed
<1> QED BY <1>1, <1>2, QuietStep

(* Both the count and the abandoned iterations grow by one. *)
LEMMA UnpackTooManyStep ==
  ASSUME IInv, NEW x \in Coll, UnpackTooMany(x)
  PROVE  IInv'
<1>1. /\ Typed /\ mode = "exec" /\ mode' = "err" /\ Counted(x, 1)
      /\ leaked' = IF frozen[x] THEN leaked ELSE [leaked EXCEPT ![x] = @ + 1]
      /\ UNCHANGED <<stack, frozen, content, threadVars>>
  BY DEF IInv, UnpackTooMany, Exec
<1>2. itercount' \in [Coll -> Nat] /\ leaked' \in [Coll -> Nat]
  BY <1>1 DEF Counted, Typed
<1>3. \A c \in Coll : Active(c)' = Active(c)
  BY <1>1, SameActive DEF threadVars
<1>4. \A c \in Coll : Cardinality(Active(c)) \in Nat
  BY <1>1, IteratingFinite, ActiveIterating DEF Typed, Setup
<1>5. IterAccounting'
  <2> SUFFICES ASSUME NEW c \in Coll, ~frozen[c]
               PROVE  itercount'[c] = Cardinality(Active(c)') + leaked'[c]
    BY <1>1 DEF IterAccounting
  <2>1. itercount[c] = Cardinality(Active(c)) + leaked[c] /\ leaked[c] \in Nat
    BY <1>1 DEF IInv, IterAccounting, Typed
  <2>2. CASE c = x
    <3>1. itercount'[c] = itercount[c] + 1 /\ leaked'[c] = leaked[c] + 1
      BY <1>1, <2>2 DEF Counted, Typed
    <3> QED BY <1>3, <1>4, <2>1, <3>1
  <2>3. CASE c # x
    <3>1. itercount'[c] = itercount[c] /\ leaked'[c] = leaked[c]
      BY <1>1, <2>3 DEF Counted, Typed
    <3> QED BY <1>3, <2>1, <3>1
  <2> QED BY <2>2, <2>3
<1>6. Structure' /\ StackTyped'
  BY <1>1, SameStack, SameStackTyped DEF threadVars
<1>7. OthersTyped' /\ StepLimitHolds'
  BY <1>1, <1>2, NotExecuting DEF OthersTyped, Typed, Modes, threadVars
<1> QED BY <1>1, <1>2, <1>5, <1>6, <1>7, Parts DEF threadVars

LEMMA LeaveStep ==
  ASSUME IInv, Leave
  PROVE  IInv'
<1>1. /\ Typed /\ mode \in {"ret", "err", "panic"} /\ stack' = Popped /\ mode' \in Resumptions
      /\ itercount' = [c \in Coll |-> IF frozen[c] THEN itercount[c]
                                      ELSE itercount[c] - Held(Top, c)]
      /\ UNCHANGED <<frozen, content, leaked, threadVars>>
  BY DEF IInv, Leave
<1>2. Pops
  BY <1>1, PoppedPops
<1>3. Structure' /\ mode' \in Modes /\ (mode' = "idle" <=> stack' = <<>>)
  BY <1>1, <1>2, PoppedStructure DEF threadVars
<1>4. IterAccounting' /\ itercount' \in [Coll -> Nat] /\ StackTyped'
  BY <1>1, <1>2, PoppedAccounting DEF threadVars
<1>5. OthersTyped'
  BY <1>1, <1>3 DEF OthersTyped, Typed, threadVars
<1>6. StepLimitHolds'
  <2>1. mode' # "exec"
    BY <1>1 DEF Resumptions
  <2> QED BY <2>1, NotExecuting
<1> QED BY <1>1, <1>3, <1>4, <1>5, <1>6, Parts DEF threadVars

LEMMA StutterStep ==
  ASSUME IInv, UNCHANGED vars
  PROVE  IInv'
<1>1. Typed /\ StepLimitHolds
  BY DEF IInv
<1>2. UNCHANGED <<setup, stack, mode, steps, maxSteps, cancelReason, pardoned,
                  itercount, frozen, content, leaked>>
  BY DEF vars, collVars
<1>3. OthersTyped'
  BY <1>1, <1>2 DEF OthersTyped, Typed
<1>4. StepLimitHolds'
  BY <1>1, <1>2 DEF StepLimitHolds, Exec
<1> QED BY <1>2, <1>3, <1>4, SameStackStep
-----------------------------------------------------------------------------
LEMMA InitInv == Init => IInv
<1> SUFFICES ASSUME Init PROVE IInv
  OBVIOUS
<1>1. /\ setup \in Setup /\ stack = <<>> /\ mode = "idle" /\ Len(stack) = 0
      /\ stack \in Seq(FrameType) /\ DOMAIN stack = {}
  BY InterpAssumption DEF Init
<1>2. Typed
  BY <1>1, InterpAssumption DEF Init, Typed, Modes
<1>3. Control /\ Depths /\ StepLimitHolds /\ NoReentry /\ SpansExact
  BY <1>1 DEF Control, Depths, StepLimitHolds, Exec, NoReentry, SpansExact
<1>4. IterAccounting
  <2>1. \A c \in Coll : Active(c) = {}
    BY <1>1 DEF Active
  <2>2. \A c \in Coll : Cardinality(Active(c)) = 0
    BY <2>1, FS_EmptySet
  <2>3. \A c \in Coll : itercount[c] = 0 /\ leaked[c] = 0
    BY DEF Init
  <2> QED BY <2>2, <2>3 DEF IterAccounting
<1> QED BY <1>2, <1>3, <1>4 DEF IInv

LEMMA StepInv == IInv /\ [Next]_vars => IInv'
<1> SUFFICES ASSUME IInv, [Next]_vars PROVE IInv'
  OBVIOUS
<1>1. CASE \E f \in Fn \cup {"go"} : HostCall(f)
  BY <1>1, HostCallStep
<1>2. CASE \E n \in Limits : SetMaxExecutionSteps(n)
  BY <1>2, SetMaxExecutionStepsStep
<1>3. CASE \E r \in Reason : Cancel(r)
  BY <1>3, CancelStep
<1>4. CASE Uncancel
  BY <1>4, UncancelStep
<1>5. CASE Function
  <2>1. CASE EnterFunction
    <3>1. CASE mode' = "err" /\ UNCHANGED stack
      BY <2>1, <3>1, LeavesFrames DEF EnterFunction, threadVars
    <3>2. CASE ~Rejected /\ mode' = "tick" /\ stack' = SetTop([Top EXCEPT !.begun = TRUE])
      BY <2>1, <3>2, Begins DEF EnterFunction
    <3> QED BY <2>1, <3>1, <3>2 DEF EnterFunction
  <2>2. CASE Tick
    BY <2>2, TickStep
  <2>3. CASE Cancelled
    BY <2>3, LeavesFrames DEF Cancelled, threadVars
  <2>4. CASE IterPop
    BY <2>4, IterPopStep
  <2>5. CASE ExecOther
    BY <2>5, LeavesFrames DEF ExecOther, Exec
  <2>6. CASE \E f \in Fn \cup {"go"} : ExecCall(f)
    BY <2>6, ExecCallStep
  <2>7. CASE \E c \in Coll : IterPush(c)
    BY <2>7, Iterates DEF IterPush, Exec, threadVars
  <2>8. CASE \E c \in Coll : UnpackTooMany(c)
    BY <2>8, UnpackTooManyStep
  <2>9. CASE \E c \in Coll : ExecUpdate(c)
    BY <2>9, UpdateStep DEF ExecUpdate, Exec
  <2> QED BY <1>5, <2>1, <2>2, <2>3, <2>4, <2>5, <2>6, <2>7, <2>8, <2>9 DEF Function
<1>6. CASE Builtin
  <2>1. CASE EnterGo
    BY <2>1, Begins DEF EnterGo
  <2>2. CASE GoLeave
    BY <2>2, LeavesFrames DEF GoLeave
  <2>3. CASE \E c \in Coll : GoIterate(c)
    BY <2>3, Iterates DEF GoIterate, threadVars
  <2>4. CASE \E c \in Coll : GoUpdate(c)
    BY <2>4, UpdateStep DEF GoUpdate
  <2>5. CASE \E c \in Coll : GoFreeze(c)
    BY <2>5, GoFreezeStep
  <2>6. CASE \E f \in Fn \cup {"go"} : GoCall(f)
    BY <2>6, GoCallStep
  <2> QED BY <1>6, <2>1, <2>2, <2>3, <2>4, <2>5, <2>6 DEF Builtin
<1>7. CASE Leave
  BY <1>7, LeaveStep
<1>8. CASE UNCHANGED vars
  BY <1>8, StutterStep
<1> QED BY <1>1, <1>2, <1>3, <1>4, <1>5, <1>6, <1>7, <1>8 DEF Next

(* The inductive invariant holds in every execution of a thread. *)
THEOREM InterpInvariance == Spec => []IInv
BY InitInv, StepInv, PTL DEF Spec

(* Every variable keeps its type. *)
THEOREM TypeCorrect == Spec => []TypeOK
<1>1. IInv => TypeOK
  <2> SUFFICES ASSUME IInv PROVE TypeOK
    OBVIOUS
  <2>1. Typed /\ setup.goCalls \in Nat
    BY DEF IInv, Typed, Setup
  <2>2. \A d \in DOMAIN stack : stack[d] \in FrameType /\ Fits(stack[d])
    BY <2>1, Stacks
  <2>3. \A d \in DOMAIN stack :
          stack[d] \in [fn : Fn \cup {"go"}, iters : Seq(Coll), calls : 0 .. setup.goCalls,
                        begun : BOOLEAN, span : BOOLEAN]
    <3> TAKE d \in DOMAIN stack
    <3>1. stack[d] \in FrameType /\ Fits(stack[d])
      BY <2>2
    <3>2. stack[d].calls \in 0 .. setup.goCalls /\ stack[d].fn \in Fn \cup {"go"}
      BY <2>1, <3>1 DEF FrameType, Fits
    <3> QED BY <3>1, <3>2 DEF FrameType
  <2> QED BY <2>1, <2>3 DEF TypeOK, Typed, Modes
<1> QED BY <1>1, InterpInvariance, PTL

(* Iterations are counted exactly: every iterator of every frame, however  *)
(* the loops and the frames end, apart from those that UNPACK abandons.    *)
THEOREM IterationsCounted == Spec => []IterAccounting
<1>1. IInv => IterAccounting
  BY DEF IInv
<1> QED BY <1>1, InterpInvariance, PTL

(* No instruction executes at or past the step limit, unless cancellation  *)
(* is taken back within that very step.                                    *)
THEOREM StepsLimited == Spec => []StepLimitHolds
<1>1. IInv => StepLimitHolds
  BY DEF IInv
<1> QED BY <1>1, InterpInvariance, PTL

(* Without recursion no function is active twice. *)
THEOREM FunctionsDoNotReenter == Spec => []NoReentry
<1>1. IInv => NoReentry
  BY DEF IInv
<1> QED BY <1>1, InterpInvariance, PTL

(* Profiling spans follow the top of the stack. *)
THEOREM SpansFollowTheTop == Spec => []SpansExact
<1>1. IInv => SpansExact
  BY DEF IInv
<1> QED BY <1>1, InterpInvariance, PTL

(* With recursion, the stack is bounded. *)
THEOREM StackStaysBounded == Spec => []StackBounded
<1>1. IInv => StackBounded
  <2> SUFFICES ASSUME IInv, Recursion PROVE Len(stack) <= setup.depth + setup.goChain + 1
    BY DEF StackBounded
  <2>1. Typed /\ Len(stack) \in Nat /\ DOMAIN stack = 1 .. Len(stack)
    BY Stacks DEF IInv
  <2>2. setup.depth \in Nat /\ setup.goChain \in Nat
    BY <2>1 DEF Typed, Setup
  <2>3. Len(stack) = 0 \/ Len(stack) \in 1 .. Len(stack)
    BY <2>1
  <2>4. CASE Len(stack) = 0
    BY <2>2, <2>4
  <2>5. CASE Len(stack) \in 1 .. Len(stack)
    BY <2>1, <2>5 DEF IInv, Depths
  <2> QED BY <2>3, <2>4, <2>5
<1> QED BY <1>1, InterpInvariance, PTL

(* No update succeeds on a collection that is frozen, or that a frame of   *)
(* the stack iterates over.                                                *)
THEOREM IterationForbidsUpdates == Spec => NoUpdateUnderIteration
<1> DEFINE Guarded == \A c \in Coll : content'[c] # content[c] => ~frozen[c] /\ Active(c) = {}
<1>1. IInv /\ [Next]_vars => [Guarded]_vars
  <2> SUFFICES ASSUME IInv, Next, NEW c \in Coll, content'[c] # content[c]
               PROVE  ~frozen[c] /\ Active(c) = {}
    OBVIOUS
  <2>1. Mutable(c)
    <3>1. CASE \E x \in Coll : ExecUpdate(x) \/ GoUpdate(x)
      <4>1. PICK x \in Coll, next \in {"tick", "go"} : Update(x, next)
        BY <3>1 DEF ExecUpdate, GoUpdate
      <4>2. content \in [Coll -> BOOLEAN]
        BY DEF IInv, Typed
      <4> QED BY <4>1, <4>2 DEF Update
    <3>2. CASE content' = content
      BY <3>2
    <3>3. (\E x \in Coll : ExecUpdate(x) \/ GoUpdate(x)) \/ content' = content
      BY DEF Next, Function, Builtin, HostCall, ExecCall, GoCall, Push, SetMaxExecutionSteps,
             Cancel, Uncancel, EnterFunction, Tick, Cancelled, IterPop, ExecOther, IterPush,
             UnpackTooMany, EnterGo, GoLeave, GoIterate, GoFreeze, Leave, collVars
    <3> QED BY <3>1, <3>2, <3>3
  <2>2. /\ ~frozen[c] /\ itercount[c] = 0 /\ itercount[c] = Cardinality(Active(c)) + leaked[c]
    BY <2>1 DEF Mutable, IInv, IterAccounting
  <2>3. IsFiniteSet(Active(c)) /\ Cardinality(Active(c)) \in Nat /\ leaked[c] \in Nat
    BY IteratingFinite, ActiveIterating DEF IInv, Typed, Setup
  <2>4. Cardinality(Active(c)) = 0
    BY <2>2, <2>3
  <2> QED BY <2>2, <2>3, <2>4, FS_EmptySet
<1> QED BY <1>1, InterpInvariance, PTL DEF Spec, NoUpdateUnderIteration
=============================================================================

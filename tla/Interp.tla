------------------------------- MODULE Interp -------------------------------
(***************************************************************************)
(* A Starlark thread: the call stack (Call, starlark/eval.go), the         *)
(* instruction loop with its step counter, cancellation check and iterator *)
(* stack (Function.CallInternal, starlark/interp.go), the unwinding of     *)
(* frames by deferred functions, and the goroutines that cancel it.        *)
(*                                                                         *)
(* A Starlark function may execute any instruction: the compiled program   *)
(* is abstracted to a free choice, except that ITERPOP finds an iterator   *)
(* on the iterator stack.  A Go callable (a built-in) iterates, updates,   *)
(* freezes, calls functions back, panics and returns; each iterator it     *)
(* makes is released by a deferred Done, as in library.go.  A collection   *)
(* is its iteration count, its frozen flag and one bit of contents.  The   *)
(* profiler is seen in the spans that calls and returns begin and end.     *)
(***************************************************************************)
EXTENDS Integers, Sequences, FiniteSets

CONSTANTS
  Coll,      (* lists, dicts and sets                                      *)
  Reason,    (* reasons other goroutines give to Cancel                    *)
  TooMany,   (* the reason "too many steps"                                *)
  NoReason,  (* the nil cancelReason                                       *)
  Limits,    (* arguments of SetMaxExecutionSteps                          *)
  StepCap,   (* the step counter saturates here, above every limit         *)
  Setups     (* what a thread runs, and how the host set it up; see Setup  *)

Setup == [
  fn : SUBSET {"f", "g"},  (* Starlark functions (Funcodes)                *)
  recursion : BOOLEAN,     (* Program.Recursion                            *)
  depth : Nat,             (* stack limit under Recursion: 100_000 in the  *)
                           (* code                                         *)
  onMaxSteps : BOOLEAN,    (* is there an OnMaxSteps callback (one that    *)
                           (* does nothing)?                               *)
  iters : Nat,             (* bound: iterators per frame                   *)
  goCalls : Nat,           (* bound: calls made by one built-in            *)
  goChain : Nat \ {0},     (* Go callables that call one another in a row: *)
                           (* 2 for a class, which calls a bound __init__  *)
  leaks : Nat]             (* bound: iterators abandoned by UNPACK         *)

ASSUME InterpAssumption ==
  /\ Setups \subseteq Setup
  /\ StepCap \in Nat
  /\ Limits \subseteq 0 .. StepCap - 1
  /\ TooMany \notin Reason /\ NoReason \notin Reason \cup {TooMany}

VARIABLES
  setup,         (* the program and the settings of the thread             *)
  stack,         (* thread.stack: [fn, iters, calls, begun, span], top     *)
                 (* last; span: is time being counted for the frame?       *)
  mode,          (* of the top frame: "enter", "tick", "exec" (Starlark),  *)
                 (* "go" (built-in), or "ret", "err", "panic" (leaving);   *)
                 (* "idle" if the stack is empty                           *)
  steps,         (* thread.Steps                                           *)
  maxSteps,      (* thread.maxSteps                                        *)
  virgin,        (* thread.stack == nil                                    *)
  cancelReason,  (* thread.cancelReason                                    *)
  itercount,     (* itercount of each collection                           *)
  frozen,        (* frozen flag of each collection                         *)
  content,       (* contents of each collection                            *)
  leaked,        (* history: iterations of each collection begun by an     *)
                 (* UNPACK that failed with too many values                *)
  pardoned       (* history: Uncancel was called since the last tick       *)

collVars == <<itercount, frozen, content, leaked>>
vars == <<setup, stack, mode, steps, maxSteps, virgin, cancelReason, collVars, pardoned>>

Fn == setup.fn
Recursion == setup.recursion

Unlimited == StepCap + 1   (* MaxUint64 *)
Top == stack[Len(stack)]
Frame(f) == [fn |-> f, iters |-> <<>>, calls |-> 0, begun |-> FALSE, span |-> TRUE]
SetTop(fr) == [stack EXCEPT ![Len(stack)] = fr]

Init ==
  /\ setup \in Setups
  /\ stack = <<>> /\ mode = "idle"
  /\ steps = 0 /\ maxSteps = 0 /\ virgin = TRUE
  /\ cancelReason = NoReason
  /\ itercount = [c \in Coll |-> 0]
  /\ frozen = [c \in Coll |-> FALSE]
  /\ content = [c \in Coll |-> FALSE]
  /\ leaked = [c \in Coll |-> 0]
  /\ pardoned = FALSE
-----------------------------------------------------------------------------
(* Other goroutines. *)
Cancel(r) ==
  /\ cancelReason = NoReason
  /\ cancelReason' = r
  /\ UNCHANGED <<setup, stack, mode, steps, maxSteps, virgin, collVars, pardoned>>

Uncancel ==
  /\ cancelReason # NoReason
  /\ cancelReason' = NoReason
  /\ pardoned' = TRUE
  /\ UNCHANGED <<setup, stack, mode, steps, maxSteps, virgin, collVars>>

(* The host, between two calls. *)
SetMaxExecutionSteps(n) ==
  /\ mode = "idle"
  /\ maxSteps' = n
  /\ UNCHANGED <<setup, stack, mode, steps, virgin, cancelReason, collVars, pardoned>>
-----------------------------------------------------------------------------
(* A wrong Call, that decrements any limit the first time. *)
PushDecrements(s, f) ==
  /\ stack' = Append(s, Frame(f))
  /\ mode' = "enter"
  /\ virgin' = FALSE
  /\ maxSteps' = IF ~virgin THEN maxSteps ELSE IF maxSteps = 0 THEN Unlimited ELSE maxSteps - 1
  /\ UNCHANGED <<setup, steps, cancelReason, collVars, pardoned>>

(* Call: push a frame.  The first call on a thread gives an unset limit    *)
(* its default.                                                            *)
Push(s, f) ==
  /\ stack' = Append(s, Frame(f))
  /\ mode' = "enter"
  /\ virgin' = FALSE
  /\ maxSteps' = IF virgin /\ maxSteps = 0 THEN Unlimited ELSE maxSteps
  /\ UNCHANGED <<setup, steps, cancelReason, collVars, pardoned>>

HostCall(f) == mode = "idle" /\ Push(stack, f)

(* Wrong recursion checks: only the caller is compared; none at all. *)
RejectedByCaller ==
  IF Recursion THEN Len(stack) > setup.depth
  ELSE Len(stack) > 1 /\ stack[Len(stack) - 1].fn = Top.fn
RejectedNever == FALSE

(* CallInternal before its loop: the recursion checks, then setArgs. *)
Rejected ==
  IF Recursion THEN Len(stack) > setup.depth
  ELSE \E d \in 1 .. Len(stack) - 1 : stack[d].fn = Top.fn

EnterFunction ==
  /\ mode = "enter" /\ Top.fn # "go"
  /\ \/ mode' = "err" /\ UNCHANGED stack   \* rejected, or setArgs fails
     \/ ~Rejected /\ mode' = "tick" /\ stack' = SetTop([Top EXCEPT !.begun = TRUE])
  /\ UNCHANGED <<setup, steps, maxSteps, virgin, cancelReason, collVars, pardoned>>

EnterGo ==
  /\ mode = "enter" /\ Top.fn = "go"
  /\ mode' = "go"
  /\ stack' = SetTop([Top EXCEPT !.begun = TRUE])
  /\ UNCHANGED <<setup, steps, maxSteps, virgin, cancelReason, collVars, pardoned>>

(* A wrong loop head, that lets the counter pass the limit by one. *)
TickPastLimit ==
  /\ mode = "tick"
  /\ steps' = IF steps < StepCap THEN steps + 1 ELSE steps
  /\ cancelReason' = IF steps' > maxSteps /\ ~setup.onMaxSteps /\ cancelReason = NoReason
                     THEN TooMany ELSE cancelReason
  /\ mode' = "exec"
  /\ pardoned' = FALSE
  /\ UNCHANGED <<setup, stack, maxSteps, virgin, collVars>>

(* The head of the instruction loop, up to the load of cancelReason. *)
Tick ==
  /\ mode = "tick"
  /\ steps' = IF steps < StepCap THEN steps + 1 ELSE steps
  /\ cancelReason' = IF steps' >= maxSteps /\ ~setup.onMaxSteps /\ cancelReason = NoReason
                     THEN TooMany ELSE cancelReason
  /\ mode' = "exec"
  /\ pardoned' = FALSE
  /\ UNCHANGED <<setup, stack, maxSteps, virgin, collVars>>

Cancelled ==
  /\ mode = "exec" /\ cancelReason # NoReason
  /\ mode' = "err"
  /\ UNCHANGED <<setup, stack, steps, maxSteps, virgin, cancelReason, collVars, pardoned>>

(* A wrong loop head, that does not look at cancelReason. *)
ExecRegardless == mode = "exec"

(* The load of cancelReason found nil: the instruction is executed. *)
Exec == mode = "exec" /\ cancelReason = NoReason

threadVars == <<setup, steps, maxSteps, virgin, cancelReason, pardoned>>

(* Iterable.Iterate and Iterator.Done of a collection. *)
Counted(c, n) ==
  itercount' = IF frozen[c] THEN itercount ELSE [itercount EXCEPT ![c] = @ + n]

ItersAreFew == Len(Top.iters) < setup.iters

IterPush(c) ==
  /\ Exec /\ ItersAreFew
  /\ stack' = SetTop([Top EXCEPT !.iters = Append(@, c)])
  /\ Counted(c, 1)
  /\ mode' = "tick"
  /\ UNCHANGED <<frozen, content, leaked, threadVars>>

IterPop ==
  /\ Exec /\ Top.iters # <<>>
  /\ LET n == Len(Top.iters)
     IN  /\ Counted(Top.iters[n], -1)
         /\ stack' = SetTop([Top EXCEPT !.iters = SubSeq(@, 1, n - 1)])
  /\ mode' = "tick"
  /\ UNCHANGED <<frozen, content, leaked, threadVars>>

(* UNPACK calls Done when the values suffice or are too few (then it has   *)
(* no effect on the count: ExecOther), and not when there are too many.    *)
UnpackTooMany(c) ==
  /\ Exec /\ leaked[c] < setup.leaks
  /\ Counted(c, 1)
  /\ leaked' = IF frozen[c] THEN leaked ELSE [leaked EXCEPT ![c] = @ + 1]
  /\ mode' = "err"
  /\ UNCHANGED <<stack, frozen, content, threadVars>>

(* A wrong checkMutable, that forgets the iterations. *)
MutableAnytime(c) == ~frozen[c]

(* checkMutable, of lists and of hash tables. *)
Mutable(c) == ~frozen[c] /\ itercount[c] = 0

(* An instruction or a built-in that updates a collection. *)
Update(c, next) ==
  /\ \/ Mutable(c) /\ content' = [content EXCEPT ![c] = ~@] /\ mode' = next
     \/ ~Mutable(c) /\ mode' = "err" /\ UNCHANGED content
  /\ UNCHANGED <<stack, itercount, frozen, leaked, threadVars>>

ExecUpdate(c) == Exec /\ Update(c, "tick")

(* CALL; the iteration over *args ends before the call, and the caller's   *)
(* profiling span is ended by it.                                          *)
ExecCall(f) == Exec /\ Push(SetTop([Top EXCEPT !.span = FALSE]), f)

(* Any other instruction: it goes on, fails, or returns. *)
ExecOther ==
  /\ Exec
  /\ mode' \in {"tick", "err", "ret"}
  /\ UNCHANGED <<stack, collVars, threadVars>>
-----------------------------------------------------------------------------
(* What a built-in may do. *)
GoIterate(c) ==
  /\ mode = "go" /\ ItersAreFew
  /\ stack' = SetTop([Top EXCEPT !.iters = Append(@, c)])
  /\ Counted(c, 1)
  /\ UNCHANGED <<mode, frozen, content, leaked, threadVars>>

GoUpdate(c) == mode = "go" /\ Update(c, "go")

GoFreeze(c) ==
  /\ mode = "go" /\ ~frozen[c]
  /\ frozen' = [frozen EXCEPT ![c] = TRUE]
  /\ UNCHANGED <<stack, mode, itercount, content, leaked, threadVars>>

GoChainFull ==
  \A d \in 0 .. setup.goChain - 1 : d < Len(stack) /\ stack[Len(stack) - d].fn = "go"

GoCall(f) ==
  /\ mode = "go" /\ Top.calls < setup.goCalls
  /\ f = "go" => ~GoChainFull
  /\ Push(SetTop([Top EXCEPT !.calls = @ + 1]), f)

GoLeave ==
  /\ mode = "go"
  /\ mode' \in {"ret", "err", "panic"}
  /\ UNCHANGED <<stack, collVars, threadVars>>
-----------------------------------------------------------------------------
(* The deferred functions of CallInternal (or of the built-in) and of      *)
(* Call: release the remaining iterators, pop the frame.                   *)
Held(fr, c) == Cardinality({j \in DOMAIN fr.iters : fr.iters[j] = c})

(* How the caller goes on: a panic passes through, a Starlark caller fails *)
(* with the callee, a built-in may handle the error.                       *)
Resumptions ==
  LET caller == IF Len(stack) = 1 THEN "host"
                ELSE IF stack[Len(stack) - 1].fn = "go" THEN "go" ELSE "tick"
  IN  CASE caller = "host" -> {"idle"}
        [] caller # "host" /\ mode = "panic" -> {"panic"}
        [] mode = "err" /\ caller = "tick" -> {"err"}
        [] mode = "err" /\ caller = "go" -> {"err", "go"}
        [] OTHER -> {caller}

(* A wrong CALL, that begins a new span only if the call succeeds. *)
PoppedOnSuccess ==
  LET n == Len(stack) - 1
  IN  [d \in 1 .. n |->
         IF d < n \/ mode # "ret" THEN stack[d] ELSE [stack[d] EXCEPT !.span = TRUE]]

(* The stack without its top frame.  CALL begins a new span of its frame   *)
(* whether the call succeeded or failed, but not if it panicked; a         *)
(* built-in's span was not ended by the functions it called.               *)
Popped ==
  LET n == Len(stack) - 1
  IN  [d \in 1 .. n |->
         IF d < n \/ mode = "panic" THEN stack[d] ELSE [stack[d] EXCEPT !.span = TRUE]]

(* The frame without its deferred release of iterators. *)
LeaveWithoutDone ==
  /\ mode \in {"ret", "err", "panic"}
  /\ stack' = Popped
  /\ mode' \in Resumptions
  /\ UNCHANGED <<collVars, threadVars>>

Leave ==
  /\ mode \in {"ret", "err", "panic"}
  /\ itercount' = [c \in Coll |-> IF frozen[c] THEN itercount[c]
                                  ELSE itercount[c] - Held(Top, c)]
  /\ stack' = Popped
  /\ mode' \in Resumptions
  /\ UNCHANGED <<frozen, content, leaked, threadVars>>

Function ==
  \/ EnterFunction \/ Tick \/ Cancelled \/ IterPop \/ ExecOther
  \/ \E f \in Fn \cup {"go"} : ExecCall(f)
  \/ \E c \in Coll : IterPush(c) \/ UnpackTooMany(c) \/ ExecUpdate(c)

Builtin ==
  \/ EnterGo \/ GoLeave
  \/ \E c \in Coll : GoIterate(c) \/ GoUpdate(c) \/ GoFreeze(c)
  \/ \E f \in Fn \cup {"go"} : GoCall(f)

Next ==
  \/ \E f \in Fn \cup {"go"} : HostCall(f)
  \/ \E n \in Limits : SetMaxExecutionSteps(n)
  \/ \E r \in Reason : Cancel(r)
  \/ Uncancel
  \/ Function
  \/ Builtin
  \/ Leave

Spec == Init /\ [][Next]_vars

(* The goroutine that runs the thread is scheduled, and built-ins return.  *)
FairSpec == Spec /\ WF_vars(Function \/ Leave \/ EnterGo) /\ WF_vars(GoLeave)
-----------------------------------------------------------------------------
(* Every variable has its type. *)
TypeOK ==
  /\ \A d \in DOMAIN stack :
       stack[d] \in [fn : Fn \cup {"go"}, iters : Seq(Coll), calls : 0 .. setup.goCalls,
                     begun : BOOLEAN, span : BOOLEAN]
  /\ mode \in {"idle", "enter", "tick", "exec", "go", "ret", "err", "panic"}
  /\ mode = "idle" <=> stack = <<>>
  /\ steps \in 0 .. StepCap
  /\ maxSteps \in Limits \cup {0, Unlimited}
  /\ cancelReason \in Reason \cup {TooMany, NoReason}
  /\ itercount \in [Coll -> Nat]
  /\ leaked \in [Coll -> Nat]

(* The iterators over c: pairs of a frame and a place on its iterator stack. *)
Active(c) == {p \in (DOMAIN stack) \X (1 .. setup.iters) :
                p[2] \in DOMAIN stack[p[1]].iters /\ stack[p[1]].iters[p[2]] = c}

(* A collection that is not frozen is iterated over by exactly as many     *)
(* iterators as its itercount says, whatever mix of loops, built-ins,      *)
(* errors, cancellations, panics and freezing led here; apart from those   *)
(* that UNPACK abandons.                                                   *)
IterAccounting ==
  \A c \in Coll : ~frozen[c] => itercount[c] = Cardinality(Active(c)) + leaked[c]

(* No update succeeds on a collection that is frozen or that some frame of *)
(* the stack is iterating over.                                            *)
NoUpdateUnderIteration ==
  [][\A c \in Coll : content'[c] # content[c] => ~frozen[c] /\ Active(c) = {}]_vars

(* value.go: Iterate "must be followed by call to Iterator.Done": once the *)
(* call returns to the host no collection counts an iterator.              *)
IteratorsReleased ==
  mode = "idle" => \A c \in Coll : ~frozen[c] => itercount[c] = 0

(* Without an OnMaxSteps callback, no instruction executes at or past the  *)
(* limit, unless another goroutine calls Uncancel within that very step.   *)
StepLimitHolds == Exec /\ ~setup.onMaxSteps /\ ~pardoned => steps < maxSteps

(* doc/spec.md: without recursion no function is active twice, however the *)
(* calls pass through built-ins.                                           *)
NoReentry ==
  ~Recursion =>
    \A d, e \in DOMAIN stack :
      stack[d].begun /\ stack[e].begun /\ stack[d].fn = stack[e].fn /\ stack[d].fn # "go"
        => d = e

(* profile.go: the spans of a function are the intervals in which it is    *)
(* "the top of the stack": no time is counted for a Starlark function that *)
(* waits for a call, and none is missed for one that executes, however its *)
(* calls ended.  Go callables that call back are the exception: the time   *)
(* of what they call is counted for them too.                              *)
SpansExact ==
  mode # "panic" =>
    \A d \in DOMAIN stack : stack[d].span <=> d = Len(stack) \/ stack[d].fn = "go"

(* With recursion, the stack stays within the limit of CallInternal, plus  *)
(* the Go callables that do not check it and the call that is rejected.    *)
StackBounded == Recursion => Len(stack) <= setup.depth + setup.goChain + 1

(* Cancel makes the computation fail: unless it is uncancelled, the thread *)
(* leaves all its frames.                                                  *)
CancelStops == cancelReason # NoReason ~> (cancelReason = NoReason \/ stack = <<>>)
=============================================================================

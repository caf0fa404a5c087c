------------------------------ MODULE LoadCache ------------------------------
(***************************************************************************)
(* The module caches behind Load functions: the concurrent one that        *)
(* starlark/example_test.go offers to clients, with duplicate suppression  *)
(* and online detection of load cycles through a waits-for graph, and the  *)
(* sequential one of the REPL (repl.MakeLoadOptions), which marks a module *)
(* whose loading is in progress with a nil entry.                          *)
(*                                                                         *)
(* A thread here is a "thread of loading" (a cycleChecker): the goroutine  *)
(* of one top-level call of Load and the chain of get calls it makes.  A   *)
(* step is the code between two accesses to state that threads share.      *)
(***************************************************************************)
EXTENDS Naturals, Sequences, FiniteSets

CONSTANTS
  Thread,     (* top-level calls of Load                                   *)
  Module,     (* module names                                              *)
  None,       (* the nil pointer, and the nil error                        *)
  Cycle,      (* the error "cycle in load graph"                           *)
  MaxDeps,    (* bound: load statements in one module                      *)
  MaxLoads    (* bound: load statements in all modules                     *)

ASSUME CacheAssumption ==
  /\ IsFiniteSet(Thread) /\ IsFiniteSet(Module)
  /\ None \notin Thread \cup Module \cup {Cycle} /\ Cycle \notin Module
  /\ {"none", "running", "ok"} \cap (Module \cup {None, Cycle}) = {}
  /\ MaxDeps \in Nat /\ MaxLoads \in Nat

VARIABLES
  sequential,  (* is it the cache of the REPL, used by one client at a     *)
               (* time?                                                    *)
  deps,      (* the program: the load statements that the execution of     *)
             (* each module reaches if none of them fails, in order        *)
  cached,    (* modules that have an entry (of the REPL: or a placeholder) *)
  owner,     (* entry.owner                                                *)
  waitsFor,  (* cycleChecker.waitsFor                                      *)
  ready,     (* modules whose entry's ready channel is closed (of the      *)
             (* REPL: whose entry is not nil)                              *)
  fault,     (* entry.err: None, or the error that the failure began with: *)
             (* a cycle, or the module that failed by itself               *)
  stack,     (* calls of get by each thread, innermost last                *)
  result     (* of each thread: "none", "running", "ok", or its error      *)

shared == <<cached, owner, waitsFor, ready, fault>>
vars == <<sequential, deps, shared, stack, result>>

(* A call of get: mod is its argument, at the point it has reached, i the  *)
(* next load statement of mod, e the entry cycleCheck looks at.            *)
Call(m) == [mod |-> m, at |-> "lookup", i |-> 1, e |-> m]

(* A second load of one module by another finds it ready: left out. *)
LoadLists == {d \in UNION {[1 .. n -> Module] : n \in 0 .. MaxDeps} :
                \A i, j \in DOMAIN d : d[i] = d[j] => i = j}
Programs ==
  {p \in [Module -> LoadLists] :
     Cardinality(UNION {{m} \X DOMAIN p[m] : m \in Module}) <= MaxLoads}

Init ==
  /\ sequential \in BOOLEAN
  /\ deps \in Programs
  /\ cached = {} /\ ready = {}
  /\ fault = [m \in Module |-> None]
  /\ owner = [m \in Module |-> None]
  /\ waitsFor = [t \in Thread |-> None]
  /\ stack = [t \in Thread |-> <<>>]
  /\ result = [t \in Thread |-> "none"]
-----------------------------------------------------------------------------
Active(t) == stack[t] # <<>>
Top(t) == stack[t][Len(stack[t])]
At(t, point) == Active(t) /\ Top(t).at = point
Free == sequential => \A t \in Thread : ~Active(t)
Executed == IF sequential THEN "close" ELSE "disown"
Goto(t, point) == stack' = [stack EXCEPT ![t][Len(stack[t])].at = point]

(* The modules that failed, and those of them that failed by themselves.   *)
failed == {m \in Module : fault[m] # None}
broken == {m \in Module : fault[m] = m}

(* get returns to the Load function of the module that called it, which    *)
(* executes its next load statement, or fails for the same reason; or to   *)
(* the client.                                                             *)
Return(t, err) ==
  LET n == Len(stack[t])
      outer == SubSeq(stack[t], 1, n - 1)
  IN  IF n = 1
      THEN /\ stack' = [stack EXCEPT ![t] = <<>>]
           /\ result' = [result EXCEPT ![t] = IF err = None THEN "ok" ELSE err]
           /\ UNCHANGED fault
      ELSE /\ stack' = [stack EXCEPT ![t] =
                          IF err = None THEN [outer EXCEPT ![n - 1].i = @ + 1]
                          ELSE [outer EXCEPT ![n - 1].at = Executed]]
           /\ fault' = IF err = None THEN fault ELSE [fault EXCEPT ![outer[n - 1].mod] = err]
           /\ UNCHANGED result

(* Load *)
Load(t, m) ==
  /\ result[t] = "none" /\ Free
  /\ stack' = [stack EXCEPT ![t] = <<Call(m)>>]
  /\ result' = [result EXCEPT ![t] = "running"]
  /\ UNCHANGED <<sequential, deps, shared>>

(* A wrong get, that does not look for an entry. *)
LookupNothing(t) ==
  /\ At(t, "lookup") /\ ~sequential
  /\ Goto(t, "own")
  /\ cached' = cached \cup {Top(t).mod}
  /\ UNCHANGED <<sequential, deps, owner, waitsFor, ready, fault, result>>

(* The critical section of get. *)
Lookup(t) ==
  /\ At(t, "lookup") /\ ~sequential
  /\ \/ Top(t).mod \in cached /\ Goto(t, "owner") /\ UNCHANGED cached
     \/ Top(t).mod \notin cached /\ Goto(t, "own") /\ cached' = cached \cup {Top(t).mod}
  /\ UNCHANGED <<sequential, deps, owner, waitsFor, ready, fault, result>>

(* The REPL's Load function: the entry found, the cycle its placeholder    *)
(* shows, or a new placeholder; the module is then executed in a thread of *)
(* its own, and its entry replaces the placeholder (Close) even if it      *)
(* failed.                                                                 *)
LookupSequential(t) ==
  /\ At(t, "lookup") /\ sequential
  /\ LET m == Top(t).mod
     IN  \/ m \in ready /\ Return(t, fault[m]) /\ UNCHANGED cached
         \/ m \in cached \ ready /\ Return(t, Cycle) /\ UNCHANGED cached
         \/ /\ m \notin cached
            /\ cached' = cached \cup {m}
            /\ Goto(t, "exec") /\ UNCHANGED <<fault, result>>
  /\ UNCHANGED <<sequential, deps, owner, waitsFor, ready>>

SetOwner(t) ==
  /\ At(t, "own")
  /\ owner' = [owner EXCEPT ![Top(t).mod] = t]
  /\ Goto(t, "exec")
  /\ UNCHANGED <<sequential, deps, cached, waitsFor, ready, fault, result>>

(* doLoad: the module's load statements call get, one after the other.     *)
(* After the last one that it reaches the module ends, or fails by itself: *)
(* there is no such file, it does not parse or resolve (and then reaches   *)
(* no load statement), a name it loads is missing, or a statement fails.   *)
Exec(t) ==
  /\ At(t, "exec")
  /\ LET f == Top(t)
     IN  \/ /\ f.i <= Len(deps[f.mod])
            /\ stack' = [stack EXCEPT ![t] = Append(@, Call(deps[f.mod][f.i]))]
            /\ UNCHANGED fault
         \/ f.i > Len(deps[f.mod]) /\ Goto(t, Executed) /\ UNCHANGED fault
         \/ /\ f.i > Len(deps[f.mod]) /\ Goto(t, Executed)
            /\ fault' = [fault EXCEPT ![f.mod] = f.mod]
  /\ UNCHANGED <<sequential, deps, cached, owner, waitsFor, ready, result>>

(* A wrong setOwner(nil), that leaves the owner. *)
KeepOwner(t) ==
  /\ At(t, "disown")
  /\ Goto(t, "close")
  /\ UNCHANGED <<sequential, deps, shared, result>>

ClearOwner(t) ==
  /\ At(t, "disown")
  /\ owner' = [owner EXCEPT ![Top(t).mod] = None]
  /\ Goto(t, "close")
  /\ UNCHANGED <<sequential, deps, cached, waitsFor, ready, fault, result>>

(* A wrong end of get, that closes ready only when the load succeeded. *)
CloseOnSuccess(t) ==
  /\ At(t, "close")
  /\ ready' = IF Top(t).mod \in failed THEN ready ELSE ready \cup {Top(t).mod}
  /\ Return(t, fault[Top(t).mod])
  /\ UNCHANGED <<sequential, deps, cached, owner, waitsFor>>

Close(t) ==
  /\ At(t, "close")
  /\ ready' = ready \cup {Top(t).mod}
  /\ Return(t, fault[Top(t).mod])
  /\ UNCHANGED <<sequential, deps, cached, owner, waitsFor>>

(* cycleCheck alternates between the two loads of its loop. *)
LoadOwner(t) ==
  /\ At(t, "owner")
  /\ LET o == owner[Top(t).e]
     IN  \/ o = None /\ Goto(t, "wait") /\ UNCHANGED <<fault, result>>
         \/ o = t /\ Return(t, Cycle)
         \/ /\ o \notin {None, t}
            /\ stack' = [stack EXCEPT ![t][Len(stack[t])].at = "waitsFor",
                                      ![t][Len(stack[t])].e = o]
            /\ UNCHANGED <<fault, result>>
  /\ UNCHANGED <<sequential, deps, cached, owner, waitsFor, ready>>

LoadWaitsFor(t) ==
  /\ At(t, "waitsFor")
  /\ LET e == waitsFor[Top(t).e]
     IN  stack' = [stack EXCEPT ![t][Len(stack[t])].at = IF e = None THEN "wait" ELSE "owner",
                                ![t][Len(stack[t])].e = IF e = None THEN @ ELSE e]
  /\ UNCHANGED <<sequential, deps, shared, result>>

SetWaitsFor(t) ==
  /\ At(t, "wait")
  /\ waitsFor' = [waitsFor EXCEPT ![t] = Top(t).mod]
  /\ Goto(t, "blocked")
  /\ UNCHANGED <<sequential, deps, cached, owner, ready, fault, result>>

(* A wrong receive, that does not block. *)
ReceiveAtOnce(t) ==
  /\ At(t, "blocked")
  /\ waitsFor' = [waitsFor EXCEPT ![t] = None]
  /\ Return(t, fault[Top(t).mod])
  /\ UNCHANGED <<sequential, deps, cached, owner, ready>>

(* The receive from ready and setWaitsFor(nil): nobody is misled by an     *)
(* edge to an entry that has no owner any more, so they are one step.      *)
Receive(t) ==
  /\ At(t, "blocked") /\ Top(t).mod \in ready
  /\ waitsFor' = [waitsFor EXCEPT ![t] = None]
  /\ Return(t, fault[Top(t).mod])
  /\ UNCHANGED <<sequential, deps, cached, owner, ready>>

Step(t) ==
  \/ Lookup(t) \/ LookupSequential(t) \/ SetOwner(t) \/ Exec(t) \/ ClearOwner(t) \/ Close(t)
  \/ LoadOwner(t) \/ LoadWaitsFor(t) \/ SetWaitsFor(t) \/ Receive(t)

Next == \E t \in Thread : Step(t) \/ \E m \in Module : Load(t, m)

Spec == Init /\ [][Next]_vars

(* Every goroutine is scheduled. *)
FairSpec == Spec /\ \A t \in Thread : WF_vars(Step(t))
-----------------------------------------------------------------------------
(* Every variable has its type. *)
TypeOK ==
  /\ cached \subseteq Module /\ ready \subseteq cached /\ failed \subseteq cached
  /\ fault \in [Module -> Module \cup {None, Cycle}]
  /\ owner \in [Module -> Thread \cup {None}]
  /\ waitsFor \in [Thread -> Module \cup {None}]
  /\ result \in [Thread -> {"none", "running", "ok", Cycle} \cup Module]
  /\ \A t \in Thread : result[t] = "running" <=> Active(t)

(* The modules that m loads, directly or not. *)
Needs(m) ==
  {n \in Module : \A S \in SUBSET Module :
     (\A p \in S \cup {m} : \A i \in DOMAIN deps[p] : deps[p][i] \in S) => n \in S}
Acyclic == \A m \in Module : m \notin Needs(m)

(* The calls of get that are making module m's entry ready. *)
Loaders(m) ==
  {p \in Thread \X (1 .. Cardinality(Module) + 1) :
     LET s == stack[p[1]]
     IN  /\ p[2] \in DOMAIN s /\ s[p[2]].mod = m
         /\ s[p[2]].at \in {"own", "exec", "disown", "close"}}

(* Duplicate suppression without lost wake-ups: as long as an entry is not *)
(* ready exactly one call is making it ready, so that whoever waits for it *)
(* has somebody to wait for; and the edges of the waits-for graph are what *)
(* the comment on cycleCheck says they are.                                *)
EveryEntryHasOneLoader ==
  /\ TypeOK
  /\ \A m \in cached \ ready : Cardinality(Loaders(m)) = 1
  /\ \A m \in Module : owner[m] # None => \E d \in 1 .. Cardinality(Module) + 1 :
                                            <<owner[m], d>> \in Loaders(m)
  /\ \A t \in Thread : waitsFor[t] # None => At(t, "blocked") /\ Top(t).mod = waitsFor[t]

(* A module is loaded successfully only once everything it needs is, and   *)
(* never if it is part of a cycle, whoever loaded which part.              *)
LoadedIsClosed ==
  \A m \in ready \ failed : m \notin Needs(m) /\ Needs(m) \subseteq ready \ failed

(* What an error means.  A client that is alone succeeds if it met neither *)
(* a load cycle nor a module that fails by itself; it is told of a cycle   *)
(* if it met one, and of a module's failure if that module, and only it,   *)
(* failed by itself.  In the REPL's cache, whose placeholders tell a cycle *)
(* from a load that failed, the same holds of every entry, no matter which *)
(* modules were asked for before: it has an error exactly if its module    *)
(* leads to a cycle or to a failure, and the error is one of those.        *)
AloneExact ==
  /\ \A t \in Thread : (\A u \in Thread \ {t} : result[u] = "none") =>
       /\ result[t] = "ok" => broken = {} /\ \A m \in cached : m \notin Needs(m)
       /\ result[t] = Cycle => broken = {} /\ \E m \in cached : m \in Needs(m)
       /\ result[t] \in Module => broken = {result[t]}
  /\ sequential => \A m \in ready :
       LET Reached == Needs(m) \cup {m}
       IN  /\ fault[m] = None => \A n \in Reached : n \notin Needs(n) /\ n \notin broken
           /\ fault[m] = Cycle => \E n \in Reached : n \in Needs(n)
           /\ fault[m] \in Module => fault[m] \in broken \cap Reached

(* If the load graph has no cycle, every call of Load returns.             *)
AcyclicReturns ==
  \A t \in Thread : Acyclic /\ result[t] = "running" ~> result[t] # "running"
=============================================================================

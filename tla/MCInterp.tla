------------------------------- MODULE MCInterp ------------------------------
(***************************************************************************)
(* Two set-ups for checking Interp with TLC: two functions that may not    *)
(* recur, with the default step limit, and one that recurs, in a thread    *)
(* with an OnMaxSteps callback.                                            *)
(***************************************************************************)
EXTENDS Interp

Plain == [fn |-> {"f", "g"}, recursion |-> FALSE, depth |-> 3, onMaxSteps |-> FALSE,
          iters |-> 1, goCalls |-> 1, goChain |-> 1, leaks |-> 1]
Recursive == [fn |-> {"f"}, recursion |-> TRUE, depth |-> 2, onMaxSteps |-> TRUE,
              iters |-> 1, goCalls |-> 1, goChain |-> 2, leaks |-> 1]

MCSetups == {Plain, Recursive}
JustPlain == {Plain}
=============================================================================

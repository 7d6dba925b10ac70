------------------------- MODULE MCCircuitBreakerMW -------------------------
(* CircuitBreakerMW for TLC: callers and models are interchangeable. *)
EXTENDS CircuitBreakerMW, TLC

CallAndModelSymmetry == Permutations(Calls) \cup Permutations(Models)
=============================================================================

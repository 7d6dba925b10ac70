------------------------------ MODULE Breakers ------------------------------
(***************************************************************************)
(* The breaker asked directly, and another one behind its middleware: two  *)
(* components that share nothing.  The middleware with its breaker is an    *)
(* instance with variables of its own, and what is said of it is said here. *)
(***************************************************************************)
EXTENDS CircuitBreaker

CONSTANTS
  MWCalls,                          \* the calls through the middleware
  Provider, Models, MaxModelKeys,
  MWFailures, MWSuccesses, MWProbes, MWOpen   \* the thresholds of its breaker

ASSUME MiddlewareConstants ==
  /\ IsFiniteSet(MWCalls) /\ Provider \notin Models /\ MaxModelKeys \in Nat
  /\ {MWFailures, MWSuccesses, MWProbes, MWOpen} \subseteq Nat \ {0}

VARIABLES
  mwBreaker, mwRunning, mwKey, mwProbe, mwHealthy,
  seen, mwpc, model, target, mayHoldProbe, verdict

MW == INSTANCE CircuitBreakerMW WITH
  Calls <- MWCalls, Keys <- Models \cup {Provider},
  FailureThreshold <- MWFailures, SuccessThreshold <- MWSuccesses,
  HalfOpenMaxCalls <- MWProbes, OpenDuration <- MWOpen,
  breaker <- mwBreaker, running <- mwRunning, key <- mwKey, probe <- mwProbe,
  healthy <- mwHealthy

\* Behind the middleware two requests for one model that are being served use one
\* breaker, no more models than the bound leave a breaker behind, and no more probes
\* run than are counted, so the bound on probes holds although State and Allow are
\* two critical sections.
MiddlewareKeys == MW!ModelKeys /\ MW!ProbesNotUndercounted
=============================================================================

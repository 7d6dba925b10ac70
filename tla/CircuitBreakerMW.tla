-------------------------- MODULE CircuitBreakerMW --------------------------
(***************************************************************************)
(* The middleware of internal/runtime/mw/circuitbreaker.go in front of one *)
(* provider.  Complete derives a key from the request's model, reads the   *)
(* breaker's State, asks Allow, runs the call and reports what it says of  *)
(* the endpoint.  State and Allow are separate critical sections of the    *)
(* breaker, so other calls come between them.                              *)
(***************************************************************************)
EXTENDS CircuitBreaker

CONSTANTS
  Provider,       \* the key of the provider alone
  Models,         \* "provider/model" keys requests may ask for; Keys are these two
  MaxModelKeys    \* circuitBreakerMaxModelKeys

VARIABLES
  seen,           \* models that were given a key of their own
  mwpc,           \* where Complete is
  model,          \* the model of the request; Provider when it names none
  target,         \* the key Complete uses
  mayHoldProbe,
  verdict         \* what a returned call says of the endpoint

mwVars == <<vars, seen, mwpc, model, target, mayHoldProbe, verdict>>

MWInit ==
  /\ Init
  /\ key = [c \in Calls |-> Provider]
  /\ seen = {}
  /\ mwpc = [c \in Calls |-> "idle"]
  /\ model = [c \in Calls |-> Provider]
  /\ target = [c \in Calls |-> Provider]
  /\ mayHoldProbe = [c \in Calls |-> FALSE]
  /\ verdict = [c \in Calls |-> "none"]

-----------------------------------------------------------------------------

\* A model keeps the key it has; past the bound a new one shares the
\* provider's.  KeyByModel off is a run in which every request names none.
admit_RoomFirst(m) == Cardinality(seen) < MaxModelKeys   \* Mutant
admit_Unbounded(m) == TRUE                               \* Mutant
admit(m) == m \in seen \/ Cardinality(seen) < MaxModelKeys

Key(c) ==
  /\ mwpc[c] = "idle"
  /\ \E m \in Models \cup {Provider} :
       /\ model' = [model EXCEPT ![c] = m]
       /\ IF m # Provider /\ admit(m)
          THEN /\ seen' = seen \cup {m}
               /\ target' = [target EXCEPT ![c] = m]
          ELSE /\ target' = [target EXCEPT ![c] = Provider]
               /\ UNCHANGED seen
  /\ mwpc' = [mwpc EXCEPT ![c] = "keyed"]
  /\ UNCHANGED <<vars, mayHoldProbe, verdict>>

ReadState(c) ==
  /\ mwpc[c] = "keyed"
  /\ mayHoldProbe' = [mayHoldProbe EXCEPT
       ![c] = currentState(breaker[target[c]]) # "closed"]
  /\ mwpc' = [mwpc EXCEPT ![c] = "read"]
  /\ UNCHANGED <<vars, seen, model, target, verdict>>

\* Complete returns and its locals are gone.
Ended(c) ==
  /\ mwpc' = [mwpc EXCEPT ![c] = "idle"]
  /\ model' = [model EXCEPT ![c] = Provider]
  /\ target' = [target EXCEPT ![c] = Provider]
  /\ mayHoldProbe' = [mayHoldProbe EXCEPT ![c] = FALSE]
  /\ verdict' = [verdict EXCEPT ![c] = "none"]

AskAllow(c) ==
  /\ mwpc[c] = "read"
  /\ Allow(c, target[c])
  /\ IF c \in running'
     THEN /\ mwpc' = [mwpc EXCEPT ![c] = "next"]
          /\ UNCHANGED <<model, target, mayHoldProbe, verdict>>
     ELSE Ended(c)
  /\ UNCHANGED seen

\* What the error of a call is, as far as the breaker tells errors apart.
ErrorClass ==
  {"none",        \* no error
   "canceled",    \* KindCanceled
   "timeout",     \* KindTimeout
   "callersDoing",\* authentication, invalid request, policy, budget, refusal
   "badAnswer",   \* cut off, malformed, failing its checks, held for review
   "invariant",   \* an invariant violation that is not a panic
   "panic",       \* a panic, here or (NarrowPanic) below
   "outage"}      \* everything else: rate limit, 5xx, network, unclassified

circuitOutcomeOf(ctxEnded, err) ==
  CASE err = "none" -> "success"
    [] err = "timeout" /\ ctxEnded -> "noVerdict"
    [] err \in {"canceled", "callersDoing", "badAnswer", "invariant"}
         -> "noVerdict"
    [] OTHER -> "failure"

\* The wrapped provider returns or panics; both end in a verdict.
NextReturns(c) ==
  /\ mwpc[c] = "next"
  /\ \E err \in ErrorClass, ctxEnded \in BOOLEAN :
       verdict' = [verdict EXCEPT ![c] = circuitOutcomeOf(ctxEnded, err)]
  /\ mwpc' = [mwpc EXCEPT ![c] = "judged"]
  /\ UNCHANGED <<vars, seen, model, target, mayHoldProbe>>

\* A call without a verdict that is believed to hold no probe reports nothing.
Silent(c) == verdict[c] = "noVerdict" /\ ~mayHoldProbe[c]

Unreported(c) ==
  /\ running' = running \ {c}
  /\ probe' = [probe EXCEPT ![c] = FALSE]
  /\ UNCHANGED <<breaker, key, healthy>>

Report(c) ==
  /\ mwpc[c] = "judged"
  /\ IF Silent(c) THEN Unreported(c)
     ELSE report(c, IF verdict[c] = "failure" THEN "failed" ELSE "succeeded")
  /\ Ended(c)
  /\ UNCHANGED seen

MWTick == Tick /\ UNCHANGED <<seen, mwpc, model, target, mayHoldProbe, verdict>>

MWNext ==
  \/ \E c \in Calls : Key(c) \/ ReadState(c) \/ AskAllow(c)
                       \/ NextReturns(c) \/ Report(c)
  \/ MWTick

MWSpec == MWInit /\ [][MWNext]_mwVars

-----------------------------------------------------------------------------

\* key and admit: two requests for one model that are being served use the
\* same breaker, also when the table of keys fills up between them, so that an
\* outage of a model is not counted in two places.
KeyStable == \A c, d \in Calls :
  mwpc[c] # "idle" /\ mwpc[d] # "idle" /\ model[c] = model[d]
    => target[c] = target[d]

\* circuitBreakerMaxModelKeys: models beyond the bound leave nothing behind
\* in the breaker, which never forgets a key.
KeysBounded ==
  Cardinality({k \in Models : breaker[k] # Fresh
                 \/ \E c \in running : key[c] = k}) <= MaxModelKeys

\* Keys of models: one for each model, and no more of them than the bound.
ModelKeys == KeyStable /\ KeysBounded

\* What a probe that is not given back would do to a half-open breaker: a slot
\* may be counted that no running call holds (see ProbesCounted), but never
\* the other way round, so the bound on concurrent probes holds for the
\* middleware too.
ProbesNotUndercounted == \A k \in Keys :
  Cardinality(Probes(k)) <= breaker[k].halfOpenInFlight

\* The comment on mayHoldProbe: a call admitted while the breaker was anything
\* but closed holds a probe slot that has to be given back.
ProbesReturned == \A k \in Keys :
  breaker[k].halfOpenInFlight = Cardinality(Probes(k))

-----------------------------------------------------------------------------
(* The inductive invariant of the proofs. *)

\* A request uses its model's key if the model has one, and a model without one found
\* the table full.
Keyed == \A c \in Calls :
  /\ target[c] \in seen \cup {Provider}
  /\ mwpc[c] # "idle" =>
       /\ target[c] = IF model[c] \in seen THEN model[c] ELSE Provider
       /\ model[c] \in Models \ seen => Cardinality(seen) >= MaxModelKeys

\* The breaker knows only the keys that were handed out.
KeysHandedOut == \A k \in Models :
  breaker[k] # Fresh \/ (\E c \in running : key[c] = k) => k \in seen

MWInv ==
  /\ TypeOK /\ IsFiniteSet(seen) /\ seen \subseteq Models
  /\ Cardinality(seen) <= MaxModelKeys
  /\ mwpc \in [Calls -> {"idle", "keyed", "read", "next", "judged"}]
  /\ model \in [Calls -> Models \cup {Provider}] /\ target \in [Calls -> Keys]
  /\ Keyed /\ KeysHandedOut /\ ProbesNotUndercounted
=============================================================================

--------------------------- MODULE CircuitBreaker ---------------------------
(***************************************************************************)
(* The keyed circuit breaker of internal/ops/resilience.go.  Allow and the *)
(* report it hands out are one critical section each, so each is an        *)
(* action.  Callers make one call after another; a call is admitted by     *)
(* Allow, runs, and reports once (a sync.Once makes a second report void). *)
(*                                                                         *)
(* openedAt and the clock are only ever compared with OpenDuration, so the *)
(* model keeps the age of an open period, which stops growing once the     *)
(* period has elapsed.                                                     *)
(***************************************************************************)
EXTENDS Integers, FiniteSets

CONSTANTS
  Calls,             \* callers, each with at most one call running
  Keys,              \* endpoints, or endpoints with a model
  FailureThreshold, SuccessThreshold, HalfOpenMaxCalls, OpenDuration

\* withDefaults replaces every threshold that is not positive.
ASSUME ThresholdsPositive ==
  /\ FailureThreshold \in Nat \ {0}
  /\ SuccessThreshold \in Nat \ {0}
  /\ HalfOpenMaxCalls \in Nat \ {0}
  /\ OpenDuration \in Nat \ {0}

ASSUME CallsFinite == IsFiniteSet(Calls)

VARIABLES
  breaker,    \* key -> breakerState
  running,    \* the calls that were admitted and have not reported
  key,        \* the key a running call was admitted for
  probe,      \* whether it was admitted as a half-open probe
  healthy     \* whether the endpoints have recovered for good (environment)

vars == <<breaker, running, key, probe, healthy>>

CircuitState == {"closed", "open", "halfOpen"}
callOutcome == {"succeeded", "failed", "neutral"}

breakerState ==
  [state : CircuitState, consecutiveFails : Nat, consecutiveOK : Nat,
   age : Nat, halfOpenInFlight : Nat]

\* A key is created on first use, closed and with nothing counted.
Fresh == [state |-> "closed", consecutiveFails |-> 0, consecutiveOK |-> 0,
          age |-> 0, halfOpenInFlight |-> 0]

Init ==
  /\ breaker = [k \in Keys |-> Fresh]
  /\ running = {}
  /\ key \in [Calls -> Keys]
  /\ probe = [c \in Calls |-> FALSE]
  /\ healthy = FALSE

-----------------------------------------------------------------------------
(* Allow *)

currentState(st) ==
  IF st.state = "open" /\ st.age >= OpenDuration THEN "halfOpen" ELSE st.state

\* The first caller to notice that the open period has elapsed half-opens the
\* breaker; probes of an earlier half-open period keep their slots.
HalfOpened_ResetsProbes(st) ==    \* Mutant: the slots are handed out again
  IF st.state = "halfOpen" THEN st
  ELSE [st EXCEPT !.state = "halfOpen", !.consecutiveOK = 0,
                  !.halfOpenInFlight = 0]
HalfOpened_EveryProbe(st) ==      \* Mutant: each probe starts the count again
  [st EXCEPT !.state = "halfOpen", !.consecutiveOK = 0]
HalfOpened(st) ==
  IF st.state = "halfOpen" THEN st
  ELSE [st EXCEPT !.state = "halfOpen", !.consecutiveOK = 0]

ProbeFree_OneMore(st) == st.halfOpenInFlight <= HalfOpenMaxCalls  \* Mutant
ProbeFree(st) == st.halfOpenInFlight < HalfOpenMaxCalls

Admitted(c, k, asProbe) ==
  /\ running' = running \cup {c}
  /\ key' = [key EXCEPT ![c] = k]
  /\ probe' = [probe EXCEPT ![c] = asProbe]

AllowClosed(c, k) ==
  /\ currentState(breaker[k]) = "closed"
  /\ Admitted(c, k, FALSE)
  /\ UNCHANGED breaker

AllowProbe(c, k) ==
  /\ currentState(breaker[k]) = "halfOpen"
  /\ LET st == HalfOpened(breaker[k])
     IN  /\ ProbeFree(st)
         /\ breaker' = [breaker EXCEPT ![k] =
                          [st EXCEPT !.halfOpenInFlight = @ + 1]]
  /\ Admitted(c, k, TRUE)

\* Refused with KindCircuitOpen.  The transition to half-open has been made
\* even when every probe slot is still held.
AllowRefused(k) ==
  /\ \/ /\ currentState(breaker[k]) = "open"
        /\ UNCHANGED breaker
     \/ /\ currentState(breaker[k]) = "halfOpen"
        /\ ~ProbeFree(HalfOpened(breaker[k]))
        /\ breaker' = [breaker EXCEPT ![k] = HalfOpened(@)]
  /\ UNCHANGED <<running, key, probe>>

Allow(c, k) ==
  /\ c \notin running
  /\ AllowClosed(c, k) \/ AllowProbe(c, k) \/ AllowRefused(k)
  /\ UNCHANGED healthy

-----------------------------------------------------------------------------
(* report *)

\* A probe gives its slot back first, whatever state the breaker is in by now.
SlotReturned_WhenHalfOpen(st, wasProbe) ==  \* Mutant: only in that state
  IF wasProbe /\ st.halfOpenInFlight > 0 /\ st.state = "halfOpen"
  THEN [st EXCEPT !.halfOpenInFlight = @ - 1] ELSE st
SlotReturned(st, wasProbe) ==
  IF wasProbe /\ st.halfOpenInFlight > 0
  THEN [st EXCEPT !.halfOpenInFlight = @ - 1] ELSE st

Opened(st) == [st EXCEPT !.state = "open", !.age = 0]

ProbeVerdict(st, success) ==
  IF ~success THEN [Opened(st) EXCEPT !.consecutiveOK = 0]
  ELSE IF st.consecutiveOK + 1 >= SuccessThreshold
       THEN [st EXCEPT !.state = "closed", !.consecutiveFails = 0,
                       !.consecutiveOK = 0]
       ELSE [st EXCEPT !.consecutiveOK = @ + 1]

ClosedVerdict(st, success) ==
  IF success THEN [st EXCEPT !.consecutiveFails = 0]
  ELSE IF st.consecutiveFails + 1 >= FailureThreshold
       THEN [Opened(st) EXCEPT !.consecutiveFails = 0]
       ELSE [st EXCEPT !.consecutiveFails = @ + 1]

\* What a call with a verdict does to the state; a call admitted while the
\* breaker was closed says nothing about the recovery a probe tests, and an
\* open breaker takes no verdicts.
Judged_LateCallsCount(st, wasProbe, success) ==  \* Mutant
  CASE st.state = "halfOpen" -> ProbeVerdict(st, success)
    [] st.state = "closed"   -> ClosedVerdict(st, success)
    [] OTHER                 -> st
Judged(st, wasProbe, success) ==
  CASE st.state = "halfOpen" /\ wasProbe -> ProbeVerdict(st, success)
    [] st.state = "closed"               -> ClosedVerdict(st, success)
    [] OTHER                             -> st

Reported_NeutralFirst(st, wasProbe, outcome) ==  \* Mutant: before the slot
  IF outcome = "neutral" THEN st
  ELSE Judged(SlotReturned(st, wasProbe), wasProbe, outcome = "succeeded")
Reported(st, wasProbe, outcome) ==
  LET back == SlotReturned(st, wasProbe)
  IN  IF outcome = "neutral" THEN back
      ELSE Judged(back, wasProbe, outcome = "succeeded")

report(c, outcome) ==
  /\ c \in running
  /\ breaker' = [breaker EXCEPT ![key[c]] = Reported(@, probe[c], outcome)]
  /\ running' = running \ {c}
  /\ probe' = [probe EXCEPT ![c] = FALSE]
  /\ UNCHANGED <<key, healthy>>

-----------------------------------------------------------------------------
(* The clock and the endpoints *)

\* Time passes for every key at once.
Tick ==
  /\ \E k \in Keys : breaker[k].state = "open" /\ breaker[k].age < OpenDuration
  /\ breaker' = [k \in Keys |->
       IF breaker[k].state = "open" /\ breaker[k].age < OpenDuration
       THEN [breaker[k] EXCEPT !.age = @ + 1] ELSE breaker[k]]
  /\ UNCHANGED <<running, key, probe, healthy>>

\* From here on every call succeeds.
Recover ==
  /\ ~healthy
  /\ healthy' = TRUE
  /\ UNCHANGED <<breaker, running, key, probe>>

Finish(c) == \E o \in callOutcome :
  /\ healthy => o = "succeeded"
  /\ report(c, o)

Next ==
  \/ \E c \in Calls, k \in Keys : Allow(c, k)
  \/ \E c \in Calls : Finish(c)
  \/ Tick
  \/ Recover

Spec == Init /\ [][Next]_vars

\* Calls return and are reported, time passes, and every endpoint keeps being
\* asked for: the traffic the breaker stands in front of.
LiveSpec ==
  /\ Spec
  /\ WF_vars(Tick)
  /\ \A c \in Calls : WF_vars(Finish(c))
  /\ \A k \in Keys : SF_vars(\E c \in Calls :
       Allow(c, k) /\ running' # running)

-----------------------------------------------------------------------------
(* Properties *)

TypeOK ==
  /\ breaker \in [Keys -> breakerState]
  /\ running \subseteq Calls
  /\ key \in [Calls -> Keys]
  /\ probe \in [Calls -> BOOLEAN]
  /\ healthy \in BOOLEAN

Probes(k) == {c \in running : probe[c] /\ key[c] = k}

\* allow and report: the counter of half-open probes is the number of probes
\* that run, although the breaker may have re-opened, half-opened again or
\* closed since they were admitted.  A lower count admits a burst to an
\* endpoint that has just failed; a higher one refuses every call for ever.
ProbesCounted == \A k \in Keys :
  breaker[k].halfOpenInFlight = Cardinality(Probes(k))

\* Allow's promise: no more than HalfOpenMaxCalls probes of a key run at once,
\* those of earlier half-open periods included.
ProbesBounded == \A k \in Keys : Cardinality(Probes(k)) <= HalfOpenMaxCalls

\* allow and report keep both: the count of probes is exact and the bound holds.
ProbesExact == ProbesCounted /\ ProbesBounded

\* The counters stay below their thresholds and are cleared when they are
\* reached, so no streak is carried over from one period into a later one:
\* an open breaker holds no failures, and only a half-open one successes.
NoStreakCarried == \A k \in Keys :
  LET st == breaker[k]
  IN  /\ st.consecutiveFails < FailureThreshold
      /\ st.consecutiveOK < SuccessThreshold
      /\ st.state # "closed" => st.consecutiveFails = 0
      /\ st.state = "closed" => st.consecutiveOK = 0

\* A breaker that has tripped closes only by a successful probe: it never
\* closes in a step that leaves as many probes running, whatever calls of the
\* closed period report late.
ClosesByProbe == [][\A k \in Keys :
  breaker[k].state # "closed" /\ breaker'[k].state = "closed"
    => \E c \in Probes(k) : running' = running \ {c}]_vars

\* The breaker of an endpoint that has recovered closes and stays closed: no
\* late report, no probe slot that was never given back and no open period
\* keeps it from admitting calls.
Recovers == healthy ~> [](\A k \in Keys : breaker[k].state = "closed")
=============================================================================

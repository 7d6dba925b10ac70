------------------------ MODULE CircuitBreakerProofs ------------------------
(***************************************************************************)
(* What CircuitBreaker guarantees for every set of callers and keys and    *)
(* every threshold.  The inductive invariant is the type invariant with    *)
(* the exact count of probes, from which the bound on them follows, and    *)
(* the bounds on the two streaks.  The second half does the same for the   *)
(* breaker behind the middleware, whose requests hold a key across two     *)
(* critical sections: there the invariant ties every request's key to the  *)
(* models that were handed one.                                            *)
(***************************************************************************)
EXTENDS Breakers, TLAPS, FiniteSetTheorems

\* Every helper of Allow and report yields a breakerState again, and says how
\* it moves the count of probes.
LEMMA HalfOpenedShape ==
  ASSUME NEW st \in breakerState
  PROVE  /\ HalfOpened(st) \in breakerState
         /\ HalfOpened(st).state = "halfOpen"
         /\ HalfOpened(st).halfOpenInFlight = st.halfOpenInFlight
         /\ HalfOpened(st).consecutiveFails = st.consecutiveFails
         /\ HalfOpened(st).consecutiveOK \in {0, st.consecutiveOK}
BY DEF HalfOpened, breakerState, CircuitState

\* Giving a slot back lowers the count of probes by one, for a probe only.
LEMMA SlotReturnedShape ==
  ASSUME NEW st \in breakerState, NEW p \in BOOLEAN,
         p => st.halfOpenInFlight > 0
  PROVE  /\ SlotReturned(st, p) \in breakerState
         /\ SlotReturned(st, p).halfOpenInFlight
              = IF p THEN st.halfOpenInFlight - 1 ELSE st.halfOpenInFlight
         /\ SlotReturned(st, p).state = st.state
         /\ SlotReturned(st, p).consecutiveFails = st.consecutiveFails
         /\ SlotReturned(st, p).consecutiveOK = st.consecutiveOK
BY DEF SlotReturned, breakerState

\* NoStreakCarried for one key.
Streak(st) ==
  /\ st.consecutiveFails < FailureThreshold
  /\ st.consecutiveOK < SuccessThreshold
  /\ st.state # "closed" => st.consecutiveFails = 0
  /\ st.state = "closed" => st.consecutiveOK = 0

Good(st, after) ==
  /\ after \in breakerState
  /\ after.halfOpenInFlight = st.halfOpenInFlight
  /\ Streak(after)

\* The six updates a verdict can make to a record.
LEMMA ProbeUpdates ==
  ASSUME NEW st \in breakerState, Streak(st), st.state = "halfOpen"
  PROVE  /\ Good(st, [st EXCEPT !.state = "open", !.age = 0, !.consecutiveOK = 0])
         /\ Good(st, [st EXCEPT !.state = "closed", !.consecutiveFails = 0,
                                !.consecutiveOK = 0])
         /\ ~(st.consecutiveOK + 1 >= SuccessThreshold) =>
              Good(st, [st EXCEPT !.consecutiveOK = st.consecutiveOK + 1])
<1>1. Good(st, [st EXCEPT !.state = "open", !.age = 0, !.consecutiveOK = 0])
  <2> DEFINE new == [st EXCEPT !.state = "open", !.age = 0, !.consecutiveOK = 0]
  <2>1. new \in breakerState
    BY DEF breakerState, CircuitState
  <2>2. /\ new.state = "open" /\ new.halfOpenInFlight = st.halfOpenInFlight
        /\ new.consecutiveFails = st.consecutiveFails /\ new.consecutiveOK = 0
    BY DEF breakerState
  <2> HIDE DEF new
  <2>3. Good(st, new)
    BY <2>1, <2>2, ThresholdsPositive DEF Good, Streak, breakerState
  <2> QED  BY <2>3 DEF new
<1>2. Good(st, [st EXCEPT !.state = "closed", !.consecutiveFails = 0,
                          !.consecutiveOK = 0])
  <2> DEFINE new == [st EXCEPT !.state = "closed", !.consecutiveFails = 0,
                                !.consecutiveOK = 0]
  <2>1. new \in breakerState
    BY DEF breakerState, CircuitState
  <2>2. /\ new.state = "closed" /\ new.halfOpenInFlight = st.halfOpenInFlight
        /\ new.consecutiveFails = 0 /\ new.consecutiveOK = 0
    BY DEF breakerState
  <2> HIDE DEF new
  <2>3. Good(st, new)
    BY <2>1, <2>2, ThresholdsPositive DEF Good, Streak, breakerState
  <2> QED  BY <2>3 DEF new
<1>3. ASSUME ~(st.consecutiveOK + 1 >= SuccessThreshold)
      PROVE  Good(st, [st EXCEPT !.consecutiveOK = st.consecutiveOK + 1])
  BY <1>3, ThresholdsPositive DEF Good, Streak, breakerState
<1> QED  BY <1>1, <1>2, <1>3

\* The updates of a closed breaker keep its streaks in bounds.
LEMMA ClosedUpdates ==
  ASSUME NEW st \in breakerState, Streak(st), st.state = "closed"
  PROVE  /\ Good(st, [st EXCEPT !.consecutiveFails = 0])
         /\ Good(st, [st EXCEPT !.state = "open", !.age = 0,
                                !.consecutiveFails = 0])
         /\ ~(st.consecutiveFails + 1 >= FailureThreshold) =>
              Good(st, [st EXCEPT !.consecutiveFails = st.consecutiveFails + 1])
<1>1. Good(st, [st EXCEPT !.consecutiveFails = 0])
  BY ThresholdsPositive DEF Good, Streak, breakerState
<1>2. Good(st, [st EXCEPT !.state = "open", !.age = 0, !.consecutiveFails = 0])
  <2> DEFINE new == [st EXCEPT !.state = "open", !.age = 0, !.consecutiveFails = 0]
  <2>1. new \in breakerState
    BY DEF breakerState, CircuitState
  <2>2. /\ new.state = "open" /\ new.halfOpenInFlight = st.halfOpenInFlight
        /\ new.consecutiveFails = 0 /\ new.consecutiveOK = st.consecutiveOK
    BY DEF breakerState
  <2> HIDE DEF new
  <2>3. Good(st, new)
    BY <2>1, <2>2, ThresholdsPositive DEF Good, Streak, breakerState
  <2> QED  BY <2>3 DEF new
<1>3. ASSUME ~(st.consecutiveFails + 1 >= FailureThreshold)
      PROVE  Good(st, [st EXCEPT !.consecutiveFails = st.consecutiveFails + 1])
  BY <1>3, ThresholdsPositive DEF Good, Streak, breakerState
<1> QED  BY <1>1, <1>2, <1>3

\* A verdict keeps the record well formed and moves no count of probes.
LEMMA JudgedShape ==
  ASSUME NEW st \in breakerState, Streak(st), NEW p \in BOOLEAN, NEW ok \in BOOLEAN
  PROVE  /\ Judged(st, p, ok) \in breakerState
         /\ Judged(st, p, ok).halfOpenInFlight = st.halfOpenInFlight
         /\ Streak(Judged(st, p, ok))
         /\ st.state # "closed" /\ Judged(st, p, ok).state = "closed" => p
<1>1. CASE st.state = "halfOpen" /\ p
  <2>1. Judged(st, p, ok) = ProbeVerdict(st, ok)
    BY <1>1 DEF Judged
  <2>2. Good(st, ProbeVerdict(st, ok))
    BY <1>1, ProbeUpdates DEF ProbeVerdict, Opened
  <2> QED  BY <1>1, <2>1, <2>2 DEF Good
<1>2. CASE st.state = "closed"
  <2>1. Judged(st, p, ok) = ClosedVerdict(st, ok)
    BY <1>2 DEF Judged
  <2>2. Good(st, ClosedVerdict(st, ok))
    BY <1>2, ClosedUpdates DEF ClosedVerdict, Opened
  <2> QED  BY <1>2, <2>1, <2>2 DEF Good
<1>3. CASE ~(st.state = "halfOpen" /\ p) /\ st.state # "closed"
  <2>1. Judged(st, p, ok) = st
    BY <1>3 DEF Judged
  <2> QED  BY <1>3, <2>1
<1> QED  BY <1>1, <1>2, <1>3

\* A report gives the slot back and then judges.
LEMMA ReportedShape ==
  ASSUME NEW st \in breakerState, Streak(st), NEW p \in BOOLEAN,
         p => st.halfOpenInFlight > 0, NEW o \in callOutcome
  PROVE  /\ Reported(st, p, o) \in breakerState
         /\ Reported(st, p, o).halfOpenInFlight
              = IF p THEN st.halfOpenInFlight - 1 ELSE st.halfOpenInFlight
         /\ Streak(Reported(st, p, o))
         /\ st.state # "closed" /\ Reported(st, p, o).state = "closed" => p
<1> DEFINE back == SlotReturned(st, p)
<1>1. back \in breakerState /\ back.state = st.state
  BY SlotReturnedShape
<1>2. back.halfOpenInFlight = IF p THEN st.halfOpenInFlight - 1
                              ELSE st.halfOpenInFlight
  BY SlotReturnedShape
<1>3. Streak(back)
  BY SlotReturnedShape DEF Streak
<1>4. CASE o = "neutral"
  <2>1. Reported(st, p, o) = back
    BY <1>4 DEF Reported
  <2> HIDE DEF back
  <2> QED  BY <1>1, <1>2, <1>3, <2>1
<1>5. CASE o # "neutral"
  <2>1. Reported(st, p, o) = Judged(back, p, o = "succeeded")
    BY <1>5 DEF Reported
  <2> HIDE DEF back
  <2>2. (o = "succeeded") \in BOOLEAN
    OBVIOUS
  <2>3. /\ Judged(back, p, o = "succeeded") \in breakerState
        /\ Judged(back, p, o = "succeeded").halfOpenInFlight
             = back.halfOpenInFlight
        /\ Streak(Judged(back, p, o = "succeeded"))
        /\ back.state # "closed"
             /\ Judged(back, p, o = "succeeded").state = "closed" => p
    BY <1>1, <1>3, <2>2, JudgedShape
  <2> QED  BY <1>1, <1>2, <2>1, <2>3
<1> QED  BY <1>4, <1>5

-----------------------------------------------------------------------------
Within == \A k \in Keys : breaker[k].halfOpenInFlight <= HalfOpenMaxCalls

\* The inductive invariant.
BInv == TypeOK /\ ProbesCounted /\ Within /\ NoStreakCarried

\* The probes of a key are finite, being callers.
LEMMA ProbesFinite ==
  ASSUME TypeOK, NEW k \in Keys
  PROVE  IsFiniteSet(Probes(k)) /\ Cardinality(Probes(k)) \in Nat
<1>1. Probes(k) \subseteq Calls
  BY DEF TypeOK, Probes
<1> QED  BY <1>1, CallsFinite, FS_Subset, FS_CardinalityType

\* The invariant holds of a breaker nobody has called.
LEMMA InitBInv == Init => BInv
<1> SUFFICES ASSUME Init PROVE BInv
  OBVIOUS
<1>1. TypeOK
  BY DEF Init, TypeOK, Fresh, breakerState, CircuitState
<1>2. ASSUME NEW k \in Keys PROVE Probes(k) = {}
  BY DEF Init, Probes
<1>3. ProbesCounted
  BY <1>2, FS_EmptySet DEF Init, ProbesCounted, Fresh
<1>4. Within /\ NoStreakCarried
  BY ThresholdsPositive DEF Init, Within, NoStreakCarried, Fresh
<1> QED  BY <1>1, <1>3, <1>4 DEF BInv

\* A probe is admitted.
LEMMA AllowProbeKeeps ==
  ASSUME BInv, NEW c \in Calls, NEW k \in Keys, c \notin running,
         AllowProbe(c, k), UNCHANGED healthy
  PROVE  BInv'
<1> USE DEF BInv
<1> DEFINE st == HalfOpened(breaker[k])
<1>1. breaker[k] \in breakerState
  BY DEF TypeOK
<1>2. /\ st \in breakerState /\ st.state = "halfOpen"
      /\ st.halfOpenInFlight = breaker[k].halfOpenInFlight
      /\ st.consecutiveFails = breaker[k].consecutiveFails
      /\ st.consecutiveOK \in {0, breaker[k].consecutiveOK}
  BY <1>1, HalfOpenedShape
<1>3. breaker' = [breaker EXCEPT ![k] =
                    [st EXCEPT !.halfOpenInFlight = st.halfOpenInFlight + 1]]
  BY DEF AllowProbe
<1>4. st.halfOpenInFlight < HalfOpenMaxCalls /\ st.halfOpenInFlight \in Nat
  BY <1>2 DEF AllowProbe, ProbeFree, breakerState
<1>c. currentState(breaker[k]) = "halfOpen"
  BY DEF AllowProbe
<1> HIDE DEF st
<1>5. breaker' \in [Keys -> breakerState]
  BY <1>2, <1>3, <1>4 DEF TypeOK, breakerState
<1>6. TypeOK'
  BY <1>5 DEF TypeOK, AllowProbe, Admitted
<1>7. ProbesCounted'
  <2> SUFFICES ASSUME NEW j \in Keys
               PROVE  breaker'[j].halfOpenInFlight = Cardinality(Probes(j)')
    BY DEF ProbesCounted
  <2>1. breaker[j].halfOpenInFlight = Cardinality(Probes(j))
    BY DEF ProbesCounted
  <2>2. CASE j = k
    <3>1. Probes(j)' = Probes(j) \cup {c} /\ c \notin Probes(j)
      BY <2>2 DEF Probes, AllowProbe, Admitted, TypeOK
    <3>2. Cardinality(Probes(j)') = Cardinality(Probes(j)) + 1
      BY <3>1, ProbesFinite, FS_AddElement
    <3>3. breaker'[j].halfOpenInFlight = breaker[j].halfOpenInFlight + 1
      BY <1>2, <1>3, <2>2 DEF TypeOK, breakerState
    <3> QED  BY <2>1, <3>2, <3>3
  <2>3. CASE j # k
    <3>1. Probes(j)' = Probes(j)
      BY <2>3 DEF Probes, AllowProbe, Admitted, TypeOK
    <3> QED  BY <1>3, <2>1, <2>3, <3>1 DEF TypeOK
  <2> QED  BY <2>2, <2>3
<1>8. Within'
  BY <1>2, <1>3, <1>4, ThresholdsPositive DEF Within, TypeOK, breakerState
<1>9. NoStreakCarried'
  <2>1. breaker[k].state # "closed"
    BY <1>c DEF currentState
  <2>2. ASSUME NEW j \in Keys PROVE Streak(breaker'[j])
    <3>1. CASE j = k
      BY <1>2, <1>3, <2>1, <3>1, ThresholdsPositive
      DEF NoStreakCarried, Streak, TypeOK, breakerState
    <3>2. CASE j # k
      BY <1>3, <3>2 DEF NoStreakCarried, Streak, TypeOK
    <3> QED  BY <3>1, <3>2
  <2> QED  BY <2>2 DEF NoStreakCarried, Streak
<1> QED  BY <1>6, <1>7, <1>8, <1>9

\* A call is admitted by a closed breaker.
LEMMA AllowClosedKeeps ==
  ASSUME BInv, NEW c \in Calls, NEW k \in Keys, c \notin running,
         AllowClosed(c, k), UNCHANGED healthy
  PROVE  BInv'
<1> USE DEF BInv
<1>1. TypeOK'
  BY DEF TypeOK, AllowClosed, Admitted
<1>2. ASSUME NEW j \in Keys PROVE Probes(j)' = Probes(j)
  BY DEF Probes, AllowClosed, Admitted, TypeOK
<1>3. ProbesCounted'
  BY <1>2 DEF ProbesCounted, AllowClosed
<1>4. Within' /\ NoStreakCarried'
  BY DEF Within, NoStreakCarried, AllowClosed
<1> QED  BY <1>1, <1>3, <1>4

\* A call is refused.
LEMMA AllowRefusedKeeps ==
  ASSUME BInv, NEW k \in Keys, AllowRefused(k), UNCHANGED healthy
  PROVE  BInv'
<1> USE DEF BInv
<1>1. UNCHANGED <<running, key, probe>>
  BY DEF AllowRefused
<1>2. ASSUME NEW j \in Keys PROVE Probes(j)' = Probes(j)
  BY <1>1 DEF Probes
<1>3. CASE UNCHANGED breaker
  BY <1>1, <1>2, <1>3 DEF TypeOK, ProbesCounted, Within, NoStreakCarried
<1>4. CASE /\ currentState(breaker[k]) = "halfOpen"
           /\ breaker' = [breaker EXCEPT ![k] = HalfOpened(breaker[k])]
  <2>1. breaker[k] \in breakerState /\ breaker[k].state # "closed"
    BY <1>4 DEF TypeOK, currentState
  <2>2. /\ HalfOpened(breaker[k]) \in breakerState
        /\ HalfOpened(breaker[k]).state = "halfOpen"
        /\ HalfOpened(breaker[k]).halfOpenInFlight = breaker[k].halfOpenInFlight
        /\ HalfOpened(breaker[k]).consecutiveFails = breaker[k].consecutiveFails
        /\ HalfOpened(breaker[k]).consecutiveOK \in {0, breaker[k].consecutiveOK}
    BY <2>1, HalfOpenedShape
  <2>3. TypeOK'
    BY <1>1, <1>4, <2>2 DEF TypeOK
  <2>4. ASSUME NEW j \in Keys
        PROVE  /\ breaker'[j].halfOpenInFlight = breaker[j].halfOpenInFlight
               /\ Streak(breaker'[j])
    <3>1. CASE j = k
      BY <1>4, <2>1, <2>2, <3>1, ThresholdsPositive
      DEF NoStreakCarried, Streak, TypeOK, breakerState
    <3>2. CASE j # k
      BY <1>4, <3>2 DEF NoStreakCarried, Streak, TypeOK
    <3> QED  BY <3>1, <3>2
  <2>5. ProbesCounted' /\ Within'
    BY <1>2, <2>4 DEF ProbesCounted, Within
  <2>6. NoStreakCarried'
    BY <2>4 DEF NoStreakCarried, Streak
  <2> QED  BY <2>3, <2>5, <2>6
<1> QED  BY <1>3, <1>4 DEF AllowRefused

\* A call reports.
LEMMA ReportKeeps ==
  ASSUME BInv, NEW c \in Calls, NEW o \in callOutcome, report(c, o)
  PROVE  /\ BInv'
         /\ \A k \in Keys :
              breaker[k].state # "closed" /\ breaker'[k].state = "closed"
                => c \in Probes(k) /\ running' = running \ {c}
<1> USE DEF BInv
<1> DEFINE k == key[c]
           st == breaker[k]
           new == Reported(st, probe[c], o)
<1>1. /\ c \in running /\ k \in Keys /\ st \in breakerState
      /\ probe[c] \in BOOLEAN
  BY DEF report, TypeOK
<1>2. breaker' = [breaker EXCEPT ![k] = new] /\ running' = running \ {c}
  BY DEF report
<1>3. Streak(st)
  BY <1>1 DEF NoStreakCarried, Streak
<1>4. st.halfOpenInFlight = Cardinality(Probes(k))
  BY <1>1 DEF ProbesCounted
<1>5. probe[c] => /\ c \in Probes(k)
                  /\ Cardinality(Probes(k) \ {c}) = Cardinality(Probes(k)) - 1
                  /\ st.halfOpenInFlight > 0
  <2> SUFFICES ASSUME probe[c]
               PROVE  /\ c \in Probes(k)
                      /\ Cardinality(Probes(k) \ {c}) = Cardinality(Probes(k)) - 1
                      /\ st.halfOpenInFlight > 0
    OBVIOUS
  <2>1. c \in Probes(k)
    BY <1>1 DEF Probes
  <2>2. IsFiniteSet(Probes(k)) /\ Cardinality(Probes(k)) \in Nat
    BY <1>1, ProbesFinite
  <2>3. Cardinality(Probes(k) \ {c}) = Cardinality(Probes(k)) - 1
    BY <2>1, <2>2, FS_RemoveElement
  <2>4. Cardinality(Probes(k)) # 0
    BY <2>1, <2>2, FS_EmptySet
  <2> HIDE DEF k, st
  <2> QED  BY <1>4, <2>1, <2>2, <2>3, <2>4
<1>6. /\ new \in breakerState
      /\ new.halfOpenInFlight = IF probe[c] THEN st.halfOpenInFlight - 1
                                ELSE st.halfOpenInFlight
      /\ Streak(new)
      /\ st.state # "closed" /\ new.state = "closed" => probe[c]
  <2> HIDE DEF k, st
  <2> QED  BY <1>1, <1>3, <1>5, ReportedShape
<1> HIDE DEF new
<1>7. TypeOK'
  BY <1>1, <1>2, <1>6 DEF TypeOK, report
<1>8. ProbesCounted' /\ Within'
  <2> SUFFICES ASSUME NEW j \in Keys
               PROVE  /\ breaker'[j].halfOpenInFlight = Cardinality(Probes(j)')
                      /\ breaker'[j].halfOpenInFlight <= HalfOpenMaxCalls
    BY DEF ProbesCounted, Within
  <2>1. /\ breaker[j].halfOpenInFlight = Cardinality(Probes(j))
        /\ breaker[j].halfOpenInFlight <= HalfOpenMaxCalls
        /\ breaker[j].halfOpenInFlight \in Nat
    BY DEF ProbesCounted, Within, TypeOK, breakerState
  <2>2. CASE j = k /\ probe[c]
    <3>1. Probes(j)' = Probes(k) \ {c}
      BY <1>2, <2>2 DEF Probes, report, TypeOK
    <3>2. breaker'[j] = new
      BY <1>1, <1>2, <2>2 DEF TypeOK
    <3> QED  BY <1>4, <1>5, <1>6, <2>1, <2>2, <3>1, <3>2, ThresholdsPositive
  <2>3. CASE j = k /\ ~probe[c]
    <3>1. Probes(j)' = Probes(j)
      BY <1>2, <2>3 DEF Probes, report, TypeOK
    <3>2. breaker'[j] = new
      BY <1>1, <1>2, <2>3 DEF TypeOK
    <3> QED  BY <1>6, <2>1, <2>3, <3>1, <3>2
  <2>4. CASE j # k
    <3>1. Probes(j)' = Probes(j)
      BY <1>2, <2>4 DEF Probes, report, TypeOK
    <3>2. breaker'[j] = breaker[j]
      BY <1>1, <1>2, <2>4 DEF TypeOK
    <3> QED  BY <2>1, <3>1, <3>2
  <2> QED  BY <1>1, <2>2, <2>3, <2>4
<1>9. ASSUME NEW j \in Keys
      PROVE  breaker'[j] = IF j = k THEN new ELSE breaker[j]
  BY <1>1, <1>2 DEF TypeOK
<1>10. NoStreakCarried'
  BY <1>6, <1>9 DEF NoStreakCarried, Streak
<1>11. ASSUME NEW j \in Keys, breaker[j].state # "closed",
              breaker'[j].state = "closed"
       PROVE  c \in Probes(j) /\ running' = running \ {c}
  BY <1>2, <1>5, <1>6, <1>9, <1>11
<1> QED  BY <1>7, <1>8, <1>10, <1>11

\* Time passes.
LEMMA TickKeeps ==
  ASSUME BInv, Tick
  PROVE  /\ BInv'
         /\ \A k \in Keys : breaker'[k].state = breaker[k].state
<1> USE DEF BInv
<1>1. UNCHANGED <<running, key, probe, healthy>>
  BY DEF Tick
<1>2. ASSUME NEW k \in Keys
      PROVE  /\ breaker'[k] \in breakerState
             /\ breaker'[k].state = breaker[k].state
             /\ breaker'[k].consecutiveFails = breaker[k].consecutiveFails
             /\ breaker'[k].consecutiveOK = breaker[k].consecutiveOK
             /\ breaker'[k].halfOpenInFlight = breaker[k].halfOpenInFlight
  BY DEF Tick, TypeOK, breakerState
<1>3. TypeOK'
  BY <1>1, <1>2 DEF TypeOK, Tick
<1>4. ASSUME NEW k \in Keys PROVE Probes(k)' = Probes(k)
  BY <1>1 DEF Probes
<1>5. ProbesCounted' /\ Within' /\ NoStreakCarried'
  BY <1>2, <1>4 DEF ProbesCounted, Within, NoStreakCarried
<1> QED  BY <1>2, <1>3, <1>5

\* Nothing the breaker looks at changes.
LEMMA IdleKeeps ==
  ASSUME BInv, UNCHANGED <<breaker, running, key, probe>>,
         healthy' \in BOOLEAN
  PROVE  BInv'
<1> USE DEF BInv
<1>1. ASSUME NEW k \in Keys PROVE Probes(k)' = Probes(k)
  BY DEF Probes
<1> QED  BY <1>1 DEF TypeOK, ProbesCounted, Within, NoStreakCarried

\* Every step keeps the invariant.
LEMMA NextBInv == BInv /\ [Next]_vars => BInv'
<1> SUFFICES ASSUME BInv, [Next]_vars PROVE BInv'
  OBVIOUS
<1>1. ASSUME NEW c \in Calls, NEW k \in Keys, Allow(c, k) PROVE BInv'
  BY <1>1, AllowClosedKeeps, AllowProbeKeeps, AllowRefusedKeeps DEF Allow
<1>2. ASSUME NEW c \in Calls, Finish(c) PROVE BInv'
  BY <1>2, ReportKeeps DEF Finish
<1>3. CASE Tick
  BY <1>3, TickKeeps
<1>4. CASE Recover
  BY <1>4, IdleKeeps DEF Recover
<1>5. CASE UNCHANGED vars
  BY <1>5, IdleKeeps DEF vars, BInv, TypeOK
<1> QED  BY <1>1, <1>2, <1>3, <1>4, <1>5 DEF Next

\* The inductive invariant holds in every reachable state.
THEOREM BreakerInductive == Spec => []BInv
BY InitBInv, NextBInv, PTL DEF Spec

\* Allow and report keep every key's record well formed: no counter is
\* decremented below zero.
THEOREM BreakerTypes == Spec => []TypeOK
<1>1. BInv => TypeOK
  BY DEF BInv
<1> QED  BY <1>1, BreakerInductive, PTL

\* The probe counter of a key is the number of its probes that run, through any
\* number of re-openings, and no more than HalfOpenMaxCalls run at once.
THEOREM BreakerProbes == Spec => []ProbesExact
<1>1. BInv => ProbesCounted
  BY DEF BInv
<1>2. BInv => ProbesBounded
  BY DEF BInv, ProbesBounded, ProbesCounted, Within
<1>3. BInv => ProbesExact
  BY <1>1, <1>2 DEF ProbesExact
<1> QED  BY <1>3, BreakerInductive, PTL

\* Neither streak reaches its threshold or outlives its period.
THEOREM BreakerStreaks == Spec => []NoStreakCarried
<1>1. BInv => NoStreakCarried
  BY DEF BInv
<1> QED  BY <1>1, BreakerInductive, PTL

\* A breaker that has tripped closes only in the step in which one of its
\* probes reports.
THEOREM BreakerCloses == Spec => ClosesByProbe
<1> DEFINE A == \A k \in Keys :
      breaker[k].state # "closed" /\ breaker'[k].state = "closed"
        => \E c \in Probes(k) : running' = running \ {c}
<1>1. BInv /\ [Next]_vars => [A]_vars
  <2> SUFFICES ASSUME BInv, Next, NEW k \in Keys,
                      breaker[k].state # "closed", breaker'[k].state = "closed"
               PROVE  \E c \in Probes(k) : running' = running \ {c}
    BY DEF vars
  <2>1. ASSUME NEW c \in Calls, NEW j \in Keys, Allow(c, j) PROVE FALSE
    <3>1. breaker[j] \in breakerState
      BY DEF BInv, TypeOK
    <3>2. HalfOpened(breaker[j]) \in breakerState
          /\ HalfOpened(breaker[j]).state = "halfOpen"
      BY <3>1, HalfOpenedShape
    <3>3. CASE AllowClosed(c, j)
      BY <3>3 DEF AllowClosed
    <3>4. CASE AllowProbe(c, j)
      BY <3>2, <3>4 DEF AllowProbe, BInv, TypeOK, breakerState
    <3>5. CASE AllowRefused(j)
      BY <3>2, <3>5 DEF AllowRefused, BInv, TypeOK
    <3> QED  BY <2>1, <3>3, <3>4, <3>5 DEF Allow
  <2>2. ASSUME NEW c \in Calls, Finish(c)
        PROVE  \E d \in Probes(k) : running' = running \ {d}
    BY <2>2, ReportKeeps DEF Finish
  <2>3. ~Tick
    BY TickKeeps
  <2>4. ~Recover
    BY DEF Recover
  <2> QED  BY <2>1, <2>2, <2>3, <2>4 DEF Next
<1>2. Spec => [][A]_vars
  BY <1>1, BreakerInductive, PTL DEF Spec
<1> QED  BY <1>2 DEF ClosesByProbe

-----------------------------------------------------------------------------
(* The breaker behind the middleware. *)

\* The calls that run as probes are finite, and counted; so are the models with a key.
LEMMA MWCounted ==
  ASSUME MW!TypeOK
  PROVE  \A k : /\ IsFiniteSet(MW!Probes(k)) /\ Cardinality(MW!Probes(k)) \in Nat
                /\ MW!Cardinality(MW!Probes(k)) = Cardinality(MW!Probes(k))
<1>1. \A k : MW!Probes(k) \subseteq MWCalls
  BY DEF MW!TypeOK, MW!Probes
<1>2. \A k : IsFiniteSet(MW!Probes(k))
  BY <1>1, MiddlewareConstants, FS_Subset
<1>3. \A k : Cardinality(MW!Probes(k)) \in Nat
  BY <1>2, FS_CardinalityType
<1> QED  BY <1>2, <1>3 DEF MW!Cardinality, Cardinality

\* Half-opening a record keeps its count of probes.
LEMMA MWHalfOpened ==
  ASSUME NEW st \in MW!breakerState
  PROVE  /\ MW!HalfOpened(st) \in MW!breakerState
         /\ MW!HalfOpened(st).halfOpenInFlight = st.halfOpenInFlight
  BY DEF MW!HalfOpened, MW!breakerState, MW!CircuitState

\* A verdict moves no count of probes.
LEMMA MWJudged ==
  ASSUME NEW st \in MW!breakerState, NEW was \in BOOLEAN, NEW ok \in BOOLEAN
  PROVE  /\ MW!Judged(st, was, ok) \in MW!breakerState
         /\ MW!Judged(st, was, ok).halfOpenInFlight = st.halfOpenInFlight
<1> DEFINE fine(r) == r \in MW!breakerState /\ r.halfOpenInFlight = st.halfOpenInFlight
<1>1. fine([[st EXCEPT !.state = "open", !.age = 0] EXCEPT !.consecutiveOK = 0])
  BY DEF MW!breakerState, MW!CircuitState
<1>2. fine([st EXCEPT !.state = "closed", !.consecutiveFails = 0, !.consecutiveOK = 0])
  BY DEF MW!breakerState, MW!CircuitState
<1>3. fine([st EXCEPT !.consecutiveOK = @ + 1])
  BY DEF MW!breakerState
<1>4. fine([st EXCEPT !.consecutiveFails = 0])
  BY DEF MW!breakerState
<1>5. fine([[st EXCEPT !.state = "open", !.age = 0] EXCEPT !.consecutiveFails = 0])
  BY DEF MW!breakerState, MW!CircuitState
<1>6. fine([st EXCEPT !.consecutiveFails = @ + 1])
  BY DEF MW!breakerState
<1> HIDE DEF fine
<1>7. fine(MW!ProbeVerdict(st, ok))
  BY <1>1, <1>2, <1>3 DEF MW!ProbeVerdict, MW!Opened
<1>8. fine(MW!ClosedVerdict(st, ok))
  BY <1>4, <1>5, <1>6 DEF MW!ClosedVerdict, MW!Opened
<1>9. fine(st)
  BY DEF fine
<1>10. MW!Judged(st, was, ok) \in {MW!ProbeVerdict(st, ok), MW!ClosedVerdict(st, ok), st}
  <2>1. CASE st.state = "halfOpen" /\ was
    BY <2>1 DEF MW!Judged
  <2>2. CASE st.state = "closed"
    BY <2>2 DEF MW!Judged
  <2>3. CASE ~(st.state = "halfOpen" /\ was) /\ st.state # "closed"
    BY <2>3 DEF MW!Judged
  <2> QED  BY <2>1, <2>2, <2>3
<1>11. fine(MW!Judged(st, was, ok))
  BY <1>7, <1>8, <1>9, <1>10
<1> QED  BY <1>11 DEF fine

\* A report gives back the slot of a probe and no other.
LEMMA MWReported ==
  ASSUME NEW st \in MW!breakerState, NEW was \in BOOLEAN, NEW o \in {"failed", "succeeded"}
  PROVE  /\ MW!Reported(st, was, o) \in MW!breakerState
         /\ MW!Reported(st, was, o).halfOpenInFlight
              = IF was /\ st.halfOpenInFlight > 0 THEN st.halfOpenInFlight - 1
                ELSE st.halfOpenInFlight
<1> DEFINE back == MW!SlotReturned(st, was)
<1>1. /\ back \in MW!breakerState
      /\ back.halfOpenInFlight = IF was /\ st.halfOpenInFlight > 0 THEN st.halfOpenInFlight - 1
                                 ELSE st.halfOpenInFlight
  BY DEF MW!SlotReturned, MW!breakerState
<1>2. MW!Reported(st, was, o) = MW!Judged(back, was, o = "succeeded")
  BY DEF MW!Reported
<1>3. (o = "succeeded") \in BOOLEAN
  OBVIOUS
<1> HIDE DEF back
<1>4. /\ MW!Judged(back, was, o = "succeeded") \in MW!breakerState
      /\ MW!Judged(back, was, o = "succeeded").halfOpenInFlight = back.halfOpenInFlight
  BY <1>1, <1>3, MWJudged
<1> QED  BY <1>1, <1>2, <1>4

\* The invariant holds before the first request.
LEMMA MWStart == MW!MWInit => MW!MWInv
<1> SUFFICES ASSUME MW!MWInit PROVE MW!MWInv
  OBVIOUS
<1> USE DEF MW!MWInit, MW!Init
<1>1. MW!Fresh \in MW!breakerState /\ MW!Fresh.halfOpenInFlight = 0
  BY DEF MW!Fresh, MW!breakerState, MW!CircuitState
<1>2. MW!TypeOK
  <2>1. mwHealthy \in BOOLEAN /\ mwProbe \in [MWCalls -> BOOLEAN]
    OBVIOUS
  <2> QED  BY <1>1, <2>1 DEF MW!TypeOK
<1>3. IsFiniteSet(seen) /\ MW!IsFiniteSet(seen) /\ MW!Cardinality(seen) = 0
  BY FS_EmptySet DEF MW!IsFiniteSet, IsFiniteSet, MW!Cardinality, Cardinality
<1>4. \A k : MW!Probes(k) = {}
  BY DEF MW!Probes
<1>5. \A k : Cardinality(MW!Probes(k)) = 0
  BY <1>4, FS_EmptySet
<1>6. MW!ProbesNotUndercounted
  BY <1>1, <1>2, <1>5, MWCounted DEF MW!ProbesNotUndercounted
<1>7. MW!Keyed /\ MW!KeysHandedOut
  BY DEF MW!Keyed, MW!KeysHandedOut
<1> QED  BY <1>2, <1>3, <1>6, <1>7, MiddlewareConstants DEF MW!MWInv

\* A request is given its key.
LEMMA MWKey ==
  ASSUME MW!MWInv, NEW c \in MWCalls, MW!Key(c)
  PROVE  MW!MWInv'
<1> USE DEF MW!MWInv
<1>1. PICK m \in Models \cup {Provider} :
        /\ model' = [model EXCEPT ![c] = m]
        /\ IF m # Provider /\ MW!admit(m)
           THEN seen' = seen \cup {m} /\ target' = [target EXCEPT ![c] = m]
           ELSE target' = [target EXCEPT ![c] = Provider] /\ UNCHANGED seen
  BY DEF MW!Key
<1>2. /\ mwpc[c] = "idle" /\ mwpc' = [mwpc EXCEPT ![c] = "keyed"]
      /\ UNCHANGED <<mwBreaker, mwRunning, mwKey, mwProbe, mwHealthy>>
  BY DEF MW!Key, MW!vars
<1>3. /\ MW!IsFiniteSet(seen) = IsFiniteSet(seen) /\ MW!IsFiniteSet(seen') = IsFiniteSet(seen')
      /\ MW!Cardinality(seen) = Cardinality(seen) /\ MW!Cardinality(seen') = Cardinality(seen')
  BY DEF MW!IsFiniteSet, IsFiniteSet, MW!Cardinality, Cardinality
<1>4. Cardinality(seen) \in Nat
  BY <1>3, FS_CardinalityType
<1>5. /\ seen \subseteq seen' /\ seen' \subseteq Models /\ IsFiniteSet(seen')
      /\ Cardinality(seen') \in Nat /\ Cardinality(seen') <= MaxModelKeys
      /\ Cardinality(seen') >= Cardinality(seen)
      /\ Cardinality(seen) >= MaxModelKeys => seen' = seen
      /\ m \in Models \ seen' => Cardinality(seen') >= MaxModelKeys
      /\ target'[c] = IF m \in seen' THEN m ELSE Provider
      /\ target'[c] \in seen' \cup {Provider}
  <2>1. CASE m # Provider /\ MW!admit(m) /\ m \notin seen
    <3>1. seen' = seen \cup {m} /\ Cardinality(seen) < MaxModelKeys /\ target'[c] = m
      BY <1>1, <1>3, <2>1 DEF MW!admit
    <3>2. IsFiniteSet(seen') /\ Cardinality(seen') = Cardinality(seen) + 1
      BY <3>1, <2>1, <1>3, FS_AddElement
    <3> QED  BY <3>1, <3>2, <2>1, <1>4, MiddlewareConstants
  <2>2. CASE m # Provider /\ m \in seen
    <3>1. seen' = seen /\ target'[c] = m
      BY <1>1, <2>2 DEF MW!admit
    <3> QED  BY <3>1, <2>2, <1>3, <1>4, MiddlewareConstants
  <2>3. CASE m = Provider \/ (~MW!admit(m) /\ m \notin seen)
    <3>1. seen' = seen /\ target'[c] = Provider /\ m \notin seen
      BY <1>1, <2>3, MiddlewareConstants DEF MW!admit
    <3>2. m \in Models => Cardinality(seen) >= MaxModelKeys
      BY <2>3, <1>3, <1>4, MiddlewareConstants DEF MW!admit
    <3> QED  BY <3>1, <3>2, <1>3, <1>4, MiddlewareConstants
  <2> QED  BY <2>1, <2>2, <2>3 DEF MW!admit
<1>6. /\ mwpc' \in [MWCalls -> {"idle", "keyed", "read", "next", "judged"}]
      /\ model' \in [MWCalls -> Models \cup {Provider}]
      /\ target' \in [MWCalls -> Models \cup {Provider}]
      /\ model'[c] = m
      /\ \A d \in MWCalls : d # c => /\ mwpc'[d] = mwpc[d] /\ model'[d] = model[d]
                                     /\ target'[d] = target[d]
  <2>1. target' \in {[target EXCEPT ![c] = m], [target EXCEPT ![c] = Provider]}
    BY <1>1
  <2> QED  BY <1>1, <1>2, <2>1
<1>7. MW!Keyed'
  <2> SUFFICES ASSUME NEW d \in MWCalls
               PROVE  /\ target'[d] \in seen' \cup {Provider}
                      /\ mwpc'[d] # "idle" =>
                           /\ target'[d] = IF model'[d] \in seen' THEN model'[d] ELSE Provider
                           /\ model'[d] \in Models \ seen' => Cardinality(seen') >= MaxModelKeys
    BY <1>3 DEF MW!Keyed
  <2>1. CASE d = c
    BY <2>1, <1>5, <1>6
  <2>2. CASE d # c
    <3>1. /\ target[d] \in seen \cup {Provider}
          /\ mwpc[d] # "idle" =>
               /\ target[d] = IF model[d] \in seen THEN model[d] ELSE Provider
               /\ model[d] \in Models \ seen => Cardinality(seen) >= MaxModelKeys
      BY <1>3 DEF MW!Keyed
    <3>2. model[d] \in Models \cup {Provider} /\ Provider \notin Models
      BY MiddlewareConstants
    <3> QED  BY <2>2, <3>1, <3>2, <1>4, <1>5, <1>6, MiddlewareConstants
  <2> QED  BY <2>1, <2>2
<1>8. MW!KeysHandedOut'
  BY <1>2, <1>5 DEF MW!KeysHandedOut
<1>9. MW!TypeOK'
  BY <1>2 DEF MW!TypeOK
<1>10. \A k : MW!Probes(k)' = MW!Probes(k)
  BY <1>2 DEF MW!Probes
<1>11. MW!ProbesNotUndercounted'
  BY <1>2, <1>10 DEF MW!ProbesNotUndercounted, MW!Cardinality
<1> QED  BY <1>3, <1>5, <1>6, <1>7, <1>8, <1>9, <1>11

\* Nothing the invariant says of the requests changes but where one of them is, which
\* had its key and keeps it or is over.
LEMMA MWMoves ==
  ASSUME MW!MWInv, NEW c \in MWCalls, UNCHANGED seen,
         \/ /\ mwpc[c] # "idle" /\ UNCHANGED <<model, target>>
            /\ \E l \in {"read", "next", "judged"} : mwpc' = [mwpc EXCEPT ![c] = l]
         \/ MW!Ended(c)
  PROVE  /\ MW!Keyed' /\ mwpc' \in [MWCalls -> {"idle", "keyed", "read", "next", "judged"}]
         /\ model' \in [MWCalls -> Models \cup {Provider}]
         /\ target' \in [MWCalls -> Models \cup {Provider}]
<1> USE DEF MW!MWInv
<1>1. CASE /\ mwpc[c] # "idle" /\ UNCHANGED <<model, target>>
           /\ \E l \in {"read", "next", "judged"} : mwpc' = [mwpc EXCEPT ![c] = l]
  <2>1. PICK l \in {"read", "next", "judged"} : mwpc' = [mwpc EXCEPT ![c] = l]
    BY <1>1
  <2>2. mwpc' \in [MWCalls -> {"idle", "keyed", "read", "next", "judged"}]
        /\ \A d \in MWCalls : mwpc'[d] # "idle" => mwpc[d] # "idle"
    BY <1>1, <2>1
  <2>3. MW!Keyed'
    BY <1>1, <2>2 DEF MW!Keyed, MW!Cardinality
  <2> QED  BY <1>1, <2>2, <2>3
<1>2. CASE MW!Ended(c)
  <2>1. /\ mwpc' \in [MWCalls -> {"idle", "keyed", "read", "next", "judged"}]
        /\ model' \in [MWCalls -> Models \cup {Provider}]
        /\ target' \in [MWCalls -> Models \cup {Provider}]
        /\ mwpc'[c] = "idle" /\ target'[c] = Provider
        /\ \A d \in MWCalls : d # c => /\ mwpc'[d] = mwpc[d] /\ model'[d] = model[d]
                                       /\ target'[d] = target[d]
    BY <1>2 DEF MW!Ended
  <2>2. MW!Keyed'
    BY <2>1 DEF MW!Keyed, MW!Cardinality
  <2> QED  BY <2>1, <2>2
<1> QED  BY <1>1, <1>2

\* What the breaker's own steps keep: the types, the keys that were handed out and the
\* count of probes.
BreakerKept == MW!TypeOK /\ MW!KeysHandedOut /\ MW!ProbesNotUndercounted

\* A step that changes the record of one key that was handed out, and who runs for it.
LEMMA MWRecord ==
  ASSUME MW!MWInv, UNCHANGED seen, MW!TypeOK', NEW k \in seen \cup {Provider},
         \A j \in Models \cup {Provider} : j # k =>
           mwBreaker'[j] = mwBreaker[j] /\ MW!Probes(j)' \subseteq MW!Probes(j),
         Cardinality(MW!Probes(k)') <= mwBreaker'[k].halfOpenInFlight,
         \A d \in mwRunning' : mwKey'[d] = k \/ (d \in mwRunning /\ mwKey'[d] = mwKey[d])
  PROVE  BreakerKept'
<1> USE DEF MW!MWInv
<1>1. MW!KeysHandedOut'
  BY MiddlewareConstants DEF MW!KeysHandedOut, MW!Fresh
<1>2. \A j : MW!Cardinality(MW!Probes(j)') = Cardinality(MW!Probes(j)')
  BY DEF MW!Cardinality, Cardinality
<1>3. ASSUME NEW j \in Models \cup {Provider}
      PROVE  Cardinality(MW!Probes(j)') <= mwBreaker'[j].halfOpenInFlight
  <2>1. CASE j = k
    BY <2>1
  <2>2. CASE j # k
    <3>1. /\ IsFiniteSet(MW!Probes(j)) /\ Cardinality(MW!Probes(j)) \in Nat
          /\ Cardinality(MW!Probes(j)) <= mwBreaker[j].halfOpenInFlight
          /\ mwBreaker[j].halfOpenInFlight \in Nat
      BY MWCounted DEF MW!ProbesNotUndercounted, MW!TypeOK, MW!breakerState
    <3>2. Cardinality(MW!Probes(j)') <= Cardinality(MW!Probes(j))
          /\ Cardinality(MW!Probes(j)') \in Nat
      BY <2>2, <3>1, FS_Subset, FS_CardinalityType
    <3> QED  BY <2>2, <3>1, <3>2
  <2> QED  BY <2>1, <2>2
<1>4. MW!ProbesNotUndercounted'
  BY <1>2, <1>3 DEF MW!ProbesNotUndercounted
<1> QED  BY <1>1, <1>4 DEF BreakerKept

\* Allow, on a key that was handed out.
LEMMA MWAllow ==
  ASSUME MW!MWInv, UNCHANGED seen, NEW c \in MWCalls, NEW k \in seen \cup {Provider},
         MW!Allow(c, k)
  PROVE  BreakerKept'
<1> USE DEF MW!MWInv
<1>1. k \in Models \cup {Provider} /\ mwBreaker[k] \in MW!breakerState
  BY DEF MW!TypeOK
<1> DEFINE st == MW!HalfOpened(mwBreaker[k])
<1>2. st \in MW!breakerState /\ st.halfOpenInFlight = mwBreaker[k].halfOpenInFlight
  BY <1>1, MWHalfOpened
<1>3. /\ IsFiniteSet(MW!Probes(k)) /\ Cardinality(MW!Probes(k)) \in Nat
      /\ Cardinality(MW!Probes(k)) <= mwBreaker[k].halfOpenInFlight
      /\ mwBreaker[k].halfOpenInFlight \in Nat
  BY <1>1, MWCounted DEF MW!ProbesNotUndercounted, MW!breakerState
<1>4. c \notin mwRunning /\ mwHealthy' = mwHealthy
  BY DEF MW!Allow
<1>5. CASE MW!AllowClosed(c, k)
  <2>1. /\ mwRunning' = mwRunning \cup {c} /\ mwKey' = [mwKey EXCEPT ![c] = k]
        /\ mwProbe' = [mwProbe EXCEPT ![c] = FALSE] /\ mwBreaker' = mwBreaker
    BY <1>5 DEF MW!AllowClosed, MW!Admitted
  <2>2. mwProbe' \in [MWCalls -> BOOLEAN]
    BY <2>1 DEF MW!TypeOK
  <2>3. MW!TypeOK'
    BY <2>1, <2>2, <1>1, <1>4 DEF MW!TypeOK
  <2>4. \A j : MW!Probes(j)' = MW!Probes(j)
    BY <2>1, <1>4 DEF MW!Probes, MW!TypeOK
  <2>5. \A d \in mwRunning' : mwKey'[d] = k \/ (d \in mwRunning /\ mwKey'[d] = mwKey[d])
    BY <2>1 DEF MW!TypeOK
  <2> QED  BY <2>1, <2>3, <2>4, <2>5, <1>3, MWRecord
<1>6. CASE MW!AllowProbe(c, k)
  <2>1. /\ mwRunning' = mwRunning \cup {c} /\ mwKey' = [mwKey EXCEPT ![c] = k]
        /\ mwProbe' = [mwProbe EXCEPT ![c] = TRUE]
        /\ mwBreaker' = [mwBreaker EXCEPT ![k] = [st EXCEPT !.halfOpenInFlight = @ + 1]]
    BY <1>6 DEF MW!AllowProbe, MW!Admitted
  <2> HIDE DEF st
  <2>2. /\ [st EXCEPT !.halfOpenInFlight = @ + 1] \in MW!breakerState
        /\ [st EXCEPT !.halfOpenInFlight = @ + 1].halfOpenInFlight
             = mwBreaker[k].halfOpenInFlight + 1
    BY <1>2, <1>3 DEF MW!breakerState
  <2>3. mwProbe' \in [MWCalls -> BOOLEAN]
    BY <2>1 DEF MW!TypeOK
  <2>4. MW!TypeOK'
    BY <2>1, <2>2, <2>3, <1>1, <1>4 DEF MW!TypeOK
  <2>5. MW!Probes(k)' = MW!Probes(k) \cup {c} /\ c \notin MW!Probes(k)
    BY <2>1, <1>4 DEF MW!Probes, MW!TypeOK
  <2>6. Cardinality(MW!Probes(k)') = Cardinality(MW!Probes(k)) + 1
    BY <2>5, <1>3, FS_AddElement
  <2>7. mwBreaker'[k].halfOpenInFlight = mwBreaker[k].halfOpenInFlight + 1
    BY <2>1, <2>2, <1>1 DEF MW!TypeOK
  <2>8. \A j \in Models \cup {Provider} : j # k =>
          mwBreaker'[j] = mwBreaker[j] /\ MW!Probes(j)' \subseteq MW!Probes(j)
    BY <2>1 DEF MW!Probes, MW!TypeOK
  <2>9. \A d \in mwRunning' : mwKey'[d] = k \/ (d \in mwRunning /\ mwKey'[d] = mwKey[d])
    BY <2>1 DEF MW!TypeOK
  <2>10. Cardinality(MW!Probes(k)') <= mwBreaker'[k].halfOpenInFlight
    BY <2>6, <2>7, <1>3
  <2> QED  BY <2>4, <2>8, <2>9, <2>10, MWRecord
<1>7. CASE MW!AllowRefused(k)
  <2>1. /\ UNCHANGED <<mwRunning, mwKey, mwProbe>>
        /\ mwBreaker' = mwBreaker \/ mwBreaker' = [mwBreaker EXCEPT ![k] = st]
    BY <1>7 DEF MW!AllowRefused
  <2> HIDE DEF st
  <2>2. MW!TypeOK'
    BY <2>1, <1>2, <1>4 DEF MW!TypeOK
  <2>3. \A j : MW!Probes(j)' = MW!Probes(j)
    BY <2>1 DEF MW!Probes
  <2>4. /\ mwBreaker'[k].halfOpenInFlight = mwBreaker[k].halfOpenInFlight
        /\ \A j \in Models \cup {Provider} : j # k => mwBreaker'[j] = mwBreaker[j]
    BY <2>1, <1>1, <1>2 DEF MW!TypeOK
  <2>5. Cardinality(MW!Probes(k)') <= mwBreaker'[k].halfOpenInFlight
    BY <2>3, <2>4, <1>3
  <2> QED  BY <2>1, <2>2, <2>3, <2>4, <2>5, MWRecord
<1> QED  BY <1>5, <1>6, <1>7 DEF MW!Allow

\* A call that ends, with a report or without one.
LEMMA MWLeaves ==
  ASSUME MW!MWInv, UNCHANGED seen, NEW c \in MWCalls, c \in mwRunning,
         MW!Unreported(c) \/ \E o \in {"failed", "succeeded"} : MW!report(c, o)
  PROVE  BreakerKept'
<1> USE DEF MW!MWInv
<1>0. PICK k : k = mwKey[c]
  OBVIOUS
<1>1. /\ k \in Models \cup {Provider} /\ mwBreaker[k] \in MW!breakerState
      /\ mwProbe[c] \in BOOLEAN /\ k \in seen \cup {Provider}
  BY <1>0 DEF MW!TypeOK, MW!KeysHandedOut
<1>2. /\ IsFiniteSet(MW!Probes(k)) /\ Cardinality(MW!Probes(k)) \in Nat
      /\ Cardinality(MW!Probes(k)) <= mwBreaker[k].halfOpenInFlight
      /\ mwBreaker[k].halfOpenInFlight \in Nat
  BY <1>1, MWCounted DEF MW!ProbesNotUndercounted, MW!breakerState
<1>3. /\ mwRunning' = mwRunning \ {c} /\ mwProbe' = [mwProbe EXCEPT ![c] = FALSE]
      /\ UNCHANGED <<mwKey, mwHealthy>>
  BY DEF MW!Unreported, MW!report
<1>4. PICK after \in MW!breakerState :
        /\ mwBreaker' = [mwBreaker EXCEPT ![k] = after]
        /\ \/ after.halfOpenInFlight = mwBreaker[k].halfOpenInFlight
           \/ /\ mwProbe[c] /\ mwBreaker[k].halfOpenInFlight > 0
              /\ after.halfOpenInFlight = mwBreaker[k].halfOpenInFlight - 1
  <2>1. CASE MW!Unreported(c)
    <3>1. mwBreaker' = [mwBreaker EXCEPT ![k] = mwBreaker[k]]
      BY <2>1, <1>1 DEF MW!Unreported, MW!TypeOK
    <3> QED  BY <3>1, <1>1
  <2>2. ASSUME NEW o \in {"failed", "succeeded"}, MW!report(c, o)
        PROVE  \E after \in MW!breakerState :
                 /\ mwBreaker' = [mwBreaker EXCEPT ![k] = after]
                 /\ \/ after.halfOpenInFlight = mwBreaker[k].halfOpenInFlight
                    \/ /\ mwProbe[c] /\ mwBreaker[k].halfOpenInFlight > 0
                       /\ after.halfOpenInFlight = mwBreaker[k].halfOpenInFlight - 1
    <3>1. mwBreaker' = [mwBreaker EXCEPT ![k] = MW!Reported(mwBreaker[k], mwProbe[c], o)]
      BY <2>2, <1>0 DEF MW!report
    <3>2. /\ MW!Reported(mwBreaker[k], mwProbe[c], o) \in MW!breakerState
          /\ MW!Reported(mwBreaker[k], mwProbe[c], o).halfOpenInFlight
               = IF mwProbe[c] /\ mwBreaker[k].halfOpenInFlight > 0
                 THEN mwBreaker[k].halfOpenInFlight - 1 ELSE mwBreaker[k].halfOpenInFlight
      BY <1>1, MWReported
    <3> QED  BY <3>1, <3>2
  <2> QED  BY <2>1, <2>2
<1>5. mwProbe' \in [MWCalls -> BOOLEAN]
  BY <1>3 DEF MW!TypeOK
<1>6. MW!TypeOK'
  BY <1>1, <1>3, <1>4, <1>5 DEF MW!TypeOK
<1>7. \A j : MW!Probes(j)' = MW!Probes(j) \ {c}
  BY <1>3 DEF MW!Probes, MW!TypeOK
<1>8. /\ mwBreaker'[k] = after
      /\ \A j \in Models \cup {Provider} : j # k => mwBreaker'[j] = mwBreaker[j]
  BY <1>1, <1>4 DEF MW!TypeOK
<1>9. Cardinality(MW!Probes(k)') <= mwBreaker'[k].halfOpenInFlight
  <2>1. CASE c \in MW!Probes(k)
    <3>1. Cardinality(MW!Probes(k)') = Cardinality(MW!Probes(k)) - 1
      BY <2>1, <1>2, <1>7, FS_RemoveElement
    <3> QED  BY <3>1, <1>2, <1>4, <1>8
  <2>2. CASE c \notin MW!Probes(k)
    <3>1. ~mwProbe[c] /\ MW!Probes(k)' = MW!Probes(k)
      BY <2>2, <1>0, <1>7 DEF MW!Probes
    <3> QED  BY <3>1, <1>2, <1>4, <1>8
  <2> QED  BY <2>1, <2>2
<1>10. \A d \in mwRunning' : d \in mwRunning /\ mwKey'[d] = mwKey[d]
  BY <1>3
<1> QED  BY <1>1, <1>6, <1>7, <1>8, <1>9, <1>10, MWRecord

\* Every step of the middleware keeps the invariant.
LEMMA MWStep ==
  ASSUME MW!MWInv, [MW!MWNext]_(MW!mwVars)
  PROVE  MW!MWInv'
<1> USE DEF MW!MWInv
<1>1. ASSUME BreakerKept', UNCHANGED seen, NEW c \in MWCalls,
         \/ /\ mwpc[c] # "idle" /\ UNCHANGED <<model, target>>
            /\ \E l \in {"read", "next", "judged"} : mwpc' = [mwpc EXCEPT ![c] = l]
         \/ MW!Ended(c)
      PROVE  MW!MWInv'
  <2>1. MW!IsFiniteSet(seen') /\ MW!Cardinality(seen') <= MaxModelKeys /\ seen' \subseteq Models
    BY <1>1 DEF MW!IsFiniteSet, MW!Cardinality
  <2> QED  BY <1>1, <2>1, MWMoves DEF BreakerKept
<1>2. ASSUME UNCHANGED <<mwBreaker, mwRunning, mwKey, mwProbe, mwHealthy, seen>>
      PROVE  BreakerKept'
  <2>1. \A k : MW!Probes(k)' = MW!Probes(k)
    BY <1>2 DEF MW!Probes
  <2> QED  BY <1>2, <2>1
        DEF BreakerKept, MW!TypeOK, MW!KeysHandedOut, MW!ProbesNotUndercounted, MW!Cardinality
<1>3. ASSUME NEW c \in MWCalls, MW!Key(c) PROVE MW!MWInv'
  BY <1>3, MWKey
<1>4. ASSUME NEW c \in MWCalls, MW!ReadState(c) \/ MW!NextReturns(c) PROVE MW!MWInv'
  <2>1. /\ UNCHANGED <<mwBreaker, mwRunning, mwKey, mwProbe, mwHealthy, seen, model, target>>
        /\ mwpc[c] # "idle"
        /\ \E l \in {"read", "next", "judged"} : mwpc' = [mwpc EXCEPT ![c] = l]
    BY <1>4 DEF MW!ReadState, MW!NextReturns, MW!vars
  <2> QED  BY <2>1, <1>1, <1>2
<1>5. ASSUME NEW c \in MWCalls, MW!AskAllow(c) PROVE MW!MWInv'
  <2>1. MW!Allow(c, target[c]) /\ UNCHANGED seen /\ mwpc[c] = "read"
    BY <1>5 DEF MW!AskAllow
  <2>2. target[c] \in seen \cup {Provider}
    BY DEF MW!Keyed
  <2>3. BreakerKept'
    BY <2>1, <2>2, MWAllow
  <2>4. MW!Ended(c) \/ (UNCHANGED <<model, target>> /\ mwpc' = [mwpc EXCEPT ![c] = "next"])
    BY <1>5 DEF MW!AskAllow
  <2> QED  BY <2>1, <2>3, <2>4, <1>1
<1>6. ASSUME NEW c \in MWCalls, MW!Report(c) PROVE MW!MWInv'
  <2>1. MW!Ended(c) /\ UNCHANGED seen
    BY <1>6 DEF MW!Report
  <2>2. MW!Unreported(c) \/ \E o \in {"failed", "succeeded"} : MW!report(c, o)
    BY <1>6 DEF MW!Report
  <2>3. c \in mwRunning => BreakerKept'
    BY <2>1, <2>2, MWLeaves
  <2>4. CASE c \notin mwRunning
    <3>1. MW!Unreported(c)
      BY <2>2, <2>4 DEF MW!report
    <3>2. /\ mwRunning' = mwRunning /\ mwProbe' = [mwProbe EXCEPT ![c] = FALSE]
          /\ UNCHANGED <<mwBreaker, mwKey, mwHealthy>>
      BY <2>4, <3>1 DEF MW!Unreported
    <3>3. mwProbe' \in [MWCalls -> BOOLEAN]
      BY <3>2 DEF MW!TypeOK
    <3>4. MW!TypeOK'
      BY <3>2, <3>3 DEF MW!TypeOK
    <3>5. \A d \in mwRunning : mwProbe'[d] = mwProbe[d]
      BY <2>4, <3>2 DEF MW!TypeOK
    <3>6. \A j : MW!Probes(j)' = MW!Probes(j)
      BY <3>2, <3>5 DEF MW!Probes
    <3>7. MW!ProbesNotUndercounted' /\ MW!KeysHandedOut'
      BY <2>1, <3>2, <3>6 DEF MW!ProbesNotUndercounted, MW!KeysHandedOut, MW!Cardinality
    <3>8. BreakerKept'
      BY <3>4, <3>7 DEF BreakerKept
    <3> QED  BY <3>8, <2>1, <1>1
  <2> QED  BY <2>1, <2>3, <2>4, <1>1
<1>7. CASE MW!MWTick
  <2>1. /\ UNCHANGED <<mwRunning, mwKey, mwProbe, mwHealthy, seen, mwpc, model, target>>
        /\ mwBreaker' = [k \in Models \cup {Provider} |->
             IF mwBreaker[k].state = "open" /\ mwBreaker[k].age < MWOpen
             THEN [mwBreaker[k] EXCEPT !.age = @ + 1] ELSE mwBreaker[k]]
    BY <1>7 DEF MW!MWTick, MW!Tick
  <2>2. ASSUME NEW k \in Models \cup {Provider}
        PROVE  /\ mwBreaker'[k] \in MW!breakerState
               /\ mwBreaker'[k].halfOpenInFlight = mwBreaker[k].halfOpenInFlight
               /\ mwBreaker[k] = MW!Fresh => mwBreaker'[k] = MW!Fresh
    <3>1. mwBreaker[k] \in MW!breakerState /\ MW!Fresh.state = "closed"
      BY DEF MW!TypeOK, MW!Fresh
    <3> QED  BY <2>1, <3>1 DEF MW!breakerState
  <2>3. MW!TypeOK'
    BY <2>1, <2>2 DEF MW!TypeOK
  <2>4. \A j : MW!Probes(j)' = MW!Probes(j)
    BY <2>1 DEF MW!Probes
  <2>5. MW!ProbesNotUndercounted'
    BY <2>2, <2>4 DEF MW!ProbesNotUndercounted, MW!Cardinality
  <2>6. MW!KeysHandedOut'
    BY <2>1, <2>2 DEF MW!KeysHandedOut
  <2>7. MW!Keyed' /\ MW!IsFiniteSet(seen') /\ MW!Cardinality(seen') <= MaxModelKeys
    BY <2>1 DEF MW!Keyed, MW!Cardinality, MW!IsFiniteSet
  <2> QED  BY <2>1, <2>3, <2>5, <2>6, <2>7
<1>8. CASE UNCHANGED MW!mwVars
  <2>1. UNCHANGED <<mwBreaker, mwRunning, mwKey, mwProbe, mwHealthy, seen, mwpc, model, target>>
    BY <1>8 DEF MW!mwVars, MW!vars
  <2>2. MW!Keyed' /\ MW!IsFiniteSet(seen') /\ MW!Cardinality(seen') <= MaxModelKeys
    BY <2>1 DEF MW!Keyed, MW!Cardinality, MW!IsFiniteSet
  <2> QED  BY <2>1, <2>2, <1>2 DEF BreakerKept
<1> QED  BY <1>3, <1>4, <1>5, <1>6, <1>7, <1>8 DEF MW!MWNext

\* Behind the middleware, two requests for one model use one breaker, no more models
\* than circuitBreakerMaxModelKeys leave a breaker behind and no more probes run than
\* are counted, for every number of requests and models and every threshold, although
\* State and Allow are two critical sections.
THEOREM MiddlewareKeysKept == MW!MWSpec => []MiddlewareKeys
<1>1. ASSUME MW!MWInv PROVE MiddlewareKeys
  <2>1. MW!KeyStable
    BY <1>1 DEF MW!MWInv, MW!Keyed, MW!KeyStable
  <2>2. MW!KeysBounded
    <3> DEFINE used == {k \in Models : mwBreaker[k] # MW!Fresh
                          \/ \E c \in mwRunning : mwKey[c] = k}
    <3>1. used \subseteq seen
      BY <1>1 DEF MW!MWInv, MW!KeysHandedOut
    <3>2. IsFiniteSet(seen) /\ Cardinality(seen) <= MaxModelKeys
      BY <1>1 DEF MW!MWInv, MW!IsFiniteSet, IsFiniteSet, MW!Cardinality, Cardinality
    <3>3. /\ Cardinality(used) <= Cardinality(seen)
          /\ Cardinality(used) \in Nat /\ Cardinality(seen) \in Nat
      BY <3>1, <3>2, FS_Subset, FS_CardinalityType
    <3>4. Cardinality(used) <= MaxModelKeys
      BY <3>2, <3>3, MiddlewareConstants
    <3>5. MW!Cardinality(used) = Cardinality(used)
      BY DEF MW!Cardinality, Cardinality
    <3> QED  BY <3>4, <3>5 DEF MW!KeysBounded
  <2> QED  BY <1>1, <2>1, <2>2 DEF MiddlewareKeys, MW!ModelKeys, MW!MWInv
<1> QED  BY <1>1, MWStart, MWStep, PTL DEF MW!MWSpec
====

----------------------------- MODULE SpendProofs -----------------------------
(***************************************************************************)
(* What the cache, the budget and the cost ledger guarantee for every set   *)
(* of calls, prices, limits and bounds.  Of the cache, CInv says who has    *)
(* claimed a key, what the store and a leader hold for others, and what a   *)
(* call has received.  Of the budget, BudgetInv says what each call stands  *)
(* for in the sum.  Of the ledger, DeliveryInv, AlertInv and RingInv say    *)
(* who delivers, what was announced, and which slot holds which record.     *)
(***************************************************************************)
EXTENDS Spend, SumTheorems, TLAPS, FiniteSetTheorems, SequenceTheorems

\* A call's key is a key.
LEMMA KeyInKeys == \A c \in Calls : Key(c) \in Keys
BY DEF Keys

\* An outcome that brings no answer is given to anyone.
LEMMA NoAnswerShape ==
  ASSUME NEW c, NEW kind \in {"none", "failed", "panicked", "canceled"}
  PROVE  /\ NoAnswer(kind) \in Outcome
         /\ Given(c, NoAnswer(kind))
         /\ NoAnswer(kind).kind = kind
BY DEF NoAnswer, Outcome, Given

\* What a call gets from the provider is an outcome, and an answer is its own.
LEMMA OutcomeShape ==
  ASSUME NEW c \in Calls
  PROVE  /\ ProviderOutcomes(c) \subseteq Outcome
         /\ \A o \in ProviderOutcomes(c) : Given(c, o)
         /\ \A o \in ProviderOutcomes(c) : o.kind = "canceled" => c \in ctxDone
         /\ \A o \in ProviderOutcomes(c) : o.kind = "answer" => o.by = c
<1> SUFFICES ASSUME NEW o \in ProviderOutcomes(c)
             PROVE  /\ o \in Outcome /\ Given(c, o)
                    /\ o.kind = "canceled" => c \in ctxDone
                    /\ o.kind = "answer" => o.by = c
  OBVIOUS
<1>1. \/ o = Answer(c, TRUE) \/ o = Answer(c, FALSE)
      \/ o = NoAnswer("failed") \/ o = NoAnswer("panicked")
      \/ o = NoAnswer("canceled") /\ c \in ctxDone
  BY DEF ProviderOutcomes
<1>2. ASSUME NEW b \in BOOLEAN, o = Answer(c, b)
      PROVE  o \in Outcome /\ o.kind = "answer" /\ o.by = c
  BY <1>2 DEF Answer, Outcome
<1>3. CASE o = Answer(c, TRUE) \/ o = Answer(c, FALSE)
  BY <1>2, <1>3 DEF Given
<1>4. CASE o = NoAnswer("failed") \/ o = NoAnswer("panicked")
  BY <1>4, NoAnswerShape
<1>5. CASE o = NoAnswer("canceled") /\ c \in ctxDone
  BY <1>5, NoAnswerShape
<1> QED  BY <1>1, <1>3, <1>4, <1>5

\* Nothing has happened yet.
LEMMA InitCInv == Init => CInv
<1> SUFFICES ASSUME Init PROVE CInv
  OBVIOUS
<1>1. Shapes
  BY NoAnswerShape DEF Init, Shapes, Labels
<1>2. Claimed /\ StoredWell /\ WaitsWell /\ Missed /\ ClaimedWell
  BY KeyInKeys DEF Init, Claimed, Leading, StoredWell, WaitsWell, Missed, 
                   ClaimedWell
<1>3. SharedWell /\ NoInheritedCancel /\ Received
  BY NoAnswerShape DEF Init, SharedWell, NoInheritedCancel, Received
<1> QED  BY <1>1, <1>2, <1>3 DEF CInv

\* A call goes round the cache.
LEMMA BypassKeeps ==
  ASSUME CInv, NEW c \in Calls, Bypass(c)
  PROVE  CInv'
<1> USE KeyInKeys DEF CInv, storeVars, flightVars
<1>1. Shapes'
  BY DEF Bypass, Goto, Shapes, Labels
<1>2. Claimed'
  BY DEF Bypass, Goto, Claimed, Leading, Shapes
<1>3. StoredWell'
  BY DEF Bypass, Goto, StoredWell, Shapes
<1>4. SharedWell'
  BY DEF Bypass, Goto, SharedWell, Shapes
<1>5. WaitsWell'
  BY DEF Bypass, Goto, WaitsWell, Shapes
<1>6. Missed'
  BY DEF Bypass, Goto, Missed, Shapes
<1>7. ClaimedWell'
  BY DEF Bypass, Goto, ClaimedWell, Shapes
<1>8. NoInheritedCancel'
  BY DEF Bypass, Goto, NoInheritedCancel, Shapes
<1>9. Received'
  BY DEF Bypass, Goto, Received, Shapes
<1> QED  BY <1>1, <1>2, <1>3, <1>4, <1>5, <1>6, <1>7, <1>8, <1>9

\* A call that went round the cache returns.
LEMMA DirectReturnsKeeps ==
  ASSUME CInv, NEW c \in Calls, DirectReturns(c)
  PROVE  CInv'
<1> USE KeyInKeys DEF CInv, storeVars, flightVars
<1>1. Shapes'
  BY OutcomeShape DEF DirectReturns, Goto, Ends, Shapes, Labels
<1>2. Claimed'
  BY OutcomeShape DEF DirectReturns, Goto, Ends, Claimed, Leading, Shapes
<1>3. StoredWell'
  BY OutcomeShape DEF DirectReturns, Goto, Ends, StoredWell, Shapes
<1>4. SharedWell'
  BY OutcomeShape DEF DirectReturns, Goto, Ends, SharedWell, Shapes
<1>5. WaitsWell'
  BY OutcomeShape DEF DirectReturns, Goto, Ends, WaitsWell, Shapes
<1>6. Missed'
  BY OutcomeShape DEF DirectReturns, Goto, Ends, Missed, Shapes
<1>7. ClaimedWell'
  BY OutcomeShape DEF DirectReturns, Goto, Ends, ClaimedWell, Shapes
<1>8. NoInheritedCancel'
  BY OutcomeShape DEF DirectReturns, Goto, Ends, NoInheritedCancel, Shapes
<1>9. Received'
  BY OutcomeShape DEF DirectReturns, Goto, Ends, Received, Shapes
<1> QED  BY <1>1, <1>2, <1>3, <1>4, <1>5, <1>6, <1>7, <1>8, <1>9

\* A call claims its key or waits for the one that has.
LEMMA ClaimKeeps ==
  ASSUME CInv, NEW c \in Calls, Claim(c)
  PROVE  CInv'
<1> USE KeyInKeys DEF CInv, storeVars, flightVars
<1>1. Shapes'
  BY DEF Claim, Goto, Shapes, Labels
<1>2. Claimed'
  BY CacheConstants DEF Claim, Goto, Claimed, Leading, Shapes
<1>3. StoredWell'
  BY DEF Claim, Goto, StoredWell, Shapes
<1>4. SharedWell'
  BY DEF Claim, Goto, SharedWell, Shapes
<1>5. WaitsWell'
  BY CacheConstants DEF Claim, Goto, WaitsWell, ClaimedWell, Shapes
<1>6. Missed'
  BY DEF Claim, Goto, Missed, Shapes
<1>7. ClaimedWell'
  BY DEF Claim, Goto, ClaimedWell, Shapes
<1>8. NoInheritedCancel'
  BY DEF Claim, Goto, NoInheritedCancel, Shapes
<1>9. Received'
  BY DEF Claim, Goto, Received, Shapes
<1> QED  BY <1>1, <1>2, <1>3, <1>4, <1>5, <1>6, <1>7, <1>8, <1>9

\* A leader reads the store.
LEMMA LeadReadKeeps ==
  ASSUME CInv, NEW c \in Calls, LeadRead(c)
  PROVE  CInv'
<1> USE KeyInKeys DEF CInv
<1> DEFINE k == Key(c)
           a == entries[k].answer
<1>1. /\ k \in Keys /\ pc[c] = "read" /\ inflight[k] = c /\ ~Bypassed(c)
      /\ UNCHANGED <<sets, inflight, done, waitOn, now, ctxDone>>
  BY DEF LeadRead, Claimed, Leading
<1>2. ASSUME NEW j \in Keys
      PROVE  entries'[j] = IF j = k /\ ~Fresh(k) THEN NoEntry ELSE entries[j]
  BY DEF LeadRead, GetDrops, Shapes
<1>3. entries' \in [Keys -> Entry \cup {NoEntry}]
  BY DEF LeadRead, GetDrops, Shapes
<1>4. StoredWell' /\ ClaimedWell'
  BY <1>1, <1>2 DEF StoredWell, ClaimedWell
<1>5. CASE Fresh(k) /\ cacheable(a)
  <2>1. /\ pc' = [pc EXCEPT ![c] = "delete"]
        /\ shared' = [shared EXCEPT ![c] = [outcome |-> a, abandoned |-> FALSE]]
        /\ result' = [result EXCEPT ![c] = a]
    BY <1>5 DEF LeadRead, Settle, Ends, Goto
  <2>2. a \in Outcome /\ a.kind = "answer"
    BY <1>1, <1>5 DEF Shapes, Fresh, Entry, cacheable
  <2>3. Given(c, a)
    BY <1>1, <1>5 DEF Given, StoredWell, Fresh
  <2> HIDE DEF k, a
  <2>4. Shapes'
    BY <1>1, <1>3, <2>1, <2>2 DEF Shapes, Labels
  <2>5. Claimed' /\ WaitsWell'
    BY <1>1, <2>1 DEF Claimed, Leading, WaitsWell, Shapes
  <2>6. Missed'
    BY <1>2, <2>1 DEF Missed, Shapes
  <2>7. SharedWell'
    BY <1>1, <2>1, <2>2, <2>3 DEF SharedWell, Shapes
  <2>8. NoInheritedCancel' /\ Received'
    BY <1>1, <2>1, <2>2, <2>3 DEF NoInheritedCancel, Received, Shapes
  <2> QED  BY <1>4, <2>4, <2>5, <2>6, <2>7, <2>8
<1>6. CASE ~(Fresh(k) /\ cacheable(a))
  <2>1. pc' = [pc EXCEPT ![c] = "check"] /\ UNCHANGED <<shared, result>>
    BY <1>6 DEF LeadRead, Goto
  <2>2. entries'[k] = NoEntry
    BY <1>1, <1>2, <1>6 DEF StoredWell, Fresh
  <2> HIDE DEF k, a
  <2>3. Shapes'
    BY <1>1, <1>3, <2>1 DEF Shapes, Labels
  <2>4. Claimed' /\ WaitsWell'
    BY <1>1, <2>1 DEF Claimed, Leading, WaitsWell, Shapes
  <2>5. Missed'
    BY <1>2, <2>1, <2>2 DEF Missed, Shapes, k
  <2>6. SharedWell' /\ NoInheritedCancel' /\ Received'
    BY <1>1, <2>1 DEF SharedWell, NoInheritedCancel, Received, Shapes
  <2> QED  BY <1>4, <2>3, <2>4, <2>5, <2>6
<1> QED  BY <1>5, <1>6

\* A leader looks at its context before it sends.
LEMMA LeadCheckKeeps ==
  ASSUME CInv, NEW c \in Calls, LeadCheck(c)
  PROVE  CInv'
<1> USE KeyInKeys DEF CInv, storeVars, flightVars
<1>1. Shapes'
  <2>1. NoAnswer("canceled") \in Outcome
    BY NoAnswerShape
  <2>2. UNCHANGED <<entries, sets, inflight, waitOn, now, ctxDone>>
        /\ pc' \in [Calls -> Labels]
    BY DEF LeadCheck, Goto, Shapes, Labels
  <2>3. CASE c \in ctxDone
    <3>1. /\ shared' = [shared EXCEPT ![c] =
                          [outcome |-> NoAnswer("canceled"), abandoned |-> TRUE]]
          /\ result' = [result EXCEPT ![c] = NoAnswer("canceled")]
      BY <2>3 DEF LeadCheck, Settle, Ends
    <3> QED  BY <2>1, <2>2, <3>1 DEF Shapes
  <2>4. CASE c \notin ctxDone
    BY <2>2, <2>4 DEF LeadCheck, Shapes
  <2> QED  BY <2>3, <2>4
<1>2. Claimed'
  BY NoAnswerShape DEF LeadCheck, Settle, Ends, Goto, Claimed, Leading, Shapes
<1>3. StoredWell'
  BY NoAnswerShape DEF LeadCheck, Settle, Ends, Goto, StoredWell, Shapes
<1>4. SharedWell'
  BY NoAnswerShape
      DEF LeadCheck, Given, Bypassed, cacheable, NoAnswer, Settle, Ends, Goto,
          SharedWell, Shapes
<1>5. WaitsWell'
  BY NoAnswerShape DEF LeadCheck, Settle, Ends, Goto, WaitsWell, Shapes
<1>6. Missed'
  BY NoAnswerShape DEF LeadCheck, Settle, Ends, Goto, Missed, Shapes
<1>7. ClaimedWell'
  BY NoAnswerShape DEF LeadCheck, Settle, Ends, Goto, ClaimedWell, Shapes
<1>8. NoInheritedCancel'
  BY NoAnswerShape DEF LeadCheck, Settle, Ends, Goto, NoInheritedCancel, Shapes
<1>9. Received'
  BY NoAnswerShape DEF LeadCheck, Settle, Ends, Goto, Received, Shapes
<1> QED  BY <1>1, <1>2, <1>3, <1>4, <1>5, <1>6, <1>7, <1>8, <1>9

\* The provider answers a leader.
LEMMA NextReturnsKeeps ==
  ASSUME CInv, NEW c \in Calls, NextReturns(c)
  PROVE  CInv'
<1> USE KeyInKeys DEF CInv, storeVars, flightVars
<1>1. Shapes'
  BY OutcomeShape
      DEF NextReturns, Settle, AfterNext, Ends, Goto, Abandoned, Shapes, Labels
<1>2. Claimed'
  BY OutcomeShape
      DEF NextReturns, Settle, AfterNext, Ends, Goto, Abandoned, Claimed,
          Leading, Shapes
<1>3. StoredWell'
  BY OutcomeShape
      DEF NextReturns, Settle, AfterNext, Ends, Goto, Abandoned, StoredWell,
          Shapes
<1>4. SharedWell'
  <2>1. PICK o \in ProviderOutcomes(c) :
          /\ shared' = [shared EXCEPT ![c] =
                          [outcome |-> o, abandoned |-> Abandoned(c, o)]]
          /\ pc' = [pc EXCEPT ![c] = IF cacheable(o) THEN "set" ELSE "delete"]
    BY DEF NextReturns, Settle, AfterNext, Goto
  <2>2. /\ Given(c, o) /\ ~Bypassed(c)
        /\ o.kind = "canceled" => Abandoned(c, o)
    BY OutcomeShape DEF Abandoned, NextReturns, Claimed, Leading
  <2> QED
    BY <2>1, <2>2 DEF SharedWell, Shapes
<1>5. WaitsWell'
  BY OutcomeShape
      DEF NextReturns, Settle, AfterNext, Ends, Goto, Abandoned, WaitsWell,
          Shapes
<1>6. Missed'
  BY OutcomeShape
      DEF NextReturns, Settle, AfterNext, Ends, Goto, Abandoned, Missed, Shapes
<1>7. ClaimedWell'
  BY OutcomeShape
      DEF NextReturns, Settle, AfterNext, Ends, Goto, Abandoned, ClaimedWell,
          Shapes
<1>8. NoInheritedCancel'
  BY OutcomeShape
      DEF NextReturns, Settle, AfterNext, Ends, Goto, Abandoned,
          NoInheritedCancel, Shapes
<1>9. Received'
  BY OutcomeShape
      DEF NextReturns, Settle, AfterNext, Ends, Goto, Abandoned, Received,
          Shapes
<1> QED  BY <1>1, <1>2, <1>3, <1>4, <1>5, <1>6, <1>7, <1>8, <1>9

\* A leader stores its answer.
LEMMA LeadSetKeeps ==
  ASSUME CInv, NEW c \in Calls, LeadSet(c)
  PROVE  CInv'
<1> USE KeyInKeys DEF CInv
<1> DEFINE k == Key(c)
           a == shared[c].outcome
           new == [answer |-> a, order |-> sets + 1,
                   expiresAt |-> IF TTL > 0 THEN now + TTL ELSE 0]
<1>1. /\ k \in Keys /\ pc[c] = "set" /\ inflight[k] = c /\ ~Bypassed(c)
      /\ pc' = [pc EXCEPT ![c] = "delete"] /\ sets' = sets + 1
      /\ UNCHANGED <<inflight, shared, waitOn, result, now, ctxDone>>
  BY DEF LeadSet, Set, Goto, Claimed, Leading, flightVars
<1>2. a \in Outcome /\ cacheable(a) /\ Given(c, a)
  BY <1>1 DEF Shapes, SharedWell
<1>3. a.by \in Calls /\ Key(a.by) = k /\ ~Bypassed(a.by)
  BY <1>1, <1>2 DEF Given, cacheable
<1>4. new \in Entry /\ new.answer = a
  BY <1>2, CacheConstants DEF Entry, Shapes
<1>5. ASSUME NEW j \in Keys
      PROVE  IF j = k THEN entries'[j] = new
             ELSE entries'[j] \in {entries[j], NoEntry}
  BY DEF LeadSet, Set
<1>6. DOMAIN entries' = Keys /\ entries' = [j \in Keys |-> entries'[j]]
  BY DEF LeadSet, Set
<1> HIDE DEF k, a, new
<1>7. Shapes'
  <2>1. entries' \in [Keys -> Entry \cup {NoEntry}]
    BY <1>4, <1>5, <1>6 DEF Shapes
  <2> QED  BY <1>1, <2>1 DEF Shapes, Labels
<1>8. StoredWell'
  BY <1>2, <1>3, <1>4, <1>5 DEF StoredWell
<1>9. Claimed' /\ WaitsWell' /\ ClaimedWell'
  BY <1>1 DEF Claimed, Leading, WaitsWell, ClaimedWell, Shapes
<1>10. Missed'
  <2> SUFFICES ASSUME NEW d \in Calls, pc'[d] \in {"check", "next"}
               PROVE  entries'[Key(d)] = NoEntry
    BY DEF Missed
  <2>1. d # c /\ pc[d] \in {"check", "next"}
    BY <1>1 DEF Shapes
  <2>2. inflight[Key(d)] = d
    BY <2>1 DEF Claimed, Leading
  <2>3. Key(d) # k
    BY <1>1, <2>1, <2>2
  <2>4. entries[Key(d)] = NoEntry
    BY <2>1 DEF Missed
  <2> QED  BY <1>5, <2>3, <2>4
<1>11. SharedWell' /\ NoInheritedCancel' /\ Received'
  BY <1>1 DEF SharedWell, NoInheritedCancel, Received, Shapes
<1> QED  BY <1>7, <1>8, <1>9, <1>10, <1>11

\* A leader frees its key.
LEMMA LeadDeleteKeeps ==
  ASSUME CInv, NEW c \in Calls, LeadDelete(c)
  PROVE  CInv'
<1> USE KeyInKeys DEF CInv, storeVars, flightVars
<1>1. Shapes'
  BY DEF LeadDelete, Goto, Shapes, Labels
<1>2. Claimed'
  BY DEF LeadDelete, Goto, Claimed, Leading, Shapes
<1>3. StoredWell'
  BY DEF LeadDelete, Goto, StoredWell, Shapes
<1>4. SharedWell'
  BY DEF LeadDelete, Goto, SharedWell, Shapes
<1>5. WaitsWell'
  BY DEF LeadDelete, Goto, WaitsWell, Shapes
<1>6. Missed'
  BY DEF LeadDelete, Goto, Missed, Shapes
<1>7. ClaimedWell'
  BY DEF LeadDelete, Goto, ClaimedWell, Shapes
<1>8. NoInheritedCancel'
  BY DEF LeadDelete, Goto, NoInheritedCancel, Shapes
<1>9. Received'
  BY DEF LeadDelete, Goto, Received, Shapes
<1> QED  BY <1>1, <1>2, <1>3, <1>4, <1>5, <1>6, <1>7, <1>8, <1>9

\* A leader wakes its followers.
LEMMA LeadCloseKeeps ==
  ASSUME CInv, NEW c \in Calls, LeadClose(c)
  PROVE  CInv'
<1> USE KeyInKeys DEF CInv, storeVars, flightVars
<1>1. Shapes'
  BY DEF LeadClose, Goto, Shapes, Labels
<1>2. Claimed'
  BY DEF LeadClose, Goto, Claimed, Leading, Shapes
<1>3. StoredWell'
  BY DEF LeadClose, Goto, StoredWell, Shapes
<1>4. SharedWell'
  BY DEF LeadClose, Goto, SharedWell, Shapes
<1>5. WaitsWell'
  BY DEF LeadClose, Goto, WaitsWell, Shapes
<1>6. Missed'
  BY DEF LeadClose, Goto, Missed, Shapes
<1>7. ClaimedWell'
  BY DEF LeadClose, Goto, ClaimedWell, Shapes
<1>8. NoInheritedCancel'
  BY DEF LeadClose, Goto, NoInheritedCancel, Shapes
<1>9. Received'
  BY DEF LeadClose, Goto, Received, Shapes
<1> QED  BY <1>1, <1>2, <1>3, <1>4, <1>5, <1>6, <1>7, <1>8, <1>9

\* A follower is woken.
LEMMA FollowerWokenKeeps ==
  ASSUME CInv, NEW c \in Calls, FollowerWoken(c)
  PROVE  CInv'
<1> USE KeyInKeys DEF CInv
<1> DEFINE d == waitOn[c]
           led == shared[d]
<1>1. /\ pc[c] = "wait" /\ d \in Calls /\ Key(d) = Key(c) /\ ~Bypassed(c)
      /\ waitOn' = [waitOn EXCEPT ![c] = NoOne]
      /\ UNCHANGED <<entries, sets, inflight, shared, done, now, ctxDone>>
  BY DEF FollowerWoken, WaitsWell, storeVars, flightVars
<1>2. led.outcome \in Outcome
  BY <1>1 DEF Shapes
<1>3. Given(c, led.outcome)
  BY <1>1 DEF Given, SharedWell
<1>4. \/ pc' = [pc EXCEPT ![c] = "start"] /\ UNCHANGED result
      \/ /\ pc' = [pc EXCEPT ![c] = "done"] /\ c \in ctxDone
         /\ result' = [result EXCEPT ![c] = NoAnswer("canceled")]
      \/ /\ pc' = [pc EXCEPT ![c] = "done"] /\ ~led.abandoned
         /\ result' = [result EXCEPT ![c] = led.outcome]
  <2>1. led.abandoned \in BOOLEAN
    BY <1>1 DEF Shapes
  <2> HIDE DEF d
  <2>2. CASE led.abandoned /\ c \notin ctxDone
    BY <2>2 DEF FollowerWoken, Goto, d
  <2>3. CASE led.abandoned /\ c \in ctxDone
    BY <2>3 DEF FollowerWoken, Goto, Ends, d
  <2>4. CASE ~led.abandoned
    BY <2>4 DEF FollowerWoken, Goto, Ends, d
  <2> QED  BY <2>1, <2>2, <2>3, <2>4
<1>5. ~led.abandoned => led.outcome.kind # "canceled"
  BY <1>1 DEF SharedWell
<1> HIDE DEF d, led
<1>6. pc' \in [Calls -> Labels] /\ result' \in [Calls -> Outcome]
  BY <1>2, <1>4, NoAnswerShape DEF Shapes, Labels
<1>7. Shapes'
  BY <1>1, <1>6 DEF Shapes
<1>8. ASSUME NEW e \in Calls
      PROVE  /\ pc'[e] = IF e = c THEN pc'[c] ELSE pc[e]
             /\ pc'[c] \in {"start", "done"}
             /\ waitOn'[e] = IF e = c THEN NoOne ELSE waitOn[e]
  BY <1>1, <1>4 DEF Shapes
<1>9. Claimed' /\ StoredWell' /\ ClaimedWell'
  BY <1>1, <1>8 DEF Claimed, Leading, StoredWell, ClaimedWell
<1>10. SharedWell' /\ WaitsWell' /\ Missed'
  BY <1>1, <1>8 DEF SharedWell, WaitsWell, Missed
<1>11. ASSUME NEW e \in Calls
       PROVE  Given(e, result'[e]) /\ (result'[e].kind = "canceled" => e \in ctxDone)
  <2>1. Given(e, result[e]) /\ (result[e].kind = "canceled" => e \in ctxDone)
    BY DEF Received, NoInheritedCancel
  <2>2. /\ Given(c, NoAnswer("canceled")) /\ NoAnswer("canceled").kind = "canceled"
    BY NoAnswerShape
  <2>3. \/ result'[e] = result[e]
        \/ e = c /\ c \in ctxDone /\ result'[e] = NoAnswer("canceled")
        \/ e = c /\ ~led.abandoned /\ result'[e] = led.outcome
    BY <1>4 DEF Shapes
  <2> QED  BY <1>3, <1>5, <2>1, <2>2, <2>3
<1>12. NoInheritedCancel' /\ Received'
  BY <1>1, <1>11 DEF NoInheritedCancel, Received
<1> QED  BY <1>7, <1>9, <1>10, <1>12

\* A follower's context ends while it waits.
LEMMA FollowerCanceledKeeps ==
  ASSUME CInv, NEW c \in Calls, FollowerCanceled(c)
  PROVE  CInv'
<1> USE KeyInKeys DEF CInv, storeVars, flightVars
<1>1. Shapes'
  BY NoAnswerShape DEF FollowerCanceled, Goto, Ends, Shapes, Labels
<1>2. Claimed'
  BY NoAnswerShape DEF FollowerCanceled, Goto, Ends, Claimed, Leading, Shapes
<1>3. StoredWell'
  BY NoAnswerShape DEF FollowerCanceled, Goto, Ends, StoredWell, Shapes
<1>4. SharedWell'
  BY NoAnswerShape DEF FollowerCanceled, Goto, Ends, SharedWell, Shapes
<1>5. WaitsWell'
  BY NoAnswerShape DEF FollowerCanceled, Goto, Ends, WaitsWell, Shapes
<1>6. Missed'
  BY NoAnswerShape DEF FollowerCanceled, Goto, Ends, Missed, Shapes
<1>7. ClaimedWell'
  BY NoAnswerShape DEF FollowerCanceled, Goto, Ends, ClaimedWell, Shapes
<1>8. NoInheritedCancel'
  BY NoAnswerShape DEF FollowerCanceled, Goto, Ends, NoInheritedCancel, Shapes
<1>9. Received'
  BY NoAnswerShape DEF FollowerCanceled, Goto, Ends, Received, Shapes
<1> QED  BY <1>1, <1>2, <1>3, <1>4, <1>5, <1>6, <1>7, <1>8, <1>9

\* A context ends, time passes, or nothing happens.
LEMMA IdleKeeps ==
  ASSUME CInv, UNCHANGED <<storeVars, flightVars, pc, waitOn, result>>,
         now' \in Nat, ctxDone \subseteq ctxDone', ctxDone' \subseteq Calls
  PROVE  CInv'
<1> USE DEF CInv, storeVars, flightVars
<1>1. Shapes'
  BY DEF Shapes
<1>2. Claimed' /\ StoredWell' /\ SharedWell' /\ WaitsWell' /\ Missed' /\ ClaimedWell'
  BY
      DEF Claimed, Leading, StoredWell, SharedWell, WaitsWell, Missed,
          ClaimedWell
<1>3. NoInheritedCancel' /\ Received'
  BY DEF NoInheritedCancel, Received
<1> QED  BY <1>1, <1>2, <1>3

\* Every step of the cache keeps the inductive invariant.
LEMMA NextCInv == CInv /\ [Next]_vars => CInv'
<1> SUFFICES ASSUME CInv, [Next]_vars PROVE CInv'
  OBVIOUS
<1>1. ASSUME NEW c \in Calls, Step(c) PROVE CInv'
  BY <1>1, BypassKeeps, DirectReturnsKeeps, ClaimKeeps, LeadReadKeeps,
     LeadCheckKeeps, NextReturnsKeeps, LeadSetKeeps, LeadDeleteKeeps,
     LeadCloseKeeps, FollowerWokenKeeps, FollowerCanceledKeeps DEF Step
<1>2. now \in Nat /\ ctxDone \subseteq Calls
  BY DEF CInv, Shapes
<1>3. ASSUME NEW c \in Calls, EndContext(c) PROVE CInv'
  BY <1>2, <1>3, IdleKeeps DEF EndContext, callVars
<1>4. CASE Tick
  BY <1>2, <1>4, IdleKeeps DEF Tick, callVars
<1>5. CASE UNCHANGED vars
  BY <1>2, <1>5, IdleKeeps DEF vars, callVars
<1> QED  BY <1>1, <1>3, <1>4, <1>5 DEF Next, AllDone

\* The inductive invariant holds in every reachable state.
THEOREM CacheInductive == Spec => []CInv
BY InitCInv, NextCInv, PTL DEF Spec

\* Identical calls are never with the provider together.
THEOREM CacheSingleFlight == Spec => []SingleFlight
<1>1. CInv => SingleFlight
  BY DEF CInv, Claimed, Leading, SingleFlight
<1> QED  BY <1>1, CacheInductive, PTL

\* Nothing is bought while the store holds it.
THEOREM CacheBuysOnce == Spec => []NothingBoughtTwice
<1>1. CInv => NothingBoughtTwice
  BY DEF CInv, Missed, NothingBoughtTwice
<1> QED  BY <1>1, CacheInductive, PTL

\* No caller is given another caller's cancellation.
THEOREM CacheCancels == Spec => []NoInheritedCancel
<1>1. CInv => NoInheritedCancel
  BY DEF CInv
<1> QED  BY <1>1, CacheInductive, PTL

\* No answer crosses a tenant, a data policy or a bypass.
THEOREM CacheIsolates == Spec => []Isolated
<1>1. CInv => Isolated
  <2> SUFFICES ASSUME CInv, NEW c \in Calls, result[c].kind = "answer"
               PROVE  LET by == result[c].by
                      IN  /\ Request[by].ask = Request[c].ask
                          /\ Request[by].tenant = Request[c].tenant
                          /\ Request[by].policy = Request[c].policy
                          /\ Bypassed(by) \/ Bypassed(c) => by = c
    BY DEF Isolated
  <2> DEFINE by == result[c].by
  <2>1. by = c \/ (by \in Calls /\ Key(by) = Key(c)
                   /\ ~Bypassed(by) /\ ~Bypassed(c))
    BY DEF CInv, Received, Given
  <2> HIDE DEF by
  <2>2. /\ Request[by].ask = Request[c].ask
        /\ Request[by].tenant = Request[c].tenant
        /\ Request[by].policy = Request[c].policy
    BY <2>1 DEF Key
  <2> QED  BY <2>1, <2>2 DEF by
<1> QED  BY <1>1, CacheInductive, PTL

\* NoneStranded is inductive with the shapes of CInv: a call that is not on its
\* way any more has given its key back and closed its channel.
LEMMA NoneStrandedKept ==
  ASSUME CInv, NoneStranded, [Next]_vars
  PROVE  NoneStranded'
<1> USE DEF CInv, Shapes, Labels, Leading, NoneStranded, Goto
<1>1. ASSUME NEW c \in Calls, Bypass(c)
      PROVE  NoneStranded'
  BY <1>1 DEF Bypass, flightVars
<1>2. ASSUME NEW c \in Calls, DirectReturns(c)
      PROVE  NoneStranded'
  BY <1>2 DEF DirectReturns, flightVars
<1>3. ASSUME NEW c \in Calls, Claim(c)
      PROVE  NoneStranded'
  <2>1. CASE inflight[Key(c)] = NoOne
    <3>1. /\ pc[c] = "start" /\ UNCHANGED <<waitOn, done>>
          /\ pc' = [pc EXCEPT ![c] = "read"]
          /\ inflight' = [inflight EXCEPT ![Key(c)] = c]
      BY <1>3, <2>1, Zenon DEF Claim
    <3> QED  BY <3>1, KeyInKeys DEF WaitsWell
  <2>2. CASE inflight[Key(c)] # NoOne
    <3>1. /\ pc[c] = "start" /\ UNCHANGED <<inflight, done>>
          /\ pc' = [pc EXCEPT ![c] = "wait"]
          /\ waitOn' = [waitOn EXCEPT ![c] = inflight[Key(c)]]
      BY <1>3, <2>2, Zenon DEF Claim
    <3>2. Leading(inflight[Key(c)]) /\ inflight[Key(c)] \in Calls
      BY <2>2, KeyInKeys
    <3> QED  BY <3>1, <3>2 DEF WaitsWell
  <2> QED  BY <2>1, <2>2
<1>0. ASSUME NEW c \in Calls, Leading(c),
             NEW l \in {"check", "next", "set", "delete"},
             pc' = [pc EXCEPT ![c] = l], UNCHANGED <<waitOn, inflight, done>>
      PROVE  NoneStranded'
  BY <1>0
<1>4. ASSUME NEW c \in Calls, LeadRead(c)
      PROVE  NoneStranded'
  <2>1. /\ Leading(c) /\ UNCHANGED <<waitOn, inflight, done>>
        /\ \/ pc' = [pc EXCEPT ![c] = "delete"]
           \/ pc' = [pc EXCEPT ![c] = "check"]
    BY <1>4, Zenon DEF LeadRead
  <2> QED  BY <2>1, <1>0
<1>5. ASSUME NEW c \in Calls, LeadCheck(c)
      PROVE  NoneStranded'
  <2>1. /\ Leading(c) /\ UNCHANGED <<waitOn, inflight, done>>
        /\ \/ pc' = [pc EXCEPT ![c] = "delete"]
           \/ pc' = [pc EXCEPT ![c] = "next"]
    BY <1>5, Zenon DEF LeadCheck
  <2> QED  BY <2>1, <1>0
<1>6. ASSUME NEW c \in Calls, NextReturns(c)
      PROVE  NoneStranded'
  <2>1. /\ Leading(c) /\ UNCHANGED <<waitOn, inflight, done>>
        /\ \/ pc' = [pc EXCEPT ![c] = "set"]
           \/ pc' = [pc EXCEPT ![c] = "delete"]
    BY <1>6, Zenon DEF NextReturns, AfterNext
  <2> QED  BY <2>1, <1>0
<1>7. ASSUME NEW c \in Calls, LeadSet(c)
      PROVE  NoneStranded'
  BY <1>7 DEF LeadSet, flightVars
<1>8. ASSUME NEW c \in Calls, LeadDelete(c)
      PROVE  NoneStranded'
  BY <1>8, KeyInKeys DEF LeadDelete, ClaimedWell
<1>9. ASSUME NEW c \in Calls, LeadClose(c)
      PROVE  NoneStranded'
  BY <1>9 DEF LeadClose
<1>10. ASSUME NEW c \in Calls, FollowerWoken(c)
       PROVE  NoneStranded'
  <2>1. /\ pc[c] = "wait" /\ UNCHANGED <<inflight, done>>
        /\ waitOn' = [waitOn EXCEPT ![c] = NoOne]
        /\ \/ pc' = [pc EXCEPT ![c] = "start"]
           \/ pc' = [pc EXCEPT ![c] = "done"]
    BY <1>10, Zenon DEF FollowerWoken, flightVars
  <2> QED  BY <2>1 DEF WaitsWell
<1>11. ASSUME NEW c \in Calls, FollowerCanceled(c)
       PROVE  NoneStranded'
  BY <1>11 DEF FollowerCanceled, flightVars
<1>12. ASSUME UNCHANGED <<pc, waitOn, inflight, done>>
       PROVE  NoneStranded'
  BY <1>12
<1>13. ASSUME (\E c \in Calls : EndContext(c)) \/ Tick \/ AllDone \/ UNCHANGED vars
       PROVE  UNCHANGED <<pc, waitOn, inflight, done>>
  BY <1>13 DEF EndContext, Tick, AllDone, vars, flightVars, callVars
<1> QED
  BY <1>1, <1>2, <1>3, <1>4, <1>5, <1>6, <1>7, <1>8, <1>9, <1>10, <1>11, <1>12,
     <1>13 DEF Next, Step

\* No follower is left waiting and no key left claimed.
THEOREM CacheStrandsNobody == Spec => []NoneStranded
<1>1. Init => NoneStranded
  BY DEF Init, NoneStranded
<1> QED  BY <1>1, CacheInductive, NoneStrandedKept, PTL DEF Spec

\* Identical calls pay once, together or one after the other.
THEOREM CacheBuys == Spec => []BoughtOnce
BY CacheSingleFlight, CacheBuysOnce, PTL DEF BoughtOnce

\* What a caller is given is its own.
THEOREM CacheAnswers == Spec => []AnswersOwn
BY CacheCancels, CacheIsolates, PTL DEF AnswersOwn

-----------------------------------------------------------------------------
\* The budget.  BudgetInv: the ledger is the sum of the amounts calls stand for,
\* which are never negative; a call is charged when it is over and not before; and
\* the calls in flight are among those the latest admission found.
Overrun == [c \in BCalls |-> IF bCharge[c] > B!est(c) THEN bCharge[c] - B!est(c) ELSE 0]

BudgetTyped ==
  /\ bCfg \in BSettings
  /\ bPc \in [BCalls -> {"start", "calling", "settling", "done", "refused"}]
  /\ bOutcome \in [BCalls -> B!Outcomes \cup {B!NoOutcome}]
  /\ bCharge \in [BCalls -> Nat]
  /\ bTogether \in SUBSET BCalls

BudgetInv ==
  /\ BudgetTyped
  /\ \A c \in BCalls : bPc[c] = "settling" => bOutcome[c] \in B!Outcomes
  /\ \A c \in BCalls : bPc[c] # "done" => bCharge[c] = 0
  /\ B!InFlight # {} => ~B!unlimited /\ ~B!unusable
  /\ \A c \in B!InFlight : B!validCost(B!est(c))
  /\ B!InFlight \subseteq bTogether
  /\ BudgetKept

\* The two sums of the budget are sums of SumTheorems.
LEMMA BudgetSums ==
  ASSUME NEW S, NEW f
  PROVE  B!Total(S, f) = Sum(f, S)
BY DEF B!Total, B!SumFunctionOnSet, B!FoldFunctionOnSet, B!MapThenFoldSet,
       Sum, SumFunctionOnSet, FoldFunctionOnSet, MapThenFoldSet

\* An estimate is a number, and every price is.
LEMMA EstimateInt ==
  ASSUME bCfg \in BSettings, NEW c \in BCalls
  PROVE  /\ B!est(c) \in Int /\ bCfg.limit \in Int
         /\ bCfg.hasCalc \in BOOLEAN /\ bCfg.allowUnpriced \in BOOLEAN
BY SpendConstants DEF B!est, B!estimateOf, B!FromRequest, B!validCost

\* The amounts and the overruns are numbers, none of them negative.
LEMMA BudgetAmounts ==
  ASSUME BudgetInv
  PROVE  /\ \A c \in BCalls : B!Amount[c] \in Nat /\ Overrun[c] \in Nat
         /\ bSpent = Sum(B!Amount, BCalls) /\ bSpent \in Nat
         /\ \A c \in B!InFlight : B!est(c) \in Nat /\ B!est(c) <= bSpent
         /\ ~B!unlimited /\ ~B!unusable => bSpent <= B!limit + Sum(Overrun, bTogether)
         /\ Sum(Overrun, bTogether) \in Nat
         /\ IsFiniteSet(BCalls) /\ IsFiniteSet(bTogether)
<1>1. IsFiniteSet(BCalls) /\ IsFiniteSet(bTogether)
  BY SpendConstants, FS_Subset DEF BudgetInv, BudgetTyped
<1>2. ASSUME NEW c \in BCalls
      PROVE  /\ c \in B!InFlight => B!est(c) \in Nat /\ B!Amount[c] = B!est(c)
             /\ B!Amount[c] \in Nat /\ Overrun[c] \in Nat
  <2>1. B!est(c) \in Int /\ bCharge[c] \in Nat
    BY EstimateInt DEF BudgetInv, BudgetTyped
  <2>2. c \in B!InFlight => B!est(c) >= 0
    BY DEF BudgetInv, B!validCost
  <2> QED  BY <2>1, <2>2 DEF B!Amount, Overrun
<1>3. bSpent = Sum(B!Amount, BCalls)
  BY BudgetSums DEF BudgetInv, BudgetKept, B!LedgerExact
<1>4. Sum(B!Amount, BCalls) \in Nat /\ \A c \in BCalls : B!Amount[c] <= Sum(B!Amount, BCalls)
  BY <1>1, <1>2, SumNat
<1>5. ~B!unlimited /\ ~B!unusable => bSpent <= B!limit + Sum(Overrun, bTogether)
  BY BudgetSums DEF BudgetInv, BudgetKept, B!OverrunBounded, Overrun
<1>6. Sum(Overrun, bTogether) \in Nat
  <2>1. \A c \in bTogether : Overrun[c] \in Nat
    BY <1>2 DEF BudgetInv, BudgetTyped
  <2> QED  BY <1>1, <2>1, SumNat
<1>7. \A c \in B!InFlight : c \in BCalls
  BY DEF B!InFlight
<1> QED  BY <1>1, <1>2, <1>3, <1>4, <1>5, <1>6, <1>7

\* What the two parts of BudgetKept come to after a step.
LEMMA BudgetKeptNext ==
  ASSUME bSpent' = Sum(B!Amount', BCalls),
         (~B!unlimited /\ ~B!unusable)' => bSpent' <= B!limit' + Sum(Overrun', bTogether')
  PROVE  BudgetKept'
BY BudgetSums DEF BudgetKept, B!LedgerExact, B!OverrunBounded, Overrun,
       B!Total, B!SumFunctionOnSet, B!FoldFunctionOnSet, B!MapThenFoldSet,
       Sum, SumFunctionOnSet, FoldFunctionOnSet, MapThenFoldSet

\* A new budget has spent nothing.
LEMMA InitBudget == B!Init => BudgetInv
<1> SUFFICES ASSUME B!Init PROVE BudgetInv
  OBVIOUS
<1>1. /\ bCfg \in BSettings /\ bPc = [c \in BCalls |-> "start"] /\ bSpent = 0
      /\ bCharge = [c \in BCalls |-> 0] /\ bTogether = {}
      /\ bOutcome = [c \in BCalls |-> B!NoOutcome]
  BY DEF B!Init
<1>2. BudgetTyped /\ B!InFlight = {}
  BY <1>1 DEF BudgetTyped, B!InFlight
<1>3. IsFiniteSet(BCalls) /\ IsFiniteSet({})
  BY SpendConstants, FS_EmptySet
<1>4. \A c \in BCalls : B!Amount[c] = 0
  BY <1>1, <1>2 DEF B!Amount
<1>5. Sum(B!Amount, BCalls) = 0
  BY <1>3, <1>4, SumZero
<1>6. Sum(Overrun, {}) = 0
  BY <1>3, SumUnfolds
<1>7. ~B!unlimited /\ ~B!unusable => B!limit \in Nat
  BY <1>1, SpendConstants DEF B!unlimited, B!unusable, B!limit
<1>8. BudgetKept
  BY <1>1, <1>5, <1>6, <1>7, BudgetSums DEF BudgetKept, B!LedgerExact, B!OverrunBounded, Overrun
<1> QED  BY <1>1, <1>2, <1>8 DEF BudgetInv

\* Steps that leave the ledger and what every call stands for alone.
LEMMA BudgetAside ==
  ASSUME BudgetInv, bCfg' = bCfg, bSpent' = bSpent, bCharge' = bCharge,
         bTogether' = bTogether, B!InFlight' = B!InFlight,
         bPc' \in [BCalls -> {"start", "calling", "settling", "done", "refused"}],
         bOutcome' \in [BCalls -> B!Outcomes \cup {B!NoOutcome}],
         \A c \in BCalls : bPc[c] = "done" => bPc'[c] = "done",
         \A c \in BCalls : bPc'[c] = "settling" => bOutcome'[c] \in B!Outcomes
  PROVE  BudgetInv'
<1>1. /\ \A c \in BCalls : B!est(c)' = B!est(c)
      /\ (B!limit' = B!limit) /\ (B!unlimited' <=> B!unlimited) /\ (B!unusable' <=> B!unusable)
      /\ B!Outcomes' = B!Outcomes
  BY DEF B!est, B!estimateOf, B!FromRequest, B!limit, B!unlimited, B!unusable, B!validCost,
         B!Outcomes, B!Answers
<1>2. B!Amount' = B!Amount /\ Overrun' = Overrun
  BY <1>1 DEF B!Amount, Overrun
<1>3. BudgetKept'
  BY <1>1, <1>2, BudgetAmounts, BudgetKeptNext
<1>4. BudgetTyped'
  BY <1>1 DEF BudgetInv, BudgetTyped, B!NoOutcome
<1>5. \A c \in BCalls : bPc'[c] # "done" => bCharge'[c] = 0
  BY DEF BudgetInv
<1>6. /\ B!InFlight' # {} => ~B!unlimited' /\ ~B!unusable'
      /\ B!InFlight' \subseteq bTogether'
  BY <1>1 DEF BudgetInv
<1>7. \A c \in B!InFlight' : B!validCost(B!est(c)')
  <2>1. \A c \in B!InFlight : c \in BCalls
    BY DEF B!InFlight
  <2> QED  BY <1>1, <2>1 DEF BudgetInv, B!validCost
<1> QED  BY <1>1, <1>3, <1>4, <1>5, <1>6, <1>7 DEF BudgetInv, B!validCost

\* A reservation: what is added to the ledger is what the call stands for.
LEMMA BudgetReserve ==
  ASSUME BudgetInv, NEW c \in BCalls, B!Reserve(c)
  PROVE  BudgetInv'
<1>0. /\ bPc[c] = "start" /\ ~B!Unaskable(c) /\ ~B!unlimited /\ B!Fits(c)
      /\ bSpent' = bSpent + B!est(c) /\ bPc' = [bPc EXCEPT ![c] = "calling"]
      /\ bTogether' = B!InFlight \cup {c}
      /\ bCfg' = bCfg /\ bOutcome' = bOutcome /\ bCharge' = bCharge
  BY DEF B!Reserve, B!Goto
<1>1. /\ \A d \in BCalls : B!est(d)' = B!est(d)
      /\ (B!limit' = B!limit) /\ (B!unlimited' <=> B!unlimited) /\ (B!unusable' <=> B!unusable)
      /\ B!Outcomes' = B!Outcomes
  BY <1>0 DEF B!est, B!estimateOf, B!FromRequest, B!limit, B!unlimited, B!unusable, B!validCost,
         B!Outcomes, B!Answers
<1>2. /\ BudgetTyped' /\ c \notin B!InFlight /\ B!InFlight' = B!InFlight \cup {c}
      /\ bCharge[c] = 0
  BY <1>0, <1>1 DEF BudgetInv, BudgetTyped, B!InFlight, B!NoOutcome
<1>3. B!est(c) \in Nat /\ B!limit \in Int /\ ~B!unusable
  BY <1>0, EstimateInt DEF B!Unaskable, B!validCost, BudgetInv, BudgetTyped, B!limit
<1>4. \A d \in BCalls :
        /\ B!Amount[d] \in Nat /\ Overrun'[d] = Overrun[d] /\ Overrun[d] \in Nat
        /\ B!Amount'[d] = IF d = c THEN B!est(c) ELSE B!Amount[d]
  BY <1>0, <1>1, <1>2, BudgetAmounts DEF B!Amount, Overrun
<1>5. bSpent' = Sum(B!Amount', BCalls)
  <2>1. Sum(B!Amount', BCalls) = Sum(B!Amount, BCalls) - B!Amount[c] + B!Amount'[c]
    <3>1. PICK f : f = B!Amount'
      OBVIOUS
    <3>2. Sum(f, BCalls) = Sum(B!Amount, BCalls) - B!Amount[c] + f[c]
      BY <1>3, <1>4, <3>1, BudgetAmounts, SumChange
    <3> QED  BY <3>1, <3>2
  <2>2. B!Amount[c] = 0 /\ B!Amount'[c] = B!est(c)
    BY <1>2, <1>4 DEF B!Amount
  <2> QED  BY <1>0, <1>3, <2>1, <2>2, BudgetAmounts
<1>6. bSpent' <= B!limit' + Sum(Overrun', bTogether')
  <2>1. \A d \in bTogether' : Overrun'[d] \in Nat
    BY <1>0, <1>4 DEF B!InFlight
  <2>2. IsFiniteSet(bTogether')
    BY <1>0, BudgetAmounts, FS_Subset DEF B!InFlight
  <2>3. Sum(Overrun', bTogether') \in Nat
    <3>1. PICK f, S : f = Overrun' /\ S = bTogether'
      OBVIOUS
    <3> QED  BY <2>1, <2>2, <3>1, SumNat
  <2>4. bSpent + B!est(c) <= B!limit
    BY <1>0 DEF B!Fits
  <2> QED  BY <1>0, <1>1, <1>3, <2>3, <2>4, BudgetAmounts
<1>7. BudgetKept'
  BY <1>5, <1>6, BudgetKeptNext
<1>8. /\ \A d \in BCalls : bPc'[d] = "settling" => bOutcome'[d] \in B!Outcomes'
      /\ \A d \in BCalls : bPc'[d] # "done" => bCharge'[d] = 0
      /\ B!InFlight' \subseteq bTogether' /\ ~B!unlimited' /\ ~B!unusable'
  BY <1>0, <1>1, <1>2, <1>3 DEF BudgetInv, BudgetTyped
<1>9. \A d \in B!InFlight' : B!validCost(B!est(d))'
  <2>1. \A d \in B!InFlight' : d \in BCalls
    BY <1>2 DEF B!InFlight
  <2>2. \A d \in B!InFlight' : B!est(d) >= 0
    BY <1>2, <1>3 DEF BudgetInv, B!validCost
  <2> QED  BY <1>1, <2>1, <2>2 DEF B!validCost
<1> QED  BY <1>2, <1>7, <1>8, <1>9 DEF BudgetInv

\* What a call is charged is an amount.
LEMMA ChargedNat ==
  ASSUME bCfg \in BSettings, NEW c \in BCalls, B!est(c) \in Nat, NEW o \in B!Outcomes
  PROVE  B!Charged(c, o) \in Nat
<1>1. CASE o.kind \in {"error", "panic"}
  BY <1>1 DEF B!Charged
<1>2. CASE o.kind \notin {"error", "panic"}
  <2>1. o.kind = "answer" /\ o.cost \in Int
    <3>1. o \in B!Answers
      BY <1>2 DEF B!Outcomes
    <3>2. o \in [kind : {"answer"}, usage : BOOLEAN, cached : BOOLEAN, cost : BCosts]
      BY <3>1 DEF B!Answers
    <3>3. BCosts \subseteq Int
      BY SpendConstants
    <3> QED  BY <3>2, <3>3
  <2>2. CASE B!measured(o)
    BY <1>2, <2>1, <2>2 DEF B!Charged, B!measured, B!validCost
  <2>3. CASE ~B!measured(o)
    BY <1>2, <2>1, <2>3 DEF B!Charged
  <2> QED  BY <2>2, <2>3
<1> QED  BY <1>1, <1>2

\* A settlement: the reservation goes and the charge comes, and the ledger, which held
\* the reservation, is not clamped.
LEMMA BudgetSettle ==
  ASSUME BudgetInv, NEW c \in BCalls, B!Settle(c)
  PROVE  BudgetInv'
<1> DEFINE x == B!Charged(c, bOutcome[c])
<1>0. /\ bPc[c] = "settling" /\ bPc' = [bPc EXCEPT ![c] = "done"]
      /\ bSpent' = IF bSpent - B!est(c) + x < 0 THEN 0 ELSE bSpent - B!est(c) + x
      /\ bCharge' = [bCharge EXCEPT ![c] = x]
      /\ bCfg' = bCfg /\ bOutcome' = bOutcome /\ bTogether' = bTogether
  BY DEF B!Settle, B!Goto, B!settled
<1>1. /\ \A d \in BCalls : B!est(d)' = B!est(d)
      /\ (B!limit' = B!limit) /\ (B!unlimited' <=> B!unlimited) /\ (B!unusable' <=> B!unusable)
      /\ B!Outcomes' = B!Outcomes
  BY <1>0 DEF B!est, B!estimateOf, B!FromRequest, B!limit, B!unlimited, B!unusable, B!validCost,
         B!Outcomes, B!Answers
<1>2. c \in B!InFlight /\ B!InFlight' = B!InFlight \ {c} /\ bCharge[c] = 0 /\ c \in bTogether
  BY <1>0 DEF BudgetInv, BudgetTyped, B!InFlight
<1>3. /\ B!est(c) \in Nat /\ B!est(c) <= bSpent /\ bSpent \in Nat
      /\ ~B!unlimited /\ ~B!unusable /\ bSpent <= B!limit + Sum(Overrun, bTogether)
  BY <1>2, BudgetAmounts DEF BudgetInv
<1>4. x \in Nat
  BY <1>0, <1>3, ChargedNat DEF BudgetInv, BudgetTyped
<1> HIDE DEF x
<1>5. bSpent' = bSpent - B!est(c) + x
  BY <1>0, <1>3, <1>4
<1>6. BudgetTyped'
  BY <1>0, <1>1, <1>4 DEF BudgetInv, BudgetTyped, B!NoOutcome
<1>7. \A d \in BCalls :
        /\ B!Amount[d] \in Nat /\ Overrun[d] \in Nat
        /\ B!Amount'[d] = IF d = c THEN x ELSE B!Amount[d]
        /\ Overrun'[d] = IF d = c THEN (IF x > B!est(c) THEN x - B!est(c) ELSE 0)
                         ELSE Overrun[d]
  BY <1>0, <1>1, <1>2, BudgetAmounts DEF B!Amount, Overrun, BudgetInv, BudgetTyped
<1>8. bSpent' = Sum(B!Amount', BCalls)
  <2>1. PICK f : f = B!Amount'
    OBVIOUS
  <2>2. Sum(f, BCalls) = Sum(B!Amount, BCalls) - B!Amount[c] + f[c]
    BY <1>4, <1>7, <2>1, BudgetAmounts, SumChange
  <2>3. B!Amount[c] = B!est(c) /\ f[c] = x
    BY <1>2, <1>7, <2>1 DEF B!Amount
  <2> QED  BY <1>5, <2>1, <2>2, <2>3, BudgetAmounts
<1>9. bSpent' <= B!limit' + Sum(Overrun', bTogether')
  <2>1. PICK f : f = Overrun'
    OBVIOUS
  <2>2. /\ bTogether \in SUBSET BCalls /\ IsFiniteSet(bTogether)
        /\ Sum(Overrun, bTogether) \in Nat
    BY BudgetAmounts DEF BudgetInv, BudgetTyped
  <2>3. \A d \in bTogether : Overrun[d] \in Int /\ f[d] \in Int
    BY <1>3, <1>4, <1>7, <2>1, <2>2
  <2>4. \A d \in bTogether \ {c} : Overrun[d] = f[d]
    BY <1>7, <2>1, <2>2
  <2>5. Sum(f, bTogether) = Sum(Overrun, bTogether) - Overrun[c] + f[c]
    BY <1>2, <2>2, <2>3, <2>4, SumChange
  <2>6. Overrun[c] = 0 /\ f[c] = IF x > B!est(c) THEN x - B!est(c) ELSE 0
    BY <1>2, <1>3, <1>7, <2>1 DEF Overrun
  <2>7. B!limit \in Int
    BY EstimateInt DEF B!limit, BudgetInv, BudgetTyped
  <2> QED  BY <1>0, <1>1, <1>3, <1>4, <1>5, <2>1, <2>2, <2>5, <2>6, <2>7
<1>10. BudgetKept'
  BY <1>8, <1>9, BudgetKeptNext
<1>11. /\ \A d \in BCalls : bPc'[d] = "settling" => bOutcome'[d] \in B!Outcomes'
       /\ \A d \in BCalls : bPc'[d] # "done" => bCharge'[d] = 0
       /\ B!InFlight' \subseteq bTogether' /\ ~B!unlimited' /\ ~B!unusable'
  BY <1>0, <1>1, <1>2, <1>3 DEF BudgetInv, BudgetTyped
<1>12. \A d \in B!InFlight' : B!validCost(B!est(d))'
  <2>1. \A d \in B!InFlight' : d \in BCalls /\ d \in B!InFlight
    BY <1>2 DEF B!InFlight
  <2> QED  BY <1>1, <2>1 DEF B!validCost, BudgetInv
<1> QED  BY <1>6, <1>10, <1>11, <1>12 DEF BudgetInv

\* Every step keeps the invariant of the budget.
LEMMA NextBudget == BudgetInv /\ [B!Next]_(B!vars) => BudgetInv'
<1> SUFFICES ASSUME BudgetInv, [B!Next]_(B!vars) PROVE BudgetInv'
  OBVIOUS
<1>0. /\ bPc \in [BCalls -> {"start", "calling", "settling", "done", "refused"}]
      /\ \A c \in BCalls : bPc[c] = "settling" => bOutcome[c] \in B!Outcomes
      /\ bOutcome \in [BCalls -> B!Outcomes \cup {B!NoOutcome}]
  BY DEF BudgetInv, BudgetTyped
<1>1. ASSUME NEW c \in BCalls, B!Refuse(c) \/ B!OverLimit(c) PROVE BudgetInv'
  <2>1. /\ bPc[c] = "start" /\ bPc' = [bPc EXCEPT ![c] = "refused"] /\ bCfg' = bCfg
        /\ bSpent' = bSpent /\ bOutcome' = bOutcome /\ bCharge' = bCharge
        /\ bTogether' = bTogether
    BY <1>1 DEF B!Refuse, B!OverLimit, B!Goto
  <2>2. B!InFlight' = B!InFlight
    BY <1>0, <2>1 DEF B!InFlight
  <2> QED  BY <1>0, <2>1, <2>2, BudgetAside
<1>2. ASSUME NEW c \in BCalls, B!Unlimited(c) \/ B!NextReturns(c) PROVE BudgetInv'
  <2>1. PICK l \in {"settling", "done"}, o \in B!Outcomes :
          /\ bPc[c] = (IF l = "done" THEN "start" ELSE "calling")
          /\ bPc' = [bPc EXCEPT ![c] = l] /\ bCfg' = bCfg
          /\ bOutcome' = [bOutcome EXCEPT ![c] = o] /\ bSpent' = bSpent
          /\ bCharge' = bCharge /\ bTogether' = bTogether
    BY <1>2 DEF B!Unlimited, B!NextReturns, B!Goto
  <2>2. B!InFlight' = B!InFlight
    BY <1>0, <2>1 DEF B!InFlight
  <2>3. \A d \in BCalls : bPc'[d] = "settling" => bOutcome'[d] \in B!Outcomes
    BY <1>0, <2>1
  <2> QED  BY <1>0, <2>1, <2>2, <2>3, BudgetAside
<1>3. CASE UNCHANGED B!vars
  <2>1. /\ bPc' = bPc /\ bCfg' = bCfg /\ bSpent' = bSpent /\ bOutcome' = bOutcome
        /\ bCharge' = bCharge /\ bTogether' = bTogether
    BY <1>3 DEF B!vars
  <2>2. B!InFlight' = B!InFlight
    BY <2>1 DEF B!InFlight
  <2> QED  BY <1>0, <2>1, <2>2, BudgetAside
<1> QED  BY <1>1, <1>2, <1>3, BudgetReserve, BudgetSettle DEF B!Next, B!Terminated

\* The budget's ledger is exactly what ended calls cost and what running ones have
\* reserved, whatever they cost, however they end and in whatever order they settle;
\* and the limit is passed by no more than the calls in flight together cost beyond
\* their estimates.
THEOREM BudgetIsKept == B!Spec => []BudgetKept
<1>1. BudgetInv => BudgetKept
  BY DEF BudgetInv
<1> QED  BY <1>1, InitBudget, NextBudget, PTL DEF B!Spec

-----------------------------------------------------------------------------
\* The ledger: the alerts.  A sequence has an element; and it is in order when the
\* alerts of one period and one epoch come with growing thresholds.
Has(s, x) == \E n \in 1..Len(s) : s[n] = x

InOrder(s) ==
  \A m, n \in 1..Len(s) :
    m < n /\ s[m].key = s[n].key /\ s[m].epoch = s[n].epoch =>
      s[m].threshold < s[n].threshold

Alert(k, i) == [key |-> k, threshold |-> i, epoch |-> lEpoch]
Alerts == [key : L!Keys, threshold : {1, 2}, epoch : Nat]

\* What a concatenation has, its two parts have.
LEMMA HasConcat ==
  ASSUME NEW S, NEW s \in Seq(S), NEW t \in Seq(S), NEW x
  PROVE  Has(s \o t, x) <=> Has(s, x) \/ Has(t, x)
<1>1. /\ Len(s) \in Nat /\ Len(t) \in Nat /\ Len(s \o t) = Len(s) + Len(t)
      /\ \A i \in 1..(Len(s) + Len(t)) :
           (s \o t)[i] = IF i <= Len(s) THEN s[i] ELSE t[i - Len(s)]
  BY ConcatProperties, LenProperties
<1>2. ASSUME Has(s \o t, x) PROVE Has(s, x) \/ Has(t, x)
  <2>1. PICK n \in 1..(Len(s) + Len(t)) : (s \o t)[n] = x
    BY <1>1, <1>2 DEF Has
  <2>2. CASE n <= Len(s)
    BY <1>1, <2>1, <2>2 DEF Has
  <2>3. CASE ~(n <= Len(s))
    <3>1. n - Len(s) \in 1..Len(t) /\ t[n - Len(s)] = x
      BY <1>1, <2>1, <2>3
    <3> QED  BY <3>1 DEF Has
  <2> QED  BY <2>2, <2>3
<1>3. ASSUME Has(s, x) PROVE Has(s \o t, x)
  <2>1. PICK n \in 1..Len(s) : s[n] = x
    BY <1>3 DEF Has
  <2>2. n \in 1..(Len(s) + Len(t)) /\ (s \o t)[n] = x
    BY <1>1, <2>1
  <2> QED  BY <1>1, <2>2 DEF Has
<1>4. ASSUME Has(t, x) PROVE Has(s \o t, x)
  <2>1. PICK n \in 1..Len(t) : t[n] = x
    BY <1>4 DEF Has
  <2>2. n + Len(s) \in 1..(Len(s) + Len(t)) /\ (s \o t)[n + Len(s)] = x
    BY <1>1, <2>1
  <2> QED  BY <1>1, <2>2 DEF Has
<1> QED  BY <1>2, <1>3, <1>4

\* Two sequences in order stay so when the second continues the first.
LEMMA InOrderConcat ==
  ASSUME NEW S, NEW s \in Seq(S), NEW t \in Seq(S), InOrder(s), InOrder(t),
         \A x, y \in S : Has(s, x) /\ Has(t, y) /\ x.key = y.key /\ x.epoch = y.epoch =>
                           x.threshold < y.threshold
  PROVE  InOrder(s \o t)
<1>1. /\ Len(s) \in Nat /\ Len(t) \in Nat /\ Len(s \o t) = Len(s) + Len(t)
      /\ \A i \in 1..(Len(s) + Len(t)) :
           (s \o t)[i] = IF i <= Len(s) THEN s[i] ELSE t[i - Len(s)]
  BY ConcatProperties, LenProperties
<1> SUFFICES ASSUME NEW m \in 1..(Len(s) + Len(t)), NEW n \in 1..(Len(s) + Len(t)), m < n,
                    (s \o t)[m].key = (s \o t)[n].key, (s \o t)[m].epoch = (s \o t)[n].epoch
             PROVE  (s \o t)[m].threshold < (s \o t)[n].threshold
  BY <1>1 DEF InOrder
<1>2. CASE n <= Len(s)
  <2>1. m \in 1..Len(s) /\ n \in 1..Len(s) /\ (s \o t)[m] = s[m] /\ (s \o t)[n] = s[n]
    BY <1>1, <1>2
  <2> QED  BY <2>1 DEF InOrder
<1>3. CASE m <= Len(s) /\ ~(n <= Len(s))
  <2>1. /\ m \in 1..Len(s) /\ n - Len(s) \in 1..Len(t)
        /\ (s \o t)[m] = s[m] /\ (s \o t)[n] = t[n - Len(s)]
    BY <1>1, <1>3
  <2>2. Has(s, s[m]) /\ Has(t, t[n - Len(s)]) /\ s[m] \in S /\ t[n - Len(s)] \in S
    BY <2>1, ElementOfSeq DEF Has
  <2> QED  BY <2>1, <2>2
<1>4. CASE ~(m <= Len(s))
  <2>1. /\ m - Len(s) \in 1..Len(t) /\ n - Len(s) \in 1..Len(t) /\ m - Len(s) < n - Len(s)
        /\ (s \o t)[m] = t[m - Len(s)] /\ (s \o t)[n] = t[n - Len(s)]
    BY <1>1, <1>4
  <2> QED  BY <2>1 DEF InOrder
<1> QED  BY <1>1, <1>2, <1>3, <1>4

\* The periods, and what a period's instance tells of it.
LEMMA PeriodKeys ==
  /\ L!Periods = {"daily", "weekly"}
  /\ \A p \in L!Periods, d \in 0..LMaxDay : L!Key(p, d) \in L!Keys
  /\ \A p, q \in L!Periods, d, e \in 0..LMaxDay : L!Key(p, d) = L!Key(q, e) => p = q
  /\ \A k \in L!Keys : \E p \in L!Periods, d \in 0..LMaxDay : k = L!Key(p, d)
<1>1. L!Periods = {"daily", "weekly"}
  BY SpendConstants DEF L!Periods
<1>2. \A p, q \in L!Periods, d, e \in 0..LMaxDay : L!Key(p, d) = L!Key(q, e) => p = q
  BY <1>1 DEF L!Key
<1> QED  BY <1>1, <1>2 DEF L!Keys

\* A notice that is due is a sequence of one alert, one that is not an empty one.
LEMMA NoticeIfHas ==
  ASSUME NEW tot, NEW p \in L!Periods, NEW d \in 0..LMaxDay, NEW i \in {1, 2},
         lEpoch \in Nat
  PROVE  /\ L!NoticeIf(tot, p, d, i) \in Seq(Alerts)
         /\ InOrder(L!NoticeIf(tot, p, d, i))
         /\ \A x : Has(L!NoticeIf(tot, p, d, i), x) <=>
                     x = L!Notice(p, d, i) /\ L!Due(tot, p, d, i)
<1>1. L!Notice(p, d, i) \in Alerts
  BY PeriodKeys DEF Alerts, L!Notice
<1>2. CASE L!Due(tot, p, d, i)
  <2>1. L!NoticeIf(tot, p, d, i) = <<L!Notice(p, d, i)>>
    BY <1>2 DEF L!NoticeIf
  <2> QED  BY <1>1, <1>2, <2>1 DEF Has, InOrder
<1>3. CASE ~L!Due(tot, p, d, i)
  <2>1. L!NoticeIf(tot, p, d, i) = <<>>
    BY <1>3 DEF L!NoticeIf
  <2> QED  BY <1>3, <2>1 DEF Has, InOrder
<1> QED  BY <1>2, <1>3

\* The notices of one period, 80 percent before 100.
LEMMA NoticesOfHas ==
  ASSUME NEW tot, NEW p \in L!Periods, NEW d \in 0..LMaxDay, lEpoch \in Nat
  PROVE  /\ L!NoticesOf(tot, p, d) \in Seq(Alerts)
         /\ InOrder(L!NoticesOf(tot, p, d))
         /\ \A x : Has(L!NoticesOf(tot, p, d), x) <=>
                     \E i \in {1, 2} : x = L!Notice(p, d, i) /\ L!Due(tot, p, d, i)
<1> DEFINE a == L!NoticeIf(tot, p, d, 1)
           b == L!NoticeIf(tot, p, d, 2)
<1>1. /\ a \in Seq(Alerts) /\ InOrder(a)
      /\ \A x : Has(a, x) <=> x = L!Notice(p, d, 1) /\ L!Due(tot, p, d, 1)
  BY NoticeIfHas
<1>2. /\ b \in Seq(Alerts) /\ InOrder(b)
      /\ \A x : Has(b, x) <=> x = L!Notice(p, d, 2) /\ L!Due(tot, p, d, 2)
  BY NoticeIfHas
<1>3. L!NoticesOf(tot, p, d) = a \o b
  BY DEF L!NoticesOf
<1>4. L!Notice(p, d, 1).threshold = 1 /\ L!Notice(p, d, 2).threshold = 2
  BY DEF L!Notice
<1> HIDE DEF a, b
<1>5. InOrder(a \o b)
  BY <1>1, <1>2, <1>4, InOrderConcat
<1>6. a \o b \in Seq(Alerts)
  BY <1>1, <1>2, ConcatProperties
<1>7. \A x : Has(a \o b, x) <=> Has(a, x) \/ Has(b, x)
  BY <1>1, <1>2, HasConcat
<1> QED  BY <1>1, <1>2, <1>3, <1>5, <1>6, <1>7

\* The notices that a record makes due.
LEMMA DueNoticesHas ==
  ASSUME NEW tot, NEW d \in 0..LMaxDay, lEpoch \in Nat
  PROVE  /\ L!DueNotices(tot, d) \in Seq(Alerts)
         /\ InOrder(L!DueNotices(tot, d))
         /\ \A x : Has(L!DueNotices(tot, d), x) <=>
                     \E p \in L!Periods, i \in {1, 2} :
                       x = L!Notice(p, d, i) /\ L!Due(tot, p, d, i)
<1> DEFINE a == L!NoticesOf(tot, "daily", d)
           b == L!NoticesOf(tot, "weekly", d)
<1>0. "daily" \in L!Periods /\ "weekly" \in L!Periods
  BY PeriodKeys
<1>1. /\ a \in Seq(Alerts) /\ InOrder(a)
      /\ \A x : Has(a, x) <=>
           \E i \in {1, 2} : x = L!Notice("daily", d, i) /\ L!Due(tot, "daily", d, i)
  BY <1>0, NoticesOfHas
<1>2. /\ b \in Seq(Alerts) /\ InOrder(b)
      /\ \A x : Has(b, x) <=>
           \E i \in {1, 2} : x = L!Notice("weekly", d, i) /\ L!Due(tot, "weekly", d, i)
  BY <1>0, NoticesOfHas
<1>3. L!DueNotices(tot, d) = a \o b
  BY DEF L!DueNotices
<1>4. \A i, j \in {1, 2} : L!Notice("daily", d, i).key # L!Notice("weekly", d, j).key
  BY DEF L!Notice, L!Key
<1> HIDE DEF a, b
<1>5. InOrder(a \o b)
  BY <1>1, <1>2, <1>4, InOrderConcat
<1>6. a \o b \in Seq(Alerts)
  BY <1>1, <1>2, ConcatProperties
<1>7. \A x : Has(a \o b, x) <=> Has(a, x) \/ Has(b, x)
  BY <1>1, <1>2, HasConcat
<1>8. ASSUME NEW x
      PROVE  (Has(a, x) \/ Has(b, x)) <=>
                \E p \in L!Periods, i \in {1, 2} :
                  x = L!Notice(p, d, i) /\ L!Due(tot, p, d, i)
  BY <1>1, <1>2, PeriodKeys
<1> QED  BY <1>3, <1>5, <1>6, <1>7, <1>8

\* The types of what the alerts and their delivery depend on.
LedgerTyped ==
  /\ lDay \in 0..LMaxDay /\ lKeys \in [LTracked -> 0..LMaxDay]
  /\ lTotals \in [L!Keys -> Nat] /\ lNotified \in [L!Keys -> SUBSET {1, 2}]
  /\ lFresh \in SUBSET L!Keys /\ lEpoch \in Nat
  /\ lQueued \in Seq(Alerts) /\ lRaised \in Seq(Alerts) /\ lDelivered \in Seq(Alerts)
  /\ lDelivering \in BOOLEAN /\ lAlerting \in BOOLEAN
  /\ lAt \in [L!Goroutines -> {"idle", "keyed", "loop", "callback", "done"}]

\* The goroutines that are delivering: at most one, exactly when the flag is up, and
\* whenever an alert is queued.
Active(g) == lAt[g] \in {"loop", "callback"}
DeliveryInv ==
  /\ \A g, h \in L!Goroutines : Active(g) /\ Active(h) => g = h
  /\ lDelivering <=> \E g \in L!Goroutines : Active(g)
  /\ lQueued # <<>> => lDelivering

\* notified holds the thresholds announced in this epoch: of totals that are past
\* them, all of these when the total has been added to, and 80 percent with 100.
AlertInv ==
  /\ lDelivered \o lQueued = lRaised
  /\ \A x \in Alerts : Has(lRaised, x) => x.epoch <= lEpoch
  /\ \A k \in L!Keys, i \in {1, 2} : Has(lRaised, Alert(k, i)) <=> i \in lNotified[k]
  /\ \A p \in L!Periods, d \in 0..LMaxDay, i \in {1, 2} :
       i \in lNotified[L!Key(p, d)] => L!Crossed(lTotals, p, d, i)
  /\ \A p \in L!Periods, d \in 0..LMaxDay, i \in {1, 2} :
       L!Key(p, d) \in lFresh /\ L!Crossed(lTotals, p, d, i) => i \in lNotified[L!Key(p, d)]
  /\ \A k \in L!Keys : 2 \in lNotified[k] => 1 \in lNotified[k]
  /\ InOrder(lRaised)

\* What recording a cost of the day d does to everything that alerts depend on, when
\* it makes the totals tot and raises the alerts due.
Raises(d, due, tot) ==
  /\ InOrder(due)
  /\ \A x : Has(due, x) <=>
       \E p \in L!Periods, i \in {1, 2} :
         x = L!Notice(p, d, i) /\ L!Due(tot, p, d, i)
  /\ \A k \in L!Keys : /\ tot[k] >= lTotals[k]
                       /\ (\A p \in L!Periods : k # L!Key(p, d)) => tot[k] = lTotals[k]
  /\ lTotals' = tot /\ lQueued' = lQueued \o due /\ lRaised' = lRaised \o due
  /\ lNotified' \in [L!Keys -> SUBSET {1, 2}]
  /\ \A k \in L!Keys, i \in {1, 2} :
       i \in lNotified'[k] <=> i \in lNotified[k] \/ Has(due, Alert(k, i))
  /\ lDelivering' = (lDelivering \/ due # <<>>)
  /\ lFresh' = lFresh \cup {L!Key(p, d) : p \in L!Periods}

\* That is what recordCost does.
LEMMA RecordAlerts ==
  ASSUME LedgerTyped, NEW c \in LTracked, NEW d \in 0..LMaxDay, L!RecordCost(c, d)
  PROVE  \E due \in Seq(Alerts), tot \in [L!Keys -> Nat] : Raises(d, due, tot)
<1> DEFINE tot == L!TotalsWith(c, d)
           due == L!DueNotices(tot, d)
<1>1. /\ lTotals' = tot
      /\ lNotified' = [k \in L!Keys |->
                        lNotified[k] \cup {due[i].threshold : i \in
                                             {j \in 1..Len(due) : due[j].key = k}}]
      /\ lQueued' = lQueued \o due /\ lRaised' = lRaised \o due
      /\ lDelivering' = (lDelivering \/ due # <<>>)
      /\ lFresh' = lFresh \cup {L!Key(p, d) : p \in L!Periods}
  BY DEF L!RecordCost
<1>2. L!Amount(c) \in Nat
  BY SpendConstants DEF L!Amount
<1>3. /\ tot \in [L!Keys -> Nat]
      /\ \A k \in L!Keys : /\ tot[k] >= lTotals[k]
                           /\ (\A p \in L!Periods : k # L!Key(p, d)) => tot[k] = lTotals[k]
  BY <1>2 DEF L!TotalsWith, LedgerTyped
<1> HIDE DEF tot
<1>4. /\ due \in Seq(Alerts) /\ InOrder(due)
      /\ \A x : Has(due, x) <=>
           \E p \in L!Periods, i \in {1, 2} : x = L!Notice(p, d, i) /\ L!Due(tot, p, d, i)
  BY DueNoticesHas DEF LedgerTyped
<1> HIDE DEF due
<1>5. \A j \in 1..Len(due) : due[j] \in Alerts
  BY <1>4, ElementOfSeq
<1>6. lNotified' \in [L!Keys -> SUBSET {1, 2}]
  BY <1>1, <1>5 DEF LedgerTyped, Alerts
<1>7. ASSUME NEW j \in 1..Len(due)
      PROVE  due[j] = Alert(due[j].key, due[j].threshold)
  <2>1. Has(due, due[j])
    BY DEF Has
  <2>2. PICK p \in L!Periods, i \in {1, 2} : due[j] = L!Notice(p, d, i)
    BY <1>4, <2>1
  <2> QED  BY <2>2 DEF L!Notice, Alert
<1>8. ASSUME NEW k \in L!Keys, NEW i \in {1, 2}
      PROVE  i \in lNotified'[k] <=> i \in lNotified[k] \/ Has(due, Alert(k, i))
  <2>1. i \in lNotified'[k] <=>
          i \in lNotified[k] \/ \E j \in 1..Len(due) : due[j].key = k /\ due[j].threshold = i
    BY <1>1
  <2>2. ASSUME NEW j \in 1..Len(due)
        PROVE  due[j].key = k /\ due[j].threshold = i <=> due[j] = Alert(k, i)
    <3>1. Alert(k, i).key = k /\ Alert(k, i).threshold = i
      BY DEF Alert
    <3> QED  BY <1>7, <3>1
  <2> QED  BY <2>1, <2>2 DEF Has
<1> QED  BY <1>1, <1>3, <1>4, <1>6, <1>8 DEF Raises

\* Being past a threshold depends on the instance's total, grows with it, and being
\* past the second is being past the first.
LEMMA CrossedFacts ==
  ASSUME LedgerTyped, NEW tot \in [L!Keys -> Nat], NEW p \in L!Periods, NEW d \in 0..LMaxDay
  PROVE  /\ L!Crossed(tot, p, d, 2) => L!Crossed(tot, p, d, 1)
         /\ \A q \in L!Periods, e \in 0..LMaxDay, i \in {1, 2} :
              L!Key(p, d) = L!Key(q, e) => (L!Crossed(tot, p, d, i) <=> L!Crossed(tot, q, e, i))
         /\ \A i \in {1, 2} : tot[L!Key(p, d)] >= lTotals[L!Key(p, d)] =>
              (L!Crossed(lTotals, p, d, i) => L!Crossed(tot, p, d, i))
         /\ \A i \in {1, 2} : tot[L!Key(p, d)] = lTotals[L!Key(p, d)] =>
              (L!Crossed(tot, p, d, i) => L!Crossed(lTotals, p, d, i))
<1>1. L!Key(p, d) \in L!Keys
  BY PeriodKeys
<1>2. tot[L!Key(p, d)] \in Nat /\ lTotals[L!Key(p, d)] \in Nat
  BY <1>1 DEF LedgerTyped
<1>3. LLimit[p] \in Nat
  BY SpendConstants, PeriodKeys
<1>4. L!Thresholds[1] = 8 /\ L!Thresholds[2] = 10
  BY DEF L!Thresholds
<1>5. L!Crossed(tot, p, d, 2) => L!Crossed(tot, p, d, 1)
  BY <1>2, <1>3, <1>4 DEF L!Crossed
<1>6. ASSUME NEW q \in L!Periods, NEW e \in 0..LMaxDay, NEW i \in {1, 2}, L!Key(p, d) = L!Key(q, e)
      PROVE  L!Crossed(tot, p, d, i) <=> L!Crossed(tot, q, e, i)
  <2>1. p = q
    BY <1>6, PeriodKeys
  <2> QED  BY <1>6, <2>1 DEF L!Crossed
<1>7. ASSUME NEW i \in {1, 2}, tot[L!Key(p, d)] >= lTotals[L!Key(p, d)], L!Crossed(lTotals, p, d, i)
      PROVE  L!Crossed(tot, p, d, i)
  <2>1. L!Thresholds[i] \in Nat /\ LLimit[p] * L!Thresholds[i] \in Int
    BY <1>3, <1>4
  <2> QED  BY <1>2, <1>7, <2>1 DEF L!Crossed
<1>8. ASSUME NEW i \in {1, 2}, tot[L!Key(p, d)] = lTotals[L!Key(p, d)], L!Crossed(tot, p, d, i)
      PROVE  L!Crossed(lTotals, p, d, i)
  BY <1>8 DEF L!Crossed
<1> QED  BY <1>5, <1>6, <1>7, <1>8

\* Recording a cost keeps the alerts right.
LEMMA RecordKeepsAlerts ==
  ASSUME LedgerTyped, AlertInv, NEW c \in LTracked, NEW d \in 0..LMaxDay, L!RecordCost(c, d),
         lDelivered' = lDelivered, lEpoch' = lEpoch, lAlerting' = lAlerting
  PROVE  AlertInv'
<1>1. PICK due \in Seq(Alerts), tot \in [L!Keys -> Nat] : Raises(d, due, tot)
  BY RecordAlerts
<1> USE DEF Raises
<1>2. /\ lQueued \in Seq(Alerts) /\ lRaised \in Seq(Alerts) /\ lDelivered \in Seq(Alerts)
      /\ lEpoch \in Nat /\ lRaised = lDelivered \o lQueued
  BY DEF LedgerTyped, AlertInv
<1>3. lDelivered' \o lQueued' = lRaised'
  <2>1. (lDelivered \o lQueued) \o due = lDelivered \o (lQueued \o due)
    BY <1>2, ConcatAssociative
  <2> QED  BY <1>1, <1>2, <2>1
<1>4. \A x : Has(lRaised \o due, x) <=> Has(lRaised, x) \/ Has(due, x)
  BY <1>2, HasConcat
\* What is due is an alert of this epoch, of a threshold not announced before.
<1>5. ASSUME NEW x, Has(due, x)
      PROVE  \E p \in L!Periods, i \in {1, 2} :
               /\ x = Alert(L!Key(p, d), i) /\ L!Key(p, d) \in L!Keys
               /\ L!Crossed(tot, p, d, i) /\ i \notin lNotified[L!Key(p, d)]
  <2>1. PICK p \in L!Periods, i \in {1, 2} : x = L!Notice(p, d, i) /\ L!Due(tot, p, d, i)
    BY <1>1, <1>5
  <2>2. x = Alert(L!Key(p, d), i) /\ L!Key(p, d) \in L!Keys
    BY <2>1, PeriodKeys DEF L!Notice, Alert
  <2> QED  BY <2>1, <2>2 DEF L!Due
<1>6. ASSUME NEW p \in L!Periods, NEW i \in {1, 2}, L!Crossed(tot, p, d, i)
      PROVE  i \in lNotified'[L!Key(p, d)]
  <2>1. L!Key(p, d) \in L!Keys
    BY PeriodKeys
  <2>2. CASE i \in lNotified[L!Key(p, d)]
    BY <1>1, <2>1, <2>2
  <2>3. CASE i \notin lNotified[L!Key(p, d)]
    <3>1. L!Due(tot, p, d, i) /\ L!Notice(p, d, i) = Alert(L!Key(p, d), i)
      BY <1>6, <2>3 DEF L!Due, L!Notice, Alert
    <3>2. Has(due, Alert(L!Key(p, d), i))
      BY <1>1, <3>1
    <3> QED  BY <1>1, <2>1, <3>2
  <2> QED  BY <2>2, <2>3
<1>7. \A x \in Alerts : Has(lRaised', x) => x.epoch <= lEpoch'
  <2>1. \A x \in Alerts : Has(lRaised, x) => x.epoch <= lEpoch
    BY DEF AlertInv
  <2>2. \A x : Has(due, x) => x.epoch = lEpoch
    BY <1>5 DEF Alert
  <2> QED  BY <1>1, <1>2, <1>4, <2>1, <2>2
<1>8. \A k \in L!Keys, i \in {1, 2} : Has(lRaised', Alert(k, i)') <=> i \in lNotified'[k]
  <2>1. \A k, i : Alert(k, i)' = Alert(k, i)
    BY DEF Alert
  <2>2. \A k \in L!Keys, i \in {1, 2} : Has(lRaised, Alert(k, i)) <=> i \in lNotified[k]
    BY DEF AlertInv
  <2> QED  BY <1>1, <1>4, <2>1, <2>2
<1>9. ASSUME NEW p \in L!Periods, NEW e \in 0..LMaxDay, NEW i \in {1, 2},
             i \in lNotified'[L!Key(p, e)]
      PROVE  L!Crossed(tot, p, e, i)
  <2>1. L!Key(p, e) \in L!Keys
    BY PeriodKeys
  <2>2. CASE i \in lNotified[L!Key(p, e)]
    BY <1>1, <2>1, <2>2, CrossedFacts DEF AlertInv
  <2>3. CASE i \notin lNotified[L!Key(p, e)]
    <3>1. Has(due, Alert(L!Key(p, e), i))
      BY <1>1, <1>9, <2>1, <2>3
    <3>2. PICK q \in L!Periods, j \in {1, 2} :
            Alert(L!Key(p, e), i) = Alert(L!Key(q, d), j) /\ L!Crossed(tot, q, d, j)
      BY <1>5, <3>1
    <3>3. L!Key(p, e) = L!Key(q, d) /\ i = j
      BY <3>2 DEF Alert
    <3> QED  BY <3>2, <3>3, CrossedFacts
  <2> QED  BY <2>2, <2>3
<1>10. ASSUME NEW p \in L!Periods, NEW e \in 0..LMaxDay, NEW i \in {1, 2},
              L!Key(p, e) \in lFresh', L!Crossed(tot, p, e, i)
       PROVE  i \in lNotified'[L!Key(p, e)]
  <2>1. L!Key(p, e) \in L!Keys
    BY PeriodKeys
  <2>2. CASE \E q \in L!Periods : L!Key(p, e) = L!Key(q, d)
    <3>1. PICK q \in L!Periods : L!Key(p, e) = L!Key(q, d)
      BY <2>2
    <3>2. L!Crossed(tot, q, d, i)
      BY <1>10, <3>1, CrossedFacts
    <3> QED  BY <1>6, <3>1, <3>2
  <2>3. CASE \A q \in L!Periods : L!Key(p, e) # L!Key(q, d)
    <3>1. L!Key(p, e) \in lFresh /\ tot[L!Key(p, e)] = lTotals[L!Key(p, e)]
      BY <1>1, <1>10, <2>1, <2>3
    <3>2. L!Crossed(lTotals, p, e, i)
      BY <1>10, <3>1, CrossedFacts
    <3> QED  BY <1>1, <2>1, <3>1, <3>2 DEF AlertInv
  <2> QED  BY <2>2, <2>3
<1>11. ASSUME NEW k \in L!Keys, 2 \in lNotified'[k] PROVE 1 \in lNotified'[k]
  <2>1. CASE 2 \in lNotified[k]
    BY <1>1, <2>1 DEF AlertInv
  <2>2. CASE 2 \notin lNotified[k]
    <3>1. Has(due, Alert(k, 2))
      BY <1>1, <1>11, <2>2
    <3>2. PICK q \in L!Periods, j \in {1, 2} :
            Alert(k, 2) = Alert(L!Key(q, d), j) /\ L!Crossed(tot, q, d, j)
      BY <1>5, <3>1
    <3>3. k = L!Key(q, d) /\ j = 2
      BY <3>2 DEF Alert
    <3>4. L!Crossed(tot, q, d, 1)
      BY <3>2, <3>3, CrossedFacts
    <3> QED  BY <1>6, <3>3, <3>4
  <2> QED  BY <2>1, <2>2
<1>12. InOrder(lRaised')
  <2>1. ASSUME NEW x \in Alerts, NEW y \in Alerts, Has(lRaised, x), Has(due, y),
               x.key = y.key, x.epoch = y.epoch
        PROVE  x.threshold < y.threshold
    <3>1. PICK p \in L!Periods, j \in {1, 2} :
            /\ y = Alert(L!Key(p, d), j) /\ L!Key(p, d) \in L!Keys
            /\ j \notin lNotified[L!Key(p, d)]
      BY <1>5, <2>1
    <3>2. y.key = L!Key(p, d) /\ y.threshold = j /\ y.epoch = lEpoch
      BY <3>1 DEF Alert
    <3>3. x.threshold \in {1, 2} /\ x = Alert(L!Key(p, d), x.threshold)
      BY <2>1, <3>2 DEF Alerts, Alert
    <3>4. x.threshold \in lNotified[L!Key(p, d)]
      BY <2>1, <3>1, <3>3 DEF AlertInv
    <3>5. 2 \in lNotified[L!Key(p, d)] => 1 \in lNotified[L!Key(p, d)]
      BY <3>1 DEF AlertInv
    <3> QED  BY <3>1, <3>2, <3>3, <3>4, <3>5
  <2>2. InOrder(lRaised \o due)
    BY <1>1, <1>2, <2>1, InOrderConcat DEF AlertInv
  <2> QED  BY <1>1, <2>2
<1>13. \A p, e, i : L!Crossed(lTotals, p, e, i)' <=> L!Crossed(tot, p, e, i)
  BY <1>1 DEF L!Crossed
<1>14. /\ \A p \in L!Periods, e \in 0..LMaxDay, i \in {1, 2} :
            i \in lNotified'[L!Key(p, e)] => L!Crossed(lTotals, p, e, i)'
       /\ \A p \in L!Periods, e \in 0..LMaxDay, i \in {1, 2} :
            L!Key(p, e) \in lFresh' /\ L!Crossed(lTotals, p, e, i)' => i \in lNotified'[L!Key(p, e)]
  BY <1>9, <1>10, <1>13
<1> QED  BY <1>3, <1>7, <1>8, <1>11, <1>12, <1>14 DEF AlertInv, Has, InOrder, Alert, Alerts

\* Forgetting what was announced starts an epoch that nothing has been raised in.
LEMMA ForgetKeepsAlerts ==
  ASSUME LedgerTyped, AlertInv, L!Forget, lDelivered' = lDelivered, lQueued' = lQueued,
         lRaised' = lRaised
  PROVE  AlertInv'
<1>1. /\ lNotified' = [k \in L!Keys |-> {}] /\ lEpoch' = lEpoch + 1 /\ lFresh' = {}
      /\ lEpoch \in Nat
  BY DEF L!Forget, LedgerTyped
<1>2. \A x \in Alerts : Has(lRaised', x) => x.epoch <= lEpoch'
  BY <1>1 DEF AlertInv, Alerts
<1>3. ASSUME NEW k \in L!Keys, NEW i \in {1, 2} PROVE ~Has(lRaised', Alert(k, i)')
  <2>1. Alert(k, i)' \in Alerts /\ Alert(k, i)'.epoch = lEpoch + 1
    BY <1>1 DEF Alert, Alerts
  <2>2. ~Has(lRaised, Alert(k, i)')
    BY <1>1, <2>1 DEF AlertInv
  <2> QED  BY <2>2
<1>4. \A p \in L!Periods, d \in 0..LMaxDay : lNotified'[L!Key(p, d)] = {}
  BY <1>1, PeriodKeys
<1>5. \A k \in L!Keys, i \in {1, 2} : Has(lRaised', Alert(k, i)') <=> i \in lNotified'[k]
  BY <1>1, <1>3
<1>6. InOrder(lRaised') /\ lDelivered' \o lQueued' = lRaised'
  BY DEF AlertInv
<1>7. \A k \in L!Keys : lNotified'[k] = {}
  BY <1>1
<1> QED  BY <1>1, <1>2, <1>4, <1>5, <1>6, <1>7 DEF AlertInv, Has, InOrder, Alert, Alerts

\* Taking the oldest alert moves it from the queue to what was delivered.
LEMMA TakeKeepsAlerts ==
  ASSUME LedgerTyped, AlertInv, lQueued # <<>>, lQueued' = Tail(lQueued),
         lDelivered' = Append(lDelivered, Head(lQueued)),
         UNCHANGED <<lTotals, lNotified, lAlerting, lRaised, lEpoch, lFresh>>
  PROVE  AlertInv' /\ lQueued' \in Seq(Alerts) /\ lDelivered' \in Seq(Alerts)
<1>1. /\ lQueued \in Seq(Alerts) /\ lDelivered \in Seq(Alerts)
      /\ lRaised = lDelivered \o lQueued
  BY DEF LedgerTyped, AlertInv
<1> DEFINE q == lQueued
           h == Head(lQueued)
           t == Tail(lQueued)
<1>2. /\ h \in Alerts /\ t \in Seq(Alerts) /\ Len(t) = Len(q) - 1
      /\ \A i \in 1..Len(t) : t[i] = q[i + 1]
      /\ h = q[1] /\ Len(q) \in Nat \ {0}
  BY <1>1, HeadTailProperties, EmptySeq
<1>3. <<h>> \in Seq(Alerts) /\ Len(<<h>>) = 1 /\ <<h>>[1] = h
  BY <1>2
<1> HIDE DEF h, t
<1>4. <<h>> \o t = q
  <2>1. /\ <<h>> \o t \in Seq(Alerts) /\ Len(<<h>> \o t) = 1 + Len(t)
        /\ \A i \in 1..(1 + Len(t)) :
             (<<h>> \o t)[i] = IF i <= 1 THEN <<h>>[i] ELSE t[i - 1]
    BY <1>2, <1>3, ConcatProperties
  <2>2. \A i \in 1..Len(q) : (<<h>> \o t)[i] = q[i]
    BY <1>2, <1>3, <2>1
  <2>3. Len(<<h>> \o t) = Len(q) /\ q \in Seq(Alerts)
    BY <1>1, <1>2, <2>1
  <2> HIDE DEF q
  <2> QED  BY <2>1, <2>2, <2>3, SeqEqual
<1>5. Append(lDelivered, h) = lDelivered \o <<h>> /\ Append(lDelivered, h) \in Seq(Alerts)
  BY <1>1, <1>2, AppendIsConcat, AppendProperties
<1>6. (lDelivered \o <<h>>) \o t = lDelivered \o (<<h>> \o t)
  BY <1>1, <1>2, <1>3, ConcatAssociative
<1>7. lDelivered' \o lQueued' = lRaised'
  BY <1>1, <1>4, <1>5, <1>6 DEF h, t
<1>8. lQueued' \in Seq(Alerts) /\ lDelivered' \in Seq(Alerts)
  BY <1>2, <1>5 DEF h, t
<1>9. /\ \A x \in Alerts : Has(lRaised', x) => x.epoch <= lEpoch'
      /\ \A k \in L!Keys, i \in {1, 2} : Has(lRaised', Alert(k, i)') <=> i \in lNotified'[k]
      /\ \A k \in L!Keys : 2 \in lNotified'[k] => 1 \in lNotified'[k]
      /\ InOrder(lRaised')
  BY DEF AlertInv, Alert
<1>10. \A p, d, i : L!Crossed(lTotals, p, d, i)' <=> L!Crossed(lTotals, p, d, i)
  BY DEF L!Crossed
<1>11. /\ \A p \in L!Periods, d \in 0..LMaxDay, i \in {1, 2} :
            i \in lNotified'[L!Key(p, d)] => L!Crossed(lTotals, p, d, i)'
       /\ \A p \in L!Periods, d \in 0..LMaxDay, i \in {1, 2} :
            L!Key(p, d) \in lFresh' /\ L!Crossed(lTotals, p, d, i)' => i \in lNotified'[L!Key(p, d)]
  BY <1>10 DEF AlertInv
<1> QED  BY <1>7, <1>8, <1>9, <1>11 DEF AlertInv, Has, InOrder, Alert, Alerts

\* Steps that leave the alerts alone.
LEMMA AlertsAside ==
  ASSUME AlertInv,
         UNCHANGED <<lTotals, lNotified, lAlerting, lRaised, lEpoch, lFresh, lQueued, lDelivered>>
  PROVE  AlertInv'
BY DEF AlertInv, Has, InOrder, Alert, Alerts, L!Crossed

-----------------------------------------------------------------------------
\* The delivery.
LEMMA InitLedger == L!Init => LedgerTyped /\ DeliveryInv /\ AlertInv
<1> SUFFICES ASSUME L!Init PROVE LedgerTyped /\ DeliveryInv /\ AlertInv
  OBVIOUS
<1>1. LMaxDay \in Nat /\ <<>> \in Seq(Alerts) /\ Len(<<>>) = 0
  BY SpendConstants, EmptySeq
<1>2. /\ lDay = 0 /\ lKeys = [c \in LTracked |-> 0]
      /\ lTotals = [k \in L!Keys |-> 0] /\ lNotified = [k \in L!Keys |-> {}]
      /\ lAlerting = TRUE /\ lQueued = <<>> /\ lDelivering = FALSE
      /\ lAt = [g \in L!Goroutines |-> IF g = L!Spawned THEN "done" ELSE "idle"]
      /\ lRaised = <<>> /\ lDelivered = <<>> /\ lEpoch = 0 /\ lFresh = {}
  BY DEF L!Init
<1>3. LedgerTyped
  <2>1. /\ lDay \in 0..LMaxDay /\ lKeys \in [LTracked -> 0..LMaxDay]
        /\ lTotals \in [L!Keys -> Nat] /\ lNotified \in [L!Keys -> SUBSET {1, 2}]
        /\ lFresh \in SUBSET L!Keys /\ lEpoch \in Nat
    BY <1>1, <1>2
  <2>2. /\ lAt \in [L!Goroutines -> {"idle", "keyed", "loop", "callback", "done"}]
        /\ lDelivering \in BOOLEAN /\ lAlerting \in BOOLEAN
    BY <1>2
  <2>3. lQueued \in Seq(Alerts) /\ lRaised \in Seq(Alerts) /\ lDelivered \in Seq(Alerts)
    BY <1>1, <1>2
  <2> QED  BY <2>1, <2>2, <2>3 DEF LedgerTyped
<1>4. DeliveryInv
  BY <1>2 DEF DeliveryInv, Active
<1>5. \A x : ~Has(lRaised, x)
  BY <1>1, <1>2 DEF Has
<1>6. \A p \in L!Periods, d \in 0..LMaxDay : lNotified[L!Key(p, d)] = {}
  BY <1>2, PeriodKeys
<1>7. InOrder(lRaised)
  BY <1>1, <1>2 DEF InOrder
<1>8. lDelivered \o lQueued = lRaised
  BY <1>1, <1>2, ConcatEmptySeq
<1> QED  BY <1>2, <1>3, <1>4, <1>5, <1>6, <1>7, <1>8 DEF AlertInv

\* A record keeps the types of the alerts.
LEMMA RecordTyped ==
  ASSUME LedgerTyped, NEW c \in LTracked, NEW d \in 0..LMaxDay, L!RecordCost(c, d)
  PROVE  /\ lTotals' \in [L!Keys -> Nat] /\ lNotified' \in [L!Keys -> SUBSET {1, 2}]
         /\ lFresh' \in SUBSET L!Keys /\ lQueued' \in Seq(Alerts)
         /\ lRaised' \in Seq(Alerts) /\ lDelivering' \in BOOLEAN
         /\ (lQueued' = lQueued => lDelivering' = lDelivering)
         /\ (lQueued' # lQueued => lDelivering' = TRUE)
<1>1. PICK due \in Seq(Alerts), tot \in [L!Keys -> Nat] :
           /\ lTotals' = tot /\ lQueued' = lQueued \o due /\ lRaised' = lRaised \o due
           /\ lNotified' \in [L!Keys -> SUBSET {1, 2}]
           /\ lDelivering' = (lDelivering \/ due # <<>>)
           /\ lFresh' = lFresh \cup {L!Key(p, d) : p \in L!Periods}
  BY RecordAlerts DEF Raises
<1>2. lQueued' \in Seq(Alerts) /\ lRaised' \in Seq(Alerts)
  BY <1>1, ConcatProperties DEF LedgerTyped
<1>3. lFresh' \in SUBSET L!Keys
  <2>1. \A p \in L!Periods : L!Key(p, d) \in L!Keys
    BY PeriodKeys
  <2>2. lFresh \in SUBSET L!Keys
    BY DEF LedgerTyped
  <2>3. lFresh' = lFresh \cup {L!Key(p, d) : p \in L!Periods}
    BY <1>1
  <2> QED  BY <2>1, <2>2, <2>3
<1>4. lQueued' = lQueued <=> due = <<>>
  BY <1>1, ConcatEqualIffEmpty DEF LedgerTyped
<1>5. lDelivering' \in BOOLEAN /\ (due = <<>> => lDelivering' = lDelivering)
      /\ (due # <<>> => lDelivering' = TRUE)
  BY <1>1 DEF LedgerTyped
<1> QED  BY <1>1, <1>2, <1>3, <1>4, <1>5

\* Every step keeps the types, the delivery and the alerts right.
LEMMA NextLedger ==
  LedgerTyped /\ DeliveryInv /\ AlertInv /\ [L!LedgerNext \/ L!Finished]_(L!vars) =>
    (LedgerTyped /\ DeliveryInv /\ AlertInv)'
<1> SUFFICES ASSUME LedgerTyped, DeliveryInv, AlertInv, [L!LedgerNext \/ L!Finished]_(L!vars)
             PROVE  (LedgerTyped /\ DeliveryInv /\ AlertInv)'
  OBVIOUS
<1> USE DEF L!ringVars, L!queueVars, L!ledgerVars, L!alertVars, L!epochVars
<1>0. /\ lAt \in [L!Goroutines -> {"idle", "keyed", "loop", "callback", "done"}]
      /\ LTracked \subseteq L!Goroutines /\ L!Spawned \in L!Goroutines
      /\ lDelivering \in BOOLEAN
  BY DEF LedgerTyped, L!Goroutines
<1>1. ASSUME NEW c \in LTracked, L!TrackCost(c) PROVE (LedgerTyped /\ DeliveryInv /\ AlertInv)'
  <2>1. /\ lAt[c] = "idle" /\ lAt' = [lAt EXCEPT ![c] = "keyed"]
        /\ lKeys' = [lKeys EXCEPT ![c] = lDay]
        /\ UNCHANGED <<lDay, lTotals, lNotified, lAlerting, lRaised, lEpoch, lFresh, lQueued,
                       lDelivered, lDelivering>>
    BY <1>1 DEF L!TrackCost, L!Goto
  <2>2. LedgerTyped'
    BY <1>0, <2>1 DEF LedgerTyped
  <2>3. DeliveryInv'
    BY <1>0, <2>1 DEF DeliveryInv, Active
  <2> QED  BY <2>1, <2>2, <2>3, AlertsAside
<1>2. ASSUME NEW c \in LTracked, NEW d \in 0..LMaxDay, L!RecordCost(c, d),
             lAt[c] \in {"idle", "keyed"},
             lAt' = [lAt EXCEPT ![c] =
                       IF lQueued' # lQueued /\ ~lDelivering THEN "loop" ELSE "done"],
             UNCHANGED <<lDay, lKeys, lAlerting, lDelivered, lEpoch>>
      PROVE  (LedgerTyped /\ DeliveryInv /\ AlertInv)'
  <2>1. AlertInv'
    BY <1>2, RecordKeepsAlerts
  <2>2. LedgerTyped'
    BY <1>0, <1>2, RecordTyped DEF LedgerTyped
  <2>3. DeliveryInv'
    <3>1. CASE lQueued' # lQueued /\ ~lDelivering
      <4>1. \A g \in L!Goroutines : ~Active(g)
        BY <3>1 DEF DeliveryInv
      <4>2. \A g \in L!Goroutines : Active(g)' <=> g = c
        BY <1>0, <1>2, <3>1, <4>1 DEF Active
      <4>3. lDelivering' = TRUE
        BY <1>2, <3>1, RecordTyped
      <4> QED  BY <1>0, <4>2, <4>3 DEF DeliveryInv
    <3>2. CASE ~(lQueued' # lQueued /\ ~lDelivering)
      <4>1. \A g \in L!Goroutines : Active(g)' <=> Active(g)
        BY <1>0, <1>2, <3>2 DEF Active
      <4>2. lDelivering' = lDelivering
        BY <1>0, <1>2, <3>2, RecordTyped
      <4>3. lQueued' # <<>> => lDelivering
        BY <3>2 DEF DeliveryInv
      <4> QED  BY <4>1, <4>2, <4>3 DEF DeliveryInv
    <3> QED  BY <3>1, <3>2
  <2> QED  BY <2>1, <2>2, <2>3
<1>3. ASSUME NEW c \in LTracked, L!Record(c) PROVE (LedgerTyped /\ DeliveryInv /\ AlertInv)'
  <2>1. lKeys[c] \in 0..LMaxDay
    BY DEF LedgerTyped
  <2> QED  BY <1>2, <1>3, <2>1 DEF L!Record, L!Goto
<1>4. ASSUME NEW g \in L!Goroutines, NEW c \in LTracked, L!CallbackRecords(g, c)
      PROVE  (LedgerTyped /\ DeliveryInv /\ AlertInv)'
  <2>1. /\ lAt[g] = "callback" /\ lAt[c] = "idle" /\ L!RecordCost(c, lDay)
        /\ lAt' = [lAt EXCEPT ![c] = "done"]
        /\ UNCHANGED <<lDay, lKeys, lAlerting, lDelivered, lEpoch>>
    BY <1>4 DEF L!CallbackRecords, L!Goto
  <2>2. lDelivering /\ lDay \in 0..LMaxDay
    BY <2>1 DEF DeliveryInv, Active, LedgerTyped
  <2>3. lAt' = [lAt EXCEPT ![c] =
                  IF lQueued' # lQueued /\ ~lDelivering THEN "loop" ELSE "done"]
    BY <2>1, <2>2
  <2> QED  BY <1>2, <2>1, <2>2, <2>3
<1>5. ASSUME NEW g \in L!Goroutines, L!Take(g) PROVE (LedgerTyped /\ DeliveryInv /\ AlertInv)'
  <2>1. /\ lAt[g] = "loop" /\ lQueued # <<>> /\ lAt' = [lAt EXCEPT ![g] = "callback"]
        /\ lQueued' = Tail(lQueued) /\ lDelivered' = Append(lDelivered, Head(lQueued))
        /\ UNCHANGED <<lDay, lKeys, lTotals, lNotified, lAlerting, lRaised, lEpoch, lFresh,
                       lDelivering>>
    BY <1>5 DEF L!Take, L!Goto
  <2>2. AlertInv' /\ lQueued' \in Seq(Alerts) /\ lDelivered' \in Seq(Alerts)
    BY <2>1, TakeKeepsAlerts
  <2>3. LedgerTyped'
    BY <1>0, <2>1, <2>2 DEF LedgerTyped
  <2>4. \A h \in L!Goroutines : Active(h)' <=> Active(h)
    BY <1>0, <2>1 DEF Active
  <2>5. lDelivering
    BY <2>1 DEF DeliveryInv
  <2> QED  BY <2>1, <2>2, <2>3, <2>4, <2>5 DEF DeliveryInv
<1>6. ASSUME NEW g \in L!Goroutines, L!Stop(g) \/ L!CallbackReturns(g) \/ L!CallbackExits(g)
      PROVE  (LedgerTyped /\ DeliveryInv /\ AlertInv)'
  <2>1. /\ Active(g)
        /\ UNCHANGED <<lDay, lKeys, lTotals, lNotified, lAlerting, lRaised, lEpoch, lFresh,
                       lQueued, lDelivered>>
        /\ \/ lQueued = <<>> /\ lAt' = [lAt EXCEPT ![g] = "done"] /\ lDelivering' = FALSE
           \/ lAt' = [lAt EXCEPT ![g] = "loop"] /\ lDelivering' = lDelivering
           \/ /\ lAt' = [lAt EXCEPT ![g] = "done", ![L!Spawned] = "loop"]
              /\ lDelivering' = lDelivering
    BY <1>6 DEF L!Stop, L!CallbackReturns, L!CallbackExits, L!Goto, Active
  <2>2. LedgerTyped'
    BY <1>0, <2>1 DEF LedgerTyped
  <2>3. \A h \in L!Goroutines : Active(h) <=> h = g
    BY <2>1 DEF DeliveryInv
  <2>4. CASE lQueued = <<>> /\ lAt' = [lAt EXCEPT ![g] = "done"] /\ lDelivering' = FALSE
    <3>1. \A h \in L!Goroutines : ~Active(h)'
      BY <1>0, <2>3, <2>4 DEF Active
    <3>2. DeliveryInv'
      BY <2>1, <2>4, <3>1 DEF DeliveryInv
    <3> QED  BY <2>1, <2>2, <3>2, AlertsAside
  <2>5. CASE lAt' = [lAt EXCEPT ![g] = "loop"] /\ lDelivering' = lDelivering
    <3>1. \A h \in L!Goroutines : Active(h)' <=> h = g
      BY <1>0, <2>3, <2>5 DEF Active
    <3>2. DeliveryInv'
      BY <2>1, <2>3, <2>5, <3>1 DEF DeliveryInv
    <3> QED  BY <2>1, <2>2, <3>2, AlertsAside
  <2>6. CASE /\ lAt' = [lAt EXCEPT ![g] = "done", ![L!Spawned] = "loop"]
             /\ lDelivering' = lDelivering
    <3>1. \A h \in L!Goroutines : Active(h)' <=> h = L!Spawned
      BY <1>0, <2>3, <2>6 DEF Active
    <3>2. DeliveryInv'
      BY <1>0, <2>1, <2>3, <2>6, <3>1 DEF DeliveryInv
    <3> QED  BY <2>1, <2>2, <3>2, AlertsAside
  <2> QED  BY <2>1, <2>4, <2>5, <2>6
<1>7. CASE L!Midnight \/ L!SetCostHistoryLimit \/ UNCHANGED L!vars
  <2>1. /\ UNCHANGED <<lKeys, lTotals, lNotified, lAlerting, lRaised, lEpoch, lFresh, lQueued,
                       lDelivered, lDelivering, lAt>>
        /\ lDay' = lDay \/ (lDay < LMaxDay /\ lDay' = lDay + 1)
    BY <1>7 DEF L!Midnight, L!SetCostHistoryLimit, L!vars
  <2>2. LedgerTyped'
    BY <2>1, SpendConstants DEF LedgerTyped
  <2>3. DeliveryInv'
    BY <2>1 DEF DeliveryInv, Active
  <2> QED  BY <2>1, <2>2, <2>3, AlertsAside
<1>8. CASE L!ResetCostTracking \/ L!ReplaceBudget
  <2>1. /\ L!Forget /\ lAlerting' \in BOOLEAN
        /\ UNCHANGED <<lDay, lKeys, lRaised, lQueued, lDelivered, lDelivering, lAt>>
        /\ lTotals' = lTotals \/ lTotals' = [k \in L!Keys |-> 0]
    BY <1>8 DEF L!ResetCostTracking, L!ReplaceBudget, LedgerTyped
  <2>2. LedgerTyped'
    BY <2>1 DEF LedgerTyped, L!Forget
  <2>3. DeliveryInv'
    BY <2>1 DEF DeliveryInv, Active
  <2> QED  BY <2>1, <2>2, <2>3, ForgetKeepsAlerts
<1> QED
  BY <1>1, <1>3, <1>4, <1>5, <1>6, <1>7, <1>8 DEF L!LedgerNext, L!Deliver, L!Finished

-----------------------------------------------------------------------------
\* The ledger: the ring of cost records.  Pos is the slot of the i-th oldest.
Pos(st, i) == IF st + i <= LHistoryLimit THEN st + i ELSE st + i - LHistoryLimit
Starts == 0..(LHistoryLimit - 1)
Slots == 1..LHistoryLimit

\* A number short of twice the divisor, divided.
LEMMA SmallMod ==
  ASSUME NEW n \in Nat \ {0}, NEW a \in 0..(2 * n - 1)
  PROVE  a % n = IF a < n THEN a ELSE a - n
<1>0. a = n * (a \div n) + (a % n) /\ a % n \in 0..(n - 1) /\ a \div n \in Nat
  BY Z3
<1>1. PICK q \in Nat : a = n * q + (a % n) /\ a % n \in 0..(n - 1)
  BY <1>0
<1>2. CASE q = 0
  BY <1>1, <1>2
<1>3. CASE q = 1
  BY <1>1, <1>3
<1>4. CASE q >= 2
  <2>1. n * q >= n * 2
    BY <1>4
  <2> QED  BY <1>1, <2>1
<1> QED  BY <1>1, <1>2, <1>3, <1>4

\* The slots from the oldest on are all the slots, each once.
LEMMA PosFacts ==
  ASSUME NEW st \in Starts
  PROVE  /\ \A i \in Slots : Pos(st, i) \in Slots /\ ((st + i - 1) % LHistoryLimit) + 1 = Pos(st, i)
         /\ \A i, j \in Slots : Pos(st, i) = Pos(st, j) => i = j
         /\ \A s \in Slots : \E i \in Slots : Pos(st, i) = s
         /\ (st + 1) % LHistoryLimit \in Starts /\ st + 1 = Pos(st, 1)
         /\ \A i \in 1..(LHistoryLimit - 1) :
              Pos((st + 1) % LHistoryLimit, i) = Pos(st, i + 1)
         /\ Pos((st + 1) % LHistoryLimit, LHistoryLimit) = st + 1
<1>0. LHistoryLimit \in Nat \ {0}
  BY SpendConstants
<1>1. ASSUME NEW i \in Slots
      PROVE  Pos(st, i) \in Slots /\ ((st + i - 1) % LHistoryLimit) + 1 = Pos(st, i)
  <2>1. st + i - 1 \in 0..(2 * LHistoryLimit - 1)
    BY <1>0 DEF Slots, Starts
  <2>2. (st + i - 1) % LHistoryLimit =
          IF st + i - 1 < LHistoryLimit THEN st + i - 1 ELSE st + i - 1 - LHistoryLimit
    <3>1. PICK a : a = st + i - 1
      OBVIOUS
    <3>2. a % LHistoryLimit = IF a < LHistoryLimit THEN a ELSE a - LHistoryLimit
      BY <1>0, <2>1, <3>1, SmallMod
    <3> QED  BY <1>0, <2>1, <3>1, <3>2 DEF Starts, Slots
  <2> QED  BY <1>0, <2>2 DEF Pos, Slots, Starts
<1>2. \A i, j \in Slots : Pos(st, i) = Pos(st, j) => i = j
  BY <1>0 DEF Pos, Slots, Starts
<1>3. ASSUME NEW s \in Slots PROVE \E i \in Slots : Pos(st, i) = s
  <2>1. CASE s > st
    <3>1. s - st \in Slots /\ Pos(st, s - st) = s
      BY <1>0, <2>1 DEF Pos, Slots, Starts
    <3> QED  BY <3>1
  <2>2. CASE ~(s > st)
    <3>1. s - st + LHistoryLimit \in Slots /\ Pos(st, s - st + LHistoryLimit) = s
      BY <1>0, <2>2 DEF Pos, Slots, Starts
    <3> QED  BY <3>1
  <2> QED  BY <2>1, <2>2
<1>4. (st + 1) % LHistoryLimit = IF st + 1 < LHistoryLimit THEN st + 1 ELSE 0
  <2>1. st + 1 \in 0..(2 * LHistoryLimit - 1)
    BY <1>0 DEF Starts
  <2> QED  BY <1>0, <2>1, SmallMod DEF Starts
<1>5. /\ (st + 1) % LHistoryLimit \in Starts /\ st + 1 = Pos(st, 1)
      /\ \A i \in 1..(LHistoryLimit - 1) :
           Pos((st + 1) % LHistoryLimit, i) = Pos(st, i + 1)
      /\ Pos((st + 1) % LHistoryLimit, LHistoryLimit) = st + 1
  BY <1>0, <1>4 DEF Pos, Starts
<1> QED  BY <1>1, <1>2, <1>3, <1>5

\* The ring holds the last records, in the order of Pos, and the index has the slot of
\* each request's newest one.
Records == [call : LTracked, request : L!Requests]
Held == Len(lHistory)
RequestAt(s) == lHistory[s].request

RingTyped ==
  /\ lRecorded \in Seq(LTracked) /\ lHistory \in Seq(Records)
  /\ lStart \in Starts /\ Held <= LHistoryLimit
  /\ Held < LHistoryLimit => lStart = 0
  /\ lIndex \in [L!Requests -> Nat]

IndexOf(r) ==
  IF \E s \in 1..Held : RequestAt(s) = r
  THEN /\ lIndex[r] \in 1..Held /\ RequestAt(lIndex[r]) = r
       /\ \A i, j \in 1..Held :
            Pos(lStart, j) = lIndex[r] /\ RequestAt(Pos(lStart, i)) = r => i <= j
  ELSE lIndex[r] = 0

RingInv ==
  /\ RingTyped
  /\ Held = IF Len(lRecorded) < LHistoryLimit THEN Len(lRecorded) ELSE LHistoryLimit
  /\ \A i \in 1..Held :
       lHistory[Pos(lStart, i)].call = lRecorded[Len(lRecorded) - Held + i]
  /\ \A r \in L!Requests : IndexOf(r)

\* The slots in use are the first ones, and each is the place of a record.
LEMMA HeldFacts ==
  RingTyped => /\ Held \in Nat /\ 1..Held \subseteq Slots
               /\ \A i \in 1..Held : Pos(lStart, i) \in 1..Held
               /\ \A s \in 1..Held : \E i \in 1..Held : Pos(lStart, i) = s
               /\ \A s \in 1..Held : lHistory[s] \in Records
<1> SUFFICES ASSUME RingTyped
             PROVE  /\ Held \in Nat /\ 1..Held \subseteq Slots
                    /\ \A i \in 1..Held : Pos(lStart, i) \in 1..Held
                    /\ \A s \in 1..Held : \E i \in 1..Held : Pos(lStart, i) = s
                    /\ \A s \in 1..Held : lHistory[s] \in Records
  OBVIOUS
<1>0. LHistoryLimit \in Nat \ {0} /\ Held \in Nat
  BY SpendConstants, LenProperties DEF RingTyped, Held
<1>1. \A s \in 1..Held : lHistory[s] \in Records
  BY ElementOfSeq DEF RingTyped, Held
<1>2. 1..Held \subseteq Slots
  BY <1>0 DEF Slots, RingTyped
<1>3. CASE Held < LHistoryLimit
  <2>1. lStart = 0
    BY <1>3 DEF RingTyped
  <2>2. \A i \in 1..Held : Pos(lStart, i) = i
    BY <1>0, <1>3, <2>1 DEF Pos
  <2> QED  BY <1>0, <1>1, <1>2, <2>2
<1>4. CASE Held = LHistoryLimit
  <2>1. 1..Held = Slots
    BY <1>4 DEF Slots
  <2> QED  BY <1>0, <1>1, <1>2, <2>1, PosFacts DEF RingTyped
<1>5. Held < LHistoryLimit \/ Held = LHistoryLimit
  BY <1>0 DEF RingTyped
<1> QED  BY <1>3, <1>4, <1>5

\* What the ring is like is what IndexRight says of it.
LEMMA RingRight == RingInv => L!IndexRight
<1> SUFFICES ASSUME RingInv PROVE L!IndexRight
  OBVIOUS
<1>0. RingTyped /\ lStart \in Starts
  BY DEF RingInv, RingTyped
<1>1. \A i \in 1..Held : ((lStart + i - 1) % LHistoryLimit) + 1 = Pos(lStart, i)
  BY <1>0, HeldFacts, PosFacts
<1>2. ASSUME NEW r \in L!Requests
      PROVE  IF \E s \in 1..Held : lHistory[s].request = r
             THEN /\ lIndex[r] \in 1..Held /\ lHistory[lIndex[r]].request = r
                  /\ \A i \in 1..Held : lHistory[Pos(lStart, i)].request = r =>
                       \E j \in i..Held : lHistory[Pos(lStart, j)] = lHistory[lIndex[r]]
             ELSE lIndex[r] = 0
  <2>1. IndexOf(r)
    BY DEF RingInv
  <2>2. CASE ~\E s \in 1..Held : lHistory[s].request = r
    BY <2>1, <2>2 DEF IndexOf, RequestAt
  <2>3. CASE \E s \in 1..Held : lHistory[s].request = r
    <3>1. /\ lIndex[r] \in 1..Held /\ lHistory[lIndex[r]].request = r
          /\ \A i, j \in 1..Held :
               Pos(lStart, j) = lIndex[r] /\ lHistory[Pos(lStart, i)].request = r => i <= j
      BY <2>1, <2>3 DEF IndexOf, RequestAt
    <3>2. PICK j \in 1..Held : Pos(lStart, j) = lIndex[r]
      BY <1>0, <3>1, HeldFacts
    <3>3. \A i \in 1..Held : lHistory[Pos(lStart, i)].request = r => j \in i..Held
      BY <1>0, <3>1, <3>2, HeldFacts
    <3> QED  BY <2>3, <3>1, <3>2, <3>3
  <2> QED  BY <2>2, <2>3
<1>3. /\ Held = IF Len(lRecorded) < LHistoryLimit THEN Len(lRecorded) ELSE LHistoryLimit
      /\ \A i \in 1..Held :
           lHistory[Pos(lStart, i)].call = lRecorded[Len(lRecorded) - Held + i]
  BY DEF RingInv
<1>5. \A i \in 1..Held : \A j \in i..Held : j \in 1..Held
  BY <1>0, HeldFacts
<1> DEFINE place(i) == ((lStart + i - 1) % LHistoryLimit) + 1
<1>6. \A i \in 1..Held : lHistory[place(i)].call = lRecorded[Len(lRecorded) - Held + i]
  BY <1>1, <1>3
<1>7. ASSUME NEW r \in L!Requests
      PROVE  IF \E s \in 1..Held : lHistory[s].request = r
             THEN /\ lIndex[r] \in 1..Held /\ lHistory[lIndex[r]].request = r
                  /\ \A i \in 1..Held : lHistory[place(i)].request = r =>
                       \E j \in i..Held : lHistory[place(j)] = lHistory[lIndex[r]]
             ELSE lIndex[r] = 0
  <2> DEFINE Newest == \A i \in 1..Held : lHistory[place(i)].request = r =>
                         \E j \in i..Held : lHistory[place(j)] = lHistory[lIndex[r]]
  <2>1. CASE \E s \in 1..Held : lHistory[s].request = r
    <3>1. ASSUME NEW i \in 1..Held, lHistory[place(i)].request = r
          PROVE  \E j \in i..Held : lHistory[place(j)] = lHistory[lIndex[r]]
      <4>1. lHistory[Pos(lStart, i)].request = r
        BY <1>1, <3>1
      <4>2. PICK j \in i..Held : lHistory[Pos(lStart, j)] = lHistory[lIndex[r]]
        BY <1>2, <2>1, <4>1
      <4>3. place(j) = Pos(lStart, j)
        BY <1>1, <1>5
      <4> HIDE DEF place
      <4> QED  BY <4>2, <4>3
    <3>2. Newest
      BY <3>1
    <3> QED  BY <1>2, <2>1, <3>2
  <2>2. CASE ~\E s \in 1..Held : lHistory[s].request = r
    BY <1>2, <2>2
  <2> QED  BY <2>1, <2>2
<1> QED  BY <1>3, <1>6, <1>7 DEF L!IndexRight, Held

\* A record goes into the slot after the last, or over the oldest, and the others
\* move one place towards the oldest if one was dropped.
Pushed(c, slot, drop, n) ==
  /\ n = Held'
  /\ drop = (IF Held = LHistoryLimit THEN 1 ELSE 0)
  /\ drop = 1 => slot = Pos(lStart, 1)
  /\ drop = 0 => slot = Held + 1
  /\ n = Held + 1 - drop
  /\ lHistory' \in Seq(Records) /\ lStart' \in Starts /\ n <= LHistoryLimit
  /\ n < LHistoryLimit => lStart' = 0
  /\ slot \in 1..n
  /\ \A s \in 1..n : lHistory'[s] =
       IF s = slot THEN [call |-> c, request |-> LEntry[c].request] ELSE lHistory[s]
  /\ Pos(lStart', n) = slot
  /\ \A i \in 1..(n - 1) : Pos(lStart', i) = Pos(lStart, i + drop)
  /\ lIndex' = L!IndexAfter(slot, LEntry[c].request)

\* That is what pushCostRecord does.
LEMMA PushMoves ==
  ASSUME RingTyped, NEW c \in LTracked, L!pushCostRecord(c)
  PROVE  \E slot \in Slots, drop \in {0, 1}, n \in Nat : Pushed(c, slot, drop, n)
<1> DEFINE record == [call |-> c, request |-> LEntry[c].request]
<1>0. /\ LHistoryLimit \in Nat \ {0} /\ Held \in Nat /\ Held <= LHistoryLimit
      /\ lHistory \in Seq(Records) /\ lStart \in Starts
  BY SpendConstants, HeldFacts DEF RingTyped
<1>1. record \in Records
  BY DEF Records, L!Requests
<1>n. PICK n : n = Held'
  OBVIOUS
<1>2. CASE Held = LHistoryLimit
  <2>1. /\ lHistory' = [lHistory EXCEPT ![lStart + 1] = record]
        /\ lStart' = (lStart + 1) % LHistoryLimit
        /\ lIndex' = L!IndexAfter(lStart + 1, LEntry[c].request)
    BY <1>2 DEF L!pushCostRecord, L!Oldest, Held
  <2>2. lStart + 1 \in 1..Len(lHistory)
    BY <1>0, <1>2 DEF Held, Starts
  <2> HIDE DEF record
  <2>3. /\ lHistory' \in Seq(Records) /\ n = Held
        /\ \A s \in 1..Held : lHistory'[s] = IF s = lStart + 1 THEN record ELSE lHistory[s]
    BY <1>0, <1>1, <1>n, <2>1, <2>2, ExceptSeq DEF Held
  <2>4. /\ lStart' \in Starts /\ lStart + 1 = Pos(lStart, 1)
        /\ Pos(lStart', n) = lStart + 1
        /\ \A i \in 1..(n - 1) : Pos(lStart', i) = Pos(lStart, i + 1)
    BY <1>0, <1>2, <2>1, <2>3, PosFacts
  <2>5. lStart + 1 \in Slots /\ lStart + 1 \in 1..n
    BY <1>0, <1>2, <2>2, <2>3 DEF Slots, Held, Starts
  <2>6. Pushed(c, lStart + 1, 1, n)
    BY <1>0, <1>n, <1>2, <2>1, <2>3, <2>4, <2>5 DEF record, Pushed
  <2> QED  BY <1>0, <2>3, <2>5, <2>6
<1>3. CASE Held < LHistoryLimit
  <2>1. /\ lHistory' = Append(lHistory, record) /\ lStart' = lStart /\ lStart = 0
        /\ lIndex' = L!IndexAfter(Held + 1, LEntry[c].request)
    BY <1>0, <1>3 DEF L!pushCostRecord, RingTyped, Held
  <2> HIDE DEF record
  <2>2. /\ lHistory' \in Seq(Records) /\ n = Held + 1
        /\ \A s \in 1..Held : lHistory'[s] = lHistory[s]
        /\ lHistory'[Held + 1] = record
    BY <1>0, <1>1, <1>n, <2>1, AppendProperties DEF Held
  <2>3. \A s \in 1..n : lHistory'[s] = IF s = Held + 1 THEN record ELSE lHistory[s]
    BY <1>0, <2>2
  <2>4. /\ Pos(lStart', n) = Held + 1
        /\ \A i \in 1..(n - 1) : Pos(lStart', i) = Pos(lStart, i + 0)
    BY <1>0, <1>3, <2>1, <2>2 DEF Pos
  <2>5. Held + 1 \in Slots /\ Held + 1 \in 1..n
    BY <1>0, <1>3, <2>2 DEF Slots
  <2>6. n <= LHistoryLimit /\ lStart' = 0 /\ lStart' \in Starts
    BY <1>0, <1>3, <2>1, <2>2
  <2>7. Pushed(c, Held + 1, 0, n)
    <3>1. /\ 0 = (IF Held = LHistoryLimit THEN 1 ELSE 0) /\ n = Held + 1 - 0
      BY <1>0, <1>3, <2>2
    <3>2. \A s \in 1..n : lHistory'[s] =
            IF s = Held + 1 THEN [call |-> c, request |-> LEntry[c].request] ELSE lHistory[s]
      BY <2>3 DEF record
    <3>3. lIndex' = L!IndexAfter(Held + 1, LEntry[c].request)
      BY <2>1
    <3>4. lHistory' \in Seq(Records)
      BY <2>2
    <3> QED  BY <1>n, <2>4, <2>5, <2>6, <3>1, <3>2, <3>3, <3>4 DEF Pushed
  <2> QED  BY <1>0, <2>2, <2>5, <2>7
<1>4. Held = LHistoryLimit \/ Held < LHistoryLimit
  BY <1>0
<1> QED  BY <1>2, <1>3, <1>4

\* The call is the last recorded.
RecordedLast(c) == lRecorded' = Append(lRecorded, c)

\* A record keeps the ring and the index.
LEMMA PushKeepsRing ==
  ASSUME RingInv, NEW c \in LTracked, L!pushCostRecord(c), RecordedLast(c)
  PROVE  RingInv'
<1>0. /\ RingTyped /\ LHistoryLimit \in Nat \ {0} /\ Held \in Nat /\ lStart \in Starts
      /\ lIndex \in [L!Requests -> Nat] /\ lRecorded \in Seq(LTracked) /\ Len(lRecorded) \in Nat
      /\ Held = IF Len(lRecorded) < LHistoryLimit THEN Len(lRecorded) ELSE LHistoryLimit
      /\ 1..Held \subseteq Slots
  BY SpendConstants, HeldFacts, LenProperties DEF RingInv, RingTyped
<1> DEFINE r0 == LEntry[c].request
<1>1a. PICK slot \in Slots, drop \in {0, 1}, n \in Nat : Pushed(c, slot, drop, n)
  BY <1>0, PushMoves
<1>1h. n = Held' /\ lIndex' = L!IndexAfter(slot, r0)
  BY <1>1a DEF Pushed
<1>1b. /\ drop = (IF Held = LHistoryLimit THEN 1 ELSE 0) /\ drop \in {0, 1} /\ n \in Nat
       /\ n = Held + 1 - drop /\ slot \in 1..n /\ n <= LHistoryLimit
       /\ drop = 0 => slot = Held + 1
  BY <1>1a DEF Pushed
\* The numbers alone.
<1>1n. /\ Held \in Nat /\ Len(lRecorded) \in Nat /\ LHistoryLimit \in Nat \ {0}
       /\ \/ drop = 0 /\ n = Held + 1 /\ slot = Held + 1 /\ Held < LHistoryLimit
             /\ Held = Len(lRecorded)
          \/ drop = 1 /\ n = Held /\ Held = LHistoryLimit /\ Len(lRecorded) >= Held
  <2>1. Held <= LHistoryLimit
    BY <1>0 DEF RingTyped
  <2>2. CASE Held = LHistoryLimit
    <3>0. drop = 1 /\ n = Held + 1 - drop
      BY <1>1b, <2>2
    <3>1. drop = 1 /\ n = Held
      BY <1>0, <3>0
    <3>2. Len(lRecorded) >= Held
      BY <1>0, <2>2
    <3> QED  BY <1>0, <2>2, <3>1, <3>2
  <2>3. CASE Held # LHistoryLimit
    BY <1>0, <1>1b, <2>1, <2>3
  <2> QED  BY <2>2, <2>3
<1>1c. /\ drop = 1 => slot = Pos(lStart, 1)
       /\ Pos(lStart', n) = slot
       /\ \A i \in 1..(n - 1) : Pos(lStart', i) = Pos(lStart, i + drop)
  BY <1>1a DEF Pushed
<1>1d. /\ lHistory' \in Seq(Records) /\ lStart' \in Starts
       /\ n < LHistoryLimit => lStart' = 0
  BY <1>1a DEF Pushed
<1>1e. \A s \in 1..n : lHistory'[s] =
         IF s = slot THEN [call |-> c, request |-> r0] ELSE lHistory[s]
  BY <1>1a DEF Pushed
<1>2. r0 \in L!Requests
  BY DEF L!Requests
<1> HIDE DEF r0
<1>3. /\ lRecorded' \in Seq(LTracked) /\ Len(lRecorded') = Len(lRecorded) + 1
      /\ \A i \in 1..Len(lRecorded) : lRecorded'[i] = lRecorded[i]
      /\ lRecorded'[Len(lRecorded) + 1] = c
  BY <1>0, AppendProperties DEF RecordedLast
<1>4. \A i \in 1..(n - 1) : i + drop \in 1..Held /\ i \in 1..n
  BY <1>0, <1>1b
\* The i-th oldest, for all but the newest, is one that was held before.
<1>5. ASSUME NEW i \in 1..(n - 1)
      PROVE  /\ Pos(lStart', i) \in 1..n /\ Pos(lStart', i) # slot
             /\ lHistory'[Pos(lStart', i)] = lHistory[Pos(lStart, i + drop)]
  <2>1. i + drop \in 1..Held /\ i + drop \in Slots /\ Pos(lStart', i) = Pos(lStart, i + drop)
    BY <1>0, <1>1b, <1>1c, <1>1e, <1>4
  <2>2. Pos(lStart, i + drop) \in 1..Held
    BY <1>0, <2>1, HeldFacts
  <2>3. CASE drop = 0
    <3>1. Pos(lStart, i + drop) # slot /\ Pos(lStart, i + drop) \in 1..n
      BY <1>1n, <2>2, <2>3
    <3> QED  BY <1>1e, <2>1, <3>1
  <2>4. CASE drop = 1
    <3>1. 1 \in Slots /\ i + 1 # 1
      BY <1>0 DEF Slots
    <3>2. Pos(lStart, i + 1) # Pos(lStart, 1)
      BY <1>0, <2>1, <2>4, <3>1, PosFacts
    <3>3. n = Held
      BY <1>1n, <2>4
    <3> QED  BY <1>1b, <1>1c, <1>1e, <2>1, <2>2, <2>4, <3>2, <3>3
  <2> QED  BY <2>3, <2>4
<1>6. n = IF Len(lRecorded') < LHistoryLimit THEN Len(lRecorded') ELSE LHistoryLimit
  BY <1>1n, <1>3
<1>7. ASSUME NEW i \in 1..n
      PROVE  lHistory'[Pos(lStart', i)].call = lRecorded'[Len(lRecorded') - n + i]
  <2>1. CASE i = n
    <3>1. lHistory'[Pos(lStart', i)] = [call |-> c, request |-> r0]
      BY <1>1b, <1>1c, <1>1e, <2>1
    <3>2. Len(lRecorded') - n + i = Len(lRecorded) + 1
      BY <1>1n, <1>3, <2>1
    <3> QED  BY <1>3, <3>1, <3>2
  <2>2. CASE i # n
    <3>1. i \in 1..(n - 1) /\ i + drop \in 1..Held
      BY <1>0, <1>1b, <1>1c, <1>1e, <1>4, <2>2
    <3>2. lHistory[Pos(lStart, i + drop)].call = lRecorded[Len(lRecorded) - Held + (i + drop)]
      BY <3>1 DEF RingInv
    <3>3. /\ Len(lRecorded') - n + i = Len(lRecorded) - Held + (i + drop)
          /\ Len(lRecorded) - Held + (i + drop) \in 1..Len(lRecorded)
      <4>1. PICK m \in Nat : m = Len(lRecorded) /\ Len(lRecorded') = m + 1
        BY <1>1n, <1>3
      <4>2. CASE drop = 0
        BY <1>1n, <3>1, <4>1, <4>2
      <4>3. CASE drop = 1
        BY <1>1n, <3>1, <4>1, <4>3
      <4> QED  BY <4>2, <4>3
    <3> QED  BY <1>3, <1>5, <3>1, <3>2, <3>3
  <2> QED  BY <2>1, <2>2
\* The index.
<1>8. ASSUME NEW r \in L!Requests
      PROVE  /\ r = r0 => lIndex'[r] = slot
             /\ r # r0 => lIndex'[r] =
                  IF drop = 1 /\ lHistory[slot].request = r /\ lIndex[r] = slot
                  THEN 0 ELSE lIndex[r]
             /\ lIndex' \in [L!Requests -> Nat]
  <2> DEFINE gone == IF slot <= Len(lHistory) THEN lHistory[slot].request ELSE r0
             kept == IF lIndex[gone] = slot THEN [lIndex EXCEPT ![gone] = 0] ELSE lIndex
  <2>1. lIndex' = [kept EXCEPT ![r0] = slot]
    BY <1>1h DEF L!IndexAfter
  <2>2. slot \in Nat /\ (slot <= Len(lHistory) <=> drop = 1)
    <3>1. drop = 1 => Pos(lStart, 1) \in 1..Held
      BY <1>0, <1>1b, <1>1c, <1>1e, HeldFacts
    <3> QED  BY <1>0, <1>1b, <1>1c, <1>1e, <3>1 DEF Held, Slots
  <2>3. gone \in L!Requests
    <3>1. CASE drop = 1
      <4>1. slot \in 1..Held
        BY <1>0, <1>1b, <1>1c, <1>1e, <3>1, HeldFacts
      <4>2. lHistory[slot] \in Records
        BY <1>0, <4>1, HeldFacts
      <4> QED  BY <1>2, <4>2 DEF Records
    <3>2. CASE drop = 0
      BY <1>2, <2>2, <3>2
    <3> QED  BY <3>1, <3>2
  <2>4. gone = IF drop = 1 THEN lHistory[slot].request ELSE r0
    BY <2>2
  <2> HIDE DEF gone
  <2>5. kept \in [L!Requests -> Nat]
        /\ \A q \in L!Requests : kept[q] = IF q = gone /\ lIndex[q] = slot THEN 0 ELSE lIndex[q]
    BY <1>0, <2>3
  <2> HIDE DEF kept
  <2>6. lIndex' \in [L!Requests -> Nat]
        /\ \A q \in L!Requests : lIndex'[q] = IF q = r0 THEN slot ELSE kept[q]
    BY <1>2, <2>1, <2>2, <2>5
  <2> QED  BY <1>1b, <1>1c, <1>1e, <2>4, <2>5, <2>6
<1>9. RingTyped'
  BY <1>1b, <1>1d, <1>1h, <1>2, <1>3, <1>8 DEF RingTyped
<1>10. ASSUME NEW r \in L!Requests PROVE IndexOf(r)'
  <2> DEFINE newAt(s) == lHistory'[s].request
  <2>1. /\ newAt(slot) = r0
        /\ \A i \in 1..(n - 1) : newAt(Pos(lStart', i)) = RequestAt(Pos(lStart, i + drop))
    BY <1>1b, <1>1c, <1>1e, <1>5 DEF RequestAt
  <2>2. /\ \A i \in 1..n : Pos(lStart', i) = slot <=> i = n
        /\ \A s \in 1..n : \E i \in 1..n : Pos(lStart', i) = s
    <3>1. \A s \in 1..n : \E i \in 1..n : Pos(lStart', i) = s
      <4>1. (\A s \in 1..Held : \E i \in 1..Held : Pos(lStart, i) = s)'
        BY <1>9, HeldFacts, PTL
      <4> QED  BY <1>1h, <4>1 DEF Pos
    <3>2. ASSUME NEW i \in 1..n PROVE Pos(lStart', i) = slot <=> i = n
      <4>1. CASE i = n
        BY <1>1b, <1>1c, <1>1e, <4>1
      <4>2. CASE i # n
        <5>1. i \in 1..(n - 1)
          BY <1>0, <1>1b, <1>1c, <1>1e, <4>2
        <5> QED  BY <1>5, <4>2, <5>1
      <4> QED  BY <4>1, <4>2
    <3> QED  BY <3>1, <3>2
  <2>3. IndexOf(r)
    BY DEF RingInv
  <2>4. SUFFICES
          IF \E s \in 1..n : newAt(s) = r
          THEN /\ lIndex'[r] \in 1..n /\ newAt(lIndex'[r]) = r
               /\ \A i, j \in 1..n :
                    Pos(lStart', j) = lIndex'[r] /\ newAt(Pos(lStart', i)) = r => i <= j
          ELSE lIndex'[r] = 0
    BY <1>1h DEF IndexOf, RequestAt, Pos
  <2>5. n \in Nat
    BY <1>0, <1>1b
  <2> HIDE DEF newAt
  <2>6. CASE r = r0
    <3>1. lIndex'[r] = slot /\ newAt(slot) = r /\ slot \in 1..n
      BY <1>1b, <1>1c, <1>1e, <1>8, <2>1, <2>6
    <3>2. \A i, j \in 1..n : Pos(lStart', j) = slot => i <= j
      BY <2>2, <2>5
    <3> QED  BY <3>1, <3>2
  \* A request other than the new record's: where its records are.
  <2>7. ASSUME r # r0, NEW s \in 1..n, newAt(s) = r
        PROVE  \E i \in 1..(n - 1) : /\ s = Pos(lStart', i) /\ i + drop \in 1..Held
                                         /\ s = Pos(lStart, i + drop)
                                         /\ RequestAt(Pos(lStart, i + drop)) = r
    <3>1. PICK i \in 1..n : Pos(lStart', i) = s
      BY <2>2
    <3>2. i # n
      BY <2>1, <2>2, <2>7, <3>1
    <3>3. i \in 1..(n - 1)
      BY <2>5, <3>1, <3>2
    <3> QED  BY <1>1b, <1>1c, <1>1e, <1>4, <2>1, <2>7, <3>1, <3>3
  <2>8. CASE r # r0 /\ drop = 1 /\ lHistory[slot].request = r /\ lIndex[r] = slot
    <3>1. lIndex'[r] = 0
      BY <1>8, <2>8
    <3>2. ~\E s \in 1..n : newAt(s) = r
      <4> SUFFICES ASSUME NEW s \in 1..n, newAt(s) = r PROVE FALSE
        OBVIOUS
      <4>1. PICK i \in 1..(n - 1) : /\ i + drop \in 1..Held
                                        /\ RequestAt(Pos(lStart, i + drop)) = r
        BY <2>7, <2>8
      <4>2. 1 \in 1..Held /\ Pos(lStart, 1) \in 1..Held
        BY <1>0, <1>1b, <1>1c, <1>1e, <2>8, HeldFacts
      <4>3. RequestAt(Pos(lStart, 1)) = r /\ Pos(lStart, 1) = lIndex[r]
        BY <1>1b, <1>1c, <1>1e, <2>8 DEF RequestAt
      <4>4. \A k, j \in 1..Held :
              Pos(lStart, j) = lIndex[r] /\ RequestAt(Pos(lStart, k)) = r => k <= j
        BY <2>3, <4>2, <4>3 DEF IndexOf
      <4>5. i + drop <= 1
        BY <4>1, <4>2, <4>3, <4>4
      <4> QED  BY <2>5, <2>8, <4>1, <4>5
    <3> QED  BY <3>1, <3>2
  <2>9. CASE r # r0 /\ ~(drop = 1 /\ lHistory[slot].request = r /\ lIndex[r] = slot)
    <3>1. lIndex'[r] = lIndex[r]
      BY <1>8, <2>9
    <3>2. CASE ~\E s \in 1..Held : RequestAt(s) = r
      <4>1. lIndex[r] = 0
        BY <2>3, <3>2 DEF IndexOf
      <4>2. ~\E s \in 1..n : newAt(s) = r
        <5> SUFFICES ASSUME NEW s \in 1..n, newAt(s) = r PROVE FALSE
          OBVIOUS
        <5>1. PICK i \in 1..(n - 1) : /\ i + drop \in 1..Held
                                          /\ RequestAt(Pos(lStart, i + drop)) = r
          BY <2>7, <2>9
        <5>2. Pos(lStart, i + drop) \in 1..Held
          BY <1>0, <5>1, HeldFacts
        <5> QED  BY <3>2, <5>1, <5>2
      <4> QED  BY <3>1, <4>1, <4>2
    <3>3. CASE \E s \in 1..Held : RequestAt(s) = r
      <4>1. /\ lIndex[r] \in 1..Held /\ RequestAt(lIndex[r]) = r
            /\ \A i, j \in 1..Held :
                 Pos(lStart, j) = lIndex[r] /\ RequestAt(Pos(lStart, i)) = r => i <= j
        BY <2>3, <3>3 DEF IndexOf
      <4>2. lIndex[r] # slot /\ lIndex[r] \in 1..n
        <5>1. CASE drop = 1
          <6>1. lIndex[r] # slot
            BY <2>9, <4>1, <5>1 DEF RequestAt
          <6> QED  BY <1>1n, <4>1, <5>1, <6>1
        <5>2. CASE drop = 0
          BY <1>1n, <4>1, <5>2
        <5> QED  BY <5>1, <5>2
      <4>3. newAt(lIndex[r]) = r
        BY <1>1b, <1>1c, <1>1e, <4>1, <4>2 DEF newAt, RequestAt
      <4>4. ASSUME NEW i \in 1..n, NEW j \in 1..n,
                   Pos(lStart', j) = lIndex[r], newAt(Pos(lStart', i)) = r
            PROVE  i <= j
        <5>1. i # n /\ j # n
          BY <2>1, <2>2, <2>9, <4>2, <4>4
        <5>2. i \in 1..(n - 1) /\ j \in 1..(n - 1)
          BY <2>5, <4>4, <5>1
        <5>3. i + drop \in 1..Held /\ j + drop \in 1..Held
          BY <1>4, <5>2
        <5>4. Pos(lStart, j + drop) = lIndex[r] /\ RequestAt(Pos(lStart, i + drop)) = r
          BY <1>1b, <1>1c, <1>1e, <2>1, <4>4, <5>2
        <5>5. i + drop <= j + drop
          BY <4>1, <5>3, <5>4
        <5> QED  BY <5>2, <5>5
      <4> QED  BY <3>1, <4>2, <4>3, <4>4
    <3> QED  BY <3>2, <3>3
  <2> QED  BY <2>6, <2>8, <2>9
<1> QED  BY <1>1h, <1>6, <1>7, <1>9, <1>10 DEF RingInv, Pos

\* An empty ring.
IsEmptyRing ==
  /\ lHistory = <<>> /\ lStart = 0 /\ lIndex = [r \in L!Requests |-> 0]
  /\ lRecorded = <<>>

\* It is right.
LEMMA EmptyRing == IsEmptyRing => RingInv
<1> SUFFICES ASSUME lHistory = <<>>, lStart = 0, lIndex = [r \in L!Requests |-> 0],
                    lRecorded = <<>>
             PROVE  RingInv
  BY DEF IsEmptyRing
<1>1. Held = 0 /\ Len(lRecorded) = 0 /\ LHistoryLimit \in Nat \ {0}
  BY SpendConstants, EmptySeq DEF Held
<1>2. <<>> \in Seq(Records) /\ <<>> \in Seq(LTracked)
  BY EmptySeq
<1>3. RingTyped
  BY <1>1, <1>2 DEF RingTyped, Starts
<1>4. \A r \in L!Requests : IndexOf(r)
  BY <1>1 DEF IndexOf
<1> QED  BY <1>1, <1>3, <1>4 DEF RingInv

\* Every step keeps the ring.
LEMMA NextRing == RingInv /\ [L!LedgerNext \/ L!Finished]_(L!vars) => RingInv'
<1> SUFFICES ASSUME RingInv, [L!LedgerNext \/ L!Finished]_(L!vars) PROVE RingInv'
  OBVIOUS
<1> USE DEF L!ringVars, L!queueVars, L!ledgerVars, L!alertVars, L!epochVars
<1>1. ASSUME UNCHANGED <<lHistory, lStart, lIndex, lRecorded>> PROVE RingInv'
  BY <1>1 DEF RingInv, RingTyped, IndexOf, RequestAt, Held, Pos, Starts
<1>2. ASSUME NEW c \in LTracked, NEW d, L!RecordCost(c, d) PROVE RingInv'
  BY <1>2, PushKeepsRing DEF L!RecordCost, RecordedLast
<1>3. CASE L!ResetCostTracking \/ L!SetCostHistoryLimit
  <2>1. IsEmptyRing'
    BY <1>3 DEF L!ResetCostTracking, L!SetCostHistoryLimit, IsEmptyRing, L!Requests
  <2> QED  BY <2>1, EmptyRing, PTL
<1>4. ASSUME NEW c \in LTracked, L!TrackCost(c) \/ L!Record(c) PROVE RingInv'
  BY <1>1, <1>2, <1>4 DEF L!TrackCost, L!Record
<1>5. ASSUME NEW g \in L!Goroutines, L!Deliver(g) PROVE RingInv'
  BY <1>1, <1>2, <1>5
  DEF L!Deliver, L!Take, L!Stop, L!CallbackReturns, L!CallbackExits, L!CallbackRecords
<1>6. CASE L!Midnight \/ L!ReplaceBudget \/ L!Finished \/ UNCHANGED L!vars
  BY <1>1, <1>6 DEF L!Midnight, L!ReplaceBudget, L!Finished, L!vars
<1> QED  BY <1>3, <1>4, <1>5, <1>6 DEF L!LedgerNext

-----------------------------------------------------------------------------
\* The ledger's invariant.
LedgerInv == LedgerTyped /\ DeliveryInv /\ AlertInv /\ RingInv

\* One goroutine at most delivers.
LEMMA OneDelivers == LedgerInv => L!NoAlertStranded
<1> SUFFICES ASSUME LedgerTyped, DeliveryInv PROVE L!NoAlertStranded
  BY DEF LedgerInv
<1> DEFINE active == {g \in L!Goroutines : lAt[g] \in {"loop", "callback"}}
<1>1. \A g, h \in active : g = h
  BY DEF DeliveryInv, Active
<1>2. lDelivering <=> active # {}
  BY DEF DeliveryInv, Active
<1>3. lQueued # <<>> => active # {}
  BY <1>2 DEF DeliveryInv
<1>4. Cardinality(active) <= 1
  <2>1. CASE active = {}
    BY <2>1, FS_EmptySet
  <2>2. CASE active # {}
    <3>1. PICK g : active = {g}
      BY <1>1, <2>2
    <3> QED  BY <3>1, FS_Singleton
  <2> QED  BY <2>1, <2>2
<1>5. L!Cardinality(active) = Cardinality(active)
  BY DEF L!Cardinality, Cardinality
<1> HIDE DEF active
<1>6. L!Cardinality(active) <= 1
  BY <1>4, <1>5
<1> QED  BY <1>2, <1>3, <1>6 DEF active, L!NoAlertStranded

\* What was announced is what AlertsInOrder says of it.
LEMMA AlertsRight == LedgerInv => L!AlertsInOrder
<1> SUFFICES ASSUME LedgerTyped, AlertInv PROVE L!AlertsInOrder
  BY DEF LedgerInv
<1>1. lDelivered \o lQueued = lRaised
  BY DEF AlertInv
<1>2. /\ lRaised \in Seq(Alerts) /\ InOrder(lRaised)
      /\ \A k \in 1..Len(lRaised) : lRaised[k] \in Alerts
  BY ElementOfSeq DEF LedgerTyped, AlertInv
<1>3. ASSUME NEW i \in 1..Len(lRaised), NEW j \in 1..Len(lRaised), i < j
      PROVE  /\ lRaised[i] # lRaised[j]
             /\ lRaised[i].key = lRaised[j].key /\ lRaised[i].epoch = lRaised[j].epoch =>
                  lRaised[i].threshold < lRaised[j].threshold
  <2>1. lRaised[i].key = lRaised[j].key /\ lRaised[i].epoch = lRaised[j].epoch =>
          lRaised[i].threshold < lRaised[j].threshold
    BY <1>2, <1>3 DEF InOrder
  <2>2. lRaised[i].threshold \in {1, 2} /\ lRaised[j].threshold \in {1, 2}
    BY <1>2 DEF Alerts
  <2>3. lRaised[i] # lRaised[j]
    <3> SUFFICES ASSUME lRaised[i] = lRaised[j] PROVE FALSE
      OBVIOUS
    <3>1. lRaised[i].threshold < lRaised[j].threshold
      BY <2>1
    <3> QED  BY <2>2, <3>1
  <2> QED  BY <2>1, <2>3
<1>4. ASSUME NEW p \in L!Periods, NEW d \in 0..LMaxDay, NEW i \in {1, 2},
             L!Key(p, d) \in lFresh
      PROVE  L!Crossed(lTotals, p, d, i) <=>
               \E n \in 1..Len(lRaised) : lRaised[n] = L!Notice(p, d, i)
  <2>1. L!Notice(p, d, i) = Alert(L!Key(p, d), i) /\ L!Key(p, d) \in L!Keys
    BY PeriodKeys DEF L!Notice, Alert
  <2>2. (\E n \in 1..Len(lRaised) : lRaised[n] = L!Notice(p, d, i)) <=>
          i \in lNotified[L!Key(p, d)]
    BY <2>1 DEF AlertInv, Has
  <2>3. L!Crossed(lTotals, p, d, i) <=> i \in lNotified[L!Key(p, d)]
    BY <1>4 DEF AlertInv
  <2> QED  BY <2>2, <2>3
<1> QED  BY <1>1, <1>3, <1>4 DEF L!AlertsInOrder

\* Every queued alert is being delivered, alerts come once and in order, and the
\* index finds each request's newest record, whatever the calls, limits and resets.
THEOREM CostsAreKept == L!Spec => []CostsKept
<1>1. L!Init => LedgerInv
  <2>1. L!Init => IsEmptyRing
    BY DEF L!Init, IsEmptyRing
  <2> QED  BY <2>1, InitLedger, EmptyRing DEF LedgerInv
<1>2. LedgerInv /\ [L!LedgerNext \/ L!Finished]_(L!vars) => LedgerInv'
  BY NextLedger, NextRing DEF LedgerInv
<1>3. LedgerInv => CostsKept
  BY OneDelivers, AlertsRight, RingRight DEF CostsKept, LedgerInv
<1> QED  BY <1>1, <1>2, <1>3, PTL DEF L!Spec
==============================================================================

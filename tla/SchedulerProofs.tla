-------------------------- MODULE SchedulerProofs --------------------------
(***************************************************************************)
(* Proofs, for every set of calls, every workload and every limit, of the  *)
(* safety properties of the scheduler.  Shapes (types) is inductive by     *)
(* itself; QueueInv, SlotInv, CloseInv, LockInv and SubmitInv are each     *)
(* inductive given the ones before them; the theorems at the end, the      *)
(* refinement of module Gate among them, follow from all six.              *)
(***************************************************************************)
EXTENDS Scheduler, SumTheorems, TLAPS, SequenceTheorems, FiniteSetTheorems
LOCAL INSTANCE SequencesExt

\* What the sequence without its k-th element holds.
LEMMA RemoveAtProperties ==
  ASSUME NEW S, NEW s \in Seq(S), NEW k \in 1..Len(s)
  PROVE  /\ RemoveAt(s, k) \in Seq(S)
         /\ Len(RemoveAt(s, k)) = Len(s) - 1
         /\ \A j \in 1..(Len(s) - 1) :
              RemoveAt(s, k)[j] = IF j < k THEN s[j] ELSE s[j + 1]
<1> DEFINE a == SubSeq(s, 1, k - 1)
           b == SubSeq(s, k + 1, Len(s))
<1>0. Len(s) \in Nat /\ \A i \in 1..Len(s) : s[i] \in S
  BY LenProperties, ElementOfSeq
<1>1. /\ a \in Seq(S) /\ Len(a) = k - 1
      /\ \A i \in 1..(k - 1) : a[i] = s[i]
  BY <1>0, SubSeqProperties
<1>2. /\ b \in Seq(S) /\ Len(b) = Len(s) - k
      /\ \A i \in 1..(Len(s) - k) : b[i] = s[k + i]
  BY <1>0, SubSeqProperties
<1>3. RemoveAt(s, k) = a \o b
  BY DEF RemoveAt
<1> HIDE DEF a, b
<1>4. /\ a \o b \in Seq(S) /\ Len(a \o b) = Len(s) - 1
      /\ \A i \in 1..(Len(s) - 1) :
           (a \o b)[i] = IF i <= k - 1 THEN a[i] ELSE b[i - (k - 1)]
  BY <1>0, <1>1, <1>2, ConcatProperties
<1> QED  BY <1>0, <1>1, <1>2, <1>3, <1>4

-----------------------------------------------------------------------------
\* What leaving a queue does to the shape of the queue variables.
LEMMA RemoveShapes ==
  ASSUME Shapes, NEW c \in Calls, NEW at \in [Priority -> Nat],
         removeFromQueue(c, at)
  PROVE  /\ queues' \in [Tenants -> [Priority -> Seq(Calls)]]
         /\ tenantOrder' \in Seq(Tenants)
         /\ cursor' \in [Priority -> Nat]
         /\ queuedTotal' \in Int
         /\ hasDeadlines' \in BOOLEAN
<1> DEFINE t == Request[c].tenant
           p == Request[c].prio
<1>1. PICK k \in QueuePositions(c) :
        queues' = [queues EXCEPT ![t][p] = RemoveAt(@, k)]
  BY DEF removeFromQueue
<1>2. t \in Tenants /\ p \in Priority /\ k \in 1..Len(queues[t][p])
  BY <1>1, SchedulerConstants DEF QueuePositions, Waiting, SubmitRequest
<1>3. RemoveAt(queues[t][p], k) \in Seq(Calls)
  BY <1>2, RemoveAtProperties DEF Shapes
<1>4. queues' \in [Tenants -> [Priority -> Seq(Calls)]]
  BY <1>1, <1>2, <1>3 DEF Shapes
<1>5. dropIdleTenant(t, at)
  BY DEF removeFromQueue
<1>6. CASE \E q \in Priority : queues'[t][q] # <<>>
  <2>1. tenantOrder' = tenantOrder /\ cursor' = at
    BY <1>5, <1>6 DEF dropIdleTenant
  <2> QED  BY <1>4, <2>1 DEF removeFromQueue, Shapes
<1>7. CASE ~ \E q \in Priority : queues'[t][q] # <<>>
  <2>1. PICK i \in 1..Len(tenantOrder) :
          /\ tenantOrder' = RemoveAt(tenantOrder, i)
          /\ cursor' = [q \in Priority |->
                          IF at[q] > i - 1 THEN at[q] - 1 ELSE at[q]]
    BY <1>5, <1>7 DEF dropIdleTenant
  <2>2. tenantOrder' \in Seq(Tenants)
    BY <2>1, RemoveAtProperties DEF Shapes
  <2>3. cursor' \in [Priority -> Nat]
    BY <2>1 DEF Shapes
  <2> QED  BY <1>4, <2>2, <2>3 DEF removeFromQueue, Shapes
<1> QED  BY <1>6, <1>7

\* The fields of a request.
LEMMA RequestType ==
  \A c \in Calls :
    /\ Request[c].tenant \in Tenants /\ Request[c].provider \in Providers
    /\ Request[c].prio \in Int /\ Request[c].tokens \in Int
    /\ Request[c].cost \in Int /\ Request[c].deadline \in Nat
BY SchedulerConstants DEF SubmitRequest

\* The counters keep their shape when a slot is taken or given back.
LEMMA SlotShapes ==
  ASSUME Shapes, NEW c \in Calls, reserve(c) \/ unreserve(c)
  PROVE  /\ inFlight' \in Int /\ inFlightTokens' \in Int
         /\ inFlightCost' \in Int
         /\ providerInFlight' \in [Providers -> Int]
         /\ tenantInFlight' \in [Tenants -> Int]
<1>1. /\ inFlight \in Int /\ inFlightTokens \in Int /\ inFlightCost \in Int
      /\ providerInFlight \in [Providers -> Int]
      /\ tenantInFlight \in [Tenants -> Int]
  BY DEF Shapes
<1>2. CASE reserve(c)
  BY <1>1, <1>2, RequestType DEF reserve
<1>3. CASE unreserve(c)
  BY <1>1, <1>3, RequestType DEF unreserve, Decrement
<1> QED  BY <1>2, <1>3

\* Every variable has its shape, initially and after every step.
LEMMA InitShapes == Init => Shapes
<1> SUFFICES ASSUME Init PROVE Shapes
  OBVIOUS
<1>1. queues \in [Tenants -> [Priority -> Seq(Calls)]]
  BY EmptySeq DEF Init
<1>2. tenantOrder \in Seq(Tenants)
  BY EmptySeq DEF Init
<1>3. /\ mu \in Calls \cup {"nobody", "dispatcher"}
      /\ cursor \in [Priority -> Nat]
      /\ providerInFlight \in [Providers -> Int]
      /\ tenantInFlight \in [Tenants -> Int]
      /\ inFlightCancel \subseteq Calls /\ toCancel \subseteq Calls
      /\ now \in Nat
  BY DEF Init
<1>4. /\ closed \in BOOLEAN /\ hasDeadlines \in BOOLEAN /\ woken \in BOOLEAN
      /\ ctxDone \in [Calls -> BOOLEAN] /\ runCanceled \in [Calls -> BOOLEAN]
      /\ closeCtxDone \in [Closers -> BOOLEAN]
  BY DEF Init
<1> QED  BY <1>1, <1>2, <1>3, <1>4 DEF Init, Shapes

\* Every step of the scheduler keeps every variable's shape.
LEMMA NextShapes == Shapes /\ [Next]_vars => Shapes'
<1> SUFFICES ASSUME Shapes, [Next]_vars PROVE Shapes'
  OBVIOUS
<1> USE RequestType DEF queueVars, resourceVars, runVars,
      dispatchVars, callVars, closeVars, envVars
<1>1. CASE Dispatcher
  BY <1>1 DEF Dispatcher, DispatchLock, DispatchUnlock, DispatchSelect, Shapes
<1>2. ASSUME NEW c \in Calls, Expire(c) PROVE Shapes'
  BY <1>2, RemoveShapes DEF Expire, Send, Shapes
<1>3. ASSUME NEW c \in Calls, Admit(c) PROVE Shapes'
  <2>1. PICK p \in Priority, d \in 0..(Len(tenantOrder) - 1) :
          removeFromQueue(c, [cursor EXCEPT
            ![p] = (RotationIndex(p, d) + 1) % Len(tenantOrder)])
    BY <1>3 DEF Admit
  <2>2. [cursor EXCEPT ![p] = (RotationIndex(p, d) + 1) % Len(tenantOrder)]
          \in [Priority -> Nat]
    <3>1. Len(tenantOrder) \in Nat /\ Len(tenantOrder) > 0
      BY LenProperties DEF Shapes
    <3>2. cursor \in [Priority -> Nat] /\ cursor[p] + d \in Nat
      BY <3>1 DEF Shapes
    <3>3. \A a, b \in Nat : b > 0 => a % b \in Nat
      OBVIOUS
    <3>4. RotationIndex(p, d) \in Nat
      BY <3>1, <3>2, <3>3 DEF RotationIndex
    <3>5. (RotationIndex(p, d) + 1) % Len(tenantOrder) \in Nat
      BY <3>1, <3>3, <3>4
    <3> QED  BY <3>2, <3>5
  <2>3. /\ queues' \in [Tenants -> [Priority -> Seq(Calls)]]
        /\ tenantOrder' \in Seq(Tenants) /\ cursor' \in [Priority -> Nat]
        /\ queuedTotal' \in Int /\ hasDeadlines' \in BOOLEAN
    BY <2>1, <2>2, RemoveShapes
  <2>4. /\ inFlight' \in Int /\ inFlightTokens' \in Int
        /\ inFlightCost' \in Int
        /\ providerInFlight' \in [Providers -> Int]
        /\ tenantInFlight' \in [Tenants -> Int]
    BY <1>3, SlotShapes DEF Admit
  <2> QED  BY <1>3, <2>3, <2>4 DEF Admit, Send, Shapes
<1>4. ASSUME NEW c \in Calls, SubmitDead(c) PROVE Shapes'
  BY <1>4 DEF SubmitDead, Shapes
<1>5. ASSUME NEW c \in Calls, EnqueueRefused(c) PROVE Shapes'
  BY <1>5 DEF EnqueueRefused, Refusal, Shapes
<1>6. ASSUME NEW c \in Calls, EnqueuePush(c) PROVE Shapes'
  <2>1. Request[c].prio \in Priority /\ Request[c].tenant \in Tenants
    BY <1>6 DEF EnqueuePush, Refusal
  <2>2. queues' \in [Tenants -> [Priority -> Seq(Calls)]]
    <3>1. queues \in [Tenants -> [Priority -> Seq(Calls)]]
      BY DEF Shapes
    <3>2. queues' = [queues EXCEPT ![Request[c].tenant][Request[c].prio] =
                       Append(queues[Request[c].tenant][Request[c].prio], c)]
      BY <1>6 DEF EnqueuePush, pushLocked
    <3>3. Append(queues[Request[c].tenant][Request[c].prio], c) \in Seq(Calls)
      BY <2>1, <3>1
    <3> QED  BY <2>1, <3>1, <3>2, <3>3
  <2>3. tenantOrder' \in Seq(Tenants)
    <3>1. tenantOrder \in Seq(Tenants)
      BY DEF Shapes
    <3>2. \/ tenantOrder' = tenantOrder
          \/ tenantOrder' = Append(tenantOrder, Request[c].tenant)
      BY <1>6 DEF EnqueuePush, pushLocked
    <3> QED  BY <2>1, <3>1, <3>2
  <2>4. cursor' = cursor /\ queuedTotal' \in Int /\ hasDeadlines' \in BOOLEAN
    BY <1>6 DEF EnqueuePush, pushLocked, Shapes
  <2> QED  BY <1>6, <2>2, <2>3, <2>4 DEF EnqueuePush, Shapes
<1>7. ASSUME NEW c \in Calls, EnqueueFull(c) PROVE Shapes'
  BY <1>7, RemoveShapes DEF EnqueueFull, Shapes
<1>8. ASSUME NEW c \in Calls, EnqueueDone(c) PROVE Shapes'
  BY <1>8 DEF EnqueueDone, Shapes
<1>9. ASSUME NEW c \in Calls, ReceiveOutcome(c) PROVE Shapes'
  <2>1. CASE admitted[c] = "ok"
    BY <1>9, <2>1 DEF ReceiveOutcome, Shapes
  <2>2. CASE admitted[c] # "ok"
    <3>1. admitted[c] \in {"rejected", "shutdown"}
      BY <1>9, <2>2 DEF ReceiveOutcome, Shapes
    <3>2. result' = [result EXCEPT ![c] = admitted[c]]
      BY <1>9, <2>2 DEF ReceiveOutcome
    <3>3. result' \in [Calls -> {"none", "invalid", "rejected", "shutdown",
                               "canceled", "ran"}]
      BY <3>1, <3>2 DEF Shapes
    <3> QED  BY <1>9, <2>2, <3>3 DEF ReceiveOutcome, Shapes
  <2> QED  BY <2>1, <2>2
<1>10. ASSUME NEW c \in Calls, CtxWins(c) PROVE Shapes'
  BY <1>10 DEF CtxWins, Shapes
<1>11. ASSUME NEW c \in Calls, CancelWaiter(c) PROVE Shapes'
  BY <1>11, RemoveShapes DEF CancelWaiter, Shapes
<1>12. ASSUME NEW c \in Calls, ReleaseReservationOnly(c) PROVE Shapes'
  <2>1. /\ inFlight' \in Int /\ inFlightTokens' \in Int
        /\ inFlightCost' \in Int
        /\ providerInFlight' \in [Providers -> Int]
        /\ tenantInFlight' \in [Tenants -> Int]
    BY <1>12, SlotShapes DEF ReleaseReservationOnly
  <2> QED  BY <1>12, <2>1 DEF ReleaseReservationOnly, Shapes
<1>13. ASSUME NEW c \in Calls, RegisterInFlight(c) PROVE Shapes'
  <2>1. CASE closed
    BY <1>13, <2>1 DEF RegisterInFlight, Shapes
  <2>2. CASE ~closed
    <3>0. inFlightCancel \subseteq Calls /\ wg \in Int
      BY DEF Shapes
    <3>1. inFlightCancel' \subseteq Calls /\ wg' \in Int /\ result' = result
      BY <1>13, <2>2, <3>0 DEF RegisterInFlight
    <3> QED  BY <1>13, <2>2, <3>1 DEF RegisterInFlight, Shapes
  <2> QED  BY <2>1, <2>2
<1>14. ASSUME NEW c \in Calls, RunReturns(c) PROVE Shapes'
  BY <1>14 DEF RunReturns, Shapes
<1>15. ASSUME NEW c \in Calls, Release(c) PROVE Shapes'
  <2>1. /\ inFlight' \in Int /\ inFlightTokens' \in Int
        /\ inFlightCost' \in Int
        /\ providerInFlight' \in [Providers -> Int]
        /\ tenantInFlight' \in [Tenants -> Int]
    BY <1>15, SlotShapes DEF Release
  <2> QED  BY <1>15, <2>1 DEF Release, Shapes
<1>16. ASSUME NEW c \in Calls, WgDone(c) PROVE Shapes'
  BY <1>16 DEF WgDone, Shapes
<1>17. ASSUME NEW c \in Calls, CtxEnds(c) PROVE Shapes'
  BY <1>17 DEF CtxEnds, Shapes
<1>18. ASSUME NEW k \in Closers, CloseFirst(k) PROVE Shapes'
  BY <1>18 DEF CloseFirst, Shapes
<1>19. ASSUME NEW k \in Closers, NEW c \in Calls, CloseCancel(k, c)
       PROVE Shapes'
  BY <1>19 DEF CloseCancel, Shapes
<1>20. ASSUME NEW k \in Closers,
              CloseStartDrain(k) \/ CloseAgain(k) \/ AwaitDrain(k)
       PROVE Shapes'
  <2>1. CASE CloseStartDrain(k)
    BY <2>1 DEF CloseStartDrain, Shapes
  <2>2. CASE CloseAgain(k)
    BY <2>2 DEF CloseAgain, Shapes
  <2>3. CASE AwaitDrain(k)
    BY <2>3 DEF AwaitDrain, CloseReturn, Shapes
  <2> QED  BY <1>20, <2>1, <2>2, <2>3
<1>21. ASSUME NEW k \in Closers, CloseCtxEnds(k) PROVE Shapes'
  BY <1>21 DEF CloseCtxEnds, Shapes
<1>22. CASE Drain \/ Tick
  BY <1>22 DEF Drain, Tick, Shapes
<1>23. CASE UNCHANGED vars
  BY <1>23 DEF vars, Shapes
<1> QED
  BY <1>1, <1>2, <1>3, <1>4, <1>5, <1>6, <1>7, <1>8, <1>9, <1>10, <1>11,
     <1>12, <1>13, <1>14, <1>15, <1>16, <1>17, <1>18, <1>19, <1>20, <1>21,
     <1>22, <1>23
  DEF Next, Locked, SubmitStep, CloseStep, Terminated

-----------------------------------------------------------------------------
\* A call leaves its queue: it alone is no longer queued.
LEMMA RemoveEffect ==
  ASSUME Shapes, QueueWellFormed, NEW c \in Calls, NEW at,
         removeFromQueue(c, at)
  PROVE  /\ QueueWellFormed'
         /\ c \in QueuedCalls /\ QueuedCalls' = QueuedCalls \ {c}
         /\ queuedTotal' = queuedTotal - 1
<1> DEFINE t == Request[c].tenant
           p == Request[c].prio
           s == queues[t][p]
<1>1. PICK k \in QueuePositions(c) :
        queues' = [queues EXCEPT ![t][p] = RemoveAt(@, k)]
  BY DEF removeFromQueue
<1>2. t \in Tenants /\ p \in Priority /\ k \in 1..Len(s) /\ s[k] = c
  BY <1>1, RequestType DEF QueuePositions, Waiting
<1>3. queues \in [Tenants -> [Priority -> Seq(Calls)]] /\ s \in Seq(Calls)
  BY <1>2 DEF Shapes
<1>4. /\ RemoveAt(s, k) \in Seq(Calls)
      /\ Len(RemoveAt(s, k)) = Len(s) - 1 /\ Len(s) \in Nat
      /\ \A j \in 1..(Len(s) - 1) :
           RemoveAt(s, k)[j] = IF j < k THEN s[j] ELSE s[j + 1]
  BY <1>2, <1>3, RemoveAtProperties, LenProperties
<1>5. /\ queues'[t][p] = RemoveAt(s, k)
      /\ \A u \in Tenants, q \in Priority :
           u # t \/ q # p => queues'[u][q] = queues[u][q]
  BY <1>1, <1>2, <1>3
<1>6. \A i, j \in 1..Len(s) : s[i] = s[j] => i = j
  BY <1>2 DEF QueueWellFormed, Waiting
<1>7. \A j \in 1..Len(s) : Request[s[j]].tenant = t /\ Request[s[j]].prio = p
  BY <1>2 DEF QueueWellFormed, Waiting
<1>8. c \in QueuedCalls
  BY <1>1 DEF QueuedCalls, Queued
<1> HIDE DEF t, p, s
<1>9. QueueWellFormed'
  <2> SUFFICES ASSUME NEW u \in Tenants, NEW q \in Priority
               PROVE  /\ \A j \in 1..Len(queues'[u][q]) :
                           /\ Request[queues'[u][q][j]].tenant = u
                           /\ Request[queues'[u][q][j]].prio = q
                      /\ \A i, j \in 1..Len(queues'[u][q]) :
                           queues'[u][q][i] = queues'[u][q][j] => i = j
    BY DEF QueueWellFormed, Waiting
  <2>1. CASE u = t /\ q = p
    <3>1. queues'[u][q] = RemoveAt(s, k)
      BY <1>5, <2>1
    <3>2. ASSUME NEW j \in 1..(Len(s) - 1)
          PROVE  /\ j \in 1..Len(s) /\ j + 1 \in 1..Len(s)
                 /\ j < k => RemoveAt(s, k)[j] = s[j]
                 /\ ~(j < k) => RemoveAt(s, k)[j] = s[j + 1]
      <4>1. Len(s) \in Nat
        BY <1>2, LenProperties
      <4>2. j \in 1..Len(s) /\ j + 1 \in 1..Len(s)
        BY <4>1
      <4>3. RemoveAt(s, k)[j] = IF j < k THEN s[j] ELSE s[j + 1]
        BY <1>4
      <4> QED  BY <4>2, <4>3
    <3>3. \A j \in 1..(Len(s) - 1) :
            /\ Request[RemoveAt(s, k)[j]].tenant = t
            /\ Request[RemoveAt(s, k)[j]].prio = p
      BY <1>7, <3>2
    <3>4. \A i, j \in 1..(Len(s) - 1) :
            RemoveAt(s, k)[i] = RemoveAt(s, k)[j] => i = j
      BY <1>2, <1>6, <3>2
    <3> QED  BY <1>4, <2>1, <3>1, <3>3, <3>4
  <2>2. CASE u # t \/ q # p
    BY <1>5, <2>2 DEF QueueWellFormed, Waiting
  <2> QED  BY <2>1, <2>2
<1>10. ASSUME NEW d \in Calls PROVE d \in QueuedCalls' <=> d \in QueuedCalls \ {c}
  <2>1. CASE Request[d].prio \notin Priority
    BY <2>1 DEF QueuedCalls, Queued, QueuePositions
  <2>2. CASE Request[d].prio \in Priority /\ ~(Request[d].tenant = t /\ Request[d].prio = p)
    <3>1. queues'[Request[d].tenant][Request[d].prio]
            = queues[Request[d].tenant][Request[d].prio]
      BY <1>5, <2>2, RequestType
    <3>2. d # c
      BY <2>2 DEF t, p
    <3> QED  BY <3>1, <3>2 DEF QueuedCalls, Queued, QueuePositions, Waiting
  <2>3. CASE Request[d].tenant = t /\ Request[d].prio = p
    <3>1. d \in QueuedCalls <=> \E j \in 1..Len(s) : s[j] = d
      BY <1>2, <2>3 DEF QueuedCalls, Queued, QueuePositions, Waiting, s
    <3>2. d \in QueuedCalls' <=> \E j \in 1..(Len(s) - 1) : RemoveAt(s, k)[j] = d
      BY <1>2, <1>4, <1>5, <2>3 DEF QueuedCalls, Queued, QueuePositions, Waiting
    <3>3. CASE d = c
      BY <1>2, <1>4, <1>6, <3>2, <3>3
    <3>4. ASSUME d # c, NEW j \in 1..Len(s), s[j] = d
          PROVE  \E i \in 1..(Len(s) - 1) : RemoveAt(s, k)[i] = d
      <4>1. CASE j < k
        BY <1>2, <1>4, <3>4, <4>1
      <4>2. CASE j > k
        <5>1. j - 1 \in 1..(Len(s) - 1) /\ ~(j - 1 < k) /\ (j - 1) + 1 = j
          BY <1>2, <1>4, <4>2
        <5>2. RemoveAt(s, k)[j - 1] = d
          BY <1>4, <3>4, <5>1
        <5> QED  BY <5>1, <5>2
      <4>3. j # k
        BY <1>2, <3>4
      <4> QED  BY <1>2, <1>4, <4>1, <4>2, <4>3
    <3>5. ASSUME d # c, NEW i \in 1..(Len(s) - 1), RemoveAt(s, k)[i] = d
          PROVE  \E j \in 1..Len(s) : s[j] = d
      BY <1>2, <1>4, <3>5
    <3> QED  BY <3>1, <3>2, <3>3, <3>4, <3>5
  <2> QED  BY <2>1, <2>2, <2>3
<1>11. QueuedCalls' = QueuedCalls \ {c}
  BY <1>10 DEF QueuedCalls
<1> QED  BY <1>8, <1>9, <1>11 DEF removeFromQueue

\* A call joins its queue: it alone is queued besides those that were.
LEMMA PushEffect ==
  ASSUME Shapes, QueueWellFormed, NEW c \in Calls, Request[c].prio \in Priority,
         c \notin QueuedCalls, pushLocked(c)
  PROVE  /\ QueueWellFormed'
         /\ QueuedCalls' = QueuedCalls \cup {c}
         /\ queuedTotal' = queuedTotal + 1
<1> DEFINE t == Request[c].tenant
           p == Request[c].prio
           s == queues[t][p]
<1>1. t \in Tenants /\ p \in Priority
  BY RequestType
<1>2. queues \in [Tenants -> [Priority -> Seq(Calls)]] /\ s \in Seq(Calls)
  BY <1>1 DEF Shapes
<1>3. /\ Len(s) \in Nat /\ Len(Append(s, c)) = Len(s) + 1
      /\ Append(s, c)[Len(s) + 1] = c
      /\ \A j \in 1..Len(s) : Append(s, c)[j] = s[j]
  <2> HIDE DEF s
  <2> QED  BY <1>2, LenProperties
<1>4. /\ queues'[t][p] = Append(s, c)
      /\ \A u \in Tenants, q \in Priority :
           u # t \/ q # p => queues'[u][q] = queues[u][q]
  BY <1>1, <1>2 DEF pushLocked
<1>5. /\ \A i, j \in 1..Len(s) : s[i] = s[j] => i = j
      /\ \A j \in 1..Len(s) : Request[s[j]].tenant = t /\ Request[s[j]].prio = p
  BY <1>1 DEF QueueWellFormed, Waiting
<1>6. \A j \in 1..Len(s) : s[j] # c
  BY <1>1 DEF QueuedCalls, Queued, QueuePositions, Waiting
<1>7. Request[c].tenant = t /\ Request[c].prio = p
  OBVIOUS
<1> HIDE DEF t, p, s
<1>8. QueueWellFormed'
  <2> SUFFICES ASSUME NEW u \in Tenants, NEW q \in Priority
               PROVE  /\ \A j \in 1..Len(queues'[u][q]) :
                           /\ Request[queues'[u][q][j]].tenant = u
                           /\ Request[queues'[u][q][j]].prio = q
                      /\ \A i, j \in 1..Len(queues'[u][q]) :
                           queues'[u][q][i] = queues'[u][q][j] => i = j
    BY DEF QueueWellFormed, Waiting
  <2>1. CASE u = t /\ q = p
    <3>1. queues'[u][q] = Append(s, c)
      BY <1>4, <2>1
    <3> HIDE DEF QueueWellFormed
    <3>2. ASSUME NEW j \in 1..Len(Append(s, c))
          PROVE  j \in 1..Len(s) \/ j = Len(s) + 1
      BY <1>3
    <3> QED  BY <1>3, <1>5, <1>6, <1>7, <2>1, <3>1, <3>2
  <2>2. CASE u # t \/ q # p
    BY <1>4, <2>2 DEF QueueWellFormed, Waiting
  <2> QED  BY <2>1, <2>2
<1>9. ASSUME NEW d \in Calls PROVE d \in QueuedCalls' <=> d \in QueuedCalls \cup {c}
  <2>1. CASE Request[d].prio \notin Priority
    BY <1>1, <1>7, <2>1 DEF QueuedCalls, Queued, QueuePositions
  <2>2. CASE Request[d].prio \in Priority /\ ~(Request[d].tenant = t /\ Request[d].prio = p)
    <3>1. queues'[Request[d].tenant][Request[d].prio]
            = queues[Request[d].tenant][Request[d].prio]
      BY <1>4, <2>2, RequestType
    <3>2. d # c
      BY <2>2, <1>7
    <3> QED  BY <3>1, <3>2 DEF QueuedCalls, Queued, QueuePositions, Waiting
  <2>3. CASE Request[d].tenant = t /\ Request[d].prio = p
    <3>1. d \in QueuedCalls <=> \E j \in 1..Len(s) : s[j] = d
      BY <1>1, <2>3 DEF QueuedCalls, Queued, QueuePositions, Waiting, s
    <3>2. d \in QueuedCalls' <=> \E j \in 1..(Len(s) + 1) : Append(s, c)[j] = d
      <4>1. /\ Request[d].prio \in Priority
            /\ queues'[Request[d].tenant][Request[d].prio] = Append(s, c)
        BY <1>1, <1>4, <2>3
      <4> QED  BY <1>3, <4>1 DEF QueuedCalls, Queued, QueuePositions, Waiting
    <3> QED  BY <1>3, <3>1, <3>2
  <2> QED  BY <2>1, <2>2, <2>3
<1> QED  BY <1>8, <1>9 DEF pushLocked, QueuedCalls

-----------------------------------------------------------------------------
\* Joining the queue keeps the rotation exact.
LEMMA PushRotation ==
  ASSUME Shapes, RotationExact, NEW c \in Calls, Request[c].prio \in Priority,
         pushLocked(c), closed' = closed
  PROVE  RotationExact'
<1> SUFFICES ASSUME ~closed PROVE RotationExact'
  BY DEF RotationExact
<1> DEFINE t == Request[c].tenant
           p == Request[c].prio
<1>1. t \in Tenants /\ p \in Priority
  BY RequestType
<1>2. /\ queues \in [Tenants -> [Priority -> Seq(Calls)]]
      /\ tenantOrder \in Seq(Tenants) /\ Len(tenantOrder) \in Nat
  BY LenProperties DEF Shapes
<1>3. /\ \A u \in Tenants :
           InRotation(u) <=> \E q \in Priority : queues[u][q] # <<>>
      /\ RotationOnce
  BY DEF RotationExact
<1>4. /\ queues'[t][p] = Append(queues[t][p], c)
      /\ \A u \in Tenants, q \in Priority : u # t => queues'[u][q] = queues[u][q]
  BY <1>1, <1>2 DEF pushLocked
<1>5. queues'[t][p] # <<>>
  <2>1. queues[t][p] \in Seq(Calls)
    BY <1>1, <1>2
  <2> HIDE DEF t, p
  <2> QED  BY <1>4, <2>1
<1>6. CASE InRotation(t)
  <2>1. tenantOrder' = tenantOrder
    BY <1>6 DEF pushLocked, InRotation
  <2>2. \A u \in Tenants : InRotation(u)' <=> InRotation(u)
    BY <2>1 DEF InRotation
  <2>3. RotationOnce'
    BY <1>3, <2>1 DEF RotationOnce
  <2> HIDE DEF t, p
  <2>4. \A u \in Tenants :
          InRotation(u)' <=> \E q \in Priority : queues'[u][q] # <<>>
    BY <1>1, <1>3, <1>4, <1>5, <1>6, <2>2
  <2> QED  BY <2>3, <2>4 DEF RotationExact
<1>7. CASE ~InRotation(t)
  <2>1. tenantOrder' = Append(tenantOrder, t)
    BY <1>7 DEF pushLocked, InRotation
  <2>2. /\ Len(tenantOrder') = Len(tenantOrder) + 1
        /\ tenantOrder'[Len(tenantOrder) + 1] = t
        /\ \A i \in 1..Len(tenantOrder) : tenantOrder'[i] = tenantOrder[i]
    <3> HIDE DEF t
    <3> QED  BY <1>1, <1>2, <2>1
  <2> HIDE DEF t, p
  <2>3. \A u \in Tenants : InRotation(u)' <=> InRotation(u) \/ u = t
    <3>1. 1..(Len(tenantOrder) + 1)
            = (1..Len(tenantOrder)) \cup {Len(tenantOrder) + 1}
      BY <1>2
    <3> QED  BY <2>2, <3>1 DEF InRotation
  <2>4. RotationOnce'
    BY <1>2, <1>3, <1>7, <2>2 DEF RotationOnce, InRotation
  <2>5. \A u \in Tenants :
          InRotation(u)' <=> \E q \in Priority : queues'[u][q] # <<>>
    BY <1>1, <1>3, <1>4, <1>5, <2>3
  <2> QED  BY <2>4, <2>5 DEF RotationExact
<1> QED  BY <1>6, <1>7

\* Leaving the queue keeps the rotation exact.
LEMMA RemoveRotation ==
  ASSUME Shapes, RotationExact, NEW c \in Calls, NEW at,
         removeFromQueue(c, at), closed' = closed
  PROVE  RotationExact'
<1> SUFFICES ASSUME ~closed PROVE RotationExact'
  BY DEF RotationExact
<1> DEFINE t == Request[c].tenant
           p == Request[c].prio
<1>1. PICK k \in QueuePositions(c) :
        queues' = [queues EXCEPT ![t][p] = RemoveAt(@, k)]
  BY DEF removeFromQueue
<1>2. t \in Tenants /\ p \in Priority /\ k \in 1..Len(queues[t][p])
  BY <1>1, RequestType DEF QueuePositions, Waiting
<1>3. /\ queues \in [Tenants -> [Priority -> Seq(Calls)]]
      /\ tenantOrder \in Seq(Tenants) /\ Len(tenantOrder) \in Nat
  BY LenProperties DEF Shapes
<1>4. /\ \A u \in Tenants :
           InRotation(u) <=> \E q \in Priority : queues[u][q] # <<>>
      /\ RotationOnce
  BY DEF RotationExact
<1>5. \A u \in Tenants, q \in Priority : u # t => queues'[u][q] = queues[u][q]
  BY <1>1, <1>2, <1>3
<1>6. InRotation(t)
  <2>1. queues[t][p] # <<>>
    BY <1>2, <1>3
  <2> QED  BY <1>2, <1>4, <2>1
<1>7. dropIdleTenant(t, at)
  BY DEF removeFromQueue
<1> HIDE DEF t, p
<1>8. CASE \E q \in Priority : queues'[t][q] # <<>>
  <2>1. tenantOrder' = tenantOrder
    BY <1>7, <1>8 DEF dropIdleTenant
  <2> QED  BY <1>2, <1>4, <1>5, <1>6, <1>8, <2>1
           DEF RotationExact, InRotation, RotationOnce
<1>9. CASE ~ \E q \in Priority : queues'[t][q] # <<>>
  <2>1. PICK i \in 1..Len(tenantOrder) :
          tenantOrder[i] = t /\ tenantOrder' = RemoveAt(tenantOrder, i)
    BY <1>7, <1>9 DEF dropIdleTenant
  <2>2. /\ Len(tenantOrder') = Len(tenantOrder) - 1
        /\ \A j \in 1..(Len(tenantOrder) - 1) :
             tenantOrder'[j] = IF j < i THEN tenantOrder[j] ELSE tenantOrder[j + 1]
    BY <1>3, <2>1, RemoveAtProperties
  <2>3. ASSUME NEW j \in 1..(Len(tenantOrder) - 1)
        PROVE  /\ j \in 1..Len(tenantOrder) /\ j + 1 \in 1..Len(tenantOrder)
               /\ j < i => tenantOrder'[j] = tenantOrder[j]
               /\ ~(j < i) => tenantOrder'[j] = tenantOrder[j + 1]
    BY <1>3, <2>2
  <2>4. RotationOnce'
    BY <1>4, <2>2, <2>3 DEF RotationOnce
  <2>5. ~InRotation(t)'
    BY <1>4, <2>1, <2>2, <2>3 DEF RotationOnce, InRotation
  <2>6. ASSUME NEW u \in Tenants, u # t PROVE InRotation(u)' <=> InRotation(u)
    <3>1. ASSUME NEW j \in 1..Len(tenantOrder), tenantOrder[j] = u
          PROVE  InRotation(u)'
      <4>1. CASE j < i
        <5>1. j \in 1..(Len(tenantOrder) - 1)
          BY <1>3, <2>1, <4>1
        <5>2. tenantOrder'[j] = u
          BY <2>3, <3>1, <4>1, <5>1
        <5> QED  BY <2>2, <5>1, <5>2 DEF InRotation
      <4>2. CASE j > i
        <5>1. j - 1 \in 1..(Len(tenantOrder) - 1) /\ ~(j - 1 < i)
              /\ (j - 1) + 1 = j
          BY <1>3, <2>1, <4>2
        <5>2. tenantOrder'[j - 1] = u
          BY <2>3, <3>1, <5>1
        <5> QED  BY <2>2, <5>1, <5>2 DEF InRotation
      <4>3. j # i
        BY <2>1, <2>6, <3>1
      <4> QED  BY <1>3, <4>1, <4>2, <4>3
    <3>2. ASSUME InRotation(u)' PROVE InRotation(u)
      BY <2>2, <2>3, <3>2 DEF InRotation
    <3> QED  BY <3>1, <3>2 DEF InRotation
  <2>7. \A u \in Tenants :
          InRotation(u)' <=> \E q \in Priority : queues'[u][q] # <<>>
    BY <1>4, <1>5, <1>9, <2>5, <2>6
  <2> QED  BY <2>4, <2>7 DEF RotationExact
<1> QED  BY <1>8, <1>9

-----------------------------------------------------------------------------
\* A set of calls is finite, and counted one by one.
LEMMA FiniteCalls ==
  ASSUME NEW S \in SUBSET Calls
  PROVE  IsFiniteSet(S) /\ Cardinality(S) \in Nat
BY SchedulerConstants, FS_Subset, FS_CardinalityType

\* Only calls are queued.
LEMMA QueuedIn == QueuedCalls \subseteq Calls /\ QueuedCalls' \subseteq Calls
BY DEF QueuedCalls

\* Steps that leave the queue and the rotation alone.
LEMMA QueueUntouched ==
  ASSUME QueueInv, UNCHANGED <<queues, tenantOrder, queuedTotal, closed>>
  PROVE  /\ QueueWellFormed' /\ QueuedCalls' = QueuedCalls
         /\ queuedTotal' = Cardinality(QueuedCalls') /\ RotationExact'
<1>1. QueueWellFormed'
  BY DEF QueueInv, QueueWellFormed, Waiting
<1>2. QueuedCalls' = QueuedCalls
  BY DEF QueuedCalls, Queued, QueuePositions, Waiting
<1>3. RotationExact'
  BY DEF QueueInv, RotationExact, InRotation, RotationOnce
<1> QED  BY <1>1, <1>2, <1>3 DEF QueueInv

\* A step that takes one call out of the queue.
LEMMA QueueLeft ==
  ASSUME Shapes, QueueInv, NEW c \in Calls, NEW at, removeFromQueue(c, at),
         closed' = closed
  PROVE  /\ QueueWellFormed' /\ c \in QueuedCalls
         /\ QueuedCalls' = QueuedCalls \ {c}
         /\ queuedTotal' = Cardinality(QueuedCalls') /\ RotationExact'
<1>1. /\ QueueWellFormed' /\ c \in QueuedCalls
      /\ QueuedCalls' = QueuedCalls \ {c} /\ queuedTotal' = queuedTotal - 1
  BY RemoveEffect DEF QueueInv
<1>2. RotationExact'
  BY RemoveRotation DEF QueueInv
<1>3. Cardinality(QueuedCalls \ {c}) = Cardinality(QueuedCalls) - 1
  BY <1>1, QueuedIn, FiniteCalls, FS_RemoveElement
<1> QED  BY <1>1, <1>2, <1>3 DEF QueueInv

\* A new scheduler's queue is empty.
LEMMA InitQueueInv == Init => QueueInv
<1> SUFFICES ASSUME Init PROVE QueueInv
  OBVIOUS
<1>1. \A t \in Tenants, p \in Priority : queues[t][p] = <<>> /\ Waiting(t, p) = {}
  BY DEF Init, Waiting
<1>2. QueuedCalls = {}
  BY <1>1, RequestType DEF QueuedCalls, Queued, QueuePositions
<1>3. Cardinality(QueuedCalls) = 0
  BY <1>2, FS_EmptySet
<1>4. RotationExact
  BY <1>1 DEF Init, RotationExact, InRotation, RotationOnce
<1> QED  BY <1>1, <1>2, <1>3, <1>4
         DEF Init, QueueInv, QueueWellFormed, QueuedSilent, AnswerPending,
             Answerable

\* Every step keeps the queue, its answers and the rotation in order.
LEMMA NextQueueInv == Shapes /\ QueueInv /\ [Next]_vars => QueueInv'
<1> SUFFICES ASSUME Shapes, QueueInv, [Next]_vars PROVE QueueInv'
  OBVIOUS
<1> USE DEF queueVars, closeVars
<1>0. /\ QueuedSilent /\ AnswerPending /\ Answerable /\ QueuedCalls \subseteq Calls
      /\ pc \in [Calls -> {"start", "enqueue", "wait", "cancel", "undo",
                       "register", "run", "release", "wgdone", "done"}]
      /\ admitted \in [Calls -> {"none", "ok", "rejected", "shutdown"}]
  BY QueuedIn DEF QueueInv, Shapes
\* Steps that leave the queue, the answers and the place of every call alone.
<1>1. ASSUME UNCHANGED <<queues, tenantOrder, queuedTotal, closed, pc, admitted>>
      PROVE  QueueInv'
  BY <1>0, <1>1, QueueUntouched
  DEF QueueInv, QueuedSilent, AnswerPending, Answerable
\* Steps of a call that is not queued and has no answer, past its select.
<1>2. ASSUME NEW c \in Calls, NEW next \in {"undo", "run", "release", "wgdone", "done"},
             UNCHANGED <<queues, tenantOrder, queuedTotal, closed, admitted>>,
             pc[c] \in {"start", "undo", "register", "run", "release", "wgdone"},
             pc' = [pc EXCEPT ![c] = next]
      PROVE  QueueInv'
  <2>1. c \notin QueuedCalls /\ admitted[c] = "none"
    BY <1>0, <1>2 DEF QueuedSilent, AnswerPending
  <2> QED  BY <1>0, <1>2, <2>1, QueueUntouched
           DEF QueueInv, QueuedSilent, AnswerPending, Answerable
<1>3. CASE Dispatcher \/ Drain \/ Tick
  BY <1>1, <1>3
  DEF Dispatcher, DispatchLock, DispatchUnlock, DispatchSelect, Drain, Tick,
      callVars
<1>4. ASSUME NEW c \in Calls, Expire(c) PROVE QueueInv'
  <2>1. removeFromQueue(c, cursor) /\ closed' = closed /\ pc' = pc
        /\ admitted' = [admitted EXCEPT ![c] = "rejected"]
    BY <1>4 DEF Expire, Send
  <2> QED  BY <1>0, <2>1, QueueLeft
           DEF QueueInv, QueuedSilent, AnswerPending, Answerable
<1>5. ASSUME NEW c \in Calls, Admit(c) PROVE QueueInv'
  <2>1. PICK at : removeFromQueue(c, at)
    BY <1>5 DEF Admit
  <2>2. closed' = closed /\ pc' = pc
        /\ admitted' = [admitted EXCEPT ![c] = "ok"]
    BY <1>5 DEF Admit, Send
  <2> QED  BY <1>0, <2>1, <2>2, QueueLeft
           DEF QueueInv, QueuedSilent, AnswerPending, Answerable
<1>6. ASSUME NEW c \in Calls,
             SubmitDead(c) \/ EnqueueRefused(c) \/ ReleaseReservationOnly(c)
             \/ RunReturns(c) \/ Release(c) \/ WgDone(c)
      PROVE  QueueInv'
  BY <1>2, <1>6
  DEF SubmitDead, EnqueueRefused, ReleaseReservationOnly, RunReturns, Release,
      WgDone
<1>7. ASSUME NEW c \in Calls, RegisterInFlight(c) PROVE QueueInv'
  BY <1>2, <1>7 DEF RegisterInFlight
<1>8. ASSUME NEW c \in Calls, EnqueuePush(c) PROVE QueueInv'
  <2>1. /\ pc[c] = "start" /\ pc' = [pc EXCEPT ![c] = "enqueue"]
        /\ admitted' = admitted /\ closed' = closed /\ pushLocked(c)
    BY <1>8 DEF EnqueuePush
  <2>2. Request[c].prio \in Priority
    BY <1>8 DEF EnqueuePush, Refusal
  <2>3. c \notin QueuedCalls /\ admitted[c] = "none"
    BY <1>0, <2>1 DEF QueuedSilent, AnswerPending
  <2>4. /\ QueueWellFormed' /\ QueuedCalls' = QueuedCalls \cup {c}
        /\ queuedTotal' = queuedTotal + 1
    BY <2>1, <2>2, <2>3, PushEffect DEF QueueInv
  <2>5. RotationExact'
    BY <2>1, <2>2, PushRotation DEF QueueInv
  <2>6. queuedTotal' = Cardinality(QueuedCalls')
    BY <1>0, <2>3, <2>4, FiniteCalls, FS_AddElement DEF QueueInv
  <2> QED  BY <1>0, <2>1, <2>3, <2>4, <2>5, <2>6
           DEF QueueInv, QueuedSilent, AnswerPending, Answerable
<1>9. ASSUME NEW c \in Calls, EnqueueFull(c) PROVE QueueInv'
  <2>1. /\ removeFromQueue(c, cursor) /\ closed' = closed
        /\ pc' = [pc EXCEPT ![c] = "done"] /\ admitted' = admitted
        /\ admitted[c] = "none"
    BY <1>9 DEF EnqueueFull, OverQueue
  <2> QED  BY <1>0, <2>1, QueueLeft
           DEF QueueInv, QueuedSilent, AnswerPending, Answerable
<1>10. ASSUME NEW c \in Calls, EnqueueDone(c) PROVE QueueInv'
  <2>1. /\ UNCHANGED <<queues, tenantOrder, queuedTotal, closed, admitted>>
        /\ pc[c] = "enqueue" /\ pc' = [pc EXCEPT ![c] = "wait"]
    BY <1>10 DEF EnqueueDone
  <2> QED  BY <1>0, <2>1, QueueUntouched
           DEF QueueInv, QueuedSilent, AnswerPending, Answerable
<1>11. ASSUME NEW c \in Calls, ReceiveOutcome(c) PROVE QueueInv'
  <2>1. /\ UNCHANGED <<queues, tenantOrder, queuedTotal, closed>>
        /\ admitted[c] # "none" /\ admitted' = [admitted EXCEPT ![c] = "none"]
        /\ \/ pc' = [pc EXCEPT ![c] = "register"]
           \/ pc' = [pc EXCEPT ![c] = "done"]
    BY <1>11 DEF ReceiveOutcome
  <2>2. c \notin QueuedCalls
    BY <1>0, <2>1 DEF QueuedSilent
  <2> QED  BY <1>0, <2>1, <2>2, QueueUntouched
           DEF QueueInv, QueuedSilent, AnswerPending, Answerable
<1>12. ASSUME NEW c \in Calls, CtxWins(c) PROVE QueueInv'
  <2>1. /\ UNCHANGED <<queues, tenantOrder, queuedTotal, closed, admitted>>
        /\ pc' = [pc EXCEPT ![c] = "cancel"]
    BY <1>12 DEF CtxWins
  <2> QED  BY <1>0, <2>1, QueueUntouched
           DEF QueueInv, QueuedSilent, AnswerPending, Answerable
<1>13. ASSUME NEW c \in Calls, CancelWaiter(c) PROVE QueueInv'
  <2>1. /\ closed' = closed /\ admitted' = [admitted EXCEPT ![c] = "none"]
        /\ \/ pc' = [pc EXCEPT ![c] = "undo"]
           \/ pc' = [pc EXCEPT ![c] = "done"]
    BY <1>13 DEF CancelWaiter
  <2>2. CASE c \in QueuedCalls
    <3>1. removeFromQueue(c, cursor)
      BY <1>13, <2>2 DEF CancelWaiter, QueuedCalls
    <3> QED  BY <1>0, <2>1, <3>1, QueueLeft
             DEF QueueInv, QueuedSilent, AnswerPending, Answerable
  <2>3. CASE c \notin QueuedCalls
    <3>1. UNCHANGED <<queues, tenantOrder, queuedTotal>>
      BY <1>13, <2>3 DEF CancelWaiter, QueuedCalls
    <3> QED  BY <1>0, <2>1, <2>3, <3>1, QueueUntouched
             DEF QueueInv, QueuedSilent, AnswerPending, Answerable
  <2> QED  BY <2>2, <2>3
<1>14. ASSUME NEW k \in Closers, CloseFirst(k) PROVE QueueInv'
  <2>1. /\ ~closed /\ closed' /\ pc' = pc /\ queuedTotal' = 0
        /\ queues' = [t \in Tenants |-> [p \in Priority |-> <<>>]]
        /\ admitted' =
             [c \in Calls |-> IF c \in ToRefuse THEN "shutdown" ELSE admitted[c]]
    BY <1>14 DEF CloseFirst
  <2>2. \A t \in Tenants, p \in Priority : queues'[t][p] = <<>> /\ Waiting(t, p)' = {}
    BY <2>1 DEF Waiting
  <2>3. QueuedCalls' = {}
    BY <2>2, RequestType DEF QueuedCalls, Queued, QueuePositions
  <2>4. QueueWellFormed'
    BY <2>2 DEF QueueWellFormed
  <2>5. queuedTotal' = Cardinality(QueuedCalls')
    BY <2>1, <2>3, FS_EmptySet
  <2>6. ASSUME NEW c \in QueuedCalls PROVE c \in ToRefuse
    <3>1. /\ c \in Calls /\ Queued(c) /\ Request[c].prio \in Priority
          /\ Waiting(Request[c].tenant, Request[c].prio) # {}
      BY <2>6 DEF QueuedCalls, Queued, QueuePositions
    <3>2. queues[Request[c].tenant][Request[c].prio] # <<>>
      BY <3>1 DEF Waiting
    <3>3. InRotation(Request[c].tenant)
      BY <2>1, <3>1, <3>2, RequestType DEF QueueInv, RotationExact
    <3> QED  BY <3>1, <3>3 DEF ToRefuse, InRotation
  <2>7. ToRefuse \subseteq QueuedCalls
    BY DEF ToRefuse, QueuedCalls
  <2>8. AnswerPending' /\ Answerable' /\ QueuedSilent'
    BY <1>0, <2>1, <2>3, <2>6, <2>7 DEF AnswerPending, Answerable, QueuedSilent
  <2>9. RotationExact'
    BY <2>1 DEF RotationExact
  <2> QED  BY <2>4, <2>5, <2>8, <2>9 DEF QueueInv
<1>15. ASSUME NEW k \in Closers,
              (\E c \in Calls : CloseCancel(k, c)) \/ CloseStartDrain(k)
              \/ CloseAgain(k) \/ AwaitDrain(k) \/ CloseCtxEnds(k)
       PROVE  QueueInv'
  BY <1>1, <1>15
  DEF CloseCancel, CloseStartDrain, CloseAgain, AwaitDrain, CloseCtxEnds, callVars
<1>16. ASSUME NEW c \in Calls, CtxEnds(c) PROVE QueueInv'
  BY <1>1, <1>16 DEF CtxEnds, callVars
<1>17. CASE UNCHANGED vars
  BY <1>1, <1>17 DEF vars, callVars
<1> QED
  BY <1>3, <1>4, <1>5, <1>6, <1>7, <1>8, <1>9, <1>10, <1>11, <1>12, <1>13,
     <1>14, <1>15, <1>16, <1>17
  DEF Next, Locked, SubmitStep, CloseStep, Terminated

-----------------------------------------------------------------------------
\* A slot is taken by a call that held none, or given back by one that did:
\* the counters follow the set of holders and stay within the limits.
LEMMA SlotTaken ==
  ASSUME Shapes, SlotInv, NEW c \in Calls, c \notin Holders, Fits(c), reserve(c),
         Holders' = Holders \cup {c}
  PROVE  SlotInv'
<1> DEFINE q0 == Request[c].provider
           t0 == Request[c].tenant
<1>1. q0 \in Providers /\ t0 \in Tenants
  BY RequestType
<1>2. /\ inFlight \in Int /\ providerInFlight \in [Providers -> Int]
      /\ tenantInFlight \in [Tenants -> Int]
  BY DEF Shapes
<1>3. /\ inFlight' = inFlight + 1
      /\ providerInFlight' = [providerInFlight EXCEPT ![q0] = providerInFlight[q0] + 1]
      /\ tenantInFlight' = [tenantInFlight EXCEPT ![t0] = tenantInFlight[t0] + 1]
  BY DEF reserve
<1>4. inFlight' = Cardinality(Holders')
  <2>1. Holders \in SUBSET Calls
    BY DEF Holders
  <2> QED  BY <1>3, <2>1, FiniteCalls, FS_AddElement DEF SlotInv, Accounting
<1>5. ASSUME NEW q \in Providers
      PROVE  providerInFlight'[q] = Cardinality(HoldersOfProvider(q)')
  <2>1. HoldersOfProvider(q) \in SUBSET Calls /\ c \notin HoldersOfProvider(q)
        /\ providerInFlight[q] = Cardinality(HoldersOfProvider(q))
    BY DEF HoldersOfProvider, Holders, SlotInv, Accounting
  <2>2. CASE q = q0
    <3>1. HoldersOfProvider(q)' = HoldersOfProvider(q) \cup {c}
      BY <2>2 DEF HoldersOfProvider
    <3> QED  BY <1>1, <1>2, <1>3, <2>1, <2>2, <3>1, FiniteCalls, FS_AddElement
  <2>3. CASE q # q0
    <3>1. HoldersOfProvider(q)' = HoldersOfProvider(q)
      BY <2>3 DEF HoldersOfProvider
    <3> QED  BY <1>2, <1>3, <2>1, <2>3, <3>1
  <2> QED  BY <2>2, <2>3
<1>6. ASSUME NEW t \in Tenants
      PROVE  tenantInFlight'[t] = Cardinality(HoldersOfTenant(t)')
  <2>1. HoldersOfTenant(t) \in SUBSET Calls /\ c \notin HoldersOfTenant(t)
        /\ tenantInFlight[t] = Cardinality(HoldersOfTenant(t))
    BY DEF HoldersOfTenant, Holders, SlotInv, Accounting
  <2>2. CASE t = t0
    <3>1. HoldersOfTenant(t)' = HoldersOfTenant(t) \cup {c}
      BY <2>2 DEF HoldersOfTenant
    <3> QED  BY <1>1, <1>2, <1>3, <2>1, <2>2, <3>1, FiniteCalls, FS_AddElement
  <2>3. CASE t # t0
    <3>1. HoldersOfTenant(t)' = HoldersOfTenant(t)
      BY <2>3 DEF HoldersOfTenant
    <3> QED  BY <1>2, <1>3, <2>1, <2>3, <3>1
  <2> QED  BY <2>2, <2>3
<1>7. CountsWithinLimits'
  <2>1. /\ MaxConcurrent > 0 => inFlight < MaxConcurrent
        /\ PerProviderConcurrency > 0 =>
             providerInFlight[q0] < PerProviderConcurrency
        /\ PerTenantConcurrency > 0 => tenantInFlight[t0] < PerTenantConcurrency
    BY SchedulerConstants DEF Fits, concurrencyCapacity, bulkheadCapacity
  <2>2. MaxConcurrent \in Nat /\ PerProviderConcurrency \in Nat
        /\ PerTenantConcurrency \in Nat
    BY SchedulerConstants
  <2> HIDE DEF q0, t0
  <2>3. CountsWithinLimits
    BY DEF SlotInv
  <2>4. MaxConcurrent > 0 => inFlight' <= MaxConcurrent
    BY <1>2, <1>3, <2>1, <2>2
  <2>5. PerProviderConcurrency > 0 =>
          \A q \in Providers : providerInFlight'[q] <= PerProviderConcurrency
    BY <1>1, <1>2, <1>3, <2>1, <2>2, <2>3 DEF CountsWithinLimits
  <2>6. PerTenantConcurrency > 0 =>
          \A t \in Tenants : tenantInFlight'[t] <= PerTenantConcurrency
    BY <1>1, <1>2, <1>3, <2>1, <2>2, <2>3 DEF CountsWithinLimits
  <2> QED  BY <2>4, <2>5, <2>6 DEF CountsWithinLimits
<1> QED  BY <1>4, <1>5, <1>6, <1>7 DEF SlotInv, Accounting

\* The holder gives its slot back.
LEMMA SlotGivenBack ==
  ASSUME Shapes, SlotInv, NEW c \in Calls, c \in Holders, unreserve(c),
         Holders' = Holders \ {c}
  PROVE  SlotInv'
<1> DEFINE q0 == Request[c].provider
           t0 == Request[c].tenant
<1>1. q0 \in Providers /\ t0 \in Tenants
  BY RequestType
<1>2. /\ inFlight \in Int /\ providerInFlight \in [Providers -> Int]
      /\ tenantInFlight \in [Tenants -> Int]
  BY DEF Shapes
<1>3. /\ inFlight' = inFlight - 1
      /\ providerInFlight' =
           [providerInFlight EXCEPT ![q0] = Decrement(providerInFlight[q0])]
      /\ tenantInFlight' =
           [tenantInFlight EXCEPT ![t0] = Decrement(tenantInFlight[t0])]
  BY DEF unreserve
<1>4. inFlight' = Cardinality(Holders')
  <2>1. Holders \in SUBSET Calls
    BY DEF Holders
  <2> QED  BY <1>3, <2>1, FiniteCalls, FS_RemoveElement DEF SlotInv, Accounting
\* A set that holds c is not empty, so decrementing its size does not clamp.
<1>5. ASSUME NEW S \in SUBSET Calls, c \in S
      PROVE  Decrement(Cardinality(S)) = Cardinality(S \ {c})
  <2>1. /\ Cardinality(S) \in Nat
        /\ Cardinality(S \ {c}) = Cardinality(S) - 1
        /\ Cardinality(S \ {c}) \in Nat
    <3>1. S \ {c} \in SUBSET Calls
      OBVIOUS
    <3> QED  BY <1>5, <3>1, FiniteCalls, FS_RemoveElement
  <2> QED  BY <2>1 DEF Decrement
<1>6. ASSUME NEW q \in Providers
      PROVE  providerInFlight'[q] = Cardinality(HoldersOfProvider(q)')
  <2>1. HoldersOfProvider(q) \in SUBSET Calls
        /\ providerInFlight[q] = Cardinality(HoldersOfProvider(q))
    BY DEF HoldersOfProvider, Holders, SlotInv, Accounting
  <2>2. CASE q = q0
    <3>1. c \in HoldersOfProvider(q)
          /\ HoldersOfProvider(q)' = HoldersOfProvider(q) \ {c}
      BY <2>2 DEF HoldersOfProvider
    <3> QED  BY <1>1, <1>2, <1>3, <1>5, <2>1, <2>2, <3>1
  <2>3. CASE q # q0
    <3>1. HoldersOfProvider(q)' = HoldersOfProvider(q)
      BY <2>3 DEF HoldersOfProvider
    <3> QED  BY <1>2, <1>3, <2>1, <2>3, <3>1
  <2> QED  BY <2>2, <2>3
<1>7. ASSUME NEW t \in Tenants
      PROVE  tenantInFlight'[t] = Cardinality(HoldersOfTenant(t)')
  <2>1. HoldersOfTenant(t) \in SUBSET Calls
        /\ tenantInFlight[t] = Cardinality(HoldersOfTenant(t))
    BY DEF HoldersOfTenant, Holders, SlotInv, Accounting
  <2>2. CASE t = t0
    <3>1. c \in HoldersOfTenant(t)
          /\ HoldersOfTenant(t)' = HoldersOfTenant(t) \ {c}
      BY <2>2 DEF HoldersOfTenant
    <3> QED  BY <1>1, <1>2, <1>3, <1>5, <2>1, <2>2, <3>1
  <2>3. CASE t # t0
    <3>1. HoldersOfTenant(t)' = HoldersOfTenant(t)
      BY <2>3 DEF HoldersOfTenant
    <3> QED  BY <1>2, <1>3, <2>1, <2>3, <3>1
  <2> QED  BY <2>2, <2>3
<1>8. CountsWithinLimits'
  <2>1. MaxConcurrent \in Nat /\ PerProviderConcurrency \in Nat
        /\ PerTenantConcurrency \in Nat
    BY SchedulerConstants
  <2>2. CountsWithinLimits
    BY DEF SlotInv
  <2> HIDE DEF q0, t0
  <2>3. MaxConcurrent > 0 => inFlight' <= MaxConcurrent
    BY <1>2, <1>3, <2>1, <2>2 DEF CountsWithinLimits
  <2>4. PerProviderConcurrency > 0 =>
          \A q \in Providers : providerInFlight'[q] <= PerProviderConcurrency
    BY <1>1, <1>2, <1>3, <2>1, <2>2 DEF CountsWithinLimits, Decrement
  <2>5. PerTenantConcurrency > 0 =>
          \A t \in Tenants : tenantInFlight'[t] <= PerTenantConcurrency
    BY <1>1, <1>2, <1>3, <2>1, <2>2 DEF CountsWithinLimits, Decrement
  <2> QED  BY <2>3, <2>4, <2>5 DEF CountsWithinLimits
<1> QED  BY <1>4, <1>6, <1>7, <1>8 DEF SlotInv, Accounting

\* A new scheduler has handed out no slot.
LEMMA InitSlotInv == Init => SlotInv
<1> SUFFICES ASSUME Init PROVE SlotInv
  OBVIOUS
<1>1. Holders = {} /\ \A q \in Providers : HoldersOfProvider(q) = {}
  BY DEF Init, Holders, HoldersOfProvider
<1>2. \A t \in Tenants : HoldersOfTenant(t) = {}
  BY <1>1 DEF HoldersOfTenant
<1>3. Accounting
  BY <1>1, <1>2, FS_EmptySet DEF Init, Accounting
<1>4. CountsWithinLimits
  BY SchedulerConstants DEF Init, CountsWithinLimits
<1> QED  BY <1>3, <1>4 DEF SlotInv

\* The slots are left alone, one is taken by a call that fits, or one is given
\* back by its holder.
SlotsAlone == UNCHANGED resourceVars /\ Holders' = Holders
SlotTakenBy(c) ==
  /\ c \notin Holders /\ Holders' = Holders \cup {c} /\ Fits(c) /\ reserve(c)
  /\ pc[c] \notin {"start", "done"}
SlotGivenBackBy(c) == c \in Holders /\ Holders' = Holders \ {c} /\ unreserve(c)

SlotStep ==
  SlotsAlone \/ \E c \in Calls : SlotTakenBy(c) \/ SlotGivenBackBy(c)

\* Every step of every goroutine does one of these three things to the slots.
LEMMA NextSlotStep == Shapes /\ QueueInv /\ [Next]_vars => SlotStep
<1> SUFFICES ASSUME Shapes, QueueInv, [Next]_vars PROVE SlotStep
  OBVIOUS
<1> USE DEF resourceVars
<1>0. /\ QueuedSilent /\ AnswerPending
      /\ pc \in [Calls -> {"start", "enqueue", "wait", "cancel", "undo",
                       "register", "run", "release", "wgdone", "done"}]
      /\ admitted \in [Calls -> {"none", "ok", "rejected", "shutdown"}]
  BY DEF QueueInv, Shapes
\* Steps that leave the counters and the holders alone.
<1>1. ASSUME UNCHANGED resourceVars, Holders' = Holders PROVE SlotStep
  BY <1>1 DEF SlotStep, SlotsAlone
<1>2. ASSUME UNCHANGED <<resourceVars, pc, admitted>> PROVE SlotStep
  BY <1>1, <1>2 DEF Holders
<1>3. CASE Dispatcher \/ Drain \/ Tick \/ UNCHANGED vars
  BY <1>2, <1>3
  DEF Dispatcher, DispatchLock, DispatchUnlock, DispatchSelect, Drain, Tick,
      vars, callVars
<1>4. ASSUME NEW c \in Calls, Expire(c) PROVE SlotStep
  <2>1. /\ UNCHANGED <<resourceVars, pc>> /\ admitted[c] = "none"
        /\ admitted' = [admitted EXCEPT ![c] = "rejected"]
    BY <1>4 DEF Expire, Send
  <2>2. Holders' = Holders
    BY <1>0, <2>1 DEF Holders
  <2> QED  BY <1>1, <2>1, <2>2
<1>5. ASSUME NEW c \in Calls, Admit(c) PROVE SlotStep
  <2>1. /\ pc' = pc /\ admitted' = [admitted EXCEPT ![c] = "ok"]
        /\ reserve(c) /\ Fits(c) /\ QueuePositions(c) # {}
    BY <1>5 DEF Admit, Send, IsNext, removeFromQueue
  <2>2. c \notin Holders /\ pc[c] \notin {"start", "done"}
    BY <1>0, <2>1 DEF QueuedSilent, QueuedCalls, Queued, Holders
  <2>3. Holders' = Holders \cup {c}
    BY <1>0, <2>1 DEF Holders
  <2> QED  BY <2>1, <2>2, <2>3 DEF SlotStep, SlotTakenBy
\* Steps of a call that holds no slot before or after.
<1>6. ASSUME NEW c \in Calls,
             NEW next \in {"enqueue", "wait", "cancel", "wgdone", "done"},
             UNCHANGED <<resourceVars, admitted>>,
             pc[c] \in {"start", "enqueue", "wait", "wgdone"},
             pc' = [pc EXCEPT ![c] = next]
      PROVE  SlotStep
  <2>1. Holders' = Holders
    BY <1>0, <1>6 DEF Holders
  <2> QED  BY <1>1, <1>6, <2>1
<1>7. ASSUME NEW c \in Calls,
             SubmitDead(c) \/ EnqueueRefused(c) \/ EnqueuePush(c)
             \/ EnqueueFull(c) \/ EnqueueDone(c) \/ CtxWins(c) \/ WgDone(c)
      PROVE  SlotStep
  BY <1>6, <1>7
  DEF SubmitDead, EnqueueRefused, EnqueuePush, EnqueueFull, EnqueueDone,
      CtxWins, WgDone
<1>8. ASSUME NEW c \in Calls, ReceiveOutcome(c) PROVE SlotStep
  <2>1. /\ UNCHANGED resourceVars /\ pc[c] = "wait"
        /\ admitted' = [admitted EXCEPT ![c] = "none"]
        /\ \/ admitted[c] = "ok" /\ pc' = [pc EXCEPT ![c] = "register"]
           \/ admitted[c] # "ok" /\ pc' = [pc EXCEPT ![c] = "done"]
    BY <1>8 DEF ReceiveOutcome
  <2>2. Holders' = Holders
    BY <1>0, <2>1 DEF Holders
  <2> QED  BY <1>1, <2>1, <2>2
<1>9. ASSUME NEW c \in Calls, CancelWaiter(c) PROVE SlotStep
  <2>1. /\ UNCHANGED resourceVars /\ pc[c] = "cancel"
        /\ admitted' = [admitted EXCEPT ![c] = "none"]
        /\ \/ admitted[c] = "ok" /\ pc' = [pc EXCEPT ![c] = "undo"]
           \/ admitted[c] # "ok" /\ pc' = [pc EXCEPT ![c] = "done"]
    BY <1>9 DEF CancelWaiter
  <2>2. Holders' = Holders
    BY <1>0, <2>1 DEF Holders
  <2> QED  BY <1>1, <2>1, <2>2
<1>10. ASSUME NEW c \in Calls, RegisterInFlight(c) \/ RunReturns(c) PROVE SlotStep
  <2>1. /\ UNCHANGED <<resourceVars, admitted>> /\ pc[c] \in {"register", "run"}
        /\ \/ pc' = [pc EXCEPT ![c] = "undo"]
           \/ pc' = [pc EXCEPT ![c] = "run"]
           \/ pc' = [pc EXCEPT ![c] = "release"]
    BY <1>10 DEF RegisterInFlight, RunReturns
  <2>2. Holders' = Holders
    BY <1>0, <2>1 DEF Holders
  <2> QED  BY <1>1, <2>1, <2>2
<1>11. ASSUME NEW c \in Calls, ReleaseReservationOnly(c) \/ Release(c)
       PROVE  SlotStep
  <2>1. /\ unreserve(c) /\ admitted' = admitted /\ pc[c] \in {"undo", "release"}
        /\ \/ pc' = [pc EXCEPT ![c] = "done"]
           \/ pc' = [pc EXCEPT ![c] = "wgdone"]
    BY <1>11 DEF ReleaseReservationOnly, Release
  <2>2. c \in Holders /\ admitted[c] = "none"
    BY <1>0, <2>1 DEF Holders, AnswerPending
  <2>3. Holders' = Holders \ {c}
    BY <1>0, <2>1, <2>2 DEF Holders
  <2> QED  BY <2>1, <2>2, <2>3 DEF SlotStep, SlotGivenBackBy
<1>12. ASSUME NEW k \in Closers, CloseFirst(k) PROVE SlotStep
  <2>1. /\ UNCHANGED <<resourceVars, pc>>
        /\ admitted' =
             [c \in Calls |-> IF c \in ToRefuse THEN "shutdown" ELSE admitted[c]]
        /\ \A c \in ToRefuse : admitted[c] = "none"
    BY <1>12 DEF CloseFirst
  <2>2. Holders' = Holders
    BY <1>0, <2>1 DEF Holders
  <2> QED  BY <1>1, <2>1, <2>2
<1>13. ASSUME NEW k \in Closers,
              (\E c \in Calls : CloseCancel(k, c)) \/ CloseStartDrain(k)
              \/ CloseAgain(k) \/ AwaitDrain(k) \/ CloseCtxEnds(k)
       PROVE  SlotStep
  BY <1>2, <1>13
  DEF CloseCancel, CloseStartDrain, CloseAgain, AwaitDrain, CloseCtxEnds, callVars
<1>14. ASSUME NEW c \in Calls, CtxEnds(c) PROVE SlotStep
  BY <1>2, <1>14 DEF CtxEnds, callVars
<1> QED
  BY <1>3, <1>4, <1>5, <1>7, <1>8, <1>9, <1>10, <1>11, <1>12, <1>13, <1>14
  DEF Next, Locked, SubmitStep, CloseStep, Terminated

\* Every step keeps the counters equal to the slots held.
LEMMA NextSlotInv == Shapes /\ QueueInv /\ SlotInv /\ [Next]_vars => SlotInv'
<1> SUFFICES ASSUME Shapes, SlotInv, SlotStep PROVE SlotInv'
  BY NextSlotStep
<1>1. CASE SlotsAlone
  BY <1>1 DEF SlotsAlone, resourceVars, SlotInv, Accounting, CountsWithinLimits,
              HoldersOfProvider, HoldersOfTenant
<1>2. ASSUME NEW c \in Calls, SlotTakenBy(c) PROVE SlotInv'
  BY <1>2, SlotTaken DEF SlotTakenBy
<1>3. ASSUME NEW c \in Calls, SlotGivenBackBy(c) PROVE SlotInv'
  BY <1>3, SlotGivenBack DEF SlotGivenBackBy
<1> QED  BY <1>1, <1>2, <1>3 DEF SlotStep

-----------------------------------------------------------------------------
\* What a set of calls asks for is a sum, of what each one of it asks for.
LEMMA Asked ==
  ASSUME NEW S \in SUBSET Calls
  PROVE  /\ TokensOf({}) = 0 /\ CostOf({}) = 0
         /\ TokensOf(S) \in Int /\ CostOf(S) \in Int
         /\ \A c \in Calls \ S :
              /\ TokensOf(S \cup {c}) = TokensOf(S) + Request[c].tokens
              /\ CostOf(S \cup {c}) = CostOf(S) + Request[c].cost
         /\ \A c \in S :
              /\ TokensOf(S \ {c}) = TokensOf(S) - Request[c].tokens
              /\ CostOf(S \ {c}) = CostOf(S) - Request[c].cost
<1> DEFINE f == [c \in Calls |-> Request[c].tokens]
           g == [c \in Calls |-> Request[c].cost]
<1>1. ASSUME NEW R PROVE TokensOf(R) = Sum(f, R) /\ CostOf(R) = Sum(g, R)
  BY DEF TokensOf, CostOf, Sum
<1>2. \A c \in Calls : /\ f[c] = Request[c].tokens /\ f[c] \in Int
                       /\ g[c] = Request[c].cost /\ g[c] \in Int
  BY RequestType
<1>3. IsFiniteSet(S)
  BY FiniteCalls
<1> HIDE DEF f, g
<1>4. TokensOf({}) = 0 /\ CostOf({}) = 0
  BY <1>1, <1>3, SumUnfolds
<1>5. Sum(f, S) \in Int /\ Sum(g, S) \in Int
  BY <1>2, <1>3, SumType
<1>6. ASSUME NEW c \in Calls \ S
      PROVE  /\ Sum(f, S \cup {c}) = Sum(f, S) + f[c]
             /\ Sum(g, S \cup {c}) = Sum(g, S) + g[c]
  BY <1>2, <1>3, SumAdd
<1>7. ASSUME NEW c \in S
      PROVE  /\ Sum(f, S) = f[c] + Sum(f, S \ {c}) /\ Sum(f, S \ {c}) \in Int
             /\ Sum(g, S) = g[c] + Sum(g, S \ {c}) /\ Sum(g, S \ {c}) \in Int
  <2>1. IsFiniteSet(S \ {c}) /\ S \ {c} \in SUBSET Calls
    BY FiniteCalls
  <2>2. Sum(f, S \ {c}) \in Int /\ Sum(g, S \ {c}) \in Int
    BY <1>2, <2>1, SumType
  <2>3. Sum(f, S) = f[c] + Sum(f, S \ {c})
    BY <1>2, <1>3, SumRemove
  <2>4. Sum(g, S) = g[c] + Sum(g, S \ {c})
    BY <1>2, <1>3, SumRemove
  <2> QED  BY <2>2, <2>3, <2>4
<1>8. ASSUME NEW c \in S
      PROVE  /\ Sum(f, S \ {c}) = Sum(f, S) - f[c]
             /\ Sum(g, S \ {c}) = Sum(g, S) - g[c]
  <2>1. f[c] \in Int /\ g[c] \in Int
    BY <1>2
  <2> QED  BY <1>7, <2>1
<1> QED  BY <1>1, <1>2, <1>4, <1>5, <1>6, <1>8

\* A new scheduler has reserved nothing.
LEMMA InitEstimateInv == Init => EstimateInv
<1> SUFFICES ASSUME Init PROVE EstimateInv
  OBVIOUS
<1>1. Holders = {}
  BY DEF Init, Holders
<1>2. TokensOf({}) = 0 /\ CostOf({}) = 0
  BY Asked
<1>3. /\ inFlightTokens = 0 /\ inFlightCost = 0
      /\ \A c \in Calls : pc[c] = "start"
  BY DEF Init
<1>4. MaxInFlightTokens \in Nat /\ MaxInFlightCost \in Nat
  BY SchedulerConstants
<1> QED  BY <1>1, <1>2, <1>3, <1>4 DEF EstimateInv

\* Only a call whose estimates passed the checks of enqueue gets past its start.
LEMMA NextPriced ==
  ASSUME Shapes, EstimateInv, [Next]_vars, NEW c \in Calls,
         pc'[c] \notin {"start", "done"}
  PROVE  Request[c].tokens >= 0 /\ Request[c].cost >= 0
<1>0. /\ pc \in [Calls -> {"start", "enqueue", "wait", "cancel", "undo",
                       "register", "run", "release", "wgdone", "done"}]
      /\ pc[c] \notin {"start", "done"} =>
           Request[c].tokens >= 0 /\ Request[c].cost >= 0
      /\ Request[c].tokens \in Int /\ Request[c].cost \in Int
  BY RequestType DEF EstimateInv, Shapes
<1>1. CASE UNCHANGED pc
  BY <1>0, <1>1
<1>2. ASSUME NEW d \in Calls, EnqueuePush(d)
      PROVE  Request[c].tokens >= 0 /\ Request[c].cost >= 0
  <2>1. pc' = [pc EXCEPT ![d] = "enqueue"] /\ Refusal(d) = "none"
    BY <1>2 DEF EnqueuePush
  <2>2. ~(Request[d].tokens < 0 \/ Request[d].cost < 0)
    BY <2>1 DEF Refusal
  <2> QED  BY <1>0, <2>1, <2>2
<1>3. ASSUME NEW d \in Calls, NEW next, pc' = [pc EXCEPT ![d] = next],
             pc[d] \notin {"start", "done"} \/ next = "done"
      PROVE  Request[c].tokens >= 0 /\ Request[c].cost >= 0
  BY <1>0, <1>3
<1>4. ASSUME NEW d \in Calls,
             SubmitDead(d) \/ EnqueueRefused(d) \/ EnqueueFull(d)
             \/ EnqueueDone(d) \/ CtxWins(d) \/ WgDone(d)
      PROVE  Request[c].tokens >= 0 /\ Request[c].cost >= 0
  BY <1>3, <1>4
  DEF SubmitDead, EnqueueRefused, EnqueueFull, EnqueueDone, CtxWins, WgDone
<1>5. ASSUME NEW d \in Calls,
             ReceiveOutcome(d) \/ CancelWaiter(d) \/ RegisterInFlight(d)
             \/ RunReturns(d) \/ ReleaseReservationOnly(d) \/ Release(d)
      PROVE  Request[c].tokens >= 0 /\ Request[c].cost >= 0
  BY <1>3, <1>5
  DEF ReceiveOutcome, CancelWaiter, RegisterInFlight, RunReturns,
      ReleaseReservationOnly, Release
<1>6. ASSUME NEW d \in Calls, Expire(d) \/ Admit(d) \/ CtxEnds(d)
      PROVE  UNCHANGED pc
  BY <1>6 DEF Expire, Admit, CtxEnds, callVars
<1>7. ASSUME NEW k \in Closers, CloseStep(k) PROVE UNCHANGED pc
  BY <1>7 DEF CloseStep, CloseFirst, CloseCancel, CloseStartDrain, CloseAgain,
              AwaitDrain, callVars
<1>8. ASSUME NEW k \in Closers, CloseCtxEnds(k) PROVE UNCHANGED pc
  BY <1>8 DEF CloseCtxEnds, callVars
<1>9. CASE Dispatcher \/ Drain \/ Tick \/ UNCHANGED vars
  BY <1>1, <1>9
  DEF Dispatcher, DispatchLock, DispatchUnlock, DispatchSelect, Drain, Tick,
      vars, callVars
<1> QED
  BY <1>1, <1>2, <1>4, <1>5, <1>6, <1>7, <1>8, <1>9
  DEF Next, Locked, SubmitStep, Terminated

\* Every step keeps the estimates counted equal to what the holders asked for.
LEMMA NextEstimateInv ==
  Shapes /\ QueueInv /\ SlotInv /\ EstimateInv /\ [Next]_vars => EstimateInv'
<1> SUFFICES ASSUME Shapes, QueueInv, SlotInv, EstimateInv, [Next]_vars
             PROVE  EstimateInv'
  OBVIOUS
<1>0. /\ MaxInFlightTokens \in Nat /\ MaxInFlightCost \in Nat
      /\ Holders \in SUBSET Calls
      /\ TokensOf(Holders) \in Int /\ CostOf(Holders) \in Int
      /\ inFlightTokens = TokensOf(Holders) /\ inFlightCost = CostOf(Holders)
      /\ MaxInFlightTokens > 0 => inFlightTokens <= MaxInFlightTokens
      /\ MaxInFlightCost > 0 => inFlightCost <= MaxInFlightCost
  BY SchedulerConstants, Asked DEF Holders, EstimateInv
<1>1. \A c \in Calls : pc'[c] \notin {"start", "done"} =>
        Request[c].tokens >= 0 /\ Request[c].cost >= 0
  BY NextPriced
<1>2. SUFFICES
        /\ inFlightTokens' = TokensOf(Holders') /\ inFlightCost' = CostOf(Holders')
        /\ MaxInFlightTokens > 0 => inFlightTokens' <= MaxInFlightTokens
        /\ MaxInFlightCost > 0 => inFlightCost' <= MaxInFlightCost
  BY <1>1 DEF EstimateInv, TokensOf, CostOf
<1> DEFINE Goal ==
        /\ inFlightTokens' = TokensOf(Holders') /\ inFlightCost' = CostOf(Holders')
        /\ MaxInFlightTokens > 0 => inFlightTokens' <= MaxInFlightTokens
        /\ MaxInFlightCost > 0 => inFlightCost' <= MaxInFlightCost
<1>3. CASE SlotsAlone
  <2>1. /\ inFlightTokens' = inFlightTokens /\ inFlightCost' = inFlightCost
        /\ Holders' = Holders
    BY <1>3 DEF SlotsAlone, resourceVars
  <2> QED  BY <1>0, <2>1
<1>4. ASSUME NEW c \in Calls, SlotTakenBy(c) PROVE Goal
  <2>1. /\ inFlightTokens' = inFlightTokens + Request[c].tokens
        /\ inFlightCost' = inFlightCost + Request[c].cost
        /\ c \in Calls \ Holders /\ Holders' = Holders \cup {c}
        /\ MaxInFlightTokens = 0
             \/ inFlightTokens + Request[c].tokens <= MaxInFlightTokens
        /\ MaxInFlightCost = 0
             \/ inFlightCost + Request[c].cost <= MaxInFlightCost
    BY <1>4 DEF SlotTakenBy, reserve, Fits, estimateCapacity
  <2>2. /\ TokensOf(Holders \cup {c}) = TokensOf(Holders) + Request[c].tokens
        /\ CostOf(Holders \cup {c}) = CostOf(Holders) + Request[c].cost
    BY <1>0, <2>1, Asked
  <2> QED  BY <1>0, <2>1, <2>2
<1>5. ASSUME NEW c \in Calls, SlotGivenBackBy(c) PROVE Goal
  <2>1. /\ inFlightTokens' = inFlightTokens - Request[c].tokens
        /\ inFlightCost' =
             IF inFlight = 1 THEN 0 ELSE inFlightCost - Request[c].cost
        /\ c \in Holders /\ Holders' = Holders \ {c}
    BY <1>5 DEF SlotGivenBackBy, unreserve
  <2>2. /\ TokensOf(Holders \ {c}) = TokensOf(Holders) - Request[c].tokens
        /\ CostOf(Holders \ {c}) = CostOf(Holders) - Request[c].cost
    BY <1>0, <2>1, Asked
  <2>3. Request[c].tokens \in Nat /\ Request[c].cost \in Nat
    <3>1. pc[c] \notin {"start", "done"}
      BY <2>1 DEF Holders, QueueInv, AnswerPending
    <3> QED  BY <3>1, RequestType DEF EstimateInv
  \* The last holder's cost is not subtracted but reset: nothing else is held.
  <2>4. CASE inFlight = 1
    <3>1. Cardinality(Holders) = 1
      BY <2>4 DEF SlotInv, Accounting
    <3>2. Holders \ {c} = {}
      <4>1. IsFiniteSet(Holders \ {c}) /\ Cardinality(Holders \ {c}) = 0
        BY <1>0, <2>1, <3>1, FiniteCalls, FS_RemoveElement
      <4> QED  BY <4>1, FS_EmptySet
    <3>3. CostOf({}) = 0
      BY Asked
    <3>4. inFlightCost' = 0 /\ CostOf(Holders') = 0
      BY <2>1, <2>4, <3>2, <3>3
    <3>5. /\ inFlightTokens' = TokensOf(Holders')
          /\ MaxInFlightTokens > 0 => inFlightTokens' <= MaxInFlightTokens
      BY <1>0, <2>1, <2>2, <2>3
    <3> QED  BY <1>0, <3>4, <3>5
  <2>5. CASE inFlight # 1
    BY <1>0, <2>1, <2>2, <2>3, <2>5
  <2> QED  BY <2>4, <2>5
<1> QED  BY <1>3, <1>4, <1>5, NextSlotStep DEF SlotStep

-----------------------------------------------------------------------------
\* A new scheduler has nothing registered.
LEMMA InitCloseInv == Init => CloseInv
<1> SUFFICES ASSUME Init PROVE CloseInv
  OBVIOUS
<1>1. Registered = {} /\ Running = {} /\ closed = FALSE
      /\ {c \in Calls : pc[c] \in {"run", "release"}} = {}
  BY DEF Init, Registered, Running
<1> QED  BY <1>1, FS_EmptySet DEF Init, CloseInv

\* Every step keeps what Close relies on.
LEMMA NextCloseInv == Shapes /\ CloseInv /\ [Next]_vars => CloseInv'
<1> SUFFICES ASSUME Shapes, CloseInv, [Next]_vars PROVE CloseInv'
  OBVIOUS
<1> DEFINE Reach == {c \in Calls : pc[c] \in {"run", "release"}}
<1>0. /\ pc \in [Calls -> {"start", "enqueue", "wait", "cancel", "undo",
                       "register", "run", "release", "wgdone", "done"}]
      /\ runCanceled \in [Calls -> BOOLEAN] /\ wg \in Int
      /\ Registered \in SUBSET Calls
  BY DEF Shapes, Registered
\* Steps of calls that are not registered, and of everybody but Close.
<1>1. ASSUME UNCHANGED <<runVars, closed, drainer, toCancel, runCanceled, cpc>>,
             Registered' = Registered, Running' = Running, Reach' = Reach
      PROVE  CloseInv'
  BY <1>1 DEF CloseInv, runVars
<1>2. ASSUME UNCHANGED <<runVars, closed, drainer, toCancel, runCanceled, cpc, pc>>
      PROVE  CloseInv'
  BY <1>1, <1>2 DEF Registered, Running
<1>3. ASSUME NEW c \in Calls,
             NEW next \in {"enqueue", "wait", "cancel", "undo", "register", "done"},
             UNCHANGED <<runVars, closed, drainer, toCancel, runCanceled, cpc>>,
             pc[c] \in {"start", "enqueue", "wait", "cancel", "undo", "register"},
             pc' = [pc EXCEPT ![c] = next]
      PROVE  CloseInv'
  <2>1. Registered' = Registered /\ Running' = Running /\ Reach' = Reach
    BY <1>0, <1>3 DEF Registered, Running
  <2> QED  BY <1>1, <1>3, <2>1
<1>4. CASE Dispatcher \/ Tick \/ UNCHANGED vars
  BY <1>2, <1>4
  DEF Dispatcher, DispatchLock, DispatchUnlock, DispatchSelect, Tick, vars,
      callVars, closeVars
<1>5. ASSUME NEW c \in Calls, Expire(c) \/ Admit(c) \/ CtxEnds(c) PROVE CloseInv'
  BY <1>2, <1>5 DEF Expire, Admit, CtxEnds, callVars, closeVars
<1>6. ASSUME NEW c \in Calls,
             SubmitDead(c) \/ EnqueueRefused(c) \/ EnqueuePush(c)
             \/ EnqueueFull(c) \/ EnqueueDone(c) \/ ReceiveOutcome(c)
             \/ CtxWins(c) \/ CancelWaiter(c) \/ ReleaseReservationOnly(c)
      PROVE  CloseInv'
  BY <1>3, <1>6
  DEF SubmitDead, EnqueueRefused, EnqueuePush, EnqueueFull, EnqueueDone,
      ReceiveOutcome, CtxWins, CancelWaiter, ReleaseReservationOnly, closeVars
<1>7. ASSUME NEW c \in Calls, RegisterInFlight(c) PROVE CloseInv'
  <2>1. CASE closed
    BY <1>3, <1>7, <2>1 DEF RegisterInFlight, closeVars
  <2>2. CASE ~closed
    <3>1. /\ pc[c] = "register" /\ pc' = [pc EXCEPT ![c] = "run"]
          /\ inFlightCancel' = inFlightCancel \cup {c} /\ wg' = wg + 1
          /\ UNCHANGED <<closed, drainer, toCancel, runCanceled, cpc>>
      BY <1>7, <2>2 DEF RegisterInFlight, closeVars
    <3>2. /\ c \notin Registered /\ Registered' = Registered \cup {c}
          /\ Reach' = Reach \cup {c}
      BY <1>0, <3>1 DEF Registered
    <3>3. wg' = Cardinality(Registered')
      BY <1>0, <3>1, <3>2, FiniteCalls, FS_AddElement DEF CloseInv
    <3> QED  BY <2>2, <3>1, <3>2, <3>3 DEF CloseInv
  <2> QED  BY <2>1, <2>2
<1>8. ASSUME NEW c \in Calls, RunReturns(c) PROVE CloseInv'
  <2>1. /\ pc[c] = "run" /\ pc' = [pc EXCEPT ![c] = "release"]
        /\ UNCHANGED <<runVars, closed, drainer, toCancel, runCanceled, cpc>>
    BY <1>8 DEF RunReturns, closeVars
  <2>2. Registered' = Registered /\ Running' \subseteq Running /\ Reach' = Reach
    BY <1>0, <2>1 DEF Registered, Running
  <2> QED  BY <2>1, <2>2 DEF CloseInv, runVars
<1>9. ASSUME NEW c \in Calls, Release(c) PROVE CloseInv'
  <2>1. /\ pc[c] = "release" /\ pc' = [pc EXCEPT ![c] = "wgdone"]
        /\ inFlightCancel' = inFlightCancel \ {c}
        /\ UNCHANGED <<wg, closed, drainer, toCancel, runCanceled, cpc>>
    BY <1>9 DEF Release, closeVars
  <2>2. Registered' = Registered /\ Running' = Running /\ Reach' = Reach \ {c}
    BY <1>0, <2>1 DEF Registered, Running
  <2> QED  BY <2>1, <2>2 DEF CloseInv
<1>10. ASSUME NEW c \in Calls, WgDone(c) PROVE CloseInv'
  <2>1. /\ pc[c] = "wgdone" /\ pc' = [pc EXCEPT ![c] = "done"]
        /\ wg' = wg - 1
        /\ UNCHANGED <<inFlightCancel, closed, drainer, toCancel, runCanceled, cpc>>
    BY <1>10 DEF WgDone, closeVars
  <2>2. /\ c \in Registered /\ Registered' = Registered \ {c}
        /\ Running' = Running /\ Reach' = Reach
    BY <1>0, <2>1 DEF Registered, Running
  <2>3. wg' = Cardinality(Registered')
    BY <1>0, <2>1, <2>2, FiniteCalls, FS_RemoveElement DEF CloseInv
  <2> QED  BY <2>1, <2>2, <2>3 DEF CloseInv
<1>11. ASSUME NEW k \in Closers, CloseFirst(k) PROVE CloseInv'
  <2>1. /\ ~closed /\ closed' /\ toCancel' = inFlightCancel
        /\ UNCHANGED <<runVars, pc, drainer, runCanceled>>
    BY <1>11 DEF CloseFirst
  <2>2. Registered' = Registered /\ Running' = Running /\ Reach' = Reach
    BY <2>1 DEF Registered, Running
  <2>3. Running \subseteq Reach
    BY DEF Running
  <2> QED  BY <2>1, <2>2, <2>3 DEF CloseInv, runVars
<1>12. ASSUME NEW k \in Closers, NEW c \in Calls, CloseCancel(k, c)
       PROVE  CloseInv'
  <2>1. /\ runCanceled' = [runCanceled EXCEPT ![c] = TRUE]
        /\ toCancel' = toCancel \ {c} /\ c \in toCancel
        /\ UNCHANGED <<runVars, pc, drainer, closed, cpc>>
    BY <1>12 DEF CloseCancel, callVars
  <2>2. Registered' = Registered /\ Running' = Running /\ Reach' = Reach
        /\ Running \subseteq Calls
    BY <2>1 DEF Registered, Running
  <2>3. \A d \in Running :
          (runCanceled[d] \/ d \in toCancel) => (runCanceled'[d] \/ d \in toCancel')
    BY <1>0, <2>1, <2>2
  <2> QED  BY <2>1, <2>2, <2>3 DEF CloseInv, runVars
<1>13. ASSUME NEW k \in Closers, CloseAgain(k) \/ AwaitDrain(k) \/ CloseCtxEnds(k)
       PROVE  CloseInv'
  <2>1. CASE CloseCtxEnds(k)
    BY <1>2, <2>1 DEF CloseCtxEnds, callVars, closeVars
  <2>2. CASE CloseAgain(k) \/ AwaitDrain(k)
    <3>1. closed
      BY <2>2 DEF CloseAgain, AwaitDrain, CloseInv
    <3>2. UNCHANGED <<runVars, pc, closed, drainer, toCancel, runCanceled>>
      BY <2>2 DEF CloseAgain, AwaitDrain, callVars
    <3>3. Registered' = Registered /\ Running' = Running /\ Reach' = Reach
      BY <3>2 DEF Registered, Running
    <3> QED  BY <3>1, <3>2, <3>3 DEF CloseInv, runVars
  <2> QED  BY <1>13, <2>1, <2>2
<1>14. ASSUME NEW k \in Closers, CloseStartDrain(k) PROVE CloseInv'
  <2>0. closed
    BY <1>14 DEF CloseStartDrain, CloseInv
  <2>1. /\ toCancel = {} /\ drainer' = "waiting"
        /\ UNCHANGED <<runVars, pc, closed, toCancel, runCanceled>>
    BY <1>14 DEF CloseStartDrain, callVars
  <2>2. Registered' = Registered /\ Running' = Running /\ Reach' = Reach
    BY <2>1 DEF Registered, Running
  <2> QED  BY <2>0, <2>1, <2>2 DEF CloseInv, runVars
<1>15. CASE Drain
  <2>1. /\ drainer = "waiting" /\ wg = 0 /\ drainer' = "done"
        /\ UNCHANGED <<runVars, pc, closed, toCancel, runCanceled, cpc>>
    BY <1>15 DEF Drain, callVars
  <2>2. Registered' = Registered /\ Running' = Running /\ Reach' = Reach
    BY <2>1 DEF Registered, Running
  <2>3. Registered = {}
    BY <1>0, <2>1, FiniteCalls, FS_EmptySet DEF CloseInv
  <2> QED  BY <2>1, <2>2, <2>3 DEF CloseInv, runVars
<1> QED
  BY <1>4, <1>5, <1>6, <1>7, <1>8, <1>9, <1>10, <1>11, <1>12, <1>13, <1>14,
     <1>15
  DEF Next, Locked, SubmitStep, CloseStep, Terminated

-----------------------------------------------------------------------------
\* A pass ends only when nothing queued fits.
LEMMA PassLeavesNothing ==
  ASSUME QueueInv, LockInv, PassDone, NEW c \in QueuedCalls
  PROVE  ~Fits(c)
<1>1. ~closed
  BY DEF LockInv
<1> DEFINE t == Request[c].tenant
           p == Request[c].prio
<1>2. /\ c \in Calls /\ t \in Tenants /\ p \in Priority
      /\ \E k \in Waiting(t, p) : queues[t][p][k] = c
  BY RequestType DEF QueuedCalls, Queued, QueuePositions
<1> HIDE DEF t, p
<1>3. queues[t][p] # <<>>
  BY <1>2 DEF Waiting
<1>4. PICK i \in 1..Len(tenantOrder) : tenantOrder[i] = t
  BY <1>1, <1>2, <1>3 DEF QueueInv, RotationExact, InRotation
<1>5. ~HasAdmittable(p)
  BY <1>2 DEF PassDone
<1> QED  BY <1>2, <1>4, <1>5 DEF HasAdmittable

\* Capacity only depends on the counters.
LEMMA SameFits ==
  ASSUME UNCHANGED resourceVars, NEW c \in Calls
  PROVE  Fits(c)' <=> Fits(c)
BY DEF resourceVars, Fits, concurrencyCapacity, estimateCapacity, bulkheadCapacity

\* A new scheduler's lock is free and its dispatcher about to take it.
LEMMA InitLockInv == Init => LockInv
<1> SUFFICES ASSUME Init PROVE LockInv
  OBVIOUS
<1>1. \A t \in Tenants, p \in Priority : Waiting(t, p) = {}
  BY DEF Init, Waiting
<1>2. QueuedCalls = {}
  BY <1>1, RequestType DEF QueuedCalls, Queued, QueuePositions
<1>3. Cardinality(QueuedCalls \ {mu}) = 0
  <2>1. QueuedCalls \ {mu} = {}
    BY <1>2
  <2> QED  BY <2>1, FS_EmptySet
<1> QED  BY <1>2, <1>3, HolderNames, SchedulerConstants DEF Init, LockInv

\* Every step keeps the lock, the bound on the queue and the wake-up in order.
LEMMA NextLockInv ==
  Shapes /\ QueueInv /\ QueueInv' /\ LockInv /\ [Next]_vars => LockInv'
<1> SUFFICES ASSUME Shapes, QueueInv, QueueInv', LockInv, [Next]_vars PROVE LockInv'
  OBVIOUS
<1>0. /\ pc \in [Calls -> {"start", "enqueue", "wait", "cancel", "undo",
                       "register", "run", "release", "wgdone", "done"}]
      /\ QueuedCalls \in SUBSET Calls /\ QueuedCalls' \in SUBSET Calls
      /\ mu \in Calls \cup {"nobody", "dispatcher"} /\ MaxQueued \in Nat
      /\ "nobody" \notin Calls /\ "dispatcher" \notin Calls
  BY QueuedIn, SchedulerConstants, HolderNames DEF Shapes
<1>q. ASSUME UNCHANGED queues PROVE QueuedCalls' = QueuedCalls
  BY <1>q DEF QueuedCalls, Queued, QueuePositions, Waiting
\* Steps that leave the lock, the queue and the dispatcher alone.
<1>1. ASSUME UNCHANGED <<mu, queues, resourceVars, dispatchVars, closed>>,
             NEW c \in Calls, pc[c] # "enqueue",
             NEW next \in {"start", "wait", "cancel", "undo", "register", "run",
                           "release", "wgdone", "done"},
             pc' = [pc EXCEPT ![c] = next]
      PROVE  LockInv'
  <2>1. QueuedCalls' = QueuedCalls /\ \A d \in QueuedCalls : Fits(d)' <=> Fits(d)
    BY <1>0, <1>1, <1>q, SameFits
  <2>2. \A d \in Calls : pc'[d] = "enqueue" <=> mu' = d
    BY <1>0, <1>1 DEF LockInv
  <2> QED  BY <1>1, <2>1, <2>2 DEF LockInv, dispatchVars
\* The same, for steps that also leave the calls alone.
<1>2. ASSUME UNCHANGED <<mu, queues, resourceVars, dispatchVars, closed, pc>>
      PROVE  LockInv'
  <2>1. QueuedCalls' = QueuedCalls /\ \A d \in QueuedCalls : Fits(d)' <=> Fits(d)
    BY <1>0, <1>2, <1>q, SameFits
  <2> QED  BY <1>2, <2>1 DEF LockInv, dispatchVars
<1>3. CASE DispatchLock
  <2>1. /\ mu = "nobody" /\ mu' = "dispatcher" /\ dpc' = "pass"
        /\ UNCHANGED <<queues, closed, pc>>
    BY <1>3 DEF DispatchLock, queueVars, callVars, closeVars
  <2>2. QueuedCalls' = QueuedCalls /\ QueuedCalls \ {mu'} = QueuedCalls \ {mu}
    BY <1>0, <1>q, <2>1
  <2>3. \A c \in Calls : pc'[c] = "enqueue" <=> mu' = c
    BY <1>0, <2>1 DEF LockInv
  <2> QED  BY <2>1, <2>2, <2>3 DEF LockInv
<1>4. CASE DispatchUnlock
  <2>1. /\ mu = "dispatcher" /\ mu' = "nobody" /\ PassDone
        /\ \/ closed /\ dpc' = "stopped"
           \/ dpc' = "select"
        /\ UNCHANGED <<queues, resourceVars, closed, pc>>
    BY <1>4 DEF DispatchUnlock, queueVars, callVars, closeVars, LockInv
  <2>2. QueuedCalls' = QueuedCalls /\ QueuedCalls \ {mu'} = QueuedCalls \ {mu}
    BY <1>0, <1>q, <2>1
  <2>3. \A c \in Calls : pc'[c] = "enqueue" <=> mu' = c
    BY <1>0, <2>1 DEF LockInv
  <2>4. \A c \in QueuedCalls' : ~Fits(c)'
    BY <1>0, <2>1, <2>2, PassLeavesNothing, SameFits
  <2> QED  BY <2>1, <2>2, <2>3, <2>4 DEF LockInv
<1>5. CASE DispatchSelect
  <2>1. /\ dpc = "select" /\ \/ dpc' = "lock"
                             \/ dpc' = "stopped" /\ closed
        /\ UNCHANGED <<mu, queues, closed, pc>>
    BY <1>5 DEF DispatchSelect, queueVars, callVars, closeVars
  <2>2. QueuedCalls' = QueuedCalls
    BY <1>q, <2>1
  <2> QED  BY <2>1, <2>2 DEF LockInv
<1>6. ASSUME NEW c \in Calls, Expire(c) \/ Admit(c) PROVE LockInv'
  <2>1. /\ mu # "nobody" /\ UNCHANGED <<mu, dispatchVars, closed, pc>>
        /\ \E at : removeFromQueue(c, at)
    BY <1>6 DEF Expire, Admit, closeVars
  <2>2. QueuedCalls' = QueuedCalls \ {c}
    BY <2>1, QueueLeft
  <2>3. Cardinality(QueuedCalls' \ {mu'}) <= Cardinality(QueuedCalls \ {mu})
    <3>1. /\ QueuedCalls \ {mu} \in SUBSET Calls
          /\ QueuedCalls' \ {mu'} \in SUBSET (QueuedCalls \ {mu})
      BY <1>0, <2>1, <2>2
    <3> QED  BY <3>1, FiniteCalls, FS_Subset
  <2>4. /\ Cardinality(QueuedCalls' \ {mu'}) \in Nat
        /\ Cardinality(QueuedCalls \ {mu}) \in Nat
    <3>1. /\ QueuedCalls \ {mu} \in SUBSET Calls
          /\ QueuedCalls' \ {mu'} \in SUBSET Calls
      BY <1>0
    <3> QED  BY <3>1, FiniteCalls
  <2>5. MaxQueued > 0 => Cardinality(QueuedCalls' \ {mu'}) <= MaxQueued
    BY <1>0, <2>3, <2>4 DEF LockInv
  <2> QED  BY <2>1, <2>2, <2>5 DEF LockInv, dispatchVars
<1>7. ASSUME NEW c \in Calls, EnqueuePush(c) PROVE LockInv'
  <2>1. /\ mu = "nobody" /\ mu' = c /\ pc' = [pc EXCEPT ![c] = "enqueue"]
        /\ pc[c] = "start" /\ UNCHANGED <<dispatchVars, closed>> /\ pushLocked(c)
    BY <1>7 DEF EnqueuePush, closeVars
  <2>2. ~closed /\ Request[c].prio \in Priority
    BY <1>7 DEF EnqueuePush, Refusal
  <2>3. c \notin QueuedCalls
    BY <2>1 DEF QueueInv, QueuedSilent
  <2>4. QueuedCalls' = QueuedCalls \cup {c}
    BY <2>1, <2>2, <2>3, PushEffect DEF QueueInv
  <2>5. QueuedCalls' \ {mu'} = QueuedCalls \ {mu}
    BY <1>0, <2>1, <2>3, <2>4
  <2>6. \A d \in Calls : pc'[d] = "enqueue" <=> mu' = d
    BY <1>0, <2>1 DEF LockInv
  <2>7. dpc' = "pass" <=> mu' = "dispatcher"
    BY <1>0, <2>1 DEF LockInv, dispatchVars
  <2>8. mu' # "nobody"
    BY <1>0, <2>1
  <2> QED  BY <2>1, <2>2, <2>5, <2>6, <2>7, <2>8 DEF LockInv, dispatchVars
<1>8. ASSUME NEW c \in Calls, EnqueueFull(c) PROVE LockInv'
  <2>1. /\ pc[c] = "enqueue" /\ mu = c /\ mu' = "nobody" /\ PassDone
        /\ pc' = [pc EXCEPT ![c] = "done"] /\ removeFromQueue(c, cursor)
        /\ UNCHANGED <<resourceVars, dispatchVars, closed>>
    BY <1>8 DEF EnqueueFull, closeVars, LockInv
  <2>2. QueuedCalls' = QueuedCalls \ {c}
    BY <2>1, QueueLeft
  <2>3. QueuedCalls' \ {mu'} = QueuedCalls \ {mu}
    BY <1>0, <2>1, <2>2
  <2>4. \A d \in Calls : pc'[d] = "enqueue" <=> mu' = d
    BY <1>0, <2>1 DEF LockInv
  <2>5. \A d \in QueuedCalls' : ~Fits(d)'
    BY <1>0, <2>1, <2>2, PassLeavesNothing, SameFits
  <2>6. dpc' = "pass" <=> mu' = "dispatcher"
    BY <1>0, <2>1 DEF LockInv, dispatchVars
  <2> QED  BY <2>1, <2>2, <2>3, <2>4, <2>5, <2>6 DEF LockInv, dispatchVars
<1>9. ASSUME NEW c \in Calls, EnqueueDone(c) PROVE LockInv'
  <2>1. /\ pc[c] = "enqueue" /\ mu = c /\ mu' = "nobody" /\ woken' = TRUE
        /\ pc' = [pc EXCEPT ![c] = "wait"] /\ ~OverQueue(c)
        /\ UNCHANGED <<queues, dpc, closed>>
    BY <1>9 DEF EnqueueDone, queueVars, closeVars, LockInv
  <2>2. QueuedCalls' = QueuedCalls
    BY <1>q, <2>1
  <2>3. MaxQueued > 0 => Cardinality(QueuedCalls' \ {mu'}) <= MaxQueued
    <3>1. CASE c \in QueuedCalls
      <4>1. admitted[c] = "none" /\ queuedTotal = Cardinality(QueuedCalls)
        BY <3>1 DEF QueueInv, QueuedSilent
      <4>2. QueuedCalls' \ {mu'} = QueuedCalls /\ Cardinality(QueuedCalls) \in Nat
        BY <1>0, <2>1, <2>2, FiniteCalls
      <4>3. ~(MaxQueued > 0 /\ queuedTotal > MaxQueued)
        BY <2>1, <4>1 DEF OverQueue
      <4> QED  BY <1>0, <4>1, <4>2, <4>3
    <3>2. CASE c \notin QueuedCalls
      <4>1. QueuedCalls' \ {mu'} = QueuedCalls \ {mu}
        BY <1>0, <2>1, <2>2, <3>2
      <4> QED  BY <4>1 DEF LockInv
    <3> QED  BY <3>1, <3>2
  <2>4. \A d \in Calls : pc'[d] = "enqueue" <=> mu' = d
    BY <1>0, <2>1 DEF LockInv
  <2>5. dpc' = "pass" <=> mu' = "dispatcher"
    BY <1>0, <2>1 DEF LockInv
  <2> QED  BY <2>1, <2>2, <2>3, <2>4, <2>5 DEF LockInv
<1>10. ASSUME NEW c \in Calls,
              SubmitDead(c) \/ EnqueueRefused(c) \/ ReceiveOutcome(c)
              \/ CtxWins(c) \/ RegisterInFlight(c) \/ RunReturns(c) \/ WgDone(c)
       PROVE  LockInv'
  <2>1. /\ UNCHANGED <<mu, queues, resourceVars, dispatchVars, closed>>
        /\ pc[c] # "enqueue"
        /\ \E next \in {"start", "wait", "cancel", "undo", "register", "run",
                        "release", "wgdone", "done"} :
             pc' = [pc EXCEPT ![c] = next]
    BY <1>10
    DEF SubmitDead, EnqueueRefused, ReceiveOutcome, CtxWins, RegisterInFlight,
        RunReturns, WgDone, queueVars, closeVars
  <2> QED  BY <1>1, <2>1
<1>11. ASSUME NEW c \in Calls, CancelWaiter(c) PROVE LockInv'
  <2>1. /\ UNCHANGED <<mu, resourceVars, dispatchVars, closed>>
        /\ mu = "nobody" /\ pc[c] = "cancel"
        /\ \/ pc' = [pc EXCEPT ![c] = "undo"]
           \/ pc' = [pc EXCEPT ![c] = "done"]
        /\ removeFromQueue(c, cursor) \/ UNCHANGED queues
    BY <1>11 DEF CancelWaiter, closeVars, queueVars
  <2>2. QueuedCalls' \in SUBSET QueuedCalls
    BY <1>q, <2>1, QueueLeft
  <2>3. \A d \in QueuedCalls' : d \in QueuedCalls /\ (Fits(d)' <=> Fits(d))
    BY <1>0, <2>1, <2>2, SameFits
  <2>4. MaxQueued > 0 => Cardinality(QueuedCalls' \ {mu'}) <= MaxQueued
    <3>1. /\ QueuedCalls \ {mu} \in SUBSET Calls
          /\ QueuedCalls' \ {mu'} \in SUBSET (QueuedCalls \ {mu})
          /\ QueuedCalls' \ {mu'} \in SUBSET Calls
      BY <1>0, <2>1, <2>2
    <3>2. /\ Cardinality(QueuedCalls' \ {mu'}) <= Cardinality(QueuedCalls \ {mu})
          /\ Cardinality(QueuedCalls' \ {mu'}) \in Nat
          /\ Cardinality(QueuedCalls \ {mu}) \in Nat
      BY <3>1, FiniteCalls, FS_Subset
    <3> QED  BY <1>0, <3>2 DEF LockInv
  <2>5. \A d \in Calls : pc'[d] = "enqueue" <=> mu' = d
    BY <1>0, <2>1 DEF LockInv
  <2> QED  BY <2>1, <2>2, <2>3, <2>4, <2>5 DEF LockInv, dispatchVars
<1>12. ASSUME NEW c \in Calls, ReleaseReservationOnly(c) \/ Release(c)
       PROVE  LockInv'
  <2>1. /\ UNCHANGED <<mu, queues, dpc, closed>> /\ woken' = TRUE
        /\ pc[c] \in {"undo", "release"}
        /\ \/ pc' = [pc EXCEPT ![c] = "wgdone"]
           \/ pc' = [pc EXCEPT ![c] = "done"]
    BY <1>12 DEF ReleaseReservationOnly, Release, queueVars, closeVars
  <2>2. QueuedCalls' = QueuedCalls
    BY <1>q, <2>1
  <2>3. \A d \in Calls : pc'[d] = "enqueue" <=> mu' = d
    BY <1>0, <2>1 DEF LockInv
  <2> QED  BY <2>1, <2>2, <2>3 DEF LockInv
<1>13. ASSUME NEW k \in Closers, CloseFirst(k) PROVE LockInv'
  <2>1. /\ UNCHANGED <<mu, dispatchVars, pc>> /\ closed'
        /\ queues' = [t \in Tenants |-> [p \in Priority |-> <<>>]]
    BY <1>13 DEF CloseFirst
  <2>2. \A t \in Tenants, p \in Priority : Waiting(t, p)' = {}
    BY <2>1 DEF Waiting
  <2>3. QueuedCalls' = {}
    BY <2>2, RequestType DEF QueuedCalls, Queued, QueuePositions
  <2>4. Cardinality(QueuedCalls' \ {mu'}) = 0
    <3>1. QueuedCalls' \ {mu'} = {}
      BY <2>3
    <3> QED  BY <3>1, FS_EmptySet
  <2> QED  BY <1>0, <2>1, <2>3, <2>4 DEF LockInv, dispatchVars
<1>14. ASSUME NEW k \in Closers,
              (\E c \in Calls : CloseCancel(k, c)) \/ CloseStartDrain(k)
              \/ CloseAgain(k) \/ AwaitDrain(k) \/ CloseCtxEnds(k)
       PROVE  LockInv'
  BY <1>2, <1>14
  DEF CloseCancel, CloseStartDrain, CloseAgain, AwaitDrain, CloseCtxEnds,
      callVars, closeVars, queueVars
<1>15. ASSUME NEW c \in Calls, CtxEnds(c) PROVE LockInv'
  BY <1>2, <1>15 DEF CtxEnds, callVars, closeVars, queueVars
<1>16. CASE Drain \/ Tick \/ UNCHANGED vars
  BY <1>2, <1>16 DEF Drain, Tick, vars, callVars, closeVars, queueVars
<1> QED
  BY <1>3, <1>4, <1>5, <1>6, <1>7, <1>8, <1>9, <1>10, <1>11, <1>12, <1>13,
     <1>14, <1>15, <1>16
  DEF Next, Dispatcher, Locked, SubmitStep, CloseStep, Terminated

-----------------------------------------------------------------------------
\* A new scheduler has told nobody anything.
LEMMA InitSubmitInv == Init => SubmitInv
<1> SUFFICES ASSUME Init PROVE SubmitInv
  OBVIOUS
<1>1. QueuedCalls = {}
  BY RequestType DEF Init, Waiting, QueuedCalls, Queued, QueuePositions
<1> QED  BY <1>1 DEF Init, SubmitInv

\* Every step keeps what was told true.
LEMMA NextSubmitInv ==
  Shapes /\ QueueInv /\ CloseInv /\ SubmitInv /\ [Next]_vars => SubmitInv'
<1> SUFFICES ASSUME Shapes, QueueInv, CloseInv, SubmitInv, [Next]_vars PROVE SubmitInv'
  OBVIOUS
<1> USE DEF queueVars, closeVars, envVars, Deadline
<1>0. /\ QueuedSilent /\ QueuedCalls \subseteq Calls /\ QueueWellFormed
      /\ toCancel \subseteq Calls
      /\ pc \in [Calls -> {"start", "enqueue", "wait", "cancel", "undo",
                       "register", "run", "release", "wgdone", "done"}]
      /\ admitted \in [Calls -> {"none", "ok", "rejected", "shutdown"}]
      /\ result \in [Calls -> {"none", "invalid", "rejected", "shutdown",
                           "canceled", "ran"}]
      /\ ctxDone \in [Calls -> BOOLEAN]
  BY QueuedIn DEF QueueInv, Shapes
<1>1. ASSUME UNCHANGED queues PROVE QueuedCalls' = QueuedCalls
  BY <1>1 DEF QueuedCalls, Queued, QueuePositions, Waiting
\* Steps that leave the queue and every Submit alone.
<1>2. ASSUME UNCHANGED <<queueVars, callVars, ctxDone, closed>>, toCancel' \subseteq toCancel
      PROVE  SubmitInv'
  BY <1>0, <1>1, <1>2 DEF SubmitInv, callVars
\* Steps of one Submit that leave the queue and its answer alone.
<1>3. ASSUME NEW c \in Calls,
             NEW next \in {"wait", "undo", "run", "release", "wgdone", "done"},
             UNCHANGED <<queueVars, closed, toCancel, ctxDone>>,
             \A d \in Calls : admitted'[d] \in {admitted[d], "none"},
             pc[c] \in {"run", "release", "wgdone"} => next \in {"run", "release", "wgdone", "done"},
             pc[c] # "done", pc' = [pc EXCEPT ![c] = next],
             \A d \in Calls \ {c} : result'[d] = result[d]
      PROVE  SubmitInv'
  BY <1>0, <1>1, <1>3 DEF SubmitInv
<1>4. CASE Dispatcher \/ Drain \/ Tick \/ UNCHANGED vars
  BY <1>2, <1>4
  DEF Dispatcher, DispatchLock, DispatchUnlock, DispatchSelect, Drain, Tick, vars
<1>5. ASSUME NEW c \in Calls, Expire(c) PROVE SubmitInv'
  <2>1. /\ UNCHANGED <<pc, result, ctxDone, closed, toCancel>>
        /\ admitted' = [admitted EXCEPT ![c] = "rejected"]
        /\ QueuedCalls' \subseteq QueuedCalls /\ hasDeadlines' = hasDeadlines
    BY <1>0, <1>5, RemoveEffect DEF Expire, Send, removeFromQueue
  <2> QED  BY <1>0, <2>1 DEF SubmitInv
<1>6. ASSUME NEW c \in Calls, Admit(c) PROVE SubmitInv'
  <2>1. PICK at : removeFromQueue(c, at)
    BY <1>6 DEF Admit
  <2>2. QueuedCalls' \subseteq QueuedCalls /\ hasDeadlines' = hasDeadlines
    BY <1>0, <2>1, RemoveEffect DEF removeFromQueue
  <2>3. /\ UNCHANGED <<pc, result, ctxDone, closed, toCancel>>
        /\ admitted' = [admitted EXCEPT ![c] = "ok"]
    BY <1>6 DEF Admit, Send
  <2> QED  BY <1>0, <2>2, <2>3 DEF SubmitInv
<1>7. ASSUME NEW c \in Calls,
             SubmitDead(c) \/ EnqueueRefused(c) \/ EnqueueDone(c)
             \/ ReleaseReservationOnly(c) \/ RunReturns(c) \/ Release(c) \/ WgDone(c)
      PROVE  SubmitInv'
  BY <1>0, <1>3, <1>7
  DEF SubmitDead, EnqueueRefused, EnqueueDone, ReleaseReservationOnly, RunReturns, Release,
      WgDone
<1>8. ASSUME NEW c \in Calls, RegisterInFlight(c) PROVE SubmitInv'
  BY <1>0, <1>3, <1>8 DEF RegisterInFlight
<1>9. ASSUME NEW c \in Calls, EnqueuePush(c) PROVE SubmitInv'
  <2>1. /\ UNCHANGED <<admitted, result, ctxDone, closed, toCancel>>
        /\ pc[c] = "start" /\ pc' = [pc EXCEPT ![c] = "enqueue"] /\ pushLocked(c)
        /\ Request[c].prio \in Priority
    BY <1>9 DEF EnqueuePush, Refusal
  <2>2. c \notin QueuedCalls
    BY <1>0, <2>1 DEF QueuedSilent
  <2>3. QueuedCalls' = QueuedCalls \cup {c}
    BY <1>0, <2>1, <2>2, PushEffect
  <2>4. hasDeadlines' = (hasDeadlines \/ Request[c].deadline # 0)
    BY <2>1 DEF pushLocked
  <2> QED  BY <1>0, <2>1, <2>3, <2>4 DEF SubmitInv
<1>10. ASSUME NEW c \in Calls, EnqueueFull(c) PROVE SubmitInv'
  <2>1. /\ UNCHANGED <<admitted, ctxDone, closed, toCancel>>
        /\ pc[c] = "enqueue" /\ pc' = [pc EXCEPT ![c] = "done"]
        /\ result' = [result EXCEPT ![c] = "rejected"] /\ removeFromQueue(c, cursor)
    BY <1>10 DEF EnqueueFull
  <2>2. QueuedCalls' \subseteq QueuedCalls /\ hasDeadlines' = hasDeadlines
    BY <1>0, <2>1, RemoveEffect DEF removeFromQueue
  <2> QED  BY <1>0, <2>1, <2>2 DEF SubmitInv
<1>11. ASSUME NEW c \in Calls, ReceiveOutcome(c) PROVE SubmitInv'
  <2>1. /\ UNCHANGED <<queueVars, ctxDone, closed, toCancel>> /\ pc[c] = "wait"
        /\ admitted' = [admitted EXCEPT ![c] = "none"]
        /\ \/ pc' = [pc EXCEPT ![c] = "register"] /\ UNCHANGED result
           \/ pc' = [pc EXCEPT ![c] = "done"] /\ result' = [result EXCEPT ![c] = admitted[c]]
    BY <1>11 DEF ReceiveOutcome
  <2> QED  BY <1>0, <1>1, <2>1 DEF SubmitInv
<1>12. ASSUME NEW c \in Calls, CtxWins(c) PROVE SubmitInv'
  <2>1. /\ UNCHANGED <<queueVars, ctxDone, closed, toCancel, admitted, result>>
        /\ pc[c] = "wait" /\ pc' = [pc EXCEPT ![c] = "cancel"] /\ ctxDone[c]
    BY <1>12 DEF CtxWins
  <2> QED  BY <1>0, <1>1, <2>1 DEF SubmitInv
<1>13. ASSUME NEW c \in Calls, CancelWaiter(c) PROVE SubmitInv'
  <2>1. /\ UNCHANGED <<ctxDone, closed, toCancel>> /\ pc[c] = "cancel"
        /\ admitted' = [admitted EXCEPT ![c] = "none"]
        /\ result' = [result EXCEPT ![c] = "canceled"]
        /\ \/ pc' = [pc EXCEPT ![c] = "undo"]
           \/ pc' = [pc EXCEPT ![c] = "done"]
    BY <1>13 DEF CancelWaiter
  <2>2. QueuedCalls' \subseteq QueuedCalls /\ hasDeadlines' = hasDeadlines
    <3>1. CASE Queued(c)
      BY <1>0, <1>13, <3>1, RemoveEffect DEF CancelWaiter, removeFromQueue
    <3>2. CASE ~Queued(c)
      BY <1>1, <1>13, <3>2 DEF CancelWaiter
    <3> QED  BY <3>1, <3>2
  <2> QED  BY <1>0, <2>1, <2>2 DEF SubmitInv
<1>14. ASSUME NEW k \in Closers, CloseFirst(k) PROVE SubmitInv'
  <2>1. /\ UNCHANGED <<pc, result, ctxDone>> /\ closed' /\ toCancel' = inFlightCancel
        /\ queues' = [t \in Tenants |-> [p \in Priority |-> <<>>]]
    BY <1>14 DEF CloseFirst
  <2>2. QueuedCalls' = {}
    BY <2>1, RequestType DEF QueuedCalls, Queued, QueuePositions, Waiting
  <2> QED  BY <1>0, <2>1, <2>2 DEF SubmitInv, CloseInv
<1>15. ASSUME NEW k \in Closers,
              (\E c \in Calls : CloseCancel(k, c)) \/ CloseStartDrain(k)
              \/ CloseAgain(k) \/ AwaitDrain(k) \/ CloseCtxEnds(k)
       PROVE  SubmitInv'
  BY <1>2, <1>15
  DEF CloseCancel, CloseStartDrain, CloseAgain, AwaitDrain, CloseCtxEnds
<1>16. ASSUME NEW c \in Calls, CtxEnds(c) PROVE SubmitInv'
  <2>1. /\ UNCHANGED <<queueVars, callVars, closed, toCancel>>
        /\ ctxDone' = [ctxDone EXCEPT ![c] = TRUE]
    BY <1>16 DEF CtxEnds
  <2> QED  BY <1>0, <1>1, <2>1 DEF SubmitInv, callVars
<1> QED
  BY <1>4, <1>5, <1>6, <1>7, <1>8, <1>9, <1>10, <1>11, <1>12, <1>13, <1>14, <1>15, <1>16
  DEF Next, Locked, SubmitStep, CloseStep, Terminated

-----------------------------------------------------------------------------
\* The inductive invariant holds in every reachable state.
THEOREM Inductive == Spec => [](Shapes /\ IInv)
<1>1. Init => Shapes /\ IInv
  BY InitShapes, InitQueueInv, InitSlotInv, InitCloseInv, InitLockInv,
     InitSubmitInv DEF IInv
<1>2. Shapes /\ IInv /\ [Next]_vars => (Shapes /\ IInv)'
  BY NextShapes, NextQueueInv, NextSlotInv, NextCloseInv, NextLockInv,
     NextSubmitInv DEF IInv
<1> QED  BY <1>1, <1>2, PTL DEF Spec

\* Every variable has its type, and no counter ever goes below zero: no slot is
\* released twice (unreserveLocked) and wg.Done is never called once too often.
THEOREM TypeCorrect == Spec => []TypeOK
<1>1. Shapes /\ IInv => TypeOK
  <2> SUFFICES ASSUME Shapes, IInv PROVE TypeOK
    OBVIOUS
  <2>1. queuedTotal \in Nat
    BY QueuedIn, FiniteCalls DEF IInv, QueueInv
  <2>2. wg \in Nat
    <3>1. Registered \in SUBSET Calls
      BY DEF Registered
    <3> QED  BY <3>1, FiniteCalls DEF IInv, CloseInv
  <2>3. inFlight \in Nat
    <3>1. Holders \in SUBSET Calls
      BY DEF Holders
    <3> QED  BY <3>1, FiniteCalls DEF IInv, SlotInv, Accounting
  <2>4. \A q \in Providers : providerInFlight[q] \in Nat
    <3>1. \A q \in Providers : HoldersOfProvider(q) \in SUBSET Calls
      BY DEF HoldersOfProvider, Holders
    <3> QED  BY <3>1, FiniteCalls DEF IInv, SlotInv, Accounting
  <2>5. \A t \in Tenants : tenantInFlight[t] \in Nat
    <3>1. \A t \in Tenants : HoldersOfTenant(t) \in SUBSET Calls
      BY DEF HoldersOfTenant, Holders
    <3> QED  BY <3>1, FiniteCalls DEF IInv, SlotInv, Accounting
  <2>6. /\ providerInFlight \in [Providers -> Nat]
        /\ tenantInFlight \in [Tenants -> Nat]
    BY <2>4, <2>5 DEF Shapes
  <2> QED  BY <2>1, <2>2, <2>3, <2>6 DEF TypeOK
<1> QED  BY <1>1, Inductive, PTL

\* Over every interleaving of admissions, cancellations, registrations and
\* Close, the counters are exactly the reservations held.
THEOREM SlotsAccounted == Spec => []Accounting
<1>1. IInv => Accounting
  BY DEF IInv, SlotInv
<1> QED  BY <1>1, Inductive, PTL

\* The estimates of what runs never pass the ceilings, in tokens or in cost, and
\* what is counted is exactly what the holders reserved: estimates are never
\* negative, so what runs asks for no more than what is held.
THEOREM EstimatesHold == Spec => []EstimatesRespected
<1>1. Init => EstimateInv
  BY InitEstimateInv
<1>2. Shapes /\ IInv /\ EstimateInv /\ [Next]_vars => EstimateInv'
  BY NextEstimateInv DEF IInv
<1>3. Shapes /\ IInv /\ EstimateInv => EstimatesRespected
  <2> SUFFICES ASSUME Shapes, IInv, EstimateInv PROVE EstimatesRespected
    OBVIOUS
  <2> DEFINE f == [c \in Calls |-> Request[c].tokens]
             g == [c \in Calls |-> Request[c].cost]
  <2>1. Running \in SUBSET Holders /\ Holders \in SUBSET Calls
    BY DEF Running, Holders
  <2>2. \A c \in Holders : f[c] \in Nat /\ g[c] \in Nat
    <3>1. \A c \in Holders : pc[c] \notin {"start", "done"}
      BY DEF Holders, IInv, QueueInv, AnswerPending
    <3> QED  BY <2>1, <3>1, RequestType DEF EstimateInv
  <2>3. IsFiniteSet(Holders)
    BY <2>1, FiniteCalls
  <2> HIDE DEF f, g
  <2>4. Sum(f, Running) <= Sum(f, Holders) /\ Sum(g, Running) <= Sum(g, Holders)
    BY <2>1, <2>2, <2>3, SumMonotone
  <2>5. /\ TokensOf(Running) <= TokensOf(Holders)
        /\ CostOf(Running) <= CostOf(Holders)
    BY <2>4 DEF TokensOf, CostOf, Sum, f, g
  <2>6. /\ TokensOf(Running) \in Int /\ TokensOf(Holders) \in Int
        /\ CostOf(Running) \in Int /\ CostOf(Holders) \in Int
        /\ MaxInFlightTokens \in Nat /\ MaxInFlightCost \in Nat
    BY <2>1, Asked, SchedulerConstants
  <2> QED  BY <2>5, <2>6 DEF EstimateInv, EstimatesRespected
<1> QED  BY <1>1, <1>2, <1>3, Inductive, PTL DEF Spec

\* No more calls run, in all, for a provider or for a tenant, than the limits
\* allow.
THEOREM LimitsHold == Spec => []LimitsRespected
<1>1. Shapes /\ IInv => LimitsRespected
  <2> SUFFICES ASSUME Shapes, IInv PROVE LimitsRespected
    OBVIOUS
  <2>1. Accounting /\ CountsWithinLimits
    BY DEF IInv, SlotInv
  <2>2. Running \in SUBSET Holders /\ Holders \in SUBSET Calls
        /\ Running \in SUBSET Calls
    BY DEF Running, Holders
  <2>3. \A S \in SUBSET Calls : \A T \in SUBSET S :
          /\ Cardinality(T) \in Nat /\ Cardinality(S) \in Nat
          /\ Cardinality(T) <= Cardinality(S)
    BY FiniteCalls, FS_Subset
  <2>4. MaxConcurrent \in Nat /\ PerProviderConcurrency \in Nat
        /\ PerTenantConcurrency \in Nat
    BY SchedulerConstants
  <2>5. MaxConcurrent > 0 => Cardinality(Running) <= MaxConcurrent
    BY <2>1, <2>2, <2>3, <2>4 DEF Accounting, CountsWithinLimits
  <2>6. ASSUME NEW q \in Providers, PerProviderConcurrency > 0
        PROVE  Cardinality({c \in Running : Request[c].provider = q})
                 <= PerProviderConcurrency
    <3>1. /\ HoldersOfProvider(q) \in SUBSET Calls
          /\ {c \in Running : Request[c].provider = q}
               \in SUBSET HoldersOfProvider(q)
      BY <2>2 DEF HoldersOfProvider
    <3>2. Cardinality(HoldersOfProvider(q)) <= PerProviderConcurrency
      BY <2>1, <2>6 DEF Accounting, CountsWithinLimits
    <3> QED  BY <2>3, <2>4, <3>1, <3>2
  <2>7. ASSUME NEW t \in Tenants, PerTenantConcurrency > 0
        PROVE  Cardinality({c \in Running : Request[c].tenant = t})
                 <= PerTenantConcurrency
    <3>1. /\ HoldersOfTenant(t) \in SUBSET Calls
          /\ {c \in Running : Request[c].tenant = t} \in SUBSET HoldersOfTenant(t)
      BY <2>2 DEF HoldersOfTenant
    <3>2. Cardinality(HoldersOfTenant(t)) <= PerTenantConcurrency
      BY <2>1, <2>7 DEF Accounting, CountsWithinLimits
    <3> QED  BY <2>3, <2>4, <3>1, <3>2
  <2> QED  BY <2>5, <2>6, <2>7 DEF LimitsRespected
<1> QED  BY <1>1, Inductive, PTL

\* A queued call has no answer yet, so no send made under the lock blocks, and
\* a call that waits is queued or answered: nothing submitted is dropped.
THEOREM QueueAnswers == Spec => []OneAnswer
<1>1. IInv => OneAnswer
  <2> SUFFICES ASSUME IInv PROVE QueuedUnanswered /\ NothingDropped
    BY DEF OneAnswer
  <2>1. QueueWellFormed /\ QueuedSilent /\ Answerable
    BY DEF IInv, QueueInv
  <2>2. QueuedUnanswered
    <3> SUFFICES ASSUME NEW c \in Calls, Queued(c)
                 PROVE  /\ admitted[c] = "none"
                        /\ pc[c] \in {"enqueue", "wait", "cancel"}
                        /\ \A j, k \in QueuePositions(c) : j = k
      BY DEF QueuedUnanswered
    <3>1. c \in QueuedCalls
      BY DEF QueuedCalls
    <3>2. \A j, k \in QueuePositions(c) : j = k
      BY <2>1, RequestType DEF QueueWellFormed, QueuePositions
    <3> QED  BY <2>1, <3>1, <3>2 DEF QueuedSilent
  <2>3. NothingDropped
    BY <2>1 DEF NothingDropped, Answerable, QueuedCalls
  <2> QED  BY <2>2, <2>3
<1> QED  BY <1>1, Inductive, PTL

\* queuedTotal counts the queue, which is within MaxQueued whenever the lock is
\* free.
THEOREM QueueHolds == Spec => []QueueBounded
<1>1. Shapes /\ IInv => QueueBounded
  <2> SUFFICES ASSUME Shapes, IInv PROVE QueueBounded
    OBVIOUS
  <2>1. queuedTotal = Cardinality(QueuedCalls)
    BY DEF IInv, QueueInv
  <2>2. ASSUME mu = "nobody" PROVE QueuedCalls \ {mu} = QueuedCalls
    BY <2>2, HolderNames, QueuedIn
  <2> QED  BY <2>1, <2>2 DEF QueueBounded, IInv, LockInv
<1> QED  BY <1>1, Inductive, PTL

\* The rotation holds the tenants with something queued, each once.
THEOREM RotationHolds == Spec => []RotationExact
<1>1. IInv => RotationExact
  BY DEF IInv, QueueInv
<1> QED  BY <1>1, Inductive, PTL

\* The slots are counted exactly, never below zero and never past a limit.
THEOREM CapacityHolds == Spec => []CapacityKept
BY TypeCorrect, SlotsAccounted, LimitsHold, PTL DEF CapacityKept

\* The queue is counted and bounded, and its rotation names who waits, each once.
THEOREM QueueIsKept == Spec => []QueueKept
BY QueueHolds, RotationHolds, PTL DEF QueueKept

\* No wake-up is lost: a dispatcher that sleeps while a queued call has room has
\* been woken.
THEOREM WakeupsKept == Spec => []NoLostWakeup
<1>1. Shapes /\ IInv => NoLostWakeup
  <2> SUFFICES ASSUME Shapes, IInv, mu = "nobody",
                      NEW c \in Calls, Queued(c), Fits(c)
               PROVE  dpc = "lock" \/ (dpc = "select" /\ woken)
    BY DEF NoLostWakeup
  <2>1. c \in QueuedCalls
    BY DEF QueuedCalls
  <2>2. dpc \in {"lock", "pass", "select", "stopped"}
    BY DEF Shapes
  <2>3. dpc # "pass" /\ dpc # "stopped"
    BY <2>1 DEF IInv, LockInv
  <2> QED  BY <2>1, <2>2, <2>3 DEF IInv, LockInv
<1> QED  BY <1>1, Inductive, PTL

\* Close reaches everything that runs, and a reported drain means that nothing
\* accepted is still running or still on the books.
THEOREM CloseHolds == Spec => []CloseKept
<1>1. IInv => CloseKept
  <2> SUFFICES ASSUME IInv PROVE CloseReachesAll /\ DrainedIsQuiet
    BY DEF CloseKept
  <2>1. CloseReachesAll
    BY DEF IInv, CloseInv, CloseReachesAll
  <2>2. ASSUME drainer = "done" PROVE Registered = {}
    BY <2>2 DEF IInv, CloseInv
  <2>3. DrainedIsQuiet
    BY <2>2 DEF IInv, CloseInv, DrainedIsQuiet, Registered
  <2> QED  BY <2>1, <2>3
<1> QED  BY <1>1, Inductive, PTL

\* The wait group is never added to once the scheduler is closed.
THEOREM AddsBeforeClose == Spec => NoAddAfterClose
<1>1. Shapes /\ [Next]_vars => [closed => wg' <= wg]_vars
  <2> SUFFICES ASSUME Shapes, Next, closed PROVE wg' <= wg
    BY DEF vars
  <2>0. wg \in Int
    BY DEF Shapes
  <2>1. ASSUME NEW c \in Calls, RegisterInFlight(c) PROVE wg' = wg
    BY <2>1 DEF RegisterInFlight, runVars
  <2>2. ASSUME NEW c \in Calls, WgDone(c) PROVE wg' = wg - 1
    BY <2>2 DEF WgDone
  <2>3. ASSUME NEW c \in Calls,
               \/ Locked(c) \/ RunReturns(c) \/ CtxEnds(c)
               \/ SubmitDead(c) \/ EnqueueRefused(c) \/ EnqueuePush(c)
               \/ EnqueueFull(c) \/ EnqueueDone(c) \/ ReceiveOutcome(c)
               \/ CtxWins(c) \/ CancelWaiter(c) \/ ReleaseReservationOnly(c)
               \/ Release(c)
        PROVE  wg' = wg
    BY <2>3
    DEF Locked, Expire, Admit, RunReturns, CtxEnds, SubmitDead, EnqueueRefused,
        EnqueuePush, EnqueueFull, EnqueueDone, ReceiveOutcome, CtxWins,
        CancelWaiter, ReleaseReservationOnly, Release, runVars
  <2>4. ASSUME NEW k \in Closers, CloseStep(k) \/ CloseCtxEnds(k) PROVE wg' = wg
    BY <2>4
    DEF CloseStep, CloseFirst, CloseAgain, CloseCancel, CloseStartDrain,
        AwaitDrain, CloseCtxEnds, runVars
  <2>5. ASSUME Dispatcher \/ Drain \/ Tick \/ Terminated PROVE wg' = wg
    <3>1. CASE Dispatcher
      BY <3>1
      DEF Dispatcher, DispatchLock, DispatchUnlock, DispatchSelect, runVars
    <3>2. CASE Drain \/ Tick \/ Terminated
      BY <3>2 DEF Drain, Tick, Terminated, vars, runVars
    <3> QED  BY <2>5, <3>1, <3>2
  <2> QED  BY <2>0, <2>1, <2>2, <2>3, <2>4, <2>5 DEF Next, SubmitStep
<1> QED  BY <1>1, Inductive, PTL DEF Spec, NoAddAfterClose

\* Nobody is let in after its deadline, and nobody is turned away for a full queue
\* unless it cannot run itself and MaxQueued others wait.
THEOREM AdmissionIsRight == Spec => AdmissionRight
<1> USE DEF queueVars, closeVars, envVars, callVars
<1>1. ASSUME Shapes, IInv, Next, NEW c \in Calls,
             admitted[c] # "ok", admitted'[c] = "ok"
      PROVE  ~Expired(c)
  <2>0. admitted \in [Calls -> {"none", "ok", "rejected", "shutdown"}]
    BY <1>1 DEF Shapes
  <2>1. Admit(c)
    <3>1. ASSUME NEW d \in Calls, Admit(d) PROVE d = c
      BY <1>1, <2>0, <3>1 DEF Admit, Send
    <3>2. ASSUME NEW d \in Calls, Expire(d) PROVE FALSE
      BY <1>1, <2>0, <3>2 DEF Expire, Send
    <3>3. ASSUME NEW d \in Calls, SubmitStep(d) \/ RunReturns(d) \/ CtxEnds(d) PROVE FALSE
      BY <1>1, <2>0, <3>3
      DEF SubmitStep, SubmitDead, EnqueueRefused, EnqueuePush, EnqueueFull, EnqueueDone,
          ReceiveOutcome, CtxWins, CancelWaiter, ReleaseReservationOnly, RegisterInFlight,
          Release, WgDone, RunReturns, CtxEnds
    <3>4. ASSUME NEW k \in Closers, CloseStep(k) \/ CloseCtxEnds(k) PROVE FALSE
      BY <1>1, <2>0, <3>4
      DEF CloseStep, CloseFirst, CloseAgain, CloseCancel, CloseStartDrain, AwaitDrain,
          CloseCtxEnds
    <3>5. CASE Dispatcher \/ Drain \/ Tick \/ Terminated
      BY <1>1, <3>5
      DEF Dispatcher, DispatchLock, DispatchUnlock, DispatchSelect, Drain, Tick, Terminated,
          vars
    <3> QED  BY <1>1, <3>1, <3>2, <3>3, <3>4, <3>5 DEF Next, Locked
  <2>2. PICK at : removeFromQueue(c, at)
    BY <2>1 DEF Admit
  <2>3. c \in QueuedCalls
    BY <1>1, <2>2, RemoveEffect DEF IInv, QueueInv
  <2>4. c \notin ToExpire
    BY <2>1 DEF Admit
  <2> QED  BY <1>1, <2>3, <2>4 DEF IInv, SubmitInv, ToExpire, QueuedCalls, Expired
<1>2. ASSUME Shapes, IInv, Next, NEW c \in Calls,
             pc[c] = "enqueue", result'[c] = "rejected"
      PROVE  ~Fits(c) /\ queuedTotal' = MaxQueued
  <2>0. /\ result \in [Calls -> {"none", "invalid", "rejected", "shutdown",
                           "canceled", "ran"}]
        /\ result[c] = "none"
    BY <1>2 DEF Shapes, IInv, SubmitInv
  <2>1. EnqueueFull(c)
    <3>1. ASSUME NEW d \in Calls, EnqueueFull(d) PROVE d = c
      BY <1>2, <2>0, <3>1 DEF EnqueueFull
    <3>2. ASSUME NEW d \in Calls, ~EnqueueFull(d),
                 Locked(d) \/ SubmitStep(d) \/ RunReturns(d) \/ CtxEnds(d)
          PROVE  FALSE
      BY <1>2, <2>0, <3>2
      DEF Locked, Expire, Admit, SubmitStep, SubmitDead, EnqueueRefused, EnqueuePush,
          EnqueueDone, ReceiveOutcome, CtxWins, CancelWaiter, ReleaseReservationOnly,
          RegisterInFlight, Release, WgDone, RunReturns, CtxEnds
    <3>3. ASSUME NEW k \in Closers, CloseStep(k) \/ CloseCtxEnds(k) PROVE FALSE
      BY <1>2, <2>0, <3>3
      DEF CloseStep, CloseFirst, CloseAgain, CloseCancel, CloseStartDrain, AwaitDrain,
          CloseCtxEnds
    <3>4. CASE Dispatcher \/ Drain \/ Tick \/ Terminated
      BY <1>2, <2>0, <3>4
      DEF Dispatcher, DispatchLock, DispatchUnlock, DispatchSelect, Drain, Tick, Terminated,
          vars
    <3> QED  BY <1>2, <3>1, <3>2, <3>3, <3>4 DEF Next
  <2>2. /\ PassDone /\ removeFromQueue(c, cursor) /\ MaxQueued > 0 /\ queuedTotal > MaxQueued
    BY <2>1 DEF EnqueueFull, OverQueue
  <2>3. c \in QueuedCalls /\ queuedTotal' = queuedTotal - 1
    BY <1>2, <2>2, RemoveEffect DEF IInv, QueueInv
  <2>4. ~Fits(c)
    BY <1>2, <2>2, <2>3, PassLeavesNothing DEF IInv
  <2>5. IsFiniteSet(QueuedCalls)
    BY QueuedIn, SchedulerConstants, FS_Subset
  <2>6. Cardinality(QueuedCalls \ {c}) = Cardinality(QueuedCalls) - 1
    BY <2>3, <2>5, FS_RemoveElement
  <2>7. mu = c
    BY <1>2 DEF IInv, LockInv
  <2>8. Cardinality(QueuedCalls) <= MaxQueued + 1
    <3>1. Cardinality(QueuedCalls) \in Nat
      BY <2>5, FS_CardinalityType
    <3> QED  BY <1>2, <2>2, <2>6, <2>7, <3>1, SchedulerConstants DEF IInv, LockInv
  <2>9. queuedTotal = Cardinality(QueuedCalls) /\ queuedTotal \in Int
    BY <1>2 DEF IInv, QueueInv, Shapes
  <2> QED  BY <2>2, <2>3, <2>4, <2>8, <2>9, SchedulerConstants
<1>3. Shapes /\ IInv /\ [Next]_vars =>
        [\A c \in Calls : admitted[c] # "ok" /\ admitted'[c] = "ok" => ~Expired(c)]_vars
  BY <1>1
<1>4. Shapes /\ IInv /\ [Next]_vars =>
        [\A c \in Calls : pc[c] = "enqueue" /\ result'[c] = "rejected" =>
           ~Fits(c) /\ queuedTotal' = MaxQueued]_vars
  BY <1>2
<1> QED
  BY <1>3, <1>4, Inductive, PTL DEF Spec, AdmissionRight, DeadlineKept, FullQueueOnly

-----------------------------------------------------------------------------
(***************************************************************************)
(* The scheduler implements module Gate, step by step.                     *)
(***************************************************************************)
\* Where a call is seen from outside, by where its Submit is.
LEMMA PlaceIs ==
  ASSUME Shapes, NEW c \in Calls
  PROVE  /\ Place[c] = PlaceOf(c)
         /\ pc[c] = "start" => PlaceOf(c) = "out"
         /\ pc[c] \in {"enqueue", "wait", "cancel"} =>
              PlaceOf(c) = IF admitted[c] = "ok" THEN "held" ELSE "waiting"
         /\ pc[c] = "register" => PlaceOf(c) = "held"
         /\ pc[c] = "run" => PlaceOf(c) = "running"
         /\ pc[c] \in {"undo", "release"} => PlaceOf(c) = "leaving"
         /\ pc[c] \in {"wgdone", "done"} => PlaceOf(c) = "gone"
<1>1. pc[c] \in {"start", "enqueue", "wait", "cancel", "undo", "register", "run",
                 "release", "wgdone", "done"}
  BY DEF Shapes
<1> QED  BY <1>1 DEF Place, PlaceOf

\* A step that moves only one call moves only its place.
LEMMA PlaceMoves ==
  ASSUME Shapes, Shapes', NEW c \in Calls,
         \A d \in Calls \ {c} : pc'[d] = pc[d] /\ admitted'[d] = admitted[d]
  PROVE  /\ Place' = [Place EXCEPT ![c] = PlaceOf(c)']
         /\ pc'[c] \in {"enqueue", "wait", "cancel"} =>
              PlaceOf(c)' = IF admitted'[c] = "ok" THEN "held" ELSE "waiting"
         /\ pc'[c] = "register" => PlaceOf(c)' = "held"
         /\ pc'[c] = "run" => PlaceOf(c)' = "running"
         /\ pc'[c] \in {"undo", "release"} => PlaceOf(c)' = "leaving"
         /\ pc'[c] \in {"wgdone", "done"} => PlaceOf(c)' = "gone"
<1>1. \A d \in Calls \ {c} : PlaceOf(d)' = PlaceOf(d)
  BY DEF PlaceOf
<1>2. Place' = [Place EXCEPT ![c] = PlaceOf(c)']
  BY <1>1 DEF Place
<1>3. pc'[c] \in {"start", "enqueue", "wait", "cancel", "undo", "register", "run",
                  "release", "wgdone", "done"}
  BY DEF Shapes
<1> QED  BY <1>2, <1>3 DEF PlaceOf

\* A step that changes no call's Submit and no answer moves nobody.
LEMMA PlaceStays == UNCHANGED <<pc, admitted>> => UNCHANGED Place
BY DEF Place, PlaceOf

\* Inside the gate are exactly the calls that hold a reservation.
LEMMA InsideHolds == Shapes /\ QueueInv => G!Inside = Holders
<1> SUFFICES ASSUME Shapes, QueueInv, NEW c \in Calls
             PROVE  Place[c] \in {"held", "running", "leaving"} <=>
                      \/ admitted[c] = "ok"
                      \/ pc[c] \in {"register", "run", "release", "undo"}
  BY DEF G!Inside, Holders
<1>1. pc[c] \in {"start", "enqueue", "wait", "cancel", "undo", "register", "run",
                 "release", "wgdone", "done"}
  BY DEF Shapes
<1>2. admitted[c] = "ok" => pc[c] \in {"enqueue", "wait", "cancel"}
  BY DEF QueueInv, AnswerPending
<1> QED  BY <1>1, <1>2, PlaceIs

\* Every step of the scheduler is a step of the gate, or leaves the gate as it is.
LEMMA StepImplementsGate ==
  ASSUME Shapes, Shapes', IInv, [Next]_vars
  PROVE  [G!GateNext]_(G!gateVars)
<1> USE DEF queueVars, closeVars, envVars, callVars, G!gateVars
<1>0. /\ QueuedSilent /\ AnswerPending /\ QueueWellFormed
      /\ LockInv /\ SubmitInv /\ CloseInv /\ SlotInv /\ QueueInv
      /\ pc \in [Calls -> {"start", "enqueue", "wait", "cancel", "undo",
                       "register", "run", "release", "wgdone", "done"}]
      /\ admitted \in [Calls -> {"none", "ok", "rejected", "shutdown"}]
  BY DEF IInv, QueueInv, Shapes
<1> DEFINE At(c, place) == Place[c] = place
           Moved(c, to) == Place' = [Place EXCEPT ![c] = to]
\* A step of one call is enough.
<1>1. ASSUME NEW c \in Calls, G!GateStep(c) PROVE G!GateNext
  BY <1>1 DEF G!GateNext
<1>2. ASSUME UNCHANGED <<pc, admitted, result, ctxDone, closed, runCanceled>>
      PROVE  UNCHANGED G!gateVars
  BY <1>2, PlaceStays
<1>3. ASSUME NEW c \in Calls, SubmitDead(c) PROVE G!Refuse(c, "canceled")
  <2>1. At(c, "out") /\ Moved(c, "gone")
    BY <1>0, <1>3, PlaceIs, PlaceMoves DEF SubmitDead
  <2> QED  BY <1>3, <2>1 DEF SubmitDead, G!Refuse, G!Truthful, G!Refusals
<1>4. ASSUME NEW c \in Calls, EnqueueRefused(c) PROVE G!Refuse(c, Refusal(c))
  <2>1. At(c, "out") /\ Moved(c, "gone")
    BY <1>0, <1>4, PlaceIs, PlaceMoves DEF EnqueueRefused
  <2>2. G!Truthful(c, Refusal(c))
    BY <1>4 DEF EnqueueRefused, Refusal, G!Truthful, G!Refusals
  <2> QED  BY <1>4, <2>1, <2>2 DEF EnqueueRefused, G!Refuse
<1>5. ASSUME NEW c \in Calls, EnqueuePush(c) PROVE G!Submit(c)
  <2>1. ~closed /\ admitted[c] = "none"
    BY <1>0, <1>5 DEF EnqueuePush, Refusal, AnswerPending
  <2>2. At(c, "out") /\ Moved(c, "waiting")
    BY <1>0, <1>5, <2>1, PlaceIs, PlaceMoves DEF EnqueuePush
  <2> QED  BY <1>5, <2>1, <2>2 DEF EnqueuePush, G!Submit
<1>6. ASSUME NEW c \in Calls, EnqueueFull(c) PROVE G!Refuse(c, "rejected")
  <2>1. At(c, "waiting") /\ Moved(c, "gone")
    BY <1>0, <1>6, PlaceIs, PlaceMoves DEF EnqueueFull, OverQueue
  <2> QED  BY <1>6, <2>1 DEF EnqueueFull, G!Refuse, G!Truthful, G!Refusals
\* The lock's release, and the select that goes for the ended context, show nothing.
<1>7. ASSUME NEW c \in Calls, EnqueueDone(c) \/ CtxWins(c) PROVE UNCHANGED G!gateVars
  <2>1. Moved(c, Place[c])
    BY <1>0, <1>7, PlaceIs, PlaceMoves DEF EnqueueDone, CtxWins
  <2>2. UNCHANGED Place
    BY <2>1 DEF Place
  <2> QED  BY <1>7, <2>2 DEF EnqueueDone, CtxWins
<1>8. ASSUME NEW c \in Calls, Expire(c) PROVE UNCHANGED G!gateVars
  <2>1. pc[c] \in {"enqueue", "wait", "cancel"} /\ admitted[c] = "none"
    BY <1>0, <1>8 DEF Expire, ToExpire, QueuedSilent, QueuedCalls
  <2>2. Moved(c, Place[c])
    BY <1>0, <1>8, <2>1, PlaceIs, PlaceMoves DEF Expire, Send
  <2>3. UNCHANGED Place
    BY <2>2 DEF Place
  <2> QED  BY <1>8, <2>3 DEF Expire
<1>9. ASSUME NEW c \in Calls, Admit(c) PROVE G!Admit(c)
  <2>1. PICK at : removeFromQueue(c, at)
    BY <1>9 DEF Admit
  <2>2. c \in QueuedCalls
    BY <1>0, <2>1, RemoveEffect
  <2>3. pc[c] \in {"enqueue", "wait", "cancel"} /\ admitted[c] = "none" /\ ~closed
    BY <1>0, <2>2 DEF QueuedSilent, LockInv
  <2>4. At(c, "waiting") /\ Moved(c, "held")
    BY <1>0, <1>9, <2>3, PlaceIs, PlaceMoves DEF Admit, Send
  <2>5. MaxConcurrent = 0 \/ Cardinality(G!Inside) < MaxConcurrent
    BY <1>0, <1>9, InsideHolds
    DEF Admit, IsNext, Fits, concurrencyCapacity, SlotInv, Accounting
  <2>6. UNCHANGED <<result, ctxDone, closed, runCanceled>>
    BY <1>9 DEF Admit
  <2>7. G!Cardinality(G!Inside) = Cardinality(G!Inside)
    BY DEF G!Cardinality, Cardinality
  <2> QED  BY <2>3, <2>4, <2>5, <2>6, <2>7 DEF G!Admit
<1>10. ASSUME NEW c \in Calls, ReceiveOutcome(c)
       PROVE  [G!GateStep(c)]_(G!gateVars)
  <2>1. CASE admitted[c] = "ok"
    <3>1. Moved(c, Place[c])
      BY <1>0, <1>10, <2>1, PlaceIs, PlaceMoves DEF ReceiveOutcome
    <3>2. UNCHANGED Place
      BY <3>1 DEF Place
    <3> QED  BY <1>10, <2>1, <3>2 DEF ReceiveOutcome
  <2>2. CASE admitted[c] # "ok"
    <3>1. At(c, "waiting") /\ Moved(c, "gone")
      BY <1>0, <1>10, <2>2, PlaceIs, PlaceMoves DEF ReceiveOutcome
    <3>2. G!Truthful(c, admitted[c])
      BY <1>0, <1>10, <2>2 DEF ReceiveOutcome, SubmitInv, G!Truthful, G!Refusals
    <3>3. G!Refuse(c, admitted[c])
      BY <1>10, <2>2, <3>1, <3>2 DEF ReceiveOutcome, G!Refuse
    <3> QED  BY <3>2, <3>3 DEF G!GateStep, G!Truthful
  <2> QED  BY <2>1, <2>2
<1>11. ASSUME NEW c \in Calls, CancelWaiter(c)
       PROVE  G!Refuse(c, "canceled") \/ G!GiveUp(c, "canceled")
  <2>1. G!Truthful(c, "canceled")
    BY <1>0, <1>11 DEF CancelWaiter, SubmitInv, G!Truthful, G!Refusals
  <2>2. CASE admitted[c] = "ok"
    <3>1. At(c, "held") /\ Moved(c, "leaving")
      BY <1>0, <1>11, <2>2, PlaceIs, PlaceMoves DEF CancelWaiter
    <3> QED  BY <1>11, <2>1, <3>1 DEF CancelWaiter, G!GiveUp
  <2>3. CASE admitted[c] # "ok"
    <3>1. At(c, "waiting") /\ Moved(c, "gone")
      BY <1>0, <1>11, <2>3, PlaceIs, PlaceMoves DEF CancelWaiter
    <3> QED  BY <1>11, <2>1, <3>1 DEF CancelWaiter, G!Refuse
  <2> QED  BY <2>2, <2>3
<1>12. ASSUME NEW c \in Calls, RegisterInFlight(c)
       PROVE  G!Start(c) \/ G!GiveUp(c, "shutdown")
  <2>1. CASE closed
    <3>1. At(c, "held") /\ Moved(c, "leaving")
      BY <1>0, <1>12, <2>1, PlaceIs, PlaceMoves DEF RegisterInFlight
    <3> QED  BY <1>12, <2>1, <3>1
             DEF RegisterInFlight, G!GiveUp, G!Truthful, G!Refusals
  <2>2. CASE ~closed
    <3>1. At(c, "held") /\ Moved(c, "running")
      BY <1>0, <1>12, <2>2, PlaceIs, PlaceMoves DEF RegisterInFlight
    <3> QED  BY <1>12, <2>2, <3>1 DEF RegisterInFlight, G!Start
  <2> QED  BY <2>1, <2>2
<1>13. ASSUME NEW c \in Calls, RunReturns(c) PROVE G!Return(c)
  <2>1. At(c, "running") /\ Moved(c, "leaving")
    BY <1>0, <1>13, PlaceIs, PlaceMoves DEF RunReturns
  <2> QED  BY <1>13, <2>1 DEF RunReturns, G!Return
<1>14. ASSUME NEW c \in Calls, Release(c) \/ ReleaseReservationOnly(c) PROVE G!Leave(c)
  <2>1. At(c, "leaving") /\ Moved(c, "gone")
    BY <1>0, <1>14, PlaceIs, PlaceMoves DEF Release, ReleaseReservationOnly
  <2> QED  BY <1>14, <2>1 DEF Release, ReleaseReservationOnly, G!Leave
<1>15. ASSUME NEW c \in Calls, WgDone(c) PROVE UNCHANGED G!gateVars
  <2>1. Moved(c, Place[c])
    BY <1>0, <1>15, PlaceIs, PlaceMoves DEF WgDone
  <2>2. UNCHANGED Place
    BY <2>1 DEF Place
  <2> QED  BY <1>15, <2>2 DEF WgDone
<1>16. ASSUME NEW k \in Closers, CloseFirst(k) PROVE G!Shut
  <2>1. \A c \in Calls : PlaceOf(c)' = PlaceOf(c)
    <3> SUFFICES ASSUME NEW c \in Calls PROVE PlaceOf(c)' = PlaceOf(c)
      OBVIOUS
    <3>1. pc' = pc /\ (admitted'[c] = "ok" <=> admitted[c] = "ok")
      BY <1>0, <1>16 DEF CloseFirst
    <3> QED  BY <3>1 DEF PlaceOf
  <2>2. UNCHANGED Place
    BY <2>1 DEF Place
  <2> QED  BY <1>16, <2>2 DEF CloseFirst, G!Shut
<1>17. ASSUME NEW k \in Closers, NEW c \in Calls, CloseCancel(k, c) PROVE G!Stop(c)
  <2>1. closed /\ pc[c] \in {"run", "release", "wgdone", "done"}
    BY <1>0, <1>17 DEF CloseCancel, CloseInv, SubmitInv
  <2>2. Place[c] \in {"running", "leaving", "gone"} /\ UNCHANGED Place
    BY <1>17, <2>1, PlaceIs, PlaceStays DEF CloseCancel
  <2> QED  BY <1>17, <2>1, <2>2 DEF CloseCancel, G!Stop
<1>18. ASSUME NEW c \in Calls, CtxEnds(c) PROVE G!End(c)
  BY <1>18, PlaceStays DEF CtxEnds, G!End
\* The dispatcher, the clock and the rest of Close show nothing.
<1>19. CASE Dispatcher \/ Drain \/ Tick \/ UNCHANGED vars
  BY <1>2, <1>19
  DEF Dispatcher, DispatchLock, DispatchUnlock, DispatchSelect, Drain, Tick, vars
<1>20. ASSUME NEW k \in Closers,
              CloseStartDrain(k) \/ CloseAgain(k) \/ AwaitDrain(k) \/ CloseCtxEnds(k)
       PROVE  UNCHANGED G!gateVars
  BY <1>2, <1>20 DEF CloseStartDrain, CloseAgain, AwaitDrain, CloseCtxEnds
<1> HIDE DEF G!gateVars
<1>21. ASSUME NEW c \in Calls,
              \/ SubmitDead(c) \/ EnqueueRefused(c) \/ EnqueuePush(c) \/ EnqueueFull(c)
              \/ Admit(c) \/ CancelWaiter(c) \/ RegisterInFlight(c) \/ RunReturns(c)
              \/ Release(c) \/ ReleaseReservationOnly(c) \/ CtxEnds(c)
              \/ \E k \in Closers : CloseCancel(k, c)
       PROVE  G!GateNext
  <2>1. ASSUME NEW why, G!Refuse(c, why) \/ G!GiveUp(c, why) PROVE G!GateStep(c)
    BY <2>1 DEF G!Refuse, G!GiveUp, G!Truthful, G!GateStep
  <2> QED
    BY <1>1, <1>3, <1>4, <1>5, <1>6, <1>9, <1>11, <1>12, <1>13, <1>14, <1>17, <1>18, <1>21,
       <2>1 DEF G!GateStep
<1> QED
  BY <1>1, <1>7, <1>8, <1>10, <1>15, <1>16, <1>19, <1>20, <1>21
  DEF Next, Locked, SubmitStep, CloseStep, Terminated, G!GateNext

\* The scheduler implements the gate: no interleaving of Submit, the dispatcher, the
\* ends of contexts and Close admits past the limit or into a closed gate, gives a
\* caller a reason that is not true, or gives a slot back twice.
THEOREM GateImplemented == Spec => ImplementsGate
<1>1. Init => G!GateInit
  BY DEF Init, G!GateInit, Place, PlaceOf
<1>2. Shapes /\ Shapes' /\ IInv /\ [Next]_vars => [G!GateNext]_(G!gateVars)
  BY StepImplementsGate
<1> QED  BY <1>1, <1>2, Inductive, PTL DEF Spec, ImplementsGate, G!GateSpec

=============================================================================

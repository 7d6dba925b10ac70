----------------------------- MODULE Scheduler -----------------------------
(***************************************************************************)
(* The admission gate of v2/internal/ops/scheduler.go.                     *)
(*                                                                         *)
(* Each member of Calls is the goroutine of one Submit, each member of     *)
(* Closers the goroutine of one Close; the dispatcher is the one goroutine *)
(* the scheduler owns.  Every critical section of Scheduler.mu is one      *)
(* step, except the two that run admitAllLocked (the tail of enqueue and   *)
(* the body of dispatchLoop): those hold `mu' over several steps, one per  *)
(* waiter that is expired or admitted.  What a goroutine does with the     *)
(* lock free (receive, select, cancel, wg.Done) is a step of its own.      *)
(***************************************************************************)
EXTENDS Integers, Sequences, FiniteSets, Functions
LOCAL INSTANCE SequencesExt

CONSTANTS
  Calls,                  \* the Submit calls, each made at most once
  Closers,                \* the Close calls
  MayCancel,              \* the calls whose ctx the environment may end
  Tenants, Providers,     \* names a request may carry
  Request,                \* the SubmitRequest of each call
  MaxConcurrent, MaxQueued, MaxInFlightTokens, MaxInFlightCost,
  PerProviderConcurrency, PerTenantConcurrency,   \* SchedulerLimits, 0 = none
  MaxTime                 \* bound on the clock

\* SchedPriorityLow, SchedPriorityNormal, SchedPriorityHigh.
Priority == 0..2

\* A SubmitRequest.  An estimate that is not a number is a negative one here:
\* both fail the same check.  Deadline 0 is the zero time.
SubmitRequest ==
  [tenant : Tenants, provider : Providers, prio : Int,
   tokens : Int, cost : Int, deadline : Nat]

ASSUME SchedulerConstants ==
  /\ IsFiniteSet(Calls)
  /\ Request \in [Calls -> SubmitRequest]
  /\ MayCancel \subseteq Calls
  /\ MaxConcurrent \in Nat /\ MaxQueued \in Nat
  /\ MaxInFlightTokens \in Nat /\ MaxInFlightCost \in Nat
  /\ PerProviderConcurrency \in Nat /\ PerTenantConcurrency \in Nat
  /\ MaxTime \in Nat

\* Holders of Scheduler.mu that are not calls.
ASSUME HolderNames == {"nobody", "dispatcher"} \cap Calls = {}

VARIABLES
  mu,                 \* "nobody", "dispatcher", or the call inside enqueue
  closed,
  queues,             \* queues[tenant][priority]: FIFO of waiting calls
  tenantOrder,        \* the rotation
  cursor,             \* cursor[priority]: 0-based index into tenantOrder
  queuedTotal,
  hasDeadlines,
  inFlight, inFlightTokens, inFlightCost, providerInFlight, tenantInFlight,
  inFlightCancel,     \* calls whose cancel function Close can reach
  wg,                 \* the wait group's counter
  woken,              \* the wake channel the dispatcher captured is closed
  dpc,                \* where the dispatcher is
  drainer,            \* the goroutine Close starts: "none", "waiting", "done"
  pc,                 \* where each Submit is
  admitted,           \* content of each waiter's one-place outcome channel
  result,             \* what each Submit returns
  ctxDone,            \* the caller's ctx has ended
  runCanceled,        \* Close has called the cancel of the derived ctx
  cpc, closeResult, closeCtxDone,   \* per Close call
  toCancel,           \* the cancel functions the first Close still has to call
  now

queueVars == <<queues, tenantOrder, cursor, queuedTotal, hasDeadlines>>
resourceVars ==
  <<inFlight, inFlightTokens, inFlightCost, providerInFlight, tenantInFlight>>
runVars == <<inFlightCancel, wg>>
dispatchVars == <<woken, dpc>>
callVars == <<pc, admitted, result>>
closeVars == <<closed, drainer, cpc, closeResult, toCancel, runCanceled>>
envVars == <<ctxDone, closeCtxDone, now>>

vars == <<mu, queueVars, resourceVars, runVars, dispatchVars, callVars,
          closeVars, envVars>>

-----------------------------------------------------------------------------
\* NewScheduler: nothing queued, nothing running, the dispatcher just started.
Init ==
  /\ mu = "nobody" /\ closed = FALSE
  /\ queues = [t \in Tenants |-> [p \in Priority |-> <<>>]]
  /\ tenantOrder = <<>>
  /\ cursor = [p \in Priority |-> 0]
  /\ queuedTotal = 0 /\ hasDeadlines = FALSE
  /\ inFlight = 0 /\ inFlightTokens = 0 /\ inFlightCost = 0
  /\ providerInFlight = [q \in Providers |-> 0]
  /\ tenantInFlight = [t \in Tenants |-> 0]
  /\ inFlightCancel = {} /\ wg = 0
  /\ woken = FALSE /\ dpc = "lock" /\ drainer = "none"
  /\ pc = [c \in Calls |-> "start"]
  /\ admitted = [c \in Calls |-> "none"]
  /\ result = [c \in Calls |-> "none"]
  /\ ctxDone = [c \in Calls |-> FALSE]
  /\ runCanceled = [c \in Calls |-> FALSE]
  /\ cpc = [k \in Closers |-> "idle"]
  /\ closeResult = [k \in Closers |-> "none"]
  /\ closeCtxDone = [k \in Closers |-> FALSE]
  /\ toCancel = {}
  /\ now = 1

-----------------------------------------------------------------------------
\* Mutant: the limit is compared with <= in place of <.
concurrencyCapacity_AtMost == MaxConcurrent = 0 \/ inFlight <= MaxConcurrent

\* Capacity checks: each limit of zero is no limit.
concurrencyCapacity == MaxConcurrent = 0 \/ inFlight < MaxConcurrent

\* Mutant: only what already runs is compared, not the request itself.
estimateCapacity_WithoutRequest(c) ==
  /\ MaxInFlightTokens = 0 \/ inFlightTokens <= MaxInFlightTokens
  /\ MaxInFlightCost = 0 \/ inFlightCost <= MaxInFlightCost

estimateCapacity(c) ==
  /\ MaxInFlightTokens = 0
       \/ inFlightTokens + Request[c].tokens <= MaxInFlightTokens
  /\ MaxInFlightCost = 0
       \/ inFlightCost + Request[c].cost <= MaxInFlightCost

\* Mutant: the tenant's limit is not looked at.
bulkheadCapacity_NoTenant(c) ==
  PerProviderConcurrency = 0
    \/ providerInFlight[Request[c].provider] < PerProviderConcurrency

\* Mutant: the provider's limit is not looked at.
bulkheadCapacity_NoProvider(c) ==
  PerTenantConcurrency = 0
    \/ tenantInFlight[Request[c].tenant] < PerTenantConcurrency

bulkheadCapacity(c) ==
  /\ PerProviderConcurrency = 0
       \/ providerInFlight[Request[c].provider] < PerProviderConcurrency
  /\ PerTenantConcurrency = 0
       \/ tenantInFlight[Request[c].tenant] < PerTenantConcurrency

Fits(c) == concurrencyCapacity /\ estimateCapacity(c) /\ bulkheadCapacity(c)

reserve(c) ==
  /\ inFlight' = inFlight + 1
  /\ inFlightTokens' = inFlightTokens + Request[c].tokens
  /\ inFlightCost' = inFlightCost + Request[c].cost
  /\ providerInFlight' = [providerInFlight EXCEPT ![Request[c].provider] = @ + 1]
  /\ tenantInFlight' = [tenantInFlight EXCEPT ![Request[c].tenant] = @ + 1]

\* A map entry that falls to zero or below is deleted, that is, reads as zero.
Decrement(n) == IF n > 1 THEN n - 1 ELSE 0

unreserve(c) ==
  /\ inFlight' = inFlight - 1
  /\ inFlightTokens' = inFlightTokens - Request[c].tokens
  /\ inFlightCost' =
       IF inFlight = 1 THEN 0 ELSE inFlightCost - Request[c].cost
  /\ providerInFlight' =
       [providerInFlight EXCEPT ![Request[c].provider] = Decrement(@)]
  /\ tenantInFlight' =
       [tenantInFlight EXCEPT ![Request[c].tenant] = Decrement(@)]

-----------------------------------------------------------------------------
\* The queue.  Waiting(t, p) are the positions of queues[t][p].
Waiting(t, p) == 1..Len(queues[t][p])

QueuePositions(c) ==
  IF Request[c].prio \in Priority
  THEN {k \in Waiting(Request[c].tenant, Request[c].prio) :
          queues[Request[c].tenant][Request[c].prio][k] = c}
  ELSE {}

Queued(c) == QueuePositions(c) # {}

\* Mutant: the scan for deadlines is never switched on.
pushLocked_NoDeadlineFlag(c) ==
  LET t == Request[c].tenant IN
  /\ queues' = [queues EXCEPT ![t][Request[c].prio] = Append(@, c)]
  /\ tenantOrder' = IF \E i \in 1..Len(tenantOrder) : tenantOrder[i] = t
                    THEN tenantOrder
                    ELSE Append(tenantOrder, t)
  /\ queuedTotal' = queuedTotal + 1
  /\ UNCHANGED <<cursor, hasDeadlines>>

pushLocked(c) ==
  LET t == Request[c].tenant IN
  /\ queues' = [queues EXCEPT ![t][Request[c].prio] = Append(@, c)]
  /\ tenantOrder' = IF \E i \in 1..Len(tenantOrder) : tenantOrder[i] = t
                    THEN tenantOrder
                    ELSE Append(tenantOrder, t)
  /\ queuedTotal' = queuedTotal + 1
  /\ hasDeadlines' = (hasDeadlines \/ Request[c].deadline # 0)
  /\ UNCHANGED cursor

\* Mutant: an idle tenant stays in the rotation for good.
dropIdleTenant_Never(t, at) == tenantOrder' = tenantOrder /\ cursor' = at

\* A tenant with nothing left queued leaves the rotation, and a cursor past it
\* moves back with the tenants after it.  `at' is the cursor to start from.
dropIdleTenant(t, at) ==
  IF \E p \in Priority : queues'[t][p] # <<>>
  THEN tenantOrder' = tenantOrder /\ cursor' = at
  ELSE \E i \in 1..Len(tenantOrder) :
         /\ tenantOrder[i] = t
         /\ tenantOrder' = RemoveAt(tenantOrder, i)
         /\ cursor' = [p \in Priority |->
                         IF at[p] > i - 1 THEN at[p] - 1 ELSE at[p]]

removeFromQueue(c, at) ==
  /\ \E k \in QueuePositions(c) :
       queues' = [queues EXCEPT ![Request[c].tenant][Request[c].prio] =
                    RemoveAt(@, k)]
  /\ queuedTotal' = queuedTotal - 1
  /\ dropIdleTenant(Request[c].tenant, at)
  /\ UNCHANGED hasDeadlines

-----------------------------------------------------------------------------
\* admitAllLocked, one waiter per step, by whoever holds mu.
Deadline(c) == Request[c].deadline
Expired(c) == Deadline(c) # 0 /\ Deadline(c) < now

\* expireWaitersLocked looks at nothing until some request had a deadline.
ToExpire == {c \in Calls : hasDeadlines /\ Queued(c) /\ Expired(c)}

\* The send blocks while the channel is full.
Send(c, outcome) ==
  /\ admitted[c] = "none"
  /\ admitted' = [admitted EXCEPT ![c] = outcome]

\* Mutant: the expired waiter is answered and left in its queue.
Expire_LeftQueued(c) ==
  /\ mu # "nobody"
  /\ c \in ToExpire
  /\ Send(c, "rejected")
  /\ UNCHANGED <<mu, queueVars, resourceVars, runVars, dispatchVars, pc,
                 result, closeVars, envVars>>

Expire(c) ==
  /\ mu # "nobody"
  /\ c \in ToExpire
  /\ removeFromQueue(c, cursor)
  /\ Send(c, "rejected")
  /\ UNCHANGED <<mu, resourceVars, runVars, dispatchVars, pc, result,
                 closeVars, envVars>>

\* The tenant at distance d from the cursor of class p.
RotationIndex(p, d) == (cursor[p] + d) % Len(tenantOrder)
TenantAt(p, d) == tenantOrder[RotationIndex(p, d) + 1]

\* nextAdmittableAtPriorityLocked finds something in class p.
HasAdmittable(p) ==
  \E i \in 1..Len(tenantOrder) :
    \E k \in Waiting(tenantOrder[i], p) : Fits(queues[tenantOrder[i]][p][k])

\* c is the k-th waiter of the tenant at distance d, and the first that fits.
IsNext(c, p, d) ==
  /\ \A e \in 0..(d - 1) :
       \A k \in Waiting(TenantAt(p, e), p) :
         ~Fits(queues[TenantAt(p, e)][p][k])
  /\ \E k \in Waiting(TenantAt(p, d), p) :
       /\ queues[TenantAt(p, d)][p][k] = c
       /\ \A j \in 1..(k - 1) : ~Fits(queues[TenantAt(p, d)][p][j])
  /\ Fits(c)

\* Highest class first; within it the rotation from the cursor; within a
\* tenant the first waiter that fits.
Admit(c) ==
  /\ mu # "nobody"
  /\ ToExpire = {}
  /\ \E p \in Priority :
       /\ \A h \in Priority : h > p => ~HasAdmittable(h)
       /\ \E d \in 0..(Len(tenantOrder) - 1) :
            /\ IsNext(c, p, d)
            /\ removeFromQueue(c,
                 [cursor EXCEPT
                    ![p] = (RotationIndex(p, d) + 1) % Len(tenantOrder)])
  /\ reserve(c)
  /\ Send(c, "ok")
  /\ UNCHANGED <<mu, runVars, dispatchVars, pc, result, closeVars, envVars>>

PassDone == ToExpire = {} /\ \A p \in Priority : ~HasAdmittable(p)

-----------------------------------------------------------------------------
\* dispatchLoop.
DispatchLock ==
  /\ dpc = "lock" /\ mu = "nobody"
  /\ mu' = "dispatcher" /\ dpc' = "pass"
  /\ UNCHANGED <<queueVars, resourceVars, runVars, woken, callVars,
                 closeVars, envVars>>

\* The end of the pass: stop when closed, else capture the wake channel, which
\* is a fresh one, before the lock is let go.
DispatchUnlock ==
  /\ dpc = "pass" /\ PassDone
  /\ mu' = "nobody"
  /\ IF closed
     THEN dpc' = "stopped" /\ UNCHANGED woken
     ELSE dpc' = "select" /\ woken' = FALSE
  /\ UNCHANGED <<queueVars, resourceVars, runVars, callVars, closeVars, envVars>>

\* stopCh is closed by the Close that sets closed.
DispatchSelect ==
  /\ dpc = "select"
  /\ \/ woken /\ dpc' = "lock"
     \/ closed /\ dpc' = "stopped"
  /\ UNCHANGED <<mu, queueVars, resourceVars, runVars, woken, callVars,
                 closeVars, envVars>>

-----------------------------------------------------------------------------
\* Submit, up to the lock of enqueue: a ctx that has ended is not queued.
SubmitDead(c) ==
  /\ pc[c] = "start" /\ ctxDone[c]
  /\ pc' = [pc EXCEPT ![c] = "done"]
  /\ result' = [result EXCEPT ![c] = "canceled"]
  /\ UNCHANGED <<mu, queueVars, resourceVars, runVars, dispatchVars, admitted,
                 closeVars, envVars>>

\* The checks of enqueue, in the code's order; "none" when all are passed.
Refusal(c) ==
  LET r == Request[c] IN
  IF closed THEN "shutdown"
  ELSE IF r.prio \notin Priority THEN "invalid"
  ELSE IF Expired(c) THEN "rejected"
  ELSE IF r.tokens < 0 \/ r.cost < 0 THEN "invalid"
  ELSE IF \/ MaxInFlightTokens > 0 /\ r.tokens > MaxInFlightTokens
          \/ MaxInFlightCost > 0 /\ r.cost > MaxInFlightCost THEN "rejected"
  ELSE "none"

EnqueueRefused(c) ==
  /\ pc[c] = "start" /\ ~ctxDone[c] /\ mu = "nobody"
  /\ Refusal(c) # "none"
  /\ pc' = [pc EXCEPT ![c] = "done"]
  /\ result' = [result EXCEPT ![c] = Refusal(c)]
  /\ UNCHANGED <<mu, queueVars, resourceVars, runVars, dispatchVars, admitted,
                 closeVars, envVars>>

\* The pass that follows under the same lock reads the clock again.
EnqueuePush(c) ==
  /\ pc[c] = "start" /\ ~ctxDone[c] /\ mu = "nobody"
  /\ Refusal(c) = "none"
  /\ mu' = c
  /\ pc' = [pc EXCEPT ![c] = "enqueue"]
  /\ pushLocked(c)
  /\ now' = now \/ (now < MaxTime /\ now' = now + 1)
  /\ UNCHANGED <<resourceVars, runVars, dispatchVars, admitted, result,
                 closeVars, ctxDone, closeCtxDone>>

\* Mutant: off by one.
OverQueue_OneMore(c) ==
  MaxQueued > 0 /\ queuedTotal > MaxQueued + 1 /\ admitted[c] = "none"

\* Still waiting with the queue over its bound: refused, and nobody is woken.
OverQueue(c) ==
  MaxQueued > 0 /\ queuedTotal > MaxQueued /\ admitted[c] = "none"

\* Mutant: the bound is measured before anything is admitted.
EnqueueFull_Measured1st(c) ==
  /\ pc[c] = "enqueue"
  /\ OverQueue(c)
  /\ removeFromQueue(c, cursor)
  /\ mu' = "nobody"
  /\ pc' = [pc EXCEPT ![c] = "done"]
  /\ result' = [result EXCEPT ![c] = "rejected"]
  /\ UNCHANGED <<resourceVars, runVars, dispatchVars, admitted, closeVars,
                 envVars>>

EnqueueFull(c) ==
  /\ pc[c] = "enqueue" /\ PassDone
  /\ OverQueue(c)
  /\ removeFromQueue(c, cursor)
  /\ mu' = "nobody"
  /\ pc' = [pc EXCEPT ![c] = "done"]
  /\ result' = [result EXCEPT ![c] = "rejected"]
  /\ UNCHANGED <<resourceVars, runVars, dispatchVars, admitted, closeVars,
                 envVars>>

EnqueueDone(c) ==
  /\ pc[c] = "enqueue" /\ PassDone
  /\ ~OverQueue(c)
  /\ woken' = TRUE
  /\ mu' = "nobody"
  /\ pc' = [pc EXCEPT ![c] = "wait"]
  /\ UNCHANGED <<queueVars, resourceVars, runVars, dpc, admitted, result,
                 closeVars, envVars>>

\* The select of Submit: an outcome and an ended ctx may both be ready.
ReceiveOutcome(c) ==
  /\ pc[c] = "wait" /\ admitted[c] # "none"
  /\ admitted' = [admitted EXCEPT ![c] = "none"]
  /\ IF admitted[c] = "ok"
     THEN pc' = [pc EXCEPT ![c] = "register"] /\ UNCHANGED result
     ELSE /\ pc' = [pc EXCEPT ![c] = "done"]
          /\ result' = [result EXCEPT ![c] = admitted[c]]
  /\ UNCHANGED <<mu, queueVars, resourceVars, runVars, dispatchVars,
                 closeVars, envVars>>

CtxWins(c) ==
  /\ pc[c] = "wait" /\ ctxDone[c]
  /\ pc' = [pc EXCEPT ![c] = "cancel"]
  /\ UNCHANGED <<mu, queueVars, resourceVars, runVars, dispatchVars, admitted,
                 result, closeVars, envVars>>

\* Mutant: an admission that came first is not undone.
CancelWaiter_Leak(c) ==
  /\ pc[c] = "cancel" /\ mu = "nobody"
  /\ IF Queued(c) THEN removeFromQueue(c, cursor) ELSE UNCHANGED queueVars
  /\ admitted' = [admitted EXCEPT ![c] = "none"]
  /\ pc' = [pc EXCEPT ![c] = "done"]
  /\ result' = [result EXCEPT ![c] = "canceled"]
  /\ UNCHANGED <<mu, resourceVars, runVars, dispatchVars, closeVars, envVars>>

\* cancelWaiter: out of the queue, and an admission that came first is undone.
CancelWaiter(c) ==
  /\ pc[c] = "cancel" /\ mu = "nobody"
  /\ IF Queued(c) THEN removeFromQueue(c, cursor) ELSE UNCHANGED queueVars
  /\ admitted' = [admitted EXCEPT ![c] = "none"]
  /\ pc' = [pc EXCEPT ![c] = IF admitted[c] = "ok" THEN "undo" ELSE "done"]
  /\ result' = [result EXCEPT ![c] = "canceled"]
  /\ UNCHANGED <<mu, resourceVars, runVars, dispatchVars, closeVars, envVars>>

\* Mutant: the capacity given back wakes nobody.
ReleaseReservationOnly_NoWake(c) ==
  /\ pc[c] = "undo" /\ mu = "nobody"
  /\ unreserve(c)
  /\ pc' = [pc EXCEPT ![c] = "done"]
  /\ UNCHANGED <<mu, queueVars, runVars, dispatchVars, admitted, result,
                 closeVars, envVars>>

\* Mutant: the path of registered work is taken, wg.Done included.
ReleaseReservationOnly_WgDone(c) ==
  /\ pc[c] = "undo" /\ mu = "nobody"
  /\ unreserve(c)
  /\ woken' = TRUE /\ wg' = wg - 1
  /\ pc' = [pc EXCEPT ![c] = "done"]
  /\ UNCHANGED <<mu, queueVars, inFlightCancel, dpc, admitted, result,
                 closeVars, envVars>>

ReleaseReservationOnly(c) ==
  /\ pc[c] = "undo" /\ mu = "nobody"
  /\ unreserve(c)
  /\ woken' = TRUE
  /\ pc' = [pc EXCEPT ![c] = "done"]
  /\ UNCHANGED <<mu, queueVars, runVars, dpc, admitted, result, closeVars,
                 envVars>>

\* Mutant: registration does not look at closed.
RegisterInFlight_EvenClosed(c) ==
  /\ pc[c] = "register" /\ mu = "nobody"
  /\ pc' = [pc EXCEPT ![c] = "run"]
  /\ inFlightCancel' = inFlightCancel \cup {c}
  /\ wg' = wg + 1
  /\ UNCHANGED <<mu, queueVars, resourceVars, dispatchVars, admitted, result,
                 closeVars, envVars>>

\* registerInFlight: refused once the scheduler is closed.
RegisterInFlight(c) ==
  /\ pc[c] = "register" /\ mu = "nobody"
  /\ IF closed
     THEN /\ pc' = [pc EXCEPT ![c] = "undo"]
          /\ result' = [result EXCEPT ![c] = "shutdown"]
          /\ UNCHANGED runVars
     ELSE /\ pc' = [pc EXCEPT ![c] = "run"]
          /\ inFlightCancel' = inFlightCancel \cup {c}
          /\ wg' = wg + 1
          /\ UNCHANGED result
  /\ UNCHANGED <<mu, queueVars, resourceVars, dispatchVars, admitted,
                 closeVars, envVars>>

\* run returns, fails or panics: the deferred function runs all the same.
RunReturns(c) ==
  /\ pc[c] = "run"
  /\ pc' = [pc EXCEPT ![c] = "release"]
  /\ result' = [result EXCEPT ![c] = "ran"]
  /\ UNCHANGED <<mu, queueVars, resourceVars, runVars, dispatchVars, admitted,
                 closeVars, envVars>>

\* Mutant: the freed slot wakes nobody.
Release_NoWake(c) ==
  /\ pc[c] = "release" /\ mu = "nobody"
  /\ unreserve(c)
  /\ inFlightCancel' = inFlightCancel \ {c}
  /\ pc' = [pc EXCEPT ![c] = "wgdone"]
  /\ UNCHANGED <<mu, queueVars, wg, dispatchVars, admitted, result, closeVars,
                 envVars>>

\* Mutant: the wait group is released before the reservation is given back.
Release_WgDone1st(c) ==
  /\ pc[c] = "release" /\ mu = "nobody"
  /\ wg' = wg - 1
  /\ pc' = [pc EXCEPT ![c] = "undo"]
  /\ UNCHANGED <<mu, queueVars, resourceVars, inFlightCancel, dispatchVars,
                 admitted, result, closeVars, envVars>>

Release(c) ==
  /\ pc[c] = "release" /\ mu = "nobody"
  /\ unreserve(c)
  /\ inFlightCancel' = inFlightCancel \ {c}
  /\ woken' = TRUE
  /\ pc' = [pc EXCEPT ![c] = "wgdone"]
  /\ UNCHANGED <<mu, queueVars, wg, dpc, admitted, result, closeVars, envVars>>

\* Mutant: work that Close cancelled is not counted as done.
WgDone_NotCanceled(c) ==
  /\ pc[c] = "wgdone"
  /\ wg' = IF runCanceled[c] THEN wg ELSE wg - 1
  /\ pc' = [pc EXCEPT ![c] = "done"]
  /\ UNCHANGED <<mu, queueVars, resourceVars, inFlightCancel, dispatchVars,
                 admitted, result, closeVars, envVars>>

WgDone(c) ==
  /\ pc[c] = "wgdone"
  /\ wg' = wg - 1
  /\ pc' = [pc EXCEPT ![c] = "done"]
  /\ UNCHANGED <<mu, queueVars, resourceVars, inFlightCancel, dispatchVars,
                 admitted, result, closeVars, envVars>>

-----------------------------------------------------------------------------
\* Mutant: the queue is emptied and its waiters are told nothing.
ToRefuse_Nobody == {}

\* Close.  The first one refuses what is queued for the tenants in the rotation,
\* empties the queues (the rotation is left as it is) and takes the cancel
\* functions of what runs.
ToRefuse == {c \in Calls :
               /\ Queued(c)
               /\ \E i \in 1..Len(tenantOrder) : tenantOrder[i] = Request[c].tenant}

\* Mutant: what runs is not cancelled.
CloseFirst_NoCancel(k) ==
  /\ cpc[k] = "idle" /\ mu = "nobody" /\ ~closed
  /\ closed' = TRUE
  /\ admitted' =
       [c \in Calls |-> IF c \in ToRefuse THEN "shutdown" ELSE admitted[c]]
  /\ queues' = [t \in Tenants |-> [p \in Priority |-> <<>>]]
  /\ queuedTotal' = 0
  /\ toCancel' = {}
  /\ cpc' = [cpc EXCEPT ![k] = "cancel"]
  /\ UNCHANGED <<mu, tenantOrder, cursor, hasDeadlines, resourceVars, runVars,
                 dispatchVars, pc, result, drainer, closeResult, runCanceled,
                 envVars>>

CloseFirst(k) ==
  /\ cpc[k] = "idle" /\ mu = "nobody" /\ ~closed
  /\ closed' = TRUE
  /\ \A c \in ToRefuse : admitted[c] = "none"
  /\ admitted' =
       [c \in Calls |-> IF c \in ToRefuse THEN "shutdown" ELSE admitted[c]]
  /\ queues' = [t \in Tenants |-> [p \in Priority |-> <<>>]]
  /\ queuedTotal' = 0
  /\ toCancel' = inFlightCancel
  /\ cpc' = [cpc EXCEPT ![k] = "cancel"]
  /\ UNCHANGED <<mu, tenantOrder, cursor, hasDeadlines, resourceVars, runVars,
                 dispatchVars, pc, result, drainer, closeResult, runCanceled,
                 envVars>>

CloseCancel(k, c) ==
  /\ cpc[k] = "cancel" /\ c \in toCancel
  /\ runCanceled' = [runCanceled EXCEPT ![c] = TRUE]
  /\ toCancel' = toCancel \ {c}
  /\ UNCHANGED <<mu, queueVars, resourceVars, runVars, dispatchVars, callVars,
                 closed, drainer, cpc, closeResult, envVars>>

CloseStartDrain(k) ==
  /\ cpc[k] = "cancel" /\ toCancel = {}
  /\ drainer' = "waiting"
  /\ cpc' = [cpc EXCEPT ![k] = "check"]
  /\ UNCHANGED <<mu, queueVars, resourceVars, runVars, dispatchVars, callVars,
                 closed, toCancel, closeResult, runCanceled, envVars>>

\* A later Close only waits.
CloseAgain(k) ==
  /\ cpc[k] = "idle" /\ mu = "nobody" /\ closed
  /\ cpc' = [cpc EXCEPT ![k] = "check"]
  /\ UNCHANGED <<mu, queueVars, resourceVars, runVars, dispatchVars, callVars,
                 closed, drainer, toCancel, closeResult, runCanceled, envVars>>

\* wg.Wait returns and drained is closed.
Drain ==
  /\ drainer = "waiting" /\ wg = 0
  /\ drainer' = "done"
  /\ UNCHANGED <<mu, queueVars, resourceVars, runVars, dispatchVars, callVars,
                 closed, cpc, toCancel, closeResult, runCanceled, envVars>>

\* awaitSchedulerDrain: drained alone is looked at first, then both are raced.
CloseReturn(k, outcome) ==
  /\ cpc' = [cpc EXCEPT ![k] = "done"]
  /\ closeResult' = [closeResult EXCEPT ![k] = outcome]

AwaitDrain(k) ==
  /\ \/ /\ cpc[k] \in {"check", "select"} /\ drainer = "done"
        /\ CloseReturn(k, "drained")
     \/ /\ cpc[k] = "check" /\ drainer # "done"
        /\ cpc' = [cpc EXCEPT ![k] = "select"] /\ UNCHANGED closeResult
     \/ /\ cpc[k] = "select" /\ closeCtxDone[k]
        /\ CloseReturn(k, "grace")
  /\ UNCHANGED <<mu, queueVars, resourceVars, runVars, dispatchVars, callVars,
                 closed, drainer, toCancel, runCanceled, envVars>>

-----------------------------------------------------------------------------
\* The environment: contexts end, time passes.  A pass reads the
\* clock once, so it stands still while one is in progress.
CtxEnds(c) ==
  /\ c \in MayCancel /\ ~ctxDone[c] /\ pc[c] # "done"
  /\ ctxDone' = [ctxDone EXCEPT ![c] = TRUE]
  /\ UNCHANGED <<mu, queueVars, resourceVars, runVars, dispatchVars, callVars,
                 closeVars, closeCtxDone, now>>

CloseCtxEnds(k) ==
  /\ ~closeCtxDone[k] /\ cpc[k] # "done"
  /\ closeCtxDone' = [closeCtxDone EXCEPT ![k] = TRUE]
  /\ UNCHANGED <<mu, queueVars, resourceVars, runVars, dispatchVars, callVars,
                 closeVars, ctxDone, now>>

Tick ==
  /\ mu = "nobody" /\ now < MaxTime
  /\ now' = now + 1
  /\ UNCHANGED <<mu, queueVars, resourceVars, runVars, dispatchVars, callVars,
                 closeVars, ctxDone, closeCtxDone>>

\* Every call has returned and the dispatcher has nothing to do.
Terminated ==
  /\ \A c \in Calls : pc[c] = "done"
  /\ \A k \in Closers : cpc[k] = "done"
  /\ dpc = "stopped" \/ (dpc = "select" /\ ~woken /\ ~closed)
  /\ UNCHANGED vars

Dispatcher == DispatchLock \/ DispatchUnlock \/ DispatchSelect

Locked(c) == Expire(c) \/ Admit(c)

\* The steps of one Submit other than the return of run.
SubmitStep(c) ==
  \/ SubmitDead(c) \/ EnqueueRefused(c) \/ EnqueuePush(c)
  \/ EnqueueFull(c) \/ EnqueueDone(c)
  \/ ReceiveOutcome(c) \/ CtxWins(c) \/ CancelWaiter(c)
  \/ ReleaseReservationOnly(c) \/ RegisterInFlight(c)
  \/ Release(c) \/ WgDone(c)

CloseStep(k) ==
  \/ CloseFirst(k) \/ CloseAgain(k)
  \/ (\E c \in Calls : CloseCancel(k, c))
  \/ CloseStartDrain(k) \/ AwaitDrain(k)

Next ==
  \/ Dispatcher
  \/ \E c \in Calls : Locked(c) \/ SubmitStep(c) \/ RunReturns(c) \/ CtxEnds(c)
  \/ \E k \in Closers : CloseStep(k) \/ CloseCtxEnds(k)
  \/ Drain \/ Tick
  \/ Terminated

Spec == Init /\ [][Next]_vars

\* Goroutines that can move do: the dispatcher, the holder of the lock, every
\* Submit and Close that has started, the drainer.  Nothing makes a caller call
\* Submit or Close, or a context end.
Progress ==
  /\ WF_vars(Dispatcher)
  /\ WF_vars(Drain)
  /\ \A c \in Calls :
       /\ WF_vars(Locked(c))
       /\ WF_vars(pc[c] # "start" /\ SubmitStep(c))
  /\ \A k \in Closers : WF_vars(cpc[k] # "idle" /\ CloseStep(k))

\* Work returns by itself, but once Close was called it may wait for the end of
\* the context it was given.
LiveSpec ==
  Spec /\ Progress
  /\ \A c \in Calls :
       /\ WF_vars(~closed /\ RunReturns(c))
       /\ WF_vars((ctxDone[c] \/ runCanceled[c]) /\ RunReturns(c))

-----------------------------------------------------------------------------
Shapes ==
  /\ mu \in Calls \cup {"nobody", "dispatcher"}
  /\ closed \in BOOLEAN
  /\ queues \in [Tenants -> [Priority -> Seq(Calls)]]
  /\ tenantOrder \in Seq(Tenants)
  /\ cursor \in [Priority -> Nat]
  /\ queuedTotal \in Int /\ hasDeadlines \in BOOLEAN
  /\ inFlight \in Int /\ inFlightTokens \in Int /\ inFlightCost \in Int
  /\ providerInFlight \in [Providers -> Int]
  /\ tenantInFlight \in [Tenants -> Int]
  /\ inFlightCancel \subseteq Calls /\ wg \in Int
  /\ woken \in BOOLEAN
  /\ dpc \in {"lock", "pass", "select", "stopped"}
  /\ drainer \in {"none", "waiting", "done"}
  /\ pc \in [Calls -> {"start", "enqueue", "wait", "cancel", "undo",
                       "register", "run", "release", "wgdone", "done"}]
  /\ admitted \in [Calls -> {"none", "ok", "rejected", "shutdown"}]
  /\ result \in [Calls -> {"none", "invalid", "rejected", "shutdown",
                           "canceled", "ran"}]
  /\ ctxDone \in [Calls -> BOOLEAN] /\ runCanceled \in [Calls -> BOOLEAN]
  /\ cpc \in [Closers -> {"idle", "cancel", "check", "select", "done"}]
  /\ closeResult \in [Closers -> {"none", "drained", "grace"}]
  /\ closeCtxDone \in [Closers -> BOOLEAN]
  /\ toCancel \subseteq Calls
  /\ now \in Nat

\* Every variable has its shape, and no counter of requests is ever negative.
TypeOK ==
  /\ Shapes
  /\ queuedTotal \in Nat /\ inFlight \in Nat /\ wg \in Nat
  /\ providerInFlight \in [Providers -> Nat]
  /\ tenantInFlight \in [Tenants -> Nat]

\* The calls that hold a reservation: admitted and not yet released, whether
\* they have noticed it or not.
Holders == {c \in Calls : \/ admitted[c] = "ok"
                         \/ pc[c] \in {"register", "run", "release", "undo"}}
HoldersOfProvider(q) == {c \in Holders : Request[c].provider = q}
HoldersOfTenant(t) == {c \in Holders : Request[c].tenant = t}

\* The counters are exactly the reservations held, over every race between an
\* admission and a cancellation or a Close: nothing leaks and nothing is given
\* back twice (scheduler.go:472-494, 316-327, 604-631).
Accounting ==
  /\ inFlight = Cardinality(Holders)
  /\ \A q \in Providers : providerInFlight[q] = Cardinality(HoldersOfProvider(q))
  /\ \A t \in Tenants : tenantInFlight[t] = Cardinality(HoldersOfTenant(t))

\* No more calls run than the limits allow (SchedulerLimits, scheduler.go:62-93).
Running == {c \in Calls : pc[c] = "run"}
LimitsRespected ==
  /\ MaxConcurrent > 0 => Cardinality(Running) <= MaxConcurrent
  /\ PerProviderConcurrency > 0 => \A q \in Providers :
       Cardinality({c \in Running : Request[c].provider = q})
         <= PerProviderConcurrency
  /\ PerTenantConcurrency > 0 => \A t \in Tenants :
       Cardinality({c \in Running : Request[c].tenant = t})
         <= PerTenantConcurrency

\* The slots: no counter is ever negative, each is exactly what is held, and no limit
\* on them is passed.
CapacityKept == TypeOK /\ Accounting /\ LimitsRespected

\* What a set of calls asks for.
TokensOf(S) == SumFunctionOnSet([c \in Calls |-> Request[c].tokens], S)
CostOf(S) == SumFunctionOnSet([c \in Calls |-> Request[c].cost], S)

\* The estimates of what runs stay within the ceilings, and what is counted is
\* what the holders reserved (scheduler.go:580-631).
EstimatesRespected ==
  /\ inFlightTokens = TokensOf(Holders) /\ inFlightCost = CostOf(Holders)
  /\ MaxInFlightTokens > 0 => TokensOf(Running) <= MaxInFlightTokens
  /\ MaxInFlightCost > 0 => CostOf(Running) <= MaxInFlightCost

\* A waiter is in the list of its own tenant and class, and in one place.
QueueWellFormed ==
  \A t \in Tenants, p \in Priority :
    /\ \A k \in Waiting(t, p) :
         Request[queues[t][p][k]].tenant = t /\ Request[queues[t][p][k]].prio = p
    /\ \A j, k \in Waiting(t, p) : queues[t][p][j] = queues[t][p][k] => j = k

\* A queued call has been told nothing, so the sends made under the lock never
\* block, and it is queued once (scheduler.go:543-546).
QueuedUnanswered ==
  \A c \in Calls : Queued(c) =>
    /\ admitted[c] = "none"
    /\ pc[c] \in {"enqueue", "wait", "cancel"}
    /\ \A j, k \in QueuePositions(c) : j = k

\* A call that waits is queued or has its answer: "nothing submitted is ever
\* just dropped" (scheduler.go:287).
NothingDropped ==
  \A c \in Calls : pc[c] = "wait" => Queued(c) \/ admitted[c] # "none"

\* A submitted call is answered once: not while it is queued, where a second
\* send would block the lock's holder, and never left unqueued and unanswered,
\* though admission, expiry, cancellation and Close all take it off the queue.
OneAnswer == QueuedUnanswered /\ NothingDropped

\* queuedTotal counts the queue, and with the lock free the queue is within
\* MaxQueued (scheduler.go:421-449).
QueuedCalls == {c \in Calls : Queued(c)}
QueueBounded ==
  /\ queuedTotal = Cardinality(QueuedCalls)
  /\ MaxQueued > 0 /\ mu = "nobody" => queuedTotal <= MaxQueued

\* Until Close, the rotation holds the tenants with something queued, each once
\* (scheduler.go:514-540).
InRotation(t) == \E i \in 1..Len(tenantOrder) : tenantOrder[i] = t
RotationOnce == \A i, j \in 1..Len(tenantOrder) :
                  tenantOrder[i] = tenantOrder[j] => i = j
RotationExact ==
  ~closed =>
    /\ \A t \in Tenants :
         InRotation(t) <=> \E p \in Priority : queues[t][p] # <<>>
    /\ RotationOnce

\* The queue: counted and bounded, and turned to through a rotation that names each
\* tenant that waits once and no other.
QueueKept == QueueBounded /\ RotationExact

\* No lost wake-up: with the lock free and room for a queued call, the
\* dispatcher is on its way to a pass (scheduler.go:726-738).
NoLostWakeup ==
  (mu = "nobody" /\ \E c \in Calls : Queued(c) /\ Fits(c))
    => dpc = "lock" \/ (dpc = "select" /\ woken)

\* Once Close has made its cancellations, whatever still runs has had its
\* context cancelled (scheduler.go:845-853).
CloseReachesAll ==
  drainer # "none" => \A c \in Running : runCanceled[c]

\* When the drain has been reported, no accepted work runs and none of it is
\* still in the books (scheduler.go:331-337).
DrainedIsQuiet ==
  drainer = "done" =>
    /\ inFlightCancel = {}
    /\ \A c \in Calls : pc[c] \notin {"run", "release", "wgdone"}

\* What Close promises of work already accepted: all of it is told to stop, and
\* "drained" is said only when none is left (scheduler.go:845-853).
CloseKept == CloseReachesAll /\ DrainedIsQuiet

\* The wait group is never added to once Close may be waiting on it, which the
\* runtime answers with a panic (scheduler.go:659-662).
NoAddAfterClose == [][closed => wg' <= wg]_vars

\* A call is never admitted after its deadline (scheduler.go:125-133).
DeadlineKept ==
  [][\A c \in Calls :
       admitted[c] # "ok" /\ admitted'[c] = "ok" => ~Expired(c)]_vars

\* A call is refused for a full queue only while it cannot run itself and as
\* many as the bound are waiting besides it (scheduler.go:421-432).
FullQueueOnly ==
  [][\A c \in Calls : pc[c] = "enqueue" /\ result'[c] = "rejected" =>
       ~Fits(c) /\ queuedTotal' = MaxQueued]_vars

\* Who is let in and who is turned away: nobody after a deadline, and nobody for a
\* full queue that is not full.
AdmissionRight == DeadlineKept /\ FullQueueOnly

\* Every Submit returns.
SubmitReturns == \A c \in Calls : pc[c] # "start" ~> pc[c] = "done"

\* After Close everything accepted returns and the drain is reported, though
\* work may return only when its context ends (scheduler.go:845-853).
CloseDrains == closed ~> drainer = "done"

\* Every Submit returns and every Close drains, whatever races between them.
EverythingEnds == SubmitReturns /\ CloseDrains

-----------------------------------------------------------------------------
(***************************************************************************)
(* The inductive invariant behind the safety properties.                   *)
(***************************************************************************)
\* A queued call has no answer and its Submit has not got past its select.
QueuedSilent ==
  \A c \in QueuedCalls :
    admitted[c] = "none" /\ pc[c] \in {"enqueue", "wait", "cancel"}

\* An answer that has not been received belongs to a Submit that can receive it.
AnswerPending ==
  \A c \in Calls : admitted[c] # "none" => pc[c] \in {"enqueue", "wait", "cancel"}

\* A Submit that is to wait is queued or answered.
Answerable ==
  \A c \in Calls :
    pc[c] \in {"enqueue", "wait"} => c \in QueuedCalls \/ admitted[c] # "none"

QueueInv ==
  /\ QueueWellFormed
  /\ queuedTotal = Cardinality(QueuedCalls)
  /\ QueuedSilent /\ AnswerPending /\ Answerable
  /\ RotationExact

\* What is counted is within the limits.
CountsWithinLimits ==
  /\ MaxConcurrent > 0 => inFlight <= MaxConcurrent
  /\ PerProviderConcurrency > 0 =>
       \A q \in Providers : providerInFlight[q] <= PerProviderConcurrency
  /\ PerTenantConcurrency > 0 =>
       \A t \in Tenants : tenantInFlight[t] <= PerTenantConcurrency

SlotInv == Accounting /\ CountsWithinLimits

\* A call past the checks of enqueue asks for nothing negative; what is counted
\* is what the holders asked for, and it is within the ceilings.
EstimateInv ==
  /\ \A c \in Calls : pc[c] \notin {"start", "done"} =>
       Request[c].tokens >= 0 /\ Request[c].cost >= 0
  /\ inFlightTokens = TokensOf(Holders) /\ inFlightCost = CostOf(Holders)
  /\ MaxInFlightTokens > 0 => inFlightTokens <= MaxInFlightTokens
  /\ MaxInFlightCost > 0 => inFlightCost <= MaxInFlightCost

\* The wait group counts the registered calls; Close can reach those that have
\* not released; once closed, a call that runs is cancelled or about to be; the
\* drain starts after the last cancellation and ends with nothing registered.
Registered == {c \in Calls : pc[c] \in {"run", "release", "wgdone"}}

CloseInv ==
  /\ \A k \in Closers : cpc[k] # "idle" => closed
  /\ wg = Cardinality(Registered)
  /\ inFlightCancel = {c \in Calls : pc[c] \in {"run", "release"}}
  /\ closed => \A c \in Running : runCanceled[c] \/ c \in toCancel
  /\ drainer # "none" => closed /\ toCancel = {}
  /\ drainer = "done" => Registered = {}

\* Whoever holds the lock is inside its pass; nothing is queued once closed; the
\* call inside enqueue is the only one that may be over the bound; with the lock
\* free and room for a queued call, a dispatcher that sleeps has been woken.
LockInv ==
  /\ dpc = "pass" <=> mu = "dispatcher"
  /\ \A c \in Calls : pc[c] = "enqueue" <=> mu = c
  /\ closed => QueuedCalls = {}
  /\ dpc = "stopped" => closed
  /\ MaxQueued > 0 => Cardinality(QueuedCalls \ {mu}) <= MaxQueued
  /\ (mu = "nobody" /\ dpc = "select" /\ \E c \in QueuedCalls : Fits(c)) => woken

\* What a Submit has been told is true, and stays true: it gives up only with its
\* context ended, is told of a shutdown only once closed, has no result before its
\* select; Close cancels only work that was started; and a queued call's deadline
\* has switched the scan for deadlines on.
SubmitInv ==
  /\ \A c \in Calls :
       /\ pc[c] = "cancel" => ctxDone[c]
       /\ admitted[c] = "shutdown" => closed
       /\ pc[c] \in {"start", "enqueue"} => result[c] = "none"
  /\ \A c \in toCancel : pc[c] \in {"run", "release", "wgdone", "done"}
  /\ \A c \in QueuedCalls : Deadline(c) # 0 => hasDeadlines

IInv == QueueInv /\ SlotInv /\ CloseInv /\ LockInv /\ SubmitInv
-----------------------------------------------------------------------------
(***************************************************************************)
(* What this detail amounts to for the caller of Submit: module Gate.      *)
(***************************************************************************)
\* A call is in the gate from its admission, which it may not have noticed
\* yet, to the step that gives its reservation back.
PlaceOf(c) ==
  CASE pc[c] = "start" -> "out"
    [] pc[c] \in {"enqueue", "wait", "cancel"} ->
         IF admitted[c] = "ok" THEN "held" ELSE "waiting"
    [] pc[c] = "register" -> "held"
    [] pc[c] = "run" -> "running"
    [] pc[c] \in {"undo", "release"} -> "leaving"
    [] OTHER -> "gone"

Place == [c \in Calls |-> PlaceOf(c)]

G == INSTANCE Gate WITH
       Slots <- MaxConcurrent,
       place <- Place,
       answer <- result,
       over <- ctxDone,
       shut <- closed,
       stopped <- runCanceled

\* The scheduler implements the gate: through every race of admission,
\* cancellation, registration and Close no step admits past the limit or into
\* a closed gate, tells a caller a reason that is not true, or frees a slot
\* twice (scheduler.go:277-345).
ImplementsGate == G!GateSpec
=============================================================================

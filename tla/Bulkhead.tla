------------------------------ MODULE Bulkhead ------------------------------
(***************************************************************************)
(* The keyed concurrency wall of internal/ops/resilience.go behind the     *)
(* middleware of internal/runtime/mw/bulkhead.go.                          *)
(*                                                                         *)
(* A caller that finds the wall full waits on the key's wake channel; a    *)
(* release closes that channel, which wakes every caller waiting on it,    *)
(* and forgets it.  A key has at most one channel that is not closed, so a *)
(* waiting caller is either on it or woken.                                *)
(***************************************************************************)
EXTENDS Integers, FiniteSets

CONSTANTS
  Calls, Keys,
  KeyOf,        \* call -> key: the provider's name
  Limit,        \* call -> the limit it names; the first one for a key stays
  Reject        \* the calls made through RejectWhenFull (TryAcquire)

VARIABLES
  cap,       \* key -> capacity, 0 while nobody has asked for the key
  used,      \* key -> slots taken
  wake,      \* the keys with a wake channel
  woken,     \* the waiting calls whose channel was closed
  pc,        \* "start", "ask", "wait", "inside", "done"
  ctxDone,   \* the calls whose context has ended
  result     \* what the caller got

vars == <<cap, used, wake, woken, pc, ctxDone, result>>

Init ==
  /\ cap = [k \in Keys |-> 0]
  /\ used = [k \in Keys |-> 0]
  /\ wake = {}
  /\ woken = {}
  /\ pc = [c \in Calls |-> "start"]
  /\ ctxDone = {}
  /\ result = [c \in Calls |-> "none"]

Goto(c, l) == pc' = [pc EXCEPT ![c] = l]
Return(c, r) == Goto(c, "done") /\ result' = [result EXCEPT ![c] = r]

-----------------------------------------------------------------------------
(* tryLocked *)

Capacity_Latest(c) == IF Limit[c] <= 0 THEN 1 ELSE Limit[c]   \* Mutant
Capacity(c) ==
  IF cap[KeyOf[c]] # 0 THEN cap[KeyOf[c]]
  ELSE IF Limit[c] <= 0 THEN 1 ELSE Limit[c]

Full(c) == used[KeyOf[c]] >= Capacity(c)

Fixed(c) == cap' = [cap EXCEPT ![KeyOf[c]] = Capacity(c)]

Enter(c) ==
  /\ ~Full(c)
  /\ Fixed(c)
  /\ used' = [used EXCEPT ![KeyOf[c]] = @ + 1]
  /\ Goto(c, "inside")
  /\ UNCHANGED <<wake, woken, ctxDone, result>>

-----------------------------------------------------------------------------
(* TryAcquire and Acquire *)

TryAcquire(c) ==
  /\ c \in Reject /\ pc[c] = "start"
  /\ \/ Enter(c)
     \/ /\ Full(c)
        /\ Fixed(c)
        /\ Return(c, "rejected")
        /\ UNCHANGED <<used, wake, woken, ctxDone>>

\* Acquire looks at the context once, before its loop.
AcquireStart(c) ==
  /\ c \notin Reject /\ pc[c] = "start"
  /\ IF c \in ctxDone THEN Return(c, "canceled")
     ELSE Goto(c, "ask") /\ UNCHANGED result
  /\ UNCHANGED <<cap, used, wake, woken, ctxDone>>

\* One turn of the loop under the lock: a slot, or a place on the channel.
AcquireAsk(c) ==
  /\ pc[c] = "ask"
  /\ \/ Enter(c)
     \/ /\ Full(c)
        /\ Fixed(c)
        /\ wake' = wake \cup {KeyOf[c]}
        /\ Goto(c, "wait")
        /\ UNCHANGED <<used, woken, ctxDone, result>>

AcquireWoken_NoRetry(c) ==   \* Mutant: waits again on the channel that closed
  /\ pc[c] = "wait" /\ c \in woken
  /\ UNCHANGED vars
AcquireWoken(c) ==
  /\ pc[c] = "wait" /\ c \in woken
  /\ woken' = woken \ {c}
  /\ Goto(c, "ask")
  /\ UNCHANGED <<cap, used, wake, ctxDone, result>>

\* The select may take this branch although the channel is closed as well.
AcquireCanceled(c) ==
  /\ pc[c] = "wait" /\ c \in ctxDone
  /\ woken' = woken \ {c}
  /\ Return(c, "canceled")
  /\ UNCHANGED <<cap, used, wake, ctxDone>>

-----------------------------------------------------------------------------

Waiters(k) == {c \in Calls : pc[c] = "wait" /\ KeyOf[c] = k}

WakeAll_First(k) ==      \* Mutant: a token in place of a closed channel
  IF \E c \in Waiters(k) : c \notin woken
  THEN woken \cup {CHOOSE c \in Waiters(k) : c \notin woken} ELSE woken
WakeAll(k) == IF k \in wake THEN woken \cup Waiters(k) ELSE woken

\* The deferred release: next.Complete has returned or panicked.
Release(c) ==
  /\ pc[c] = "inside"
  /\ used' = [used EXCEPT ![KeyOf[c]] = IF @ > 0 THEN @ - 1 ELSE 0]
  /\ woken' = WakeAll(KeyOf[c])
  /\ wake' = wake \ {KeyOf[c]}
  /\ Return(c, "served")
  /\ UNCHANGED <<cap, ctxDone>>

EndContext(c) ==
  /\ c \notin ctxDone /\ pc[c] # "done"
  /\ ctxDone' = ctxDone \cup {c}
  /\ UNCHANGED <<cap, used, wake, woken, pc, result>>

AllDone ==
  /\ \A c \in Calls : pc[c] = "done"
  /\ UNCHANGED vars

Step(c) ==
  \/ TryAcquire(c) \/ AcquireStart(c) \/ AcquireAsk(c)
  \/ AcquireWoken(c) \/ AcquireCanceled(c) \/ Release(c)

Next == (\E c \in Calls : Step(c) \/ EndContext(c)) \/ AllDone

Spec == Init /\ [][Next]_vars

\* Goroutines run; no context has to end.
LiveSpec == Spec /\ \A c \in Calls : WF_vars(Step(c))

-----------------------------------------------------------------------------
(* Properties *)

TypeOK ==
  /\ cap \in [Keys -> Nat]
  /\ used \in [Keys -> Nat]
  /\ wake \subseteq Keys
  /\ woken \subseteq Calls
  /\ pc \in [Calls -> {"start", "ask", "wait", "inside", "done"}]
  /\ ctxDone \subseteq Calls
  /\ result \in [Calls -> {"none", "served", "rejected", "canceled"}]

Inside(k) == {c \in Calls : pc[c] = "inside" /\ KeyOf[c] = k}

\* The wall: the calls inside a key are counted exactly, whatever mix of
\* cancellations, refusals and releases came before, and never exceed the
\* capacity the key was first given, which a later caller naming another limit
\* does not move.
WallHolds == \A k \in Keys :
  used[k] = Cardinality(Inside(k)) /\ used[k] <= cap[k]

\* Acquire: a caller waits only while the wall is full or its channel has been
\* closed already.  The release that frees a slot and the caller that finds
\* none share the lock, so no wake-up falls between the look and the wait.
NoLostWakeup == \A c \in Calls :
  pc[c] = "wait" /\ c \notin woken =>
    used[KeyOf[c]] >= cap[KeyOf[c]] /\ KeyOf[c] \in wake

\* Every caller is answered although nobody's context ends: calls that find
\* the wall full are all woken by a release and compete again.
AcquireReturns == \A c \in Calls : pc[c] # "start" ~> pc[c] = "done"

-----------------------------------------------------------------------------
(* The inductive invariant of the proofs. *)

\* A capacity is fixed before anybody is inside or waits.
Opened == \A c \in Calls :
  pc[c] \in {"inside", "wait"} => cap[KeyOf[c]] # 0

BInv == TypeOK /\ WallHolds /\ NoLostWakeup /\ Opened
=============================================================================

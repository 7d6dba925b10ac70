-------------------------------- MODULE Waits --------------------------------
(***************************************************************************)
(* The middleware in which a call waits: a rate limiter, a bulkhead and a   *)
(* hedged call.  They share nothing: the bulkhead and the hedge are         *)
(* instances with variables of their own, beside the limiter's, and what    *)
(* is said of them is said here.                                            *)
(***************************************************************************)
EXTENDS RateLimit, FiniteSets

CONSTANTS
  BCalls, BKeys, BKeyOf, BLimit, BReject,      \* the bulkhead
  HDelays, HHonours, Nothing                   \* the hedged call

VARIABLES
  bCap, bUsed, bWake, bWoken, bPc, bCtxDone, bResult,
  hDelayed, hHonours, hPc, hCopy, hSending, hOutcomes, hFailed, hWaiting, hTimer,
  hCtxDone, hStopped, hEvent, hReports, hResult, hMark, hMissed

bVars == <<bCap, bUsed, bWake, bWoken, bPc, bCtxDone, bResult>>
hVars == <<hDelayed, hHonours, hPc, hCopy, hSending, hOutcomes, hFailed, hWaiting, hTimer,
           hCtxDone, hStopped, hEvent, hReports, hResult, hMark, hMissed>>

W == INSTANCE Bulkhead WITH
  Calls <- BCalls, Keys <- BKeys, Reject <- BReject, KeyOf <- BKeyOf, Limit <- BLimit,
  cap <- bCap, used <- bUsed, wake <- bWake, woken <- bWoken, pc <- bPc,
  ctxDone <- bCtxDone, result <- bResult

H == INSTANCE Hedge WITH
  Delays <- HDelays, Honours <- HHonours,
  delayed <- hDelayed, honours <- hHonours, pc <- hPc, copy <- hCopy,
  sending <- hSending, outcomes <- hOutcomes, failed <- hFailed, waiting <- hWaiting,
  timer <- hTimer, ctxDone <- hCtxDone, stopped <- hStopped, event <- hEvent,
  reports <- hReports, result <- hResult, mark <- hMark, missed <- hMissed

\* Any limit may be named, a number that is not positive included.
ASSUME WaitsConstants ==
  /\ IsFiniteSet(BCalls) /\ BKeyOf \in [BCalls -> BKeys] /\ BLimit \in [BCalls -> Int]
  /\ HDelays \subseteq BOOLEAN /\ HHonours \subseteq BOOLEAN
  /\ Nothing \notin H!Outcomes \cup {H!ContextError}

-----------------------------------------------------------------------------
\* The calls inside a key's wall are counted exactly and never exceed the capacity
\* it was first given; a caller waits only while the wall is full or its channel has
\* been closed.
WallKept == W!WallHolds /\ W!NoLostWakeup

\* Every caller of a bulkhead is answered although nobody's context ends.
AcquireReturns == W!AcquireReturns

\* A hedged call loses no outcome to the order in which a select looked, and tells
\* its observer and the answer once, and truly, what was hedged.
HedgeHonest == H!NothingLost /\ H!TellsTheTruth

\* A hedged call returns once the caller's context is over, and leaves no copy
\* running on a provider that honours its context.
HedgeEnds == H!ReturnsOnCancel /\ H!NoCopyLeft
=============================================================================

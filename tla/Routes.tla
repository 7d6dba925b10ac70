------------------------------- MODULE Routes -------------------------------
(***************************************************************************)
(* One request through the retry and fallback middleware,                  *)
(* v2/internal/runtime/mw/retry.go and fallback.go: a retry around a       *)
(* fallback whose routes are each wrapped in a retry of their own.  With    *)
(* one attempt outside or inside this is either of them alone.  Requests   *)
(* share nothing, so one is enough.  What a route does is the environment: *)
(* it answers or fails with an error of some kind at any time, before or   *)
(* after the caller's context ends.                                        *)
(***************************************************************************)
EXTENDS Naturals, FiniteSets

CONSTANTS
  Routes,    \* 1 is the primary, the others the alternates in their order
  Configs    \* the configurations a behaviour may have

\* Kinds of failure the two layers tell apart: repeatable ones, an open
\* circuit (repeatable for others, not for Retry), an answer that cannot be
\* used, a capability the route lacks, a full bulkhead, a panic reported as an
\* error, and one that stops everything.
Repeatable == {"unavailable", "timeout"}
Kinds == Repeatable \cup {"open", "malformed", "unsupported", "admission",
                          "panic", "terminal"}
EndKinds == {"canceled", "timeout"}   \* what an ended context is classified as

\* `kinds' is WithFallbackKinds, or AllKinds when it was not given; qualified
\* alternates meet the declared capabilities and the client's data policy.
AllKinds == {"default"}
Config ==
  [outer : Nat \ {0}, inner : Nat \ {0}, kinds : SUBSET (Kinds \cup AllKinds),
   qualified : SUBSET Routes]

VARIABLES
  cfg,
  pc,
  round,      \* attempt of the outer retry
  route,      \* the route being asked
  attempt,    \* attempt of its own retry
  lastErr,    \* kind of the error in hand
  behind,     \* kind that stays behind it in the chain
  over,       \* "no", or how the caller's context ended
  result,     \* "none", "answer" or "error"
  \* History.
  saw,        \* last failure of each route asked in this round
  asked,      \* requests each route was sent in this round
  repeated,   \* kinds of the failures a request was repeated after
  late        \* requests sent after the context ended

vars == <<cfg, pc, round, route, attempt, lastErr, behind, over, result, saw,
          asked, repeated, late>>

Init ==
  /\ cfg \in Configs
  /\ pc = "send" /\ round = 1 /\ route = 1 /\ attempt = 1
  /\ lastErr = "none" /\ behind = "none" /\ over = "no" /\ result = "none"
  /\ saw = [r \in Routes |-> "none"] /\ asked = [r \in Routes |-> 0]
  /\ repeated = {} /\ late = 0

-----------------------------------------------------------------------------
\* Mutant: an open circuit is waited out and asked again.
retryRepeats_Open(k) == k \in Repeatable \cup {"open"}

retryRepeats(k) == k \in Repeatable

\* Mutant: a full bulkhead sends the request to the next route.
triggers_Admission(k) ==
  IF cfg.kinds = AllKinds THEN k \notin {"panic", "terminal", "canceled"} ELSE k \in cfg.kinds

triggers(k) ==
  IF cfg.kinds = AllKinds
  THEN k \notin {"admission", "panic", "terminal", "canceled"}
  ELSE k \in cfg.kinds

\* handler.Complete of the route: the request goes out.
Send ==
  /\ pc = "send" /\ pc' = "sent"
  /\ asked' = [asked EXCEPT ![route] = @ + 1]
  /\ late' = IF over = "no" THEN late ELSE late + 1
  /\ UNCHANGED <<cfg, round, route, attempt, lastErr, behind, over, result, saw,
                 repeated>>

RouteAnswers ==
  /\ pc = "sent" /\ pc' = "done" /\ result' = "answer"
  /\ UNCHANGED <<cfg, round, route, attempt, lastErr, behind, over, saw, asked, repeated, late>>

RouteFails ==
  /\ pc = "sent" /\ pc' = "retry"
  /\ \E k \in Kinds \cup (IF over = "no" THEN {} ELSE {over}) :
       lastErr' = k /\ saw' = [saw EXCEPT ![route] = k]
  /\ behind' = "none"
  /\ UNCHANGED <<cfg, round, route, attempt, over, result, asked, repeated, late>>

-----------------------------------------------------------------------------
\* retryProvider.Complete of the route, after a failed attempt: give up, or
\* wait.
Retry ==
  /\ pc = "retry"
  /\ pc' = IF ~retryRepeats(lastErr) \/ attempt = cfg.inner
           THEN "fallback" ELSE "sleep"
  /\ UNCHANGED <<cfg, round, route, attempt, lastErr, behind, over, result, saw,
                 asked, repeated, late>>

\* Mutant: the context is only raced with the timer.
Asleep_NotAsked(waking) ==
  /\ pc' = waking
  /\ UNCHANGED <<cfg, round, route, attempt, lastErr, behind, over, result, saw,
                 asked, repeated, late>>

\* realSleep looks at the context before it starts its timer.
Asleep(waking) ==
  /\ over = "no"
  /\ pc' = waking
  /\ UNCHANGED <<cfg, round, route, attempt, lastErr, behind, over, result, saw,
                 asked, repeated, late>>

Sleep == pc = "sleep" /\ Asleep("asleep")

\* The timer, which may be taken although the context has ended too.
Wake ==
  /\ pc = "asleep" /\ pc' = "send"
  /\ attempt' = attempt + 1
  /\ repeated' = repeated \cup {lastErr}
  /\ UNCHANGED <<cfg, round, route, lastErr, behind, over, result, saw, asked, late>>

\* Mutant: the context's error stands alone.
EndedAsleep_Bare(from, to) ==
  /\ pc \in from /\ over # "no" /\ pc' = to
  /\ lastErr' = over /\ behind' = "none"
  /\ UNCHANGED <<cfg, round, route, attempt, over, result, saw, asked, repeated, late>>

\* The context ended before or during the wait: its kind, with the failure that
\* was waited out behind it.
EndedAsleep(from, to) ==
  /\ pc \in from /\ over # "no" /\ pc' = to
  /\ lastErr' = over /\ behind' = lastErr
  /\ UNCHANGED <<cfg, round, route, attempt, over, result, saw, asked, repeated, late>>

RetryEnded == EndedAsleep({"sleep", "asleep"}, "fallback")

-----------------------------------------------------------------------------
Later(r) == {s \in Routes : s > r}

\* fallbackProvider.Complete: the first alternate after this one that may be
\* used, if the failure is one to route around and the context is not over.
MoveOn ==
  /\ pc = "fallback" /\ triggers(lastErr) /\ over = "no"
  /\ \E r \in Later(route) \cap cfg.qualified :
       /\ \A s \in Later(route) \cap cfg.qualified : r <= s
       /\ route' = r
  /\ attempt' = 1 /\ pc' = "send"
  /\ UNCHANGED <<cfg, round, lastErr, behind, over, result, saw, asked, repeated, late>>

\* There are alternates left, usable or not, and the context is over.
EndedHere == triggers(lastErr) /\ over # "no" /\ Later(route) # {}

FallbackEnded ==
  /\ pc = "fallback" /\ EndedHere
  /\ pc' = "outer" /\ lastErr' = over /\ behind' = "none"
  /\ UNCHANGED <<cfg, round, route, attempt, over, result, saw, asked, repeated, late>>

\* Mutant: an alternate that may not be used ends the search.
NoneLeft_FirstOnly ==
  ~triggers(lastErr)
    \/ \E r \in Later(route) : r \notin cfg.qualified /\ \A s \in Later(route) : r <= s
    \/ Later(route) = {}

\* Nothing to route around, or nowhere to go.
NoneLeft == ~triggers(lastErr) \/ Later(route) \cap cfg.qualified = {}

FallbackStops ==
  /\ pc = "fallback" /\ NoneLeft /\ ~EndedHere
  /\ pc' = "outer"
  /\ UNCHANGED <<cfg, round, route, attempt, lastErr, behind, over, result, saw,
                 asked, repeated, late>>

-----------------------------------------------------------------------------
\* retryProvider.Complete around the fallback.
OuterRetry ==
  /\ pc = "outer"
  /\ IF ~retryRepeats(lastErr) \/ round = cfg.outer
     THEN pc' = "done" /\ result' = "error"
     ELSE pc' = "outerSleep" /\ UNCHANGED result
  /\ UNCHANGED <<cfg, round, route, attempt, lastErr, behind, over, saw, asked, repeated, late>>

OuterSleep == pc = "outerSleep" /\ Asleep("outerAsleep")

OuterWake ==
  /\ pc = "outerAsleep" /\ pc' = "send"
  /\ round' = round + 1 /\ route' = 1 /\ attempt' = 1
  /\ saw' = [r \in Routes |-> "none"] /\ asked' = [r \in Routes |-> 0]
  /\ repeated' = repeated \cup {lastErr}
  /\ UNCHANGED <<cfg, lastErr, behind, over, result, late>>

OuterEnded == EndedAsleep({"outerSleep", "outerAsleep"}, "ended")

OuterReturns ==
  /\ pc = "ended" /\ pc' = "done" /\ result' = "error"
  /\ UNCHANGED <<cfg, round, route, attempt, lastErr, behind, over, saw, asked, repeated, late>>

CtxEnds ==
  /\ pc # "done" /\ over = "no"
  /\ over' \in EndKinds
  /\ UNCHANGED <<cfg, pc, round, route, attempt, lastErr, behind, result, saw,
                 asked, repeated, late>>

Terminated == pc = "done" /\ UNCHANGED vars

Next ==
  \/ Send \/ RouteAnswers \/ RouteFails
  \/ Retry \/ Sleep \/ Wake \/ RetryEnded
  \/ MoveOn \/ FallbackEnded \/ FallbackStops
  \/ OuterRetry \/ OuterSleep \/ OuterWake \/ OuterEnded \/ OuterReturns
  \/ CtxEnds \/ Terminated

Spec == Init /\ [][Next]_vars

-----------------------------------------------------------------------------
Asked == {r \in Routes : asked[r] > 0}
LastAsked == CHOOSE r \in Asked \cup {1} : \A s \in Asked : s <= r

\* "Those are not about the route": kinds a default fallback stops at
\* (fallback.go:83-100), with the ones its options name instead.
OfTheRoute(k) ==
  IF cfg.kinds = AllKinds
  THEN k \in {"unavailable", "timeout", "open", "malformed", "unsupported"}
  ELSE k \in cfg.kinds

\* The routes are tried in their order, none that may be used is passed over,
\* none that may not is asked, and none after a failure that is not the
\* route's: a request that failed was sent to every usable route unless the
\* last failure forbids it or the context is over (fallback.go:233-290).
RoutesTried ==
  /\ Asked \subseteq cfg.qualified \cup {1}
  /\ \A r \in Asked \ {LastAsked} : OfTheRoute(saw[r])
  /\ \A r \in cfg.qualified : r < LastAsked => r \in Asked
  /\ result = "error" /\ over = "no" /\ OfTheRoute(saw[LastAsked]) =>
       cfg.qualified \subseteq Asked

\* The error that comes back is the last route's own or the context's; and the
\* failure that was being waited out when the context ended stays behind it,
\* unless a fallback with routes left spoke for it (retry.go:161-171).
ErrorTells ==
  result = "error" =>
    \/ lastErr = saw[LastAsked]
    \/ /\ over # "no" /\ lastErr = over
       /\ Later(LastAsked) = {} => behind # "none"

\* A route is sent as many requests as its retry allows, none to repeat a
\* failure that asking again cannot cure, an open circuit included; and once the
\* context has ended at most one more request leaves, the one whose timer had
\* fired already (retry.go:200-212, mw.go:111-126).
RepeatsBounded ==
  /\ \A r \in Routes : asked[r] <= cfg.inner
  /\ repeated \subseteq Repeatable
  /\ late <= 1

-----------------------------------------------------------------------------
(***************************************************************************)
(* The inductive invariant behind the three.                               *)
(***************************************************************************)
Failures == Kinds \cup EndKinds

RouteTypes ==
  /\ cfg \in Config /\ route \in Routes /\ attempt \in Nat \ {0} /\ late \in Nat
  /\ pc \in {"send", "sent", "retry", "sleep", "asleep", "fallback", "outer", "outerSleep",
             "outerAsleep", "ended", "done"}
  /\ over \in EndKinds \cup {"no"} /\ result \in {"none", "answer", "error"}
  /\ saw \in [Routes -> Failures \cup {"none"}] /\ asked \in [Routes -> Nat]

\* Where a failure is in hand, and where it has come back from the routes.
InHand == pc \in {"retry", "sleep", "asleep"}
CameBack == pc \in {"outer", "outerSleep", "outerAsleep", "ended"} \/ result = "error"

\* Up to the route at hand every usable one was asked and failed of itself; those
\* after it were not asked in this round.
AskedInOrder ==
  /\ \E r \in Asked \cup {1} : \A s \in Asked : s <= r
  /\ asked[route] = IF pc = "send" THEN attempt - 1 ELSE attempt
  /\ attempt <= cfg.inner /\ (pc \in {"sleep", "asleep"} => attempt < cfg.inner)
  /\ route \in cfg.qualified \cup {1}
  /\ \A r \in Routes : /\ r > route => asked[r] = 0
                       /\ asked[r] <= cfg.inner
                       /\ r \in Asked => r \in cfg.qualified \cup {1}
                       /\ r < route /\ r \in Asked => OfTheRoute(saw[r])
                       /\ r < route /\ r \in cfg.qualified \cup {1} => r \in Asked

\* The failure in hand is the route's, or that of the context in its place.
FailureTold ==
  /\ InHand => lastErr = saw[route] /\ lastErr \in Failures
  /\ pc = "fallback" \/ CameBack =>
       /\ lastErr \in Failures
       /\ \/ lastErr = saw[route]
          \/ /\ over # "no" /\ lastErr = over
             /\ Later(route) = {} => behind # "none"
  /\ CameBack /\ over = "no" /\ OfTheRoute(saw[route]) =>
       \A r \in cfg.qualified : r <= route
  /\ pc \in {"sleep", "asleep", "outerSleep", "outerAsleep"} => lastErr \in Repeatable
  /\ result = "error" => pc = "done"

\* Nothing is sent again by who has seen the context ended.
LateOnce ==
  /\ repeated \subseteq Repeatable /\ late <= 1
  /\ over = "no" => late = 0
  /\ late = 1 => pc \notin {"send", "asleep", "outerAsleep"}

RoutesInv == RouteTypes /\ AskedInOrder /\ FailureTold /\ LateOnce
=============================================================================

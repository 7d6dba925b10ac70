------------------------------ MODULE RateLimit ----------------------------
(***************************************************************************)
(* The rate limiting middleware (internal/runtime/mw/ratelimit.go): a      *)
(* token bucket shared by every call.  A call takes a token, or sleeps for *)
(* as long as the bucket says one takes to come and looks again, or is     *)
(* refused when the limiter was made with Reject.                          *)
(*                                                                         *)
(* The bucket is refilled lazily, by the call that looks at it.  Time      *)
(* passes in ticks, the nanoseconds of the code.  A token is Interval      *)
(* units and a tick brings N of them, so that n tokens come per interval   *)
(* and nothing is rounded but the wait, as in the code.                    *)
(***************************************************************************)
EXTENDS Integers, FiniteSets

CONSTANTS
  Callers,      \* the goroutines that make calls, one at a time each
  N,            \* units a tick brings
  Interval,     \* units of one token
  Burst,        \* capacity of the bucket, in tokens
  MaxRetryAfter,\* the longest wait in ticks the bucket ever asks for
  Horizon       \* ages beyond this one are not told apart: the bucket is full

ASSUME RateAssumption ==
  /\ N \in Nat \ {0} /\ Interval \in Nat \ {0} /\ Burst \in Nat \ {0}
  /\ MaxRetryAfter \in Nat \ {0}
  /\ Horizon \in Nat /\ Horizon * N >= Burst * Interval

VARIABLES
  reject,    \* the limiter was made with Reject
  pc,        \* pc[c]: "start", "ask", "sleep" or how the call ended
  tokens,    \* units in the bucket when it was last refilled
  age,       \* ticks since then
  rest,      \* rest[c]: ticks caller c still has to sleep
  ctxDone,   \* the callers whose context is over
  excess,    \* units taken beyond those earned, in the worst window up to now
  turn       \* turn[c]: no token was taken since c computed its wait in full

vars == <<reject, pc, tokens, age, rest, ctxDone, excess, turn>>

Capacity == Burst * Interval
Ended == {"granted", "refused", "canceled"}

-----------------------------------------------------------------------------

\* newTokenBucket: the bucket starts full.
Init ==
  /\ reject \in BOOLEAN
  /\ pc = [c \in Callers |-> "start"]
  /\ tokens = Capacity
  /\ age = 0
  /\ rest = [c \in Callers |-> 0]
  /\ ctxDone = {}
  /\ excess = 0
  /\ turn = [c \in Callers |-> FALSE]

Goto(c, l) == pc' = [pc EXCEPT ![c] = l]

\* What the bucket holds once it is refilled for the time that went by.
Refilled_NoCap == tokens + age * N     \* Mutant: idle time is saved up
Refilled == IF tokens + age * N > Capacity THEN Capacity ELSE tokens + age * N

\* The ticks until the missing units are there, rounded up and at least one, and
\* no more than the library makes a caller wait.
Due_RoundedDown == (Interval - Refilled) \div N     \* Mutant
Due ==
  LET ticks == (Interval - Refilled + N - 1) \div N
  IN  IF ticks < 1 THEN 1 ELSE ticks
waitFor == IF Due < MaxRetryAfter THEN Due ELSE MaxRetryAfter

\* wait begins with a look at the context.
Start(c) ==
  /\ pc[c] = "start"
  /\ Goto(c, IF c \in ctxDone THEN "canceled" ELSE "ask")
  /\ UNCHANGED <<reject, tokens, age, rest, ctxDone, excess, turn>>

\* tryAcquire finds a token and takes it.
Acquire_SameAge(c) ==     \* Mutant: the time of the refill is not noted
  /\ pc[c] = "ask" /\ Refilled >= Interval
  /\ tokens' = Refilled - Interval
  /\ excess' = excess + Interval
  /\ turn' = [d \in Callers |-> FALSE]
  /\ Goto(c, "granted")
  /\ UNCHANGED <<reject, age, rest, ctxDone>>
Acquire(c) ==
  /\ pc[c] = "ask" /\ Refilled >= Interval
  /\ tokens' = Refilled - Interval
  /\ age' = 0
  /\ excess' = excess + Interval
  /\ turn' = [d \in Callers |-> FALSE]
  /\ Goto(c, "granted")
  /\ UNCHANGED <<reject, rest, ctxDone>>

\* It does not, and takes nothing: the call is refused with the wait, or sleeps.
Short_Pays == /\ tokens' = 0 /\ age' = 0     \* Mutant: who waits pays at once
Short == /\ tokens' = Refilled /\ age' = 0

Refused(c) ==
  /\ pc[c] = "ask" /\ Refilled < Interval /\ reject
  /\ Short
  /\ rest' = [rest EXCEPT ![c] = waitFor]
  /\ turn' = [turn EXCEPT ![c] = (Due <= MaxRetryAfter)]
  /\ Goto(c, "refused")
  /\ UNCHANGED <<reject, ctxDone, excess>>

Sleep(c) ==
  /\ pc[c] = "ask" /\ Refilled < Interval /\ ~reject
  /\ Short
  /\ rest' = [rest EXCEPT ![c] = waitFor]
  /\ turn' = [turn EXCEPT ![c] = (Due <= MaxRetryAfter)]
  /\ Goto(c, "sleep")
  /\ UNCHANGED <<reject, ctxDone, excess>>

\* realSleep: the timer, or the end of the context.
Wake_SleepsOn(c) ==       \* Mutant: the bucket is not asked again
  /\ pc[c] = "sleep" /\ rest[c] = 0
  /\ rest' = [rest EXCEPT ![c] = MaxRetryAfter]
  /\ UNCHANGED <<reject, pc, tokens, age, ctxDone, excess, turn>>
Wake(c) ==
  /\ pc[c] = "sleep" /\ rest[c] = 0
  /\ Goto(c, "ask")
  /\ UNCHANGED <<reject, tokens, age, rest, ctxDone, excess, turn>>

SleepCanceled(c) ==
  /\ pc[c] = "sleep" /\ c \in ctxDone
  /\ rest' = [rest EXCEPT ![c] = 0]
  /\ turn' = [turn EXCEPT ![c] = FALSE]
  /\ Goto(c, "canceled")
  /\ UNCHANGED <<reject, tokens, age, ctxDone, excess>>

\* The surroundings: another call of the same goroutine, which a refused one
\* makes when the stated wait is over; the end of a context; and time.
Again(c) ==
  /\ pc[c] \in Ended /\ rest[c] = 0
  /\ Goto(c, "start")
  /\ ctxDone' = ctxDone \ {c}
  /\ UNCHANGED <<reject, tokens, age, rest, excess, turn>>

CtxEnds(c) ==
  /\ pc[c] \in {"start", "ask", "sleep"} /\ c \notin ctxDone
  /\ ctxDone' = ctxDone \cup {c}
  /\ UNCHANGED <<reject, pc, tokens, age, rest, excess, turn>>

Tick ==
  /\ age' = IF age < Horizon THEN age + 1 ELSE age
  /\ rest' = [c \in Callers |-> IF rest[c] > 0 THEN rest[c] - 1 ELSE 0]
  /\ excess' = IF excess > N THEN excess - N ELSE 0
  /\ UNCHANGED <<reject, pc, tokens, ctxDone, turn>>

Next ==
  \/ \E c \in Callers :
       \/ Start(c) \/ Acquire(c) \/ Refused(c) \/ Sleep(c) \/ Wake(c)
       \/ SleepCanceled(c) \/ Again(c) \/ CtxEnds(c)
  \/ Tick

Spec == Init /\ [][Next]_vars

\* Goroutines are scheduled and the clock runs.  No caller has to call again.
FairSpec ==
  /\ Spec
  /\ WF_vars(Tick)
  /\ \A c \in Callers :
       WF_vars(Start(c) \/ Acquire(c) \/ Refused(c) \/ Sleep(c) \/ Wake(c)
                 \/ SleepCanceled(c))

-----------------------------------------------------------------------------

TypeOK ==
  /\ reject \in BOOLEAN
  /\ pc \in [Callers -> {"start", "ask", "sleep"} \cup Ended]
  /\ tokens \in 0..Capacity
  /\ age \in 0..Horizon
  /\ rest \in [Callers -> 0..MaxRetryAfter]
  /\ ctxDone \subseteq Callers
  /\ excess \in Nat
  /\ turn \in [Callers -> BOOLEAN]

\* The limit holds over every stretch of time, not only since the start: in no
\* window are more tokens taken than the burst and what the window earned at the
\* configured rate ("stay under a self-imposed ceiling").  excess is the largest,
\* over all windows that end now, of what was taken less what was earned.
RateHeld == excess <= Capacity

\* What the bucket can give and what was taken beyond the rate never exceed the
\* burst together.
BucketCovers == Refilled + excess <= Capacity

\* A caller whose full wait is over finds its token there when nobody took one in
\* between: it neither wakes early and goes round the loop without sleeping
\* (tryAcquire's comment on rounding) nor has a wait in which it, or another
\* caller that was turned away, pays for a slot nobody used.
WaitSuffices ==
  \A c \in Callers :
    turn[c] /\ pc[c] \in {"sleep", "refused", "ask"} /\ rest[c] = 0
      => Refilled >= Interval

\* The limiter: the rate is held in every window, and a full wait is enough for a token.
LimiterExact == RateHeld /\ WaitSuffices

\* What WaitSuffices needs to be inductive: the units that are missing come in
\* the ticks that are left.
WaitCovers ==
  \A c \in Callers :
    turn[c] => Refilled + rest[c] * N >= Interval

\* Every call is answered once no more calls are made, however often a waiting
\* caller loses its token to another ("no waiter is refused").
WaitEnds ==
  <>[][\A c \in Callers : ~Again(c)]_vars =>
    \A c \in Callers : pc[c] = "ask" ~> pc[c] \in Ended

RInv == TypeOK /\ BucketCovers /\ WaitCovers
=============================================================================

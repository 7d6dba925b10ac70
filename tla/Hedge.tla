------------------------------- MODULE Hedge -------------------------------
(***************************************************************************)
(* The hedging middleware (internal/runtime/mw/hedge.go): one request is   *)
(* sent to the provider, a second copy of it when the first has not        *)
(* answered within a delay, and the first answer of the two is used.       *)
(*                                                                         *)
(* The request runs on the caller's goroutine, each copy on one of its     *)
(* own, and they share a buffered channel of outcomes, a timer and two     *)
(* contexts: the caller's, and the one derived from it that stops the      *)
(* copies when the request returns.  Requests share nothing with each      *)
(* other, so one of them is the whole of the state.                        *)
(*                                                                         *)
(* Answers are told apart by the copy that gave them and failures by the   *)
(* copy and its reason, which is all a caller can tell.                    *)
(***************************************************************************)
EXTENDS Naturals, Sequences, SequencesExt

CONSTANTS
  Delays,       \* the settings of the delay: TRUE is one greater than zero
  Honours,      \* whether the provider ends when its context does
  Nothing       \* no outcome, failure or result yet

Copies == {"first", "second"}

\* What a copy of the request can end with.  A panic in the provider is one of
\* the failures: guarded turns it into an error on the copy's own goroutine.
Reasons == {"failed", "panicked", "stopped"}

Answer(d) == [kind |-> "answer", copy |-> d]
Failure(d, why) == [kind |-> "error", copy |-> d, why |-> why]
ContextError == [kind |-> "context"]

Outcomes == {Answer(d) : d \in Copies}
            \cup {Failure(d, why) : d \in Copies, why \in Reasons}

VARIABLES
  delayed,     \* the configured delay is greater than zero
  honours,     \* the provider ends when its context does
  pc,          \* where Complete is
  copy,        \* copy[d]: "unsent", "running", "sending" or "ended"
  sending,     \* sending[d]: the outcome the copy's goroutine is to send
  outcomes,    \* the channel of outcomes
  failed,      \* hedgeFailures: failed[d] is the error noted for copy d
  waiting,     \* how many outcomes the loop still waits for
  timer,       \* "off", "running" or "fired"
  ctxDone,     \* the caller's context is over
  stopped,     \* the context of the copies is over
  event,       \* HedgeEvent
  reports,     \* the events the observer has been told
  result,      \* what Complete returned
  mark,        \* Hedged of the response that was returned
  missed       \* outcomes delivered and unread when Complete returned

vars == <<delayed, honours, pc, copy, sending, outcomes, failed, waiting, timer,
          ctxDone, stopped, event, reports, result, mark, missed>>
settings == <<delayed, honours>>
copyVars == <<copy, sending, outcomes>>
callVars == <<settings, failed, event, reports, result, mark, missed>>

-----------------------------------------------------------------------------

Init ==
  /\ delayed \in Delays /\ honours \in Honours
  /\ pc = "start"
  /\ copy = [d \in Copies |-> "unsent"]
  /\ sending = [d \in Copies |-> Nothing]
  /\ outcomes = <<>>
  /\ failed = [d \in Copies |-> Nothing]
  /\ waiting = 0
  /\ timer = "off"
  /\ ctxDone = FALSE
  /\ stopped = FALSE
  /\ event = [Hedged |-> FALSE, SecondWon |-> FALSE]
  /\ reports = <<>>
  /\ result = Nothing
  /\ mark = FALSE
  /\ missed = {}

-----------------------------------------------------------------------------
\* The caller's goroutine.

\* send starts a copy on a goroutine of its own.
send(d) == copy' = [copy EXCEPT ![d] = "running"]

\* Mutant: the last failure rather than the first copy's.
err_SecondFirst(f) == IF f["second"] # Nothing THEN f["second"] ELSE f["first"]

\* hedgeFailures.note and hedgeFailures.err.
note(o) == [failed EXCEPT ![o.copy] = o]
err(f) == IF f["first"] # Nothing THEN f["first"] ELSE f["second"]

\* Mutant: the cancellation of the copies is left out.
Return_NoStop(r, hedged, left) ==
  /\ pc' = "returned"
  /\ result' = r
  /\ mark' = (r.kind = "answer" /\ hedged)
  /\ timer' = "off"
  /\ missed' = ToSet(left)
  /\ UNCHANGED stopped

\* Mutant: the answer of a drained channel is not marked.
Return_DrainUnmarked(r, hedged, left) ==
  /\ pc' = "returned"
  /\ result' = r
  /\ mark' = (r.kind = "answer" /\ hedged /\ pc # "drain")
  /\ stopped' = TRUE
  /\ timer' = "off"
  /\ missed' = ToSet(left)

\* A return of Complete: stop, the deferred cancellation, ends the context of
\* the copies, and the deferred timer.Stop stops the timer.  What it leaves in
\* the channel is never read.
Return(r, hedged, left) ==
  /\ pc' = "returned"
  /\ result' = r
  /\ mark' = (r.kind = "answer" /\ hedged)
  /\ stopped' = TRUE
  /\ timer' = "off"
  /\ missed' = ToSet(left)

\* Mutant: a request that returns because its context ended does not tell.
report_NotTwice(e) ==
  /\ event' = e
  /\ reports' = IF pc = "drain" THEN reports ELSE Append(reports, e)

\* report tells the observer.  It is called before each return of a request
\* that is subject to hedging.
report(e) ==
  /\ event' = e
  /\ reports' = Append(reports, e)

\* A delay of zero or less: the request is the provider's own, on the caller's
\* goroutine and context.  The middleware is out of the way from here on.
Undelayed ==
  /\ pc = "start" /\ ~delayed
  /\ \E o \in {Answer("first")} \cup {Failure("first", why) : why \in Reasons} :
       /\ o = Failure("first", "stopped") => ctxDone
       /\ Return(o, FALSE, outcomes)
  /\ UNCHANGED <<copyVars, settings, failed, waiting, ctxDone, event, reports>>

\* The first copy goes out and the timer starts.
SendFirst ==
  /\ pc = "start" /\ delayed
  /\ send("first")
  /\ timer' = "running"
  /\ pc' = "delay"
  /\ UNCHANGED <<sending, outcomes, waiting, ctxDone, stopped, callVars>>

\* The select of the delay.  A select takes any of its cases that is ready.
FirstWithinDelay ==
  /\ pc = "delay" /\ outcomes # <<>>
  /\ outcomes' = Tail(outcomes)
  /\ report(event)
  /\ Return(Head(outcomes), FALSE, Tail(outcomes))
  /\ UNCHANGED <<copy, sending, settings, failed, waiting, ctxDone>>

DelayCtxDone ==
  /\ pc = "delay" /\ ctxDone
  /\ pc' = "drain"
  /\ UNCHANGED <<copyVars, waiting, timer, ctxDone, stopped, callVars>>

DelayOver ==
  /\ pc = "delay" /\ timer = "fired"
  /\ pc' = "recheck"
  /\ UNCHANGED <<copyVars, waiting, timer, ctxDone, stopped, callVars>>

\* ctx.Err(): no second copy goes out on a context that is already over.
Recheck ==
  /\ pc = "recheck"
  /\ pc' = IF ctxDone THEN "drain" ELSE "hedge"
  /\ UNCHANGED <<copyVars, waiting, timer, ctxDone, stopped, callVars>>

SendSecond ==
  /\ pc = "hedge"
  /\ event' = [event EXCEPT !.Hedged = TRUE]
  /\ send("second")
  /\ waiting' = 2
  /\ pc' = "loop"
  /\ UNCHANGED <<sending, outcomes, timer, ctxDone, stopped, failed, reports,
                 settings, result, mark, missed>>

\* An answer in the loop is the answer of the request.
LoopAnswer ==
  /\ pc = "loop" /\ waiting > 0
  /\ outcomes # <<>> /\ Head(outcomes).kind = "answer"
  /\ outcomes' = Tail(outcomes)
  /\ report([event EXCEPT !.SecondWon = (Head(outcomes).copy = "second")])
  /\ Return(Head(outcomes), event.Hedged, Tail(outcomes))
  /\ UNCHANGED <<copy, sending, settings, failed, waiting, ctxDone>>

\* A failure in the loop is noted, and the other copy is waited for.
LoopFailure ==
  /\ pc = "loop" /\ waiting > 0
  /\ outcomes # <<>> /\ Head(outcomes).kind = "error"
  /\ outcomes' = Tail(outcomes)
  /\ failed' = note(Head(outcomes))
  /\ waiting' = waiting - 1
  /\ UNCHANGED <<pc, copy, sending, timer, ctxDone, stopped, event, reports,
                 settings, result, mark, missed>>

\* Mutant: a loop that waits for its copies only.
LoopCtxDone_Never ==
  /\ pc = "loop" /\ waiting > 0 /\ ctxDone /\ outcomes # <<>>
  /\ pc' = "drain"
  /\ UNCHANGED <<copyVars, waiting, timer, ctxDone, stopped, callVars>>

LoopCtxDone ==
  /\ pc = "loop" /\ waiting > 0 /\ ctxDone
  /\ pc' = "drain"
  /\ UNCHANGED <<copyVars, waiting, timer, ctxDone, stopped, callVars>>

LoopOver ==
  /\ pc = "loop" /\ waiting = 0
  /\ report(event)
  /\ Return(err(failed), FALSE, outcomes)
  /\ UNCHANGED <<copyVars, settings, failed, waiting, ctxDone>>

\* hedgeDrain, called by endedByContext: outcomes are taken without blocking.
\* An answer that is waiting is the answer.
DrainAnswer ==
  /\ pc = "drain" /\ outcomes # <<>> /\ Head(outcomes).kind = "answer"
  /\ outcomes' = Tail(outcomes)
  /\ report([event EXCEPT !.SecondWon = (Head(outcomes).copy = "second")])
  /\ Return(Head(outcomes), event.Hedged, Tail(outcomes))
  /\ UNCHANGED <<copy, sending, settings, failed, waiting, ctxDone>>

DrainFailure ==
  /\ pc = "drain" /\ outcomes # <<>> /\ Head(outcomes).kind = "error"
  /\ outcomes' = Tail(outcomes)
  /\ failed' = note(Head(outcomes))
  /\ UNCHANGED <<pc, copy, sending, waiting, timer, ctxDone, stopped, event,
                 settings, reports, result, mark, missed>>

\* Mutant: the context's error, though a copy had failed.
DrainedError_Bare == ContextError

\* The channel is empty: a failure that was noted, else the context's error.
DrainedError == IF err(failed) # Nothing THEN err(failed) ELSE ContextError

Drained ==
  /\ pc = "drain" /\ outcomes = <<>>
  /\ report(event)
  /\ Return(DrainedError, FALSE, outcomes)
  /\ UNCHANGED <<copyVars, settings, failed, waiting, ctxDone>>

Complete ==
  \/ Undelayed \/ SendFirst
  \/ FirstWithinDelay \/ DelayCtxDone \/ DelayOver
  \/ Recheck \/ SendSecond
  \/ LoopAnswer \/ LoopFailure \/ LoopCtxDone \/ LoopOver
  \/ DrainAnswer \/ DrainFailure \/ Drained

-----------------------------------------------------------------------------
\* The copies.

\* The context of the copies is derived from the caller's.
RunDone == stopped \/ ctxDone

\* The provider ends a copy.  It reports being stopped only once the context
\* of the copies is over, and may as well answer or fail after that.
CopyEnds(d) ==
  /\ copy[d] = "running"
  /\ \E o \in Outcomes :
       /\ o.copy = d
       /\ o = Failure(d, "stopped") => RunDone
       /\ sending' = [sending EXCEPT ![d] = o]
  /\ copy' = [copy EXCEPT ![d] = "sending"]
  /\ UNCHANGED <<pc, outcomes, waiting, timer, ctxDone, stopped, callVars>>

\* make(chan hedgeOutcome, 2)
ChannelSize == 2

\* The send of the outcome.  A channel that is full blocks the goroutine.
CopySends(d) ==
  /\ copy[d] = "sending" /\ Len(outcomes) < ChannelSize
  /\ outcomes' = Append(outcomes, sending[d])
  /\ copy' = [copy EXCEPT ![d] = "ended"]
  /\ UNCHANGED <<pc, sending, waiting, timer, ctxDone, stopped, callVars>>

-----------------------------------------------------------------------------
\* The surroundings.

CtxEnds ==
  /\ ~ctxDone
  /\ ctxDone' = TRUE
  /\ UNCHANGED <<pc, copyVars, waiting, timer, stopped, callVars>>

TimerFires ==
  /\ timer = "running"
  /\ timer' = "fired"
  /\ UNCHANGED <<pc, copyVars, waiting, ctxDone, stopped, callVars>>

\* A request that is over, with no copy left: the end of a behaviour.
Terminated ==
  /\ pc = "returned" /\ \A d \in Copies : copy[d] \in {"unsent", "ended"}
  /\ UNCHANGED vars

Next ==
  \/ Complete
  \/ \E d \in Copies : CopyEnds(d) \/ CopySends(d)
  \/ CtxEnds \/ TimerFires
  \/ Terminated

Spec == Init /\ [][Next]_vars

\* The caller's goroutine and the goroutines of the copies are scheduled and the
\* timer fires.  Nothing makes the provider return, on the caller's goroutine or
\* on a copy's, unless it honours its context and the context of the copies is
\* over.
FairSpec ==
  /\ Spec
  /\ WF_vars(delayed /\ Complete)
  /\ WF_vars(TimerFires)
  /\ \A d \in Copies : /\ WF_vars(CopySends(d))
                       /\ WF_vars(honours /\ RunDone /\ CopyEnds(d))

-----------------------------------------------------------------------------
\* What the middleware promises.

TypeOK ==
  /\ pc \in {"start", "delay", "recheck", "hedge", "loop", "drain", "returned"}
  /\ copy \in [Copies -> {"unsent", "running", "sending", "ended"}]
  /\ sending \in [Copies -> Outcomes \cup {Nothing}]
  /\ Len(outcomes) \in 0..2 /\ ToSet(outcomes) \subseteq Outcomes
  /\ failed \in [Copies -> Outcomes \cup {Nothing}]
  /\ waiting \in 0..2
  /\ timer \in {"off", "running", "fired"}
  /\ {ctxDone, stopped, mark} \subseteq BOOLEAN
  /\ event \in [Hedged : BOOLEAN, SecondWon : BOOLEAN]
  /\ result \in Outcomes \cup {Nothing, ContextError}

\* The copies whose outcome Complete could have seen when it returned: the ones
\* it read and the ones that were waiting in the channel.
Seen == {d \in Copies : failed[d] # Nothing} \cup {o.copy : o \in missed}

\* No outcome is lost to the order in which a select looked (hedgeDrain's
\* comment): a request returns an error only when no copy's answer was waiting,
\* the bare error of the context only when no copy had failed either, and the
\* second copy's failure only when the first copy had not failed.
NothingLost ==
  pc = "returned" /\ result.kind # "answer" =>
    /\ \A o \in missed : o.kind = "error"
    /\ result = ContextError => Seen = {}
    /\ result # ContextError /\ result.copy = "second" => "first" \notin Seen

\* A request that could be hedged tells its observer once whether a second copy
\* was sent and whether that copy's answer was used, and an answer says Hedged
\* exactly when a second copy was sent (HedgeEvent and hedgeMarked).
TellsTheTruth ==
  pc = "returned" /\ delayed =>
    /\ reports = <<[Hedged |-> copy["second"] # "unsent",
                    SecondWon |-> result = Answer("second")]>>
    /\ result.kind = "answer" => mark = (copy["second"] # "unsent")

\* The request returns once the caller's context is over, also when the
\* provider never does ("Hedge is the one that returns when the caller's context
\* ends while a copy is still running").
ReturnsOnCancel == delayed /\ ctxDone ~> pc = "returned"

\* No goroutine is left behind by a provider that honours its context: the copy
\* that lost is stopped, and finds room for an outcome that nobody reads.
NoCopyLeft ==
  honours /\ pc = "returned" ~> \A d \in Copies : copy[d] \in {"unsent", "ended"}

-----------------------------------------------------------------------------
(* The inductive invariant of the proofs. *)

\* A copy's outcome is in one place: with its goroutine, in the channel, or noted.
OutcomesPlaced ==
  /\ \A d \in Copies :
       /\ copy[d] = "sending" => sending[d] \in Outcomes /\ sending[d].copy = d
       /\ failed[d] # Nothing => /\ copy[d] = "ended" /\ failed[d] \in Outcomes
                                /\ failed[d].copy = d /\ failed[d].kind = "error"
  /\ \A i \in 1..Len(outcomes) :
       /\ copy[outcomes[i].copy] = "ended" /\ failed[outcomes[i].copy] = Nothing
       /\ \A j \in 1..Len(outcomes) : outcomes[i].copy = outcomes[j].copy => i = j

\* What is known of the copies at each place of Complete.
CopiesTold ==
  /\ pc \in {"start", "delay", "recheck", "hedge"} =>
       copy["second"] = "unsent" /\ \A d \in Copies : failed[d] = Nothing
  /\ pc = "start" => copy["first"] = "unsent"
  /\ pc = "loop" => /\ waiting = 2 => \A d \in Copies : failed[d] = Nothing
                    /\ waiting = 1 => failed["first"] = Nothing <=> failed["second"] # Nothing
                    /\ waiting = 0 => \A d \in Copies : failed[d] # Nothing
                    /\ event.Hedged
  /\ pc # "returned" =>
       /\ reports = <<>> /\ ~event.SecondWon
       /\ event.Hedged = (copy["second"] # "unsent")

HedgeInv ==
  /\ outcomes \in Seq(Outcomes) /\ waiting \in 0..2
  /\ copy \in [Copies -> {"unsent", "running", "sending", "ended"}]
  /\ sending \in [Copies -> Outcomes \cup {Nothing}]
  /\ failed \in [Copies -> Outcomes \cup {Nothing}]
  /\ event \in [Hedged : BOOLEAN, SecondWon : BOOLEAN]
  /\ pc # "start" /\ pc # "returned" => delayed
  /\ OutcomesPlaced /\ CopiesTold /\ NothingLost /\ TellsTheTruth
=============================================================================

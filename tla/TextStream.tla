----------------------------- MODULE TextStream -----------------------------
(***************************************************************************)
(* An open stream of text: v2/internal/ops/streaming.go and streamend.go.  *)
(* The producer (runStream) reads the provider and fills a bounded channel; *)
(* ranges over it (All), the drain of a detached stream, Cancel, Err, the   *)
(* caller's context, the timeout and the scheduler's Close act beside it.   *)
(* Each critical section of resultMu, each channel operation and each look *)
(* at a context is a step of its own.  A piece of text is a count.         *)
(***************************************************************************)
EXTENDS Naturals, Sequences, FiniteSets

CONSTANTS
  BufferSize,         \* textStreamBufferSize
  Readers,            \* ranges over a stream, by one goroutine or several
  Scenarios           \* what may happen to a stream: who ranges over it, which events,
                      \* which last chunks, and a bound on its pieces

\* Err or Ended is asked, Cancel, the caller's context ending, the scheduler closing,
\* Detach, a provider deaf to its context, one that panics, one that never stops sending.
Happenings ==
  {"ask", "cancel", "caller", "close", "detach", "deaf", "panic", "endless"}

\* The last chunk: usable, usable without a usage report, from a route the
\* client's policy forbids, unusable, or unusable without a usage report.
LastChunks == {"ok", "bare", "foreign", "cut", "empty"}

ASSUME StreamConstants ==
  /\ BufferSize \in Nat \ {0}
  /\ Scenarios \subseteq
       [readers : SUBSET Readers, happens : SUBSET Happenings,
        chunks : SUBSET LastChunks, pieces : Nat]

VARIABLES
  \* The stream as its readers share it.
  ctx,            \* s.ctx: "live", "canceled" or "timeout"
  items, closed,  \* the channel
  final,          \* the claimed outcome, "none" until one is
  stopped, consumed, detached,
  drain,          \* "none", then where the drain is
  readerClosed,
  \* The producer.
  p,              \* where it is
  chunk,          \* the chunk in its hands
  last,           \* the last item it is delivering
  shut,           \* the scheduler closed and ended the run's context
  may,            \* this stream's scenario
  received, settled, recorded,
  \* Readers and the canceller.
  at, why, k,
  \* History.
  pieces, got, beside, late,   \* text produced; taken by each range
  told,           \* outcomes anyone was told
  records, charges, callbacks

chanVars == <<items, closed>>
outcomeVars == <<final, stopped, consumed, readerClosed>>
ledgerVars == <<records, charges, callbacks>>
prodVars == <<p, chunk, last, received, settled, recorded>>
readVars == <<at, why, got, beside, late>>
vars == <<ctx, chanVars, outcomeVars, detached, drain, shut, may, prodVars,
          readVars, k, pieces, told, ledgerVars>>

Init ==
  /\ ctx = "live" /\ items = <<>> /\ closed = FALSE
  /\ final = "none" /\ stopped = "none" /\ consumed = FALSE
  /\ readerClosed = FALSE /\ detached = FALSE /\ drain = "none"
  /\ p = "recv" /\ chunk = "none" /\ last = "none"
  /\ shut = FALSE /\ may \in Scenarios
  /\ received = FALSE /\ settled = FALSE /\ recorded = FALSE
  /\ at = [r \in Readers |-> "idle"] /\ why = [r \in Readers |-> "none"]
  /\ k = "idle"
  /\ pieces = 0 /\ got = [r \in Readers |-> 0] /\ beside = [r \in Readers |-> 0]
  /\ late = [r \in Readers |-> FALSE]
  /\ told = {} /\ records = <<>> /\ charges = <<>> /\ callbacks = 0

-----------------------------------------------------------------------------
\* Contexts.  The run's context is a child of the stream's.
RunOver == ctx # "live" \/ shut
Room == Len(items) < BufferSize
DrainBegun == drain # "none"

\* stopCause: whose doing it is that the provider stopped with err.
stopCause(err) ==
  IF ctx # "live" THEN ctx ELSE IF shut /\ err = "canceled" THEN "shutdown" ELSE err

\* contextOver of the run's context.
RunErr == IF ctx # "live" THEN ctx ELSE "canceled"

\* whyStopped: the error of a stream that ended with no final item.
whyStopped ==
  IF final \notin {"none", "ok"} THEN final
  ELSE IF stopped # "none" THEN stopped
  ELSE IF ctx # "live" THEN ctx ELSE "broke"

\* claim: the first outcome stands.
Claimed(o) == IF final = "none" THEN o ELSE final

\* knownLocked: what Err and Ended report, which is the outcome from then on.
Known ==
  IF final # "none" THEN final ELSE IF stopped # "none" THEN stopped ELSE ctx

\* Mutant: a context that is over is reported and not held.
knownLocked_Unheld ==
  /\ told' = IF Known = "live" THEN told ELSE told \cup {Known}
  /\ UNCHANGED final

knownLocked ==
  /\ told' = IF Known = "live" THEN told ELSE told \cup {Known}
  /\ final' = IF final = "none" /\ stopped = "none" /\ ctx # "live" THEN ctx ELSE final

-----------------------------------------------------------------------------
\* The environment.
CallerEnds ==
  /\ "caller" \in may.happens /\ ctx = "live" /\ ctx' \in {"canceled", "timeout"}
  /\ UNCHANGED <<chanVars, outcomeVars, detached, drain, shut, may, prodVars,
                 readVars, k, pieces, told, ledgerVars>>

SchedulerCloses ==
  /\ "close" \in may.happens /\ ~shut /\ p # "gone" /\ shut' = TRUE
  /\ UNCHANGED <<ctx, chanVars, outcomeVars, detached, drain, may, prodVars,
                 readVars, k, pieces, told, ledgerVars>>

Detach ==
  /\ "detach" \in may.happens /\ ~detached /\ detached' = TRUE
  /\ UNCHANGED <<ctx, chanVars, outcomeVars, drain, shut, may, prodVars,
                 readVars, k, pieces, told, ledgerVars>>

\* Err and Ended.
Ask ==
  /\ "ask" \in may.happens /\ knownLocked
  /\ UNCHANGED <<ctx, chanVars, stopped, consumed, readerClosed, detached, drain,
                 shut, may, prodVars, readVars, k, pieces, ledgerVars>>

\* markReaderClosed: the reader is about to end a stream nothing has ended.
markReaderClosed ==
  readerClosed' = (readerClosed \/ (final = "none" /\ stopped = "none" /\ ctx = "live"))

ctxCancelled == IF ctx = "live" THEN "canceled" ELSE ctx

CancelMark ==
  /\ "cancel" \in may.happens /\ k = "idle" /\ k' = "cancel" /\ markReaderClosed
  /\ UNCHANGED <<ctx, chanVars, final, stopped, consumed, detached, drain, shut,
                 may, prodVars, readVars, pieces, told, ledgerVars>>

CancelContext ==
  /\ k = "cancel" /\ k' = "known" /\ ctx' = ctxCancelled
  /\ UNCHANGED <<chanVars, outcomeVars, detached, drain, shut, may, prodVars,
                 readVars, pieces, told, ledgerVars>>

CancelKnown ==
  /\ k = "known" /\ k' = "done" /\ knownLocked
  /\ UNCHANGED <<ctx, chanVars, stopped, consumed, readerClosed, detached, drain,
                 shut, may, prodVars, readVars, pieces, ledgerVars>>

-----------------------------------------------------------------------------
\* runStream.  What the producer's steps leave alone.
ProducerKeeps ==
  UNCHANGED <<consumed, readerClosed, detached, drain, shut, may, readVars, k>>

\* A chunk arrives: a piece of text, or the last chunk, with text or without.
Receive ==
  /\ p = "recv" /\ received' = TRUE
  /\ \/ /\ pieces < may.pieces \/ "endless" \in may.happens
        /\ chunk' = "piece" /\ p' = "send"
     \/ /\ pieces < may.pieces /\ chunk' \in may.chunks /\ p' = "send"
     \/ /\ chunk' \in may.chunks /\ p' = "judge"
  /\ UNCHANGED <<ctx, chanVars, final, stopped, last, settled, recorded, pieces,
                 told, ledgerVars>>
  /\ ProducerKeeps

\* The sequence ends in an error, or, against its contract, in nothing.
ProviderEnds ==
  /\ p = "recv" /\ p' = "finish"
  /\ \/ last' = stopCause("failed")
     \/ RunOver /\ last' = stopCause("canceled")
     \/ last' = "broke"
  /\ UNCHANGED <<ctx, chanVars, final, stopped, chunk, received, settled, recorded,
                 pieces, told, ledgerVars>>
  /\ ProducerKeeps

\* The provider panics: the deferred functions run, and then the panic goes on and
\* ends the process, which cuts what the others do short at any point.
ProviderPanics ==
  /\ "panic" \in may.happens /\ p = "recv" /\ p' = "leave"
  /\ UNCHANGED <<ctx, chanVars, final, stopped, chunk, last, received, settled,
                 recorded, pieces, told, ledgerVars>>
  /\ ProducerKeeps

\* Text is counted up to the scenario's bound.
Counted(n) == IF n < may.pieces THEN n + 1 ELSE n

\* send: room is taken before a context is looked at.
Deliver(at0, item, next) ==
  /\ p = at0 /\ Room /\ items' = Append(items, item) /\ p' = next
  /\ pieces' = IF item = "piece" THEN Counted(pieces) ELSE pieces

Blocks(at0, next) ==
  /\ p = at0 /\ ~Room /\ p' = next
  /\ UNCHANGED <<items, pieces>>

SendPiece ==
  /\ \/ Deliver("send", "piece", IF chunk = "piece" THEN "recv" ELSE "judge")
     \/ Blocks("send", "block")
     \/ Deliver("block", "piece", IF chunk = "piece" THEN "recv" ELSE "judge")
  /\ UNCHANGED <<ctx, closed, final, stopped, chunk, last, received, settled,
                 recorded, told, ledgerVars>>
  /\ ProducerKeeps

\* Mutant: only the stream's own context ends a send.
GiveUp_OwnOnly ==
  /\ p = "block" /\ ctx # "live"
  /\ p' = IF chunk = "piece" THEN "leave" ELSE "stop"
  /\ UNCHANGED <<ctx, chanVars, final, stopped, chunk, last, received, settled,
                 recorded, pieces, told, ledgerVars>>
  /\ ProducerKeeps

GiveUp ==
  /\ p = "block" /\ RunOver
  /\ p' = IF chunk = "piece" THEN "leave" ELSE "stop"
  /\ UNCHANGED <<ctx, chanVars, final, stopped, chunk, last, received, settled,
                 recorded, pieces, told, ledgerVars>>
  /\ ProducerKeeps

\* Published, and charged: with its figure, or as spend of unknown size.
Figure(c) == IF c \in {"bare", "empty"} THEN "unknown" ELSE "figure"
Recorded(o) ==
  /\ records' = Append(records, o) /\ charges' = Append(charges, Figure(chunk))
  /\ recorded' = TRUE /\ UNCHANGED callbacks

\* Stopped as the last chunk arrived: it carries the usage.
StopOnLast ==
  /\ p = "stop" /\ p' = "recstop"
  /\ final' = Claimed(stopCause(RunErr)) /\ settled' = TRUE
  /\ UNCHANGED <<ctx, chanVars, stopped, chunk, last, received, recorded, pieces,
                 told, ledgerVars>>
  /\ ProducerKeeps

\* recordStoppedStreamAnswer, for an answer nobody is given.
RecordStopped ==
  /\ p = "recstop" /\ p' = "leave" /\ Recorded("stopped")
  /\ UNCHANGED <<ctx, chanVars, final, stopped, chunk, last, received, settled,
                 pieces, told>>
  /\ ProducerKeeps

\* checkAnswerRoute refuses the answer.
RefuseAnswer ==
  /\ p = "judge" /\ chunk = "foreign" /\ p' = "finish"
  /\ settled' = TRUE /\ final' = Claimed("refused") /\ last' = "refused"
  /\ Recorded(IF final = "none" THEN "refused" ELSE "stopped")
  /\ UNCHANGED <<ctx, chanVars, stopped, chunk, received, pieces, told>>
  /\ ProducerKeeps

\* classifyFinalChunk refuses it: charged if it says what it used.
UnusableAnswer ==
  /\ p = "judge" /\ chunk \in {"cut", "empty"} /\ p' = "finish"
  /\ last' = "unusable" /\ settled' = (settled \/ chunk = "cut")
  /\ charges' = IF chunk = "cut" THEN Append(charges, Figure(chunk)) ELSE charges
  /\ UNCHANGED <<ctx, chanVars, final, stopped, chunk, received, recorded, pieces,
                 told, records, callbacks>>
  /\ ProducerKeeps

\* Mutant: the record is published whoever claimed the outcome.
AcceptAnswer_Anyway ==
  /\ p = "judge" /\ chunk \in {"ok", "bare"} /\ settled' = TRUE
  /\ final' = Claimed("ok") /\ p' = "complete" /\ last' = "ok"
  /\ UNCHANGED <<ctx, chanVars, stopped, chunk, received, recorded, pieces, told,
                 ledgerVars>>
  /\ ProducerKeeps

\* The outcome is decided before anything is charged or published.
AcceptAnswer ==
  /\ p = "judge" /\ chunk \in {"ok", "bare"} /\ settled' = TRUE
  /\ final' = Claimed("ok") /\ last' = "ok"
  /\ p' = IF final = "none" THEN "complete" ELSE "recstop"
  /\ UNCHANGED <<ctx, chanVars, stopped, chunk, received, recorded, pieces, told,
                 ledgerVars>>
  /\ ProducerKeeps

\* recordStreamCompletion.
RecordCompletion ==
  /\ p = "complete" /\ p' = "finish" /\ Recorded("completed")
  /\ UNCHANGED <<ctx, chanVars, final, stopped, chunk, last, received, settled,
                 pieces, told>>
  /\ ProducerKeeps

\* finish: recorded first, whoever takes the item.
Finish ==
  /\ p = "finish" /\ p' = "tell" /\ final' = Claimed(last)
  /\ UNCHANGED <<ctx, chanVars, stopped, chunk, last, received, settled, recorded,
                 pieces, told, ledgerVars>>
  /\ ProducerKeeps

\* endOf's kind, as recordSentRequest words it.  A shutdown is a cancellation too.
SentOutcome(o) ==
  CASE o = "ok" -> "completed"
    [] o \in {"canceled", "shutdown"} /\ (readerClosed \/ ctx = "canceled") -> "stopped"
    [] o = "timeout" /\ ctx = "timeout" -> "stopped"
    [] OTHER -> "failed"

\* endOf reads the reason in a section of its own: a context may end after it.
EndReasons ==
  {whyStopped} \cup (IF final = "none" /\ stopped = "none" THEN {"broke"} ELSE {})

\* ended: the record of a request that has none, then the callback, once.
ended ==
  \E w \in EndReasons : LET o == Claimed(w) IN
  /\ final' = IF recorded /\ callbacks = 1 THEN final ELSE o
  /\ records' = IF recorded THEN records ELSE Append(records, SentOutcome(o))
  /\ recorded' = TRUE
  /\ callbacks' = 1
  /\ told' = IF callbacks = 0 THEN told \cup {o} ELSE told
  /\ UNCHANGED charges

Tell ==
  /\ p = "tell" /\ p' = "last" /\ ended
  /\ UNCHANGED <<ctx, chanVars, stopped, chunk, last, received, settled, pieces>>
  /\ ProducerKeeps

\* The last item, to a reader who is still there.
SendLast ==
  /\ \/ Deliver("last", "last", "leave")
     \/ Blocks("last", "lastblock")
     \/ Deliver("lastblock", "last", "leave")
  /\ UNCHANGED <<ctx, closed, final, stopped, chunk, last, received, settled,
                 recorded, told, ledgerVars>>
  /\ ProducerKeeps

GiveUpLast ==
  /\ p = "lastblock" /\ RunOver /\ p' = "leave"
  /\ UNCHANGED <<ctx, chanVars, final, stopped, chunk, last, received, settled,
                 recorded, pieces, told, ledgerVars>>
  /\ ProducerKeeps

\* The deferred functions, in the order they run: the reason for the stop...
Leave ==
  /\ p = "leave" /\ p' = "spend"
  /\ stopped' = IF stopped = "none" /\ RunOver THEN stopCause(RunErr) ELSE stopped
  /\ UNCHANGED <<ctx, chanVars, final, chunk, last, received, settled, recorded,
                 pieces, told, ledgerVars>>
  /\ ProducerKeeps

\* Mutant: whatever was received is recorded as unknown spend.
LeaveSpend_Always ==
  /\ p = "spend" /\ p' = "end"
  /\ charges' = IF received THEN Append(charges, "unknown") ELSE charges
  /\ UNCHANGED <<ctx, chanVars, final, stopped, chunk, last, received, settled,
                 recorded, pieces, told, records, callbacks>>
  /\ ProducerKeeps

\* ... what arrived and was never reported, as spend of unknown size ...
LeaveSpend ==
  /\ p = "spend" /\ p' = "end"
  /\ charges' = IF received /\ ~settled THEN Append(charges, "unknown") ELSE charges
  /\ UNCHANGED <<ctx, chanVars, final, stopped, chunk, last, received, settled,
                 recorded, pieces, told, records, callbacks>>
  /\ ProducerKeeps

\* ... the end of a stream that handed out no last item ...
LeaveEnded ==
  /\ p = "end" /\ p' = "cancel" /\ ended
  /\ UNCHANGED <<ctx, chanVars, stopped, chunk, last, received, settled, pieces>>
  /\ ProducerKeeps

\* ... the context, and the channel.
LeaveCancel ==
  /\ p = "cancel" /\ p' = "close" /\ ctx' = ctxCancelled
  /\ UNCHANGED <<chanVars, final, stopped, chunk, last, received, settled, recorded,
                 pieces, told, ledgerVars>>
  /\ ProducerKeeps

LeaveClose ==
  /\ p = "close" /\ p' = "gone" /\ closed' = TRUE
  /\ UNCHANGED <<ctx, items, final, stopped, chunk, last, received, settled,
                 recorded, pieces, told, ledgerVars>>
  /\ ProducerKeeps

Produce ==
  \/ SendPiece \/ GiveUp \/ StopOnLast \/ RecordStopped \/ RefuseAnswer
  \/ UnusableAnswer \/ AcceptAnswer \/ RecordCompletion \/ Finish \/ Tell
  \/ SendLast \/ GiveUpLast \/ Leave \/ LeaveSpend \/ LeaveEnded \/ LeaveCancel
  \/ LeaveClose

-----------------------------------------------------------------------------
\* All, by one reader.
Goto(r, l) == at' = [at EXCEPT ![r] = l]
ReaderKeeps == UNCHANGED <<shut, may, prodVars, closed, pieces, ledgerVars, k>>

\* The outcome may be known already.
All(r) ==
  /\ at[r] = "idle" /\ r \in may.readers
  /\ Goto(r, IF consumed THEN "done" ELSE "next")
  /\ late' = [late EXCEPT ![r] = DrainBegun]
  /\ told' = IF consumed THEN told \cup {final} ELSE told
  /\ UNCHANGED <<ctx, items, outcomeVars, detached, drain, why, got, beside>>
  /\ ReaderKeeps

\* next: a reader stands aside for the drain.
Next1_Beside(r) ==
  /\ at[r] = "next" /\ Goto(r, "try")
  /\ UNCHANGED <<ctx, items, outcomeVars, detached, drain, why, got, beside, late, told>>
  /\ ReaderKeeps

Next1(r) ==
  /\ at[r] = "next" /\ Goto(r, IF DrainBegun THEN "await" ELSE "try")
  /\ UNCHANGED <<ctx, items, outcomeVars, detached, drain, why, got, beside, late, told>>
  /\ ReaderKeeps

\* What is queued is taken first, even from a stream that is stopped.
Take(r) ==
  /\ at[r] \in {"try", "wait", "recheck"} /\ items # <<>>
  /\ items' = Tail(items)
  /\ IF Head(items) = "piece"
       THEN /\ Goto(r, "yield") /\ got' = [got EXCEPT ![r] = Counted(@)]
            /\ beside' = IF DrainBegun THEN [beside EXCEPT ![r] = @ + 1] ELSE beside
       ELSE Goto(r, "settle") /\ UNCHANGED <<got, beside>>
  /\ UNCHANGED <<ctx, outcomeVars, detached, drain, why, late, told>>
  /\ ReaderKeeps

\* Nothing queued: closed, to be waited for, or stopped.
NothingQueued(r) ==
  /\ at[r] \in {"try", "wait", "recheck"} /\ items = <<>>
  /\ \/ closed /\ Goto(r, "why")
     \/ ~closed /\ at[r] = "try" /\ Goto(r, "wait")
     \/ ~closed /\ at[r] = "recheck" /\ Goto(r, "why")
  /\ UNCHANGED <<ctx, items, outcomeVars, detached, drain, why, got, beside, late, told>>
  /\ ReaderKeeps

\* Mutant: a wait that a stopped stream does not end.
WaitEnds_Drain(r) ==
  /\ at[r] = "wait" /\ DrainBegun /\ Goto(r, "await")
  /\ UNCHANGED <<ctx, items, outcomeVars, detached, drain, why, got, beside, late, told>>
  /\ ReaderKeeps

WaitEnds(r) ==
  /\ at[r] = "wait"
  /\ \/ DrainBegun /\ Goto(r, "await")
     \/ ctx # "live" /\ Goto(r, "recheck")
  /\ UNCHANGED <<ctx, items, outcomeVars, detached, drain, why, got, beside, late, told>>
  /\ ReaderKeeps

\* awaitDrain.
AwaitDrain(r) ==
  /\ at[r] = "await" /\ (drain = "done" \/ ctx # "live") /\ Goto(r, "why")
  /\ UNCHANGED <<ctx, items, outcomeVars, detached, drain, why, got, beside, late, told>>
  /\ ReaderKeeps

\* endWithoutFinal: the reason is read, then the outcome is settled.
Why(r) ==
  /\ at[r] \in {"why", "leftwhy"}
  /\ Goto(r, IF at[r] = "why" THEN "end" ELSE "leftend")
  /\ why' = [why EXCEPT ![r] = whyStopped]
  /\ UNCHANGED <<ctx, items, outcomeVars, detached, drain, got, beside, late, told>>
  /\ ReaderKeeps

\* Mutant: the reason is taken for the outcome, whatever was claimed since.
endWithoutFinal_Own(w) == final' = IF consumed THEN final ELSE w

endWithoutFinal(w) == final' = Claimed(w)

\* A range that ends yields the outcome; one its reader left tells nothing.
End(r) ==
  /\ at[r] \in {"end", "leftend"} /\ endWithoutFinal(why[r]) /\ consumed' = TRUE
  /\ told' = IF at[r] = "end" THEN told \cup {final'} ELSE told
  /\ Goto(r, IF at[r] = "end" THEN "done" ELSE "left")
  /\ why' = [why EXCEPT ![r] = "none"]
  /\ UNCHANGED <<ctx, items, stopped, readerClosed, detached, drain, got, beside, late>>
  /\ ReaderKeeps

\* settle, and outcome, for a reader with the last item in its hands.
Settle(r) ==
  /\ at[r] = "settle" /\ consumed' = TRUE /\ final' = Claimed(last)
  /\ told' = told \cup {final'} /\ Goto(r, "done")
  /\ UNCHANGED <<ctx, items, stopped, readerClosed, detached, drain, why, got, beside, late>>
  /\ ReaderKeeps

\* The loop's body keeps reading, or leaves (a break or a panic).
KeepReading(r) ==
  /\ at[r] = "yield" /\ Goto(r, "next")
  /\ UNCHANGED <<ctx, items, outcomeVars, detached, drain, why, got, beside, late, told>>
  /\ ReaderKeeps

\* readerLeft, detached: startDrain.
LeaveDetached(r) ==
  /\ at[r] = "yield" /\ detached /\ Goto(r, "left")
  /\ drain' = IF drain = "none" THEN "next" ELSE drain
  /\ UNCHANGED <<ctx, items, outcomeVars, detached, why, got, beside, late, told>>
  /\ ReaderKeeps

\* readerLeft, otherwise: its leaving stops the work.
LeaveLoop(r) ==
  /\ at[r] = "yield" /\ ~detached /\ Goto(r, "leaving") /\ markReaderClosed
  /\ UNCHANGED <<ctx, items, final, stopped, consumed, detached, drain, why, got, beside, late, told>>
  /\ ReaderKeeps

LeaveStops(r) ==
  /\ at[r] = "leaving" /\ Goto(r, "leftwhy") /\ ctx' = ctxCancelled
  /\ UNCHANGED <<items, outcomeVars, detached, drain, why, got, beside, late, told>>
  /\ ReaderKeeps

Read(r) ==
  \/ Next1(r) \/ Take(r) \/ NothingQueued(r) \/ WaitEnds(r) \/ AwaitDrain(r)
  \/ Why(r) \/ End(r) \/ Settle(r) \/ KeepReading(r) \/ LeaveDetached(r)
  \/ LeaveLoop(r) \/ LeaveStops(r)

\* drain: the stream reads itself to its end.
Drain ==
  /\ \/ /\ drain \in {"next", "wait", "recheck"} /\ items # <<>>
        /\ items' = Tail(items)
        /\ drain' = IF Head(items) = "piece" THEN "next" ELSE "settle"
        /\ UNCHANGED <<final, consumed>>
     \/ /\ drain = "settle" /\ drain' = "next"
        /\ final' = Claimed(last) /\ consumed' = TRUE /\ UNCHANGED items
     \/ /\ drain \in {"next", "wait", "recheck"} /\ items = <<>>
        /\ \/ closed /\ drain' = "end"
           \/ ~closed /\ drain = "next" /\ drain' = "wait"
           \/ ~closed /\ drain = "recheck" /\ drain' = "end"
           \/ ~closed /\ drain = "wait" /\ ctx # "live" /\ drain' = "recheck"
        /\ UNCHANGED <<items, final, consumed>>
     \/ /\ drain = "end" /\ drain' = "done" /\ UNCHANGED items
        /\ final' = Claimed(whyStopped) /\ consumed' = TRUE
  /\ UNCHANGED <<ctx, stopped, readerClosed, detached, readVars, told>>
  /\ ReaderKeeps

\* Nothing is left to do: the producer is gone, and nobody is in the middle of a call.
Over ==
  /\ p = "gone" /\ k \in {"idle", "done"} /\ drain \in {"none", "done"}
  /\ \A r \in Readers : at[r] \in {"idle", "done", "left"}

Next ==
  \/ CallerEnds \/ SchedulerCloses \/ Detach \/ Ask
  \/ CancelMark \/ CancelContext \/ CancelKnown
  \/ Receive \/ ProviderEnds \/ ProviderPanics \/ Produce \/ Drain
  \/ \E r \in Readers : All(r) \/ Read(r)
  \/ Over /\ UNCHANGED vars

Spec == Init /\ [][Next]_vars

\* Every goroutine of the library runs; a loop's body returns; a provider that
\* honours its context returns once it has ended, and another may never.
FairSpec ==
  /\ Spec
  /\ WF_vars(Produce) /\ WF_vars(Drain) /\ WF_vars(CancelContext) /\ WF_vars(CancelKnown)
  /\ \A r \in Readers : WF_vars(Read(r))
  /\ WF_vars("deaf" \notin may.happens /\ RunOver /\ ProviderEnds)

-----------------------------------------------------------------------------
\* A stream ends once: every range that ends, Err, Ended, Cancel and the end
\* callback are told the same outcome, whatever got there first.  The call record
\* calls completed or refused exactly a stream whose outcome is that, stopped one that
\* a context or the scheduler ended, and never failed one that its context ended.
OneOutcome ==
  /\ Cardinality(told) <= 1
  /\ told # {} /\ final # "none" => told = {final}
  /\ \A i \in 1..Len(records) :
       /\ records[i] = "completed" <=> final = "ok"
       /\ records[i] = "refused" <=> final = "refused"
       /\ records[i] = "stopped" => final \in {"canceled", "timeout", "shutdown"}
       /\ records[i] = "failed" => final \in {"failed", "broke", "unusable", "shutdown"}

\* The request has one call record and its spend is told once, with its figure
\* when the last chunk had one; a reader that sees the last item or the closed
\* channel finds the record published and the callback called.
AccountedOnce ==
  /\ Len(records) <= 1 /\ Len(charges) <= 1
  /\ closed \/ (\E i \in 1..Len(items) : items[i] = "last") =>
       Len(records) = 1 /\ callbacks = 1
  /\ closed => charges = IF ~received THEN <<>>
                         ELSE <<IF chunk \in {"ok", "foreign", "cut"} THEN "figure"
                                ELSE "unknown">>

\* A range started after a detached reader left takes no text, and one that was
\* waiting takes at most the piece it was taking.
DrainAlone == \A r \in Readers : beside[r] <= IF late[r] THEN 0 ELSE 1

\* The books of a stream: one record, one charge, and no text handed to a range beside
\* the drain that accounts for it.
StreamAccounted == AccountedOnce /\ DrainAlone

\* The end of either context frees a producer that is blocked on its reader,
\* and, with a provider that honours its context, ends the stream; the end of the
\* stream's context lets no range wait: each ends, or is handed text for as long as a
\* provider deaf to its context sends more.
StreamLetsGo ==
  /\ (p \in {"block", "lastblock"} /\ RunOver) ~> p \notin {"block", "lastblock"}
  /\ ("deaf" \notin may.happens /\ RunOver) ~> p = "gone"
  /\ \A r \in Readers :
       (ctx # "live" /\ at[r] # "idle") ~>
         at[r] \in {"done", "left"} \/ ("endless" \in may.happens /\ at[r] = "yield")

\* "A caller appending each delta it receives directly to a buffer reconstructs
\* the answer": a stream with one reader that never left, whose range ended
\* with no error, has handed over every piece.
RangeIsWhole ==
  \A r \in Readers :
    may.readers = {r} /\ at[r] = "done" /\ told = {"ok"} => got[r] = pieces
=============================================================================

-------------------------- MODULE TextStreamProofs --------------------------
(***************************************************************************)
(* What a stream of text guarantees for every buffer size, every set of    *)
(* ranges, every number of pieces and everything that may happen beside    *)
(* its readers: one outcome, one record, one charge, and a drain that      *)
(* reads alone.                                                            *)
(*                                                                         *)
(* Neither property is inductive.  The invariant adds what the producer    *)
(* has decided at each of its places (Verdict, Booked), why a range that   *)
(* found no last item may name a reason (Reasons), where a range may stand *)
(* once a drain has begun (Aside), and which context an outcome that names *)
(* one came from (Ends).                                                   *)
(***************************************************************************)
EXTENDS TextStream, TLAPS, FiniteSetTheorems

Outcomes ==
  {"ok", "refused", "unusable", "failed", "broke", "canceled", "timeout", "shutdown"}

\* Where the producer is: reading the provider, holding an answer it has settled,
\* delivering the end, and past the charge.
Reading == {"recv", "send", "block", "judge", "stop"}
Deciding == {"recstop", "complete"}
Delivering == {"finish", "tell", "last", "lastblock", "leave", "spend"}
Closing == {"end", "cancel", "close", "gone"}

ReaderAt ==
  {"idle", "next", "try", "wait", "recheck", "await", "why", "leftwhy", "end", "leftend",
   "settle", "yield", "leaving", "done", "left"}

\* The outcomes of a stream that was stopped, and of one that was not completed.
Stops == {"canceled", "timeout", "shutdown"}
Failures == {"failed", "broke", "unusable", "shutdown"}

\* The last item is queued, or in somebody's hands.
HasLast == \E i \in 1..Len(items) : items[i] = "last"
LastOut == HasLast \/ drain = "settle" \/ \E r \in Readers : at[r] = "settle"

Typed ==
  /\ ctx \in {"live", "canceled", "timeout"}
  /\ items \in Seq({"piece", "last"})
  /\ final \in Outcomes \cup {"none"} /\ last \in Outcomes \cup {"none"}
  /\ stopped \in {"none", "canceled", "timeout", "shutdown"}
  /\ consumed \in BOOLEAN /\ closed \in BOOLEAN /\ shut \in BOOLEAN
  /\ received \in BOOLEAN /\ settled \in BOOLEAN /\ recorded \in BOOLEAN
  /\ p \in Reading \cup Deciding \cup Delivering \cup Closing
  /\ chunk \in {"none", "piece"} \cup LastChunks
  /\ may \in Scenarios
  /\ at \in [Readers -> ReaderAt] /\ why \in [Readers -> Outcomes \cup {"none"}]
  /\ drain \in {"none", "next", "wait", "recheck", "settle", "end", "done"}
  /\ beside \in [Readers -> Nat] /\ late \in [Readers -> BOOLEAN]
  /\ callbacks \in {0, 1}

\* What anyone was told is the outcome that stands or, where none is claimed yet, the
\* reason of the stop; whoever holds the last item finds an outcome claimed.
Told ==
  /\ told = {} \/ told = {IF final # "none" THEN final ELSE stopped}
  /\ told # {} => final # "none" \/ stopped # "none"
  /\ consumed \/ callbacks = 1 \/ LastOut \/ closed \/ drain = "done" => final # "none"
  /\ p \in Deciding \cup {"tell", "last", "lastblock", "cancel", "close", "gone"} =>
       final # "none"
  /\ stopped # "none" => p \in {"spend"} \cup Closing
  /\ drain = "recheck" => ctx # "live"
  /\ drain = "end" => final # "none" \/ ctx # "live"

\* A range about to end without a last item has a reason, and it is the one everybody
\* else would name.
Reasons ==
  \A r \in Readers :
    /\ at[r] \in {"recheck", "leftwhy"} => ctx # "live"
    /\ at[r] \in {"why", "end", "leftend"} => final # "none" \/ ctx # "live"
    /\ at[r] \in {"end", "leftend"} => why[r] # "none"
    /\ at[r] \in {"end", "leftend"} /\ final = "none" =>
         why[r] = IF stopped # "none" THEN stopped ELSE ctx

\* Only the producer finds an answer good or refuses it, and it claims the outcome
\* before it writes the record.
Verdict ==
  /\ final = "ok" => last = "ok" /\ p \notin Reading \cup {"recstop"}
  /\ final = "refused" =>
       last = "refused" /\ recorded /\ p \notin Reading \cup Deciding
  /\ p = "complete" => final = "ok"
  /\ p = "finish" =>
       /\ last # "none"
       /\ final = "none" => last \notin {"ok", "refused"} /\ ~recorded
  /\ records = IF recorded THEN <<records[1]>> ELSE <<>>
  /\ recorded => /\ final # "none"
                 /\ records[1] = "completed" <=> final = "ok"
                 /\ records[1] = "refused" <=> final = "refused"
                 /\ records[1] = "stopped" => final \in Stops
                 /\ records[1] = "failed" => final \in Failures

\* What is charged and recorded at each place of the producer.
Booked ==
  /\ p \in Reading \cup Deciding => ~recorded /\ charges = <<>> /\ callbacks = 0
  /\ p \in {"finish", "tell"} => callbacks = 0
  /\ p \in Reading => ~settled
  /\ p \in Deciding => settled
  /\ p \in Delivering => charges = IF settled THEN <<Figure(chunk)>> ELSE <<>>
  /\ p \in Closing => charges = IF ~received THEN <<>>
                                ELSE IF settled THEN <<Figure(chunk)>> ELSE <<"unknown">>
  /\ p = "recv" => chunk \in {"none", "piece"}
  /\ p \in {"send", "block"} => chunk # "none"
  /\ p \in {"judge", "stop"} \cup Deciding => chunk \in LastChunks
  /\ p \in Delivering \cup Closing => settled \/ chunk \in {"none", "piece", "empty"}
  /\ settled => chunk \in LastChunks
  /\ chunk # "none" => received
  /\ closed <=> p = "gone"
  /\ HasLast => p \in {"leave", "spend"} \cup Closing
  /\ callbacks = 1 => recorded
  /\ HasLast \/ p \in {"last", "lastblock", "cancel", "close", "gone"} => callbacks = 1

\* A range that took text beside the drain, or began after it, stands where it takes none.
Aside ==
  \A r \in Readers :
    /\ beside[r] <= IF late[r] THEN 0 ELSE 1
    /\ beside[r] > 0 \/ late[r] =>
         DrainBegun /\ at[r] \notin {"idle", "try", "wait", "recheck"}

SInv == Typed /\ Told /\ Reasons /\ Verdict /\ Booked /\ Aside

\* An outcome that names the end of a context names the one that ended, and before the
\* producer decides nobody can have claimed any other.
Ends ==
  /\ \A o \in {"canceled", "timeout"} : final = o \/ stopped = o \/ last = o => ctx = o
  /\ p = "stop" => RunOver
  /\ p \in Reading \cup {"recstop"} => final \in {"none"} \cup Stops

-----------------------------------------------------------------------------
(* The channel and the books. *)

\* A step that leaves the channel alone.
LEMMA LastKept ==
  ASSUME UNCHANGED items
  PROVE  HasLast' = HasLast
BY DEF HasLast

\* An item joins the channel.
LEMMA LastAppended ==
  ASSUME items \in Seq({"piece", "last"}), NEW x \in {"piece", "last"},
         items' = Append(items, x)
  PROVE  items' \in Seq({"piece", "last"}) /\ (HasLast' <=> HasLast \/ x = "last")
<1>1. /\ Len(items') = Len(items) + 1 /\ items'[Len(items) + 1] = x
      /\ \A i \in 1..Len(items) : items'[i] = items[i]
      /\ Len(items) \in Nat
  OBVIOUS
<1>2. \A i : i \in 1..Len(items') <=> i \in 1..Len(items) \/ i = Len(items) + 1
  BY <1>1
<1> QED  BY <1>1, <1>2 DEF HasLast

\* An item is taken from the channel.
LEMMA LastTaken ==
  ASSUME items \in Seq({"piece", "last"}), items # <<>>, items' = Tail(items)
  PROVE  items' \in Seq({"piece", "last"}) /\ (HasLast' => HasLast)
<1>1. /\ Len(items') = Len(items) - 1 /\ Len(items) \in Nat /\ Len(items) > 0
      /\ \A i \in 1..Len(items') : items'[i] = items[i + 1]
      /\ items' \in Seq({"piece", "last"})
  OBVIOUS
<1>2. \A i \in 1..Len(items') : i + 1 \in 1..Len(items)
  BY <1>1
<1> QED  BY <1>1, <1>2 DEF HasLast

\* The item at the head of the channel.
LEMMA LastHead ==
  ASSUME items \in Seq({"piece", "last"}), items # <<>>
  PROVE  Head(items) \in {"piece", "last"} /\ (Head(items) = "last" => HasLast)
<1>1. Head(items) = items[1] /\ 1 \in 1..Len(items)
  OBVIOUS
<1> QED  BY <1>1 DEF HasLast

\* A scenario's last chunks are last chunks.
LEMMA Chunks ==
  ASSUME may \in Scenarios
  PROVE  may.chunks \subseteq LastChunks
BY StreamConstants

\* The first entry of a book.
LEMMA Singles ==
  /\ \A x : Append(<<>>, x) = <<x>> /\ <<x>> # <<>> /\ <<x>>[1] = x /\ Len(<<x>>) = 1
  /\ Len(<<>>) = 0
OBVIOUS

-----------------------------------------------------------------------------
(* One lemma for each party, one case for each of its steps. *)

\* What happens to a stream beside its readers and its producer: contexts end, Cancel,
\* Detach, Err and Ended.
LEMMA EnvironmentKeeps ==
  ASSUME SInv, Ends,
         \/ CallerEnds \/ SchedulerCloses \/ Detach \/ Ask \/ CancelMark \/ CancelContext
         \/ CancelKnown
  PROVE  SInv'
<1> USE DEF SInv, chanVars, outcomeVars, prodVars, readVars, ledgerVars, 
           DrainBegun, LastOut, Reading, Deciding, Delivering, Closing
<1>1. CASE CallerEnds
  <2>1. UNCHANGED items /\ HasLast' = HasLast
    BY <1>1, LastKept DEF CallerEnds
  <2>2. Typed' /\ Told' /\ Reasons' /\ Verdict' /\ Booked' /\ Aside'
    BY <1>1, <2>1 DEF CallerEnds, Typed, Told, Reasons, Verdict, Booked, Aside
  <2> QED  BY <2>2
<1>2. CASE SchedulerCloses
  <2>1. UNCHANGED items /\ HasLast' = HasLast
    BY <1>2, LastKept DEF SchedulerCloses
  <2>2. Typed' /\ Told' /\ Reasons' /\ Verdict' /\ Booked' /\ Aside'
    BY <1>2, <2>1 DEF SchedulerCloses, Typed, Told, Reasons, Verdict, Booked, Aside
  <2> QED  BY <2>2
<1>3. CASE Detach
  <2>1. UNCHANGED items /\ HasLast' = HasLast
    BY <1>3, LastKept DEF Detach
  <2>2. Typed' /\ Told' /\ Reasons' /\ Verdict' /\ Booked' /\ Aside'
    BY <1>3, <2>1 DEF Detach, Typed, Told, Reasons, Verdict, Booked, Aside
  <2> QED  BY <2>2
<1>4. CASE Ask
  <2>1. UNCHANGED items /\ HasLast' = HasLast
    BY <1>4, LastKept DEF Ask, knownLocked
  <2>2. Typed' /\ Reasons' /\ Booked' /\ Aside'
    BY <1>4, <2>1 DEF Ask, knownLocked, Outcomes, Typed, Reasons, Booked, Aside
  <2>3. Told'
    BY <1>4, <2>1 DEF Ask, knownLocked, Known, Told, Typed
  <2>4. Verdict'
    BY <1>4 DEF Ask, knownLocked, Verdict, Typed
  <2> QED  BY <2>2, <2>3, <2>4
<1>5. CASE CancelMark
  <2>1. UNCHANGED items /\ HasLast' = HasLast
    BY <1>5, LastKept DEF CancelMark
  <2>2. Typed' /\ Told' /\ Reasons' /\ Verdict' /\ Booked' /\ Aside'
    BY <1>5, <2>1 DEF CancelMark, Typed, Told, Reasons, Verdict, Booked, Aside
  <2> QED  BY <2>2
<1>6. CASE CancelContext
  <2>1. UNCHANGED items /\ HasLast' = HasLast
    BY <1>6, LastKept DEF CancelContext
  <2>2. Typed' /\ Told' /\ Reasons' /\ Verdict' /\ Booked' /\ Aside'
    BY <1>6, <2>1 DEF CancelContext, ctxCancelled, Typed, Told, Reasons, Verdict, Booked,
           Aside
  <2> QED  BY <2>2
<1>7. CASE CancelKnown
  <2>1. UNCHANGED items /\ HasLast' = HasLast
    BY <1>7, LastKept DEF CancelKnown, knownLocked
  <2>2. Typed' /\ Reasons' /\ Booked' /\ Aside'
    BY <1>7, <2>1 DEF CancelKnown, knownLocked, Outcomes, Typed, Reasons, Booked, Aside
  <2>3. Told'
    BY <1>7, <2>1 DEF CancelKnown, knownLocked, Known, Told, Typed
  <2>4. Verdict'
    BY <1>7 DEF CancelKnown, knownLocked, Verdict, Typed
  <2> QED  BY <2>2, <2>3, <2>4
<1> QED  BY <1>1, <1>2, <1>3, <1>4, <1>5, <1>6, <1>7

\* The producer reads the provider and fills the channel.
LEMMA ReadingKeeps ==
  ASSUME SInv, Ends,
         \/ Receive \/ ProviderEnds \/ ProviderPanics \/ SendPiece \/ GiveUp
  PROVE  SInv'
<1> USE DEF SInv, chanVars, outcomeVars, prodVars, readVars, ledgerVars, ProducerKeeps,
           DrainBegun, LastOut, Reading, Deciding, Delivering, Closing
<1>1. CASE Receive
  <2>1. UNCHANGED items /\ HasLast' = HasLast
    BY <1>1, LastKept DEF Receive
  <2>2. Typed' /\ Told' /\ Reasons' /\ Verdict' /\ Aside'
    BY <1>1, <2>1, Chunks DEF Receive, Typed, Told, Reasons, Verdict, Aside
  <2>3. Booked'
    BY <1>1, <2>1, Chunks DEF Receive, LastChunks, Booked, Typed
  <2> QED  BY <2>2, <2>3
<1>2. CASE ProviderEnds
  <2>1. UNCHANGED items /\ HasLast' = HasLast
    BY <1>2, LastKept DEF ProviderEnds
  <2>2. Typed' /\ Told' /\ Reasons' /\ Booked' /\ Aside'
    BY <1>2, <2>1 DEF ProviderEnds, stopCause, Outcomes, Typed, Told, Reasons, Booked, Aside
  <2>3. Verdict'
    BY <1>2 DEF ProviderEnds, stopCause, Verdict, Typed
  <2> QED  BY <2>2, <2>3
<1>3. CASE SendPiece
  <2>1. items' \in Seq({"piece", "last"}) /\ (HasLast' => HasLast)
    <3>1. UNCHANGED items \/ items' = Append(items, "piece")
      BY <1>3 DEF SendPiece, Deliver, Blocks
    <3> QED  BY <3>1, LastKept, LastAppended DEF Typed
  <2>2. Typed' /\ Told' /\ Reasons' /\ Verdict' /\ Aside'
    BY <1>3, <2>1 DEF SendPiece, Deliver, Blocks, Typed, Told, Reasons, Verdict, Aside
  <2>3. Booked'
    BY <1>3, <2>1 DEF SendPiece, Deliver, Blocks, Booked, Typed
  <2> QED  BY <2>2, <2>3
<1>4. CASE GiveUp
  <2>1. UNCHANGED items /\ HasLast' = HasLast
    BY <1>4, LastKept DEF GiveUp
  <2>2. Typed' /\ Told' /\ Reasons' /\ Verdict' /\ Aside'
    BY <1>4, <2>1 DEF GiveUp, Typed, Told, Reasons, Verdict, Aside
  <2>3. Booked'
    BY <1>4, <2>1 DEF GiveUp, Booked, Typed
  <2> QED  BY <2>2, <2>3
<1>5. CASE ProviderPanics
  <2>1. UNCHANGED items /\ HasLast' = HasLast
    BY <1>5, LastKept DEF ProviderPanics
  <2>2. Typed' /\ Told' /\ Reasons' /\ Verdict' /\ Aside'
    BY <1>5, <2>1 DEF ProviderPanics, Typed, Told, Reasons, Verdict, Aside
  <2>3. Booked'
    BY <1>5, <2>1 DEF ProviderPanics, Booked, Typed
  <2> QED  BY <2>2, <2>3
<1> QED  BY <1>1, <1>2, <1>3, <1>4, <1>5

\* The producer has the last chunk, or the error, and decides the outcome.
LEMMA DecidingKeeps ==
  ASSUME SInv, Ends,
         \/ StopOnLast \/ RecordStopped \/ RefuseAnswer \/ UnusableAnswer \/ AcceptAnswer
         \/ RecordCompletion \/ Finish
  PROVE  SInv'
<1> USE DEF SInv, chanVars, outcomeVars, prodVars, readVars, ledgerVars, ProducerKeeps,
           DrainBegun, LastOut, Reading, Deciding, Delivering, Closing
<1>1. CASE StopOnLast
  <2>1. UNCHANGED items /\ HasLast' = HasLast
    BY <1>1, LastKept DEF StopOnLast
  <2>2. Typed' /\ Reasons' /\ Booked' /\ Aside'
    BY <1>1, <2>1 DEF StopOnLast, Claimed, stopCause, RunErr, Outcomes, Typed, Reasons,
           Booked, Aside
  <2>3. Told'
    BY <1>1 DEF StopOnLast, Claimed, stopCause, RunErr, Told, Typed
  <2>4. Verdict'
    BY <1>1 DEF StopOnLast, Claimed, stopCause, RunErr, Verdict, Typed
  <2> QED  BY <2>2, <2>3, <2>4
<1>2. CASE RecordStopped
  <2>1. UNCHANGED items /\ HasLast' = HasLast
    BY <1>2, LastKept DEF RecordStopped
  <2>2. Typed' /\ Told' /\ Reasons' /\ Booked' /\ Aside'
    BY <1>2, <2>1 DEF RecordStopped, Recorded, Typed, Told, Reasons, Booked, Aside
  <2>3. Verdict'
    BY <1>2, Singles DEF RecordStopped, Recorded, Verdict, Told, Booked, Ends, Stops
  <2> QED  BY <2>2, <2>3
<1>3. CASE RefuseAnswer
  <2>1. UNCHANGED items /\ HasLast' = HasLast
    BY <1>3, LastKept DEF RefuseAnswer
  <2>2. Typed' /\ Told' /\ Reasons' /\ Booked' /\ Aside'
    BY <1>3, <2>1 DEF RefuseAnswer, Claimed, Recorded, Outcomes, Typed, Told, Reasons,
           Booked, Aside
  <2>3. Verdict'
    BY <1>3, Singles DEF RefuseAnswer, Claimed, Recorded, Verdict, Booked, Ends, Stops, Outcomes
  <2> QED  BY <2>2, <2>3
<1>4. CASE UnusableAnswer
  <2>1. UNCHANGED items /\ HasLast' = HasLast
    BY <1>4, LastKept DEF UnusableAnswer
  <2>2. Typed' /\ Told' /\ Reasons' /\ Verdict' /\ Booked' /\ Aside'
    BY <1>4, <2>1, Singles DEF UnusableAnswer, Outcomes, Typed, Told, Reasons, Verdict,
           Booked, Aside
  <2> QED  BY <2>2
<1>5. CASE AcceptAnswer
  <2>1. UNCHANGED items /\ HasLast' = HasLast
    BY <1>5, LastKept DEF AcceptAnswer
  <2>2. Typed' /\ Told' /\ Reasons' /\ Verdict' /\ Booked' /\ Aside'
    BY <1>5, <2>1 DEF AcceptAnswer, Claimed, Outcomes, Typed, Told, Reasons, Verdict,
           Booked, Aside
  <2> QED  BY <2>2
<1>6. CASE RecordCompletion
  <2>1. UNCHANGED items /\ HasLast' = HasLast
    BY <1>6, LastKept DEF RecordCompletion
  <2>2. Typed' /\ Told' /\ Reasons' /\ Booked' /\ Aside'
    BY <1>6, <2>1 DEF RecordCompletion, Recorded, Typed, Told, Reasons, Booked, Aside
  <2>3. Verdict'
    BY <1>6 DEF RecordCompletion, Recorded, Verdict, Booked
  <2> QED  BY <2>2, <2>3
<1>7. CASE Finish
  <2>1. UNCHANGED items /\ HasLast' = HasLast
    BY <1>7, LastKept DEF Finish
  <2>2. Typed' /\ Reasons' /\ Verdict' /\ Booked' /\ Aside'
    BY <1>7, <2>1 DEF Finish, Claimed, Typed, Reasons, Verdict, Booked, Aside
  <2>3. Told'
    BY <1>7 DEF Finish, Claimed, Told, Verdict
  <2> QED  BY <2>2, <2>3
<1> QED  BY <1>1, <1>2, <1>3, <1>4, <1>5, <1>6, <1>7

\* The producer calls the callback, hands over the last item and leaves.
LEMMA EndingKeeps ==
  ASSUME SInv, Ends,
         \/ Tell \/ SendLast \/ GiveUpLast \/ Leave \/ LeaveSpend \/ LeaveEnded
         \/ LeaveCancel \/ LeaveClose
  PROVE  SInv'
<1> USE DEF SInv, chanVars, outcomeVars, prodVars, readVars, ledgerVars, ProducerKeeps,
           DrainBegun, LastOut, Reading, Deciding, Delivering, Closing
<1>1. CASE Tell
  <2>1. UNCHANGED items /\ HasLast' = HasLast
    BY <1>1, LastKept DEF Tell
  <2>2. Typed' /\ Told' /\ Reasons' /\ Booked' /\ Aside'
    BY <1>1, <2>1 DEF Tell, ended, EndReasons, Claimed, whyStopped, Outcomes, Typed, Told, Reasons,
           Booked, Aside
  <2>3. Verdict'
    <3>1. PICK w \in EndReasons :
            /\ final' = IF recorded /\ callbacks = 1 THEN final ELSE Claimed(w)
            /\ records' = IF recorded THEN records
                          ELSE Append(records, SentOutcome(Claimed(w)))
            /\ recorded' = TRUE /\ UNCHANGED last
      BY <1>1 DEF Tell, ended
    <3> DEFINE o == Claimed(w)
    <3>2. /\ o \in Outcomes /\ (recorded => o = final)
          /\ ~recorded => (o = "ok" <=> final = "ok") /\ o # "refused"
          /\ o \in {"canceled", "timeout"} => ctx = o
      BY <3>1 DEF EndReasons, Claimed, whyStopped, Outcomes, Typed, Verdict, Told, Ends
    <3>3. CASE recorded
      BY <1>1, <3>1, <3>2, <3>3 DEF Tell, Verdict
    <3>4. CASE ~recorded
      <4>1. records' = <<SentOutcome(o)>> /\ final' = o
        BY <3>1, <3>4, Singles DEF Verdict
      <4>2. /\ SentOutcome(o) = "completed" <=> o = "ok"
            /\ SentOutcome(o) # "refused"
            /\ SentOutcome(o) = "stopped" => o \in Stops
            /\ SentOutcome(o) = "failed" => o \in Failures
        BY <3>2, <3>4 DEF SentOutcome, Stops, Failures, Outcomes
      <4>3. /\ records'[1] = SentOutcome(o) /\ records' = <<records'[1]>>
            /\ p = "tell" /\ p' = "last"
        BY <1>1, <4>1, Singles DEF Tell
      <4> HIDE DEF o
      <4> QED  BY <3>1, <3>2, <3>4, <4>1, <4>2, <4>3 DEF Verdict, Stops, Outcomes
    <3> QED  BY <3>3, <3>4
  <2> QED  BY <2>2, <2>3
<1>2. CASE SendLast
  <2>1. items' \in Seq({"piece", "last"}) /\ (HasLast' => HasLast \/ p' = "leave")
    <3>1. UNCHANGED items \/ (items' = Append(items, "last") /\ p' = "leave")
      BY <1>2 DEF SendLast, Deliver, Blocks
    <3> QED  BY <3>1, LastKept, LastAppended DEF Typed
  <2>2. Typed' /\ Told' /\ Reasons' /\ Verdict' /\ Aside'
    BY <1>2, <2>1 DEF SendLast, Deliver, Blocks, Typed, Told, Reasons, Verdict, Aside
  <2>3. Booked'
    <3>1. p \in {"last", "lastblock"} /\ p' \in {"lastblock", "leave"}
      BY <1>2 DEF SendLast, Deliver, Blocks
    <3> QED  BY <1>2, <2>1, <3>1 DEF SendLast, Booked, Figure
  <2> QED  BY <2>2, <2>3
<1>3. CASE GiveUpLast
  <2>1. UNCHANGED items /\ HasLast' = HasLast
    BY <1>3, LastKept DEF GiveUpLast
  <2>2. Typed' /\ Told' /\ Reasons' /\ Verdict' /\ Booked' /\ Aside'
    BY <1>3 DEF GiveUpLast, Typed, Told, Reasons, Verdict, Booked, Aside
  <2> QED  BY <2>2
<1>4. CASE Leave
  <2>1. UNCHANGED items /\ HasLast' = HasLast
    BY <1>4, LastKept DEF Leave
  <2>2. Typed' /\ Told' /\ Reasons' /\ Verdict' /\ Booked' /\ Aside'
    BY <1>4, <2>1 DEF Leave, stopCause, RunErr, Typed, Told, Reasons, Verdict, Booked, Aside
  <2> QED  BY <2>2
<1>5. CASE LeaveSpend
  <2>1. UNCHANGED items /\ HasLast' = HasLast
    BY <1>5, LastKept DEF LeaveSpend
  <2>2. Typed' /\ Told' /\ Reasons' /\ Verdict' /\ Aside'
    BY <1>5, <2>1 DEF LeaveSpend, Typed, Told, Reasons, Verdict, Aside
  <2>3. Booked'
    BY <1>5, <2>1, Singles DEF LeaveSpend, LastChunks, Booked
  <2> QED  BY <2>2, <2>3
<1>6. CASE LeaveEnded
  <2>1. UNCHANGED items /\ HasLast' = HasLast
    BY <1>6, LastKept DEF LeaveEnded
  <2>2. Typed' /\ Reasons' /\ Booked' /\ Aside'
    BY <1>6 DEF LeaveEnded, ended, EndReasons, Claimed, whyStopped, Outcomes, Typed, Reasons, Booked,
           Aside
  <2>3. Told'
    BY <1>6 DEF LeaveEnded, ended, EndReasons, Claimed, whyStopped, Told, Typed
  <2>4. Verdict'
    <3>1. PICK w \in EndReasons :
            /\ final' = IF recorded /\ callbacks = 1 THEN final ELSE Claimed(w)
            /\ records' = IF recorded THEN records
                          ELSE Append(records, SentOutcome(Claimed(w)))
            /\ recorded' = TRUE /\ UNCHANGED last
      BY <1>6 DEF LeaveEnded, ended
    <3> DEFINE o == Claimed(w)
    <3>2. /\ o \in Outcomes /\ (recorded => o = final)
          /\ ~recorded => (o = "ok" <=> final = "ok") /\ o # "refused"
          /\ o \in {"canceled", "timeout"} => ctx = o
      BY <3>1 DEF EndReasons, Claimed, whyStopped, Outcomes, Typed, Verdict, Told, Ends
    <3>3. CASE recorded
      BY <1>6, <3>1, <3>2, <3>3 DEF LeaveEnded, Verdict
    <3>4. CASE ~recorded
      <4>1. records' = <<SentOutcome(o)>> /\ final' = o
        BY <3>1, <3>4, Singles DEF Verdict
      <4>2. /\ SentOutcome(o) = "completed" <=> o = "ok"
            /\ SentOutcome(o) # "refused"
            /\ SentOutcome(o) = "stopped" => o \in Stops
            /\ SentOutcome(o) = "failed" => o \in Failures
        BY <3>2, <3>4 DEF SentOutcome, Stops, Failures, Outcomes
      <4>3. /\ records'[1] = SentOutcome(o) /\ records' = <<records'[1]>>
            /\ p = "end" /\ p' = "cancel"
        BY <1>6, <4>1, Singles DEF LeaveEnded
      <4> HIDE DEF o
      <4> QED  BY <3>1, <3>2, <3>4, <4>1, <4>2, <4>3 DEF Verdict, Stops, Outcomes
    <3> QED  BY <3>3, <3>4
  <2> QED  BY <2>2, <2>3, <2>4
<1>7. CASE LeaveCancel
  <2>1. UNCHANGED items /\ HasLast' = HasLast
    BY <1>7, LastKept DEF LeaveCancel
  <2>2. Typed' /\ Told' /\ Reasons' /\ Verdict' /\ Booked' /\ Aside'
    BY <1>7 DEF LeaveCancel, ctxCancelled, Typed, Told, Reasons, Verdict, Booked, Aside
  <2> QED  BY <2>2
<1>8. CASE LeaveClose
  <2>1. UNCHANGED items /\ HasLast' = HasLast
    BY <1>8, LastKept DEF LeaveClose
  <2>2. Typed' /\ Told' /\ Reasons' /\ Verdict' /\ Booked' /\ Aside'
    BY <1>8 DEF LeaveClose, Typed, Told, Reasons, Verdict, Booked, Aside
  <2> QED  BY <2>2
<1> QED  BY <1>1, <1>2, <1>3, <1>4, <1>5, <1>6, <1>7, <1>8

\* A range over the stream.
LEMMA ReaderSteps ==
  ASSUME SInv, Ends, NEW r \in Readers,
         \/ All(r) \/ Next1(r) \/ Take(r) \/ NothingQueued(r) \/ WaitEnds(r)
         \/ AwaitDrain(r) \/ Why(r) \/ End(r) \/ Settle(r) \/ KeepReading(r)
         \/ LeaveDetached(r) \/ LeaveLoop(r) \/ LeaveStops(r)
  PROVE  SInv'
<1> USE DEF SInv, chanVars, outcomeVars, prodVars, readVars, ledgerVars, ReaderKeeps, Goto,
           DrainBegun, LastOut, Reading, Deciding, Delivering, Closing
<1>1. CASE All(r)
  <2>1. UNCHANGED items /\ HasLast' = HasLast
    BY <1>1, LastKept DEF All
  <2>2. Typed' /\ Told' /\ Reasons' /\ Verdict' /\ Booked'
    BY <1>1, <2>1 DEF All, ReaderAt, Typed, Told, Reasons, Verdict, Booked
  <2>3. Aside'
    BY <1>1 DEF All, Aside, Typed
  <2> QED  BY <2>2, <2>3
<1>2. CASE Next1(r)
  <2>1. UNCHANGED items /\ HasLast' = HasLast
    BY <1>2, LastKept DEF Next1
  <2>2. Typed' /\ Told' /\ Reasons' /\ Verdict' /\ Booked' /\ Aside'
    BY <1>2, <2>1 DEF Next1, ReaderAt, Typed, Told, Reasons, Verdict, Booked, Aside
  <2> QED  BY <2>2
<1>3. CASE Take(r)
  <2>1. /\ items' \in Seq({"piece", "last"}) /\ (HasLast' => HasLast)
        /\ Head(items) \in {"piece", "last"} /\ (Head(items) = "last" => HasLast)
    BY <1>3, LastTaken, LastHead DEF Take, Typed
  <2>2. Verdict' /\ Booked'
    BY <1>3, <2>1 DEF Take, Verdict, Booked
  <2>3. Typed'
    <3>1. at' \in [Readers -> ReaderAt]
      BY <1>3 DEF Take, Typed, ReaderAt
    <3>2. beside' \in [Readers -> Nat]
      BY <1>3 DEF Take, Typed
    <3> QED  BY <1>3, <2>1, <3>1, <3>2 DEF Take, Typed
  <2>4. Told'
    BY <1>3, <2>1 DEF Take, Told, Typed
  <2>5. Reasons'
    BY <1>3 DEF Take, Reasons, Typed
  <2>6. Aside'
    <3>1. /\ at'[r] \in {"yield", "settle"} /\ late' = late /\ drain' = drain
          /\ \A s \in Readers : s # r => at'[s] = at[s] /\ beside'[s] = beside[s]
          /\ beside'[r] = beside[r] \/ (DrainBegun /\ beside'[r] = beside[r] + 1)
      BY <1>3 DEF Take, Typed
    <3>2. beside[r] = 0 /\ ~late[r]
      BY <1>3 DEF Take, Aside, Typed
    <3> QED  BY <3>1, <3>2 DEF Aside
  <2> QED  BY <2>2, <2>3, <2>4, <2>5, <2>6
<1>4. CASE NothingQueued(r)
  <2>1. UNCHANGED items /\ HasLast' = HasLast
    BY <1>4, LastKept DEF NothingQueued
  <2>2. Verdict' /\ Booked'
    BY <1>4, <2>1 DEF NothingQueued, Verdict, Booked
  <2>3. Typed'
    <3>1. at' \in [Readers -> ReaderAt]
      BY <1>4 DEF NothingQueued, Typed, ReaderAt
    <3> QED  BY <1>4, <2>1, <3>1 DEF NothingQueued, Typed
  <2>4. Told'
    BY <1>4, <2>1 DEF NothingQueued, Told, Typed
  <2>5. Reasons'
    BY <1>4 DEF NothingQueued, Reasons, Typed, Verdict, Booked
  <2>6. Aside'
    BY <1>4 DEF NothingQueued, Aside, Typed
  <2> QED  BY <2>2, <2>3, <2>4, <2>5, <2>6
<1>5. CASE WaitEnds(r)
  <2>1. UNCHANGED items /\ HasLast' = HasLast
    BY <1>5, LastKept DEF WaitEnds
  <2>2. Verdict' /\ Booked'
    BY <1>5, <2>1 DEF WaitEnds, Verdict, Booked
  <2>3. Typed'
    <3>1. at' \in [Readers -> ReaderAt]
      BY <1>5 DEF WaitEnds, Typed, ReaderAt
    <3> QED  BY <1>5, <2>1, <3>1 DEF WaitEnds, Typed
  <2>4. Told'
    BY <1>5, <2>1 DEF WaitEnds, Told, Typed
  <2>5. Reasons'
    BY <1>5 DEF WaitEnds, Reasons, Typed
  <2>6. Aside'
    BY <1>5 DEF WaitEnds, Aside, Typed
  <2> QED  BY <2>2, <2>3, <2>4, <2>5, <2>6
<1>6. CASE AwaitDrain(r)
  <2>1. UNCHANGED items /\ HasLast' = HasLast
    BY <1>6, LastKept DEF AwaitDrain
  <2>2. Typed' /\ Told' /\ Verdict' /\ Booked' /\ Aside'
    BY <1>6, <2>1 DEF AwaitDrain, ReaderAt, Typed, Told, Verdict, Booked, Aside
  <2>3. Reasons'
    BY <1>6 DEF AwaitDrain, Reasons, Told
  <2> QED  BY <2>2, <2>3
<1>7. CASE Why(r)
  <2>1. UNCHANGED items /\ HasLast' = HasLast
    BY <1>7, LastKept DEF Why
  <2>2. Typed' /\ Told' /\ Verdict' /\ Booked' /\ Aside'
    BY <1>7, <2>1 DEF Why, ReaderAt, whyStopped, Outcomes, Typed, Told, Verdict, Booked,
           Aside
  <2>3. Reasons'
    BY <1>7 DEF Why, whyStopped, Reasons, Typed
  <2> QED  BY <2>2, <2>3
<1>8. CASE End(r)
  <2>1. UNCHANGED items /\ HasLast' = HasLast
    BY <1>8, LastKept DEF End
  <2>2. Typed' /\ Booked' /\ Aside'
    BY <1>8, <2>1 DEF End, ReaderAt, endWithoutFinal, Claimed, Typed, Booked, Aside
  <2>3. Told'
    BY <1>8 DEF End, endWithoutFinal, Claimed, Told, Reasons
  <2>4. Reasons'
    BY <1>8 DEF End, endWithoutFinal, Claimed, Reasons, Typed
  <2>5. Verdict'
    BY <1>8 DEF End, endWithoutFinal, Claimed, Verdict, Typed, Reasons
  <2> QED  BY <2>2, <2>3, <2>4, <2>5
<1>9. CASE Settle(r)
  <2>1. UNCHANGED items /\ HasLast' = HasLast
    BY <1>9, LastKept DEF Settle
  <2>2. Typed' /\ Told' /\ Reasons' /\ Booked' /\ Aside'
    BY <1>9, <2>1 DEF Settle, ReaderAt, Claimed, Typed, Told, Reasons, Booked, Aside
  <2>3. Verdict'
    BY <1>9 DEF Settle, Claimed, Verdict, Told
  <2> QED  BY <2>2, <2>3
<1>10. CASE KeepReading(r)
  <2>1. UNCHANGED items /\ HasLast' = HasLast
    BY <1>10, LastKept DEF KeepReading
  <2>2. Typed' /\ Told' /\ Reasons' /\ Verdict' /\ Booked' /\ Aside'
    BY <1>10, <2>1 DEF KeepReading, ReaderAt, Typed, Told, Reasons, Verdict, Booked, Aside
  <2> QED  BY <2>2
<1>11. CASE LeaveDetached(r)
  <2>1. UNCHANGED items /\ HasLast' = HasLast
    BY <1>11, LastKept DEF LeaveDetached
  <2>2. Typed' /\ Told' /\ Reasons' /\ Verdict' /\ Booked' /\ Aside'
    BY <1>11, <2>1 DEF LeaveDetached, ReaderAt, Typed, Told, Reasons, Verdict, Booked, Aside
  <2> QED  BY <2>2
<1>12. CASE LeaveLoop(r)
  <2>1. UNCHANGED items /\ HasLast' = HasLast
    BY <1>12, LastKept DEF LeaveLoop
  <2>2. Typed' /\ Told' /\ Reasons' /\ Verdict' /\ Booked' /\ Aside'
    BY <1>12, <2>1 DEF LeaveLoop, ReaderAt, Typed, Told, Reasons, Verdict, Booked, Aside
  <2> QED  BY <2>2
<1>13. CASE LeaveStops(r)
  <2>1. UNCHANGED items /\ HasLast' = HasLast
    BY <1>13, LastKept DEF LeaveStops
  <2>2. Typed' /\ Told' /\ Reasons' /\ Verdict' /\ Booked' /\ Aside'
    BY <1>13, <2>1 DEF LeaveStops, ReaderAt, ctxCancelled, Typed, Told, Reasons, Verdict,
           Booked, Aside
  <2> QED  BY <2>2
<1> QED  BY <1>1, <1>2, <1>3, <1>4, <1>5, <1>6, <1>7, <1>8, <1>9, <1>10, <1>11, <1>12, <1>13

\* The drain of a detached stream.
LEMMA DrainSteps ==
  ASSUME SInv, Ends, Drain
  PROVE  SInv'
<1> USE DEF SInv, chanVars, outcomeVars, prodVars, readVars, ledgerVars, ReaderKeeps,
           DrainBegun, LastOut, Reading, Deciding, Delivering, Closing
<1>1. CASE Drain
  <2>1. /\ items' \in Seq({"piece", "last"}) /\ (HasLast' => HasLast)
        /\ items # <<>> => Head(items) \in {"piece", "last"} /\ (Head(items) = "last" => HasLast)
    <3>1. UNCHANGED items \/ (items # <<>> /\ items' = Tail(items))
      BY <1>1 DEF Drain
    <3> QED  BY <3>1, LastKept, LastTaken, LastHead DEF Typed
  <2>2. Reasons' /\ Booked' /\ Aside'
    BY <1>1, <2>1 DEF Drain, Claimed, Reasons, Booked, Aside
  <2>3. Typed'
    <3>1. /\ drain' \in {"next", "wait", "recheck", "settle", "end", "done"}
          /\ final' \in Outcomes \cup {"none"} /\ consumed' \in BOOLEAN
      BY <1>1 DEF Drain, Typed, Claimed, whyStopped, Outcomes
    <3> QED  BY <1>1, <2>1, <3>1 DEF Drain, Typed
  <2>4. Told'
    BY <1>1, <2>1 DEF Drain, Claimed, whyStopped, Told, Typed
  <2>5. Verdict'
    BY <1>1 DEF Drain, Claimed, whyStopped, Verdict, Typed, Told
  <2> QED  BY <2>2, <2>3, <2>4, <2>5
<1> QED  BY <1>1

-----------------------------------------------------------------------------
\* A stream that was just opened.
LEMMA StreamStarts == Init => SInv /\ Ends
<1> SUFFICES ASSUME Init PROVE SInv /\ Ends
  OBVIOUS
<1> USE DEF Init, Reading, Deciding, Delivering, Closing
<1>1. ~HasLast /\ items \in Seq({"piece", "last"})
  BY DEF HasLast
<1>2. Typed
  BY <1>1 DEF Typed, Outcomes, ReaderAt
<1>3. Told /\ Reasons
  BY <1>1 DEF Told, Reasons, LastOut
<1>4. Verdict /\ Booked /\ Aside
  BY <1>1 DEF Verdict, Booked, Aside
<1>5. Ends
  BY DEF Ends
<1> QED  BY <1>2, <1>3, <1>4, <1>5 DEF SInv

\* A context that ended stays ended, and only the producer, when it has decided, claims
\* an outcome that names none.
LEMMA EndsSteps ==
  ASSUME SInv, Ends, [Next]_vars
  PROVE  Ends'
<1> USE DEF chanVars, outcomeVars, prodVars, readVars, ledgerVars, Reading, Deciding,
           Delivering, Closing, Stops, RunOver
<1>1. CASE UNCHANGED vars
  BY <1>1 DEF vars, Ends
<1>2. CASE CallerEnds \/ SchedulerCloses \/ Detach \/ CancelMark \/ CancelContext
  <2>1. UNCHANGED <<final, stopped, last, p>> /\ (ctx # "live" => ctx' = ctx) /\ (shut => shut')
    BY <1>2 DEF CallerEnds, SchedulerCloses, Detach, CancelMark, CancelContext, ctxCancelled
  <2>2. ctx' # "live" \/ ctx = "live"
    BY <2>1
  <2> QED  BY <2>1, <2>2 DEF Ends
<1>3. CASE Ask \/ CancelKnown
  BY <1>3 DEF Ask, CancelKnown, knownLocked, Ends, SInv, Typed
<1>4. CASE Receive \/ ProviderEnds \/ ProviderPanics
  BY <1>4 DEF Receive, ProviderEnds, ProviderPanics, stopCause, ProducerKeeps, Ends, SInv,
              Typed
<1>5. CASE Produce
  <2> USE DEF ProducerKeeps
  <2>1. CASE SendPiece \/ GiveUp \/ SendLast \/ GiveUpLast
    BY <2>1 DEF SendPiece, GiveUp, SendLast, GiveUpLast, Deliver, Blocks, Ends
  <2>2. CASE StopOnLast
    BY <2>2 DEF StopOnLast, Claimed, stopCause, RunErr, Ends, SInv, Typed
  <2>3. CASE RecordStopped \/ UnusableAnswer \/ RecordCompletion
    BY <2>3 DEF RecordStopped, UnusableAnswer, RecordCompletion, Ends
  <2>4. CASE RefuseAnswer \/ AcceptAnswer
    BY <2>4 DEF RefuseAnswer, AcceptAnswer, Claimed, Ends
  <2>5. CASE Finish
    BY <2>5 DEF Finish, Claimed, Ends
  <2>6. CASE Tell \/ LeaveEnded
    BY <2>6 DEF Tell, LeaveEnded, ended, EndReasons, Claimed, whyStopped, Ends, SInv, Typed
  <2>7. CASE Leave
    BY <2>7 DEF Leave, stopCause, RunErr, Ends, SInv, Typed
  <2>8. CASE LeaveSpend \/ LeaveCancel \/ LeaveClose
    BY <2>8 DEF LeaveSpend, LeaveCancel, LeaveClose, ctxCancelled, Ends
  <2> QED  BY <1>5, <2>1, <2>2, <2>3, <2>4, <2>5, <2>6, <2>7, <2>8 DEF Produce
<1>6. CASE Drain
  <2>1. /\ UNCHANGED <<ctx, stopped, shut, last, p>>
        /\ \/ final' = final
           \/ final = "none" /\ drain = "end" /\ final' = whyStopped
    BY <1>6 DEF Drain, ReaderKeeps, Claimed, SInv, Told, LastOut
  <2>2. drain = "end" /\ final = "none" => ctx # "live"
    BY DEF SInv, Told
  <2> QED  BY <2>1, <2>2 DEF whyStopped, Ends, SInv, Typed
<1>7. ASSUME NEW r \in Readers, All(r) \/ Read(r) PROVE Ends'
  <2> USE DEF ReaderKeeps
  <2>1. CASE End(r)
    BY <2>1 DEF End, endWithoutFinal, Claimed, Ends, SInv, Reasons, Typed
  <2>2. CASE Settle(r)
    BY <2>2 DEF Settle, Claimed, Ends, SInv, Told, LastOut
  <2>3. CASE LeaveStops(r)
    BY <2>3 DEF LeaveStops, ctxCancelled, Ends
  <2>4. CASE ~End(r) /\ ~Settle(r) /\ ~LeaveStops(r)
    BY <1>7, <2>4 DEF All, Read, Next1, Take, NothingQueued, WaitEnds, AwaitDrain, Why,
                      KeepReading, LeaveDetached, LeaveLoop, Ends
  <2> QED  BY <2>1, <2>2, <2>3, <2>4
<1> QED  BY <1>1, <1>2, <1>3, <1>4, <1>5, <1>6, <1>7 DEF Next

\* Every step, by whichever party, keeps the invariant.
LEMMA StreamSteps ==
  ASSUME SInv, Ends, [Next]_vars
  PROVE  SInv'
<1>1. CASE UNCHANGED vars
  <2> USE <1>1 DEF vars, chanVars, outcomeVars, prodVars, readVars, ledgerVars
  <2>1. HasLast' = HasLast
    BY LastKept
  <2>2. Typed' /\ Reasons' /\ Aside'
    BY DEF SInv, Typed, Reasons, Aside, DrainBegun
  <2>3. Told'
    BY <2>1 DEF SInv, Told, LastOut
  <2>4. Verdict' /\ Booked'
    BY <2>1 DEF SInv, Verdict, Booked
  <2> QED  BY <2>2, <2>3, <2>4 DEF SInv
<1>2. CASE Produce
  BY <1>2, ReadingKeeps, DecidingKeeps, EndingKeeps DEF Produce
<1>3. ASSUME NEW r \in Readers, All(r) \/ Read(r) PROVE SInv'
  BY <1>3, ReaderSteps DEF Read
<1> QED  BY <1>1, <1>2, <1>3, EnvironmentKeeps, ReadingKeeps, DrainSteps DEF Next

\* The invariant holds in every state of a stream.
THEOREM StreamInductive == Spec => [](SInv /\ Ends)
BY StreamStarts, StreamSteps, EndsSteps, PTL DEF Spec

\* A stream ends once: every range that ends, Err, Ended, Cancel and the callback are
\* told one outcome, and the call record agrees with it, whatever ends the stream and
\* in whatever order the claims on its outcome meet.
THEOREM StreamEndsOnce == Spec => []OneOutcome
<1>1. ASSUME SInv PROVE OneOutcome
  <2> USE <1>1 DEF SInv
  <2>1. Cardinality(told) <= 1
    <3>1. told = {} \/ \E o : told = {o}
      BY DEF Told
    <3>2. Cardinality(told) \in {0, 1}
      BY <3>1, FS_EmptySet, FS_Singleton
    <3> QED  BY <3>2
  <2>2. told # {} /\ final # "none" => told = {final}
    BY DEF Told
  <2>3. ASSUME NEW i \in 1..Len(records)
        PROVE  /\ records[i] = "completed" <=> final = "ok"
               /\ records[i] = "refused" <=> final = "refused"
               /\ records[i] = "stopped" => final \in Stops
               /\ records[i] = "failed" => final \in Failures
    <3>1. recorded /\ i = 1
      <4>1. Len(records) = IF recorded THEN 1 ELSE 0
        BY Singles DEF Verdict
      <4> QED  BY <4>1
    <3> QED  BY <3>1 DEF Verdict
  <2> QED  BY <2>1, <2>2, <2>3 DEF OneOutcome, Stops, Failures
<1> QED  BY <1>1, StreamInductive, PTL

\* A stream is recorded once and charged once, at the latest when its channel closes and
\* with its figure where the last chunk had one; a drain shares its text with nobody.
THEOREM StreamIsAccounted == Spec => []StreamAccounted
<1>1. ASSUME SInv PROVE StreamAccounted
  <2> USE <1>1 DEF SInv
  <2>1. Len(records) = IF recorded THEN 1 ELSE 0
    BY Singles DEF Verdict
  <2>2. Len(charges) <= 1
    <3>1. charges = <<>> \/ \E f : charges = <<f>>
      BY DEF Booked, Typed
    <3>2. CASE charges = <<>>
      BY <3>2
    <3>3. ASSUME NEW f, charges = <<f>> PROVE Len(charges) <= 1
      BY <3>3
    <3> QED  BY <3>1, <3>2, <3>3
  <2>3. closed \/ HasLast => Len(records) = 1 /\ callbacks = 1
    BY <2>1 DEF Booked
  <2>4. closed => charges = IF ~received THEN <<>>
                            ELSE <<IF chunk \in {"ok", "foreign", "cut"} THEN "figure"
                                   ELSE "unknown">>
    BY DEF Booked, Typed, Figure, Closing, LastChunks
  <2>5. Len(records) <= 1
    BY <2>1
  <2>6. DrainAlone
    BY DEF Aside, DrainAlone
  <2>7. AccountedOnce
    BY <2>2, <2>3, <2>4, <2>5 DEF AccountedOnce, HasLast
  <2> QED  BY <2>6, <2>7 DEF StreamAccounted
<1> QED  BY <1>1, StreamInductive, PTL
=============================================================================

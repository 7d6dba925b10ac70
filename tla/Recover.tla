------------------------------ MODULE Recover ------------------------------
(***************************************************************************)
(* The recovery cascade: RunOpManyRecover of v2/internal/ops/recover.go,   *)
(* with the chunk sizes of adaptive.go.  A batched request per chunk, then *)
(* requests over smaller sets of what it left unanswered, then one request *)
(* per item, several at once.  Each request of the last rung is a step that *)
(* looks at the halt and a step that applies the reply.                    *)
(***************************************************************************)
EXTENDS Naturals, Sequences, FiniteSetsExt

CONSTANT Runs   \* the runs a behaviour may be, a subset of Run

outageRequestLimit == 3
sustainedComplianceRun == 3

\* What a call may fail with: a kind that repeats, a refusal by the provider's
\* filter, a failure in transport, or an answer that cannot be used.
Failures == {"repeats", "refused", "transport", "unusable"}

\* A run: where the planner's chunks of the items that may share a request end,
\* how many items may not, the first size and the ceiling, the isolate passes,
\* the requests of the last rung in flight, what else may happen than whole
\* answers, and which counts of items an answer may resolve.
Run ==
  [ends : SUBSET Nat, oversized : Nat, start : Nat, ceiling : Nat,
   maxIsolate : 1..3, workers : Nat \ {0}, partial : BOOLEAN,
   happens : SUBSET (Failures \cup {"encode", "floor", "over", "died"})]

VARIABLES
  run, pc,
  pos, size, complianceRun,      \* the top-level loop and AdaptiveChunkState
  stack, budget, outcome,        \* the chunk being recovered
  state,          \* each item: "open", "resolved", "failed" or "stopped"
  rung,           \* the last rung: "out", "waiting", "checked", "sent", "back"
  failures, halted, over,
  \* History.
  latest,         \* the size of the last batched request over each item
  requests,       \* requests sent
  asked,          \* the batched ones of this chunk, and its items
  late            \* requests sent after the halt

topVars == <<pos, size, complianceRun>>
chunkVars == <<stack, budget, outcome>>
haltVars == <<failures, halted>>
countVars == <<latest, requests, asked, late>>
vars == <<run, pc, topVars, chunkVars, state, rung, haltVars, over, countVars>>

\* The eligible items come first: which are too large does not matter here.
Eligible == IF run.ends = {} THEN 0 ELSE Max(run.ends)
Items == 1..(Eligible + run.oversized)

\* NewAdaptiveChunkState.
StartSize(r) == Max({1, Min({r.start, r.ceiling})})

Init ==
  /\ run \in Runs /\ pc = "top"
  /\ pos = 0 /\ size = StartSize(run) /\ complianceRun = 0
  /\ stack = <<>> /\ budget = 0 /\ outcome = "none"
  /\ state = [i \in Items |-> "open"] /\ rung = [i \in Items |-> "out"]
  /\ failures = 0 /\ halted = FALSE /\ over = FALSE
  /\ latest = [i \in Items |-> 0] /\ requests = 0 /\ asked = <<0, 0>> /\ late = 0

-----------------------------------------------------------------------------
\* AdaptiveChunkState.Record: the size after an outcome of a chunk's first
\* request, and the run of compliant ones.
halve == IF size <= 1 THEN size ELSE size \div 2
grow == Min({run.ceiling, Max({size + 1, (5 * size) \div 4})})

Record(o) ==
  CASE o = "halves" -> size' = halve /\ complianceRun' = 0
    [] o = "compliant" /\ size >= run.ceiling -> UNCHANGED <<size, complianceRun>>
    [] o = "compliant" /\ size < run.ceiling
         /\ complianceRun + 1 >= sustainedComplianceRun ->
         size' = grow /\ complianceRun' = 0
    [] o = "compliant" /\ size < run.ceiling
         /\ complianceRun + 1 < sustainedComplianceRun ->
         complianceRun' = complianceRun + 1 /\ UNCHANGED size
    [] OTHER -> UNCHANGED <<size, complianceRun>>

\* Where the planned chunk that holds the next item ends.
limitAt(p) == Min({e \in run.ends : e > p})

\* Mutant: the size alone says how large a chunk is.
ChunkSize_Unplanned == Max({1, Min({size, Eligible - pos})})

\* The next chunk, never larger than the one the planner cut.
ChunkSize == Max({1, Min({size, limitAt(pos) - pos})})

NextChunk ==
  /\ pc = "top" /\ pos < Eligible /\ pos' = pos + ChunkSize
  /\ IF ChunkSize = 1
       THEN UNCHANGED <<pc, chunkVars, asked>>    \* sent alone, later
       ELSE /\ pc' = "chunk" /\ outcome' = "none" /\ asked' = <<0, ChunkSize>>
            /\ budget' = 2 * run.maxIsolate + ChunkSize
            /\ stack' = <<[set |-> [j \in 1..ChunkSize |-> pos + j],
                           left |-> run.maxIsolate, after |-> FALSE, one |-> FALSE]>>
  /\ UNCHANGED <<run, size, complianceRun, state, rung, haltVars, over, latest,
                 requests, late>>

\* The chunk is recovered as far as it can be: its first outcome sizes the next.
ChunkDone ==
  /\ pc = "chunk" /\ stack = <<>> /\ pc' = "top"
  /\ Record(outcome)
  /\ UNCHANGED <<run, pos, chunkVars, state, rung, haltVars, over, countVars>>

-----------------------------------------------------------------------------
\* chunk: the job on top of its stack.
Job == Head(stack)

\* Mutant: the chunk's requests are not counted.
Skipped_Unbudgeted == Len(Job.set) = 0 \/ (Len(Job.set) = 1 /\ ~Job.one)

\* A job no request is left for goes to the last rung.
Skipped == Len(Job.set) = 0 \/ (Len(Job.set) = 1 /\ ~Job.one) \/ budget = 0

SkipJob ==
  /\ pc = "chunk" /\ stack # <<>> /\ Skipped /\ stack' = Tail(stack)
  /\ UNCHANGED <<run, pc, topVars, budget, outcome, state, rung, haltVars, over,
                 countVars>>

\* Two halves, the first one larger and asked first.
halves(set, left, after) ==
  LET middle == (Len(set) + 1) \div 2
      half(s) == [set |-> s, left |-> left, after |-> after, one |-> FALSE]
  IN <<half(SubSeq(set, 1, middle)), half(SubSeq(set, middle + 1, Len(set)))>>

\* Mutant: a request that resolved nothing is sent again as it was.
Followed_Whole(unresolved, resolved, refused) ==
  CASE unresolved = <<>> -> <<>>
    [] unresolved # <<>> /\ refused -> halves(unresolved, Job.left, Job.after)
    [] unresolved # <<>> /\ ~refused /\ Job.left > 0 ->
         <<[set |-> unresolved, left |-> Job.left - 1, after |-> FALSE, one |-> TRUE]>>
    [] OTHER -> <<>>

\* The jobs a request leaves: none, a smaller set, or halves.
Followed(unresolved, resolved, refused) ==
  CASE unresolved = <<>> -> <<>>
    [] unresolved # <<>> /\ refused -> halves(unresolved, Job.left, Job.after)
    [] unresolved # <<>> /\ ~refused /\ Job.left > 0 /\ resolved > 0 ->
         <<[set |-> unresolved, left |-> Job.left - 1, after |-> FALSE, one |-> TRUE]>>
    [] unresolved # <<>> /\ ~refused /\ Job.left > 0 /\ resolved = 0 /\ ~Job.after ->
         halves(unresolved, Job.left - 1, TRUE)
    [] OTHER -> <<>>

\* cascadeStops: it would fail the same way again, or the caller's context ended.
cascadeStops(f) == over \/ f = "repeats"

\* failedInTransport: the run ends when so many requests in a row have.
Outage(f) == f = "transport" /\ failures + 1 >= outageRequestLimit
HaltAfter(f) == cascadeStops(f) \/ Outage(f)

failuresAfter(f) == IF f = "transport" THEN failures + 1 ELSE 0

\* A batched request is counted, whatever it is answered.
Sent ==
  /\ budget' = budget - 1 /\ asked' = [asked EXCEPT ![1] = @ + 1]
  /\ requests' = requests + 1 /\ late' = IF halted THEN late + 1 ELSE late
  /\ latest' = [i \in Items |->
                  IF \E j \in 1..Len(Job.set) : Job.set[j] = i
                  THEN Len(Job.set) ELSE latest[i]]

First(o) == outcome' = IF outcome = "none" THEN o ELSE outcome
Asking == pc = "chunk" /\ stack # <<>> /\ ~Skipped

\* Nothing was sent: the set goes to the last rung.
EncodeFails ==
  /\ Asking /\ "encode" \in run.happens
  /\ budget' = budget - 1 /\ First("nosignal") /\ stack' = Tail(stack)
  /\ UNCHANGED <<run, pc, topVars, state, rung, haltVars, over, countVars>>

\* Every item without an answer fails with the failure that ended the run.
StopAll ==
  /\ pc' = "alone" /\ stack' = <<>> /\ halted' = TRUE
  /\ state' = [i \in Items |-> IF state[i] = "open" THEN "stopped" ELSE state[i]]

\* The request fails, or the route that answered it is below the floor.
CallFails(f) ==
  /\ Asking /\ f \in run.happens \cup (IF over THEN {"repeats"} ELSE {}) /\ Sent
  /\ First(IF f = "unusable" THEN "halves" ELSE "nosignal")
  /\ failures' = IF cascadeStops(f) THEN failures ELSE failuresAfter(f)
  /\ IF HaltAfter(f) THEN StopAll
     ELSE /\ stack' = IF f = "transport" THEN Tail(stack)
                      ELSE Followed(Job.set, 0, f = "refused") \o Tail(stack)
          /\ UNCHANGED <<pc, state, halted>>
  /\ UNCHANGED <<run, topVars, rung, over>>

BelowFloor ==
  /\ Asking /\ "floor" \in run.happens /\ Sent /\ First("nosignal")
  /\ failures' = 0 /\ StopAll
  /\ UNCHANGED <<run, topVars, rung, over>>

\* The answer resolves n of the items.  They are alike, so it is the first n.
Answered(n, o) ==
  /\ Asking /\ Sent /\ First(o) /\ failures' = 0
  /\ n <= Len(Job.set) /\ (n < Len(Job.set) => run.partial)
  /\ o = "compliant" \/ run.partial
  /\ state' = [i \in Items |-> IF \E j \in 1..n : Job.set[j] = i
                               THEN "resolved" ELSE state[i]]
  /\ stack' = Followed(SubSeq(Job.set, n + 1, Len(Job.set)), n, FALSE) \o Tail(stack)
  /\ UNCHANGED <<run, pc, topVars, rung, halted, over>>

-----------------------------------------------------------------------------
\* Mutant: only what a batched request asked about is sent alone.
LastRung_Tried ==
  /\ pc = "top" /\ pos = Eligible /\ pc' = "alone"
  /\ rung' = [i \in Items |-> IF state[i] = "open" /\ latest[i] > 0 THEN "waiting" ELSE "out"]
  /\ UNCHANGED <<run, topVars, chunkVars, state, haltVars, over, countVars>>

\* The last rung: one request per item that is neither resolved nor stopped.
LastRung ==
  /\ pc = "top" /\ pos = Eligible /\ pc' = "alone"
  /\ rung' = [i \in Items |-> IF state[i] = "open" THEN "waiting" ELSE "out"]
  /\ UNCHANGED <<run, topVars, chunkVars, state, haltVars, over, countVars>>

Flying == {i \in Items : rung[i] \in {"checked", "sent"}}
FirstWaiting(i) == rung[i] = "waiting" /\ \A j \in 1..(i - 1) : rung[j] # "waiting"

\* Mutant: an item that has not started is sent whatever ended the run.
Start_Anyway(i) ==
  /\ pc = "alone" /\ FirstWaiting(i) /\ Cardinality(Flying) < run.workers
  /\ rung' = [rung EXCEPT ![i] = "checked"]
  /\ UNCHANGED <<run, pc, topVars, chunkVars, state, haltVars, over, countVars>>

\* A worker takes the next item and looks whether the run was halted.
Start(i) ==
  /\ pc = "alone" /\ FirstWaiting(i) /\ Cardinality(Flying) < run.workers
  /\ rung' = [rung EXCEPT ![i] = IF halted THEN "back" ELSE "checked"]
  /\ state' = [state EXCEPT ![i] = IF halted THEN "stopped" ELSE @]
  /\ UNCHANGED <<run, pc, topVars, chunkVars, haltVars, over, countVars>>

SendAlone(i) ==
  /\ pc = "alone" /\ rung[i] = "checked" /\ rung' = [rung EXCEPT ![i] = "sent"]
  /\ requests' = requests + 1 /\ late' = IF halted THEN late + 1 ELSE late
  /\ UNCHANGED <<run, pc, topVars, chunkVars, state, haltVars, over, latest, asked>>

\* The reply, and what it says of the run.
Resolves(i) ==
  /\ pc = "alone" /\ rung[i] = "sent" /\ rung' = [rung EXCEPT ![i] = "back"]
  /\ state' = [state EXCEPT ![i] = "resolved"] /\ failures' = 0
  /\ UNCHANGED <<run, pc, topVars, chunkVars, halted, over, countVars>>

FailsAlone(i, f) ==
  /\ pc = "alone" /\ rung[i] = "sent" /\ rung' = [rung EXCEPT ![i] = "back"]
  /\ f \in run.happens \cup (IF over THEN {"repeats"} ELSE {})
  /\ state' = [state EXCEPT ![i] = "failed"]
  /\ failures' = IF cascadeStops(f) THEN failures ELSE failuresAfter(f)
  /\ halted' = (halted \/ HaltAfter(f))
  /\ UNCHANGED <<run, pc, topVars, chunkVars, over, countVars>>

\* A step that panics or ends its goroutine is that item's failure.
DiesAlone(i) ==
  /\ pc = "alone" /\ rung[i] = "sent" /\ "died" \in run.happens
  /\ rung' = [rung EXCEPT ![i] = "back"] /\ state' = [state EXCEPT ![i] = "failed"]
  /\ UNCHANGED <<run, pc, topVars, chunkVars, haltVars, over, countVars>>

Report ==
  /\ pc = "alone" /\ pc' = "done" /\ \A i \in Items : rung[i] \in {"out", "back"}
  /\ UNCHANGED <<run, topVars, chunkVars, state, rung, haltVars, over, countVars>>

CallerEnds ==
  /\ "over" \in run.happens /\ ~over /\ pc # "done" /\ over' = TRUE
  /\ UNCHANGED <<run, pc, topVars, chunkVars, state, rung, haltVars, countVars>>

Done == pc = "done" /\ UNCHANGED vars

Next ==
  \/ NextChunk \/ ChunkDone \/ SkipJob \/ EncodeFails \/ BelowFloor
  \/ \E f \in Failures : CallFails(f)
  \/ \E n \in 0..Eligible, o \in {"compliant", "halves"} : Answered(n, o)
  \/ LastRung \/ Report \/ CallerEnds \/ Done
  \/ \E i \in Items : Start(i) \/ SendAlone(i) \/ Resolves(i) \/ DiesAlone(i)
                      \/ \E f \in Failures : FailsAlone(i, f)

Spec == Init /\ [][Next]_vars

-----------------------------------------------------------------------------
\* recoverRequestBound: 2n + 2k*floor(n/2) requests at most for n items.
recoverRequestBound(n, k) == 2 * n + 2 * k * (n \div 2)
RequestsBounded ==
  /\ requests <= recoverRequestBound(Cardinality(Items), run.maxIsolate)
  /\ asked[1] <= 2 * run.maxIsolate + asked[2]

\* "A request is never sent again as it was": a batched request asks only about
\* items nothing has resolved, and about fewer of them than the last request any
\* of them was in; it is sent by a run that is not halted.
NeverAgain ==
  [][asked'[1] > asked[1] =>
       /\ ~halted
       /\ \A j \in 1..Len(Head(stack).set) :
            LET i == Head(stack).set[j] IN
              /\ state[i] = "open"
              /\ latest[i] = 0 \/ Len(Head(stack).set) < latest[i]]_vars

\* Once a failure that repeats, or an outage, has ended the run, only requests
\* whose worker had already looked are sent, one less than there are workers;
\* and the run ends with every item resolved, failed in a request of its own,
\* or stopped by that failure, which nothing but a halted run does.
HaltHeld ==
  /\ late < run.workers
  /\ pc = "done" => \A i \in Items :
       \/ state[i] = "resolved"
       \/ state[i] = "failed" /\ rung[i] = "back"
       \/ state[i] = "stopped" /\ halted

\* The size stays between one and the ceiling, and no request has more items
\* than the chunk the planner cut them from.
WithinPlan ==
  /\ size >= 1 /\ size <= Max({1, run.ceiling})
  /\ \A j \in 1..Len(stack) :
       LET s == stack[j].set IN
         Len(s) > 0 => \A e \in run.ends : s[1] <= e => s[Len(s)] <= e

-----------------------------------------------------------------------------
\* The inductive invariant.  What a chunk may still send, the items its jobs ask
\* about, and the last rung.
Jobs == [set : Seq(Nat), left : Nat, after : BOOLEAN, one : BOOLEAN]

RecoverTyped ==
  /\ run \in Runs /\ pc \in {"top", "chunk", "alone", "done"}
  /\ pos \in 0..Eligible /\ size \in 1..Max({1, run.ceiling}) /\ complianceRun \in Nat
  /\ stack \in Seq(Jobs) /\ budget \in Nat
  /\ state \in [Items -> {"open", "resolved", "failed", "stopped"}]
  /\ rung \in [Items -> {"out", "waiting", "checked", "sent", "back"}]
  /\ halted \in BOOLEAN /\ latest \in [Items -> Nat]
  /\ requests \in Nat /\ asked \in Nat \X Nat /\ late \in Nat

\* The requests left to a chunk are counted against it from its start, and chunks of
\* two items or more are as many as half the items they were cut from.
Left == IF pc = "chunk" THEN budget ELSE 0
Allowed(p) == p + 2 * run.maxIsolate * (p \div 2)
Gone == {i \in Items : rung[i] \in {"sent", "back"}}
CountInv ==
  /\ asked[1] + Left <= 2 * run.maxIsolate + asked[2]
  /\ requests + Left <= Allowed(pos) + Cardinality(Gone)

\* The jobs of a chunk share no item; an item they ask about is open, lies in the
\* chunk, and was last asked about among more items than now.
Of(a) == 1..Len(stack[a].set)
Unsent(a) ==
  Len(stack[a].set) > 1 \/ stack[a].one =>
    \A j \in Of(a) : LET i == stack[a].set[j] IN
      latest[i] = 0 \/ Len(stack[a].set) < latest[i]
Fresh(a) ==
  \A j \in Of(a) : LET i == stack[a].set[j] IN
    i \in (pos - asked[2] + 1)..pos /\ state[i] = "open"
Apart(a, b) ==
  \A j \in Of(a), k \in Of(b) : stack[a].set[j] = stack[b].set[k] => a = b /\ j = k
StackInv ==
  IF pc = "chunk"
  THEN /\ asked[2] <= pos /\ \A e \in run.ends : e > pos - asked[2] => e >= pos
       /\ \A a \in 1..Len(stack) : Fresh(a) /\ Unsent(a)
       /\ \A a, b \in 1..Len(stack) : Apart(a, b)
  ELSE stack = <<>>

\* Before the last rung nothing is halted and what lies ahead is untouched; on it an
\* item is open until its own request is back, unless the run was halted.
Checked == {i \in Items : rung[i] = "checked"}
ItemRight(i) ==
  CASE pc \in {"top", "chunk"} ->
         /\ rung[i] = "out" /\ state[i] \in {"open", "resolved"}
         /\ i > pos => state[i] = "open" /\ latest[i] = 0
    [] pc \in {"alone", "done"} /\ rung[i] = "out" ->
         state[i] = "resolved" \/ (state[i] = "stopped" /\ halted)
    [] pc \in {"alone", "done"} /\ rung[i] = "back" ->
         state[i] \in {"resolved", "failed"} \/ (state[i] = "stopped" /\ halted)
    [] OTHER -> pc = "alone" /\ state[i] = "open"
HaltInv ==
  /\ \A i \in Items : ItemRight(i)
  /\ halted => pc \in {"alone", "done"}
  /\ Cardinality(Flying) <= run.workers
  /\ IF halted THEN late + Cardinality(Checked) < run.workers ELSE late = 0

RecoverInv == RecoverTyped /\ CountInv /\ StackInv /\ HaltInv
=============================================================================

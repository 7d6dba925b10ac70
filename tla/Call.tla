------------------------------- MODULE Call -------------------------------
(***************************************************************************)
(* One request of the library: callRequest of v2/internal/ops/llm_helper.go *)
(* with throughScheduler (clientlimits.go) and the client's ledger          *)
(* (clientbudget.go).  Several calls share one scheduler, seen as module    *)
(* Gate specifies it, and one ledger; Close and the callers' contexts end   *)
(* things at any moment.  Each critical section of the ledger and each     *)
(* look at a context is a step of its own.                                 *)
(***************************************************************************)
EXTENDS Gate

CONSTANTS
  Attempts,         \* maxRetries + 1
  ProcessCeiling,   \* the process-wide ceiling, 0 = none is enforced
  Settings          \* the client settings a behaviour may have

\* What a provider answers: usable, usable without a usage report, by a route
\* the policy forbids, cut off, or without content; and which of these came
\* from a cache.
Accepted == {"ok", "nousage", "cached"}
Forbidden == {"foreign", "cachedforeign"}
Refused == {"truncated", "empty", "cachedcut", "cachedempty"}
Cached == {"cached", "cachedforeign", "cachedcut", "cachedempty"}
Answers == Accepted \cup Forbidden \cup Refused
Failures == {"transient", "permanent"}

\* A client: whether it has a scheduler, its ledger's ceiling (0 = none),
\* KeepProcessCeiling and RefuseUnpriced, what is known of the route, and what
\* the provider behind it may do.
Setting ==
  [scheduled : BOOLEAN, ceiling : Nat, keeps : BOOLEAN, refuses : BOOLEAN,
   priced : BOOLEAN, allowed : BOOLEAN,
   replies : SUBSET (Answers \cup Failures \cup {"panic"})]

ASSUME CallConstants ==
  /\ IsFiniteSet(Calls)
  /\ Attempts \in Nat \ {0} /\ ProcessCeiling \in Nat
  /\ Settings \subseteq Setting

VARIABLES
  set,        \* the client's settings
  pc,         \* where each call is
  attempt, sent,
  reply,      \* what the attempt ended with
  ran,        \* the work was started
  runCanceled,
  spent, unpriced,    \* the ledger
  tracked,    \* the process-wide total
  outcome,    \* what each call returns
  \* History.
  produced, charged,  \* answers bought for each call, and those recorded
  records,    \* request records published for each call
  said,       \* what the provider itself returned to the attempt
  early,      \* the context had ended when the attempt was let through
  exposed     \* calls under way when the ceiling was reached

ledgerVars == <<spent, unpriced, charged, exposed>>
attemptVars == <<attempt, sent, reply, said, ran, runCanceled, early>>
callVars == <<pc, attemptVars, ledgerVars, tracked, outcome, produced, records>>
vars == <<gateVars, set, callVars>>

-----------------------------------------------------------------------------
\* A provider that finds its context ended may say so; a panic unwinds.
ProviderReplies(c) ==
  set.replies \cup (IF over[c] \/ stopped[c] THEN {"canceled"} ELSE {})

isRetryable(r) == r \in {"transient", "empty", "cachedempty"}

\* What a cache served was not produced for this call, accepted or not.
Bought(r) == r \in Answers \ Cached

\* A response that reports no usage, or whose model has no price, is spend of
\* unknown size.
cost(r) == IF r # "nousage" /\ set.priced THEN 1 ELSE 0

CallInit ==
  /\ GateInit
  /\ set \in Settings
  /\ pc = [c \in Calls |-> "start"]
  /\ attempt = [c \in Calls |-> 1] /\ sent = [c \in Calls |-> 0]
  /\ reply = [c \in Calls |-> "none"] /\ said = [c \in Calls |-> "none"]
  /\ ran = [c \in Calls |-> FALSE] /\ runCanceled = [c \in Calls |-> FALSE]
  /\ spent = 0 /\ unpriced = 0 /\ tracked = 0
  /\ outcome = [c \in Calls |-> "none"]
  /\ produced = [c \in Calls |-> 0] /\ charged = [c \in Calls |-> 0]
  /\ records = [c \in Calls |-> 0]
  /\ early = [c \in Calls |-> FALSE] /\ exposed = {}

Goto(c, where) == pc' = [pc EXCEPT ![c] = where]

\* publishFailedCall and the return of the error.
Fail(c, why) ==
  /\ Goto(c, "done")
  /\ outcome' = [outcome EXCEPT ![c] = why]
  /\ records' = [records EXCEPT ![c] = @ + 1]

-----------------------------------------------------------------------------
\* Mutant: the ledger refuses only what is past the ceiling.
Check_Past == set.ceiling # 0 /\ spent > set.ceiling

\* ClientBudget.Check refuses: at the ceiling, not past it.
Check == set.ceiling # 0 /\ spent >= set.ceiling

\* A ledger replaces the process-wide ceiling unless it was told to keep it.
checkBudget ==
  Check \/ (set.keeps /\ ProcessCeiling # 0 /\ tracked >= ProcessCeiling)

checkBudgetFor ==
  checkBudget \/ (set.refuses /\ set.ceiling > 0 /\ ~set.priced)

\* The data policy, then the budget; a refusal here publishes nothing.
Begin(c) ==
  /\ pc[c] = "start"
  /\ IF ~set.allowed \/ checkBudgetFor
     THEN /\ Goto(c, "done")
          /\ outcome' =
               [outcome EXCEPT ![c] = IF set.allowed THEN "budget" ELSE "policy"]
     ELSE Goto(c, "submit") /\ UNCHANGED outcome
  /\ UNCHANGED <<gateVars, set, attemptVars, ledgerVars, tracked, produced, records>>

\* Before a repeat: the context, then the ledger, which the attempt that was
\* thrown away has been charged to.
AgainContext(c) ==
  /\ pc[c] = "again"
  /\ IF over[c] THEN Fail(c, "canceled")
     ELSE Goto(c, "againBudget") /\ UNCHANGED <<outcome, records>>
  /\ UNCHANGED <<gateVars, set, attemptVars, ledgerVars, tracked, produced>>

\* Mutant: a repeat is not held to the ledger.
AgainBudget_Unasked(c) ==
  /\ pc[c] = "againBudget"
  /\ Goto(c, "submit")
  /\ UNCHANGED <<gateVars, set, attemptVars, ledgerVars, tracked, outcome, produced,
                 records>>

AgainBudget(c) ==
  /\ pc[c] = "againBudget"
  /\ IF checkBudget THEN Fail(c, "budget")
     ELSE Goto(c, "submit") /\ UNCHANGED <<outcome, records>>
  /\ UNCHANGED <<gateVars, set, attemptVars, ledgerVars, tracked, produced>>

-----------------------------------------------------------------------------
\* throughScheduler.  Without a scheduler the work is run at once.
RunDirect(c) ==
  /\ pc[c] = "submit" /\ ~set.scheduled
  /\ Goto(c, "sending")
  /\ UNCHANGED <<gateVars, set, attemptVars, ledgerVars, tracked, outcome, produced,
                 records>>

\* The gate's own steps, while the call is inside Submit: "rejected" is a full
\* queue, found on entry, or the context's deadline, given with the request.
InGate(c) ==
  /\ pc[c] = "submit" /\ set.scheduled
  /\ \/ Submit(c) \/ Admit(c) \/ Leave(c)
     \/ Refuse(c, "rejected") /\ (place[c] = "out" \/ over[c])
     \/ \E why \in {"canceled", "shutdown"} : Refuse(c, why) \/ GiveUp(c, why)
  /\ UNCHANGED <<set, callVars>>

SlotGiven(c) ==
  /\ pc[c] = "submit" /\ set.scheduled
  /\ Start(c)
  /\ Goto(c, "inside")
  /\ early' = [early EXCEPT ![c] = over[c]]
  /\ UNCHANGED <<set, attempt, sent, reply, said, ran, runCanceled, ledgerVars,
                 tracked, outcome, produced, records>>

\* Mutant: a call that was not admitted is submitted again.
NotAdmitted_Again(c) ==
  /\ pc[c] = "submit" /\ set.scheduled
  /\ place[c] = "gone"
  /\ place' = [place EXCEPT ![c] = "out"]
  /\ answer' = [answer EXCEPT ![c] = "none"]
  /\ UNCHANGED <<over, shut, stopped, set, callVars>>

\* Submit returned and the work was not run: not retried.
NotAdmitted(c) ==
  /\ pc[c] = "submit" /\ set.scheduled
  /\ place[c] = "gone"
  /\ Fail(c, answer[c])
  /\ UNCHANGED <<gateVars, set, attemptVars, ledgerVars, tracked, produced>>

\* Mutant: the context is not looked at again inside the slot.
InsideContext_Unasked(c) ==
  /\ pc[c] = "inside"
  /\ Goto(c, "insideBudget")
  /\ UNCHANGED <<gateVars, set, attemptVars, ledgerVars, tracked, outcome, produced,
                 records>>

InsideContext(c) ==
  /\ pc[c] = "inside"
  /\ IF over[c]
     THEN Goto(c, "back") /\ reply' = [reply EXCEPT ![c] = "canceled"]
     ELSE Goto(c, "insideBudget") /\ UNCHANGED reply
  /\ UNCHANGED <<gateVars, set, attempt, sent, said, ran, runCanceled, early,
                 ledgerVars, tracked, outcome, produced, records>>

\* Mutant: the ledger is not asked again inside the slot.
InsideBudget_Unasked(c) ==
  /\ pc[c] = "insideBudget"
  /\ Goto(c, "sending")
  /\ UNCHANGED <<gateVars, set, attemptVars, ledgerVars, tracked, outcome, produced,
                 records>>

InsideBudget(c) ==
  /\ pc[c] = "insideBudget"
  /\ IF checkBudget
     THEN Goto(c, "back") /\ reply' = [reply EXCEPT ![c] = "budget"]
     ELSE Goto(c, "sending") /\ UNCHANGED reply
  /\ UNCHANGED <<gateVars, set, attempt, sent, said, ran, runCanceled, early,
                 ledgerVars, tracked, outcome, produced, records>>

Send(c) ==
  /\ pc[c] = "sending"
  /\ Goto(c, "sent")
  /\ ran' = [ran EXCEPT ![c] = TRUE]
  /\ sent' = [sent EXCEPT ![c] = @ + 1]
  /\ UNCHANGED <<gateVars, set, attempt, reply, said, runCanceled, early, ledgerVars,
                 tracked, outcome, produced, records>>

\* provider.Complete returns; whether the context it ran under was cancelled
\* is noted at once.
ProviderReturns(c) ==
  /\ pc[c] = "sent"
  /\ \E r \in ProviderReplies(c) :
       /\ reply' = [reply EXCEPT ![c] = r] /\ said' = [said EXCEPT ![c] = r]
       /\ produced' = [produced EXCEPT ![c] = IF Bought(r) THEN @ + 1 ELSE @]
  /\ runCanceled' = [runCanceled EXCEPT ![c] = over[c] \/ stopped[c]]
  /\ Goto(c, IF set.scheduled THEN "back" ELSE "judge")
  /\ UNCHANGED <<gateVars, set, attempt, sent, ran, early, ledgerVars, tracked,
                 outcome, records>>

\* Submit gives the slot back, then returns.
GiveBack(c) ==
  /\ pc[c] = "back"
  /\ Return(c) \/ Leave(c)
  /\ UNCHANGED <<set, callVars>>

\* Mutant: any error of work that was cancelled is called a shutdown.
stoppedByShutdown_AnyError(c) ==
  runCanceled[c] /\ shut /\ reply[c] \in Failures \cup {"canceled"}

\* Mutant: a cancellation is never traced to Close.
stoppedByShutdown_Never(c) == FALSE

stoppedByShutdown(c) == runCanceled[c] /\ shut /\ reply[c] = "canceled"

\* The rest of throughScheduler: whose cancellation it was.
Returned(c) ==
  /\ pc[c] = "back" /\ place[c] = "gone"
  /\ Goto(c, "judge")
  /\ reply' = [reply EXCEPT ![c] =
                 IF ran[c] /\ ~over[c] /\ stoppedByShutdown(c) THEN "shutdown" ELSE @]
  /\ place' = [place EXCEPT ![c] = "out"]
  /\ answer' = [answer EXCEPT ![c] = "none"]
  /\ stopped' = [stopped EXCEPT ![c] = FALSE]
  /\ UNCHANGED <<over, shut, set, attempt, sent, said, ran, runCanceled, early,
                 ledgerVars, tracked, outcome, produced, records>>

-----------------------------------------------------------------------------
\* A call whose last look at the ledger let it through and whose answer, if it
\* gets one, is not recorded yet.
UnderWay == {c \in Calls :
               \/ pc[c] \in {"sending", "sent"}
               \/ pc[c] \in {"back", "judge"} /\ ran[c]
               \/ pc[c] = "submit" /\ ~set.scheduled}

\* Mutant: only the answer that is accepted is recorded.
chargeBudget_Accepted(c, r) ==
  /\ spent' = IF r \in Accepted /\ Bought(r) THEN spent + cost(r) ELSE spent
  /\ unpriced' = IF r \in Accepted /\ Bought(r) /\ cost(r) = 0 THEN unpriced + 1 ELSE unpriced
  /\ charged' = [charged EXCEPT ![c] = IF r \in Accepted /\ Bought(r) THEN @ + 1 ELSE @]
  /\ UNCHANGED exposed

\* chargeBudget and ClientBudget.Record, for every answer that was produced.
chargeBudget(c, r) ==
  /\ spent' = IF Bought(r) THEN spent + cost(r) ELSE spent
  /\ unpriced' = IF Bought(r) /\ cost(r) = 0 THEN unpriced + 1 ELSE unpriced
  /\ charged' = [charged EXCEPT ![c] = IF Bought(r) THEN @ + 1 ELSE @]
  /\ exposed' = IF spent < set.ceiling /\ spent' >= set.ceiling
                THEN UnderWay ELSE exposed

Charge(c) ==
  /\ pc[c] = "judge" /\ reply[c] \in Answers
  /\ chargeBudget(c, reply[c])
  /\ Goto(c, "settle")
  /\ UNCHANGED <<gateVars, set, attemptVars, tracked, outcome, produced, records>>

\* The process-wide total: what was bought, by its price.
Track(c) == tracked' = IF Bought(reply[c]) THEN tracked + cost(reply[c]) ELSE tracked

\* Repeat the request or end it with this attempt's error.
Decide(c) ==
  IF attempt[c] = Attempts \/ ~isRetryable(reply[c])
  THEN Fail(c, reply[c])
  ELSE Goto(c, "wait") /\ UNCHANGED <<outcome, records>>

\* An answer is accepted, refused by the policy with no repeat, or refused as
\* an answer.
Settle(c) ==
  /\ pc[c] = "settle"
  /\ Track(c)
  /\ \/ /\ reply[c] \in Accepted
        /\ Goto(c, "done")
        /\ outcome' = [outcome EXCEPT ![c] = "ok"]
        /\ records' = [records EXCEPT ![c] = @ + 1]
     \/ reply[c] \in Forbidden /\ Fail(c, "policy")
     \/ reply[c] \in Refused /\ Decide(c)
  /\ UNCHANGED <<gateVars, set, attemptVars, ledgerVars, produced>>

\* An attempt that was not run ends the call whatever its error.
Failed(c) ==
  /\ pc[c] = "judge" /\ reply[c] \notin Answers \cup {"panic"}
  /\ IF ran[c] THEN Decide(c) ELSE Fail(c, reply[c])
  /\ UNCHANGED <<gateVars, set, attemptVars, ledgerVars, tracked, produced>>

\* A panic is not recovered: nothing is recorded and it goes on.
Panicked(c) ==
  /\ pc[c] = "judge" /\ reply[c] = "panic"
  /\ Goto(c, "done")
  /\ outcome' = [outcome EXCEPT ![c] = "panic"]
  /\ UNCHANGED <<gateVars, set, attemptVars, ledgerVars, tracked, produced, records>>

\* waitForRetry: the timer and the context may both be ready.
WaitOver(c) ==
  /\ pc[c] = "wait"
  /\ \/ /\ Goto(c, "again")
        /\ attempt' = [attempt EXCEPT ![c] = @ + 1]
        /\ ran' = [ran EXCEPT ![c] = FALSE]
        /\ reply' = [reply EXCEPT ![c] = "none"]
        /\ said' = [said EXCEPT ![c] = "none"]
        /\ runCanceled' = [runCanceled EXCEPT ![c] = FALSE]
        /\ early' = [early EXCEPT ![c] = over[c]]
        /\ UNCHANGED <<outcome, records>>
     \/ /\ over[c] /\ Fail(c, "canceled")
        /\ UNCHANGED <<attempt, ran, reply, said, runCanceled, early>>
  /\ UNCHANGED <<gateVars, set, sent, ledgerVars, tracked, produced>>

-----------------------------------------------------------------------------
CtxEnds(c) ==
  /\ pc[c] # "done" /\ End(c)
  /\ UNCHANGED <<set, callVars>>

CloseGate == set.scheduled /\ Shut /\ UNCHANGED <<set, callVars>>

\* Close reaches the work that was running when it was called.
CloseStops(c) ==
  /\ place[c] = "running" /\ ~stopped[c] /\ Stop(c)
  /\ UNCHANGED <<set, callVars>>

CallStep(c) ==
  \/ AgainContext(c) \/ AgainBudget(c)
  \/ RunDirect(c) \/ InGate(c) \/ SlotGiven(c) \/ NotAdmitted(c)
  \/ InsideContext(c) \/ InsideBudget(c) \/ Send(c)
  \/ GiveBack(c) \/ Returned(c)
  \/ Charge(c) \/ Settle(c) \/ Failed(c) \/ Panicked(c) \/ WaitOver(c)

Terminated == (\A c \in Calls : pc[c] = "done") /\ UNCHANGED vars

CallNext ==
  \/ \E c \in Calls :
       \/ Begin(c) \/ CallStep(c) \/ ProviderReturns(c)
       \/ CtxEnds(c) \/ CloseStops(c)
  \/ CloseGate
  \/ Terminated

\* A call that was begun goes on, the gate answers, timers fire, the provider
\* answers, and Close reaches what runs.
CallSpec ==
  /\ CallInit /\ [][CallNext]_vars
  /\ \A c \in Calls :
       /\ WF_vars(CallStep(c)) /\ WF_vars(ProviderReturns(c))
       /\ WF_vars(CloseStops(c))

-----------------------------------------------------------------------------
\* Every answer that was bought is recorded once, whether it was used, thrown
\* away before a repeat or refused by the policy; both ledgers agree when
\* nothing is between them; and a call that got past its first checks leaves
\* exactly one request record (llm_helper.go:1470-1487, 1391-1412).
PaidOnce ==
  /\ \A c \in Calls :
       /\ produced[c] = charged[c]
            + (IF pc[c] \in {"back", "judge"} /\ ran[c] /\ Bought(reply[c])
               THEN 1 ELSE 0)
       /\ records[c] <= 1 /\ (records[c] = 1 => pc[c] = "done")
       /\ pc[c] = "done" /\ sent[c] > 0 /\ outcome[c] # "panic" => records[c] = 1
  /\ (\A c \in Calls : pc[c] # "settle") => tracked = spent

\* "With N calls in flight when the ceiling is reached, the spend can end up
\* past it by what those N calls cost, and by no more than that"
\* (clientbudget.go:39-43).
CeilingKept ==
  set.ceiling > 0 => spent < set.ceiling + Cardinality(exposed)

\* The money of a client: every answer paid for once, and the ceiling passed by no more
\* than what the calls in flight when it was reached cost.
SpendKept == PaidOnce /\ CeilingKept

\* What ended a call is what it is told: its own context, Close, the ledger or
\* the provider, and never one for another (clientlimits.go:84-96, 364-374).
BlameRight ==
  \A c \in Calls :
    /\ outcome[c] = "canceled" => over[c]
    /\ outcome[c] = "shutdown" => shut
    /\ outcome[c] = "shutdown" => said[c] \in {"none", "canceled"}
    /\ pc[c] = "done" /\ said[c] = "permanent" => outcome[c] = "permanent"

\* A call whose context had ended when it was given its slot, or before it is
\* repeated, is not sent (clientlimits.go:39-43, llm_helper.go:530-536).
NotSentLate == \A c \in Calls : pc[c] = "sent" => ~early[c]

\* How a call ends: for the reason it is told, and without a request its context had
\* already forbidden.
EndsRight == BlameRight /\ NotSentLate

\* Every call returns once it has begun: a gate that closes, refuses or cannot
\* be entered does not keep it.
CallReturns == \A c \in Calls : pc[c] # "start" ~> pc[c] = "done"

\* "A caller who needs the second has to bound the number of calls in flight,
\* which is what the client's scheduler does" (clientbudget.go:43-46): with a
\* scheduler, the spend passes the ceiling by no more than what as many calls
\* as there are slots cost.
SlotsBoundOverrun ==
  (set.scheduled /\ Slots > 0 /\ set.ceiling > 0)
    => spent <= set.ceiling + Slots

-----------------------------------------------------------------------------
(***************************************************************************)
(* The inductive invariant behind SpendKept and EndsRight.                 *)
(***************************************************************************)
Replies == Answers \cup Failures \cup {"panic", "canceled"}

CallTypes ==
  /\ set \in Setting
  /\ place \in [Calls -> Places]
  /\ answer \in [Calls -> Refusals \cup {"none", "ran"}]
  /\ over \in [Calls -> BOOLEAN] /\ shut \in BOOLEAN
  /\ stopped \in [Calls -> BOOLEAN]
  /\ pc \in [Calls -> {"start", "again", "againBudget", "submit", "inside",
                       "insideBudget", "sending", "sent", "back", "judge", "settle",
                       "wait", "done"}]
  /\ attempt \in [Calls -> Nat] /\ sent \in [Calls -> Nat]
  /\ reply \in [Calls -> Replies \cup {"none", "shutdown", "budget"}]
  /\ said \in [Calls -> Replies \cup {"none"}]
  /\ ran \in [Calls -> BOOLEAN] /\ runCanceled \in [Calls -> BOOLEAN]
  /\ early \in [Calls -> BOOLEAN]
  /\ spent \in Nat /\ unpriced \in Nat /\ tracked \in Nat
  /\ outcome \in [Calls -> Replies \cup Refusals \cup {"none", "ran", "budget", "policy"}]
  /\ produced \in [Calls -> Nat] /\ charged \in [Calls -> Nat]
  /\ records \in [Calls -> Nat] /\ exposed \in SUBSET Calls

\* Close is a step of a client with a scheduler only, and the gate's answers are
\* true.
GateTrue ==
  /\ shut => set.scheduled
  /\ \A c \in Calls :
       /\ stopped[c] => shut
       /\ answer[c] = "canceled" => over[c]
       /\ answer[c] = "shutdown" => shut

\* What an attempt ended with, by where the call is: what the provider said, unless
\* it was not sent or its cancellation was Close's; and a call is told nothing before
\* its end.
AttemptTrue ==
  \A c \in Calls :
    /\ pc[c] \in {"start", "again", "againBudget", "submit", "inside", "insideBudget",
                  "sending"} => ~ran[c] /\ said[c] = "none"
    /\ pc[c] \in {"sent", "settle", "wait"} => ran[c]
    /\ pc[c] \in {"back", "judge"} /\ ~ran[c] =>
         /\ said[c] = "none" /\ reply[c] \in {"canceled", "budget"}
         /\ reply[c] = "canceled" => over[c]
    /\ pc[c] = "back" /\ ran[c] =>
         /\ reply[c] = said[c]
         /\ reply[c] = "canceled" => over[c] \/ (runCanceled[c] /\ shut)
    /\ pc[c] = "judge" /\ ran[c] =>
         /\ reply[c] = said[c] \/ (reply[c] = "shutdown" /\ said[c] = "canceled" /\ shut)
         /\ reply[c] = "canceled" => over[c]
    /\ pc[c] \in {"settle", "wait"} => reply[c] = said[c]
    /\ pc[c] = "settle" => reply[c] \in Answers
    /\ pc[c] = "wait" => isRetryable(reply[c])
    /\ pc[c] # "done" => outcome[c] = "none"

\* A context that had ended when the attempt was let through is seen before the
\* request is sent.
EarlySeen ==
  \A c \in Calls :
    /\ early[c] => over[c]
    /\ pc[c] \in {"start", "againBudget", "submit", "insideBudget", "sending", "sent"} =>
         ~early[c]

\* What was bought is recorded by the time the answer is settled, and the one request
\* record of a call is its last step.
BooksTrue ==
  \A c \in Calls :
    /\ produced[c] = charged[c]
         + (IF pc[c] \in {"back", "judge"} /\ ran[c] /\ Bought(reply[c]) THEN 1 ELSE 0)
    /\ pc[c] = "start" => sent[c] = 0
    /\ pc[c] # "done" => records[c] = 0
    /\ records[c] <= 1
    /\ pc[c] = "done" /\ sent[c] > 0 /\ outcome[c] # "panic" => records[c] = 1

\* The process-wide total is behind the ledger by what is being settled.
Settling == {c \in Calls : pc[c] = "settle" /\ Bought(reply[c]) /\ cost(reply[c]) = 1}
TotalBehind == spent = tracked + Cardinality(Settling)

\* Once the ceiling is reached nobody joins the calls under way, and each of them that
\* is recorded is one of those that were exposed.
ExposureInv ==
  set.ceiling > 0 /\ spent >= set.ceiling =>
    spent + Cardinality(UnderWay) < set.ceiling + Cardinality(exposed)

CallInv ==
  /\ CallTypes /\ GateTrue /\ AttemptTrue /\ EarlySeen /\ BooksTrue
  /\ TotalBehind /\ ExposureInv /\ BlameRight
=============================================================================

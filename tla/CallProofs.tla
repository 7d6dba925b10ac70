---------------------------- MODULE CallProofs ----------------------------
(***************************************************************************)
(* Proofs, for every set of calls, every client, every number of attempts  *)
(* and every ceiling, of what module Call promises of one request: the     *)
(* money (SpendKept) and the reason it ends for (EndsRight).  The parts of *)
(* CallInv are each inductive given the ones before them.                  *)
(***************************************************************************)
EXTENDS Call, TLAPS, FiniteSetTheorems

\* What an answer costs and whether it was bought.
LEMMA CostType == \A r : cost(r) \in {0, 1} /\ (Bought(r) => r \in Answers)
BY DEF cost, Bought

\* What a provider may return, whatever its client.
LEMMA RepliesType ==
  ASSUME CallTypes, NEW c \in Calls
  PROVE  ProviderReplies(c) \subseteq Replies
BY DEF CallTypes, Setting, ProviderReplies, Replies

-----------------------------------------------------------------------------
\* Every variable has its type, initially and after every step.
LEMMA InitTypes == CallInit => CallTypes
<1> SUFFICES ASSUME CallInit PROVE CallTypes
  OBVIOUS
<1>1. set \in Setting
  BY CallConstants DEF CallInit
<1>2. /\ over \in [Calls -> BOOLEAN] /\ shut \in BOOLEAN /\ stopped \in [Calls -> BOOLEAN]
      /\ ran \in [Calls -> BOOLEAN] /\ runCanceled \in [Calls -> BOOLEAN]
      /\ early \in [Calls -> BOOLEAN]
  BY DEF CallInit, GateInit
<1>3. /\ place \in [Calls -> Places]
      /\ answer \in [Calls -> Refusals \cup {"none", "ran"}]
  BY DEF CallInit, GateInit, Places
<1> QED  BY <1>1, <1>2, <1>3 DEF CallInit, CallTypes

\* Every step of a call, of Close and of the environment keeps every type.
LEMMA NextTypes == CallTypes /\ [CallNext]_vars => CallTypes'
<1> SUFFICES ASSUME CallTypes, [CallNext]_vars PROVE CallTypes'
  OBVIOUS
<1> USE DEF vars, gateVars, callVars, attemptVars, ledgerVars, Goto, Fail, CallTypes
<1>1. ASSUME NEW c \in Calls, Begin(c) PROVE CallTypes'
  BY <1>1 DEF Begin
<1>2. ASSUME NEW c \in Calls, AgainContext(c) \/ AgainBudget(c) PROVE CallTypes'
  BY <1>2 DEF AgainContext, AgainBudget, Refusals, Replies
<1>3. ASSUME NEW c \in Calls, RunDirect(c) \/ GiveBack(c) PROVE CallTypes'
  BY <1>3 DEF RunDirect, GiveBack, Return, Leave, Places
<1>4. ASSUME NEW c \in Calls, InGate(c) PROVE CallTypes'
  BY <1>4 DEF InGate, Submit, Admit, Leave, Refuse, GiveUp, Places, Refusals
<1>5. ASSUME NEW c \in Calls, SlotGiven(c) PROVE CallTypes'
  BY <1>5 DEF SlotGiven, Start, Places
<1>6. ASSUME NEW c \in Calls, NotAdmitted(c) PROVE CallTypes'
  <2>1. answer[c] \in Replies \cup Refusals \cup {"none", "ran", "budget", "policy"}
    OBVIOUS
  <2> QED  BY <1>6, <2>1 DEF NotAdmitted
<1>7. ASSUME NEW c \in Calls, InsideContext(c) \/ InsideBudget(c) \/ Send(c) PROVE CallTypes'
  <2>1. CASE InsideContext(c)
    BY <2>1 DEF InsideContext, Replies
  <2>2. CASE InsideBudget(c)
    BY <2>2 DEF InsideBudget
  <2>3. CASE Send(c)
    BY <2>3 DEF Send
  <2> QED  BY <1>7, <2>1, <2>2, <2>3
<1>8. ASSUME NEW c \in Calls, Returned(c) PROVE CallTypes'
  BY <1>8 DEF Returned, Places
<1>9. ASSUME NEW c \in Calls, Charge(c) PROVE CallTypes'
  <2>1. exposed' \in SUBSET Calls
    BY <1>9 DEF Charge, chargeBudget, UnderWay
  <2> QED  BY <1>9, <2>1, CostType DEF Charge, chargeBudget
<1>10. ASSUME NEW c \in Calls, Settle(c) PROVE CallTypes'
  <2>1. tracked' \in Nat
    BY <1>10, CostType DEF Settle, Track
  <2>2. /\ "ok" \in Replies /\ "policy" \in Replies \cup {"policy"}
        /\ reply[c] \in Answers => reply[c] \in Replies
        /\ Refused \subseteq Answers
    BY DEF Replies, Answers, Accepted, Forbidden, Refused
  <2>3. /\ outcome' \in [Calls -> Replies \cup Refusals
                                   \cup {"none", "ran", "budget", "policy"}]
        /\ records' \in [Calls -> Nat]
    BY <1>10, <2>2 DEF Settle, Decide
  <2>4. pc' \in [Calls -> {"start", "again", "againBudget", "submit", "inside",
                       "insideBudget", "sending", "sent", "back", "judge", "settle",
                       "wait", "done"}]
    BY <1>10 DEF Settle, Decide
  <2> QED  BY <1>10, <2>1, <2>3, <2>4 DEF Settle
<1>11. ASSUME NEW c \in Calls, Failed(c) \/ Panicked(c) PROVE CallTypes'
  BY <1>11 DEF Failed, Panicked, Decide, Replies, Refusals
<1>12. ASSUME NEW c \in Calls, WaitOver(c) PROVE CallTypes'
  <2>1. CASE ~Fail(c, "canceled")
    <3>1. attempt' \in [Calls -> Nat]
      BY <1>12, <2>1 DEF WaitOver
    <3>2. /\ early' = [early EXCEPT ![c] = over[c]] /\ ran' = [ran EXCEPT ![c] = FALSE]
          /\ runCanceled' = [runCanceled EXCEPT ![c] = FALSE]
      BY <1>12, <2>1 DEF WaitOver
    <3>3. /\ early' \in [Calls -> BOOLEAN] /\ ran' \in [Calls -> BOOLEAN]
          /\ runCanceled' \in [Calls -> BOOLEAN]
      BY <3>2
    <3>4. /\ reply' \in [Calls -> Replies \cup {"none", "shutdown", "budget"}]
          /\ said' \in [Calls -> Replies \cup {"none"}]
      BY <1>12, <2>1 DEF WaitOver
    <3>5. UNCHANGED <<gateVars, set, sent, ledgerVars, tracked, produced, outcome, records>>
      BY <1>12, <2>1 DEF WaitOver
    <3>6. pc' = [pc EXCEPT ![c] = "again"]
      BY <1>12, <2>1 DEF WaitOver
    <3> QED  BY <3>1, <3>3, <3>4, <3>5, <3>6
  <2>2. CASE Fail(c, "canceled")
    BY <1>12, <2>2 DEF WaitOver, Replies
  <2> QED  BY <1>12, <2>1, <2>2 DEF WaitOver
<1>13. ASSUME NEW c \in Calls, ProviderReturns(c) PROVE CallTypes'
  BY <1>13, RepliesType DEF ProviderReturns
<1>14. ASSUME NEW c \in Calls, CtxEnds(c) \/ CloseStops(c) PROVE CallTypes'
  <2>1. over' \in [Calls -> BOOLEAN] /\ stopped' \in [Calls -> BOOLEAN]
    BY <1>14 DEF CtxEnds, End, CloseStops, Stop
  <2> QED  BY <1>14, <2>1 DEF CtxEnds, End, CloseStops, Stop
<1>15. CASE CloseGate
  BY <1>15 DEF CloseGate, Shut
<1>16. CASE UNCHANGED vars
  BY <1>16
<1> QED
  BY <1>1, <1>2, <1>3, <1>4, <1>5, <1>6, <1>7, <1>8, <1>9, <1>10, <1>11, <1>12, <1>13,
     <1>14, <1>15, <1>16
  DEF CallNext, CallStep, Terminated

-----------------------------------------------------------------------------
\* Steps that leave the gate as it is.
QuietStep(c) ==
  \/ Begin(c) \/ AgainContext(c) \/ AgainBudget(c) \/ RunDirect(c) \/ NotAdmitted(c)
  \/ InsideContext(c) \/ InsideBudget(c) \/ Send(c) \/ Charge(c) \/ Settle(c) \/ Failed(c)
  \/ Panicked(c) \/ WaitOver(c) \/ ProviderReturns(c)

\* They leave the gate as it is, whatever they do to the call.
LEMMA QuietGate == \A c \in Calls : QuietStep(c) => UNCHANGED <<gateVars, set>>
BY DEF QuietStep, Begin, AgainContext, AgainBudget, RunDirect, NotAdmitted, InsideContext,
       InsideBudget, Send, Charge, Settle, Failed, Panicked, WaitOver, ProviderReturns

\* What the gate has told is true, and stays true.
LEMMA InitGateTrue == CallInit => GateTrue
BY DEF CallInit, GateInit, GateTrue

\* Every step keeps the gate's answers true: contexts and Close do not come back.
LEMMA NextGateTrue == CallTypes /\ GateTrue /\ [CallNext]_vars => GateTrue'
<1> SUFFICES ASSUME CallTypes, GateTrue, [CallNext]_vars PROVE GateTrue'
  OBVIOUS
<1> USE DEF gateVars, GateTrue
<1>0. /\ answer \in [Calls -> Refusals \cup {"none", "ran"}]
      /\ over \in [Calls -> BOOLEAN] /\ stopped \in [Calls -> BOOLEAN]
  BY DEF CallTypes
<1>1. ASSUME NEW c \in Calls, QuietStep(c) PROVE GateTrue'
  BY <1>1, QuietGate
<1>2. ASSUME NEW c \in Calls, InGate(c) PROVE GateTrue'
  BY <1>0, <1>2 DEF InGate, Submit, Admit, Leave, Refuse, GiveUp, Truthful
<1>3. ASSUME NEW c \in Calls, SlotGiven(c) \/ GiveBack(c) PROVE GateTrue'
  BY <1>0, <1>3 DEF SlotGiven, Start, GiveBack, Return, Leave
<1>4. ASSUME NEW c \in Calls, Returned(c) PROVE GateTrue'
  BY <1>0, <1>4 DEF Returned
<1>5. ASSUME NEW c \in Calls, CtxEnds(c) \/ CloseStops(c) PROVE GateTrue'
  BY <1>0, <1>5 DEF CtxEnds, End, CloseStops, Stop
<1>6. CASE CloseGate
  BY <1>6 DEF CloseGate, Shut
<1>7. CASE UNCHANGED vars
  BY <1>7 DEF vars
<1> QED
  BY <1>1, <1>2, <1>3, <1>4, <1>5, <1>6, <1>7 DEF CallNext, CallStep, Terminated, QuietStep

-----------------------------------------------------------------------------
\* What each attempt ended with is what happened to it.
LEMMA InitAttemptTrue == CallInit => AttemptTrue
BY DEF CallInit, AttemptTrue

\* Every step keeps what an attempt ended with right, through the slot given back, the
\* judgement of whose cancellation it was, and the repeat.
LEMMA NextAttemptTrue ==
  CallTypes /\ GateTrue /\ AttemptTrue /\ [CallNext]_vars => AttemptTrue'
<1> SUFFICES ASSUME CallTypes, GateTrue, AttemptTrue, [CallNext]_vars PROVE AttemptTrue'
  OBVIOUS
<1> USE DEF gateVars, callVars, attemptVars, Goto, Fail, AttemptTrue, CallTypes
<1>1. ASSUME NEW c \in Calls, Begin(c) \/ AgainContext(c) \/ AgainBudget(c) PROVE AttemptTrue'
  BY <1>1 DEF Begin, AgainContext, AgainBudget
<1>2. ASSUME NEW c \in Calls, RunDirect(c) \/ NotAdmitted(c) \/ Panicked(c) PROVE AttemptTrue'
  BY <1>2 DEF RunDirect, NotAdmitted, Panicked
<1>3. ASSUME NEW c \in Calls, InGate(c) PROVE AttemptTrue'
  BY <1>3 DEF InGate, Submit, Admit, Leave, Refuse, GiveUp
<1>4. ASSUME NEW c \in Calls, SlotGiven(c) \/ GiveBack(c) PROVE AttemptTrue'
  BY <1>4 DEF SlotGiven, Start, GiveBack, Return, Leave
<1>5. ASSUME NEW c \in Calls, InsideContext(c) PROVE AttemptTrue'
  BY <1>5 DEF InsideContext
<1>6. ASSUME NEW c \in Calls, InsideBudget(c) PROVE AttemptTrue'
  BY <1>6 DEF InsideBudget
<1>7. ASSUME NEW c \in Calls, Send(c) PROVE AttemptTrue'
  BY <1>7 DEF Send
<1>8. ASSUME NEW c \in Calls, Returned(c) PROVE AttemptTrue'
  BY <1>8 DEF Returned, stoppedByShutdown
<1>9. ASSUME NEW c \in Calls, Charge(c) PROVE AttemptTrue'
  BY <1>9 DEF Charge, Answers, Accepted, Forbidden, Refused
<1>10. ASSUME NEW c \in Calls, Settle(c) PROVE AttemptTrue'
  BY <1>10 DEF Settle, Decide, isRetryable
<1>11. ASSUME NEW c \in Calls, Failed(c) PROVE AttemptTrue'
  BY <1>11 DEF Failed, Decide, isRetryable
<1>12. ASSUME NEW c \in Calls, WaitOver(c) PROVE AttemptTrue'
  BY <1>12 DEF WaitOver
<1>13. ASSUME NEW c \in Calls, ProviderReturns(c) PROVE AttemptTrue'
  <2>1. ~set.scheduled => ~stopped[c]
    BY DEF GateTrue
  <2>2. PICK r \in ProviderReplies(c) : reply' = [reply EXCEPT ![c] = r]
                                        /\ said' = [said EXCEPT ![c] = r]
    BY <1>13 DEF ProviderReturns
  <2>3. r = "canceled" => over[c] \/ stopped[c]
    BY DEF ProviderReplies, Setting, Answers, Accepted, Forbidden, Refused, Failures
  <2> QED  BY <1>13, <2>1, <2>2, <2>3 DEF ProviderReturns, GateTrue
<1>14. ASSUME NEW c \in Calls, CtxEnds(c) \/ CloseStops(c) PROVE AttemptTrue'
  BY <1>14 DEF CtxEnds, End, CloseStops, Stop
<1>15. CASE CloseGate
  BY <1>15 DEF CloseGate, Shut
<1>16. CASE UNCHANGED vars
  BY <1>16 DEF vars
<1> QED
  BY <1>1, <1>2, <1>3, <1>4, <1>5, <1>6, <1>7, <1>8, <1>9, <1>10, <1>11, <1>12, <1>13,
     <1>14, <1>15, <1>16
  DEF CallNext, CallStep, Terminated

-----------------------------------------------------------------------------
\* A context that had ended is seen before the request is sent.
LEMMA InitEarlySeen == CallInit => EarlySeen
BY DEF CallInit, GateInit, EarlySeen

\* Every step keeps it so: each look at the context comes after it was noted.
LEMMA NextEarlySeen ==
  CallTypes /\ EarlySeen /\ [CallNext]_vars => EarlySeen'
<1> SUFFICES ASSUME CallTypes, EarlySeen, [CallNext]_vars PROVE EarlySeen'
  OBVIOUS
<1> USE DEF gateVars, callVars, attemptVars, Goto, Fail, EarlySeen, CallTypes
<1>1. ASSUME NEW c \in Calls, Begin(c) \/ AgainContext(c) \/ AgainBudget(c)
      PROVE  EarlySeen'
  BY <1>1 DEF Begin, AgainContext, AgainBudget
<1>2. ASSUME NEW c \in Calls, RunDirect(c) \/ NotAdmitted(c) \/ Panicked(c)
      PROVE  EarlySeen'
  BY <1>2 DEF RunDirect, NotAdmitted, Panicked
<1>3. ASSUME NEW c \in Calls, InGate(c) PROVE EarlySeen'
  BY <1>3 DEF InGate, Submit, Admit, Leave, Refuse, GiveUp
<1>4. ASSUME NEW c \in Calls, SlotGiven(c) \/ GiveBack(c) PROVE EarlySeen'
  BY <1>4 DEF SlotGiven, Start, GiveBack, Return, Leave
<1>5. ASSUME NEW c \in Calls, InsideContext(c) \/ InsideBudget(c) PROVE EarlySeen'
  BY <1>5 DEF InsideContext, InsideBudget
<1>6. ASSUME NEW c \in Calls, Send(c) PROVE EarlySeen'
  BY <1>6 DEF Send
<1>7. ASSUME NEW c \in Calls, Returned(c) PROVE EarlySeen'
  BY <1>7 DEF Returned
<1>8. ASSUME NEW c \in Calls, Charge(c) PROVE EarlySeen'
  BY <1>8 DEF Charge, chargeBudget
<1>9. ASSUME NEW c \in Calls, Settle(c) PROVE EarlySeen'
  BY <1>9 DEF Settle, Decide
<1>10. ASSUME NEW c \in Calls, Failed(c) PROVE EarlySeen'
  BY <1>10 DEF Failed, Decide
<1>11. ASSUME NEW c \in Calls, WaitOver(c) PROVE EarlySeen'
  BY <1>11 DEF WaitOver
<1>12. ASSUME NEW c \in Calls, ProviderReturns(c) PROVE EarlySeen'
  BY <1>12 DEF ProviderReturns
<1>13. ASSUME NEW c \in Calls, CtxEnds(c) \/ CloseStops(c) PROVE EarlySeen'
  BY <1>13 DEF CtxEnds, End, CloseStops, Stop
<1>14. CASE CloseGate
  BY <1>14 DEF CloseGate, Shut
<1>15. CASE UNCHANGED vars
  BY <1>15 DEF vars
<1> QED
  BY <1>1, <1>2, <1>3, <1>4, <1>5, <1>6, <1>7, <1>8, <1>9, <1>10, <1>11, <1>12, <1>13,
     <1>14, <1>15
  DEF CallNext, CallStep, Terminated

-----------------------------------------------------------------------------
\* Every answer bought is recorded once, and every call leaves one request record.
LEMMA InitBooksTrue == CallInit => BooksTrue
BY DEF CallInit, GateInit, BooksTrue, Bought

\* Every step keeps the books: an answer is recorded where it is judged.
LEMMA NextBooksTrue ==
  CallTypes /\ AttemptTrue /\ BooksTrue /\ [CallNext]_vars => BooksTrue'
<1> SUFFICES ASSUME CallTypes, AttemptTrue, BooksTrue, [CallNext]_vars PROVE BooksTrue'
  OBVIOUS
<1> USE DEF gateVars, callVars, attemptVars, ledgerVars, Goto, Fail, BooksTrue, CallTypes, Bought
<1>1. ASSUME NEW c \in Calls, Begin(c) \/ AgainContext(c) \/ AgainBudget(c)
      PROVE  BooksTrue'
  BY <1>1 DEF Begin, AgainContext, AgainBudget, AttemptTrue
<1>2. ASSUME NEW c \in Calls, RunDirect(c) \/ NotAdmitted(c) \/ Panicked(c)
      PROVE  BooksTrue'
  BY <1>2 DEF RunDirect, NotAdmitted, Panicked, AttemptTrue, Answers, Accepted,
              Forbidden, Refused
<1>3. ASSUME NEW c \in Calls, InGate(c) PROVE BooksTrue'
  BY <1>3 DEF InGate, Submit, Admit, Leave, Refuse, GiveUp
<1>4. ASSUME NEW c \in Calls, SlotGiven(c) \/ GiveBack(c) PROVE BooksTrue'
  BY <1>4 DEF SlotGiven, Start, GiveBack, Return, Leave
<1>5. ASSUME NEW c \in Calls, InsideContext(c) \/ InsideBudget(c) PROVE BooksTrue'
  BY <1>5 DEF InsideContext, InsideBudget, AttemptTrue
<1>6. ASSUME NEW c \in Calls, Send(c) PROVE BooksTrue'
  BY <1>6 DEF Send, AttemptTrue
<1>7. ASSUME NEW c \in Calls, Returned(c) PROVE BooksTrue'
  BY <1>7 DEF Returned, stoppedByShutdown, Answers, Accepted, Forbidden, Refused
<1>8. ASSUME NEW c \in Calls, Charge(c) PROVE BooksTrue'
  <2>1. pc[c] = "judge" /\ reply[c] \in Answers /\ ran[c]
    BY <1>8 DEF Charge, AttemptTrue, Answers, Accepted, Forbidden, Refused
  <2>2. /\ charged' = [charged EXCEPT ![c] = IF Bought(reply[c]) THEN @ + 1 ELSE @]
        /\ pc' = [pc EXCEPT ![c] = "settle"]
        /\ UNCHANGED <<ran, reply, sent, produced, records, outcome>>
    BY <1>8 DEF Charge, chargeBudget
  <2> HIDE DEF Bought
  <2> QED  BY <2>1, <2>2
<1>9. ASSUME NEW c \in Calls, Settle(c) PROVE BooksTrue'
  BY <1>9 DEF Settle, Decide
<1>10. ASSUME NEW c \in Calls, Failed(c) PROVE BooksTrue'
  BY <1>10 DEF Failed, Decide, AttemptTrue
<1>11. ASSUME NEW c \in Calls, WaitOver(c) PROVE BooksTrue'
  BY <1>11 DEF WaitOver
<1>12. ASSUME NEW c \in Calls, ProviderReturns(c) PROVE BooksTrue'
  BY <1>12, RepliesType DEF ProviderReturns, AttemptTrue
<1>13. ASSUME NEW c \in Calls, CtxEnds(c) \/ CloseStops(c) PROVE BooksTrue'
  BY <1>13 DEF CtxEnds, End, CloseStops, Stop
<1>14. CASE CloseGate
  BY <1>14 DEF CloseGate, Shut
<1>15. CASE UNCHANGED vars
  BY <1>15 DEF vars
<1> QED
  BY <1>1, <1>2, <1>3, <1>4, <1>5, <1>6, <1>7, <1>8, <1>9, <1>10, <1>11, <1>12, <1>13,
     <1>14, <1>15
  DEF CallNext, CallStep, Terminated

-----------------------------------------------------------------------------
\* What a call is told of its end is what ended it.
LEMMA InitBlameRight == CallInit => BlameRight
BY DEF CallInit, GateInit, BlameRight

\* Every step keeps the blame right.
LEMMA NextBlameRight ==
  CallTypes /\ GateTrue /\ AttemptTrue /\ BlameRight /\ [CallNext]_vars => BlameRight'
<1> SUFFICES ASSUME CallTypes, GateTrue, AttemptTrue, BlameRight, [CallNext]_vars PROVE BlameRight'
  OBVIOUS
<1> USE DEF gateVars, callVars, attemptVars, Goto, Fail, BlameRight, CallTypes
<1>1. ASSUME NEW c \in Calls, Begin(c) \/ AgainContext(c) \/ AgainBudget(c)
      PROVE  BlameRight'
  BY <1>1 DEF Begin, AgainContext, AgainBudget, AttemptTrue
<1>2. ASSUME NEW c \in Calls, RunDirect(c) \/ NotAdmitted(c) \/ Panicked(c)
      PROVE  BlameRight'
  BY <1>2 DEF RunDirect, NotAdmitted, Panicked, GateTrue, AttemptTrue
<1>3. ASSUME NEW c \in Calls, InGate(c) PROVE BlameRight'
  BY <1>3 DEF InGate, Submit, Admit, Leave, Refuse, GiveUp
<1>4. ASSUME NEW c \in Calls, SlotGiven(c) \/ GiveBack(c) PROVE BlameRight'
  BY <1>4 DEF SlotGiven, Start, GiveBack, Return, Leave
<1>5. ASSUME NEW c \in Calls, InsideContext(c) \/ InsideBudget(c) PROVE BlameRight'
  BY <1>5 DEF InsideContext, InsideBudget
<1>6. ASSUME NEW c \in Calls, Send(c) PROVE BlameRight'
  BY <1>6 DEF Send
<1>7. ASSUME NEW c \in Calls, Returned(c) PROVE BlameRight'
  BY <1>7 DEF Returned
<1>8. ASSUME NEW c \in Calls, Charge(c) PROVE BlameRight'
  BY <1>8 DEF Charge, chargeBudget
<1>9. ASSUME NEW c \in Calls, Settle(c) PROVE BlameRight'
  BY <1>9 DEF Settle, Decide, AttemptTrue, Answers, Accepted, Forbidden, Refused
<1>10. ASSUME NEW c \in Calls, Failed(c) PROVE BlameRight'
  <2>1. /\ pc[c] = "judge" /\ UNCHANGED <<over, shut, said>>
        /\ \/ Fail(c, reply[c])
           \/ ran[c] /\ isRetryable(reply[c]) /\ Goto(c, "wait") /\ UNCHANGED outcome
    BY <1>10 DEF Failed, Decide
  <2>2. /\ reply[c] = "canceled" => over[c]
        /\ reply[c] = "shutdown" => shut /\ said[c] = "canceled"
        /\ said[c] = "permanent" => reply[c] = "permanent"
    BY <2>1 DEF AttemptTrue, Replies, Answers, Accepted, Forbidden, Refused, Failures
  <2>3. CASE Fail(c, reply[c])
    BY <2>1, <2>2, <2>3
  <2>4. CASE isRetryable(reply[c]) /\ Goto(c, "wait") /\ UNCHANGED outcome
    BY <2>1, <2>4
  <2> QED  BY <2>1, <2>3, <2>4
<1>11. ASSUME NEW c \in Calls, WaitOver(c) PROVE BlameRight'
  BY <1>11 DEF WaitOver, AttemptTrue, isRetryable
<1>12. ASSUME NEW c \in Calls, ProviderReturns(c) PROVE BlameRight'
  BY <1>12 DEF ProviderReturns, AttemptTrue
<1>13. ASSUME NEW c \in Calls, CtxEnds(c) \/ CloseStops(c) PROVE BlameRight'
  BY <1>13 DEF CtxEnds, End, CloseStops, Stop
<1>14. CASE CloseGate
  BY <1>14 DEF CloseGate, Shut
<1>15. CASE UNCHANGED vars
  BY <1>15 DEF vars
<1> QED
  BY <1>1, <1>2, <1>3, <1>4, <1>5, <1>6, <1>7, <1>8, <1>9, <1>10, <1>11, <1>12, <1>13,
     <1>14, <1>15
  DEF CallNext, CallStep, Terminated

-----------------------------------------------------------------------------
\* Steps that record nothing and settle nothing.
LEMMA SettlingSame ==
  ASSUME CallTypes, AttemptTrue, [CallNext]_vars,
         \A c \in Calls : ~Charge(c) /\ ~Settle(c)
  PROVE  UNCHANGED <<spent, tracked, exposed, set, Settling>>
<1> USE DEF callVars, attemptVars, ledgerVars, Goto, Fail, CallTypes
<1>1. ASSUME UNCHANGED <<spent, tracked, exposed, set>>, NEW c \in Calls,
             pc[c] # "settle", pc'[c] # "settle",
             \A d \in Calls \ {c} : pc'[d] = pc[d] /\ reply'[d] = reply[d]
      PROVE  UNCHANGED <<spent, tracked, exposed, set, Settling>>
  BY <1>1 DEF Settling, Bought, cost
<1>2. ASSUME UNCHANGED <<spent, tracked, exposed, set, pc, reply>>
      PROVE  UNCHANGED <<spent, tracked, exposed, set, Settling>>
  BY <1>2 DEF Settling, Bought, cost
<1>3. ASSUME NEW c \in Calls,
             \/ Begin(c) \/ AgainContext(c) \/ AgainBudget(c) \/ RunDirect(c)
             \/ NotAdmitted(c) \/ Panicked(c) \/ SlotGiven(c) \/ InsideContext(c)
             \/ InsideBudget(c) \/ Send(c)
      PROVE  UNCHANGED <<spent, tracked, exposed, set, Settling>>
  BY <1>1, <1>3
  DEF Begin, AgainContext, AgainBudget, RunDirect, NotAdmitted, Panicked, SlotGiven,
      InsideContext, InsideBudget, Send
<1>4. ASSUME NEW c \in Calls, Failed(c) \/ WaitOver(c)
      PROVE  UNCHANGED <<spent, tracked, exposed, set, Settling>>
  BY <1>1, <1>4 DEF Failed, Decide, WaitOver
<1>5. ASSUME NEW c \in Calls, Returned(c) \/ ProviderReturns(c)
      PROVE  UNCHANGED <<spent, tracked, exposed, set, Settling>>
  BY <1>1, <1>5 DEF Returned, ProviderReturns
<1>6. ASSUME NEW c \in Calls, InGate(c) \/ GiveBack(c) \/ CtxEnds(c) \/ CloseStops(c)
      PROVE  UNCHANGED <<spent, tracked, exposed, set, Settling>>
  BY <1>2, <1>6 DEF InGate, GiveBack, CtxEnds, CloseStops
<1>7. CASE CloseGate \/ UNCHANGED vars
  BY <1>2, <1>7 DEF CloseGate, vars
<1> QED
  BY <1>3, <1>4, <1>5, <1>6, <1>7 DEF CallNext, CallStep, Terminated

\* The calls counted below are finitely many.
LEMMA FiniteParts ==
  ASSUME CallTypes
  PROVE  IsFiniteSet(Settling) /\ IsFiniteSet(UnderWay) /\ IsFiniteSet(exposed)
<1>1. Settling \subseteq Calls /\ UnderWay \subseteq Calls /\ exposed \subseteq Calls
  BY DEF Settling, UnderWay, CallTypes
<1> QED  BY <1>1, CallConstants, FS_Subset

\* The process-wide total is behind the ledger by what is being settled.
LEMMA InitTotalBehind == CallInit => TotalBehind
<1> SUFFICES ASSUME CallInit PROVE TotalBehind
  OBVIOUS
<1>1. Settling = {}
  BY DEF CallInit, Settling
<1> QED  BY <1>1, FS_EmptySet DEF CallInit, TotalBehind

\* Recording adds to both sides, settling moves one from one to the other.
LEMMA NextTotalBehind ==
  CallTypes /\ AttemptTrue /\ TotalBehind /\ [CallNext]_vars => TotalBehind'
<1> SUFFICES ASSUME CallTypes, AttemptTrue, TotalBehind, [CallNext]_vars PROVE TotalBehind'
  OBVIOUS
<1>0. /\ spent \in Nat /\ tracked \in Nat /\ IsFiniteSet(Settling)
      /\ Cardinality(Settling) \in Nat
      /\ pc \in [Calls -> {"start", "again", "againBudget", "submit", "inside",
                       "insideBudget", "sending", "sent", "back", "judge", "settle",
                       "wait", "done"}]
  BY FiniteParts, FS_CardinalityType DEF CallTypes
<1>1. ASSUME NEW c \in Calls, Charge(c) PROVE TotalBehind'
  <2>1. /\ pc[c] = "judge" /\ pc' = [pc EXCEPT ![c] = "settle"]
        /\ UNCHANGED <<reply, set, tracked>>
        /\ spent' = IF Bought(reply[c]) THEN spent + cost(reply[c]) ELSE spent
    BY <1>1 DEF Charge, chargeBudget, Goto, attemptVars
  <2>2. CASE Bought(reply[c]) /\ cost(reply[c]) = 1
    <3>1. Settling' = Settling \cup {c} /\ c \notin Settling
      BY <1>0, <2>1, <2>2 DEF Settling, Bought, cost
    <3>2. Cardinality(Settling') = Cardinality(Settling) + 1
      BY <1>0, <3>1, FS_AddElement
    <3> QED  BY <1>0, <2>1, <2>2, <3>2 DEF TotalBehind
  <2>3. CASE ~(Bought(reply[c]) /\ cost(reply[c]) = 1)
    <3>1. Settling' = Settling
      BY <1>0, <2>1, <2>3 DEF Settling, Bought, cost
    <3>2. spent' = spent
      BY <1>0, <2>1, <2>3, CostType
    <3> QED  BY <2>1, <3>1, <3>2 DEF TotalBehind
  <2> QED  BY <2>2, <2>3
<1>2. ASSUME NEW c \in Calls, Settle(c) PROVE TotalBehind'
  <2>1. /\ pc[c] = "settle" /\ UNCHANGED <<reply, set, spent>>
        /\ pc' = [pc EXCEPT ![c] = "done"] \/ pc' = [pc EXCEPT ![c] = "wait"]
        /\ tracked' = IF Bought(reply[c]) THEN tracked + cost(reply[c]) ELSE tracked
    BY <1>2 DEF Settle, Track, Decide, Goto, Fail, attemptVars, ledgerVars
  <2>2. Settling' = Settling \ {c}
    BY <1>0, <2>1 DEF Settling, Bought, cost
  <2>3. CASE Bought(reply[c]) /\ cost(reply[c]) = 1
    <3>1. c \in Settling
      BY <2>1, <2>3 DEF Settling
    <3>2. Cardinality(Settling') = Cardinality(Settling) - 1
      BY <1>0, <2>2, <3>1, FS_RemoveElement
    <3> QED  BY <1>0, <2>1, <2>3, <3>2 DEF TotalBehind
  <2>4. CASE ~(Bought(reply[c]) /\ cost(reply[c]) = 1)
    <3>1. Settling' = Settling
      BY <2>2, <2>4 DEF Settling
    <3>2. tracked' = tracked
      BY <1>0, <2>1, <2>4, CostType
    <3> QED  BY <2>1, <3>1, <3>2 DEF TotalBehind
  <2> QED  BY <2>3, <2>4
<1>3. CASE \A c \in Calls : ~Charge(c) /\ ~Settle(c)
  BY <1>3, SettlingSame DEF TotalBehind
<1> QED  BY <1>1, <1>2, <1>3

-----------------------------------------------------------------------------
\* At the ceiling nobody joins the calls under way.
LEMMA NoNewcomers ==
  ASSUME CallTypes, AttemptTrue, [CallNext]_vars, Check
  PROVE  UnderWay' \subseteq UnderWay
<1> USE DEF callVars, attemptVars, Goto, Fail, CallTypes
<1>1. ASSUME UNCHANGED set, NEW c \in Calls,
             c \in UnderWay \/ c \notin UnderWay',
             \A d \in Calls \ {c} : pc'[d] = pc[d] /\ ran'[d] = ran[d]
      PROVE  UnderWay' \subseteq UnderWay
  BY <1>1 DEF UnderWay
<1>2. ASSUME UNCHANGED <<set, pc, ran>> PROVE UnderWay' \subseteq UnderWay
  BY <1>2 DEF UnderWay
\* The looks at the ledger refuse.
<1>3. ASSUME NEW c \in Calls, Begin(c) \/ AgainBudget(c) \/ InsideBudget(c)
      PROVE  UnderWay' \subseteq UnderWay
  <2>1. checkBudget /\ checkBudgetFor
    BY DEF checkBudget, checkBudgetFor
  <2>2. /\ pc' = [pc EXCEPT ![c] = "done"] \/ pc' = [pc EXCEPT ![c] = "back"]
        /\ UNCHANGED <<set, ran>> /\ ~ran[c]
    BY <1>3, <2>1 DEF Begin, AgainBudget, InsideBudget, AttemptTrue
  <2>3. c \notin UnderWay'
    BY <2>2 DEF UnderWay
  <2> QED  BY <1>1, <2>2, <2>3
<1>4. ASSUME NEW c \in Calls,
             \/ AgainContext(c) \/ NotAdmitted(c) \/ Panicked(c) \/ SlotGiven(c)
             \/ InsideContext(c) \/ WaitOver(c) \/ Charge(c)
      PROVE  UnderWay' \subseteq UnderWay
  <2>1. /\ UNCHANGED set /\ \A d \in Calls \ {c} : pc'[d] = pc[d] /\ ran'[d] = ran[d]
        /\ \/ pc'[c] \in {"done", "againBudget", "inside", "insideBudget", "again", "settle"}
           \/ pc'[c] = "back" /\ ~ran'[c]
    BY <1>4
    DEF AgainContext, NotAdmitted, Panicked, SlotGiven, InsideContext, WaitOver, Charge,
        AttemptTrue
  <2> QED  BY <1>1, <2>1 DEF UnderWay
<1>5. ASSUME NEW c \in Calls, Settle(c) \/ Failed(c) PROVE UnderWay' \subseteq UnderWay
  <2>1. /\ UNCHANGED set /\ \A d \in Calls \ {c} : pc'[d] = pc[d] /\ ran'[d] = ran[d]
        /\ pc'[c] \in {"done", "wait"}
    BY <1>5 DEF Settle, Failed, Decide
  <2> QED  BY <1>1, <2>1 DEF UnderWay
\* The steps of a call that is under way.
<1>6. ASSUME NEW c \in Calls, RunDirect(c) \/ Send(c) \/ ProviderReturns(c)
      PROVE  UnderWay' \subseteq UnderWay
  <2>1. c \in UnderWay
    BY <1>6 DEF RunDirect, Send, ProviderReturns, UnderWay
  <2> QED  BY <1>1, <1>6, <2>1 DEF RunDirect, Send, ProviderReturns
<1>7. ASSUME NEW c \in Calls, Returned(c) PROVE UnderWay' \subseteq UnderWay
  <2>1. c \in UnderWay \/ c \notin UnderWay'
    BY <1>7 DEF Returned, UnderWay
  <2> QED  BY <1>1, <1>7, <2>1 DEF Returned
<1>8. ASSUME NEW c \in Calls, InGate(c) \/ GiveBack(c) \/ CtxEnds(c) \/ CloseStops(c)
      PROVE  UnderWay' \subseteq UnderWay
  BY <1>2, <1>8 DEF InGate, GiveBack, CtxEnds, CloseStops
<1>9. CASE CloseGate \/ UNCHANGED vars
  BY <1>2, <1>9 DEF CloseGate, vars
<1> QED
  BY <1>3, <1>4, <1>5, <1>6, <1>7, <1>8, <1>9 DEF CallNext, CallStep, Terminated

\* The ceiling is passed by no more than what was under way when it was reached.
LEMMA InitExposure == CallInit => ExposureInv
<1> SUFFICES ASSUME CallInit PROVE ExposureInv
  OBVIOUS
<1>1. set.ceiling \in Nat /\ spent = 0
  BY CallConstants DEF CallInit, Setting
<1> QED  BY <1>1 DEF ExposureInv

\* A recording beyond the ceiling takes its call out of those under way.
LEMMA NextExposure ==
  CallTypes /\ CallTypes' /\ AttemptTrue /\ ExposureInv /\ [CallNext]_vars => ExposureInv'
<1> SUFFICES ASSUME CallTypes, CallTypes', AttemptTrue, ExposureInv, [CallNext]_vars
             PROVE  ExposureInv'
  OBVIOUS
<1>0. /\ spent \in Nat /\ set.ceiling \in Nat
      /\ IsFiniteSet(UnderWay) /\ Cardinality(UnderWay) \in Nat
      /\ Cardinality(exposed) \in Nat
  BY FiniteParts, FS_CardinalityType DEF CallTypes, Setting
<1>1. ASSUME UNCHANGED <<spent, exposed, set>> PROVE ExposureInv'
  <2> SUFFICES ASSUME set.ceiling > 0, spent >= set.ceiling
               PROVE  spent + Cardinality(UnderWay') < set.ceiling + Cardinality(exposed)
    BY <1>1 DEF ExposureInv
  <2>1. UnderWay' \subseteq UnderWay
    BY <1>0, NoNewcomers DEF Check
  <2>2. Cardinality(UnderWay') <= Cardinality(UnderWay) /\ Cardinality(UnderWay') \in Nat
    BY <1>0, <2>1, FS_Subset, FS_CardinalityType
  <2> QED  BY <1>0, <2>2 DEF ExposureInv
<1>2. ASSUME NEW c \in Calls, Charge(c) PROVE ExposureInv'
  <2>1. /\ pc[c] = "judge" /\ pc' = [pc EXCEPT ![c] = "settle"] /\ ran[c]
        /\ UNCHANGED <<ran, set>>
        /\ spent' = IF Bought(reply[c]) THEN spent + cost(reply[c]) ELSE spent
        /\ exposed' = IF spent < set.ceiling /\ spent' >= set.ceiling
                      THEN UnderWay ELSE exposed
    BY <1>2 DEF Charge, chargeBudget, Goto, attemptVars, AttemptTrue, Answers, Accepted,
                Forbidden, Refused
  <2>2. c \in UnderWay /\ UnderWay' = UnderWay \ {c}
    BY <2>1 DEF UnderWay, CallTypes
  <2>3. Cardinality(UnderWay') = Cardinality(UnderWay) - 1
    BY <1>0, <2>2, FS_RemoveElement
  <2>4. spent' = spent \/ spent' = spent + 1
    BY <1>0, <2>1, CostType
  <2>5. CASE spent >= set.ceiling
    BY <1>0, <2>1, <2>3, <2>4, <2>5 DEF ExposureInv
  <2>6. CASE spent < set.ceiling
    BY <1>0, <2>1, <2>3, <2>4, <2>6 DEF ExposureInv
  <2> QED  BY <1>0, <2>5, <2>6
<1>3. ASSUME NEW c \in Calls, Settle(c) PROVE ExposureInv'
  BY <1>1, <1>3 DEF Settle, ledgerVars
<1>4. CASE \A c \in Calls : ~Charge(c) /\ ~Settle(c)
  BY <1>1, <1>4, SettlingSame
<1> QED  BY <1>2, <1>3, <1>4

-----------------------------------------------------------------------------
\* The inductive invariant holds in every reachable state.
THEOREM CallInductive == CallSpec => []CallInv
<1>1. CallInit => CallInv
  BY InitTypes, InitGateTrue, InitAttemptTrue, InitEarlySeen, InitBooksTrue,
     InitTotalBehind, InitExposure, InitBlameRight DEF CallInv
<1>2. CallInv /\ [CallNext]_vars => CallInv'
  BY NextTypes, NextGateTrue, NextAttemptTrue, NextEarlySeen, NextBooksTrue,
     NextTotalBehind, NextExposure, NextBlameRight DEF CallInv
<1> QED  BY <1>1, <1>2, PTL DEF CallSpec

\* The money: every answer that was bought is recorded once, whatever becomes of it,
\* every call leaves one request record, and the ceiling is passed by no more than the
\* calls under way when it was reached.
THEOREM SpendIsKept == CallSpec => []SpendKept
<1>1. CallInv => SpendKept
  <2> SUFFICES ASSUME CallInv PROVE PaidOnce /\ CeilingKept
    BY DEF SpendKept
  <2>1. CallTypes /\ BooksTrue /\ TotalBehind /\ ExposureInv
    BY DEF CallInv
  <2>2. ASSUME \A c \in Calls : pc[c] # "settle" PROVE tracked = spent
    <3>1. Settling = {}
      BY <2>2 DEF Settling
    <3> QED  BY <2>1, <3>1, FS_EmptySet DEF TotalBehind, CallTypes
  <2>3. PaidOnce
    <3>1. \A c \in Calls : records[c] <= 1 /\ (records[c] = 1 => pc[c] = "done")
      BY <2>1 DEF BooksTrue
    <3> QED  BY <2>1, <2>2, <3>1 DEF PaidOnce, BooksTrue
  <2>4. CeilingKept
    <3>1. /\ spent \in Nat /\ set.ceiling \in Nat
          /\ Cardinality(UnderWay) \in Nat /\ Cardinality(exposed) \in Nat
      BY <2>1, FiniteParts, FS_CardinalityType DEF CallTypes, Setting
    <3> QED  BY <2>1, <3>1 DEF CeilingKept, ExposureInv
  <2> QED  BY <2>3, <2>4
<1> QED  BY <1>1, CallInductive, PTL

\* The end: a call is told what ended it, its own context, Close, the ledger or the
\* provider, and a request its context had already forbidden is not sent.
THEOREM CallsEndRight == CallSpec => []EndsRight
<1>1. CallInv => EndsRight
  BY DEF CallInv, EarlySeen, EndsRight, NotSentLate
<1> QED  BY <1>1, CallInductive, PTL
=============================================================================

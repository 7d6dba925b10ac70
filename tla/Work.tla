-------------------------------- MODULE Work --------------------------------
(***************************************************************************)
(* How one operation becomes requests, and what becomes of their failures: *)
(* the worker pool, a retry and fallback over routes, the recovery cascade, *)
(* a speculative branch, a conversation, a run resumed from its            *)
(* checkpoints, and the process-wide state operations read.  The parts      *)
(* share nothing: each is an instance of its module with variables of its  *)
(* own, beside the pool's, and what is said of them is said here.          *)
(***************************************************************************)
EXTENDS Pool, Sequences

CONSTANTS
  Routes, RouteConfigs,                          \* retry and fallback
  RecoverRuns,                                   \* the recovery cascade
  AheadModes,                                    \* speculation
  SessionTurns, CallIds,                         \* a conversation
  SavedHistories, ModelReplies,
  ProgramSteps, ProgramInputs, MaxStarts,        \* a resumed run
  SettingValues, Original, MaxSets,              \* a setting in layers
  Readers, Cells, MaxChanges,                    \* the environment's cells
  Callers, PlanTypes, PlanLimit                  \* type plans

ASSUME WorkConstants ==
  /\ ProgramSteps \in Nat \ {0} /\ ProgramInputs # {} /\ "none" \notin ProgramInputs
  /\ IsFiniteSet(Cells) /\ Cells # {} /\ Cells = 1..Cardinality(Cells) /\ 0 \notin Readers
  /\ IsFiniteSet(PlanTypes) /\ PlanLimit \in Nat /\ 0 \notin Callers

VARIABLES
  rCfg, rPc, rRound, rRoute, rAttempt, rLastErr, rBehind, rOver, rResult, rSaw, rAsked,
  rRepeated, rLate,
  cRun, cPc, cPos, cSize, cComplianceRun, cStack, cBudget, cOutcome, cState, cRung,
  cFailures, cHalted, cOver, cLatest, cRequests, cAsked, cLate,
  aMode, aEarly, aBranch, aTold, aOver, aPc, aAnswer, aOutcome,
  sHistory, sBusy, sAt, sAdd, sReply, sBegan,
  kDurable, kStore, kAt, kStep, kInput, kShape, kOver, kResults, kChanged, kInHand, kStarts,
  kEffects, kForgotten,
  yTop, yDone, yBase, yInForce, yValues,
  eEnv, eValue, eMu, eAt, eCell, eGot, eReload, eFrom, eFloor, eDue, eReads,
  pEntries, pCount, pMu, pAt, pType, pPlan, pOnce, pValue, pFault, pRuns

rVars == <<rCfg, rPc, rRound, rRoute, rAttempt, rLastErr, rBehind, rOver, rResult, rSaw,
           rAsked, rRepeated, rLate>>
cVars == <<cRun, cPc, cPos, cSize, cComplianceRun, cStack, cBudget, cOutcome, cState, cRung,
           cFailures, cHalted, cOver, cLatest, cRequests, cAsked, cLate>>
aVars == <<aMode, aEarly, aBranch, aTold, aOver, aPc, aAnswer, aOutcome>>
sVars == <<sHistory, sBusy, sAt, sAdd, sReply, sBegan>>
kVars == <<kDurable, kStore, kAt, kStep, kInput, kShape, kOver, kResults, kChanged, kInHand,
           kStarts, kEffects, kForgotten>>
yVars == <<yTop, yDone, yBase, yInForce, yValues>>
eVars == <<eEnv, eValue, eMu, eAt, eCell, eGot, eReload, eFrom, eFloor, eDue, eReads>>
pVars == <<pEntries, pCount, pMu, pAt, pType, pPlan, pOnce, pValue, pFault, pRuns>>
sharedVars == <<kVars, yVars, eVars, pVars>>

-----------------------------------------------------------------------------
R == INSTANCE Routes WITH
  Configs <- RouteConfigs,
  cfg <- rCfg, pc <- rPc, round <- rRound, route <- rRoute, attempt <- rAttempt,
  lastErr <- rLastErr, behind <- rBehind, over <- rOver, result <- rResult, saw <- rSaw,
  asked <- rAsked, repeated <- rRepeated, late <- rLate

ASSUME RouteConstants ==
  /\ IsFiniteSet(Routes) /\ Routes # {} /\ Routes = 1..Cardinality(Routes)
  /\ RouteConfigs \subseteq R!Config

C == INSTANCE Recover WITH
  Runs <- RecoverRuns,
  run <- cRun, pc <- cPc, pos <- cPos, size <- cSize, complianceRun <- cComplianceRun,
  stack <- cStack, budget <- cBudget, outcome <- cOutcome, state <- cState, rung <- cRung,
  failures <- cFailures, halted <- cHalted, over <- cOver, latest <- cLatest,
  requests <- cRequests, asked <- cAsked, late <- cLate

\* Chunks end at items of a list.
ASSUME RecoverConstants ==
  \A r \in RecoverRuns : r \in C!Run /\ IsFiniteSet(r.ends)

A == INSTANCE Ahead WITH
  Modes <- AheadModes,
  mode <- aMode, early <- aEarly, branch <- aBranch, told <- aTold, over <- aOver,
  pc <- aPc, answer <- aAnswer, outcome <- aOutcome

S == INSTANCE Session WITH
  Turns <- SessionTurns, Ids <- CallIds, Saved <- SavedHistories, Replies <- ModelReplies,
  history <- sHistory, busy <- sBusy, at <- sAt, add <- sAdd, reply <- sReply,
  began <- sBegan

\* CallTurn makes an assistant's message of what a model replies.
ASSUME SessionConstants ==
  /\ "" \in CallIds
  /\ \A h \in SavedHistories : h \in Seq(S!Messages)
  /\ \A m \in ModelReplies : m \in S!Messages /\ m.role = "assistant" /\ m.answers = ""

K == INSTANCE Checkpoint WITH
  Steps <- ProgramSteps, Inputs <- ProgramInputs,
  durable <- kDurable, store <- kStore, at <- kAt, step <- kStep, input <- kInput,
  shape <- kShape, over <- kOver, results <- kResults, changed <- kChanged,
  inHand <- kInHand, starts <- kStarts, effects <- kEffects, forgotten <- kForgotten

Y == INSTANCE Layers WITH
  Values <- SettingValues,
  top <- yTop, done <- yDone, base <- yBase, inForce <- yInForce, values <- yValues

E == INSTANCE Environment WITH
  env <- eEnv, value <- eValue, mu <- eMu, at <- eAt, cell <- eCell, got <- eGot,
  reload <- eReload, from <- eFrom, floor <- eFloor, due <- eDue, reads <- eReads

P == INSTANCE PlanCache WITH
  Types <- PlanTypes, Limit <- PlanLimit,
  entries <- pEntries, count <- pCount, mu <- pMu, at <- pAt, type <- pType, plan <- pPlan,
  once <- pOnce, value <- pValue, fault <- pFault, runs <- pRuns

-----------------------------------------------------------------------------
\* The usable routes are all tried, in order and for a failure of the route only, and
\* no failure is repeated more often than allowed, or that cannot be cured, or after
\* the context ended; the error of a failed request is the last route's own or the
\* context's, with the failure that was being waited out behind it.
RoutesKept == R!RoutesTried /\ R!RepeatsBounded /\ R!ErrorTells

\* A recovered run sends no more requests than its bound, stops with the failure that
\* halts it, stays inside the plan's chunks and accounts for every item.
RecoveryKept == C!RequestsBounded /\ C!HaltHeld /\ C!WithinPlan

\* No batched request is sent again as it was.
NeverAgain == C!NeverAgain

\* No speculative branch outlives its call or decides its result unpicked.
AheadKept == A!AheadKept

\* A resumed run repeats nothing that stands and is given its own answers only.
ResumeKept == K!NoReplay /\ K!OwnResults

\* What operations read of the process: the newest setting not yet restored, an
\* environment no older than the last reload, one plan for a type, whose
\* contents were worked out.
SharedKept == Y!NewestInForce /\ E!ReloadCounts /\ P!OnePlan /\ P!NeverZero

\* One turn at a time, the flag tells whether one runs, and a transcript is accepted
\* exactly when it obeys the rules.
SessionSound == S!SessionSound

\* A conversation grows by whole turns only.
TurnsWhole == S!TurnsWhole
=============================================================================

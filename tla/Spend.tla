-------------------------------- MODULE Spend --------------------------------
(***************************************************************************)
(* What is paid for and how it is counted: the result cache, the budget     *)
(* middleware and the cost ledger with its alerts.  They share nothing:     *)
(* the budget and the ledger are instances with variables of their own,     *)
(* beside the cache's, and what is said of them is said here.               *)
(***************************************************************************)
EXTENDS Cache

CONSTANTS
  BCalls, BSettings, BQuote, BUnpriced, BCosts,                    \* the budget
  LTracked, LEntry, LLimit, LHistoryLimit, LMaxDay, LMaxResets     \* the ledger

VARIABLES
  bCfg, bPc, bSpent, bOutcome, bCharge, bTogether,
  lDay, lKeys, lTotals, lNotified, lAlerting, lHistory, lStart, lIndex, lQueued,
  lDelivering, lAt, lRecorded, lRaised, lDelivered, lEpoch, lFresh, lResets

bVars == <<bCfg, bPc, bSpent, bOutcome, bCharge, bTogether>>
lVars == <<lDay, lKeys, lTotals, lNotified, lAlerting, lHistory, lStart, lIndex, lQueued,
           lDelivering, lAt, lRecorded, lRaised, lDelivered, lEpoch, lFresh, lResets>>

B == INSTANCE Budget WITH
  Calls <- BCalls, Settings <- BSettings, Quote <- BQuote, Unpriced <- BUnpriced,
  Costs <- BCosts,
  cfg <- bCfg, pc <- bPc, spent <- bSpent, outcome <- bOutcome, charge <- bCharge,
  together <- bTogether

L == INSTANCE CostLedger WITH
  Tracked <- LTracked, Entry <- LEntry, Limit <- LLimit, HistoryLimit <- LHistoryLimit,
  MaxDay <- LMaxDay, MaxResets <- LMaxResets,
  day <- lDay, keys <- lKeys, totals <- lTotals, notified <- lNotified,
  alerting <- lAlerting, history <- lHistory, start <- lStart, index <- lIndex,
  queued <- lQueued, delivering <- lDelivering, at <- lAt, recorded <- lRecorded,
  raised <- lRaised, delivered <- lDelivered, epoch <- lEpoch, fresh <- lFresh,
  resets <- lResets

\* A figure that is not an amount is a negative one.  No call of TrackCost is the
\* goroutine that takes over a delivery, and a history limit that is not positive is
\* replaced by the default one.
ASSUME SpendConstants ==
  /\ IsFiniteSet(BCalls) /\ BQuote \in [BCalls -> Int] /\ BCosts \subseteq Int
  /\ BSettings \subseteq [limit : Int, fromRequest : BOOLEAN,
                          allowUnpriced : BOOLEAN, hasCalc : BOOLEAN]
  /\ L!Spawned \notin LTracked
  /\ \A c \in LTracked : LEntry[c].cost \in Int
  /\ LLimit \in [{"daily", "weekly"} -> Nat]
  /\ LHistoryLimit \in Nat \ {0} /\ LMaxDay \in Nat

-----------------------------------------------------------------------------
\* The budget's ledger is exactly what ended calls cost and what running ones have
\* reserved, and the limit is passed only by what calls in flight together cost
\* beyond their estimates.
BudgetKept == B!LedgerExact /\ B!OverrunBounded

\* Every alert that is queued has a goroutine delivering it, and alerts come in the
\* order their thresholds were crossed, each once, also across resets, midnights and
\* a callback that ends its goroutine; the ring of cost records holds the latest ones
\* in order, and the index finds each request's newest record that is still held.
CostsKept == L!NoAlertStranded /\ L!AlertsInOrder /\ L!IndexRight
=============================================================================

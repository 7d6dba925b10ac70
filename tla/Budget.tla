------------------------------- MODULE Budget ------------------------------
(***************************************************************************)
(* The budget middleware (internal/runtime/mw/budget.go): a ledger that    *)
(* refuses a call whose estimate would take the spend past a limit, holds  *)
(* the estimate of a call that is sent, and replaces it by what the call   *)
(* turned out to cost.                                                     *)
(*                                                                         *)
(* Calls run at once and meet in the ledger's mutex.  Between the two      *)
(* critical sections of a call the provider and the cost function run,     *)
(* with the ledger open to every other call.                               *)
(*                                                                         *)
(* Amounts are integers in place of floats, and a negative one stands for  *)
(* every figure that is not an amount: negative, NaN or infinite.          *)
(***************************************************************************)
EXTENDS Integers, FiniteSets, Functions

CONSTANTS
  Calls,          \* the Complete calls
  Settings,       \* how Budget may be set up
  Quote,          \* Quote[c]: what the estimate of call c comes to
  Unpriced,       \* the calls whose model the cost function has no price for
  Costs           \* what the cost function may say of an answer

VARIABLES
  cfg,       \* the limit and the options Budget was given
  pc,        \* pc[c]: "start", "calling", "settling", "done" or "refused"
  spent,     \* the ledger
  outcome,   \* outcome[c]: how the provider's Complete ended
  charge,    \* charge[c]: what a call that is over has been charged
  together   \* the calls in flight when the latest one was admitted

vars == <<cfg, pc, spent, outcome, charge, together>>

-----------------------------------------------------------------------------

limit == cfg.limit
FromRequest == cfg.fromRequest      \* WithBudgetRequestEstimate
AllowUnpriced == cfg.allowUnpriced  \* AllowUnpricedCalls
HasCalc == cfg.hasCalc      \* FALSE after WithBudgetCostFunc(nil)

unlimited == limit = 0
unusable == limit < 0

\* validCost: an amount a ledger can add.
validCost(x) == x >= 0

\* estimateOf.  The provider's own estimate is a price whatever it is.  The
\* estimate made from the request is zero and no price for a model without one,
\* and for a figure that is not an amount.
estimateOf(c) ==
  IF ~FromRequest THEN [cost |-> Quote[c], priced |-> TRUE]
  ELSE IF c \in Unpriced \/ ~validCost(Quote[c])
         THEN [cost |-> 0, priced |-> FALSE]
         ELSE [cost |-> Quote[c], priced |-> TRUE]

est(c) == estimateOf(c).cost

\* How the wrapped Complete may end: with an error, with a panic, or with an
\* answer, of which the ledger reads whether it reports usage, whether it came
\* from a cache, and what the cost function makes of it.
NoOutcome == [kind |-> "none"]
Answers == [kind : {"answer"}, usage : BOOLEAN, cached : BOOLEAN, cost : Costs]
Outcomes == {[kind |-> "error"], [kind |-> "panic"]} \cup Answers

Init ==
  /\ cfg \in Settings
  /\ pc = [c \in Calls |-> "start"]
  /\ spent = 0
  /\ outcome = [c \in Calls |-> NoOutcome]
  /\ charge = [c \in Calls |-> 0]
  /\ together = {}

Goto(c, l) == pc' = [pc EXCEPT ![c] = l]
InFlight == {c \in Calls : pc[c] \in {"calling", "settling"}}

\* A call refused before the ledger is looked at: the limit or the estimate is
\* not an amount, or the call cannot be priced under a limit.
Unaskable(c) ==
  \/ unusable
  \/ ~validCost(est(c))
  \/ ~unlimited /\ ~estimateOf(c).priced /\ ~AllowUnpriced

Refuse(c) ==
  /\ pc[c] = "start" /\ Unaskable(c)
  /\ Goto(c, "refused")
  /\ UNCHANGED <<cfg, spent, outcome, charge, together>>

\* No limit: the call is the provider's, and the ledger is not kept.
Unlimited(c) ==
  /\ pc[c] = "start" /\ ~Unaskable(c) /\ unlimited
  /\ \E o \in Outcomes : outcome' = [outcome EXCEPT ![c] = o]
  /\ Goto(c, "done")
  /\ UNCHANGED <<cfg, spent, charge, together>>

Fits_WithoutRequest(c) == spent <= limit     \* Mutant: the estimate is not added
Fits(c) == spent + est(c) <= limit

\* The first critical section: the check, and the reservation of the estimate.
OverLimit(c) ==
  /\ pc[c] = "start" /\ ~Unaskable(c) /\ ~unlimited /\ ~Fits(c)
  /\ Goto(c, "refused")
  /\ UNCHANGED <<cfg, spent, outcome, charge, together>>

Reserve_Later(c) ==     \* Mutant: checked here, added when the call is over
  /\ pc[c] = "start" /\ ~Unaskable(c) /\ ~unlimited /\ Fits(c)
  /\ Goto(c, "calling")
  /\ together' = InFlight \cup {c}
  /\ UNCHANGED <<cfg, spent, outcome, charge>>
Reserve(c) ==
  /\ pc[c] = "start" /\ ~Unaskable(c) /\ ~unlimited /\ Fits(c)
  /\ spent' = spent + est(c)
  /\ Goto(c, "calling")
  /\ together' = InFlight \cup {c}
  /\ UNCHANGED <<cfg, outcome, charge>>

\* The wrapped provider's Complete, outside the lock.
NextReturns(c) ==
  /\ pc[c] = "calling"
  /\ \E o \in Outcomes : outcome' = [outcome EXCEPT ![c] = o]
  /\ Goto(c, "settling")
  /\ UNCHANGED <<cfg, spent, charge, together>>

\* measure: an answer with no usage has not told what it cost, unless a cache
\* gave it.
measured(o) == HasCalc /\ (o.usage \/ o.cached) /\ validCost(o.cost)

\* What a call that ended with outcome o is charged: nothing when it failed or
\* panicked, its cost when that is known, and else its estimate, or nothing when
\* the caller lets unpriced calls through and a cost function is in use.
Charged(c, o) ==
  CASE o.kind \in {"error", "panic"} -> 0
    [] o.kind = "answer" /\ measured(o) -> o.cost
    [] o.kind = "answer" /\ ~measured(o) ->
         IF HasCalc /\ AllowUnpriced THEN 0 ELSE est(c)

\* settle: the reservation is taken back, what is known is added, and the ledger
\* does not go below nothing.
settled_KeepsPanics(c, o) ==     \* Mutant: a panic unwinds past the release
  IF o.kind = "panic" THEN spent
  ELSE LET left == spent - est(c) + Charged(c, o) IN IF left < 0 THEN 0 ELSE left
settled(c, o) ==
  LET left == spent - est(c) + Charged(c, o) IN IF left < 0 THEN 0 ELSE left

Settle(c) ==
  /\ pc[c] = "settling"
  /\ spent' = settled(c, outcome[c])
  /\ charge' = [charge EXCEPT ![c] = Charged(c, outcome[c])]
  /\ Goto(c, "done")
  /\ UNCHANGED <<cfg, outcome, together>>

Terminated ==
  /\ \A c \in Calls : pc[c] \in {"done", "refused"}
  /\ UNCHANGED vars

Next ==
  \/ \E c \in Calls : \/ Refuse(c) \/ Unlimited(c) \/ OverLimit(c) \/ Reserve(c)
                      \/ NextReturns(c) \/ Settle(c)
  \/ Terminated

Spec == Init /\ [][Next]_vars

-----------------------------------------------------------------------------

Amount == [c \in Calls |-> IF c \in InFlight THEN est(c) ELSE charge[c]]
Total(S, f) == SumFunctionOnSet(f, S)

TypeOK ==
  /\ pc \in [Calls -> {"start", "calling", "settling", "done", "refused"}]
  /\ spent \in Nat
  /\ outcome \in [Calls -> Outcomes \cup {NoOutcome}]
  /\ charge \in [Calls -> Nat]
  /\ together \subseteq Calls

\* The ledger holds exactly the estimates of the calls in flight and the cost of
\* the calls that are over, in whatever order the calls reserve, fail, panic and
\* settle: no reservation is kept by a call that ended, and none is given back
\* twice (Budget's comment, "the ledger holds the measured cost of the calls
\* that have ended and the reservations of those in flight").
LedgerExact == spent = Total(Calls, Amount)

\* The spend passes the limit only by what calls cost beyond their estimates, and
\* only the calls that were in flight together when the limit was reached
\* (Budget's comment: "by at most the sum of those under-estimates over the calls
\* that were in flight together when the limit was reached").
OverrunBounded ==
  ~unlimited /\ ~unusable =>
    spent <= limit + Total(together, [c \in Calls |->
                             IF charge[c] > est(c) THEN charge[c] - est(c) ELSE 0])

=============================================================================

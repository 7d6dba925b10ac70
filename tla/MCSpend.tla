------------------------------- MODULE MCSpend -------------------------------
(* Small instances of the parts of module Spend for TLC.  They share nothing, so a *)
(* run is one of them and the others rest in their initial state.                  *)
EXTENDS Spend, TLC

CONSTANTS c1, c2, c3, c4

VARIABLE part

\* The cache: two identical calls, the same question from another tenant, and one
\* call that may not use the cache.
Ask(a, t, p) == [ask |-> a, tenant |-> t, policy |-> p, schemaValid |-> TRUE]
MixedLoad == [c \in Calls |->
  CASE c \in {c1, c2} -> Ask("a", "t", "mayCache")
    [] c = c3 -> Ask("a", "u", "mayCache")
    [] OTHER  -> Ask("a", "t", "mayNot")]

\* The budget: a cheap call, a dearer one whose model has no price, and one whose
\* estimate is not an amount; costs that are no amount, nothing, and more than any
\* estimate; limits the two priced calls fit in or not, with every choice of the
\* options, no limit, and a limit that is not an amount.
MCQuote == c1 :> 1 @@ c2 :> 2 @@ c3 :> -1
MCCosts == {-1, 0, 3}
AnySetting ==
  [limit : {2, 3}, fromRequest : BOOLEAN, allowUnpriced : BOOLEAN, hasCalc : BOOLEAN]
  \cup [limit : {0, -1}, fromRequest : {TRUE}, allowUnpriced : {FALSE}, hasCalc : {TRUE}]

\* The ledger: four calls, two of one request, against a day's and a week's limit.
MCTracked == 1..4
MCEntry == <<[cost |-> 4, request |-> "a"], [cost |-> 1, request |-> "b"],
             [cost |-> 5, request |-> "a"], [cost |-> -1, request |-> "c"]>>
MCLimit == [daily |-> 5, weekly |-> 9]

MCInit ==
  /\ part \in {"cache", "budget", "ledger"}
  /\ Init
  /\ B!Init /\ (part # "budget" => bCfg = CHOOSE s \in AnySetting : s.limit = 0)
  /\ L!Init

MCNext ==
  \/ part = "cache" /\ Next /\ UNCHANGED <<part, bVars, lVars>>
  \/ part = "budget" /\ B!Next /\ UNCHANGED <<part, vars, lVars>>
  \/ part = "ledger" /\ (L!LedgerNext \/ L!Finished) /\ UNCHANGED <<part, vars, bVars>>

MCSpec == MCInit /\ [][MCNext]_<<part, vars, bVars, lVars>>
=============================================================================

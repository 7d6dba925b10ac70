------------------------------- MODULE MCWaits -------------------------------
(* Small instances of the parts of module Waits for TLC.  They share nothing, so a *)
(* run is one of them and the others rest in their initial state.                  *)
EXTENDS Waits, TLC

CONSTANTS a1, a2, a3, r1, A

VARIABLE part

all == <<part, vars, bVars, hVars>>

\* Four calls to one provider, of which the first to come fixes the limit: two name
\* two, one names one, and one, through RejectWhenFull, a limit that is not positive.
MCKeyOf == [c \in {a1, a2, a3, r1} |-> A]
MCLimit == (a1 :> 2) @@ (a2 :> 2) @@ (a3 :> 1) @@ (r1 :> -1)

MCInit ==
  /\ part \in {"rate", "bulkhead", "hedge"}
  /\ Init /\ (part # "rate" => ~reject)
  /\ W!Init
  /\ H!Init /\ (part # "hedge" => hDelayed /\ hHonours)

MCNext ==
  \/ part = "rate" /\ Next /\ UNCHANGED <<part, bVars, hVars>>
  \/ part = "bulkhead" /\ W!Next /\ UNCHANGED <<part, vars, hVars>>
  \/ part = "hedge" /\ H!Next /\ UNCHANGED <<part, vars, bVars>>

\* The fairness of FairSpec of RateLimit, LiveSpec of Bulkhead and FairSpec of Hedge,
\* each in the runs of its component.
InRate(c) ==
  /\ part = "rate"
  /\ Start(c) \/ Acquire(c) \/ Refused(c) \/ Sleep(c) \/ Wake(c) \/ SleepCanceled(c)
  /\ UNCHANGED <<part, bVars, hVars>>
RateFair ==
  /\ WF_all(part = "rate" /\ Tick /\ UNCHANGED <<part, bVars, hVars>>)
  /\ \A c \in Callers : WF_all(InRate(c))
BulkheadFair ==
  \A c \in BCalls : WF_all(part = "bulkhead" /\ W!Step(c) /\ UNCHANGED <<part, vars, hVars>>)
InHedge == part = "hedge" /\ UNCHANGED <<part, vars, bVars>>
HedgeFair ==
  /\ WF_all(InHedge /\ hDelayed /\ H!Complete)
  /\ WF_all(InHedge /\ H!TimerFires)
  /\ \A d \in H!Copies : /\ WF_all(InHedge /\ H!CopySends(d))
                         /\ WF_all(InHedge /\ hHonours /\ H!RunDone /\ H!CopyEnds(d))

MCSpec == MCInit /\ [][MCNext]_all /\ RateFair /\ BulkheadFair /\ HedgeFair
=============================================================================

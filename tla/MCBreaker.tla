------------------------------ MODULE MCBreaker ------------------------------
(* Module Breakers for TLC: a run is one of its two components, the other rests *)
(* in its initial state.                                                        *)
EXTENDS Breakers

VARIABLE layer

mwState == <<mwBreaker, mwRunning, mwKey, mwProbe, mwHealthy, seen, mwpc, model, target,
             mayHoldProbe, verdict>>
both == <<layer, vars, mwState>>

MCInit ==
  /\ layer \in {"breaker", "middleware"}
  /\ Init /\ (layer = "middleware" => key = [c \in Calls |-> CHOOSE k \in Keys : TRUE])
  /\ MW!MWInit

Direct(A) == layer = "breaker" /\ A /\ UNCHANGED <<layer, mwState>>

MCNext ==
  \/ Direct(Next)
  \/ layer = "middleware" /\ MW!MWNext /\ UNCHANGED <<layer, vars>>

\* The fairness of LiveSpec, for the run that asks the breaker directly.
MCSpec ==
  /\ MCInit /\ [][MCNext]_both
  /\ WF_both(Direct(Tick))
  /\ \A c \in Calls : WF_both(Direct(Finish(c)))
  /\ \A k \in Keys : SF_both(Direct(\E c \in Calls : Allow(c, k) /\ running' # running))
=============================================================================

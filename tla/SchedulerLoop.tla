--------------------------- MODULE SchedulerLoop ---------------------------
(***************************************************************************)
(* The scheduler with callers that submit again: each call, once it has    *)
(* returned, may be made once more with the same request, as a worker of   *)
(* one tenant does.  It is the setting in which the fairness of SC-003     *)
(* (nextAdmittableLocked, dropIdleTenantLocked) can be stated.             *)
(***************************************************************************)
EXTENDS Scheduler, TLC

CONSTANTS t1, t2, a1, b1, Repeat   \* the calls, and those made again

\* One tenant with two workers, two with one each, all of one class.
OneWorkerEach ==
  LET Req(t) == [tenant |-> t, provider |-> "x", prio |-> 1, tokens |-> 0,
                 cost |-> 0, deadline |-> 0]
      load == t1 :> Req("T") @@ t2 :> Req("T") @@ a1 :> Req("A")
              @@ b1 :> Req("B")
  IN [c \in Calls |-> load[c]]

\* The caller's next Submit of the same request.
SubmitAgain(c) ==
  /\ c \in Repeat /\ pc[c] = "done"
  /\ pc' = [pc EXCEPT ![c] = "start"]
  /\ result' = [result EXCEPT ![c] = "none"]
  /\ UNCHANGED <<mu, queueVars, resourceVars, runVars, dispatchVars, admitted,
                 closeVars, envVars>>

LoopNext == Next \/ \E c \in Calls : SubmitAgain(c)

LoopSpec ==
  /\ Init /\ [][LoopNext]_vars
  /\ Progress
  /\ \A c \in Calls : WF_vars(RunReturns(c))

\* "a tenant with ten thousand queued items and a tenant with ten both get a
\* turn each pass" (scheduler.go:774-778): a request that is queued, and that
\* nothing but its place in the rotation keeps waiting, is admitted.
TurnEachPass == \A c \in Calls : Queued(c) ~> ~Queued(c)
=============================================================================

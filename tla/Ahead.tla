------------------------------- MODULE Ahead -------------------------------
(***************************************************************************)
(* Speculation in flows: BranchAhead, BranchBoth and RouteAhead of         *)
(* v2/internal/ops/flow.go.  A branch is started beside the decision, under *)
(* a context of its own, and kept or told to stop and waited for.  "yes"   *)
(* is the branch started early, the likely route; "no" the other, which    *)
(* BranchBoth starts early too and the others run on the caller's          *)
(* goroutine.  "none" is a label no route has.                             *)
(***************************************************************************)
EXTENDS Naturals, FiniteSets

CONSTANTS Modes     \* which of "ahead", "both" and "route" are called

Branch == {"yes", "no"}

VARIABLES
  mode, early,     \* the function called, and the branches it starts early
  branch,          \* what each branch is doing or ended with
  told,            \* the branches whose own context was cancelled
  over,            \* the caller's context is done
  pc, answer,      \* where the caller is, what was decided
  outcome          \* what is returned: a branch's value, or whose error

vars == <<mode, early, branch, told, over, pc, answer, outcome>>

Init ==
  /\ mode \in Modes
  /\ early = IF mode = "both" THEN Branch ELSE {"yes"}
  \* A nil branch has ended when it starts, with the zero value.
  /\ branch \in {f \in [Branch -> {"unstarted", "running", "value"}] :
                   \A b \in Branch : /\ (f[b] = "unstarted") <=> b \notin early
                                     /\ mode = "route" => f[b] # "value"}
  /\ told = {} /\ over = FALSE
  /\ pc = "deciding" /\ answer = "" /\ outcome = ""

-----------------------------------------------------------------------------
\* A branch returns, fails or panics; it ends with a cancellation only when a
\* context above it is done, and may ignore that.
EndsOf(b) == {"value", "failed"} \cup IF over \/ b \in told THEN {"canceled"} ELSE {}

BranchEnds(b) ==
  /\ b \in early /\ branch[b] = "running"
  /\ branch' \in {[branch EXCEPT ![b] = e] : e \in EndsOf(b)}
  /\ UNCHANGED <<mode, early, told, over, pc, answer, outcome>>

ContextEnds ==
  /\ ~over /\ pc # "returned" /\ over' = TRUE
  /\ UNCHANGED <<mode, early, branch, told, pc, answer, outcome>>

-----------------------------------------------------------------------------
Return(what) == outcome' = what /\ pc' = "stopping"

\* The decision fails or panics, or arrives when the caller's context is done:
\* BranchBoth tells both, the others leave that to the deferred stop.
DecisionFails ==
  /\ pc = "deciding"
  /\ Return(IF over THEN "context" ELSE "decision")
  /\ told' = IF mode = "both" THEN Branch ELSE told
  /\ UNCHANGED <<mode, early, branch, over, answer>>

\* The decision, or the branch run here, ends the caller's goroutine: only what is
\* deferred runs.
Exits ==
  /\ pc \in {"deciding", "here"} /\ Return("exit")
  /\ UNCHANGED <<mode, early, branch, told, over, answer>>

Decided(b) ==
  /\ pc = "deciding" /\ ~over
  /\ answer' = b

\* Mutant: kept and dropped are swapped.
TellTheOther_Swapped(b) == told' = told \cup (early \cap {b})

\* The branch that was not picked is told to stop before the other is waited for.
TellTheOther(b) == told' = told \cup (early \ {b})

PickEarly(b) ==
  /\ Decided(b) /\ b \in early
  /\ TellTheOther(b)
  /\ pc' = "keeping"
  /\ UNCHANGED <<mode, early, branch, over, outcome>>

\* The branch that was not started early runs here while the other may still be in
\* flight; a nil one has its value at once.
PickLate(b) ==
  /\ Decided(b) /\ b \notin early
  /\ TellTheOther(b)
  /\ \/ pc' = "here" /\ branch' = [branch EXCEPT ![b] = "running"] /\ UNCHANGED outcome
     \/ /\ mode # "route"
        /\ branch' = [branch EXCEPT ![b] = "value"] /\ Return(b)
  /\ UNCHANGED <<mode, early, over>>

PickUnknown ==
  /\ mode = "route" /\ Decided("none")
  /\ Return("select")
  /\ UNCHANGED <<mode, early, branch, told, over>>

\* Mutant: the error of the branch as it is.
aheadFailed_AsIs(e) == e

\* aheadFailed: an error that comes while the caller's context is done is that
\* context's.
aheadFailed(e) == IF over THEN "context" ELSE e

Keep ==
  /\ pc = "keeping" /\ branch[answer] # "running"
  /\ told' = told \cup {answer}
  /\ Return(IF branch[answer] = "value" THEN answer ELSE aheadFailed(branch[answer]))
  /\ UNCHANGED <<mode, early, branch, over, answer>>

HereEnds ==
  /\ pc = "here"
  /\ \E e \in EndsOf(answer) :
       /\ branch' = [branch EXCEPT ![answer] = e]
       /\ Return(IF e = "value" THEN answer ELSE aheadFailed(e))
  /\ UNCHANGED <<mode, early, told, over, answer>>

\* The deferred stops, the last one first: each cancels its branch and waits for it.
NextToStop ==
  IF mode = "both" /\ ("no" \notin told \/ branch["no"] = "running") THEN "no" ELSE "yes"

Tell ==
  /\ pc = "stopping" /\ NextToStop \notin told
  /\ told' = told \cup {NextToStop}
  /\ UNCHANGED <<mode, early, branch, over, pc, answer, outcome>>

\* Mutant: told, and not waited for.
Stopped_Told == pc = "stopping" /\ early \subseteq told

Stopped == pc = "stopping" /\ early \subseteq told /\ \A b \in early : branch[b] # "running"

Returns ==
  /\ Stopped
  /\ pc' = "returned"
  /\ UNCHANGED <<mode, early, branch, told, over, answer, outcome>>

Next ==
  \/ \E b \in Branch : BranchEnds(b) \/ PickEarly(b) \/ PickLate(b)
  \/ ContextEnds \/ DecisionFails \/ Exits \/ PickUnknown
  \/ Keep \/ HereEnds \/ Tell \/ Returns
  \/ pc = "returned" /\ UNCHANGED vars

Spec == Init /\ [][Next]_vars

-----------------------------------------------------------------------------
\* No branch outlives the call; while one branch is waited for the other has been
\* told to stop and it has not; a value or an error that is returned is that of the
\* branch the decision picked; and no caller is given a cancellation that was not
\* its own context's.
AheadKept ==
  /\ pc = "returned" => \A b \in early : branch[b] # "running"
  /\ pc \in {"keeping", "here"} => early \ {answer} \subseteq told /\ answer \notin told
  /\ outcome \in Branch => outcome = answer /\ branch[answer] = "value"
  /\ outcome = "failed" => branch[answer] = "failed"
  /\ outcome = "context" => over
  /\ outcome # "canceled"

-----------------------------------------------------------------------------
\* The inductive invariant behind AheadKept: nobody is told before the decision, a
\* branch is canceled by its context only, and nothing is returned before the picked
\* branch has ended.
AheadInv ==
  /\ early \subseteq Branch /\ told \subseteq Branch /\ over \in BOOLEAN
  /\ branch \in [Branch -> {"unstarted", "running", "value", "failed", "canceled"}]
  /\ pc \in {"deciding", "keeping", "here", "stopping", "returned"}
  /\ \A b \in Branch : branch[b] = "canceled" => over \/ b \in told
  /\ pc = "deciding" => told = {}
  /\ pc \in {"deciding", "keeping", "here"} => outcome = ""
  /\ pc \in {"keeping", "here"} => answer \in Branch
  /\ pc = "here" => answer \notin early /\ branch[answer] = "running"
  /\ outcome \in Branch \/ outcome = "failed" => answer \in Branch
  /\ AheadKept
=============================================================================

------------------------------- MODULE Gate -------------------------------
(***************************************************************************)
(* What the scheduler of v2/internal/ops/scheduler.go promises the caller  *)
(* of Submit, with no queue, class, tenant, dispatcher or lock: a call     *)
(* waits, is given one of a bounded number of slots or is refused with a   *)
(* reason that is true, runs only in a gate that is open, and gives its    *)
(* slot back once.  Module Scheduler implements this specification, and    *)
(* module Call is built on it.                                             *)
(***************************************************************************)
EXTENDS Naturals, FiniteSets

CONSTANTS
  Calls,     \* the goroutines that submit
  Slots      \* SchedulerLimits.MaxConcurrent, 0 = none

VARIABLES
  place,     \* where each call is, seen from outside
  answer,    \* what Submit tells it: why it did not run, or that it ran
  over,      \* the caller's context has ended
  shut,      \* Close was called
  stopped    \* Close has cancelled the context the work runs under

gateVars == <<place, answer, over, shut, stopped>>

Places == {"out", "waiting", "held", "running", "leaving", "gone"}
Refusals == {"canceled", "shutdown", "rejected", "invalid"}

GateInit ==
  /\ place = [c \in Calls |-> "out"]
  /\ answer = [c \in Calls |-> "none"]
  /\ over = [c \in Calls |-> FALSE]
  /\ shut = FALSE
  /\ stopped = [c \in Calls |-> FALSE]

Inside == {c \in Calls : place[c] \in {"held", "running", "leaving"}}

\* A reason that can be given for not running c.
Truthful(c, why) ==
  /\ why \in Refusals
  /\ why = "canceled" => over[c]
  /\ why = "shutdown" => shut

Submit(c) ==
  /\ place[c] = "out" /\ ~shut
  /\ place' = [place EXCEPT ![c] = "waiting"]
  /\ UNCHANGED <<answer, over, shut, stopped>>

Refuse(c, why) ==
  /\ place[c] \in {"out", "waiting"} /\ Truthful(c, why)
  /\ place' = [place EXCEPT ![c] = "gone"]
  /\ answer' = [answer EXCEPT ![c] = why]
  /\ UNCHANGED <<over, shut, stopped>>

Admit(c) ==
  /\ place[c] = "waiting" /\ ~shut
  /\ Slots = 0 \/ Cardinality(Inside) < Slots
  /\ place' = [place EXCEPT ![c] = "held"]
  /\ UNCHANGED <<answer, over, shut, stopped>>

\* A slot given to a call that cannot use it any more.
GiveUp(c, why) ==
  /\ place[c] = "held" /\ Truthful(c, why) /\ why \in {"canceled", "shutdown"}
  /\ place' = [place EXCEPT ![c] = "leaving"]
  /\ answer' = [answer EXCEPT ![c] = why]
  /\ UNCHANGED <<over, shut, stopped>>

Start(c) ==
  /\ place[c] = "held" /\ ~shut
  /\ place' = [place EXCEPT ![c] = "running"]
  /\ UNCHANGED <<answer, over, shut, stopped>>

Return(c) ==
  /\ place[c] = "running"
  /\ place' = [place EXCEPT ![c] = "leaving"]
  /\ answer' = [answer EXCEPT ![c] = "ran"]
  /\ UNCHANGED <<over, shut, stopped>>

Leave(c) ==
  /\ place[c] = "leaving"
  /\ place' = [place EXCEPT ![c] = "gone"]
  /\ UNCHANGED <<answer, over, shut, stopped>>

Shut ==
  /\ ~shut /\ shut' = TRUE
  /\ UNCHANGED <<place, answer, over, stopped>>

\* Close cancels what runs when it looks; it may have left by then.
Stop(c) ==
  /\ shut /\ place[c] \in {"running", "leaving", "gone"}
  /\ stopped' = [stopped EXCEPT ![c] = TRUE]
  /\ UNCHANGED <<place, answer, over, shut>>

End(c) ==
  /\ ~over[c]
  /\ over' = [over EXCEPT ![c] = TRUE]
  /\ UNCHANGED <<place, answer, shut, stopped>>

GateStep(c) ==
  \/ Submit(c) \/ Admit(c) \/ Start(c) \/ Return(c) \/ Leave(c)
  \/ Stop(c) \/ End(c)
  \/ \E why \in Refusals : Refuse(c, why) \/ GiveUp(c, why)

GateNext == Shut \/ \E c \in Calls : GateStep(c)

GateSpec == GateInit /\ [][GateNext]_gateVars
=============================================================================

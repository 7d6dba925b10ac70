----------------------------- MODULE Checkpoint -----------------------------
(***************************************************************************)
(* Resuming a run of several steps: Checkpoint and MemoryCheckpointStore    *)
(* of v2/internal/ops/checkpoint.go.  A program calls Checkpoint for one    *)
(* step after another under one run id.  It stops with the first error, or *)
(* the process dies at any point, and it is started again, on the same     *)
(* input or on other work, by the same or by a changed program.  The store *)
(* is the one in memory, or a caller's own, which outlives the process and *)
(* may fail, before or after it has written.                               *)
(***************************************************************************)
EXTENDS Naturals, Sequences

CONSTANTS
  Steps,         \* the number of steps of the program
  Inputs,
  MaxStarts      \* bound: times the program is started

VARIABLES
  durable,       \* the store is the caller's own
  store,         \* each step's record, NoRecord when there is none
  at, step,      \* where the program is, and at which step
  input, shape,  \* what it was started with, and the type it decodes into
  over,          \* its context has ended
  results,       \* what Checkpoint returned for the steps passed
  changed,       \* CheckpointOutcome.InputChanged of the step at hand
  inHand,        \* the value that was produced and is not saved yet
  \* History.
  starts,
  effects,       \* times each step was carried out on each input
  forgotten      \* records of a carried out step that were never made, or are gone

progVars == <<at, step, input, shape, over, results, changed, inHand>>
countVars == <<effects, forgotten>>
vars == <<durable, store, progVars, starts, countVars>>

All == 1..Steps
NoRecord == [input |-> "none", shape |-> 0, made |-> 0]
Zero == [s \in All |-> [i \in Inputs |-> 0]]

Init ==
  /\ durable \in BOOLEAN /\ store = [s \in All |-> NoRecord]
  /\ at = "stopped" /\ step = 1 /\ input = (CHOOSE i \in Inputs : TRUE) /\ shape = 1 /\ over = FALSE
  /\ results = <<>> /\ changed = FALSE /\ inHand = NoRecord
  /\ starts = 0 /\ effects = Zero /\ forgotten = Zero

Stops == at' = "stopped" /\ changed' = FALSE /\ inHand' = NoRecord
Keeps == UNCHANGED <<durable, input, shape, starts>>

Forgets(s, i) == [forgotten EXCEPT ![s][i] = @ + 1]

\* A record of other work is gone when it is replaced.
Replaced ==
  IF store[step] # NoRecord /\ store[step].input # input
  THEN Forgets(step, store[step].input) ELSE forgotten

-----------------------------------------------------------------------------
Start(i, t) ==
  /\ at \in {"stopped", "done"} /\ starts < MaxStarts /\ starts' = starts + 1
  /\ at' = "load" /\ step' = 1 /\ input' = i /\ shape' = t /\ over' = FALSE
  /\ results' = <<>> /\ changed' = FALSE /\ inHand' = NoRecord
  /\ UNCHANGED <<durable, store, countVars>>

CtxEnds ==
  /\ at \notin {"stopped", "done"} /\ ~over /\ over' = TRUE
  /\ Keeps /\ UNCHANGED <<store, at, step, results, changed, inHand, countVars>>

\* Checkpoint returns a value: the next step, or the end.
Passed(value, how) ==
  /\ results' = Append(results, [value |-> value, how |-> how])
  /\ changed' = FALSE /\ inHand' = NoRecord
  /\ IF step = Steps THEN at' = "done" /\ UNCHANGED step
     ELSE at' = "load" /\ step' = step + 1

\* Mutant: the record of other work is taken.
Hit_AnyInput == store[step] # NoRecord

Hit == store[step] # NoRecord /\ store[step].input = input

\* A record of another result type is handed over as well when it decodes into this one.
Resume ==
  /\ at = "load" /\ ~over /\ Hit
  /\ Passed(store[step], "resumed")
  /\ Keeps /\ UNCHANGED <<store, over, countVars>>

\* A record of another type that does not decode into this one is an error, and stays.
Undecodable ==
  /\ at = "load" /\ ~over /\ Hit /\ store[step].shape # shape
  /\ Stops /\ Keeps /\ UNCHANGED <<store, step, over, results, countVars>>

Miss ==
  /\ at = "load" /\ ~over /\ ~Hit /\ at' = "produce"
  /\ changed' = (store[step] # NoRecord)
  /\ Keeps /\ UNCHANGED <<store, step, over, results, inHand, countVars>>

\* The context has ended, or the caller's store fails.
LoadFails ==
  /\ at = "load" /\ (over \/ durable)
  /\ Stops /\ Keeps /\ UNCHANGED <<store, step, over, results, countVars>>

Produce ==
  /\ at = "produce" /\ at' = "save"
  /\ inHand' = [input |-> input, shape |-> shape, made |-> starts]
  /\ effects' = [effects EXCEPT ![step][input] = @ + 1]
  /\ Keeps /\ UNCHANGED <<store, step, over, results, changed, forgotten>>

ProduceFails ==
  /\ at = "produce"
  /\ Stops /\ Keeps /\ UNCHANGED <<store, step, over, results, countVars>>

Save ==
  /\ at = "save" /\ (durable \/ ~over)
  /\ store' = [store EXCEPT ![step] = inHand]
  /\ Passed(inHand, IF changed THEN "changed" ELSE "fresh")
  /\ forgotten' = Replaced
  /\ Keeps /\ UNCHANGED <<over, effects>>

\* Mutant: a result that could not be saved is returned all the same.
SaveFails_Returned ==
  /\ at = "save" /\ (durable \/ over)
  /\ Passed(inHand, IF changed THEN "changed" ELSE "fresh") /\ forgotten' = Forgets(step, input)
  /\ Keeps /\ UNCHANGED <<store, over, effects>>

\* The result cannot be encoded, the context has ended, or the caller's store
\* fails: nothing is returned.
SaveFails ==
  /\ at = "save"
  /\ Stops /\ forgotten' = Forgets(step, input)
  /\ Keeps /\ UNCHANGED <<store, step, over, results, effects>>

\* The caller's store has written when it fails.
SaveUnconfirmed ==
  /\ at = "save" /\ durable
  /\ store' = [store EXCEPT ![step] = inHand] /\ forgotten' = Replaced
  /\ Stops /\ Keeps /\ UNCHANGED <<step, over, results, effects>>

-----------------------------------------------------------------------------
\* What a crash takes: the value in hand and the store in memory.
Gone(s, i) ==
  (IF at = "save" /\ s = step /\ i = input THEN 1 ELSE 0)
    + (IF ~durable /\ store[s].input = i THEN 1 ELSE 0)

Crash ==
  /\ at # "stopped" /\ Stops
  /\ store' = IF durable THEN store ELSE [s \in All |-> NoRecord]
  /\ forgotten' = [s \in All |-> [i \in Inputs |-> forgotten[s][i] + Gone(s, i)]]
  /\ Keeps /\ UNCHANGED <<step, over, results, effects>>

\* The caller lets go of a run's record between two starts.
Delete(s) ==
  /\ ~durable /\ at \in {"stopped", "done"} /\ store[s] # NoRecord
  /\ store' = [store EXCEPT ![s] = NoRecord]
  /\ forgotten' = Forgets(s, store[s].input)
  /\ at' = "stopped" /\ UNCHANGED <<changed, inHand>>
  /\ Keeps /\ UNCHANGED <<step, over, results, effects>>

Next ==
  \/ \E i \in Inputs, t \in {1, 2} : Start(i, t)
  \/ CtxEnds \/ Resume \/ Undecodable \/ Miss \/ LoadFails
  \/ Produce \/ ProduceFails \/ Save \/ SaveFails \/ SaveUnconfirmed
  \/ Crash \/ \E s \in All : Delete(s)
  \/ at \in {"stopped", "done"} /\ UNCHANGED vars

Spec == Init /\ [][Next]_vars

-----------------------------------------------------------------------------
\* "If step N sent an email, re-running the whole pipeline after a crash at step
\* N+1 must not send it twice" (checkpoint.go:24-26): whatever a running program
\* has passed has its record, for the work at hand, so that the next start finds
\* it; and a step is carried out again on an input only when the record of the
\* time before was never made or is gone.
NoReplay ==
  /\ at \notin {"stopped", "done"} =>
       \A s \in 1..(step - 1) : store[s].input = input
  /\ \A s \in All, i \in Inputs : effects[s][i] <= 1 + forgotten[s][i]

\* A program is given answers of its own work only, and in the type it asked for those
\* that it made itself; it is told resumed of exactly those that an earlier start made,
\* so one told that the input changed has carried the step out itself
\* (checkpoint.go:27-38).
OwnResults ==
  \A s \in DOMAIN results :
    LET value == results[s].value
    IN /\ value.input = input
       /\ results[s].how = "resumed" \/ value.shape = shape
       /\ results[s].how = "resumed" <=> value.made < starts

-----------------------------------------------------------------------------
(***************************************************************************)
(* The inductive invariant behind NoReplay and OwnResults.                 *)
(***************************************************************************)
Running == at \notin {"stopped", "done"}
Records == [input : Inputs \cup {"none"}, shape : Nat, made : Nat]
Results == [value : Records, how : {"resumed", "changed", "fresh"}]

CheckpointTypes ==
  /\ at \in {"stopped", "load", "produce", "save", "done"}
  /\ step \in All /\ input \in Inputs /\ shape \in {1, 2} /\ starts \in Nat
  /\ durable \in BOOLEAN /\ changed \in BOOLEAN /\ results \in Seq(Results)
  /\ store \in [All -> Records]
  /\ effects \in [All -> [Inputs -> Nat]] /\ forgotten \in [All -> [Inputs -> Nat]]

\* A record is of some work, made by a start so far; those that a running program
\* has passed are of its work, those that it has not are of earlier starts.
RecordsTrue ==
  /\ \A s \in All : /\ store[s].input = "none" => store[s] = NoRecord
                    /\ store[s].made <= starts
  /\ Running => \A s \in All : IF s < step THEN store[s].input = input
                                           ELSE store[s].made < starts

\* A step is carried out for want of a record only, and what it made is in hand until
\* it is saved.
InHandTrue ==
  /\ at \in {"produce", "save"} => store[step].input # input
  /\ at = "save" => inHand = [input |-> input, shape |-> shape, made |-> starts]

\* Each time a step was carried out is in the store, in hand or forgotten.
EffectsCounted ==
  \A s \in All, i \in Inputs :
    effects[s][i] = forgotten[s][i] + (IF store[s].input = i THEN 1 ELSE 0)
                      + (IF at = "save" /\ s = step /\ i = input THEN 1 ELSE 0)

CheckpointInv ==
  CheckpointTypes /\ RecordsTrue /\ InHandTrue /\ EffectsCounted /\ OwnResults
=============================================================================

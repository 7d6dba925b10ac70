-------------------------------- MODULE Pool -------------------------------
(***************************************************************************)
(* runBounded (internal/ops/plan_many.go), the pool the batch entry points *)
(* share: n steps are handed out in order to a bounded number of worker    *)
(* goroutines.  A step may succeed, fail, panic, or end its goroutine with *)
(* runtime.Goexit, after which its worker is replaced by a new one.        *)
(*                                                                         *)
(* The goroutines share an atomic counter, a wait group, a context and a   *)
(* sync.Once; each access to one of them is a step of the model.           *)
(***************************************************************************)
EXTENDS Integers, FiniteSets

CONSTANTS
  n,               \* how many steps there are
  Workers,         \* boundedOptions.workers
  None             \* no error

ASSUME PoolAssumption ==
  /\ n \in Nat \ {0} /\ Workers \in Int
  /\ None \notin {"failed", "panicked", "stopped"}

\* No more goroutines than steps, and at least one.
workers_PerStep == n        \* Mutant: a goroutine for each step
workers == IF Workers > n THEN n ELSE IF Workers < 1 THEN 1 ELSE Workers

\* The choices the callers of runBounded make: stop at the first failure, run
\* every step whatever happens, or neither.
Options == [stopOnFailure : BOOLEAN, runAfterCancel : BOOLEAN]
             \ {[stopOnFailure |-> TRUE, runAfterCancel |-> TRUE]}

Steps == 1..n
\* Every worker, and a replacement for each step that ends its goroutine.
Goroutines == 1..(workers + n)

VARIABLES
  options,   \* boundedOptions
  pc,        \* pc[g]: where goroutine g is
  current,   \* current[g]: the step it has taken
  next,      \* how many steps have been handed out
  wait,      \* the count of the wait group
  spawned,   \* how many goroutines have been started
  started,   \* the steps that were started
  errs,      \* errs[i]: what step i ended with
  firstStep, \* the step whose error stopped the run, or 0
  cancelled, \* runCtx was cancelled by a failure
  ctxDone,   \* the caller's context is over
  returned,  \* runBounded has returned
  late       \* the steps started after the failure that stopped the run

vars == <<options, pc, current, next, wait, spawned, started, errs, firstStep,
          cancelled, ctxDone, returned, late>>

StopOnFailure == options.stopOnFailure
RunAfterCancel == options.runAfterCancel

Init ==
  /\ options \in Options
  /\ pc = [g \in Goroutines |-> IF g <= workers THEN "check" ELSE "off"]
  /\ current = [g \in Goroutines |-> 0]
  /\ next = 0
  /\ wait = workers
  /\ spawned = workers
  /\ started = {}
  /\ errs = [i \in Steps |-> None]
  /\ firstStep = 0
  /\ cancelled = FALSE
  /\ ctxDone = FALSE
  /\ returned = FALSE
  /\ late = {}

Goto(g, l) == pc' = [pc EXCEPT ![g] = l]

\* runCtx.Err() # nil
RunDone == cancelled \/ ctxDone

\* The condition of the worker's loop.
Check_Never(g) ==     \* Mutant: the context is not looked at
  /\ pc[g] = "check"
  /\ Goto(g, "take")
  /\ UNCHANGED <<options, current, next, wait, spawned, started, errs, firstStep,
                 cancelled, ctxDone, returned, late>>
Check(g) ==
  /\ pc[g] = "check"
  /\ Goto(g, IF RunAfterCancel \/ ~RunDone THEN "take" ELSE "finished")
  /\ UNCHANGED <<options, current, next, wait, spawned, started, errs, firstStep,
                 cancelled, ctxDone, returned, late>>

\* next.Add(1): the step is this goroutine's alone.
Handed_LostUpdate(g) ==     \* Mutant: read and written back
  IF \E h \in Goroutines \ {g} : pc[h] = "take" THEN next ELSE next + 1
Handed(g) == next + 1

Exhausted == next + 1 > n

Take(g) ==
  /\ pc[g] = "take"
  /\ next' = Handed(g)
  /\ IF Exhausted
       THEN Goto(g, "finished") /\ UNCHANGED <<current, started, late>>
       ELSE /\ Goto(g, "run")
            /\ current' = [current EXCEPT ![g] = next + 1]
            /\ started' = started \cup {next + 1}
            /\ late' = IF firstStep # 0 THEN late \cup {next + 1} ELSE late
  /\ UNCHANGED <<options, wait, spawned, errs, firstStep, cancelled, ctxDone, returned>>

\* The step returns, or panics, which runGuarded makes an error of.  A step says
\* that it was stopped only when its context is over.
StepReturns(g) ==
  /\ pc[g] = "run"
  /\ \E e \in {None, "failed", "panicked", "stopped"} :
       /\ e = "stopped" => RunDone
       /\ errs' = [errs EXCEPT ![current[g]] = e]
       /\ Goto(g, IF e = None THEN "check" ELSE "failed")
  /\ UNCHANGED <<options, current, next, wait, spawned, started, firstStep, cancelled,
                 ctxDone, returned, late>>

\* failed: with stopOnFailure the first error stops the run.
NoteFirst_Last(g) ==     \* Mutant: each failure is written over the one before
  IF StopOnFailure
    THEN firstStep' = current[g] /\ cancelled' = TRUE
    ELSE UNCHANGED <<firstStep, cancelled>>
NoteFirst(g) ==
  IF StopOnFailure /\ firstStep = 0
    THEN firstStep' = current[g] /\ cancelled' = TRUE
    ELSE UNCHANGED <<firstStep, cancelled>>

StepFailed(g) ==
  /\ pc[g] = "failed"
  /\ NoteFirst(g)
  /\ Goto(g, "check")
  /\ UNCHANGED <<options, current, next, wait, spawned, started, errs, ctxDone, returned,
                 late>>

\* runtime.Goexit: only the deferred function of the worker runs.  It records
\* the step's error, starts a worker in its place and leaves.
StepExits(g) ==
  /\ pc[g] = "run"
  /\ errs' = [errs EXCEPT ![current[g]] = "panicked"]
  /\ Goto(g, "exiting")
  /\ UNCHANGED <<options, current, next, wait, spawned, started, firstStep, cancelled,
                 ctxDone, returned, late>>

ExitFailed(g) ==
  /\ pc[g] = "exiting"
  /\ NoteFirst(g)
  /\ Goto(g, "replace")
  /\ UNCHANGED <<options, current, next, wait, spawned, started, errs, ctxDone, returned,
                 late>>

\* wait.Add(1), then go worker().
Replace_Nobody(g) ==     \* Mutant: the worker is not replaced
  /\ pc[g] = "replace"
  /\ Goto(g, "finished")
  /\ UNCHANGED <<options, wait, spawned, current, next, started, errs, firstStep,
                 cancelled, ctxDone, returned, late>>
Replace_Uncounted(g) ==     \* Mutant: the new goroutine is not counted
  /\ pc[g] = "replace"
  /\ spawned' = spawned + 1
  /\ pc' = [pc EXCEPT ![g] = "finished", ![spawned + 1] = "check"]
  /\ UNCHANGED <<options, wait, current, next, started, errs, firstStep, cancelled,
                 ctxDone, returned, late>>
Replace(g) ==
  /\ pc[g] = "replace"
  /\ wait' = wait + 1
  /\ spawned' = spawned + 1
  /\ pc' = [pc EXCEPT ![g] = "finished", ![spawned + 1] = "check"]
  /\ UNCHANGED <<options, current, next, started, errs, firstStep, cancelled, ctxDone,
                 returned, late>>

\* wait.Done()
Done(g) ==
  /\ pc[g] = "finished"
  /\ wait' = wait - 1
  /\ Goto(g, "done")
  /\ UNCHANGED <<options, current, next, spawned, started, errs, firstStep, cancelled,
                 ctxDone, returned, late>>

\* wait.Wait(), and the return.
Return ==
  /\ ~returned /\ wait = 0
  /\ returned' = TRUE
  /\ UNCHANGED <<options, pc, current, next, wait, spawned, started, errs, firstStep,
                 cancelled, ctxDone, late>>

CtxEnds ==
  /\ ~ctxDone /\ ~returned
  /\ ctxDone' = TRUE
  /\ UNCHANGED <<options, pc, current, next, wait, spawned, started, errs, firstStep,
                 cancelled, returned, late>>

Over == returned /\ UNCHANGED vars

Worker(g) ==
  \/ Check(g) \/ Take(g) \/ StepReturns(g) \/ StepFailed(g) \/ StepExits(g)
  \/ ExitFailed(g) \/ Replace(g) \/ Done(g)

Next == (\E g \in Goroutines : Worker(g)) \/ Return \/ CtxEnds \/ Over

Spec == Init /\ [][Next]_vars

-----------------------------------------------------------------------------

TypeOK ==
  /\ options \in Options
  /\ pc \in [Goroutines -> {"off", "check", "take", "run", "failed", "exiting",
                            "replace", "finished", "done"}]
  /\ current \in [Goroutines -> 0..n]
  /\ next \in Nat /\ wait \in Nat
  /\ spawned \in Goroutines
  /\ started \subseteq Steps /\ late \subseteq Steps
  /\ errs \in [Steps -> {None, "failed", "panicked", "stopped"}]
  /\ firstStep \in 0..n
  /\ {cancelled, ctxDone, returned} \subseteq BOOLEAN

\* runBounded "returns when every goroutine it started has ended", the ones that
\* replace a worker included.
Joined == returned => \A g \in Goroutines : pc[g] \in {"off", "done"}

\* No step is run by two workers, and no more steps run at once than the bound
\* allows, though workers are replaced while the one they replace still leaves.
RunningBounded ==
  LET running == {g \in Goroutines : pc[g] = "run"}
  IN  /\ Cardinality(running) <= IF Workers < 1 THEN 1 ELSE Workers
      /\ \A g, h \in running : current[g] = current[h] => g = h

\* A step is left unstarted only by a failure that stops the run or by the end of
\* the context: a step that ends its goroutine does not take the ones after it
\* with it.
AllStarted ==
  returned /\ (RunAfterCancel \/ ~RunDone) => started = Steps

\* The error that stopped the run is the first failure "and never the
\* cancellation it caused in the others".
FirstIsCause ==
  /\ firstStep # 0 => errs[firstStep] # None
  /\ firstStep # 0 /\ errs[firstStep] = "stopped" => ctxDone

\* After the failure that stops the run each other worker starts one step at the
\* most, the one it was about to take when it looked at the context.
LateBounded == ~RunAfterCancel => Cardinality(late) < workers

\* The steps runBounded starts: all of them unless the run was stopped, and once
\* it was, no more than the workers had in hand.
StepsStarted == AllStarted /\ LateBounded

\* The pool as its callers rely on it: nothing it started is left running, no step
\* is run twice or beside more steps than the bound, every step was started unless a
\* failure or the context stopped the run, and the error is a cause.
PoolKept == Joined /\ RunningBounded /\ StepsStarted /\ FirstIsCause

-----------------------------------------------------------------------------
(***************************************************************************)
(* The inductive invariant behind PoolKept.                                *)
(***************************************************************************)
Live == {g \in Goroutines : pc[g] \notin {"off", "done"}}
Active == {g \in Goroutines :
             pc[g] \in {"check", "take", "run", "failed", "exiting", "replace"}}
Holding == {g \in Goroutines : pc[g] \in {"run", "failed", "exiting"}}
MayExit == {g \in Goroutines : pc[g] \in {"run", "exiting", "replace"}}
Takers == {g \in Goroutines : pc[g] = "take"}

\* Goroutines are started in order, the wait group counts those that have not ended,
\* no more than the workers are at work, and a replacement is started for a step that
\* was handed out only.
GoroutinesCounted ==
  /\ \A g \in Goroutines : pc[g] = "off" <=> g > spawned
  /\ wait = Cardinality(Live)
  /\ returned => wait = 0
  /\ Cardinality(Active) <= workers
  /\ spawned + Cardinality(MayExit) <= workers + Cardinality(started)

\* The steps handed out are the first ones, each to one goroutine; and the last one
\* at work leaves when all are, or when the run was stopped.
StepsHanded ==
  /\ started = {i \in Steps : i <= next}
  /\ \A g \in Holding : current[g] \in started
  /\ \A g, h \in Holding : current[g] = current[h] => g = h
  /\ Active = {} => next >= n \/ (RunDone /\ ~RunAfterCancel)

\* The failure that stopped the run is one a step ended with before anything was
\* cancelled, and nobody runs that step any more.
CauseNoted ==
  /\ cancelled <=> firstStep # 0
  /\ firstStep # 0 =>
       /\ StopOnFailure /\ firstStep \in started
       /\ \A g \in Holding : current[g] # firstStep
  /\ \A g \in Holding : pc[g] # "run" =>
       /\ errs[current[g]] # None
       /\ errs[current[g]] = "stopped" => ctxDone \/ cancelled

\* Nobody is about to take a step who was not when the run was stopped.
LateCounted ==
  /\ firstStep = 0 => late = {}
  /\ firstStep # 0 => Cardinality(late) + Cardinality(Takers) < workers

PoolInv ==
  TypeOK /\ GoroutinesCounted /\ StepsHanded /\ CauseNoted /\ LateCounted /\ FirstIsCause
=============================================================================

----------------------------- MODULE WorkProofs -----------------------------
(***************************************************************************)
(* Proofs about the parts of module Work, for every number of steps,       *)
(* workers, routes, cells, callers and types.  Each part has an inductive  *)
(* invariant in its own module, and a section here: that it holds at       *)
(* first, that each action keeps it, and what it says of the part.         *)
(***************************************************************************)
EXTENDS Work, SumTheorems, TLAPS, FiniteSetTheorems, SequenceTheorems

-----------------------------------------------------------------------------
\* The bounded worker pool.

\* At least one worker, and no more than the bound or the steps.
LEMMA WorkersBounded ==
  /\ workers \in 1..n
  /\ workers <= IF Workers < 1 THEN 1 ELSE Workers
  BY PoolAssumption DEF workers

\* The sets goroutines are counted in are finite.
LEMMA PoolFinite ==
  ASSUME NEW part \in SUBSET Goroutines
  PROVE  IsFiniteSet(part) /\ Cardinality(part) \in Nat
<1>1. IsFiniteSet(Goroutines)
  BY WorkersBounded, PoolAssumption, FS_Interval DEF Goroutines
<1> QED  BY <1>1, FS_Subset, FS_CardinalityType

\* The steps and what is told of them are finite sets.
LEMMA StepsFinite ==
  ASSUME NEW part \in SUBSET Steps
  PROVE  IsFiniteSet(part) /\ Cardinality(part) \in 0..n
<1>1. IsFiniteSet(Steps) /\ Cardinality(Steps) = n
  BY PoolAssumption, FS_Interval DEF Steps
<1> QED  BY <1>1, FS_Subset, FS_CardinalityType, PoolAssumption

\* A goroutine joins or leaves one of the sets.
LEMMA PoolJoins ==
  ASSUME NEW part \in SUBSET Goroutines, NEW g, g \notin part
  PROVE  Cardinality(part \cup {g}) = Cardinality(part) + 1
  BY PoolFinite, FS_AddElement

\* A goroutine that leaves a set lowers its count by one.
LEMMA PoolLeaves ==
  ASSUME NEW part \in SUBSET Goroutines, NEW g \in part
  PROVE  /\ Cardinality(part \ {g}) = Cardinality(part) - 1
         /\ Cardinality(part) >= 1
<1>1. Cardinality(part \ {g}) = Cardinality(part) - 1
  BY PoolFinite, FS_RemoveElement
<1>2. Cardinality(part \ {g}) \in Nat /\ Cardinality(part) \in Nat
  BY PoolFinite
<1> QED  BY <1>1, <1>2

\* The sets of goroutines the invariant counts are sets of goroutines.
LEMMA PoolSets ==
  /\ Live \in SUBSET Goroutines /\ Active \in SUBSET Goroutines
  /\ MayExit \in SUBSET Goroutines /\ Takers \in SUBSET Goroutines
  /\ Cardinality(Live) \in Nat /\ Cardinality(Active) \in Nat
  /\ Cardinality(MayExit) \in Nat /\ Cardinality(Takers) \in Nat
<1>1. /\ Live \in SUBSET Goroutines /\ Active \in SUBSET Goroutines
      /\ MayExit \in SUBSET Goroutines /\ Takers \in SUBSET Goroutines
  BY DEF Live, Active, MayExit, Takers
<1> QED  BY <1>1, PoolFinite

\* While a goroutine lives the pool has not returned.
LEMMA LiveWaited ==
  ASSUME PoolInv, NEW g \in Goroutines, pc[g] \notin {"off", "done"}
  PROVE  ~returned /\ wait >= 1 /\ g <= spawned
<1>1. g \in Live
  BY DEF Live
<1>2. Cardinality(Live) >= 1
  BY <1>1, PoolSets, PoolLeaves
<1>3. wait >= 1 /\ ~returned
  BY <1>2, PoolSets DEF PoolInv, GoroutinesCounted
<1>4. g <= spawned
  BY WorkersBounded, PoolAssumption DEF PoolInv, GoroutinesCounted, TypeOK, Goroutines
<1> QED  BY <1>3, <1>4

\* The invariant holds when the pool starts.
LEMMA PoolInit == Init => PoolInv
<1> SUFFICES ASSUME Init PROVE PoolInv
  OBVIOUS
<1> USE DEF Init
<1>1. workers \in 1..n /\ n \in Nat /\ workers + n \in Nat /\ workers \in Goroutines
  BY WorkersBounded, PoolAssumption DEF Goroutines
<1>2. TypeOK
  <2>1. pc \in [Goroutines -> {"off", "check", "take", "run", "failed", "exiting",
                              "replace", "finished", "done"}]
    OBVIOUS
  <2>2. current \in [Goroutines -> 0..n]
          /\ errs \in [Steps -> {None, "failed", "panicked", "stopped"}]
    BY <1>1
  <2>3. {cancelled, ctxDone, returned} \subseteq BOOLEAN
    OBVIOUS
  <2>4. next \in Nat /\ wait \in Nat /\ firstStep \in 0..n /\ spawned \in Goroutines
    BY <1>1
  <2> QED  BY <2>1, <2>2, <2>3, <2>4 DEF TypeOK
<1>3. Live = 1..workers /\ Active = 1..workers
  BY <1>1 DEF Live, Active, Goroutines
<1>4. MayExit = {} /\ Takers = {} /\ Holding = {}
  BY DEF MayExit, Takers, Holding
<1>5. Cardinality(1..workers) = workers
  BY <1>1, FS_Interval
<1>6. GoroutinesCounted
  <2>1. \A g \in Goroutines : pc[g] = "off" <=> g > spawned
    BY <1>1 DEF Goroutines
  <2> QED  BY <2>1, <1>1, <1>3, <1>4, <1>5, FS_EmptySet DEF GoroutinesCounted
<1>7. StepsHanded
  BY <1>1, <1>3, <1>4 DEF StepsHanded, Steps
<1>8. CauseNoted /\ LateCounted /\ FirstIsCause
  BY <1>4 DEF CauseNoted, LateCounted, FirstIsCause
<1> QED  BY <1>2, <1>6, <1>7, <1>8 DEF PoolInv

\* The loop's condition: who looks after the run was stopped leaves.
LEMMA PoolCheck ==
  ASSUME PoolInv, NEW g \in Goroutines, Check(g)
  PROVE  PoolInv'
<1> USE DEF Check, Goto
<1>a. CASE RunAfterCancel \/ ~RunDone
  <2>1. pc' = [pc EXCEPT ![g] = "take"]
    BY <1>a
  <2>2. TypeOK'
    BY <2>1 DEF PoolInv, TypeOK
  <2>3. /\ Live' = Live /\ Active' = Active /\ MayExit' = MayExit /\ Holding' = Holding
        /\ g \in Active
    BY <2>1 DEF PoolInv, TypeOK, Live, Active, MayExit, Holding
  <2>4. firstStep = 0
    BY <1>a DEF PoolInv, TypeOK, CauseNoted, Options, RunAfterCancel, StopOnFailure, RunDone
  <2>5. GoroutinesCounted'
    <3>1. \A h \in Goroutines : pc'[h] = "off" <=> h > spawned
      BY <2>1 DEF PoolInv, TypeOK, GoroutinesCounted
    <3> QED  BY <3>1, <2>3 DEF PoolInv, GoroutinesCounted
  <2>6. StepsHanded'
    BY <2>3 DEF PoolInv, StepsHanded
  <2>7. CauseNoted'
    BY <2>1, <2>3, <2>4 DEF PoolInv, TypeOK, CauseNoted, Holding
  <2>8. LateCounted' /\ FirstIsCause'
    BY <2>4 DEF PoolInv, LateCounted, FirstIsCause
  <2> QED  BY <2>2, <2>5, <2>6, <2>7, <2>8 DEF PoolInv
<1>b. CASE ~(RunAfterCancel \/ ~RunDone)
  <2>1. pc' = [pc EXCEPT ![g] = "finished"]
    BY <1>b
  <2>2. TypeOK'
    BY <2>1 DEF PoolInv, TypeOK
  <2>3. /\ Live' = Live /\ Active' = Active \ {g} /\ MayExit' = MayExit /\ Holding' = Holding
        /\ Takers' = Takers /\ g \in Active
    BY <2>1 DEF PoolInv, TypeOK, Live, Active, MayExit, Holding, Takers
  <2>4. Cardinality(Active') <= workers
    BY <2>3, PoolLeaves, PoolSets, WorkersBounded DEF PoolInv, GoroutinesCounted
  <2>5. GoroutinesCounted'
    <3>1. \A h \in Goroutines : pc'[h] = "off" <=> h > spawned
      BY <2>1 DEF PoolInv, TypeOK, GoroutinesCounted
    <3> QED  BY <3>1, <2>3, <2>4 DEF PoolInv, GoroutinesCounted
  <2>6. StepsHanded'
    BY <2>3, <1>b DEF PoolInv, StepsHanded, RunDone, RunAfterCancel
  <2>7. CauseNoted'
    BY <2>1, <2>3 DEF PoolInv, TypeOK, CauseNoted, Holding, StopOnFailure
  <2>8. LateCounted' /\ FirstIsCause'
    BY <2>3 DEF PoolInv, LateCounted, FirstIsCause
  <2> QED  BY <2>2, <2>5, <2>6, <2>7, <2>8 DEF PoolInv
<1> QED  BY <1>a, <1>b

\* A goroutine takes the next step, which nobody has.
LEMMA PoolTake ==
  ASSUME PoolInv, NEW g \in Goroutines, Take(g)
  PROVE  PoolInv'
<1> USE DEF Take, Goto, Handed, Exhausted
<1>0. next \in Nat /\ n \in Nat
  BY PoolAssumption DEF PoolInv, TypeOK
<1>a. CASE next + 1 > n
  <2>1. /\ pc' = [pc EXCEPT ![g] = "finished"] /\ next' = next + 1
        /\ UNCHANGED <<current, started, late>>
    BY <1>a
  <2>2. TypeOK'
    BY <2>1 DEF PoolInv, TypeOK
  <2>3. /\ Live' = Live /\ Active' = Active \ {g} /\ MayExit' = MayExit /\ Holding' = Holding
        /\ Takers' = Takers \ {g} /\ g \in Active /\ g \in Takers
    BY <2>1 DEF PoolInv, TypeOK, Live, Active, MayExit, Holding, Takers
  <2>4. /\ Cardinality(Active') <= workers
        /\ Cardinality(Takers') = Cardinality(Takers) - 1
    BY <2>3, PoolLeaves, PoolSets, WorkersBounded DEF PoolInv, GoroutinesCounted
  <2>5. GoroutinesCounted'
    <3>1. \A h \in Goroutines : pc'[h] = "off" <=> h > spawned
      BY <2>1 DEF PoolInv, TypeOK, GoroutinesCounted
    <3> QED  BY <3>1, <2>1, <2>3, <2>4 DEF PoolInv, GoroutinesCounted
  <2>6. StepsHanded'
    <3>1. started = {i \in Steps : i <= next + 1}
      BY <1>0, <1>a DEF PoolInv, StepsHanded, Steps
    <3> QED  BY <3>1, <2>1, <2>3, <1>0, <1>a DEF PoolInv, StepsHanded
  <2>7. CauseNoted'
    BY <2>1, <2>3 DEF PoolInv, TypeOK, CauseNoted, Holding, StopOnFailure
  <2>8. LateCounted' /\ FirstIsCause'
    <3>1. Cardinality(late) \in Nat
      BY StepsFinite DEF PoolInv, TypeOK
    <3> QED  BY <3>1, <2>1, <2>4, PoolSets, WorkersBounded DEF PoolInv, LateCounted,
               FirstIsCause
  <2> QED  BY <2>2, <2>5, <2>6, <2>7, <2>8 DEF PoolInv
<1>b. CASE ~(next + 1 > n)
  <2>1. /\ pc' = [pc EXCEPT ![g] = "run"] /\ next' = next + 1
        /\ current' = [current EXCEPT ![g] = next + 1]
        /\ started' = started \cup {next + 1}
        /\ late' = IF firstStep # 0 THEN late \cup {next + 1} ELSE late
    BY <1>b
  <2>0. next + 1 \in Steps /\ next + 1 \notin started /\ started \in SUBSET Steps
    BY <1>0, <1>b DEF Steps, PoolInv, StepsHanded
  <2>2. TypeOK'
    <3>1. current' \in [Goroutines -> 0..n]
      BY <2>1, <1>0, <1>b DEF PoolInv, TypeOK
    <3> QED  BY <3>1, <2>1, <2>0, <1>0 DEF PoolInv, TypeOK
  <2>3. /\ Live' = Live /\ Active' = Active /\ Takers' = Takers \ {g} /\ g \in Takers
        /\ MayExit' = MayExit \cup {g} /\ g \notin MayExit
        /\ Holding' = Holding \cup {g} /\ g \notin Holding /\ g \in Active
    BY <2>1 DEF PoolInv, TypeOK, Live, Active, MayExit, Holding, Takers
  <2>4. /\ Cardinality(MayExit') = Cardinality(MayExit) + 1
        /\ Cardinality(Takers') = Cardinality(Takers) - 1
    BY <2>3, PoolLeaves, PoolJoins, PoolSets
  <2>5. Cardinality(started') = Cardinality(started) + 1 /\ Cardinality(started) \in Nat
    BY <2>0, <2>1, StepsFinite, FS_AddElement
  <2>6. GoroutinesCounted'
    <3>1. \A h \in Goroutines : pc'[h] = "off" <=> h > spawned
      BY <2>1 DEF PoolInv, TypeOK, GoroutinesCounted
    <3>2. (spawned + Cardinality(MayExit) <= workers + Cardinality(started))'
      BY <2>4, <2>5, PoolSets, WorkersBounded DEF PoolInv, GoroutinesCounted, TypeOK, Goroutines
    <3> QED  BY <3>1, <3>2, <2>3 DEF PoolInv, GoroutinesCounted
  <2>7. StepsHanded'
    <3>1. started' = {i \in Steps : i <= next + 1}
      BY <2>0, <2>1, <1>0 DEF PoolInv, StepsHanded, Steps
    <3>2. \A h \in Holding' : current'[h] \in started'
      BY <2>1, <2>3 DEF PoolInv, StepsHanded, TypeOK, Holding
    <3>3. \A h, k \in Holding' : current'[h] = current'[k] => h = k
      BY <2>0, <2>1, <2>3 DEF PoolInv, StepsHanded, TypeOK, Holding
    <3>4. Active' # {}
      BY <2>3
    <3> QED  BY <3>1, <3>2, <3>3, <3>4, <2>1 DEF StepsHanded
  <2>8. CauseNoted'
    <3>1. firstStep # 0 => firstStep \in started'
      BY <2>1 DEF PoolInv, CauseNoted
    <3>2. firstStep # 0 => \A h \in Holding' : current'[h] # firstStep
      BY <2>0, <2>1, <2>3 DEF PoolInv, CauseNoted, TypeOK, Holding
    <3>3. \A h \in Holding' : pc'[h] # "run" => h \in Holding
            /\ current'[h] = current[h] /\ pc'[h] = pc[h]
      BY <2>1, <2>3 DEF PoolInv, TypeOK, Holding
    <3> QED  BY <3>1, <3>2, <3>3, <2>1 DEF PoolInv, CauseNoted, StopOnFailure
  <2>9. LateCounted' /\ FirstIsCause'
    <3>1. late \in SUBSET Steps /\ IsFiniteSet(late) /\ Cardinality(late) \in Nat
      BY StepsFinite DEF PoolInv, TypeOK
    <3>2. ASSUME NEW i
          PROVE  /\ Cardinality(late \cup {i}) <= Cardinality(late) + 1
                 /\ Cardinality(late \cup {i}) \in Nat
      BY <3>1, FS_AddElement
    <3>3. firstStep # 0 => Cardinality(late') + Cardinality(Takers') < workers
      <4> HAVE firstStep # 0
      <4>1. late' = late \cup {next + 1}
        BY <2>1
      <4>2. Cardinality(late') <= Cardinality(late) + 1 /\ Cardinality(late') \in Nat
        BY <3>2, <4>1
      <4>3. Cardinality(late) + Cardinality(Takers) < workers
        BY DEF PoolInv, LateCounted
      <4> QED  BY <4>2, <4>3, <3>1, <2>4, PoolSets, WorkersBounded
    <3> QED  BY <3>3, <2>1 DEF PoolInv, LateCounted, FirstIsCause
  <2> QED  BY <2>2, <2>6, <2>7, <2>8, <2>9 DEF PoolInv
<1> QED  BY <1>a, <1>b

\* A step ends with an error or without; it is not the one that stopped the run.
LEMMA PoolStepReturns ==
  ASSUME PoolInv, NEW g \in Goroutines, StepReturns(g)
  PROVE  PoolInv'
<1> USE DEF StepReturns, Goto
<1>1. PICK e \in {None, "failed", "panicked", "stopped"} :
        /\ e = "stopped" => RunDone
        /\ errs' = [errs EXCEPT ![current[g]] = e]
        /\ pc' = [pc EXCEPT ![g] = IF e = None THEN "check" ELSE "failed"]
  OBVIOUS
<1>2. g \in Holding /\ current[g] \in Steps
  BY DEF PoolInv, StepsHanded, Holding, TypeOK
<1>3. TypeOK'
  BY <1>1, <1>2 DEF PoolInv, TypeOK
<1>4. /\ Live' = Live /\ Active' = Active /\ Takers' = Takers
      /\ MayExit' = MayExit \ {g} /\ g \in MayExit
      /\ Holding' \subseteq Holding /\ g \in Active
  BY <1>1 DEF PoolInv, TypeOK, Live, Active, MayExit, Holding, Takers
<1>5. GoroutinesCounted'
  <2>1. \A h \in Goroutines : pc'[h] = "off" <=> h > spawned
    BY <1>1 DEF PoolInv, TypeOK, GoroutinesCounted
  <2>2. Cardinality(MayExit') = Cardinality(MayExit) - 1
    BY <1>4, PoolLeaves, PoolSets
  <2>3. Cardinality(started) \in Nat
    BY StepsFinite DEF PoolInv, TypeOK
  <2>4. (spawned + Cardinality(MayExit) <= workers + Cardinality(started))'
    BY <2>2, <2>3, PoolSets, WorkersBounded DEF PoolInv, GoroutinesCounted, TypeOK, Goroutines
  <2> QED  BY <2>1, <2>4, <1>4 DEF PoolInv, GoroutinesCounted
<1>6. StepsHanded'
  BY <1>4 DEF PoolInv, StepsHanded
<1>7. CauseNoted'
  <2>1. ASSUME NEW h \in Holding', pc'[h] # "run"
        PROVE  /\ errs'[current[h]] # None
               /\ errs'[current[h]] = "stopped" => ctxDone \/ cancelled
    <3>1. h \in Holding /\ h \in Goroutines
      BY <1>4 DEF Holding
    <3>a. CASE h = g
      <4>1. e # None
        BY <3>a, <2>1, <1>1 DEF Holding, PoolInv, TypeOK
      <4> QED  BY <4>1, <3>a, <1>1, <1>2 DEF PoolInv, TypeOK, RunDone
    <3>b. CASE h # g
      <4>1. pc'[h] = pc[h] /\ current[h] # current[g]
        BY <3>b, <3>1, <1>1, <1>2 DEF PoolInv, TypeOK, StepsHanded
      <4>2. errs'[current[h]] = errs[current[h]]
        BY <4>1, <3>1, <1>1, <1>2 DEF PoolInv, TypeOK, StepsHanded
      <4> QED  BY <4>1, <4>2, <3>1, <2>1 DEF PoolInv, CauseNoted
    <3> QED  BY <3>a, <3>b
  <2> QED  BY <2>1, <1>4 DEF PoolInv, CauseNoted, StopOnFailure
<1>8. LateCounted'
  BY <1>4 DEF PoolInv, LateCounted
<1>9. FirstIsCause'
  <2>1. firstStep # 0 => firstStep \in Steps /\ current[g] # firstStep
    BY <1>2 DEF PoolInv, CauseNoted, TypeOK
  <2> QED  BY <2>1, <1>1, <1>2 DEF PoolInv, FirstIsCause, TypeOK
<1> QED  BY <1>3, <1>5, <1>6, <1>7, <1>8, <1>9 DEF PoolInv

\* A step that ends its goroutine keeps the invariant.
LEMMA PoolStepExits ==
  ASSUME PoolInv, NEW g \in Goroutines, StepExits(g)
  PROVE  PoolInv'
<1> USE DEF StepExits, Goto
<1>1. /\ errs' = [errs EXCEPT ![current[g]] = "panicked"]
      /\ pc' = [pc EXCEPT ![g] = "exiting"]
  OBVIOUS
<1>2. g \in Holding /\ current[g] \in Steps
  BY DEF PoolInv, StepsHanded, Holding, TypeOK
<1>3. TypeOK'
  BY <1>1, <1>2 DEF PoolInv, TypeOK
<1>4. /\ Live' = Live /\ Active' = Active /\ Takers' = Takers
      /\ MayExit' = MayExit /\ Holding' = Holding /\ g \in Active
  BY <1>1 DEF PoolInv, TypeOK, Live, Active, MayExit, Holding, Takers
<1>5. GoroutinesCounted'
  <2>1. \A h \in Goroutines : pc'[h] = "off" <=> h > spawned
    BY <1>1 DEF PoolInv, TypeOK, GoroutinesCounted
  <2> QED  BY <2>1, <1>4 DEF PoolInv, GoroutinesCounted
<1>6. StepsHanded'
  BY <1>4 DEF PoolInv, StepsHanded
<1>7. CauseNoted'
  <2>1. ASSUME NEW h \in Holding', pc'[h] # "run"
        PROVE  /\ errs'[current[h]] # None
               /\ errs'[current[h]] = "stopped" => ctxDone \/ cancelled
    <3>1. h \in Holding /\ h \in Goroutines
      BY <1>4 DEF Holding
    <3>a. CASE h = g
      BY <3>a, <1>1, <1>2, PoolAssumption DEF PoolInv, TypeOK
    <3>b. CASE h # g
      <4>1. pc'[h] = pc[h] /\ current[h] # current[g]
        BY <3>b, <3>1, <1>1, <1>2 DEF PoolInv, TypeOK, StepsHanded
      <4>2. errs'[current[h]] = errs[current[h]]
        BY <4>1, <3>1, <1>1, <1>2 DEF PoolInv, TypeOK, StepsHanded
      <4> QED  BY <4>1, <4>2, <3>1, <2>1 DEF PoolInv, CauseNoted
    <3> QED  BY <3>a, <3>b
  <2> QED  BY <2>1, <1>4 DEF PoolInv, CauseNoted, StopOnFailure
<1>8. LateCounted'
  BY <1>4 DEF PoolInv, LateCounted
<1>9. FirstIsCause'
  <2>1. firstStep # 0 => firstStep \in Steps /\ current[g] # firstStep
    BY <1>2 DEF PoolInv, CauseNoted, TypeOK
  <2> QED  BY <2>1, <1>1, <1>2 DEF PoolInv, FirstIsCause, TypeOK
<1> QED  BY <1>3, <1>5, <1>6, <1>7, <1>8, <1>9 DEF PoolInv

\* A failure is noted when it is the first, and the others about to take a step are
\* fewer than the workers: the goroutine that notes it is at work itself.
LEMMA PoolNotes ==
  ASSUME PoolInv, NEW g \in Goroutines, pc[g] \in {"failed", "exiting"}, NoteFirst(g),
         NEW l \in {"check", "replace"}, pc' = [pc EXCEPT ![g] = l],
         pc[g] = "exiting" => l = "replace",
         pc[g] = "failed" => l = "check",
         UNCHANGED <<options, current, next, wait, spawned, started, errs, ctxDone, returned,
                     late>>
  PROVE  PoolInv'
<1>1. g \in Holding /\ current[g] \in Steps /\ current[g] \in started /\ current[g] # 0
  BY DEF PoolInv, StepsHanded, Holding, TypeOK, Steps
<1>2. /\ firstStep' = IF StopOnFailure /\ firstStep = 0 THEN current[g] ELSE firstStep
      /\ cancelled' = IF StopOnFailure /\ firstStep = 0 THEN TRUE ELSE cancelled
  BY DEF NoteFirst
<1>3. TypeOK'
  <2>1. firstStep' \in 0..n
    BY <1>1, <1>2 DEF PoolInv, TypeOK, Steps
  <2>2. cancelled' \in BOOLEAN
    BY <1>2 DEF PoolInv, TypeOK
  <2> QED  BY <2>1, <2>2 DEF PoolInv, TypeOK
<1>4. /\ Live' = Live /\ Active' = Active /\ Takers' = Takers
      /\ MayExit' = MayExit /\ Holding' = Holding \ {g} /\ g \in Active
      /\ Takers \subseteq Active \ {g}
  BY DEF PoolInv, TypeOK, Live, Active, MayExit, Holding, Takers
<1>5. GoroutinesCounted'
  <2>1. \A h \in Goroutines : pc'[h] = "off" <=> h > spawned
    BY DEF PoolInv, TypeOK, GoroutinesCounted
  <2> QED  BY <2>1, <1>4 DEF PoolInv, GoroutinesCounted
<1>6. StepsHanded'
  BY <1>4 DEF PoolInv, StepsHanded
<1>7. CauseNoted'
  <2>1. \A h \in Holding' : h \in Holding /\ h # g /\ pc'[h] = pc[h] /\ current[h] # current[g]
    BY <1>1, <1>4 DEF PoolInv, StepsHanded, TypeOK, Holding
  <2>2. (cancelled <=> firstStep # 0)'
    BY <1>1, <1>2 DEF PoolInv, CauseNoted
  <2>3. firstStep' # 0 => /\ StopOnFailure /\ firstStep' \in started
                          /\ \A h \in Holding' : current[h] # firstStep'
    BY <1>1, <1>2, <2>1 DEF PoolInv, CauseNoted
  <2>4. \A h \in Holding' : pc'[h] # "run" =>
          /\ errs[current[h]] # None
          /\ errs[current[h]] = "stopped" => ctxDone \/ cancelled'
    BY <2>1, <1>2 DEF PoolInv, CauseNoted
  <2> QED  BY <2>2, <2>3, <2>4 DEF CauseNoted, StopOnFailure
<1>8. LateCounted'
  <2>1. Cardinality(Takers) < workers
    <3>1. Cardinality(Active \ {g}) = Cardinality(Active) - 1
      BY <1>4, PoolSets, PoolLeaves
    <3>2. IsFiniteSet(Active \ {g})
      BY PoolSets, PoolFinite
    <3>3. Cardinality(Takers) <= Cardinality(Active \ {g})
      BY <1>4, <3>2, FS_Subset
    <3> QED  BY <3>1, <3>3, PoolSets, WorkersBounded DEF PoolInv, GoroutinesCounted
  <2>2. firstStep = 0 => Cardinality(late) = 0
    BY FS_EmptySet DEF PoolInv, LateCounted
  <2> QED  BY <2>1, <2>2, <1>1, <1>2, <1>4, PoolSets DEF PoolInv, LateCounted
<1>9. FirstIsCause'
  <2>1. errs[current[g]] # None
    BY <1>1 DEF PoolInv, CauseNoted
  <2>2. firstStep = 0 => (errs[current[g]] = "stopped" => ctxDone)
    BY <1>1 DEF PoolInv, CauseNoted
  <2> QED  BY <2>1, <2>2, <1>2 DEF PoolInv, FirstIsCause
<1> QED  BY <1>3, <1>5, <1>6, <1>7, <1>8, <1>9 DEF PoolInv

\* A replacement is one more to wait for, and takes the place of who leaves.
LEMMA PoolReplace ==
  ASSUME PoolInv, NEW g \in Goroutines, Replace(g)
  PROVE  PoolInv'
<1> DEFINE h == spawned + 1
<1> USE DEF Replace
<1>1. h \in Goroutines /\ h # g /\ pc[h] = "off" /\ spawned \in Nat
  <2>1. g \in MayExit
    BY DEF MayExit
  <2>2. Cardinality(MayExit) >= 1
    BY <2>1, PoolSets, PoolLeaves
  <2>3. Cardinality(started) \in 0..n
    BY StepsFinite DEF PoolInv, TypeOK
  <2>4. spawned \in Nat /\ spawned >= 1
    BY DEF PoolInv, TypeOK, Goroutines
  <2>5. spawned + 1 <= workers + n
    BY <2>2, <2>3, <2>4, PoolSets, WorkersBounded, PoolAssumption DEF PoolInv, GoroutinesCounted
  <2>6. h \in Goroutines
    BY <2>4, <2>5, WorkersBounded, PoolAssumption DEF Goroutines
  <2> QED  BY <2>4, <2>6 DEF PoolInv, GoroutinesCounted
<1>2. pc' = [pc EXCEPT ![g] = "finished", ![h] = "check"] /\ spawned' = h /\ wait' = wait + 1
  OBVIOUS
<1> HIDE DEF h
<1>3. TypeOK'
  BY <1>1, <1>2 DEF PoolInv, TypeOK
<1>4. /\ Live' = Live \cup {h} /\ h \notin Live
      /\ Active' = (Active \ {g}) \cup {h} /\ g \in Active /\ h \notin Active \ {g}
      /\ MayExit' = MayExit \ {g} /\ g \in MayExit
      /\ Takers' = Takers /\ Holding' = Holding
  BY <1>1, <1>2 DEF PoolInv, TypeOK, Live, Active, MayExit, Holding, Takers
<1>5. GoroutinesCounted'
  <2>1. \A k \in Goroutines : pc'[k] = "off" <=> k > spawned'
    <3>1. \A k \in Goroutines : k \in Int
      BY WorkersBounded, PoolAssumption DEF Goroutines
    <3> QED  BY <3>1, <1>1, <1>2, LiveWaited DEF PoolInv, TypeOK, GoroutinesCounted, h
  <2>2. Cardinality(Live') = Cardinality(Live) + 1
    BY <1>4, PoolJoins, PoolSets
  <2>3. Cardinality(Active') = Cardinality(Active)
    <3>1. Active \ {g} \in SUBSET Goroutines
            /\ Cardinality(Active \ {g}) = Cardinality(Active) - 1
      BY <1>4, PoolLeaves, PoolSets
    <3>2. Cardinality(Active') = Cardinality(Active \ {g}) + 1
      BY <1>4, <3>1, PoolJoins
    <3> QED  BY <3>1, <3>2, PoolSets
  <2>4. Cardinality(MayExit') = Cardinality(MayExit) - 1
    BY <1>4, PoolLeaves, PoolSets
  <2>5. Cardinality(started) \in Nat
    BY StepsFinite DEF PoolInv, TypeOK
  <2>6. ~returned
    BY LiveWaited
  <2>7. (spawned + Cardinality(MayExit) <= workers + Cardinality(started))'
    BY <2>4, <2>5, <1>1, <1>2, PoolSets, WorkersBounded DEF PoolInv, GoroutinesCounted, h
  <2> QED  BY <2>1, <2>2, <2>3, <2>6, <2>7, <1>2 DEF PoolInv, GoroutinesCounted
<1>6. StepsHanded'
  <2>1. Active' # {}
    BY <1>4
  <2> QED  BY <2>1, <1>4 DEF PoolInv, StepsHanded
<1>7. CauseNoted'
  <2>1. \A k \in Holding' : k \in Holding /\ pc'[k] = pc[k]
    BY <1>1, <1>2, <1>4 DEF PoolInv, TypeOK, Holding
  <2> QED  BY <2>1, <1>4 DEF PoolInv, CauseNoted, StopOnFailure
<1>8. LateCounted' /\ FirstIsCause'
  BY <1>4 DEF PoolInv, LateCounted, FirstIsCause
<1> QED  BY <1>3, <1>5, <1>6, <1>7, <1>8 DEF PoolInv

\* A worker that runs out of steps keeps the invariant.
LEMMA PoolDone ==
  ASSUME PoolInv, NEW g \in Goroutines, Done(g)
  PROVE  PoolInv'
<1> USE DEF Done, Goto
<1>1. wait >= 1 /\ ~returned
  BY LiveWaited
<1>2. pc' = [pc EXCEPT ![g] = "done"] /\ wait' = wait - 1
  OBVIOUS
<1>3. TypeOK'
  BY <1>1, <1>2 DEF PoolInv, TypeOK
<1>4. /\ Live' = Live \ {g} /\ g \in Live /\ Active' = Active /\ MayExit' = MayExit
      /\ Takers' = Takers /\ Holding' = Holding
  BY <1>2 DEF PoolInv, TypeOK, Live, Active, MayExit, Holding, Takers
<1>5. GoroutinesCounted'
  <2>1. \A h \in Goroutines : pc'[h] = "off" <=> h > spawned
    BY <1>2 DEF PoolInv, TypeOK, GoroutinesCounted
  <2>2. Cardinality(Live') = Cardinality(Live) - 1
    BY <1>4, PoolLeaves, PoolSets
  <2> QED  BY <2>1, <2>2, <1>1, <1>2, <1>4 DEF PoolInv, GoroutinesCounted
<1>6. StepsHanded'
  BY <1>4 DEF PoolInv, StepsHanded, RunDone, RunAfterCancel
<1>7. CauseNoted'
  <2>1. \A k \in Holding' : k \in Holding /\ pc'[k] = pc[k]
    BY <1>2, <1>4 DEF PoolInv, TypeOK, Holding
  <2> QED  BY <2>1, <1>4 DEF PoolInv, CauseNoted, StopOnFailure
<1>8. LateCounted' /\ FirstIsCause'
  BY <1>4 DEF PoolInv, LateCounted, FirstIsCause
<1> QED  BY <1>3, <1>5, <1>6, <1>7, <1>8 DEF PoolInv

\* Every step of the pool keeps the invariant.
LEMMA PoolNext ==
  ASSUME PoolInv, [Next]_vars
  PROVE  PoolInv'
<1>1. ASSUME NEW g \in Goroutines, Worker(g)
      PROVE  PoolInv'
  <2>1. ASSUME StepFailed(g) PROVE PoolInv'
    BY <2>1, PoolNotes DEF StepFailed, Goto
  <2>2. ASSUME ExitFailed(g) PROVE PoolInv'
    BY <2>2, PoolNotes DEF ExitFailed, Goto
  <2> QED  BY <1>1, <2>1, <2>2, PoolCheck, PoolTake, PoolStepReturns, PoolStepExits,
              PoolReplace, PoolDone DEF Worker
<1>2. ASSUME UNCHANGED <<options, pc, current, next, wait, spawned, started, errs, firstStep,
                         cancelled, late>>,
             ctxDone' \in BOOLEAN, ctxDone => ctxDone',
             returned' \in BOOLEAN, returned' => wait = 0
      PROVE  PoolInv'
  <2>1. /\ Live' = Live /\ Active' = Active /\ MayExit' = MayExit /\ Takers' = Takers
        /\ Holding' = Holding
    BY <1>2 DEF Live, Active, MayExit, Takers, Holding
  <2>2. TypeOK'
    <3>1. {cancelled', ctxDone', returned'} \subseteq BOOLEAN
      BY <1>2 DEF PoolInv, TypeOK
    <3> QED  BY <3>1, <1>2 DEF PoolInv, TypeOK
  <2>3. GoroutinesCounted'
    BY <2>1, <1>2 DEF PoolInv, GoroutinesCounted
  <2>4. StepsHanded'
    BY <2>1, <1>2 DEF PoolInv, StepsHanded, RunDone, RunAfterCancel
  <2>5. CauseNoted'
    BY <2>1, <1>2 DEF PoolInv, CauseNoted, StopOnFailure
  <2>6. LateCounted' /\ FirstIsCause'
    BY <2>1, <1>2 DEF PoolInv, LateCounted, FirstIsCause
  <2> QED  BY <2>2, <2>3, <2>4, <2>5, <2>6 DEF PoolInv
<1>3. CASE Return
  BY <1>2, <1>3 DEF Return, PoolInv, TypeOK
<1>4. CASE CtxEnds
  <2>1. returned => wait = 0
    BY DEF PoolInv, GoroutinesCounted
  <2> QED  BY <1>2, <1>4, <2>1 DEF CtxEnds, PoolInv, TypeOK
<1>5. CASE UNCHANGED vars
  <2>1. returned => wait = 0
    BY DEF PoolInv, GoroutinesCounted
  <2> QED  BY <1>2, <1>5, <2>1 DEF vars, PoolInv, TypeOK
<1> QED  BY <1>1, <1>3, <1>4, <1>5 DEF Next, Over

\* The pool's inductive invariant: every index was taken by one goroutine, a
\* live goroutine is waited for, and each failure is noted by the step that had it.
THEOREM PoolInductive == Spec => []PoolInv
<1> QED  BY PoolInit, PoolNext, PTL DEF Spec

\* No more steps run at once than the bound allows, none runs twice, and the pool
\* returns only when every step it started has ended (runBounded).
THEOREM PoolIsKept == Spec => []PoolKept
<1>1. ASSUME PoolInv PROVE PoolKept
  <2>1. returned => Live = {}
    BY <1>1, PoolSets, PoolFinite, FS_EmptySet DEF PoolInv, GoroutinesCounted
  <2>2. Joined
    BY <2>1 DEF Joined, Live
  <2>3. RunningBounded
    <3> DEFINE running == {g \in Goroutines : pc[g] = "run"}
    <3>1. running \subseteq Active /\ running \subseteq Holding
      BY DEF Active, Holding
    <3>2. IsFiniteSet(Active)
      BY PoolSets, PoolFinite
    <3>3. Cardinality(running) <= Cardinality(Active) /\ Cardinality(running) \in Nat
      BY <3>1, <3>2, FS_Subset, FS_CardinalityType
    <3>4. Cardinality(running) <= IF Workers < 1 THEN 1 ELSE Workers
      BY <1>1, <3>3, PoolSets, WorkersBounded, PoolAssumption DEF PoolInv, GoroutinesCounted
    <3>5. \A g, h \in running : current[g] = current[h] => g = h
      BY <1>1, <3>1 DEF PoolInv, StepsHanded
    <3> QED  BY <3>4, <3>5 DEF RunningBounded
  <2>4. AllStarted
    <3> SUFFICES ASSUME returned, RunAfterCancel \/ ~RunDone PROVE started = Steps
      BY DEF AllStarted
    <3>1. Active = {}
      BY <2>1 DEF Active, Live
    <3>2. next >= n
      BY <1>1, <3>1 DEF PoolInv, StepsHanded
    <3> QED  BY <1>1, <3>2, PoolAssumption DEF PoolInv, StepsHanded, Steps, TypeOK
  <2>5. LateBounded
    <3>1. Cardinality(late) \in Nat
      BY <1>1, StepsFinite DEF PoolInv, TypeOK
    <3>2. firstStep = 0 => Cardinality(late) = 0
      BY <1>1, FS_EmptySet DEF PoolInv, LateCounted
    <3> QED  BY <1>1, <3>1, <3>2, PoolSets, WorkersBounded DEF PoolInv, LateCounted, LateBounded
  <2> QED  BY <1>1, <2>2, <2>3, <2>4, <2>5 DEF PoolKept, StepsStarted, PoolInv
<1> QED  BY <1>1, PoolInductive, PTL

-----------------------------------------------------------------------------
\* Retry and fallback over routes.

\* The routes are numbered from one.
LEMMA RoutesNumbered == Routes \subseteq Nat \ {0} /\ 1 \in Routes
<1>1. PICK k \in Nat : Routes = 1..k
  BY RouteConstants, FS_CardinalityType
<1> QED  BY <1>1, RouteConstants

\* The route asked last is the greatest that was asked: the one at hand once it was.
LEMMA LastIsRoute ==
  ASSUME R!RoutesInv
  PROVE  /\ R!LastAsked \in R!Asked \cup {1} /\ \A s \in R!Asked : s <= R!LastAsked
         /\ R!LastAsked <= rRoute
         /\ rPc # "send" => R!LastAsked = rRoute /\ rRoute \in R!Asked
<1> USE DEF R!RoutesInv
<1>1. R!LastAsked \in R!Asked \cup {1} /\ \A s \in R!Asked : s <= R!LastAsked
  BY DEF R!AskedInOrder, R!LastAsked
<1>2. \A r \in R!Asked \cup {1} : r \in Nat /\ r <= rRoute
  <2>1. rRoute \in Nat /\ 1 <= rRoute /\ \A r \in Routes : r \in Nat
    BY RoutesNumbered DEF R!RouteTypes
  <2>2. \A r \in R!Asked : r \in Routes /\ ~(rAsked[r] = 0)
    BY DEF R!Asked, R!RouteTypes
  <2>3. \A r \in R!Asked : ~(r > rRoute)
    BY <2>2 DEF R!AskedInOrder
  <2> QED  BY <2>1, <2>2, <2>3
<1>3. rPc # "send" => rRoute \in R!Asked
  BY RoutesNumbered DEF R!AskedInOrder, R!Asked, R!RouteTypes
<1> QED  BY <1>1, <1>2, <1>3, RoutesNumbered DEF R!RouteTypes

\* The invariant holds when a request starts.
LEMMA RoutesInit == R!Init => R!RoutesInv
<1> SUFFICES ASSUME R!Init PROVE R!RoutesInv
  OBVIOUS
<1>1. /\ rCfg \in R!Config /\ rPc = "send" /\ rRoute = 1 /\ rAttempt = 1 /\ rLastErr = "none"
      /\ rOver = "no" /\ rResult = "none" /\ rRepeated = {} /\ rLate = 0
      /\ rSaw = [r \in Routes |-> "none"] /\ rAsked = [r \in Routes |-> 0]
  BY RouteConstants DEF R!Init
<1>2. R!RouteTypes
  BY <1>1, RoutesNumbered DEF R!RouteTypes
<1>3. R!Asked = {} /\ rCfg.inner \in Nat \ {0}
  BY <1>1 DEF R!Asked, R!Config
<1>4. R!AskedInOrder
  BY <1>1, <1>3, RoutesNumbered DEF R!AskedInOrder
<1>5. R!FailureTold /\ R!LateOnce
  BY <1>1 DEF R!FailureTold, R!LateOnce, R!InHand, R!CameBack
<1> QED  BY <1>2, <1>4, <1>5 DEF R!RoutesInv

\* Sending a request to a route keeps the invariant.
LEMMA RoutesSend ==
  ASSUME R!RoutesInv, R!Send
  PROVE  R!RoutesInv'
<1> USE DEF R!RoutesInv
<1>1. /\ rPc = "send" /\ rPc' = "sent" /\ rAsked' = [rAsked EXCEPT ![rRoute] = @ + 1]
      /\ rLate' = IF rOver = "no" THEN rLate ELSE rLate + 1
      /\ UNCHANGED <<rCfg, rRoute, rAttempt, rLastErr, rBehind, rOver, rResult, rSaw,
              rRepeated>>
  BY DEF R!Send
<1>2. R!RouteTypes'
  BY <1>1 DEF R!RouteTypes
<1>3. /\ \A r \in Routes : rAsked'[r] = IF r = rRoute THEN rAttempt ELSE rAsked[r]
      /\ R!Asked' = R!Asked \cup {rRoute}
  <2>1. \A r \in Routes : rAsked'[r] = IF r = rRoute THEN rAttempt ELSE rAsked[r]
    BY <1>1 DEF R!RouteTypes, R!AskedInOrder
  <2> QED  BY <2>1 DEF R!RouteTypes, R!Asked
<1>4. R!AskedInOrder'
  <2>1. \A r \in R!Asked' : r <= rRoute
    BY <1>3, RoutesNumbered DEF R!AskedInOrder, R!Asked, R!RouteTypes
  <2>2. \E r \in R!Asked' \cup {1} : \A s \in R!Asked' : s <= r
    BY <1>3, <2>1
  <2>3. rCfg.inner \in Nat
    BY DEF R!RouteTypes, R!Config
  <2>4. rRoute \in Nat /\ ~(rRoute > rRoute) /\ ~(rRoute < rRoute)
    BY RoutesNumbered DEF R!RouteTypes
  <2> QED  BY <1>1, <1>3, <2>2, <2>3, <2>4 DEF R!AskedInOrder, R!RouteTypes, R!OfTheRoute
<1>5. R!FailureTold'
  BY <1>1 DEF R!FailureTold, R!InHand, R!CameBack
<1>6. R!LateOnce'
  BY <1>1 DEF R!LateOnce, R!RouteTypes
<1> QED  BY <1>2, <1>4, <1>5, <1>6

\* An attempt that fails keeps the invariant.
LEMMA RoutesFails ==
  ASSUME R!RoutesInv, R!RouteFails
  PROVE  R!RoutesInv'
<1> USE DEF R!RoutesInv
<1>1. PICK k \in R!Failures : rLastErr' = k /\ rSaw' = [rSaw EXCEPT ![rRoute] = k]
  BY DEF R!RouteFails, R!Failures, R!RouteTypes
<1>2. /\ rPc = "sent" /\ rPc' = "retry" /\ rBehind' = "none"
      /\ UNCHANGED <<rCfg, rRound, rRoute, rAttempt, rOver, rResult, rAsked, rRepeated, rLate>>
  BY DEF R!RouteFails
<1>3. R!RouteTypes'
  BY <1>1, <1>2 DEF R!RouteTypes
<1>4. R!AskedInOrder'
  <2>1. \A r \in Routes : r < rRoute => rSaw'[r] = rSaw[r]
    BY <1>1, RoutesNumbered DEF R!RouteTypes
  <2>2. R!Asked' = R!Asked
    BY <1>2 DEF R!Asked
  <2> QED  BY <1>2, <2>1, <2>2 DEF R!AskedInOrder, R!OfTheRoute
<1>5. R!FailureTold'
  BY <1>1, <1>2 DEF R!FailureTold, R!InHand, R!CameBack, R!RouteTypes
<1>6. R!LateOnce'
  BY <1>2 DEF R!LateOnce
<1> QED  BY <1>3, <1>4, <1>5, <1>6

\* A step between the requests that leaves the routes as they are.
LEMMA RoutesBetween ==
  ASSUME R!RoutesInv, rPc # "send", rPc' # "send",
         rPc' \in {"retry", "sleep", "asleep", "fallback", "outer", "outerSleep",
                   "outerAsleep", "ended", "done"},
         rResult' \in {"none", "answer", "error"},
         rPc' \in {"sleep", "asleep"} => rAttempt < rCfg.inner,
         UNCHANGED <<rCfg, rRoute, rAttempt, rOver, rSaw, rAsked, rRepeated, rLate>>
  PROVE  /\ R!RouteTypes' /\ R!AskedInOrder'
         /\ rPc' \notin {"asleep", "outerAsleep"} \/ rOver = "no" => R!LateOnce'
<1> USE DEF R!RoutesInv
<1>1. R!Asked' = R!Asked
  BY DEF R!Asked
<1>2. R!RouteTypes'
  BY DEF R!RouteTypes
<1>3. R!AskedInOrder'
  BY <1>1 DEF R!AskedInOrder, R!OfTheRoute
<1>4. rPc' \notin {"asleep", "outerAsleep"} \/ rOver = "no" => R!LateOnce'
  BY DEF R!LateOnce
<1> QED  BY <1>2, <1>3, <1>4

\* Moving on to the next route keeps the invariant.
LEMMA RoutesMoveOn ==
  ASSUME R!RoutesInv, R!MoveOn
  PROVE  R!RoutesInv'
<1> USE DEF R!RoutesInv
<1>1. PICK r \in R!Later(rRoute) \cap rCfg.qualified :
        /\ \A s \in R!Later(rRoute) \cap rCfg.qualified : r <= s
        /\ rRoute' = r
  BY DEF R!MoveOn
<1>2. /\ rPc = "fallback" /\ R!triggers(rLastErr) /\ rOver = "no" /\ rAttempt' = 1
      /\ rPc' = "send"
      /\ UNCHANGED <<rCfg, rRound, rLastErr, rBehind, rOver, rResult, rSaw, rAsked, rRepeated,
                     rLate>>
  BY DEF R!MoveOn
<1>3. r \in Routes /\ r > rRoute /\ r \in rCfg.qualified /\ r \in Nat /\ rRoute \in Nat
  BY RoutesNumbered DEF R!Later, R!RouteTypes
<1>4. R!RouteTypes'
  BY <1>1, <1>2, <1>3 DEF R!RouteTypes
<1>5. R!OfTheRoute(rSaw[rRoute])
  <2>1. rLastErr = rSaw[rRoute] /\ rLastErr \in R!Failures
    BY <1>2 DEF R!FailureTold
  <2> QED  BY <1>2, <2>1 DEF R!triggers, R!OfTheRoute, R!Failures, R!Kinds, R!Repeatable,
                             R!EndKinds
<1>6. R!AskedInOrder'
  <2>1. R!Asked' = R!Asked
    BY <1>2 DEF R!Asked
  <2>2. rAsked[r] = 0 /\ rCfg.inner \in Nat \ {0}
    BY <1>3 DEF R!AskedInOrder, R!RouteTypes, R!Config
  <2>3. rRoute \in R!Asked
    BY <1>2, LastIsRoute
  <2>4. ASSUME NEW q \in Routes
        PROVE  /\ q > r => rAsked[q] = 0
               /\ q < r /\ q \in R!Asked => R!OfTheRoute(rSaw[q])
               /\ q < r /\ q \in rCfg.qualified \cup {1} => q \in R!Asked
    <3>0. q \in Nat /\ q >= 1 /\ rRoute >= 1
      BY RoutesNumbered DEF R!RouteTypes
    <3>1. q > r => rAsked[q] = 0
      BY <1>3, <3>0 DEF R!AskedInOrder
    <3>2. q < r /\ q \in R!Asked => R!OfTheRoute(rSaw[q])
      <4>1. q > rRoute => rAsked[q] = 0
        BY DEF R!AskedInOrder
      <4>2. q < rRoute \/ q = rRoute \/ q > rRoute
        BY <1>3, <3>0
      <4>3. q \in R!Asked => rAsked[q] > 0
        BY DEF R!Asked
      <4> QED  BY <1>5, <4>1, <4>2, <4>3 DEF R!AskedInOrder
    <3>3. q < r /\ q \in rCfg.qualified \cup {1} => q \in R!Asked
      <4>1. q > rRoute /\ q \in rCfg.qualified => r <= q
        BY <1>1 DEF R!Later
      <4>2. q > rRoute => q # 1
        BY <1>3, <3>0
      <4>3. q < r => ~(r <= q)
        BY <1>3, <3>0
      <4>4. q < rRoute \/ q = rRoute \/ q > rRoute
        BY <1>3, <3>0
      <4> QED  BY <2>3, <4>1, <4>2, <4>3, <4>4 DEF R!AskedInOrder
    <3> QED  BY <3>1, <3>2, <3>3
  <2> QED  BY <1>1, <1>2, <1>3, <2>1, <2>2, <2>4 DEF R!AskedInOrder, R!OfTheRoute
<1>7. R!FailureTold'
  BY <1>2 DEF R!FailureTold, R!InHand, R!CameBack
<1>8. R!LateOnce'
  BY <1>2 DEF R!LateOnce
<1> QED  BY <1>4, <1>6, <1>7, <1>8

\* The end of a wait before a repeat keeps the invariant.
LEMMA RoutesWake ==
  ASSUME R!RoutesInv, R!Wake
  PROVE  R!RoutesInv'
<1> USE DEF R!RoutesInv
<1>1. /\ rPc = "asleep" /\ rPc' = "send" /\ rAttempt' = rAttempt + 1
      /\ rRepeated' = rRepeated \cup {rLastErr}
      /\ UNCHANGED <<rCfg, rRound, rRoute, rLastErr, rBehind, rOver, rResult, rSaw,
              rAsked, rLate>>
  BY DEF R!Wake
<1>2. R!RouteTypes'
  BY <1>1 DEF R!RouteTypes
<1>3. R!AskedInOrder'
  <2>1. R!Asked' = R!Asked
    BY <1>1 DEF R!Asked
  <2>2. rAttempt' <= rCfg.inner
    BY <1>1 DEF R!AskedInOrder, R!RouteTypes, R!Config
  <2> QED  BY <1>1, <2>1, <2>2 DEF R!AskedInOrder, R!OfTheRoute, R!RouteTypes
<1>4. R!FailureTold'
  BY <1>1 DEF R!FailureTold, R!InHand, R!CameBack
<1>5. R!LateOnce'
  BY <1>1 DEF R!LateOnce, R!FailureTold
<1> QED  BY <1>2, <1>3, <1>4, <1>5

\* The end of a wait of the retry around the fallback keeps the invariant.
LEMMA RoutesOuterWake ==
  ASSUME R!RoutesInv, R!OuterWake
  PROVE  R!RoutesInv'
<1> USE DEF R!RoutesInv
<1>1. /\ rPc = "outerAsleep" /\ rPc' = "send" /\ rRoute' = 1 /\ rAttempt' = 1
      /\ rSaw' = [r \in Routes |-> "none"] /\ rAsked' = [r \in Routes |-> 0]
      /\ rRepeated' = rRepeated \cup {rLastErr}
      /\ UNCHANGED <<rCfg, rLastErr, rBehind, rOver, rResult, rLate>>
  BY DEF R!OuterWake
<1>2. R!RouteTypes'
  BY <1>1, RoutesNumbered DEF R!RouteTypes
<1>3. R!AskedInOrder'
  <2>1. R!Asked' = {} /\ rCfg.inner \in Nat \ {0}
    BY <1>1 DEF R!Asked, R!RouteTypes, R!Config
  <2> QED  BY <1>1, <2>1, RoutesNumbered DEF R!AskedInOrder
<1>4. R!FailureTold'
  BY <1>1 DEF R!FailureTold, R!InHand, R!CameBack
<1>5. R!LateOnce'
  BY <1>1 DEF R!LateOnce, R!FailureTold
<1> QED  BY <1>2, <1>3, <1>4, <1>5

\* Every step of a request over its routes keeps the invariant.
LEMMA RoutesNext ==
  ASSUME R!RoutesInv, [R!Next]_(R!vars)
  PROVE  R!RoutesInv'
<1>0. rAttempt \in Nat /\ rCfg.inner \in Nat /\ rAttempt <= rCfg.inner
        /\ rResult \in {"none", "answer", "error"}
  BY DEF R!RoutesInv, R!RouteTypes, R!AskedInOrder, R!Config
<1>1. CASE R!RouteAnswers
  <2>1. R!RouteTypes' /\ R!AskedInOrder' /\ R!LateOnce'
    BY <1>1, RoutesBetween DEF R!RouteAnswers
  <2> QED  BY <1>1, <2>1 DEF R!RouteAnswers, R!RoutesInv, R!FailureTold, R!InHand, R!CameBack
<1>2. CASE R!Retry
  <2>1. R!RouteTypes' /\ R!AskedInOrder' /\ R!LateOnce'
    BY <1>0, <1>2, RoutesBetween DEF R!Retry
  <2> QED  BY <1>2, <2>1 DEF R!Retry, R!retryRepeats, R!RoutesInv, R!FailureTold,
             R!InHand, R!CameBack
<1>3. CASE R!Sleep
  <2>1. R!RouteTypes' /\ R!AskedInOrder' /\ R!LateOnce'
    BY <1>0, <1>3, RoutesBetween DEF R!Sleep, R!Asleep, R!RoutesInv, R!AskedInOrder
  <2> QED  BY <1>3, <2>1 DEF R!Sleep, R!Asleep, R!RoutesInv, R!FailureTold, R!InHand, R!CameBack
<1>4. CASE R!RetryEnded
  <2>1. R!RouteTypes' /\ R!AskedInOrder' /\ R!LateOnce'
    BY <1>0, <1>4, RoutesBetween DEF R!RetryEnded, R!EndedAsleep
  <2>2. rOver \in R!Failures /\ "none" \notin R!Failures
    BY <1>4 DEF R!RetryEnded, R!EndedAsleep, R!RoutesInv, R!RouteTypes, R!Failures,
            R!Kinds, R!EndKinds, R!Repeatable
  <2> QED  BY <1>4, <2>1, <2>2 DEF R!RetryEnded, R!EndedAsleep, R!RoutesInv,
             R!FailureTold, R!InHand, R!CameBack
<1>5. CASE R!FallbackEnded
  <2>1. R!RouteTypes' /\ R!AskedInOrder' /\ R!LateOnce'
    BY <1>0, <1>5, RoutesBetween DEF R!FallbackEnded
  <2>2. rOver \in R!Failures /\ rOver # "no" /\ R!Later(rRoute) # {}
          /\ R!Later(rRoute)' = R!Later(rRoute)
    BY <1>5 DEF R!FallbackEnded, R!EndedHere, R!RoutesInv, R!RouteTypes, R!Failures, R!Later
  <2> QED  BY <1>5, <2>1, <2>2 DEF R!FallbackEnded, R!RoutesInv, R!FailureTold,
             R!InHand, R!CameBack
<1>6. CASE R!FallbackStops
  <2>1. R!RouteTypes' /\ R!AskedInOrder' /\ R!LateOnce'
    BY <1>0, <1>6, RoutesBetween DEF R!FallbackStops
  <2>2. ASSUME rOver = "no", R!OfTheRoute(rSaw[rRoute]) PROVE \A r \in rCfg.qualified : r <= rRoute
    <3>1. rLastErr = rSaw[rRoute]
      BY <1>6, <2>2 DEF R!FallbackStops, R!RoutesInv, R!FailureTold
    <3>2. R!triggers(rLastErr)
      BY <2>2, <3>1 DEF R!triggers, R!OfTheRoute
    <3>3. R!Later(rRoute) \cap rCfg.qualified = {}
      BY <1>6, <3>2 DEF R!FallbackStops, R!NoneLeft
    <3>4. rCfg.qualified \subseteq Routes /\ rRoute \in Routes
      BY DEF R!RoutesInv, R!RouteTypes, R!Config
    <3>5. \A r \in rCfg.qualified : r \in Nat /\ ~(r > rRoute)
      BY <3>3, <3>4, RoutesNumbered DEF R!Later
    <3>6. rRoute \in Nat
      BY <3>4, RoutesNumbered
    <3> QED  BY <3>5, <3>6
  <2>3. R!OfTheRoute(rSaw[rRoute])' = R!OfTheRoute(rSaw[rRoute])
          /\ R!Later(rRoute)' = R!Later(rRoute)
    BY <1>6 DEF R!FallbackStops, R!OfTheRoute, R!Later
  <2> QED  BY <1>6, <2>1, <2>2, <2>3 DEF R!FallbackStops, R!RoutesInv, R!FailureTold,
             R!InHand, R!CameBack
<1>7. ASSUME R!CameBack, R!CameBack', rPc # "send", rPc # "done",
             rPc' \in {"outerSleep", "outerAsleep", "ended", "done"},
             rPc' \in {"outerSleep", "outerAsleep"} => rLastErr \in R!Repeatable,
             rPc' = "outerAsleep" => rOver = "no",
             rResult' \in {"none", "answer", "error"}, rResult' = "error" => rPc' = "done",
             UNCHANGED <<rCfg, rRoute, rAttempt, rOver, rSaw, rAsked, rRepeated, rLate>>,
             \/ UNCHANGED <<rLastErr, rBehind>>
             \/ rPc' = "ended" /\ rOver # "no" /\ rLastErr' = rOver /\ rBehind' = rLastErr
      PROVE  R!RoutesInv'
  <2>1. R!RouteTypes' /\ R!AskedInOrder' /\ R!LateOnce'
    BY <1>7, RoutesBetween
  <2>2. R!OfTheRoute(rSaw[rRoute])' = R!OfTheRoute(rSaw[rRoute])
          /\ R!Later(rRoute)' = R!Later(rRoute)
    BY <1>7 DEF R!OfTheRoute, R!Later
  <2>3. (rOver # "no" => rOver \in R!Failures) /\ "none" \notin R!Failures
    BY DEF R!RoutesInv, R!RouteTypes, R!Failures, R!Kinds, R!EndKinds, R!Repeatable
  <2>4. R!FailureTold'
    <3>1. rLastErr' \in R!Failures
      BY <1>7, <2>3 DEF R!RoutesInv, R!FailureTold
    <3>2. \/ rLastErr' = rSaw[rRoute]
          \/ /\ rOver # "no" /\ rLastErr' = rOver
             /\ R!Later(rRoute) = {} => rBehind' # "none"
      BY <1>7, <2>3 DEF R!RoutesInv, R!FailureTold
    <3>3. rOver = "no" => rLastErr' = rLastErr
      BY <1>7
    <3>4. rPc' \in {"outerSleep", "outerAsleep"} => rLastErr' \in R!Repeatable
      BY <1>7
    <3> QED  BY <1>7, <2>2, <3>1, <3>2, <3>3, <3>4 DEF R!RoutesInv, R!FailureTold, R!InHand
  <2> QED  BY <2>1, <2>4 DEF R!RoutesInv
<1>8. CASE R!OuterRetry
  <2>1. rPc = "outer" /\ R!CameBack
    BY <1>8 DEF R!OuterRetry, R!CameBack
  <2>a. CASE ~R!retryRepeats(rLastErr) \/ rRound = rCfg.outer
    <3>1. rPc' = "done" /\ rResult' = "error" /\ R!CameBack'
      BY <1>8, <2>a DEF R!OuterRetry, R!CameBack
    <3> QED  BY <1>7, <1>8, <2>1, <3>1 DEF R!OuterRetry
  <2>b. CASE ~(~R!retryRepeats(rLastErr) \/ rRound = rCfg.outer)
    <3>1. rPc' = "outerSleep" /\ rResult' = rResult /\ R!CameBack' /\ rLastErr \in R!Repeatable
      BY <1>8, <2>b DEF R!OuterRetry, R!CameBack, R!retryRepeats
    <3>2. rResult # "error"
      BY <2>1 DEF R!RoutesInv, R!FailureTold
    <3> QED  BY <1>0, <1>7, <1>8, <2>1, <3>1, <3>2 DEF R!OuterRetry
  <2> QED  BY <2>a, <2>b
<1>9. CASE R!OuterSleep
  <2>1. /\ rPc = "outerSleep" /\ rPc' = "outerAsleep" /\ R!CameBack /\ R!CameBack'
        /\ rLastErr \in R!Repeatable /\ rResult # "error"
    BY <1>9 DEF R!OuterSleep, R!Asleep, R!CameBack, R!RoutesInv, R!FailureTold
  <2> QED  BY <1>0, <1>7, <1>9, <2>1 DEF R!OuterSleep, R!Asleep
<1>10. CASE R!OuterEnded
  <2>1. /\ rPc \in {"outerSleep", "outerAsleep"} /\ rPc' = "ended" /\ R!CameBack /\ R!CameBack'
        /\ rResult # "error"
    BY <1>10 DEF R!OuterEnded, R!EndedAsleep, R!CameBack, R!RoutesInv, R!FailureTold
  <2> QED  BY <1>0, <1>7, <1>10, <2>1 DEF R!OuterEnded, R!EndedAsleep
<1>11. CASE R!OuterReturns
  <2>1. rPc = "ended" /\ rPc' = "done" /\ R!CameBack /\ R!CameBack'
    BY <1>11 DEF R!OuterReturns, R!CameBack
  <2> QED  BY <1>7, <1>11, <2>1 DEF R!OuterReturns
<1>12. CASE R!CtxEnds
  <2>1. /\ rOver = "no" /\ rOver' \in R!EndKinds
        /\ UNCHANGED <<rCfg, rPc, rRoute, rAttempt, rLastErr, rBehind, rResult, rSaw, rAsked,
                       rRepeated, rLate>>
    BY <1>12 DEF R!CtxEnds
  <2>2. R!Asked' = R!Asked /\ R!Later(rRoute)' = R!Later(rRoute) /\ rOver' # "no"
    BY <2>1 DEF R!Asked, R!Later, R!EndKinds
  <2>3. R!RouteTypes' /\ R!AskedInOrder'
    BY <2>1, <2>2 DEF R!RoutesInv, R!RouteTypes, R!AskedInOrder, R!OfTheRoute
  <2>4. R!FailureTold' /\ R!LateOnce'
    BY <2>1, <2>2 DEF R!RoutesInv, R!FailureTold, R!LateOnce, R!InHand, R!CameBack
  <2> QED  BY <2>3, <2>4 DEF R!RoutesInv
<1>13. CASE UNCHANGED R!vars
  <2>1. UNCHANGED <<rCfg, rPc, rRound, rRoute, rAttempt, rLastErr, rBehind, rOver,
          rResult, rSaw,
                    rAsked, rRepeated, rLate>>
    BY <1>13 DEF R!vars
  <2>2. R!Asked' = R!Asked /\ R!Later(rRoute)' = R!Later(rRoute)
    BY <2>1 DEF R!Asked, R!Later
  <2> QED  BY <2>1, <2>2 DEF R!RoutesInv, R!RouteTypes, R!AskedInOrder, R!OfTheRoute,
                             R!FailureTold, R!LateOnce, R!InHand, R!CameBack
<1> QED  BY <1>1, <1>2, <1>3, <1>4, <1>5, <1>6, <1>8, <1>9, <1>10, <1>11, <1>12, <1>13,
            RoutesSend, RoutesFails, RoutesWake, RoutesMoveOn, RoutesOuterWake
         DEF R!Next, R!Terminated

\* The usable routes are tried in order, no failure is repeated beyond its bound or
\* after the context ended, and the error returned tells what happened.
THEOREM RoutesAreKept == R!Spec => []RoutesKept
<1>1. ASSUME R!RoutesInv PROVE RoutesKept
  <2> USE <1>1 DEF R!RoutesInv
  <2>0. /\ rRoute \in Nat /\ \A r \in Routes : r \in Nat
        /\ rCfg.qualified \subseteq Routes /\ R!Asked \subseteq Routes
        /\ R!LastAsked \in Nat
    BY RoutesNumbered, LastIsRoute DEF R!RouteTypes, R!Config, R!Asked
  <2>1. rResult = "error" => rPc # "send" /\ R!LastAsked = rRoute
          /\ rRoute \in R!Asked /\ R!CameBack
    BY LastIsRoute DEF R!FailureTold, R!CameBack
  <2>2. R!RoutesTried
    <3>1. R!Asked \subseteq rCfg.qualified \cup {1}
      BY <2>0 DEF R!AskedInOrder
    <3>2. ASSUME NEW r \in R!Asked \ {R!LastAsked} PROVE R!OfTheRoute(rSaw[r])
      <4>1. r < rRoute
        BY <2>0, LastIsRoute
      <4> QED  BY <2>0, <4>1 DEF R!AskedInOrder
    <3>3. ASSUME NEW r \in rCfg.qualified, r < R!LastAsked PROVE r \in R!Asked
      <4>1. r < rRoute
        BY <2>0, <3>3, LastIsRoute
      <4> QED  BY <2>0, <4>1 DEF R!AskedInOrder
    <3>4. ASSUME rResult = "error", rOver = "no", R!OfTheRoute(rSaw[R!LastAsked]),
                 NEW r \in rCfg.qualified
          PROVE  r \in R!Asked
      <4>1. r <= rRoute
        BY <2>1, <3>4 DEF R!FailureTold
      <4>2. r < rRoute \/ r = rRoute
        BY <2>0, <4>1
      <4> QED  BY <2>0, <2>1, <3>4, <4>2 DEF R!AskedInOrder
    <3> QED  BY <3>1, <3>2, <3>3, <3>4 DEF R!RoutesTried
  <2>3. R!RepeatsBounded
    BY DEF R!RepeatsBounded, R!AskedInOrder, R!LateOnce
  <2>4. R!ErrorTells
    BY <2>1 DEF R!ErrorTells, R!FailureTold
  <2> QED  BY <2>2, <2>3, <2>4 DEF RoutesKept
<1> QED  BY <1>1, RoutesInit, RoutesNext, PTL DEF R!Spec

-----------------------------------------------------------------------------
\* A speculative branch.

\* The invariant holds when the branches start.
LEMMA AheadInit == A!Init => A!AheadInv
<1> SUFFICES ASSUME A!Init PROVE A!AheadInv
  OBVIOUS
<1>1. /\ aTold = {} /\ aOver = FALSE /\ aPc = "deciding" /\ aOutcome = "" /\ aAnswer = ""
      /\ aEarly \subseteq A!Branch
      /\ aBranch \in [A!Branch -> {"unstarted", "running", "value"}]
  BY DEF A!Init, A!Branch
<1>2. aOver \in BOOLEAN
  BY <1>1
<1> QED  BY <1>1, <1>2 DEF A!AheadInv, A!AheadKept, A!Branch

\* Every step of a speculative call keeps the invariant.
LEMMA AheadNext ==
  ASSUME A!AheadInv, [A!Next]_(A!vars)
  PROVE  A!AheadInv'
<1> USE DEF A!AheadInv, A!AheadKept
<1>1. ASSUME NEW b \in A!Branch, A!BranchEnds(b) PROVE A!AheadInv'
  <2>1. PICK e \in A!EndsOf(b) : aBranch' = [aBranch EXCEPT ![b] = e]
    BY <1>1 DEF A!BranchEnds
  <2>2. e \in {"value", "failed", "canceled"} /\ (e = "canceled" => aOver \/ b \in aTold)
    BY DEF A!EndsOf
  <2>3. b \in aEarly /\ aBranch[b] = "running" /\ UNCHANGED <<aMode, aEarly, aTold,
          aOver, aPc, aAnswer, aOutcome>>
    BY <1>1 DEF A!BranchEnds
  <2> QED  BY <2>1, <2>2, <2>3
<1>2. ASSUME NEW b \in A!Branch, A!PickEarly(b) PROVE A!AheadInv'
  <2>1. /\ aPc = "deciding" /\ ~aOver /\ aAnswer' = b /\ b \in aEarly
        /\ aTold' = aTold \cup (aEarly \ {b}) /\ aPc' = "keeping"
        /\ UNCHANGED <<aMode, aEarly, aBranch, aOver, aOutcome>>
    BY <1>2 DEF A!PickEarly, A!Decided, A!TellTheOther
  <2> QED  BY <2>1 DEF A!Branch
<1>3. ASSUME NEW b \in A!Branch, A!PickLate(b) PROVE A!AheadInv'
  <2>1. /\ aPc = "deciding" /\ ~aOver /\ aAnswer' = b /\ b \notin aEarly
        /\ aTold' = aTold \cup (aEarly \ {b})
        /\ UNCHANGED <<aMode, aEarly, aOver>>
    BY <1>3 DEF A!PickLate, A!Decided, A!TellTheOther
  <2>2. \/ aPc' = "here" /\ aBranch' = [aBranch EXCEPT ![b] = "running"] /\ aOutcome' = aOutcome
        \/ aPc' = "stopping" /\ aBranch' = [aBranch EXCEPT ![b] = "value"] /\ aOutcome' = b
    BY <1>3 DEF A!PickLate, A!Return
  <2> QED  BY <2>1, <2>2 DEF A!Branch
<1>4. CASE A!ContextEnds
  <2>1. aOver' = TRUE /\ UNCHANGED <<aMode, aEarly, aBranch, aTold, aPc, aAnswer, aOutcome>>
    BY <1>4 DEF A!ContextEnds
  <2>2. aOver' \in BOOLEAN
    BY <2>1
  <2> QED  BY <2>1, <2>2
<1>5. ASSUME aPc \in {"deciding", "here"}, aPc' = "stopping",
             aOutcome' \in {"context", "decision", "exit", "select"},
             aOutcome' = "context" => aOver,
             aTold \subseteq aTold', aTold' \subseteq A!Branch,
             UNCHANGED <<aMode, aEarly, aBranch, aOver>>
      PROVE  A!AheadInv'
  BY <1>5 DEF A!Branch
<1>6. CASE A!DecisionFails
  BY <1>5, <1>6 DEF A!DecisionFails, A!Return
<1>7. CASE A!Exits
  BY <1>5, <1>7 DEF A!Exits, A!Return
<1>8. CASE A!PickUnknown
  BY <1>5, <1>8 DEF A!PickUnknown, A!Decided, A!Return
<1>9. CASE A!Keep
  <2>1. /\ aPc = "keeping" /\ aBranch[aAnswer] # "running" /\ aTold' = aTold \cup {aAnswer}
        /\ aPc' = "stopping" /\ UNCHANGED <<aMode, aEarly, aBranch, aOver, aAnswer>>
        /\ aOutcome' = IF aBranch[aAnswer] = "value" THEN aAnswer
                       ELSE IF aOver THEN "context" ELSE aBranch[aAnswer]
    BY <1>9 DEF A!Keep, A!Return, A!aheadFailed
  <2> QED  BY <2>1 DEF A!Branch
<1>10. CASE A!HereEnds
  <2>1. PICK e \in A!EndsOf(aAnswer) :
          /\ aBranch' = [aBranch EXCEPT ![aAnswer] = e]
          /\ aOutcome' = IF e = "value" THEN aAnswer ELSE IF aOver THEN "context" ELSE e
    BY <1>10 DEF A!HereEnds, A!Return, A!aheadFailed
  <2>2. e \in {"value", "failed", "canceled"} /\ (e = "canceled" => aOver \/ aAnswer \in aTold)
    BY DEF A!EndsOf
  <2>3. aPc = "here" /\ aPc' = "stopping" /\ UNCHANGED <<aMode, aEarly, aTold, aOver, aAnswer>>
    BY <1>10 DEF A!HereEnds, A!Return
  <2> QED  BY <2>1, <2>2, <2>3 DEF A!Branch
<1>11. CASE A!Tell
  <2>1. /\ aPc = "stopping" /\ aTold' = aTold \cup {A!NextToStop} /\ A!NextToStop \in A!Branch
        /\ UNCHANGED <<aMode, aEarly, aBranch, aOver, aPc, aAnswer, aOutcome>>
    BY <1>11 DEF A!Tell, A!NextToStop, A!Branch
  <2> QED  BY <2>1
<1>12. CASE A!Returns
  BY <1>12 DEF A!Returns, A!Stopped
<1>13. CASE UNCHANGED A!vars
  BY <1>13 DEF A!vars
<1> QED  BY <1>1, <1>2, <1>3, <1>4, <1>6, <1>7, <1>8, <1>9, <1>10, <1>11, <1>12,
           <1>13 DEF A!Next

\* No speculative branch outlives its call, and the branch that was not picked does
\* not decide the result.
THEOREM AheadIsKept == A!Spec => []AheadKept
<1>1. A!AheadInv => AheadKept
  BY DEF A!AheadInv, AheadKept
<1> QED  BY <1>1, AheadInit, AheadNext, PTL DEF A!Spec

-----------------------------------------------------------------------------
\* The transcript check.  What it knows of the messages in s, the first ones of h: the
\* role of the last, the calls that wait, the ids used.
Greatest(s) == CHOOSE x \in s : \A y \in s : x >= y
Before(s, i) == {j \in s : j < i}
RoleBefore(h, s) == IF s = {} THEN "" ELSE h[Greatest(s)].role
UsedBy(h, s) == UNION {S!IdsOf(h[i].calls) : i \in s}
Waits(h, s, k, x) ==
  /\ h[k].role = "assistant" /\ x \in S!IdsOf(h[k].calls)
  /\ \A l \in s : l > k => h[l].role # "assistant" /\ h[l].answers # x
Waiting(h, s) == {x \in UsedBy(h, s) : \E k \in s : Waits(h, s, k, x)}
Fits(h, s, i) ==
  \/ h[i].role = "user" /\ S!UserFits(h[i], RoleBefore(h, s), Waiting(h, s))
  \/ /\ h[i].role = "assistant"
     /\ S!AssistantFits(h[i], RoleBefore(h, s), Waiting(h, s), UsedBy(h, s))
  \/ h[i].role = "tool" /\ S!ToolFits(h[i], RoleBefore(h, s), Waiting(h, s))
Seen(h, s) ==
  [ok |-> \A i \in s : Fits(h, Before(s, i), i), previous |-> RoleBefore(h, s),
   waiting |-> Waiting(h, s), used |-> UsedBy(h, s)]
AtFirst == [ok |-> TRUE, previous |-> "", waiting |-> {}, used |-> {}]
IsScan(g, h) ==
  g = [s \in SUBSET DOMAIN h |->
         IF s = {} THEN AtFirst ELSE S!Scan(g[s \ {Greatest(s)}], h[Greatest(s)])]

\* Every nonempty set of numbers has a least.
LEMMA LeastNumber ==
  ASSUME NEW Q \in SUBSET Nat, Q # {}
  PROVE  \E l \in Q : \A m \in Q : l <= m
<1>1. PICK l \in Q : \A m \in Q : ~(<<m, l>> \in OpToRel(<, Nat))
  BY NatLessThanWellFounded, WFMin
<1>2. \A m \in Q : ~(m < l)
  BY <1>1 DEF OpToRel
<1> QED  BY <1>2

\* A nonempty set of positions has a greatest.
LEMMA GreatestThere ==
  ASSUME NEW l \in Nat, NEW s \in SUBSET (1..l), s # {}
  PROVE  Greatest(s) \in s /\ \A y \in s : Greatest(s) >= y
<1> DEFINE Above == {b \in Nat : \A y \in s : b >= y}
<1>1. PICK b \in Above : \A m \in Above : b <= m
  <2>1. l \in Above
    OBVIOUS
  <2> HIDE DEF Above
  <2>2. Above \in SUBSET Nat
    BY DEF Above
  <2> QED  BY <2>1, <2>2, LeastNumber
<1>2. b \in s
  <2> SUFFICES ASSUME b \notin s PROVE FALSE
    OBVIOUS
  <2>1. \A y \in s : b >= y /\ b # y /\ y \in Nat /\ y >= 1 /\ b \in Nat
    BY <1>1
  <2>2. b - 1 \in Nat
    <3>1. PICK y \in s : TRUE
      OBVIOUS
    <3> QED  BY <2>1, <3>1
  <2>3. \A y \in s : b - 1 >= y
    BY <2>1
  <2>4. b - 1 \in Above
    BY <2>2, <2>3
  <2> QED  BY <1>1, <2>4
<1>3. \E x \in s : \A y \in s : x >= y
  BY <1>1, <1>2
<1> QED  BY <1>3 DEF Greatest

\* What the check knows of the first messages is what it knew of those before the last of
\* them, and the last.
LEMMA SeenGrows ==
  ASSUME NEW h, NEW l \in Nat, DOMAIN h = 1..l, NEW s \in SUBSET (1..l), s # {}
  PROVE  Seen(h, s) = S!Scan(Seen(h, s \ {Greatest(s)}), h[Greatest(s)])
<1>1. PICK x : x = Greatest(s)
  OBVIOUS
<1>2. x \in s /\ x \in Nat /\ \A y \in s : x >= y /\ y \in Nat
  <2>1. x \in s /\ \A y \in s : x >= y
    BY <1>1, GreatestThere
  <2>2. \A y \in s : y \in Nat
    OBVIOUS
  <2> QED  BY <2>1, <2>2
<1> DEFINE r == s \ {x}
<1>3. r = Before(s, x) /\ \A i \in r : Before(r, i) = Before(s, i) /\ i < x
  <2>1. \A i \in r : i < x /\ i \in Nat
    BY <1>2
  <2>2. \A i \in r : ~(x < i) /\ ~(x < x)
    BY <1>2, <2>1
  <2>3. r = Before(s, x)
    <3>1. \A j \in s : j \in r <=> j < x
      BY <1>2, <2>1, <2>2
    <3> HIDE DEF r
    <3>2. r \subseteq s
      BY DEF r
    <3> QED  BY <3>1, <3>2 DEF Before
  <2>4. ASSUME NEW i \in r PROVE Before(r, i) = Before(s, i)
    <3>1. ~(x < i)
      BY <2>2, <2>4
    <3> QED  BY <3>1 DEF Before
  <2> QED  BY <2>1, <2>3, <2>4
<1>4. s = r \cup {x} /\ x \notin r
  BY <1>2
<1> HIDE DEF r
<1>5. RoleBefore(h, s) = h[x].role
  BY <1>1, <1>2 DEF RoleBefore
<1>6. UsedBy(h, s) = UsedBy(h, r) \cup S!IdsOf(h[x].calls)
  BY <1>4 DEF UsedBy
<1>7. Waiting(h, s) = IF h[x].role = "assistant" THEN S!IdsOf(h[x].calls)
                      ELSE Waiting(h, r) \ {h[x].answers}
  <2>1. ASSUME NEW id
        PROVE  Waits(h, s, x, id) <=> h[x].role = "assistant" /\ id \in S!IdsOf(h[x].calls)
    <3>1. \A y \in s : ~(y > x)
      BY <1>2
    <3> QED  BY <3>1 DEF Waits
  <2>2. ASSUME NEW id, NEW k \in r
        PROVE  Waits(h, s, k, id) <=>
                 Waits(h, r, k, id) /\ h[x].role # "assistant" /\ h[x].answers # id
    <3>1. x > k
      BY <1>2, <1>3
    <3> QED  BY <3>1, <1>4 DEF Waits
  <2>3. ASSUME NEW id, NEW k, Waits(h, s, k, id), k \in s PROVE id \in UsedBy(h, s)
    BY <2>3 DEF Waits, UsedBy
  <2>4. ASSUME NEW id, NEW k, Waits(h, r, k, id), k \in r PROVE id \in UsedBy(h, r)
    BY <2>4 DEF Waits, UsedBy
  <2>5. Waiting(h, s) = {id \in UsedBy(h, s) : \E k \in s : Waits(h, s, k, id)}
    BY DEF Waiting
  <2>6. Waiting(h, r) = {id \in UsedBy(h, r) : \E k \in r : Waits(h, r, k, id)}
    BY DEF Waiting
  <2>7. CASE h[x].role = "assistant"
    <3>1. \A id : (\E k \in s : Waits(h, s, k, id)) <=> id \in S!IdsOf(h[x].calls)
      BY <2>1, <2>2, <2>7, <1>4
    <3> QED  BY <3>1, <2>3, <2>5, <2>7
  <2>8. CASE h[x].role # "assistant"
    <3>1. \A id : (\E k \in s : Waits(h, s, k, id)) <=>
                  (\E k \in r : Waits(h, r, k, id)) /\ h[x].answers # id
      BY <2>1, <2>2, <2>8, <1>4
    <3>2. \A id : id \in Waiting(h, s) <=> id \in Waiting(h, r) /\ h[x].answers # id
      BY <3>1, <2>3, <2>4, <2>5, <2>6
    <3> QED  BY <3>2, <2>8
  <2> QED  BY <2>7, <2>8
<1>8. (\A i \in s : Fits(h, Before(s, i), i)) <=>
        (\A i \in r : Fits(h, Before(r, i), i)) /\ Fits(h, r, x)
  BY <1>3, <1>4
<1>9. S!Scan(Seen(h, r), h[x]) =
        [ok |-> (\A i \in r : Fits(h, Before(r, i), i)) /\ Fits(h, r, x),
         previous |-> h[x].role,
         waiting |-> IF h[x].role = "assistant" THEN S!IdsOf(h[x].calls)
                     ELSE Waiting(h, r) \ {h[x].answers},
         used |-> UsedBy(h, r) \cup S!IdsOf(h[x].calls)]
  BY DEF S!Scan, Seen, Fits
<1>10. Seen(h, s) = S!Scan(Seen(h, r), h[x])
  BY <1>5, <1>6, <1>7, <1>8, <1>9, Zenon DEF Seen
<1> QED  BY <1>1, <1>10 DEF r

\* There is one table of what the check knows, and the check reads its last entry.
LEMMA ScanTable ==
  ASSUME NEW h, NEW l \in Nat, DOMAIN h = 1..l
  PROVE  IsScan([s \in SUBSET DOMAIN h |-> Seen(h, s)], h)
<1> DEFINE g == [s \in SUBSET DOMAIN h |-> Seen(h, s)]
<1>1. Seen(h, {}) = AtFirst
  <2>1. Waiting(h, {}) = {} /\ UsedBy(h, {}) = {}
    BY DEF Waiting, UsedBy
  <2> QED  BY <2>1 DEF Seen, RoleBefore, AtFirst
<1>2. ASSUME NEW s \in SUBSET DOMAIN h, s # {}
      PROVE  g[s] = S!Scan(g[s \ {Greatest(s)}], h[Greatest(s)])
  <2>1. s \ {Greatest(s)} \in SUBSET DOMAIN h
    OBVIOUS
  <2>2. g[s \ {Greatest(s)}] = Seen(h, s \ {Greatest(s)})
    BY <2>1
  <2>3. g[s] = Seen(h, s)
    OBVIOUS
  <2> QED  BY <1>2, <2>2, <2>3, SeenGrows
<1>3. \A s \in SUBSET DOMAIN h :
        g[s] = IF s = {} THEN AtFirst ELSE S!Scan(g[s \ {Greatest(s)}], h[Greatest(s)])
  BY <1>1, <1>2
<1>4. g = [s \in SUBSET DOMAIN h |-> g[s]]
  OBVIOUS
<1> HIDE DEF g
<1>5. g = [s \in SUBSET DOMAIN h |->
             IF s = {} THEN AtFirst ELSE S!Scan(g[s \ {Greatest(s)}], h[Greatest(s)])]
  BY <1>3, <1>4
<1>6. IsScan(g, h)
  BY <1>5 DEF IsScan
<1> QED  BY <1>6 DEF g

\* Two tables agree: take the least set on which they do not.
LEMMA ScanUnique ==
  ASSUME NEW h, NEW l \in Nat, DOMAIN h = 1..l, NEW f, NEW g, IsScan(f, h), IsScan(g, h)
  PROVE  f = g
<1> DEFINE Bad == {s \in SUBSET DOMAIN h : f[s] # g[s]}
<1>1. Bad = {}
  <2> SUFFICES ASSUME Bad # {} PROVE FALSE
    OBVIOUS
  <2>0. Bad \in SUBSET SUBSET DOMAIN h /\ IsFiniteSet(DOMAIN h)
    BY FS_Interval
  <2>1. PICK s \in Bad : \A u \in Bad : u \subseteq s => u = s
    <3> HIDE DEF Bad
    <3> QED  BY <2>0, Least
  <2>2. CASE s = {}
    BY <2>2 DEF IsScan
  <2>3. CASE s # {}
    <3>1. PICK x : x = Greatest(s)
      OBVIOUS
    <3>2. x \in s /\ s \ {x} \in SUBSET DOMAIN h /\ s \ {x} # s /\ s \ {x} \subseteq s
      BY <2>3, <3>1, GreatestThere
    <3>3. f[s \ {x}] = g[s \ {x}]
      BY <2>1, <3>2
    <3>4. f[s] = S!Scan(f[s \ {x}], h[x]) /\ g[s] = S!Scan(g[s \ {x}], h[x])
      BY <2>3, <3>1 DEF IsScan
    <3> QED  BY <3>3, <3>4
  <2> QED  BY <2>2, <2>3
<1>2. \A s \in SUBSET DOMAIN h : f[s] = g[s]
  BY <1>1
<1> QED  BY <1>2 DEF IsScan

\* A transcript is accepted when every message fits those before it.
LEMMA CheckReads ==
  ASSUME NEW X, NEW h \in Seq(X)
  PROVE  S!CheckTranscript(h) <=> \A i \in DOMAIN h : Fits(h, 1..(i - 1), i)
<1>1. PICK l \in Nat : DOMAIN h = 1..l
  OBVIOUS
<1> DEFINE g == [s \in SUBSET DOMAIN h |-> Seen(h, s)]
<1>2. IsScan(g, h)
  BY <1>1, ScanTable
<1> HIDE DEF g
<1>3. IsScan(CHOOSE f : IsScan(f, h), h)
  BY <1>2
<1>4. (CHOOSE f : IsScan(f, h)) = g
  BY <1>1, <1>2, <1>3, ScanUnique
<1>5. S!CheckTranscript(h) <=> (CHOOSE f : IsScan(f, h))[DOMAIN h].ok
  BY DEF S!CheckTranscript, S!FoldLeft, S!MapThenFoldSet, S!Max, IsScan, Greatest, AtFirst
<1>6. g[DOMAIN h].ok <=> \A i \in DOMAIN h : Fits(h, Before(DOMAIN h, i), i)
  BY DEF g, Seen
<1>7. \A i \in DOMAIN h : Before(DOMAIN h, i) = 1..(i - 1)
  BY <1>1 DEF Before
<1> QED  BY <1>4, <1>5, <1>6, <1>7

\* After an assistant's message and results only, the calls that wait are those of the
\* message that no result answers.
LEMMA AskWaits ==
  ASSUME NEW X, NEW h \in Seq(X), NEW i \in DOMAIN h, NEW k \in S!LastAsk(h, i)
  PROVE  Waiting(h, 1..(i - 1)) = S!IdsOf(h[k].calls) \ S!AnsweredBetween(h, k, i)
<1>1. /\ i \in Nat /\ k \in 1..(i - 1) /\ h[k].role = "assistant"
      /\ \A l \in (k + 1)..(i - 1) : h[l].role = "tool"
  BY DEF S!LastAsk
<1>2. \A m \in 1..(i - 1) : m = k \/ m < k \/ m \in (k + 1)..(i - 1)
  BY <1>1
<1>3. \A l \in 1..(i - 1) : l > k <=> l \in (k + 1)..(i - 1)
  BY <1>1
<1>4. ASSUME NEW id
      PROVE  Waits(h, 1..(i - 1), k, id) <=>
               id \in S!IdsOf(h[k].calls) \ S!AnsweredBetween(h, k, i)
  <2>1. \A l \in (k + 1)..(i - 1) : l \in 1..(i - 1)
    BY <1>1
  <2> QED  BY <1>1, <1>3, <2>1 DEF Waits, S!AnsweredBetween
<1>5. ASSUME NEW m \in 1..(i - 1), NEW id, Waits(h, 1..(i - 1), m, id) PROVE m = k
  <2>1. CASE m < k
    <3>1. k > m
      BY <1>1, <2>1
    <3> QED  BY <1>1, <1>5, <3>1 DEF Waits
  <2>2. CASE m \in (k + 1)..(i - 1)
    BY <1>1, <1>5, <2>2 DEF Waits
  <2> QED  BY <1>2, <2>1, <2>2
<1>6. \A id \in S!IdsOf(h[k].calls) : id \in UsedBy(h, 1..(i - 1))
  BY <1>1 DEF UsedBy
<1>7. \A id : id \in Waiting(h, 1..(i - 1)) <=>
               id \in S!IdsOf(h[k].calls) \ S!AnsweredBetween(h, k, i)
  <2>1. ASSUME NEW id, id \in Waiting(h, 1..(i - 1))
        PROVE  id \in S!IdsOf(h[k].calls) \ S!AnsweredBetween(h, k, i)
    BY <2>1, <1>4, <1>5 DEF Waiting
  <2>2. ASSUME NEW id, id \in S!IdsOf(h[k].calls) \ S!AnsweredBetween(h, k, i)
        PROVE  id \in Waiting(h, 1..(i - 1))
    BY <2>2, <1>1, <1>4, <1>6 DEF Waiting
  <2> QED  BY <2>1, <2>2
<1> QED  BY <1>7

\* A call that waits was asked for in a message followed by results only, up to the
\* present one or to another message, and none of them answers it.
LEMMA WaitsSince ==
  ASSUME NEW X, NEW h \in Seq(X), NEW i \in DOMAIN h, NEW id \in Waiting(h, 1..(i - 1))
  PROVE  \E l \in 1..i : \E k \in S!LastAsk(h, l) :
           /\ l = i \/ h[l].role \notin {"tool", "assistant"}
           /\ id \in S!IdsOf(h[k].calls) /\ id \notin S!AnsweredBetween(h, k, l)
<1>1. PICK k \in 1..(i - 1) : Waits(h, 1..(i - 1), k, id)
  BY DEF Waiting
<1>2. i \in Nat /\ k \in Nat
  OBVIOUS
<1> DEFINE Ends == {l \in (k + 1)..i : l = i \/ h[l].role # "tool"}
<1>3. PICK l \in Ends : \A m \in Ends : l <= m
  <2>1. Ends \in SUBSET Nat
    BY <1>2
  <2>2. i \in Ends
    BY <1>1, <1>2
  <2> HIDE DEF Ends
  <2> QED  BY <2>1, <2>2, LeastNumber
<1>4. l \in (k + 1)..i /\ l \in 1..i /\ l \in Nat
  BY <1>1, <1>3
<1>5. k \in S!LastAsk(h, l)
  <2>1. ASSUME NEW m \in (k + 1)..(l - 1) PROVE h[m].role = "tool"
    <3>1. m \in (k + 1)..i /\ m \in Nat /\ ~(l <= m)
      BY <1>2, <1>4
    <3>2. m \notin Ends
      BY <1>3, <3>1
    <3> HIDE DEF Ends
    <3> QED  BY <3>1, <3>2 DEF Ends
  <2>2. k \in 1..(l - 1) /\ h[k].role = "assistant"
    BY <1>1, <1>4 DEF Waits
  <2> QED  BY <2>1, <2>2 DEF S!LastAsk
<1>6. \A m \in (k + 1)..(i - 1) : h[m].role # "assistant" /\ h[m].answers # id
  <2>1. \A m \in (k + 1)..(i - 1) : m \in 1..(i - 1) /\ m > k
    BY <1>2
  <2> QED  BY <1>1, <2>1 DEF Waits
<1>7. id \notin S!AnsweredBetween(h, k, l)
  <2>1. \A m \in (k + 1)..(l - 1) : m \in (k + 1)..(i - 1)
    BY <1>2, <1>4
  <2> QED  BY <1>6, <2>1 DEF S!AnsweredBetween
<1>8. l = i \/ h[l].role \notin {"tool", "assistant"}
  <2>1. CASE l # i
    <3>1. l \in (k + 1)..(i - 1)
      BY <1>2, <1>4, <2>1
    <3>2. h[l].role # "tool"
      BY <1>3, <2>1
    <3> QED  BY <1>6, <3>1, <3>2
  <2> QED  BY <2>1
<1>9. id \in S!IdsOf(h[k].calls)
  BY <1>1 DEF Waits
<1> QED  BY <1>4, <1>5, <1>7, <1>8, <1>9

\* The role before a message.
LEMMA RoleThere ==
  ASSUME NEW h, NEW i \in Nat \ {0}
  PROVE  RoleBefore(h, 1..(i - 1)) = IF i = 1 THEN "" ELSE h[i - 1].role
<1>1. CASE i = 1
  <2>1. 1..(i - 1) = {}
    BY <1>1
  <2> QED  BY <1>1, <2>1 DEF RoleBefore
<1>2. CASE i # 1
  <2>1. i - 1 \in Nat /\ i - 1 \in 1..(i - 1) /\ 1..(i - 1) # {}
    BY <1>2
  <2>2. /\ Greatest(1..(i - 1)) \in 1..(i - 1)
        /\ \A y \in 1..(i - 1) : Greatest(1..(i - 1)) >= y
    BY <2>1, GreatestThere
  <2>3. Greatest(1..(i - 1)) = i - 1
    BY <2>1, <2>2
  <2> QED  BY <1>2, <2>1, <2>3 DEF RoleBefore
<1> QED  BY <1>1, <1>2

\* An accepted transcript obeys the rules.
LEMMA FitsObey ==
  ASSUME NEW X, NEW h \in Seq(X), \A i \in DOMAIN h : Fits(h, 1..(i - 1), i)
  PROVE  S!WellFormed(h)
<1> SUFFICES ASSUME NEW i \in DOMAIN h
             PROVE  /\ S!ShapeRight(h[i])
                    /\ h[i].role = "user" => i = 1 \/ h[i - 1].role # "user"
                    /\ h[i].role = "assistant" =>
                         /\ i > 1 /\ h[i - 1].role # "assistant"
                         /\ \A k \in 1..(i - 1) :
                              S!IdsOf(h[k].calls) \cap S!IdsOf(h[i].calls) = {}
                    /\ h[i].role = "tool" =>
                         \E k \in S!LastAsk(h, i) :
                           h[i].answers \in S!IdsOf(h[k].calls) \ S!AnsweredBetween(h, k, i)
                    /\ h[i].role # "tool" =>
                         \A k \in S!LastAsk(h, i) :
                           S!IdsOf(h[k].calls) \subseteq S!AnsweredBetween(h, k, i)
  BY DEF S!WellFormed
<1>1. i \in Nat \ {0} /\ Fits(h, 1..(i - 1), i)
  OBVIOUS
<1>2. RoleBefore(h, 1..(i - 1)) = IF i = 1 THEN "" ELSE h[i - 1].role
  BY <1>1, RoleThere
<1>3. CASE h[i].role = "user"
  <2>1. S!UserFits(h[i], RoleBefore(h, 1..(i - 1)), Waiting(h, 1..(i - 1)))
    BY <1>1, <1>3 DEF Fits
  <2>2. \A k \in S!LastAsk(h, i) :
          S!IdsOf(h[k].calls) \subseteq S!AnsweredBetween(h, k, i)
    BY <2>1, AskWaits DEF S!UserFits
  <2> QED  BY <1>2, <1>3, <2>1, <2>2 DEF S!UserFits, S!ShapeRight
<1>4. CASE h[i].role = "assistant"
  <2>1. S!AssistantFits(h[i], RoleBefore(h, 1..(i - 1)), Waiting(h, 1..(i - 1)),
                        UsedBy(h, 1..(i - 1)))
    BY <1>1, <1>4 DEF Fits
  <2>2. \A k \in S!LastAsk(h, i) :
          S!IdsOf(h[k].calls) \subseteq S!AnsweredBetween(h, k, i)
    BY <2>1, AskWaits DEF S!AssistantFits
  <2>3. i > 1 /\ h[i - 1].role # "assistant"
    <3>1. RoleBefore(h, 1..(i - 1)) \notin {"", "assistant"}
      BY <2>1 DEF S!AssistantFits
    <3>2. i # 1
      BY <1>2, <3>1
    <3>3. h[i - 1].role # "assistant"
      BY <1>2, <3>1, <3>2
    <3> QED  BY <1>1, <3>2, <3>3
  <2>4. \A k \in 1..(i - 1) : S!IdsOf(h[k].calls) \cap S!IdsOf(h[i].calls) = {}
    BY <2>1 DEF S!AssistantFits, UsedBy
  <2>5. S!ShapeRight(h[i])
    BY <1>4, <2>1 DEF S!AssistantFits, S!ShapeRight
  <2> QED  BY <1>4, <2>2, <2>3, <2>4, <2>5
<1>5. CASE h[i].role = "tool"
  <2>1. S!ToolFits(h[i], RoleBefore(h, 1..(i - 1)), Waiting(h, 1..(i - 1)))
    BY <1>1, <1>5 DEF Fits
  <2>2. S!ShapeRight(h[i])
    BY <1>5, <2>1 DEF S!ToolFits, S!ShapeRight
  <2> DEFINE id == h[i].answers
  <2>3. id \in Waiting(h, 1..(i - 1))
    BY <2>1 DEF S!ToolFits
  <2>9. PICK l \in 1..i : \E k \in S!LastAsk(h, l) :
           /\ l = i \/ h[l].role \notin {"tool", "assistant"}
           /\ id \in S!IdsOf(h[k].calls) /\ id \notin S!AnsweredBetween(h, k, l)
    BY <2>3, WaitsSince
  <2>4. PICK k \in S!LastAsk(h, l) :
          /\ l = i \/ h[l].role \notin {"tool", "assistant"}
          /\ id \in S!IdsOf(h[k].calls) /\ id \notin S!AnsweredBetween(h, k, l)
    BY <2>9
  <2>5. l = i
    <3> SUFFICES ASSUME l # i PROVE FALSE
      OBVIOUS
    <3>1. l \in DOMAIN h
      OBVIOUS
    <3>2. Fits(h, 1..(l - 1), l)
      BY <3>1
    <3>3. Waiting(h, 1..(l - 1)) = {}
      BY <2>4, <3>2 DEF Fits, S!UserFits
    <3>4. Waiting(h, 1..(l - 1)) = S!IdsOf(h[k].calls) \ S!AnsweredBetween(h, k, l)
      BY <3>1, AskWaits
    <3> QED  BY <2>4, <3>3, <3>4
  <2> QED  BY <1>5, <2>2, <2>4, <2>5
<1>6. h[i].role \in {"user", "assistant", "tool"}
  BY <1>1 DEF Fits
<1> QED  BY <1>3, <1>4, <1>5, <1>6

\* A transcript that obeys the rules is accepted.
LEMMA ObeyFits ==
  ASSUME NEW X, NEW h \in Seq(X), S!WellFormed(h), NEW i \in DOMAIN h
  PROVE  Fits(h, 1..(i - 1), i)
<1>1. i \in Nat \ {0}
  OBVIOUS
<1>2. RoleBefore(h, 1..(i - 1)) = IF i = 1 THEN "" ELSE h[i - 1].role
  BY <1>1, RoleThere
<1>3. ASSUME h[i].role # "tool" PROVE Waiting(h, 1..(i - 1)) = {}
  <2> SUFFICES ASSUME NEW id \in Waiting(h, 1..(i - 1)) PROVE FALSE
    OBVIOUS
  <2>9. PICK l \in 1..i : \E k \in S!LastAsk(h, l) :
           /\ l = i \/ h[l].role \notin {"tool", "assistant"}
           /\ id \in S!IdsOf(h[k].calls) /\ id \notin S!AnsweredBetween(h, k, l)
    BY WaitsSince
  <2>1. PICK k \in S!LastAsk(h, l) :
          /\ l = i \/ h[l].role \notin {"tool", "assistant"}
          /\ id \in S!IdsOf(h[k].calls) /\ id \notin S!AnsweredBetween(h, k, l)
    BY <2>9
  <2>2. l \in DOMAIN h
    OBVIOUS
  <2>3. h[l].role # "tool"
    BY <1>3, <2>1
  <2> QED  BY <2>1, <2>2, <2>3 DEF S!WellFormed
<1>4. S!ShapeRight(h[i])
  BY DEF S!WellFormed
<1>5. CASE h[i].role = "user"
  <2>1. RoleBefore(h, 1..(i - 1)) # "user"
    BY <1>2, <1>5 DEF S!WellFormed
  <2>2. Waiting(h, 1..(i - 1)) = {}
    BY <1>3, <1>5
  <2> QED  BY <1>4, <1>5, <2>1, <2>2 DEF Fits, S!UserFits, S!ShapeRight
<1>6. CASE h[i].role = "assistant"
  <2>1. Waiting(h, 1..(i - 1)) = {}
    BY <1>3, <1>6
  <2>2. i > 1 /\ h[i - 1].role # "assistant"
    BY <1>6 DEF S!WellFormed
  <2>3. i - 1 \in DOMAIN h
    BY <1>1, <2>2
  <2>4. h[i - 1].role # ""
    BY <2>3 DEF S!WellFormed, S!ShapeRight
  <2>5. RoleBefore(h, 1..(i - 1)) \notin {"", "assistant"}
    <3>1. i # 1
      BY <2>2
    <3> QED  BY <1>2, <2>2, <2>4, <3>1, Zenon
  <2>6. S!IdsOf(h[i].calls) \cap UsedBy(h, 1..(i - 1)) = {}
    <3>1. \A k \in 1..(i - 1) : S!IdsOf(h[k].calls) \cap S!IdsOf(h[i].calls) = {}
      BY <1>6 DEF S!WellFormed
    <3> QED  BY <3>1, Zenon DEF UsedBy
  <2> QED  BY <1>4, <1>6, <2>1, <2>5, <2>6 DEF Fits, S!AssistantFits, S!ShapeRight
<1>7. CASE h[i].role = "tool"
  <2>1. PICK k \in S!LastAsk(h, i) :
          h[i].answers \in S!IdsOf(h[k].calls) \ S!AnsweredBetween(h, k, i)
    BY <1>7 DEF S!WellFormed
  <2>2. h[i].answers \in Waiting(h, 1..(i - 1))
    BY <2>1, AskWaits
  <2>3. /\ k \in 1..(i - 1) /\ h[k].role = "assistant"
        /\ \A l \in (k + 1)..(i - 1) : h[l].role = "tool"
    BY DEF S!LastAsk
  <2>4. i # 1 /\ (k = i - 1 \/ i - 1 \in (k + 1)..(i - 1))
    BY <1>1, <2>3
  <2>5. RoleBefore(h, 1..(i - 1)) \in {"assistant", "tool"}
    BY <1>2, <2>3, <2>4
  <2> QED  BY <1>4, <1>7, <2>2, <2>5 DEF Fits, S!ToolFits, S!ShapeRight
<1>8. h[i].role \in {"user", "assistant", "tool"}
  BY <1>4 DEF S!ShapeRight
<1> QED  BY <1>5, <1>6, <1>7, <1>8

\* CheckTranscript accepts a transcript of any length, whoever wrote it, exactly when every
\* message obeys the rules its doc comment gives.
THEOREM TranscriptChecked ==
  ASSUME NEW X, NEW h \in Seq(X)
  PROVE  S!CheckTranscript(h) <=> S!WellFormed(h)
<1>1. (\A i \in DOMAIN h : Fits(h, 1..(i - 1), i)) => S!WellFormed(h)
  BY FitsObey
<1>2. S!WellFormed(h) => \A i \in DOMAIN h : Fits(h, 1..(i - 1), i)
  BY ObeyFits
<1> QED  BY <1>1, <1>2, CheckReads

\* Whether a message fits depends on the messages up to it.
LEMMA FitsSame ==
  ASSUME NEW h, NEW e, NEW i \in Nat \ {0}, \A j \in 1..i : e[j] = h[j]
  PROVE  Fits(e, 1..(i - 1), i) <=> Fits(h, 1..(i - 1), i)
<1> DEFINE s == 1..(i - 1)
<1>1. e[i] = h[i] /\ \A j \in s : e[j] = h[j]
  OBVIOUS
<1>2. s # {} => Greatest(s) \in s
  <2>1. i - 1 \in Nat /\ s \in SUBSET (1..(i - 1))
    OBVIOUS
  <2> QED  BY <2>1, GreatestThere
<1> HIDE DEF s
<1>3. RoleBefore(e, s) = RoleBefore(h, s)
  BY <1>1, <1>2 DEF RoleBefore
<1>4. UsedBy(e, s) = UsedBy(h, s)
  BY <1>1 DEF UsedBy
<1>5. \A k \in s : \A id : Waits(e, s, k, id) <=> Waits(h, s, k, id)
  BY <1>1 DEF Waits
<1>6. Waiting(e, s) = Waiting(h, s)
  BY <1>4, <1>5 DEF Waiting
<1>7. Fits(e, s, i) <=> Fits(h, s, i)
  BY <1>1, <1>3, <1>4, <1>6, Zenon DEF Fits
<1> QED  BY <1>7 DEF s

\* A conversation one message longer.
LEMMA OneMore ==
  ASSUME NEW X, NEW h \in Seq(X), NEW m \in X, NEW e, e = h \o <<m>>
  PROVE  /\ e \in Seq(X) /\ Len(e) = Len(h) + 1 /\ e[Len(h) + 1] = m
         /\ \A j \in 1..Len(h) : e[j] = h[j]
         /\ Len(h) \in Nat /\ DOMAIN h = 1..Len(h) /\ DOMAIN e = 1..Len(e)
         /\ h # <<>> => Len(h) # 0
<1>1. <<m>> \in Seq(X) /\ Len(<<m>>) = 1 /\ <<m>>[1] = m
  OBVIOUS
<1>2. e \in Seq(X) /\ Len(e) = Len(h) + 1
  BY <1>1
<1>3. /\ Len(h) \in Nat /\ (h # <<>> => Len(h) # 0)
      /\ DOMAIN h = 1..Len(h) /\ DOMAIN e = 1..Len(e)
  BY <1>2
<1>4. \A j \in 1..Len(h) : e[j] = h[j]
  OBVIOUS
<1>5. e[Len(h) + 1] = m
  BY <1>1, <1>3
<1> QED  BY <1>2, <1>3, <1>4, <1>5

\* What CallTurn makes of a model's answer.
IsReply(m) == m.role = "assistant" /\ m.answers = ""

\* An accepted reply to a conversation in which no call waits and nobody but the user or a
\* tool spoke last leaves a conversation that obeys the rules.
LEMMA ReplyObeys ==
  ASSUME NEW X, NEW h \in Seq(X), NEW m \in X, NEW e, e = h \o <<m>>,
         S!CheckTranscript(h), h # <<>>, h[Len(h)].role \in {"user", "tool"},
         Waiting(e, 1..Len(h)) = {}, IsReply(m), S!checkTurnReply(m, h)
  PROVE  S!WellFormed(e)
<1>1. /\ e \in Seq(X) /\ Len(e) = Len(h) + 1 /\ e[Len(h) + 1] = m
      /\ \A j \in 1..Len(h) : e[j] = h[j]
      /\ Len(h) \in Nat /\ Len(h) # 0 /\ DOMAIN h = 1..Len(h) /\ DOMAIN e = 1..Len(e)
  BY OneMore
<1>2. ASSUME NEW i \in 1..Len(h) PROVE Fits(e, 1..(i - 1), i)
  <2>1. i \in DOMAIN h /\ i \in Nat \ {0} /\ \A j \in 1..i : e[j] = h[j]
    BY <1>1
  <2>2. Fits(h, 1..(i - 1), i)
    BY <2>1, CheckReads
  <2> QED  BY <2>1, <2>2, FitsSame
<1>3. S!AssistantFits(m, h[Len(h)].role, {}, UsedBy(e, 1..Len(h)))
  <2>1. UsedBy(e, 1..Len(h)) = S!UsedIn(h)
    BY <1>1 DEF UsedBy, S!UsedIn
  <2>2. CASE m.calls = <<>>
    <3>1. PICK c : c = m.calls
      OBVIOUS
    <3>2. DOMAIN c = {}
      BY <2>2, <3>1
    <3>3. S!IdsOf(c) = {} /\ S!Distinct(c)
      BY <3>2 DEF S!IdsOf, S!Distinct
    <3>4. m.text
      BY <2>2 DEF S!checkTurnReply
    <3> QED  BY <3>1, <3>2, <3>3, <3>4 DEF S!AssistantFits, IsReply
  <2>3. CASE m.calls # <<>>
    BY <2>1, <2>3 DEF S!checkTurnReply, S!AssistantFits, IsReply
  <2> QED  BY <2>2, <2>3
<1>4. RoleBefore(e, 1..Len(h)) = h[Len(h)].role
  <2>1. Len(h) + 1 \in Nat \ {0} /\ Len(h) + 1 # 1 /\ (Len(h) + 1) - 1 = Len(h)
    BY <1>1
  <2>2. RoleBefore(e, 1..Len(h)) = e[Len(h)].role
    BY <2>1, RoleThere
  <2> QED  BY <1>1, <2>2
<1>5. Fits(e, 1..Len(h), Len(h) + 1)
  BY <1>1, <1>3, <1>4 DEF Fits, IsReply
<1>6. \A i \in DOMAIN e : Fits(e, 1..(i - 1), i)
  <2>1. \A i \in DOMAIN e : i \in 1..Len(h) \/ i = Len(h) + 1
    BY <1>1
  <2>2. (Len(h) + 1) - 1 = Len(h)
    BY <1>1
  <2> QED  BY <1>2, <1>5, <2>1, <2>2
<1> QED  BY <1>1, <1>6, FitsObey

\* Nothing waits after what the user says.
LEMMA UserWaits ==
  ASSUME NEW X, NEW e \in Seq(X), NEW l \in DOMAIN e, e[l].role = "user",
         Fits(e, 1..(l - 1), l)
  PROVE  Waiting(e, 1..l) = {}
<1>1. Waiting(e, 1..(l - 1)) = {}
  BY DEF Fits, S!UserFits
<1>2. l \in Nat \ {0} /\ 1..l \in SUBSET (1..Len(e)) /\ 1..l # {} /\ l \in 1..l
  OBVIOUS
<1>3. Greatest(1..l) = l
  <2>1. Greatest(1..l) \in 1..l /\ \A y \in 1..l : Greatest(1..l) >= y
    BY <1>2, GreatestThere
  <2> QED  BY <1>2, <2>1
<1>4. (1..l) \ {l} = 1..(l - 1)
  BY <1>2
<1>5. Seen(e, 1..l) = S!Scan(Seen(e, 1..(l - 1)), e[l])
  <2>1. Len(e) \in Nat /\ DOMAIN e = 1..Len(e)
    OBVIOUS
  <2>2. Seen(e, 1..l) = S!Scan(Seen(e, (1..l) \ {Greatest(1..l)}), e[Greatest(1..l)])
    BY <1>2, <2>1, SeenGrows
  <2> QED  BY <1>3, <1>4, <2>2
<1>6. Seen(e, 1..l).waiting = Seen(e, 1..(l - 1)).waiting \ {e[l].answers}
  BY <1>5 DEF S!Scan
<1> QED  BY <1>1, <1>6 DEF Seen

\* What a result is.
LEMMA ToolSays == \A id : S!Tool(id).role = "tool" /\ S!Tool(id).answers = id
  BY DEF S!Tool, S!Message

\* Nothing waits after a result for every call.
LEMMA ResultsWait ==
  ASSUME NEW X, NEW e \in Seq(X), NEW k \in DOMAIN e, NEW i \in DOMAIN e, k < i,
         e[k].role = "assistant", DOMAIN e[k].calls = 1..Len(e[k].calls),
         Len(e[k].calls) \in Nat, i = k + Len(e[k].calls) + 1,
         \A j \in DOMAIN e[k].calls : e[k + j] = S!Tool(e[k].calls[j].id)
  PROVE  Waiting(e, 1..(i - 1)) = {}
<1>1. k \in Nat /\ i \in Nat /\ Len(e[k].calls) \in Nat
      /\ DOMAIN e[k].calls = 1..Len(e[k].calls)
  OBVIOUS
<1>2. ASSUME NEW l \in (k + 1)..(i - 1)
      PROVE  l - k \in DOMAIN e[k].calls /\ e[l] = S!Tool(e[k].calls[l - k].id)
  <2>1. l - k \in DOMAIN e[k].calls /\ k + (l - k) = l
    BY <1>1
  <2> QED  BY <2>1
<1>3. k \in S!LastAsk(e, i)
  <2>1. k \in 1..(i - 1)
    BY <1>1
  <2>2. \A l \in (k + 1)..(i - 1) : e[l].role = "tool"
    BY <1>2, ToolSays
  <2> QED  BY <2>1, <2>2 DEF S!LastAsk
<1>4. S!IdsOf(e[k].calls) \subseteq S!AnsweredBetween(e, k, i)
  <2> SUFFICES ASSUME NEW j \in DOMAIN e[k].calls
               PROVE  e[k].calls[j].id \in S!AnsweredBetween(e, k, i)
    BY DEF S!IdsOf
  <2>1. k + j \in (k + 1)..(i - 1)
    BY <1>1
  <2>2. e[k + j].answers = e[k].calls[j].id
    BY ToolSays
  <2> QED  BY <2>1, <2>2 DEF S!AnsweredBetween
<1> QED  BY <1>3, <1>4, AskWaits

\* What a turn adds are messages, and nothing waits after them.
LEMMA AddsMessages ==
  ASSUME sHistory \in Seq(S!Messages)
  PROVE  /\ <<S!User(TRUE)>> \in Seq(S!Messages)
         /\ LET calls == S!pendingCalls(sHistory) IN
              /\ DOMAIN calls = 1..Len(calls) /\ Len(calls) \in Nat
              /\ S!Results(calls) \in Seq(S!Messages)
              /\ Len(S!Results(calls)) = Len(calls)
<1> DEFINE calls == S!pendingCalls(sHistory)
<1>0. PICK Asked : Asked = Seq([id : CallIds, usable : BOOLEAN])
  OBVIOUS
<1>1. S!User(TRUE) \in S!Messages
  <2>1. <<>> \in Asked
    BY <1>0
  <2>3. PICK Roles : Roles = {"user", "assistant", "tool", "system"}
    OBVIOUS
  <2>2. S!Messages = [role : Roles, text : BOOLEAN, calls : Asked, answers : CallIds]
    BY <1>0, <2>3 DEF S!Messages
  <2> QED  BY <2>1, <2>2, <2>3, SessionConstants DEF S!User, S!Message
<1>2. calls \in Seq([id : CallIds, usable : BOOLEAN])
  <2>1. CASE sHistory = <<>> \/ S!Last(sHistory).role # "assistant"
    BY <2>1 DEF S!pendingCalls
  <2>2. CASE ~(sHistory = <<>> \/ S!Last(sHistory).role # "assistant")
    <3>1. S!Last(sHistory) \in S!Messages
      BY <2>2 DEF S!Last
    <3>2. S!Last(sHistory).calls \in Seq([id : CallIds, usable : BOOLEAN])
      BY <3>1 DEF S!Messages
    <3> QED  BY <2>2, <3>2 DEF S!pendingCalls
  <2> QED  BY <2>1, <2>2
<1> HIDE DEF calls
<1>3. \A j \in DOMAIN calls : S!Tool(calls[j].id) \in S!Messages
  <2> SUFFICES ASSUME NEW j \in DOMAIN calls PROVE S!Tool(calls[j].id) \in S!Messages
    OBVIOUS
  <2>1. PICK Call : Call = [id : CallIds, usable : BOOLEAN]
    OBVIOUS
  <2>2. calls \in Seq(Call)
    BY <1>2, <2>1
  <2>3. calls[j] \in Call
    BY <2>2
  <2>4. calls[j].id \in CallIds
    BY <2>1, <2>3
  <2>5. <<>> \in Asked
    BY <1>0
  <2>7. PICK Roles : Roles = {"user", "assistant", "tool", "system"}
    OBVIOUS
  <2>6. S!Messages = [role : Roles, text : BOOLEAN, calls : Asked, answers : CallIds]
    BY <1>0, <2>7 DEF S!Messages
  <2> QED  BY <2>4, <2>5, <2>6, <2>7, SessionConstants DEF S!Tool, S!Message
<1>4. DOMAIN calls = 1..Len(calls) /\ Len(calls) \in Nat
  BY <1>2
<1>5. S!Results(calls) \in [1..Len(calls) -> S!Messages]
  BY <1>3, <1>4 DEF S!Results
<1>6. S!Results(calls) \in Seq(S!Messages) /\ Len(S!Results(calls)) = Len(calls)
  BY <1>4, <1>5
<1>7. <<S!User(TRUE)>> \in Seq(S!Messages)
  <2>1. PICK u, Said : u = S!User(TRUE) /\ Said = S!Messages
    OBVIOUS
  <2>2. u \in Said
    BY <1>1, <2>1
  <2>3. <<u>> \in Seq(Said)
    BY <2>2
  <2> QED  BY <2>1, <2>3
<1> QED  BY <1>4, <1>6, <1>7 DEF calls

\* A conversation with what a turn adds: who spoke last, and that nothing waits once a
\* reply follows.
LEMMA AddsRight ==
  ASSUME NEW t \in SessionTurns, sHistory \in Seq(S!Messages), sAdd[t] \in Seq(S!Messages),
         S!Adds(t), NEW m \in S!Messages, NEW h, h = sHistory \o sAdd[t], NEW e, e = h \o <<m>>,
         S!CheckTranscript(h)
  PROVE  /\ h \in Seq(S!Messages) /\ h # <<>> /\ h[Len(h)].role \in {"user", "tool"}
         /\ Waiting(e, 1..Len(h)) = {}
<1>0. h \in Seq(S!Messages) /\ Len(h) = Len(sHistory) + Len(sAdd[t])
      /\ Len(sHistory) \in Nat /\ Len(sAdd[t]) \in Nat
      /\ DOMAIN h = 1..Len(h) /\ DOMAIN sHistory = 1..Len(sHistory)
  OBVIOUS
<1>1. \A j \in 1..Len(sHistory) : h[j] = sHistory[j]
  OBVIOUS
<1>2. \A j \in 1..Len(sAdd[t]) : h[Len(sHistory) + j] = sAdd[t][j]
  OBVIOUS
<1>3. /\ e \in Seq(S!Messages) /\ Len(e) = Len(h) + 1
      /\ \A j \in 1..Len(h) : e[j] = h[j]
      /\ DOMAIN e = 1..Len(e)
  BY <1>0, OneMore
<1>4. CASE sAdd[t] = <<S!User(TRUE)>>
  <2>1. Len(sAdd[t]) = 1 /\ sAdd[t][1] = S!User(TRUE)
    BY <1>4
  <2>2. Len(h) = Len(sHistory) + 1 /\ h[Len(h)] = S!User(TRUE)
    <3>1. 1 \in 1..Len(sAdd[t])
      BY <2>1
    <3>2. h[Len(sHistory) + 1] = S!User(TRUE)
      BY <1>2, <2>1, <3>1
    <3> QED  BY <1>0, <2>1, <3>2
  <2>3. h[Len(h)].role = "user"
    <3>1. S!User(TRUE).role = "user"
      BY DEF S!User, S!Message
    <3> QED  BY <2>2, <3>1
  <2>4. /\ Len(h) \in DOMAIN h /\ Len(h) \in DOMAIN e /\ Len(h) \in Nat \ {0}
        /\ e[Len(h)].role = "user" /\ h # <<>>
    BY <1>0, <1>3, <2>2, <2>3
  <2>5. Fits(h, 1..(Len(h) - 1), Len(h))
    BY <1>0, <2>4, CheckReads
  <2>6. Fits(e, 1..(Len(h) - 1), Len(h))
    BY <1>3, <2>4, <2>5, FitsSame
  <2> QED  BY <1>0, <1>3, <2>3, <2>4, <2>6, UserWaits
<1>5. CASE /\ S!pendingCalls(sHistory) # <<>>
           /\ sAdd[t] = S!Results(S!pendingCalls(sHistory))
  <2>1. PICK calls : calls = S!pendingCalls(sHistory)
    OBVIOUS
  <2>2. /\ sHistory # <<>> /\ S!Last(sHistory).role = "assistant"
        /\ calls = S!Last(sHistory).calls
    BY <1>5, <2>1 DEF S!pendingCalls
  <2> DEFINE k == Len(sHistory)
  <2>3. k \in 1..Len(h) /\ k \in DOMAIN e /\ k \in Nat /\ sHistory[k] = S!Last(sHistory)
    BY <1>0, <1>3, <2>2 DEF S!Last
  <2>4. e[k] = S!Last(sHistory)
    BY <1>0, <1>1, <1>3, <2>2, <2>3
  <2>5. DOMAIN calls = 1..Len(calls) /\ Len(calls) \in Nat /\ Len(sAdd[t]) = Len(calls)
    BY <1>5, <2>1, AddsMessages
  <2>6. Len(calls) # 0
    <3>1. S!Last(sHistory) \in S!Messages
      BY <2>2 DEF S!Last
    <3>2. calls \in Seq([id : CallIds, usable : BOOLEAN])
      BY <2>2, <3>1 DEF S!Messages
    <3> QED  BY <1>5, <2>1, <3>2
  <2>7. \A j \in DOMAIN calls : e[k + j] = S!Tool(calls[j].id)
    <3> SUFFICES ASSUME NEW j \in DOMAIN calls PROVE e[k + j] = S!Tool(calls[j].id)
      OBVIOUS
    <3>1. k + j \in 1..Len(h) /\ j \in 1..Len(sAdd[t])
      BY <1>0, <2>3, <2>5
    <3>2. e[k + j] = sAdd[t][j]
      BY <1>2, <1>3, <3>1
    <3>3. sAdd[t][j] = S!Tool(calls[j].id)
      BY <1>5, <2>1 DEF S!Results
    <3> QED  BY <3>2, <3>3
  <2>8. h # <<>> /\ Len(h) = k + Len(calls) /\ Len(h) \in 1..Len(h)
    BY <1>0, <2>3, <2>5, <2>6
  <2>9. h[Len(h)].role = "tool"
    <3>1. Len(calls) \in DOMAIN calls
      BY <2>5, <2>6
    <3>2. e[Len(h)].role = "tool"
      BY <2>7, <2>8, <3>1, ToolSays
    <3> QED  BY <1>3, <2>8, <3>2
  <2>10. Waiting(e, 1..((Len(h) + 1) - 1)) = {}
    <3>1. /\ Len(h) + 1 \in DOMAIN e /\ k < Len(h) + 1
          /\ Len(h) + 1 = k + Len(calls) + 1
      <4>1. Len(h) \in Nat /\ k \in Nat /\ Len(h) = k + Len(calls) /\ k <= Len(h)
        BY <1>0, <2>3, <2>5, <2>8
      <4> HIDE DEF k
      <4> QED  BY <1>3, <2>5, <4>1
    <3>2. e[k].role = "assistant" /\ e[k].calls = calls
      BY <2>2, <2>4
    <3> HIDE DEF k
    <3> QED  BY <1>3, <2>3, <2>5, <2>7, <3>1, <3>2, ResultsWait
  <2>11. (Len(h) + 1) - 1 = Len(h)
    BY <2>8, <1>0
  <2> QED  BY <1>0, <2>8, <2>9, <2>10, <2>11
<1> QED  BY <1>4, <1>5 DEF S!Adds

-----------------------------------------------------------------------------
\* A conversation.

\* No turn runs at first.
LEMMA TurnsInit == S!Init => S!TurnsInv
<1> SUFFICES ASSUME S!Init PROVE S!TurnsInv
  OBVIOUS
<1>1. sBusy \in BOOLEAN
  BY DEF S!Init
<1>2. sBegan \in [SessionTurns -> {sBegan[t] : t \in SessionTurns}]
  BY DEF S!Init
<1> QED  BY <1>1, <1>2 DEF S!Init, S!TurnsInv, S!OneTurn, S!Running

\* A turn that runs goes on, by itself and with the flag set, until it lets go of it.
LEMMA TurnsStep ==
  ASSUME S!TurnsInv, NEW t \in SessionTurns, S!Step(t)
  PROVE  S!TurnsInv'
<1> USE DEF S!TurnsInv, S!OneTurn, S!Running, S!Go
<1>1. CASE S!Start(t)
  <2>1. /\ sAt[t] = "idle" /\ sAt' = [sAt EXCEPT ![t] = "composing"] /\ ~sBusy /\ sBusy' = TRUE
        /\ sBegan' = [sBegan EXCEPT ![t] = sHistory] /\ sHistory' = sHistory
    BY <1>1 DEF S!Start
  <2>2. \A u \in SessionTurns : sAt[u] \in {"idle", "refused", "ended"}
    BY <2>1
  <2>3. sBusy' \in BOOLEAN
    BY <2>1
  <2>4. sBegan' \in [SessionTurns -> {sBegan'[u] : u \in SessionTurns}]
    BY <2>1
  <2>5. \A u \in SessionTurns : S!Running(u)' <=> u = t
    BY <2>1, <2>2
  <2>6. sBegan'[t] = sHistory'
    BY <2>1
  <2> QED  BY <2>1, <2>3, <2>4, <2>5, <2>6
<1>2. CASE S!Refused(t)
  BY <1>2 DEF S!Refused
<1>3. ASSUME sAt[t] \in {"composing", "checking", "asking", "keeping"},
             NEW l \in {"checking", "asking", "keeping", "ending"}, sAt' = [sAt EXCEPT ![t] = l],
             UNCHANGED <<sBusy, sBegan>>, l # "ending" => sHistory' = sHistory,
             sHistory' # sHistory => sAt[t] = "keeping"
      PROVE  S!TurnsInv'
  <2>1. \A u \in SessionTurns : S!Running(u)' <=> S!Running(u)
    BY <1>3
  <2>2. \A u \in SessionTurns : u # t => ~S!Running(u)
    BY <1>3
  <2> QED  BY <1>3, <2>1, <2>2
<1>4. CASE S!SendText(t)
  BY <1>3, <1>4 DEF S!SendText
<1>5. CASE S!SendResults(t)
  BY <1>3, <1>5 DEF S!SendResults
<1>6. CASE S!NotComposed(t)
  BY <1>3, <1>6 DEF S!NotComposed
<1>7. CASE S!Check(t)
  BY <1>3, <1>7 DEF S!Check
<1>8. CASE S!NoReply(t)
  BY <1>3, <1>8 DEF S!NoReply
<1>9. CASE S!Reply(t)
  BY <1>3, <1>9 DEF S!Reply
<1>10. CASE S!Keep(t)
  BY <1>3, <1>10 DEF S!Keep
<1>11. CASE S!Release(t)
  <2>1. /\ sAt[t] = "ending" /\ sAt' = [sAt EXCEPT ![t] = "ended"] /\ sBusy' = FALSE
        /\ sBegan' = [sBegan EXCEPT ![t] = <<>>] /\ sHistory' = sHistory
    BY <1>11 DEF S!Release
  <2>2. \A u \in SessionTurns : ~S!Running(u)'
    BY <2>1
  <2>3. sBusy' \in BOOLEAN
    BY <2>1
  <2>4. sBegan' \in [SessionTurns -> {sBegan'[u] : u \in SessionTurns}]
    BY <2>1
  <2> QED  BY <2>1, <2>2, <2>3, <2>4
<1> QED  BY <1>1, <1>2, <1>4, <1>5, <1>6, <1>7, <1>8, <1>9, <1>10, <1>11 DEF S!Step

\* What the caller cuts it cuts while no turn runs.
LEMMA TurnsNext ==
  ASSUME S!TurnsInv, [S!Next]_(S!vars)
  PROVE  /\ S!TurnsInv'
         /\ sBusy /\ sHistory' # sHistory => S!TurnLaid
<1>1. CASE \E t \in SessionTurns : S!Step(t)
  <2>1. PICK t \in SessionTurns : S!Step(t)
    BY <1>1
  <2>2. ASSUME sHistory' # sHistory PROVE S!TurnLaid
    <3>1. S!Keep(t)
      BY <2>1, <2>2 DEF S!Step, S!Start, S!Refused, S!SendText, S!SendResults, S!NotComposed,
                        S!Check, S!NoReply, S!Reply, S!Release
    <3>2. S!Running(t) /\ sBegan[t] = sHistory
      BY <3>1 DEF S!Keep, S!Go, S!Running, S!TurnsInv
    <3> QED  BY <3>1, <3>2 DEF S!Keep, S!TurnLaid
  <2> QED  BY <2>1, <2>2, TurnsStep
<1>2. CASE S!Cut
  <2>1. ~sBusy /\ UNCHANGED <<sBusy, sAt, sAdd, sReply, sBegan>>
    BY <1>2 DEF S!Cut
  <2> QED  BY <2>1 DEF S!TurnsInv, S!OneTurn, S!Running
<1>3. CASE UNCHANGED S!vars
  BY <1>3 DEF S!vars, S!TurnsInv, S!OneTurn, S!Running
<1> QED  BY <1>1, <1>2, <1>3 DEF S!Next

\* Nothing is said at first.
LEMMA WordsInit == S!Init => S!WordsInv
<1> SUFFICES ASSUME S!Init PROVE S!WordsInv
  OBVIOUS
<1>1. <<>> \in Seq(S!Messages) /\ sHistory \in Seq(S!Messages)
  <2>1. <<>> \in Seq(S!Messages)
    OBVIOUS
  <2>2. sHistory \in SavedHistories
    BY DEF S!Init
  <2> QED  BY <2>1, <2>2, SessionConstants
<1>2. /\ sAdd = [t \in SessionTurns |-> <<>>] /\ sReply = [t \in SessionTurns |-> S!Nothing]
      /\ \A t \in SessionTurns : sAt[t] = "idle"
  BY DEF S!Init
<1>3. sAdd \in [SessionTurns -> Seq(S!Messages)]
  BY <1>1, <1>2
<1>4. sReply \in [SessionTurns -> ModelReplies \cup {S!Nothing}]
  BY <1>2
<1> QED  BY <1>1, <1>2, <1>3, <1>4 DEF S!WordsInv

\* A reply is a message.
LEMMA RepliesAre == \A m \in ModelReplies : m \in S!Messages /\ IsReply(m)
  BY SessionConstants DEF IsReply

\* What the turns say is theirs, as long as the turn that changes something is the one that
\* runs.
LEMMA WordsStep ==
  ASSUME S!TurnsInv, S!WordsInv, NEW t \in SessionTurns, S!Step(t)
  PROVE  S!WordsInv'
<1> USE DEF S!Go
<1>1. /\ sHistory \in Seq(S!Messages)
      /\ sAdd \in [SessionTurns -> Seq(S!Messages)]
      /\ sReply \in [SessionTurns -> ModelReplies \cup {S!Nothing}]
      /\ DOMAIN sAt = SessionTurns
  BY DEF S!WordsInv, S!TurnsInv
<1>2. ASSUME NEW u \in SessionTurns
      PROVE  /\ sAt[u] \in {"checking", "asking", "keeping"} => S!Adds(u)
             /\ sAt[u] \in {"asking", "keeping"} => S!CheckTranscript(sHistory \o sAdd[u])
             /\ sAt[u] = "keeping" => /\ sReply[u] \in ModelReplies
                                     /\ S!checkTurnReply(sReply[u], sHistory \o sAdd[u])
  BY DEF S!WordsInv
<1> DEFINE Said(u) ==
      /\ sAt[u] \in {"checking", "asking", "keeping"} => S!Adds(u)
      /\ sAt[u] \in {"asking", "keeping"} => S!CheckTranscript(sHistory \o sAdd[u])
      /\ sAt[u] = "keeping" => /\ sReply[u] \in ModelReplies
                              /\ S!checkTurnReply(sReply[u], sHistory \o sAdd[u])
<1>3. ASSUME sHistory' \in Seq(S!Messages), sAdd' \in [SessionTurns -> Seq(S!Messages)],
             sReply' \in [SessionTurns -> ModelReplies \cup {S!Nothing}],
             \A u \in SessionTurns : Said(u)'
      PROVE  S!WordsInv'
  BY <1>3 DEF S!WordsInv
<1>4. ASSUME NEW u \in SessionTurns, u # t, sAt'[u] = sAt[u], sAdd'[u] = sAdd[u],
             sReply'[u] = sReply[u], sHistory' = sHistory
      PROVE  Said(u)'
  BY <1>2, <1>4 DEF S!Adds
<1>5. ASSUME NEW u \in SessionTurns, sAt'[u] \notin {"checking", "asking", "keeping"}
      PROVE  Said(u)'
  BY <1>5
<1>6. CASE S!Start(t) \/ S!Refused(t) \/ S!NotComposed(t)
  <2>1. UNCHANGED <<sHistory, sAdd, sReply>> /\ \E l \in {"composing", "refused", "ending"} :
          sAt' = [sAt EXCEPT ![t] = l]
    BY <1>6 DEF S!Start, S!Refused, S!NotComposed
  <2> HIDE DEF Said
  <2>2. \A u \in SessionTurns : Said(u)'
    BY <1>1, <1>4, <1>5, <2>1
  <2> QED  BY <1>1, <1>3, <2>1, <2>2
<1>7. CASE S!SendText(t)
  <2>1. /\ sAt' = [sAt EXCEPT ![t] = "checking"] /\ sAdd' = [sAdd EXCEPT ![t] = <<S!User(TRUE)>>]
        /\ UNCHANGED <<sHistory, sReply>>
    BY <1>7 DEF S!SendText
  <2>2. sAdd' \in [SessionTurns -> Seq(S!Messages)]
    BY <1>1, <2>1, AddsMessages
  <2>3. Said(t)'
    BY <1>1, <2>1 DEF S!Adds
  <2> HIDE DEF Said
  <2>4. \A u \in SessionTurns : Said(u)'
    BY <1>1, <1>4, <2>1, <2>3
  <2> QED  BY <1>1, <1>3, <2>1, <2>2, <2>4
<1>8. CASE S!SendResults(t)
  <2>1. /\ sAt' = [sAt EXCEPT ![t] = "checking"] /\ S!pendingCalls(sHistory) # <<>>
        /\ sAdd' = [sAdd EXCEPT ![t] = S!Results(S!pendingCalls(sHistory))]
        /\ UNCHANGED <<sHistory, sReply>>
    BY <1>8 DEF S!SendResults
  <2>2. sAdd' \in [SessionTurns -> Seq(S!Messages)]
    BY <1>1, <2>1, AddsMessages
  <2>3. Said(t)'
    BY <1>1, <2>1 DEF S!Adds
  <2> HIDE DEF Said
  <2>4. \A u \in SessionTurns : Said(u)'
    BY <1>1, <1>4, <2>1, <2>3
  <2> QED  BY <1>1, <1>3, <2>1, <2>2, <2>4
<1>9. CASE S!Check(t)
  <2>1. /\ sAt[t] = "checking" /\ UNCHANGED <<sHistory, sAdd, sReply>>
        /\ sAt' = [sAt EXCEPT ![t] = IF S!CheckTranscript(sHistory \o sAdd[t]) THEN "asking"
                                     ELSE "ending"]
    BY <1>9 DEF S!Check
  <2>2. Said(t)'
    <3>1. S!Adds(t)'
      BY <1>2, <2>1 DEF S!Adds
    <3>2. sAt'[t] \in {"asking", "ending"}
      BY <1>1, <2>1
    <3>3. sAt'[t] = "asking" => S!CheckTranscript(sHistory' \o sAdd'[t])
      BY <1>1, <2>1
    <3> QED  BY <3>1, <3>2, <3>3
  <2> HIDE DEF Said
  <2>3. \A u \in SessionTurns : Said(u)'
    BY <1>1, <1>4, <2>1, <2>2
  <2> QED  BY <1>1, <1>3, <2>1, <2>3
<1>10. CASE S!NoReply(t)
  <2>1. UNCHANGED <<sHistory, sAdd, sReply>> /\ sAt' = [sAt EXCEPT ![t] = "ending"]
    BY <1>10 DEF S!NoReply
  <2> HIDE DEF Said
  <2>2. \A u \in SessionTurns : Said(u)'
    BY <1>1, <1>4, <1>5, <2>1
  <2> QED  BY <1>1, <1>3, <2>1, <2>2
<1>11. CASE S!Reply(t)
  <2>1. PICK m \in ModelReplies :
          /\ sAt[t] = "asking" /\ UNCHANGED <<sHistory, sAdd>>
          /\ sAt' = [sAt EXCEPT ![t] = IF S!checkTurnReply(m, sHistory \o sAdd[t])
                                       THEN "keeping" ELSE "ending"]
          /\ sReply' = [sReply EXCEPT ![t] = m]
    BY <1>11 DEF S!Reply
  <2>2. sReply' \in [SessionTurns -> ModelReplies \cup {S!Nothing}]
    BY <1>1, <2>1
  <2>3. Said(t)'
    <3>1. S!Adds(t)' /\ S!CheckTranscript(sHistory' \o sAdd'[t])
      BY <1>2, <2>1 DEF S!Adds
    <3>2. sAt'[t] \in {"keeping", "ending"} /\ sReply'[t] = m
      BY <1>1, <2>1
    <3>3. sAt'[t] = "keeping" => S!checkTurnReply(m, sHistory' \o sAdd'[t])
      BY <1>1, <2>1
    <3> QED  BY <3>1, <3>2, <3>3, <2>1
  <2>4. \A u \in SessionTurns : u # t => sAt'[u] = sAt[u] /\ sReply'[u] = sReply[u]
    BY <1>1, <2>1
  <2> HIDE DEF Said
  <2>5. \A u \in SessionTurns : Said(u)'
    BY <1>4, <2>1, <2>3, <2>4
  <2> QED  BY <1>1, <1>3, <2>1, <2>2, <2>5
<1>12. CASE S!Keep(t)
  <2>1. /\ sAt[t] = "keeping" /\ sAt' = [sAt EXCEPT ![t] = "ending"]
        /\ sHistory' = sHistory \o sAdd[t] \o <<sReply[t]>> /\ UNCHANGED <<sAdd, sReply>>
    BY <1>12 DEF S!Keep
  <2>2. sHistory' \in Seq(S!Messages)
    <3>1. sReply[t] \in S!Messages
      BY <1>2, <2>1, RepliesAre
    <3>2. sHistory \o sAdd[t] \in Seq(S!Messages)
      BY <1>1
    <3> QED  BY <2>1, <3>1, <3>2, OneMore
  <2>3. \A u \in SessionTurns : u # t => sAt[u] \in {"idle", "refused", "ended"}
    BY <2>1 DEF S!TurnsInv, S!OneTurn, S!Running
  <2>4. \A u \in SessionTurns : sAt'[u] \in {"idle", "refused", "ended", "ending"}
    BY <1>1, <2>1, <2>3
  <2>5. \A u \in SessionTurns : Said(u)'
    BY <2>4
  <2> HIDE DEF Said
  <2> QED  BY <1>1, <1>3, <2>1, <2>2, <2>5
<1>13. CASE S!Release(t)
  <2>1. /\ sAt' = [sAt EXCEPT ![t] = "ended"] /\ sAdd' = [sAdd EXCEPT ![t] = <<>>]
        /\ sReply' = [sReply EXCEPT ![t] = S!Nothing] /\ sHistory' = sHistory
    BY <1>13 DEF S!Release
  <2>2. sAdd' \in [SessionTurns -> Seq(S!Messages)]
    BY <1>1, <2>1
  <2>3. sReply' \in [SessionTurns -> ModelReplies \cup {S!Nothing}]
    BY <1>1, <2>1
  <2> HIDE DEF Said
  <2>4. \A u \in SessionTurns : Said(u)'
    BY <1>1, <1>4, <1>5, <2>1
  <2> QED  BY <1>1, <1>3, <2>1, <2>2, <2>3, <2>4
<1> QED  BY <1>6, <1>7, <1>8, <1>9, <1>10, <1>11, <1>12, <1>13 DEF S!Step

\* Nobody speaks while the caller cuts the history.
LEMMA WordsNext ==
  ASSUME S!TurnsInv, S!WordsInv, [S!Next]_(S!vars)
  PROVE  S!WordsInv'
<1>1. CASE \E t \in SessionTurns : S!Step(t)
  BY <1>1, WordsStep
<1>2. CASE S!Cut
  <2>1. /\ ~sBusy /\ UNCHANGED <<sAt, sAdd, sReply>> /\ sHistory # <<>>
        /\ sHistory' \in {Tail(sHistory), S!Front(sHistory)}
    BY <1>2 DEF S!Cut
  <2>2. sHistory \in Seq(S!Messages)
    BY DEF S!WordsInv
  <2>3. Tail(sHistory) \in Seq(S!Messages)
    BY <2>1, <2>2
  <2>4. S!Front(sHistory) \in Seq(S!Messages)
    BY <2>1, <2>2 DEF S!Front
  <2>5. \A t \in SessionTurns : sAt[t] \in {"idle", "refused", "ended"}
    BY <2>1 DEF S!TurnsInv, S!OneTurn, S!Running
  <2> QED  BY <2>1, <2>3, <2>4, <2>5 DEF S!WordsInv
<1>3. CASE UNCHANGED S!vars
  BY <1>3 DEF S!vars, S!WordsInv, S!Adds
<1> QED  BY <1>1, <1>2, <1>3 DEF S!Next

\* The turn that is kept leaves a conversation that obeys the rules.
LEMMA KeptObeys ==
  ASSUME S!TurnsInv, S!WordsInv, NEW t \in SessionTurns, S!Keep(t)
  PROVE  S!WellFormed(sHistory')
<1> DEFINE h == sHistory \o sAdd[t]
           e == h \o <<sReply[t]>>
<1>1. sAt[t] = "keeping" /\ sHistory' = e
  BY DEF S!Keep, S!Go
<1>2. /\ sHistory \in Seq(S!Messages) /\ sAdd[t] \in Seq(S!Messages) /\ S!Adds(t)
      /\ S!CheckTranscript(h) /\ sReply[t] \in ModelReplies
      /\ S!checkTurnReply(sReply[t], h)
  BY <1>1 DEF S!WordsInv
<1>3. sReply[t] \in S!Messages /\ IsReply(sReply[t])
  BY <1>2, RepliesAre
<1>4. PICK g, f, m : g = h /\ f = e /\ m = sReply[t]
  OBVIOUS
<1>5. f = g \o <<m>> /\ g = sHistory \o sAdd[t]
  BY <1>4
<1> HIDE DEF h, e
<1>6. /\ g \in Seq(S!Messages) /\ g # <<>> /\ g[Len(g)].role \in {"user", "tool"}
      /\ Waiting(f, 1..Len(g)) = {}
  BY <1>2, <1>3, <1>4, <1>5, AddsRight
<1>7. S!WellFormed(f)
  BY <1>2, <1>3, <1>4, <1>5, <1>6, ReplyObeys
<1> QED  BY <1>1, <1>4, <1>7

\* One turn runs at a time, the flag is set exactly while one does, and a transcript of any
\* length is accepted exactly when it obeys the rules.
THEOREM SessionIsSound == S!Spec => []SessionSound
<1>1. S!TurnsInv /\ S!WordsInv => SessionSound
  BY TranscriptChecked DEF S!TurnsInv, S!WordsInv, SessionSound, S!SessionSound
<1>2. S!Init => S!TurnsInv /\ S!WordsInv
  BY TurnsInit, WordsInit
<1>3. S!TurnsInv /\ S!WordsInv /\ [S!Next]_(S!vars) => (S!TurnsInv /\ S!WordsInv)'
  BY TurnsNext, WordsNext
<1> QED  BY <1>1, <1>2, <1>3, PTL DEF S!Spec

\* While a turn runs the history changes by that whole turn only, and what it becomes
\* obeys the rules, so that it can be sent again.
THEOREM TurnsAreWhole == S!Spec => TurnsWhole
<1>1. S!Init => S!TurnsInv /\ S!WordsInv
  BY TurnsInit, WordsInit
<1>2. S!TurnsInv /\ S!WordsInv /\ [S!Next]_(S!vars) => (S!TurnsInv /\ S!WordsInv)'
  BY TurnsNext, WordsNext
<1>3. S!TurnsInv /\ S!WordsInv /\ [S!Next]_(S!vars) =>
        [sBusy /\ sHistory' # sHistory => S!TurnLaid /\ S!WellFormed(sHistory')]_(S!vars)
  <2> SUFFICES ASSUME S!TurnsInv, S!WordsInv, [S!Next]_(S!vars), sBusy, sHistory' # sHistory
               PROVE  S!TurnLaid /\ S!WellFormed(sHistory')
    OBVIOUS
  <2>1. \E t \in SessionTurns : S!Step(t)
    BY DEF S!Next, S!Cut, S!vars
  <2>2. PICK t \in SessionTurns : S!Keep(t)
    BY <2>1 DEF S!Step, S!Start, S!Refused, S!SendText, S!SendResults, S!NotComposed, S!Check,
                S!NoReply, S!Reply, S!Release
  <2> QED  BY <2>2, KeptObeys, TurnsNext
<1> QED  BY <1>1, <1>2, <1>3, PTL DEF S!Spec, TurnsWhole, S!TurnsWhole

-----------------------------------------------------------------------------
\* A run resumed from its checkpoints.

\* The invariant holds before the first start.
LEMMA ResumeInit == K!Init => K!CheckpointInv
<1> SUFFICES ASSUME K!Init PROVE K!CheckpointInv
  OBVIOUS
<1> USE DEF K!Init
<1>1. kInput \in ProgramInputs /\ kStep \in K!All
  BY WorkConstants DEF K!All
<1>2. /\ K!NoRecord \in K!Records
      /\ K!NoRecord.input = "none" /\ K!NoRecord.made = 0
  BY DEF K!NoRecord, K!Records
<1>3. K!CheckpointTypes
  <2>0. kChanged \in BOOLEAN /\ kDurable \in BOOLEAN
    OBVIOUS
  <2>1. kResults \in Seq(K!Results)
    OBVIOUS
  <2>2. /\ kStore \in [K!All -> K!Records]
        /\ K!Zero \in [K!All -> [ProgramInputs -> Nat]]
    BY <1>2 DEF K!Zero
  <2> QED  BY <1>1, <2>0, <2>1, <2>2 DEF K!CheckpointTypes
<1>4. K!RecordsTrue
  BY <1>2 DEF K!RecordsTrue, K!Running
<1>5. K!InHandTrue /\ K!OwnResults
  BY DEF K!InHandTrue, K!OwnResults
<1>6. K!EffectsCounted
  BY <1>2, WorkConstants DEF K!EffectsCounted, K!Zero
<1> QED  BY <1>3, <1>4, <1>5, <1>6 DEF K!CheckpointInv

\* A program that stops keeps what its results say.
LEMMA ResumeStops ==
  ASSUME K!CheckpointInv, K!Stops, K!Keeps, kAt # "save",
         UNCHANGED <<kStore, kStep, kOver, kResults, kEffects, kForgotten>>
  PROVE  K!CheckpointInv'
<1> USE DEF K!CheckpointInv, K!Stops, K!Keeps
<1>1. K!CheckpointTypes'
  BY DEF K!CheckpointTypes
<1>2. K!RecordsTrue' /\ K!InHandTrue' /\ K!OwnResults'
  BY DEF K!RecordsTrue, K!InHandTrue, K!OwnResults, K!Running
<1>3. K!EffectsCounted'
  BY DEF K!EffectsCounted
<1> QED  BY <1>1, <1>2, <1>3

\* A start: every record there is was made before it.
LEMMA ResumeStart ==
  ASSUME K!CheckpointInv, NEW i \in ProgramInputs, NEW t \in {1, 2}, K!Start(i, t)
  PROVE  K!CheckpointInv'
<1> USE DEF K!CheckpointInv, K!Start, K!countVars
<1>1. K!CheckpointTypes'
  <2>1. kResults' \in Seq(K!Results) /\ kStep' \in K!All
    BY WorkConstants DEF K!All
  <2>2. kChanged' \in BOOLEAN
    OBVIOUS
  <2> QED  BY <2>1, <2>2 DEF K!CheckpointTypes
<1>2. K!RecordsTrue'
  <2>1. \A s \in K!All : kStore[s].made < kStarts' /\ kStore[s].made <= kStarts'
    BY DEF K!RecordsTrue, K!CheckpointTypes, K!Records
  <2>2. \A s \in K!All : ~(s < 1)
    BY DEF K!All
  <2> QED  BY <2>1, <2>2 DEF K!RecordsTrue
<1>3. K!InHandTrue' /\ K!OwnResults'
  BY DEF K!InHandTrue, K!OwnResults
<1>4. K!EffectsCounted'
  BY DEF K!EffectsCounted
<1> QED  BY <1>1, <1>2, <1>3, <1>4

\* A step's answer is added to those of the steps before it.
LEMMA ResumePassed ==
  ASSUME K!CheckpointInv, K!Running, NEW v \in K!Records,
         NEW how \in {"resumed", "changed", "fresh"}, K!Passed(v, how),
         v.input = kInput, how = "resumed" \/ v.shape = kShape,
         how = "resumed" <=> v.made < kStarts, K!Keeps
  PROVE  /\ K!OwnResults' /\ kResults' \in Seq(K!Results) /\ kStep' \in K!All
         /\ kAt' \in {"load", "done"} /\ kChanged' = FALSE
         /\ kAt' = "load" => kStep' = kStep + 1
<1> DEFINE r == [value |-> v, how |-> how]
<1>1. /\ kResults' = Append(kResults, r) /\ kChanged' = FALSE
      /\ IF kStep = ProgramSteps THEN kAt' = "done" /\ kStep' = kStep
         ELSE kAt' = "load" /\ kStep' = kStep + 1
  BY DEF K!Passed
<1>2. r \in K!Results /\ kResults \in Seq(K!Results)
  BY DEF K!Results, K!CheckpointInv, K!CheckpointTypes
<1>3. kResults' \in Seq(K!Results)
  BY <1>1, <1>2
<1>4. kStep' \in K!All
  BY <1>1, WorkConstants DEF K!All, K!CheckpointInv, K!CheckpointTypes
<1>5. K!OwnResults'
  <2> SUFFICES ASSUME NEW s \in DOMAIN kResults'
               PROVE  /\ kResults'[s].value.input = kInput
                      /\ kResults'[s].how = "resumed" \/ kResults'[s].value.shape = kShape
                      /\ kResults'[s].how = "resumed" <=> kResults'[s].value.made < kStarts
    BY DEF K!OwnResults, K!Keeps
  <2>a. CASE s \in DOMAIN kResults
    <3>1. kResults'[s] = kResults[s]
      BY <2>a, <1>1, <1>2
    <3> QED  BY <2>a, <3>1 DEF K!CheckpointInv, K!OwnResults
  <2>b. CASE s \notin DOMAIN kResults
    <3>1. kResults'[s] = r
      BY <2>b, <1>1, <1>2
    <3> QED  BY <3>1
  <2> QED  BY <2>a, <2>b
<1> QED  BY <1>1, <1>3, <1>4, <1>5

\* A step resumed from its record keeps the invariant.
LEMMA ResumeResume ==
  ASSUME K!CheckpointInv, K!Resume
  PROVE  K!CheckpointInv'
<1> USE DEF K!Resume, K!Keeps, K!countVars
<1>1. /\ K!Running /\ kStore[kStep] \in K!Records /\ kStore[kStep].input = kInput
      /\ kStore[kStep].made < kStarts
  <2>1. K!Running
    BY DEF K!Running
  <2>2. kStep \in K!All /\ kStore[kStep] \in K!Records /\ kStore[kStep].input = kInput
    BY DEF K!Hit, K!CheckpointInv, K!CheckpointTypes
  <2>3. kStore[kStep].made < kStarts
    <3>1. kStep \in Nat
      BY <2>2 DEF K!All
    <3> QED  BY <2>1, <2>2, <3>1 DEF K!CheckpointInv, K!RecordsTrue
  <2> QED  BY <2>1, <2>2, <2>3
<1>2. /\ K!OwnResults' /\ kResults' \in Seq(K!Results) /\ kStep' \in K!All
      /\ kAt' \in {"load", "done"} /\ kChanged' = FALSE
      /\ kAt' = "load" => kStep' = kStep + 1
  BY <1>1, ResumePassed
<1>3. K!CheckpointTypes'
  BY <1>2 DEF K!CheckpointInv, K!CheckpointTypes
<1>4. K!RecordsTrue'
  <2>1. \A s \in K!All : s < kStep + 1 => s < kStep \/ s = kStep
    BY WorkConstants DEF K!All, K!CheckpointInv, K!CheckpointTypes
  <2>2. \A s \in K!All : ~(s < kStep + 1) => ~(s < kStep)
    BY WorkConstants DEF K!All, K!CheckpointInv, K!CheckpointTypes
  <2> QED  BY <1>1, <1>2, <2>1, <2>2 DEF K!CheckpointInv, K!RecordsTrue, K!Running
<1>5. K!InHandTrue'
  BY <1>2 DEF K!InHandTrue
<1>6. K!EffectsCounted'
  BY <1>2 DEF K!CheckpointInv, K!EffectsCounted
<1> QED  BY <1>2, <1>3, <1>4, <1>5, <1>6 DEF K!CheckpointInv

\* A step that finds no record of its own keeps the invariant.
LEMMA ResumeMiss ==
  ASSUME K!CheckpointInv, K!Miss
  PROVE  K!CheckpointInv'
<1> USE DEF K!CheckpointInv, K!Miss, K!Keeps, K!countVars
<1>1. K!CheckpointTypes'
  BY DEF K!CheckpointTypes
<1>2. K!RecordsTrue' /\ K!OwnResults'
  BY DEF K!RecordsTrue, K!OwnResults, K!Running
<1>3. K!InHandTrue'
  <2>1. kStore[kStep].input # kInput
    BY WorkConstants DEF K!Hit, K!NoRecord, K!CheckpointTypes, K!RecordsTrue
  <2> QED  BY <2>1 DEF K!InHandTrue
<1>4. K!EffectsCounted'
  BY DEF K!EffectsCounted
<1> QED  BY <1>1, <1>2, <1>3, <1>4

\* Producing a step's result keeps the invariant.
LEMMA ResumeProduce ==
  ASSUME K!CheckpointInv, K!Produce
  PROVE  K!CheckpointInv'
<1> USE DEF K!CheckpointInv, K!Produce, K!Keeps
<1>1. K!CheckpointTypes'
  BY DEF K!CheckpointTypes
<1>2. K!RecordsTrue' /\ K!OwnResults'
  BY DEF K!RecordsTrue, K!OwnResults, K!Running
<1>3. K!InHandTrue'
  BY DEF K!InHandTrue
<1>4. K!EffectsCounted'
  BY DEF K!EffectsCounted, K!CheckpointTypes
<1> QED  BY <1>1, <1>2, <1>3, <1>4

\* What is in hand at a save is a record of this start and this work.
LEMMA ResumeInHand ==
  ASSUME K!CheckpointInv, kAt = "save"
  PROVE  /\ kInHand \in K!Records /\ kInHand.input = kInput /\ kInHand.shape = kShape
         /\ kInHand.made = kStarts /\ kInHand.input # "none"
         /\ K!Replaced \in [K!All -> [ProgramInputs -> Nat]]
         /\ kStore[kStep].input # kInput
         /\ \A s \in K!All, i \in ProgramInputs :
              K!Replaced[s][i] = kForgotten[s][i]
                + IF s = kStep /\ kStore[kStep].input = i THEN 1 ELSE 0
<1> USE DEF K!CheckpointInv
<1>1. /\ kInHand \in K!Records /\ kInHand.input = kInput /\ kInHand.shape = kShape
      /\ kInHand.made = kStarts /\ kInHand.input # "none" /\ kStore[kStep].input # kInput
  BY WorkConstants DEF K!InHandTrue, K!CheckpointTypes, K!Records
<1>a. CASE kStore[kStep] # K!NoRecord
  <2>1. kStore[kStep].input \in ProgramInputs
    BY <1>a DEF K!RecordsTrue, K!CheckpointTypes, K!Records
  <2>2. K!Replaced = [kForgotten EXCEPT ![kStep][kStore[kStep].input] = @ + 1]
    BY <1>a, <1>1 DEF K!Replaced, K!Forgets
  <2> QED  BY <1>1, <2>1, <2>2 DEF K!CheckpointTypes
<1>b. CASE kStore[kStep] = K!NoRecord
  <2>1. kStore[kStep].input = "none" /\ K!Replaced = kForgotten
    BY <1>b DEF K!Replaced, K!NoRecord
  <2> QED  BY <1>1, <2>1, WorkConstants DEF K!CheckpointTypes
<1> QED  BY <1>a, <1>b

\* The store after a save: one record of this start, and the effects still counted.
LEMMA ResumeStored ==
  ASSUME K!CheckpointInv, kAt = "save", kStore' = [kStore EXCEPT ![kStep] = kInHand],
         kForgotten' = K!Replaced, K!Keeps, kEffects' = kEffects, kAt' # "save"
  PROVE  /\ kStore' \in [K!All -> K!Records] /\ K!EffectsCounted'
         /\ kForgotten' \in [K!All -> [ProgramInputs -> Nat]]
         /\ \A s \in K!All : /\ kStore'[s].input = "none" => kStore'[s] = K!NoRecord
                             /\ kStore'[s].made <= kStarts
         /\ \A s \in K!All : s < kStep + 1 => kStore'[s].input = kInput
         /\ \A s \in K!All : s > kStep => kStore'[s].made < kStarts
<1> USE DEF K!CheckpointInv, K!Keeps
<1>1. kStep \in K!All /\ kStore \in [K!All -> K!Records] /\ kStarts \in Nat
  BY DEF K!CheckpointTypes
<1>2. \A s \in K!All : kStore'[s] = IF s = kStep THEN kInHand ELSE kStore[s]
  BY <1>1
<1>3. /\ kStore' \in [K!All -> K!Records]
      /\ kForgotten' \in [K!All -> [ProgramInputs -> Nat]]
  BY <1>1, ResumeInHand
<1>4. \A s \in K!All : /\ kStore'[s].input = "none" => kStore'[s] = K!NoRecord
                      /\ kStore'[s].made <= kStarts
  BY <1>1, <1>2, ResumeInHand DEF K!RecordsTrue
<1>5. /\ \A s \in K!All : s < kStep + 1 => s < kStep \/ s = kStep
      /\ \A s \in K!All : s > kStep => ~(s < kStep) /\ s # kStep
  BY <1>1, WorkConstants DEF K!All
<1>6. /\ \A s \in K!All : s < kStep + 1 => kStore'[s].input = kInput
      /\ \A s \in K!All : s > kStep => kStore'[s].made < kStarts
  BY <1>2, <1>5, ResumeInHand DEF K!RecordsTrue, K!Running
<1>7. K!EffectsCounted'
  <2> SUFFICES ASSUME NEW s \in K!All, NEW i \in ProgramInputs
               PROVE  kEffects[s][i]
                        = kForgotten'[s][i] + (IF kStore'[s].input = i THEN 1 ELSE 0)
                            + (IF kAt' = "save" /\ s = kStep' /\ i = kInput' THEN 1 ELSE 0)
    BY DEF K!EffectsCounted
  <2>1. kForgotten[s][i] \in Nat
    BY DEF K!CheckpointTypes
  <2>2. kEffects[s][i] = kForgotten[s][i] + (IF kStore[s].input = i THEN 1 ELSE 0)
                      + (IF s = kStep /\ i = kInput THEN 1 ELSE 0)
    BY DEF K!EffectsCounted
  <2>3. kForgotten'[s][i] = kForgotten[s][i]
                + IF s = kStep /\ kStore[kStep].input = i THEN 1 ELSE 0
    BY ResumeInHand
  <2>4. kStore'[s].input = IF s = kStep THEN kInput ELSE kStore[s].input
    BY <1>2, ResumeInHand
  <2>5. kStore[kStep].input # kInput
    BY ResumeInHand
  <2> QED  BY <2>1, <2>2, <2>3, <2>4, <2>5
<1> QED  BY <1>3, <1>4, <1>6, <1>7

\* Saving a result keeps the invariant.
LEMMA ResumeSave ==
  ASSUME K!CheckpointInv, K!Save
  PROVE  K!CheckpointInv'
<1> USE DEF K!Save, K!Keeps
<1>1. K!Running
  BY DEF K!Running
<1>2. /\ K!OwnResults' /\ kResults' \in Seq(K!Results) /\ kStep' \in K!All
      /\ kAt' \in {"load", "done"} /\ kChanged' = FALSE
      /\ kAt' = "load" => kStep' = kStep + 1
  <2>1. kStarts \in Nat
    BY DEF K!CheckpointInv, K!CheckpointTypes
  <2>2. ~(kInHand.made < kStarts)
    BY <2>1, ResumeInHand
  <2> QED  BY <1>1, <2>2, ResumeInHand, ResumePassed
<1>3. /\ kStore' \in [K!All -> K!Records] /\ K!EffectsCounted'
      /\ kForgotten' \in [K!All -> [ProgramInputs -> Nat]]
      /\ \A s \in K!All : /\ kStore'[s].input = "none" => kStore'[s] = K!NoRecord
                          /\ kStore'[s].made <= kStarts
      /\ \A s \in K!All : s < kStep + 1 => kStore'[s].input = kInput
      /\ \A s \in K!All : s > kStep => kStore'[s].made < kStarts
  BY <1>2, ResumeStored
<1>4. K!CheckpointTypes'
  BY <1>2, <1>3 DEF K!CheckpointInv, K!CheckpointTypes
<1>5. K!RecordsTrue'
  <2>1. \A s \in K!All : ~(s < kStep + 1) => s > kStep
    BY WorkConstants DEF K!All, K!CheckpointInv, K!CheckpointTypes
  <2> QED  BY <1>2, <1>3, <2>1 DEF K!RecordsTrue, K!Running
<1>6. K!InHandTrue'
  BY <1>2 DEF K!InHandTrue
<1> QED  BY <1>2, <1>3, <1>4, <1>5, <1>6 DEF K!CheckpointInv

\* A save whose answer is lost keeps the invariant.
LEMMA ResumeSaveUnconfirmed ==
  ASSUME K!CheckpointInv, K!SaveUnconfirmed
  PROVE  K!CheckpointInv'
<1> USE DEF K!SaveUnconfirmed, K!Keeps, K!Stops
<1>1. /\ kStore' \in [K!All -> K!Records] /\ K!EffectsCounted'
      /\ kForgotten' \in [K!All -> [ProgramInputs -> Nat]]
      /\ \A s \in K!All : /\ kStore'[s].input = "none" => kStore'[s] = K!NoRecord
                          /\ kStore'[s].made <= kStarts
  BY ResumeStored
<1>2. K!CheckpointTypes'
  BY <1>1 DEF K!CheckpointInv, K!CheckpointTypes
<1>3. K!RecordsTrue' /\ K!InHandTrue' /\ K!OwnResults'
  BY <1>1 DEF K!CheckpointInv, K!RecordsTrue, K!InHandTrue, K!OwnResults, K!Running
<1> QED  BY <1>1, <1>2, <1>3 DEF K!CheckpointInv

\* A save that fails keeps the invariant.
LEMMA ResumeSaveFails ==
  ASSUME K!CheckpointInv, K!SaveFails
  PROVE  K!CheckpointInv'
<1> USE DEF K!CheckpointInv, K!SaveFails, K!Keeps, K!Stops, K!Forgets
<1>1. K!CheckpointTypes'
  <2>1. kForgotten' \in [K!All -> [ProgramInputs -> Nat]]
    BY DEF K!CheckpointTypes
  <2>2. kChanged' \in BOOLEAN
    OBVIOUS
  <2> QED  BY <2>1, <2>2 DEF K!CheckpointTypes
<1>2. K!RecordsTrue' /\ K!InHandTrue' /\ K!OwnResults'
  BY DEF K!RecordsTrue, K!InHandTrue, K!OwnResults, K!Running
<1>3. K!EffectsCounted'
  BY DEF K!EffectsCounted, K!CheckpointTypes
<1> QED  BY <1>1, <1>2, <1>3

\* What a crash takes is forgotten.
LEMMA ResumeCrash ==
  ASSUME K!CheckpointInv, K!Crash
  PROVE  K!CheckpointInv'
<1> USE DEF K!CheckpointInv, K!Crash, K!Keeps, K!Stops
<1>1. /\ K!NoRecord \in K!Records
      /\ K!NoRecord.input = "none" /\ K!NoRecord.made = 0
  BY DEF K!NoRecord, K!Records
<1>2. \A s \in K!All, i \in ProgramInputs :
        /\ K!Gone(s, i) \in Nat /\ kForgotten[s][i] \in Nat
        /\ kForgotten'[s][i] = kForgotten[s][i] + K!Gone(s, i)
  <2>1. \A s \in K!All, i \in ProgramInputs : kForgotten[s][i] \in Nat
    BY DEF K!CheckpointTypes
  <2>2. \A s \in K!All, i \in ProgramInputs : K!Gone(s, i) \in Nat
    BY DEF K!Gone
  <2> QED  BY <2>1, <2>2
<1>3. kForgotten' \in [K!All -> [ProgramInputs -> Nat]]
  BY <1>2
<1>4. kStore' \in [K!All -> K!Records]
  BY <1>1 DEF K!CheckpointTypes
<1>5. K!CheckpointTypes'
  BY <1>3, <1>4 DEF K!CheckpointTypes
<1>6. K!RecordsTrue' /\ K!InHandTrue' /\ K!OwnResults'
  BY <1>1 DEF K!RecordsTrue, K!InHandTrue, K!OwnResults, K!Running, K!CheckpointTypes
<1>7. K!EffectsCounted'
  <2> SUFFICES ASSUME NEW s \in K!All, NEW i \in ProgramInputs
               PROVE  kEffects[s][i]
                        = kForgotten'[s][i] + (IF kStore'[s].input = i THEN 1 ELSE 0)
                            + (IF kAt' = "save" /\ s = kStep' /\ i = kInput' THEN 1 ELSE 0)
    BY DEF K!EffectsCounted
  <2>1. kEffects[s][i] = kForgotten[s][i] + (IF kStore[s].input = i THEN 1 ELSE 0)
                      + (IF kAt = "save" /\ s = kStep /\ i = kInput THEN 1 ELSE 0)
    BY DEF K!EffectsCounted
  <2>2. kStore'[s] = IF kDurable THEN kStore[s] ELSE K!NoRecord
    OBVIOUS
  <2>3. i # "none"
    BY WorkConstants
  <2> QED  BY <1>1, <1>2, <2>1, <2>2, <2>3 DEF K!Gone
<1> QED  BY <1>5, <1>6, <1>7

\* Deleting a record keeps the invariant.
LEMMA ResumeDelete ==
  ASSUME K!CheckpointInv, NEW s \in K!All, K!Delete(s)
  PROVE  K!CheckpointInv'
<1> USE DEF K!CheckpointInv, K!Delete, K!Keeps, K!Forgets
<1>1. /\ K!NoRecord \in K!Records
      /\ K!NoRecord.input = "none" /\ K!NoRecord.made = 0
  BY DEF K!NoRecord, K!Records
<1>2. kStore[s].input \in ProgramInputs
  BY DEF K!RecordsTrue, K!CheckpointTypes, K!Records
<1>3. K!CheckpointTypes'
  BY <1>1, <1>2 DEF K!CheckpointTypes
<1>4. K!RecordsTrue' /\ K!InHandTrue' /\ K!OwnResults'
  BY <1>1 DEF K!RecordsTrue, K!InHandTrue, K!OwnResults, K!Running, K!CheckpointTypes
<1>5. K!EffectsCounted'
  <2> SUFFICES ASSUME NEW q \in K!All, NEW i \in ProgramInputs
               PROVE  kEffects[q][i]
                        = kForgotten'[q][i] + (IF kStore'[q].input = i THEN 1 ELSE 0)
                            + (IF kAt' = "save" /\ q = kStep' /\ i = kInput' THEN 1 ELSE 0)
    BY DEF K!EffectsCounted
  <2>1. /\ kForgotten[q][i] \in Nat /\ i # "none"
        /\ kEffects[q][i] = kForgotten[q][i] + (IF kStore[q].input = i THEN 1 ELSE 0)
                      + (IF kAt = "save" /\ q = kStep /\ i = kInput THEN 1 ELSE 0)
    BY WorkConstants DEF K!EffectsCounted, K!CheckpointTypes
  <2>2. kStore'[q] = IF q = s THEN K!NoRecord ELSE kStore[q]
    BY DEF K!CheckpointTypes
  <2>3. kForgotten'[q][i] = IF q = s /\ i = kStore[s].input THEN kForgotten[q][i] + 1
                                                             ELSE kForgotten[q][i]
    BY <1>2 DEF K!CheckpointTypes
  <2> QED  BY <1>1, <2>1, <2>2, <2>3
<1> QED  BY <1>3, <1>4, <1>5

\* Every step of a resumed run keeps the invariant.
LEMMA ResumeNext ==
  ASSUME K!CheckpointInv, [K!Next]_(K!vars)
  PROVE  K!CheckpointInv'
<1>1. CASE K!CtxEnds
  <2>1. UNCHANGED <<kDurable, kStore, kAt, kStep, kInput, kShape, kResults, kChanged, kInHand,
                    kStarts, kEffects, kForgotten>>
    BY <1>1 DEF K!CtxEnds, K!Keeps, K!countVars
  <2> QED  BY <2>1 DEF K!CheckpointInv, K!CheckpointTypes, K!RecordsTrue, K!InHandTrue,
                       K!EffectsCounted, K!OwnResults, K!Running
<1>2. CASE UNCHANGED K!vars
  BY <1>2 DEF K!vars, K!progVars, K!countVars, K!CheckpointInv, K!CheckpointTypes,
              K!RecordsTrue, K!InHandTrue, K!EffectsCounted, K!OwnResults, K!Running
<1>3. ASSUME K!Undecodable \/ K!LoadFails \/ K!ProduceFails
      PROVE  K!CheckpointInv'
  BY <1>3, ResumeStops DEF K!Undecodable, K!LoadFails, K!ProduceFails, K!countVars
<1> QED  BY <1>1, <1>2, <1>3, ResumeStart, ResumeResume, ResumeMiss, ResumeProduce, ResumeSave,
            ResumeSaveFails, ResumeSaveUnconfirmed, ResumeCrash, ResumeDelete DEF K!Next

\* A resumed run does not repeat a step whose record stands, and is given the results
\* of its own input only, whatever crashes and failed saves there were (ResumeStep).
THEOREM ResumeIsKept == K!Spec => []ResumeKept
<1>1. ASSUME K!CheckpointInv PROVE ResumeKept
  <2>1. K!OwnResults
    BY <1>1 DEF K!CheckpointInv
  <2>2. ASSUME K!Running, NEW s \in 1..(kStep - 1) PROVE kStore[s].input = kInput
    <3>1. s \in K!All /\ s < kStep
      BY <1>1, WorkConstants DEF K!CheckpointInv, K!CheckpointTypes, K!All
    <3> QED  BY <1>1, <2>2, <3>1 DEF K!CheckpointInv, K!RecordsTrue
  <2>3. ASSUME NEW s \in K!All, NEW i \in ProgramInputs
        PROVE  kEffects[s][i] <= 1 + kForgotten[s][i]
    <3>1. kForgotten[s][i] \in Nat
      BY <1>1 DEF K!CheckpointInv, K!CheckpointTypes
    <3>2. kEffects[s][i] = kForgotten[s][i] + (IF kStore[s].input = i THEN 1 ELSE 0)
                      + (IF kAt = "save" /\ s = kStep /\ i = kInput THEN 1 ELSE 0)
      BY <1>1 DEF K!CheckpointInv, K!EffectsCounted
    <3>3. kAt = "save" => kStore[kStep].input # kInput
      BY <1>1 DEF K!CheckpointInv, K!InHandTrue
    <3> QED  BY <3>1, <3>2, <3>3
  <2> QED  BY <2>1, <2>2, <2>3 DEF ResumeKept, K!NoReplay, K!Running
<1> QED  BY <1>1, ResumeInit, ResumeNext, PTL DEF K!Spec

-----------------------------------------------------------------------------
\* A setting in layers.

\* The invariant holds before the setting is first made.
LEMMA LayersInit == Y!Init => Y!LayersInv
<1> SUFFICES ASSUME Y!Init PROVE Y!LayersInv
  OBVIOUS
<1>1. yTop \in Seq(Nat) /\ yValues \in Seq(SettingValues)
  BY DEF Y!Init
<1> QED  BY <1>1 DEF Y!Init, Y!LayersInv

\* Making the setting keeps the invariant.
LEMMA LayersSet ==
  ASSUME Y!LayersInv, NEW v \in SettingValues, Y!Set(v)
  PROVE  Y!LayersInv'
<1> DEFINE m == Len(yValues) + 1
<1> USE DEF Y!LayersInv, Y!Set
<1>1. /\ yTop \in Seq(Nat) /\ yValues \in Seq(SettingValues) /\ m \in Nat
      /\ yTop' = Append(yTop, m) /\ yValues' = Append(yValues, v)
  OBVIOUS
<1>2. /\ yTop' \in Seq(Nat) /\ yValues' \in Seq(SettingValues)
      /\ Len(yTop') = Len(yTop) + 1 /\ Len(yValues') = m
      /\ \A j \in DOMAIN yTop : yTop'[j] = yTop[j]
      /\ yTop'[Len(yTop) + 1] = m
      /\ \A i \in DOMAIN yValues : yValues'[i] = yValues[i]
      /\ yValues'[m] = v
      /\ DOMAIN yTop' = DOMAIN yTop \cup {Len(yTop) + 1}
      /\ DOMAIN yValues' = DOMAIN yValues \cup {m}
      /\ m \notin DOMAIN yValues
  BY <1>1
<1> HIDE DEF m
<1>3. /\ yDone' \subseteq DOMAIN yValues' /\ m \notin yDone'
      /\ \A j \in DOMAIN yTop' : yTop'[j] \in DOMAIN yValues'
  BY <1>2
<1>4. \A j, k \in DOMAIN yTop' : j < k => yTop'[j] < yTop'[k]
  <2>1. \A j \in DOMAIN yTop : yTop[j] < m /\ j < Len(yTop) + 1 /\ j \in Int
    BY <1>1 DEF m
  <2>2. Len(yTop) + 1 \in Int
    BY <1>1
  <2> QED  BY <1>2, <2>1, <2>2
<1>5. \A i \in DOMAIN yValues' \ yDone' : \E j \in DOMAIN yTop' : yTop'[j] = i
  BY <1>2
<1>6. yTop' # <<>> /\ yTop'[Len(yTop')] = m
  BY <1>1, <1>2
<1>7. yBase' = Original
  OBVIOUS
<1> QED  BY <1>2, <1>3, <1>4, <1>5, <1>6, <1>7

\* Restoring a setting keeps the invariant.
LEMMA LayersRestore ==
  ASSUME Y!LayersInv, NEW i, Y!Restore(i)
  PROVE  Y!LayersInv'
<1> USE DEF Y!LayersInv
<1>1. PICK k \in 0..Len(yTop) :
        /\ i \in DOMAIN yValues /\ Y!Left(k, yDone \cup {i})
        /\ yDone' = yDone \cup {i} /\ yTop' = SubSeq(yTop, 1, k)
        /\ yInForce' = IF SubSeq(yTop, 1, k) = yTop THEN yInForce
                       ELSE IF SubSeq(yTop, 1, k) = <<>> THEN yBase
                       ELSE yValues[SubSeq(yTop, 1, k)[Len(SubSeq(yTop, 1, k))]]
        /\ UNCHANGED <<yBase, yValues>>
  BY DEF Y!Restore
<1>2. /\ yTop' \in Seq(Nat) /\ Len(yTop') = k /\ DOMAIN yTop' = 1..k
        /\ DOMAIN yTop = 1..Len(yTop)
      /\ \A j \in 1..k : j \in DOMAIN yTop /\ yTop'[j] = yTop[j]
      /\ Len(yTop) \in Nat /\ k \in Nat
  BY <1>1
<1>3. yDone' \subseteq DOMAIN yValues' /\ yValues' \in Seq(SettingValues)
  BY <1>1
<1>4. /\ \A j \in DOMAIN yTop' : yTop'[j] \in DOMAIN yValues'
      /\ \A j, h \in DOMAIN yTop' : j < h => yTop'[j] < yTop'[h]
  BY <1>1, <1>2
<1>5. ASSUME NEW q \in DOMAIN yValues' \ yDone' PROVE \E j \in DOMAIN yTop' : yTop'[j] = q
  <2>1. PICK j \in DOMAIN yTop : yTop[j] = q
    BY <1>1, <1>5
  <2>2. j \notin (k + 1)..Len(yTop)
    BY <1>1, <1>5, <2>1 DEF Y!Left
  <2>3. j \in 1..k
    BY <1>2, <2>1, <2>2
  <2> QED  BY <1>2, <2>1, <2>3
<1>6. yTop' # <<>> => k > 0 /\ k \in 1..k /\ yTop'[Len(yTop')] = yTop[k]
  <2>1. k = 0 => yTop' = <<>>
    BY <1>2
  <2>2. k > 0 => k \in 1..k
    BY <1>2
  <2>3. k = 0 \/ k > 0
    BY <1>2
  <2> QED  BY <1>2, <2>1, <2>2, <2>3
<1>7. yTop' # <<>> => yTop'[Len(yTop')] \notin yDone'
  BY <1>1, <1>6 DEF Y!Left
<1>8. yInForce' = IF yTop' = <<>> THEN Original ELSE yValues'[yTop'[Len(yTop')]]
  BY <1>1
<1>9. yBase' = Original
  BY <1>1
<1> QED  BY <1>2, <1>3, <1>4, <1>5, <1>7, <1>8, <1>9

\* Every step of the setting's layers keeps the invariant.
LEMMA LayersNext ==
  ASSUME Y!LayersInv, [Y!Next]_(Y!vars)
  PROVE  Y!LayersInv'
<1>1. CASE UNCHANGED Y!vars
  BY <1>1 DEF Y!vars, Y!LayersInv
<1> QED  BY <1>1, LayersSet, LayersRestore DEF Y!Next

\* The newest layer that stands is the one in force.
LEMMA LayersNewest ==
  ASSUME Y!LayersInv
  PROVE  Y!NewestInForce
<1> DEFINE standing == DOMAIN yValues \ yDone
<1> DEFINE last == yTop[Len(yTop)]
<1> USE DEF Y!LayersInv
<1>1. yTop \in Seq(Nat) /\ yValues \in Seq(SettingValues)
  OBVIOUS
<1>a. CASE yTop = <<>>
  <2>1. standing = {}
    BY <1>a
  <2> QED  BY <1>a, <2>1 DEF Y!NewestInForce
<1>b. CASE yTop # <<>>
  <2>1. Len(yTop) \in DOMAIN yTop /\ \A j \in DOMAIN yTop : j < Len(yTop) \/ j = Len(yTop)
    BY <1>1, <1>b
  <2>2. last \in standing
    BY <2>1, <1>b
  <2>3. \A q \in standing : q \in Int /\ q <= last
    BY <1>1, <2>1
  <2>4. Y!Max(standing) = last
    <3>1. \E x \in standing : \A y \in standing : x >= y
      BY <2>2, <2>3
    <3>2. Y!Max(standing) \in standing /\ \A y \in standing : Y!Max(standing) >= y
      BY <3>1 DEF Y!Max
    <3>3. Y!Max(standing) >= last /\ Y!Max(standing) <= last
      BY <2>2, <2>3, <3>2
    <3> QED  BY <2>2, <2>3, <3>2, <3>3
  <2> QED  BY <1>b, <2>2, <2>4 DEF Y!NewestInForce
<1> QED  BY <1>a, <1>b

\* The setting in force is the newest one that is not restored, in whatever order
\* the restoring functions are called.
THEOREM SettingIsNewest == Y!Spec => []Y!NewestInForce
<1> QED  BY LayersInit, LayersNext, LayersNewest, PTL DEF Y!Spec

-----------------------------------------------------------------------------
\* The environment's cells.

\* The cells are numbered from one, and a number past them is greater than all.
LEMMA CellsNumbered ==
  /\ Cells \subseteq Nat \ {0} /\ 1 \in Cells
  /\ \A m \in Nat \ {0}, c \in Cells : m \notin Cells => c < m
<1>1. PICK k \in Nat : Cells = 1..k
  BY WorkConstants, FS_CardinalityType
<1> QED  BY <1>1, WorkConstants

\* The invariant holds before the first read.
LEMMA EnvironmentInit == E!Init => E!EnvironmentInv
<1> SUFFICES ASSUME E!Init PROVE E!EnvironmentInv
  OBVIOUS
<1> USE DEF E!Init, E!Nothing, E!Nobody
<1>1. E!EnvironmentTypes
  BY CellsNumbered DEF E!EnvironmentTypes
<1>2. E!KeptFresh /\ E!FillsFresh /\ E!ReadsShared /\ E!AnswersDue
  BY DEF E!KeptFresh, E!FillsFresh, E!ReadsShared, E!AnswersDue
<1> QED  BY <1>1, <1>2 DEF E!EnvironmentInv

\* A variable that changes keeps the invariant.
LEMMA EnvironmentChange ==
  ASSUME E!EnvironmentInv, E!Change
  PROVE  E!EnvironmentInv'
<1>1. eEnv' = eEnv + 1 /\ UNCHANGED <<eValue, eMu, eReads, eAt, eCell, eGot, eDue,
        eReload, eFrom, eFloor>>
  BY DEF E!Change, E!cellVars, E!readerVars, E!reloadVars
<1> USE DEF E!EnvironmentInv
<1>2. E!EnvironmentTypes'
  BY <1>1 DEF E!EnvironmentTypes
<1>3. E!KeptFresh'
  BY <1>1 DEF E!KeptFresh, E!Emptied, E!EnvironmentTypes
<1>4. E!FillsFresh' /\ E!ReadsShared' /\ E!AnswersDue'
  BY <1>1 DEF E!FillsFresh, E!ReadsShared, E!AnswersDue, E!Emptied
<1> QED  BY <1>2, <1>3, <1>4

\* The start of a read keeps the invariant.
LEMMA EnvironmentGet ==
  ASSUME E!EnvironmentInv, NEW r \in Readers, NEW c \in Cells, E!Get(r, c)
  PROVE  E!EnvironmentInv'
<1> USE DEF E!EnvironmentInv
<1>1. UNCHANGED <<eEnv, eValue, eMu, eReads, eReload, eFrom, eFloor>>
  BY DEF E!Get, E!cellVars, E!reloadVars
<1>2. /\ eAt[r] \in {"idle", "got"}
      /\ eCell' = [eCell EXCEPT ![r] = c] /\ eDue' = [eDue EXCEPT ![r] = eFloor]
      /\ eAt' = [eAt EXCEPT ![r] = IF eValue[c] # 0 THEN "got" ELSE "lock"]
      /\ eGot' = [eGot EXCEPT ![r] = eValue[c]]
  BY DEF E!Get, E!Answer, E!Goto, E!Nothing, E!EnvironmentTypes
<1>3. E!EnvironmentTypes'
  BY <1>1, <1>2 DEF E!EnvironmentTypes
<1>4. E!KeptFresh'
  BY <1>1 DEF E!KeptFresh, E!Emptied
<1>5. E!FillsFresh' /\ E!ReadsShared'
  BY <1>1, <1>2 DEF E!FillsFresh, E!ReadsShared, E!Emptied, E!EnvironmentTypes
<1>6. E!AnswersDue'
  BY <1>1, <1>2 DEF E!AnswersDue, E!KeptFresh, E!EnvironmentTypes, E!Nothing
<1> QED  BY <1>3, <1>4, <1>5, <1>6

\* Taking a cell's lock keeps the invariant.
LEMMA EnvironmentLock ==
  ASSUME E!EnvironmentInv, NEW r \in Readers, E!Lock(r)
  PROVE  E!EnvironmentInv'
<1> USE DEF E!EnvironmentInv
<1>1. /\ eAt[r] = "lock" /\ eMu[eCell[r]] = 0
      /\ UNCHANGED <<eEnv, eValue, eReads, eCell, eDue, eReload, eFrom, eFloor>>
  BY DEF E!Lock, E!Nobody, E!reloadVars
<1>a. CASE eValue[eCell[r]] # 0
  <2>1. /\ eAt' = [eAt EXCEPT ![r] = "got"] /\ eGot' = [eGot EXCEPT ![r] = eValue[eCell[r]]]
        /\ eMu' = eMu
    BY <1>a DEF E!Lock, E!Held, E!Answer, E!Goto, E!Nothing
  <2>2. E!EnvironmentTypes'
    BY <1>1, <2>1 DEF E!EnvironmentTypes
  <2>3. E!KeptFresh' /\ E!FillsFresh' /\ E!ReadsShared'
    BY <1>1, <2>1 DEF E!KeptFresh, E!FillsFresh, E!ReadsShared, E!Emptied, E!EnvironmentTypes
  <2>4. E!AnswersDue'
    BY <1>1, <1>a, <2>1 DEF E!AnswersDue, E!KeptFresh, E!EnvironmentTypes, E!Nothing
  <2> QED  BY <2>2, <2>3, <2>4
<1>b. CASE eValue[eCell[r]] = 0
  <2>1. /\ eAt' = [eAt EXCEPT ![r] = "read"] /\ eMu' = [eMu EXCEPT ![eCell[r]] = r]
        /\ eGot' = eGot
    BY <1>b DEF E!Lock, E!Held, E!Goto, E!Nothing
  <2>2. E!EnvironmentTypes'
    BY <1>1, <2>1 DEF E!EnvironmentTypes
  <2>3. E!KeptFresh' /\ E!AnswersDue'
    BY <1>1, <2>1 DEF E!KeptFresh, E!AnswersDue, E!Emptied, E!EnvironmentTypes
  <2>4. E!FillsFresh'
    BY <1>1, <2>1, WorkConstants DEF E!FillsFresh, E!Emptied, E!EnvironmentTypes
  <2>5. E!ReadsShared'
    BY <1>1, <1>b, <2>1, WorkConstants DEF E!ReadsShared, E!EnvironmentTypes, E!Nobody,
            E!Nothing
  <2> QED  BY <2>2, <2>3, <2>4, <2>5
<1> QED  BY <1>a, <1>b

\* Reading the environment under the lock keeps the invariant.
LEMMA EnvironmentRead ==
  ASSUME E!EnvironmentInv, NEW r \in Readers, E!Read(r)
  PROVE  E!EnvironmentInv'
<1> USE DEF E!EnvironmentInv
<1>1. /\ eAt[r] = "read" /\ eAt' = [eAt EXCEPT ![r] = "store"]
      /\ eGot' = [eGot EXCEPT ![r] = eEnv]
      /\ eReads' = [eReads EXCEPT ![eCell[r]] = @ + 1]
      /\ UNCHANGED <<eEnv, eValue, eMu, eCell, eDue, eReload, eFrom, eFloor>>
  BY DEF E!Read, E!Goto, E!reloadVars
<1>2. E!EnvironmentTypes'
  BY <1>1 DEF E!EnvironmentTypes
<1>3. E!KeptFresh' /\ E!AnswersDue'
  BY <1>1 DEF E!KeptFresh, E!AnswersDue, E!Emptied, E!EnvironmentTypes
<1>4. E!FillsFresh'
  BY <1>1 DEF E!FillsFresh, E!KeptFresh, E!Emptied, E!EnvironmentTypes
<1>5. E!ReadsShared'
  <2>1. /\ eReads[eCell[r]] = 0 /\ eMu[eCell[r]] = r /\ r # 0 /\ eCell[r] \in Cells
        /\ \A q \in Readers : eAt[q] = "read" /\ q # r => eCell[q] # eCell[r]
    BY <1>1, WorkConstants DEF E!ReadsShared, E!FillsFresh, E!EnvironmentTypes
  <2>2. \A c \in Cells : eReads'[c] = IF c = eCell[r] THEN 1 ELSE eReads[c]
    BY <1>1, <2>1 DEF E!EnvironmentTypes
  <2>3. \A q \in Readers : eAt'[q] = "read" => q # r /\ eAt[q] = "read"
    BY <1>1 DEF E!EnvironmentTypes
  <2>4. \A q \in Readers : eAt'[q] = "read" => eReads'[eCell'[q]] = 0
    BY <1>1, <2>1, <2>2, <2>3 DEF E!ReadsShared, E!EnvironmentTypes
  <2>5. \A c \in Cells : /\ eReads'[c] <= 1
                         /\ eMu'[c] = 0 /\ eValue'[c] = 0 => eReads'[c] = 0
    BY <1>1, <2>1, <2>2 DEF E!ReadsShared, E!EnvironmentTypes, E!Nobody, E!Nothing
  <2> QED  BY <2>4, <2>5 DEF E!ReadsShared, E!Nobody, E!Nothing
<1> QED  BY <1>2, <1>3, <1>4, <1>5

\* Storing what was read keeps the invariant.
LEMMA EnvironmentStore ==
  ASSUME E!EnvironmentInv, NEW r \in Readers, E!Store(r)
  PROVE  E!EnvironmentInv'
<1> USE DEF E!EnvironmentInv
<1>1. /\ eAt[r] = "store" /\ eAt' = [eAt EXCEPT ![r] = "got"]
      /\ eValue' = [eValue EXCEPT ![eCell[r]] = eGot[r]]
      /\ eMu' = [eMu EXCEPT ![eCell[r]] = 0]
      /\ UNCHANGED <<eEnv, eReads, eCell, eGot, eDue, eReload, eFrom, eFloor>>
  BY DEF E!Store, E!Goto, E!Nobody, E!reloadVars
<1>2. E!EnvironmentTypes'
  BY <1>1 DEF E!EnvironmentTypes, E!Nobody
<1>3. /\ eMu[eCell[r]] = r /\ eGot[r] >= eFloor /\ (E!Emptied(eCell[r]) => eGot[r] >= eFrom)
      /\ eFloor >= 1 /\ eGot[r] # 0
  BY <1>1 DEF E!FillsFresh, E!KeptFresh, E!EnvironmentTypes
<1>4. E!KeptFresh'
  BY <1>1, <1>3 DEF E!KeptFresh, E!Emptied, E!EnvironmentTypes
<1>5. E!AnswersDue'
  BY <1>1, <1>3 DEF E!AnswersDue, E!EnvironmentTypes
<1>6. \A q \in Readers : eAt'[q] \in {"read", "store"} =>
        q # r /\ eAt[q] = eAt'[q] /\ eCell[q] # eCell[r]
  BY <1>1, <1>3 DEF E!FillsFresh, E!EnvironmentTypes
<1>7. E!FillsFresh'
  BY <1>1, <1>6 DEF E!FillsFresh, E!Emptied, E!EnvironmentTypes
<1>8. E!ReadsShared'
  BY <1>1, <1>3, <1>6 DEF E!ReadsShared, E!EnvironmentTypes, E!Nobody, E!Nothing
<1> QED  BY <1>2, <1>4, <1>5, <1>7, <1>8

\* The start of a reload keeps the invariant.
LEMMA EnvironmentReloadBegins ==
  ASSUME E!EnvironmentInv, E!ReloadBegins
  PROVE  E!EnvironmentInv'
<1> USE DEF E!EnvironmentInv
<1>1. /\ eReload' = 1 /\ eFrom' = eEnv
      /\ UNCHANGED <<eEnv, eValue, eMu, eReads, eAt, eCell, eGot, eDue, eFloor>>
  BY DEF E!ReloadBegins, E!cellVars, E!readerVars
<1>2. E!EnvironmentTypes'
  BY <1>1 DEF E!EnvironmentTypes
<1>3. \A c \in Cells : ~E!Emptied(c)'
  BY <1>1, CellsNumbered DEF E!Emptied
<1>4. E!KeptFresh' /\ E!FillsFresh'
  <2>1. eFloor <= eFrom'
    BY <1>1 DEF E!KeptFresh, E!EnvironmentTypes
  <2> QED  BY <1>1, <1>3, <2>1 DEF E!KeptFresh, E!FillsFresh, E!EnvironmentTypes
<1>5. E!ReadsShared' /\ E!AnswersDue'
  BY <1>1 DEF E!ReadsShared, E!AnswersDue
<1> QED  BY <1>2, <1>4, <1>5

\* Forgetting one cell keeps the invariant.
LEMMA EnvironmentForget ==
  ASSUME E!EnvironmentInv, E!Forget
  PROVE  E!EnvironmentInv'
<1> USE DEF E!EnvironmentInv
<1>1. /\ eReload \in Cells /\ eMu[eReload] = 0 /\ eReload' = eReload + 1
      /\ eValue' = [eValue EXCEPT ![eReload] = 0] /\ eReads' = [eReads EXCEPT ![eReload] = 0]
      /\ UNCHANGED <<eEnv, eMu, eAt, eCell, eGot, eDue, eFrom, eFloor>>
  BY DEF E!Forget, E!Nobody, E!Nothing, E!readerVars
<1>2. E!EnvironmentTypes'
  BY <1>1 DEF E!EnvironmentTypes
<1>3. \A c \in Cells : E!Emptied(c)' => c = eReload \/ E!Emptied(c)
  BY <1>1, CellsNumbered DEF E!Emptied, E!Nothing
<1>4. E!KeptFresh'
  BY <1>1, <1>3 DEF E!KeptFresh, E!EnvironmentTypes, E!Nothing
<1>5. \A r \in Readers : eAt[r] \in {"read", "store"} => eCell[r] # eReload
        /\ eCell[r] \in Cells
  BY <1>1, WorkConstants DEF E!FillsFresh, E!EnvironmentTypes
<1>6. E!FillsFresh'
  BY <1>1, <1>3, <1>5 DEF E!FillsFresh
<1>7. E!ReadsShared'
  BY <1>1, <1>5 DEF E!ReadsShared, E!EnvironmentTypes, E!Nobody, E!Nothing
<1>8. E!AnswersDue'
  BY <1>1 DEF E!AnswersDue
<1> QED  BY <1>2, <1>4, <1>6, <1>7, <1>8

\* The end of a reload keeps the invariant.
LEMMA EnvironmentReloadEnds ==
  ASSUME E!EnvironmentInv, E!ReloadEnds
  PROVE  E!EnvironmentInv'
<1> USE DEF E!EnvironmentInv
<1>1. /\ eReload # 0 /\ eReload \notin Cells /\ eReload' = 0 /\ eFloor' = eFrom
      /\ UNCHANGED <<eEnv, eValue, eMu, eReads, eAt, eCell, eGot, eDue, eFrom>>
  BY DEF E!ReloadEnds, E!Nothing, E!cellVars, E!readerVars
<1>2. E!EnvironmentTypes'
  BY <1>1 DEF E!EnvironmentTypes
<1>3. \A c \in Cells : E!Emptied(c) /\ ~E!Emptied(c)'
  BY <1>1, CellsNumbered DEF E!Emptied, E!Nothing, E!EnvironmentTypes
<1>4. E!KeptFresh'
  BY <1>1, <1>3 DEF E!KeptFresh, E!EnvironmentTypes
<1>5. E!FillsFresh'
  BY <1>1, <1>3 DEF E!FillsFresh, E!EnvironmentTypes
<1>6. E!ReadsShared'
  BY <1>1 DEF E!ReadsShared
<1>7. E!AnswersDue'
  BY <1>1 DEF E!AnswersDue, E!KeptFresh, E!EnvironmentTypes
<1> QED  BY <1>2, <1>4, <1>5, <1>6, <1>7

\* Every step of the environment's cells keeps the invariant.
LEMMA EnvironmentNext ==
  ASSUME E!EnvironmentInv, [E!Next]_(E!vars)
  PROVE  E!EnvironmentInv'
<1>1. CASE UNCHANGED E!vars
  BY <1>1 DEF E!vars, E!cellVars, E!readerVars, E!reloadVars, E!EnvironmentInv,
              E!EnvironmentTypes, E!KeptFresh, E!FillsFresh, E!ReadsShared, E!AnswersDue, E!Emptied
<1> QED  BY <1>1, EnvironmentChange, EnvironmentGet, EnvironmentLock, EnvironmentRead,
            EnvironmentStore, EnvironmentReloadBegins, EnvironmentForget, EnvironmentReloadEnds
         DEF E!Next

\* A read that begins after a reload returned is answered with nothing older than
\* that reload, however reads and reloads interleave.
THEOREM ReloadsCount == E!Spec => []E!ReloadCounts
<1>1. E!EnvironmentInv => E!ReloadCounts
  BY DEF E!EnvironmentInv, E!ReadsShared, E!AnswersDue, E!ReloadCounts
<1> QED  BY <1>1, EnvironmentInit, EnvironmentNext, PTL DEF E!Spec

-----------------------------------------------------------------------------
\* Type plans.

\* The types that are kept are finite, and counted.
LEMMA PlansCounted ==
  /\ P!Cardinality({t \in PlanTypes : P!Kept(t)}) = Cardinality({t \in PlanTypes : P!Kept(t)})
  /\ IsFiniteSet({t \in PlanTypes : P!Kept(t)})
  /\ Cardinality({t \in PlanTypes : P!Kept(t)}) \in Nat
<1>1. IsFiniteSet({t \in PlanTypes : P!Kept(t)})
  BY WorkConstants, FS_Subset
<1> QED  BY <1>1, FS_CardinalityType DEF P!Cardinality, Cardinality

\* The invariant holds before the first plan.
LEMMA PlansInit == P!Init => P!PlanCacheInv
<1> SUFFICES ASSUME P!Init PROVE P!PlanCacheInv
  OBVIOUS
<1> USE DEF P!Init, P!Nobody
<1>1. P!PlanCacheTypes
  BY DEF P!PlanCacheTypes, P!Having, P!Ended
<1>2. {t \in PlanTypes : P!Kept(t)} = {}
  BY DEF P!Kept
<1>3. P!Cardinality({t \in PlanTypes : P!Kept(t)}) = 0
  BY <1>2, PlansCounted, FS_EmptySet
<1>4. P!EntriesCounted
  BY <1>3 DEF P!EntriesCounted
<1>5. P!OnceTrue
  BY DEF P!OnceTrue, P!Having, P!Ended
<1>6. P!OnePlan
  BY <1>3, WorkConstants DEF P!OnePlan, P!Ended
<1> QED  BY <1>1, <1>4, <1>5, <1>6 DEF P!PlanCacheInv

\* A caller that was not given a plan yet goes on without touching the cache.
LEMMA PlansMove ==
  ASSUME P!PlanCacheInv, NEW c \in Callers, pAt[c] \in {"look", "count", "again", "lock"},
         NEW l \in {"count", "again", "lock", "given"}, pAt' = [pAt EXCEPT ![c] = l],
         NEW q \in Callers,
         pPlan' = IF l = "given" THEN [pPlan EXCEPT ![c] = q] ELSE pPlan,
         l = "given" => IF P!Kept(pType[c]) THEN q = pEntries[pType[c]] ELSE q = c /\ P!Full,
         l = "again" => P!Full,
         UNCHANGED <<pEntries, pCount, pMu, pType, pOnce, pValue, pFault, pRuns>>
  PROVE  P!PlanCacheInv'
<1> USE DEF P!PlanCacheInv, P!Having, P!Ended
<1>1. P!PlanCacheTypes'
  BY DEF P!PlanCacheTypes
<1>2. P!Full' = P!Full /\ \A t : P!Kept(t)' = P!Kept(t)
  BY DEF P!Full, P!Kept
<1>3. {t \in PlanTypes : P!Kept(t)}' = {t \in PlanTypes : P!Kept(t)}
  BY <1>2
<1>4. P!EntriesCounted'
  <2>1. pMu # 0 => pMu # c
    BY DEF P!EntriesCounted, P!PlanCacheTypes, P!Nobody
  <2> QED  BY <1>2, <1>3, <2>1 DEF P!EntriesCounted, P!PlanCacheTypes, P!Nobody
<1>5. P!OnceTrue'
  <2>1. \A d \in Callers : pAt'[d] # "given" => pPlan'[d] = pPlan[d]
    BY DEF P!PlanCacheTypes
  <2>2. \A d \in Callers : pAt'[d] \in {"computing", "returned", "panicked", "gone"}
                            => pAt'[d] = pAt[d] /\ pPlan'[d] = pPlan[d]
    BY DEF P!PlanCacheTypes
  <2>3. \A d \in Callers : pAt'[d] = "given" => pPlan'[d] \in Callers
    BY DEF P!PlanCacheTypes, P!OnceTrue
  <2> QED  BY <2>1, <2>2, <2>3 DEF P!OnceTrue, P!PlanCacheTypes
<1>6. P!OnePlan'
  BY <1>2, <1>3 DEF P!OnePlan, P!PlanCacheTypes
<1> QED  BY <1>1, <1>4, <1>5, <1>6

\* Storing an entry keeps the invariant.
LEMMA PlansAdd ==
  ASSUME P!PlanCacheInv, NEW c \in Callers, pAt[c] = "lock", pMu = 0,
         ~P!Kept(pType[c]), ~P!Full,
         pEntries' = [pEntries EXCEPT ![pType[c]] = c], pMu' = c,
         pAt' = [pAt EXCEPT ![c] = "added"],
         UNCHANGED <<pCount, pType, pPlan, pOnce, pValue, pFault, pRuns>>
  PROVE  P!PlanCacheInv'
<1> USE DEF P!PlanCacheInv, P!Having, P!Ended
<1>1. P!PlanCacheTypes'
  BY DEF P!PlanCacheTypes
<1> DEFINE kept == {t \in PlanTypes : P!Kept(t)}
<1>2. c # 0 /\ pType[c] \in PlanTypes /\ pType[c] \notin kept
  BY WorkConstants DEF P!PlanCacheTypes
<1>3. /\ kept' = kept \cup {pType[c]}
      /\ \A t \in PlanTypes : P!Kept(t)' <=> P!Kept(t) \/ t = pType[c]
  BY <1>2 DEF P!Kept, P!Nobody, P!PlanCacheTypes
<1>4. P!Cardinality(kept') = P!Cardinality(kept) + 1 /\ P!Cardinality(kept) = pCount
  <2>1. Cardinality(kept \cup {pType[c]}) = Cardinality(kept) + 1
    BY <1>2, PlansCounted, FS_AddElement
  <2>2. P!Cardinality(kept') = Cardinality(kept')
    BY DEF P!Cardinality, Cardinality
  <2>3. P!Cardinality(kept) = pCount
    BY DEF P!EntriesCounted, P!Nobody, P!PlanCacheTypes
  <2> QED  BY <1>3, <2>1, <2>2, <2>3, PlansCounted
<1>5. pCount \in Nat /\ pCount < PlanLimit
  BY WorkConstants DEF P!Full, P!PlanCacheTypes
<1>6. \A d \in Callers : pAt[d] # "added" /\ pAt[d] # "again"
  BY <1>5, WorkConstants DEF P!EntriesCounted
<1>7. P!EntriesCounted'
  <2>1. pCount + 1 = P!Cardinality(kept')
    BY <1>4
  <2> QED  BY <1>2, <1>6, <2>1 DEF P!EntriesCounted, P!PlanCacheTypes, P!Nobody
<1>8. P!OnceTrue'
  <2>1. \A d \in Callers : pAt'[d] # "added" => pAt'[d] = pAt[d]
    BY DEF P!PlanCacheTypes
  <2> QED  BY <2>1 DEF P!OnceTrue
<1>9. P!OnePlan'
  <2>1. P!Cardinality(kept') <= PlanLimit
    BY <1>4, <1>5, WorkConstants
  <2>2. ASSUME NEW d \in Callers, pAt'[d] \in {"given", "computing", "returned", "panicked", "gone"}
        PROVE  P!Kept(pType[d])' /\ pPlan[d] = pEntries'[pType[d]]
    <3>1. pAt[d] = pAt'[d]
      BY <2>2 DEF P!PlanCacheTypes
    <3>2. P!Kept(pType[d]) /\ pPlan[d] = pEntries[pType[d]]
      BY <2>2, <3>1 DEF P!OnePlan
    <3>3. pType[d] # pType[c] /\ pType[d] \in PlanTypes
      BY <3>2 DEF P!PlanCacheTypes
    <3> QED  BY <1>3, <3>2, <3>3 DEF P!PlanCacheTypes
  <2> QED  BY <2>1, <2>2 DEF P!OnePlan
<1> QED  BY <1>1, <1>7, <1>8, <1>9

\* Counting a stored entry keeps the invariant.
LEMMA PlansAddCount ==
  ASSUME P!PlanCacheInv, NEW c \in Callers, P!AddCount(c)
  PROVE  P!PlanCacheInv'
<1> USE DEF P!PlanCacheInv, P!Having, P!Ended
<1>1. /\ pAt[c] = "added" /\ pAt' = [pAt EXCEPT ![c] = "given"]
      /\ pPlan' = [pPlan EXCEPT ![c] = c] /\ pCount' = pCount + 1 /\ pMu' = 0
      /\ UNCHANGED <<pEntries, pType, pOnce, pValue, pFault, pRuns>>
  BY DEF P!AddCount, P!Given, P!Goto, P!Nobody, P!lazyVars
<1>2. P!PlanCacheTypes'
  BY <1>1 DEF P!PlanCacheTypes, P!Nobody
<1>3. pMu = c /\ pEntries[pType[c]] = c /\ c # 0
  BY <1>1, WorkConstants DEF P!EntriesCounted
<1>4. \A t : P!Kept(t)' = P!Kept(t)
  BY <1>1 DEF P!Kept
<1>5. {t \in PlanTypes : P!Kept(t)}' = {t \in PlanTypes : P!Kept(t)}
  BY <1>4
<1>6. P!Full => P!Full'
  BY <1>1, WorkConstants DEF P!Full, P!PlanCacheTypes
<1>7. P!EntriesCounted'
  <2>1. \A d \in Callers : d # c => pAt'[d] = pAt[d] /\ pAt[d] # "added"
    BY <1>1, <1>3 DEF P!EntriesCounted, P!PlanCacheTypes
  <2>2. pCount' + 0 = P!Cardinality({t \in PlanTypes : P!Kept(t)})
    BY <1>1, <1>3 DEF P!EntriesCounted, P!Nobody, P!PlanCacheTypes
  <2> QED  BY <1>1, <1>5, <1>6, <2>1, <2>2 DEF P!EntriesCounted, P!PlanCacheTypes, P!Nobody
<1>8. P!OnceTrue'
  <2>1. \A d \in Callers : d # c => pAt'[d] = pAt[d] /\ pPlan'[d] = pPlan[d]
    BY <1>1 DEF P!PlanCacheTypes
  <2>2. pAt'[c] = "given" /\ pPlan'[c] = c
    BY <1>1 DEF P!PlanCacheTypes
  <2> QED  BY <1>1, <2>1, <2>2 DEF P!OnceTrue
<1>9. P!OnePlan'
  <2>1. P!Kept(pType[c])
    BY <1>3 DEF P!Kept, P!Nobody
  <2>2. \A d \in Callers : d # c => pAt'[d] = pAt[d] /\ pPlan'[d] = pPlan[d]
    BY <1>1 DEF P!PlanCacheTypes
  <2>3. pAt'[c] = "given" /\ pPlan'[c] = c
    BY <1>1 DEF P!PlanCacheTypes
  <2> QED  BY <1>1, <1>3, <1>4, <1>5, <1>6, <2>1, <2>2, <2>3 DEF P!OnePlan
<1> QED  BY <1>2, <1>7, <1>8, <1>9

\* A caller that has its plan goes on without touching the cache.
LEMMA PlansHad ==
  ASSUME P!PlanCacheInv, NEW c \in Callers, pAt[c] \in P!Having, NEW l \in P!Having,
         pAt' = [pAt EXCEPT ![c] = l],
         UNCHANGED <<pEntries, pCount, pMu, pType, pPlan>>
  PROVE  P!EntriesCounted' /\ P!OnePlan' /\ \A d \in Callers \ {c} : pAt'[d] = pAt[d]
<1> USE DEF P!PlanCacheInv, P!Having, P!Ended
<1>1. P!Full' = P!Full /\ \A t : P!Kept(t)' = P!Kept(t)
  BY DEF P!Full, P!Kept
<1>2. {t \in PlanTypes : P!Kept(t)}' = {t \in PlanTypes : P!Kept(t)}
  BY <1>1
<1>3. P!EntriesCounted'
  <2>1. pMu # 0 => pMu # c
    BY DEF P!EntriesCounted, P!PlanCacheTypes, P!Nobody
  <2> QED  BY <1>1, <1>2, <2>1 DEF P!EntriesCounted, P!PlanCacheTypes, P!Nobody
<1>4. P!OnePlan'
  BY <1>1, <1>2 DEF P!OnePlan, P!PlanCacheTypes
<1> QED  BY <1>3, <1>4 DEF P!PlanCacheTypes

\* Working a plan out keeps the invariant.
LEMMA PlansCompute ==
  ASSUME P!PlanCacheInv, NEW c \in Callers, P!Compute(c)
  PROVE  P!PlanCacheInv'
<1> USE DEF P!PlanCacheInv
<1>1. /\ pAt[c] = "given" /\ pOnce[pPlan[c]] = "not" /\ pAt' = [pAt EXCEPT ![c] = "computing"]
      /\ pOnce' = [pOnce EXCEPT ![pPlan[c]] = "running"]
      /\ pRuns' = [pRuns EXCEPT ![pPlan[c]] = @ + 1]
      /\ UNCHANGED <<pEntries, pCount, pMu, pType, pPlan, pValue, pFault>>
  BY DEF P!Compute, P!Goto, P!cacheVars
<1>2. P!EntriesCounted' /\ P!OnePlan' /\ \A d \in Callers \ {c} : pAt'[d] = pAt[d]
  BY <1>1, PlansHad DEF P!Having, P!Ended
<1>3. pPlan[c] \in Callers
  BY <1>1 DEF P!OnceTrue, P!Having
<1>4. P!PlanCacheTypes'
  BY <1>1, <1>3 DEF P!PlanCacheTypes, P!Having, P!Ended
<1>5. P!OnceTrue'
  <2>1. \A p \in Callers : /\ pOnce'[p] = IF p = pPlan[c] THEN "running" ELSE pOnce[p]
                           /\ pRuns'[p] = IF p = pPlan[c] THEN pRuns[p] + 1 ELSE pRuns[p]
    BY <1>1, <1>3 DEF P!PlanCacheTypes
  <2>2. pAt'[c] = "computing"
    BY <1>1 DEF P!PlanCacheTypes
  <2>3. \A d \in Callers : pAt[d] \in P!Having => pPlan[d] \in Callers
    BY DEF P!OnceTrue
  <2>4. \A d \in Callers : pAt[d] = "computing" => pPlan[d] # pPlan[c]
    BY <1>1 DEF P!OnceTrue
  <2>5. pRuns[pPlan[c]] = 0
    BY <1>1, <1>3 DEF P!OnceTrue
  <2> QED  BY <1>1, <1>2, <1>3, <2>1, <2>2, <2>3, <2>4, <2>5 DEF P!OnceTrue, P!Having, P!Ended
<1> QED  BY <1>2, <1>4, <1>5

\* A computation ends: it has left a value or a fault.
LEMMA PlansComputed ==
  ASSUME P!PlanCacheInv, NEW c \in Callers, pAt[c] = "computing",
         NEW l \in {"given", "gone"}, NEW v \in {"zero", "worked"},
         NEW f \in {"none", "panic", "exit"}, v = "worked" <=> f = "none",
         pAt' = [pAt EXCEPT ![c] = l], pOnce' = [pOnce EXCEPT ![pPlan[c]] = "done"],
         pValue' = [pValue EXCEPT ![pPlan[c]] = v], pFault' = [pFault EXCEPT ![pPlan[c]] = f],
         UNCHANGED <<pEntries, pCount, pMu, pType, pPlan, pRuns>>
  PROVE  P!PlanCacheInv'
<1> USE DEF P!PlanCacheInv
<1>2. P!EntriesCounted' /\ P!OnePlan' /\ \A d \in Callers \ {c} : pAt'[d] = pAt[d]
  BY PlansHad DEF P!Having, P!Ended
<1>3. pPlan[c] \in Callers /\ pOnce[pPlan[c]] = "running"
  BY DEF P!OnceTrue, P!Having
<1>4. P!PlanCacheTypes'
  BY <1>3 DEF P!PlanCacheTypes, P!Having, P!Ended
<1>5. P!OnceTrue'
  <2>1. \A p \in Callers : /\ pOnce'[p] = IF p = pPlan[c] THEN "done" ELSE pOnce[p]
                           /\ pValue'[p] = IF p = pPlan[c] THEN v ELSE pValue[p]
                           /\ pFault'[p] = IF p = pPlan[c] THEN f ELSE pFault[p]
    BY <1>3 DEF P!PlanCacheTypes
  <2>2. pAt'[c] = l
    BY DEF P!PlanCacheTypes
  <2>3. \A d \in Callers : pAt[d] \in P!Having => pPlan[d] \in Callers
    BY DEF P!OnceTrue
  <2>4. \A d \in Callers : pAt'[d] = "computing" => pPlan[d] # pPlan[c] /\ pAt[d] = "computing"
    BY <1>2, <2>2 DEF P!OnceTrue
  <2>5. \A d \in Callers : pAt'[d] \in {"returned", "panicked"} =>
          pAt[d] = pAt'[d] /\ pPlan[d] # pPlan[c] /\ pPlan[d] \in Callers
    BY <1>2, <1>3, <2>2, <2>3 DEF P!OnceTrue, P!Having, P!Ended
  <2>6. \A d \in Callers : pAt'[d] \in P!Having => pPlan[d] \in Callers
    BY <1>2, <1>3, <2>3
  <2>7. \A p \in Callers :
          /\ pRuns[p] = IF pOnce'[p] = "not" THEN 0 ELSE 1
          /\ IF pOnce'[p] = "done" THEN pValue'[p] = "worked" <=> pFault'[p] = "none"
             ELSE pValue'[p] = "zero" /\ pFault'[p] = "none"
    BY <1>3, <2>1 DEF P!OnceTrue
  <2>8. \A d \in Callers : pAt'[d] = "computing" => pOnce'[pPlan[d]] = "running"
    BY <2>1, <2>3, <2>4 DEF P!OnceTrue, P!Having
  <2>9. \A d \in Callers :
       /\ pAt'[d] = "returned" => pOnce'[pPlan[d]] = "done" /\ pValue'[pPlan[d]] = "worked"
       /\ pAt'[d] = "panicked" => pOnce'[pPlan[d]] = "done" /\ pValue'[pPlan[d]] = "zero"
    BY <2>1, <2>5 DEF P!OnceTrue
  <2>10. \A d, e \in Callers :
           pAt'[d] = "computing" /\ pAt'[e] = "computing" /\ pPlan[d] = pPlan[e] => d = e
    BY <2>4 DEF P!OnceTrue
  <2> QED  BY <2>6, <2>7, <2>8, <2>9, <2>10 DEF P!OnceTrue
<1> QED  BY <1>2, <1>4, <1>5

\* Reading a plan's contents keeps the invariant.
LEMMA PlansReadValue ==
  ASSUME P!PlanCacheInv, NEW c \in Callers, P!ReadValue(c)
  PROVE  P!PlanCacheInv'
<1> USE DEF P!PlanCacheInv
<1> DEFINE l == IF pFault[pPlan[c]] # "none" THEN "panicked" ELSE "returned"
<1>1. /\ pAt[c] = "given" /\ pOnce[pPlan[c]] = "done" /\ pAt' = [pAt EXCEPT ![c] = l]
      /\ UNCHANGED <<pEntries, pCount, pMu, pType, pPlan, pOnce, pValue, pFault, pRuns>>
  BY DEF P!ReadValue, P!Goto, P!cacheVars, P!lazyVars
<1>2. P!EntriesCounted' /\ P!OnePlan' /\ \A d \in Callers \ {c} : pAt'[d] = pAt[d]
  BY <1>1, PlansHad DEF P!Having, P!Ended
<1>3. pPlan[c] \in Callers
  BY <1>1 DEF P!OnceTrue, P!Having
<1>4. P!PlanCacheTypes'
  BY <1>1 DEF P!PlanCacheTypes, P!Having, P!Ended
<1>5. P!OnceTrue'
  <2>1. pAt'[c] = l
    BY <1>1 DEF P!PlanCacheTypes
  <2>2. l = "returned" => pValue[pPlan[c]] = "worked"
    BY <1>1, <1>3 DEF P!OnceTrue
  <2>3. l = "panicked" => pValue[pPlan[c]] = "zero"
    BY <1>1, <1>3 DEF P!OnceTrue, P!PlanCacheTypes
  <2> QED  BY <1>1, <1>2, <1>3, <2>1, <2>2, <2>3 DEF P!OnceTrue, P!Having, P!Ended
<1> QED  BY <1>2, <1>4, <1>5

\* Every step of the plan cache keeps the invariant.
LEMMA PlansNext ==
  ASSUME P!PlanCacheInv, [P!Next]_(P!vars)
  PROVE  P!PlanCacheInv'
<1>0. /\ \A t \in PlanTypes : P!Kept(t) => pEntries[t] \in Callers
      /\ \A c \in Callers : pType[c] \in PlanTypes
  BY DEF P!PlanCacheInv, P!PlanCacheTypes, P!Kept
<1>1. ASSUME NEW c \in Callers, P!Look(c) PROVE P!PlanCacheInv'
  <2>1. UNCHANGED <<pEntries, pCount, pMu, pType, pOnce, pValue, pFault, pRuns>>
    BY <1>1 DEF P!Look, P!cacheVars, P!lazyVars
  <2>a. CASE P!Kept(pType[c])
    BY <1>0, <1>1, <2>1, <2>a, PlansMove DEF P!Look, P!Given, P!Goto
  <2>b. CASE ~P!Kept(pType[c])
    BY <1>1, <2>1, <2>b, PlansMove DEF P!Look, P!Goto
  <2> QED  BY <2>a, <2>b
<1>2. ASSUME NEW c \in Callers, P!Count(c) PROVE P!PlanCacheInv'
  <2>1. UNCHANGED <<pEntries, pCount, pMu, pType, pPlan, pOnce, pValue, pFault, pRuns>>
    BY <1>2 DEF P!Count, P!cacheVars, P!lazyVars
  <2> QED  BY <1>2, <2>1, PlansMove DEF P!Count, P!Goto
<1>3. ASSUME NEW c \in Callers, P!LookAgain(c) PROVE P!PlanCacheInv'
  <2>1. UNCHANGED <<pEntries, pCount, pMu, pType, pOnce, pValue, pFault, pRuns>>
    BY <1>3 DEF P!LookAgain, P!cacheVars, P!lazyVars
  <2>2. P!Full
    BY <1>3 DEF P!LookAgain, P!PlanCacheInv, P!EntriesCounted
  <2> QED  BY <1>0, <1>3, <2>1, <2>2, PlansMove DEF P!LookAgain, P!Given, P!Goto
<1>4. ASSUME NEW c \in Callers, P!AddEntry(c) PROVE P!PlanCacheInv'
  <2>1. pAt[c] = "lock" /\ pMu = 0 /\ UNCHANGED <<pCount, pType, pOnce, pValue, pFault, pRuns>>
    BY <1>4 DEF P!AddEntry, P!lazyVars, P!Nobody
  <2>a. CASE P!Kept(pType[c]) \/ P!Full
    BY <1>0, <1>4, <2>1, <2>a, PlansMove DEF P!AddEntry, P!Given, P!Goto
  <2>b. CASE ~(P!Kept(pType[c]) \/ P!Full)
    BY <1>4, <2>1, <2>b, PlansAdd DEF P!AddEntry, P!Goto
  <2> QED  BY <2>a, <2>b
<1>5. ASSUME NEW c \in Callers, P!Computed(c) \/ P!ComputePanics(c) \/ P!ComputeExits(c)
      PROVE  P!PlanCacheInv'
  <2>1. /\ pAt[c] = "computing" /\ pOnce' = [pOnce EXCEPT ![pPlan[c]] = "done"]
        /\ UNCHANGED <<pEntries, pCount, pMu, pType, pPlan, pRuns>>
    BY <1>5 DEF P!Computed, P!ComputePanics, P!ComputeExits, P!OnceDone, P!cacheVars
  <2>2. /\ pPlan[c] \in Callers /\ pValue[pPlan[c]] = "zero" /\ pFault[pPlan[c]] = "none"
        /\ pValue = [pValue EXCEPT ![pPlan[c]] = "zero"]
        /\ pFault = [pFault EXCEPT ![pPlan[c]] = "none"]
    BY <2>1 DEF P!PlanCacheInv, P!OnceTrue, P!Having, P!PlanCacheTypes
  <2>a. CASE P!Computed(c)
    BY <2>1, <2>2, <2>a, PlansComputed DEF P!Computed, P!OnceDone, P!Goto
  <2>b. CASE P!ComputePanics(c)
    BY <2>1, <2>2, <2>b, PlansComputed DEF P!ComputePanics, P!OnceDone, P!Goto
  <2>c. CASE P!ComputeExits(c)
    BY <2>1, <2>2, <2>c, PlansComputed DEF P!ComputeExits, P!OnceDone, P!Goto
  <2> QED  BY <1>5, <2>a, <2>b, <2>c
<1>6. CASE UNCHANGED P!vars
  <2>1. UNCHANGED <<pEntries, pCount, pMu, pAt, pType, pPlan, pOnce, pValue, pFault, pRuns>>
    BY <1>6 DEF P!vars, P!cacheVars, P!lazyVars
  <2> QED  BY <2>1 DEF P!PlanCacheInv, P!PlanCacheTypes, P!EntriesCounted, P!OnceTrue,
             P!OnePlan,
                       P!Kept, P!Full
<1> QED  BY <1>1, <1>2, <1>3, <1>4, <1>5, <1>6, PlansAddCount, PlansCompute, PlansReadValue
         DEF P!Next

\* Callers that asked for a kept type share one plan, and none reads a plan whose
\* contents were not worked out.
THEOREM PlansKept == P!Spec => [](P!OnePlan /\ P!NeverZero)
<1>1. ASSUME P!PlanCacheInv PROVE P!OnePlan /\ P!NeverZero
  <2>1. \A p \in Callers : pRuns[p] <= 1
    BY <1>1 DEF P!PlanCacheInv, P!OnceTrue
  <2> QED  BY <1>1, <2>1 DEF P!PlanCacheInv, P!OnceTrue, P!NeverZero
<1> QED  BY <1>1, PlansInit, PlansNext, PTL DEF P!Spec

\* What operations read of the process is right: the setting, the environment and the
\* type plans, each under its own interleavings.
THEOREM SharedIsKept == Y!Spec /\ E!Spec /\ P!Spec => []SharedKept
<1>1. Y!NewestInForce /\ E!ReloadCounts /\ P!OnePlan /\ P!NeverZero => SharedKept
  BY DEF SharedKept
<1> QED  BY <1>1, SettingIsNewest, ReloadsCount, PlansKept, PTL

-----------------------------------------------------------------------------
\* The recovery cascade.

\* The larger and the smaller of two numbers.
LEMMA PairExtremes ==
  ASSUME NEW a \in Int, NEW b \in Int
  PROVE  /\ C!Max({a, b}) = IF a >= b THEN a ELSE b
         /\ C!Min({a, b}) = IF a <= b THEN a ELSE b
<1>1. \E x \in {a, b} : \A y \in {a, b} : x >= y
  <2>1. CASE a >= b
    BY <2>1
  <2>2. CASE ~(a >= b)
    BY <2>2
  <2> QED  BY <2>1, <2>2
<1>2. \E x \in {a, b} : \A y \in {a, b} : x =< y
  <2>1. CASE a <= b
    BY <2>1
  <2>2. CASE ~(a <= b)
    BY <2>2
  <2> QED  BY <2>1, <2>2
<1>3. /\ C!Max({a, b}) \in {a, b} /\ \A y \in {a, b} : C!Max({a, b}) >= y
      /\ C!Min({a, b}) \in {a, b} /\ \A y \in {a, b} : C!Min({a, b}) =< y
  BY <1>1, <1>2 DEF C!Max, C!Min
<1> QED  BY <1>3

\* Of the subsets that elements of a finite set are given, one is least.
LEMMA LeastGiven ==
  \A Q, f : IsFiniteSet(Q) /\ Q # {} /\ f \in [Q -> SUBSET Q] =>
    \E x \in Q : \A y \in Q : f[y] \subseteq f[x] => f[y] = f[x]
<1> SUFFICES ASSUME NEW Q, NEW f, IsFiniteSet(Q), Q # {}, f \in [Q -> SUBSET Q]
             PROVE  \E x \in Q : \A y \in Q : f[y] \subseteq f[x] => f[y] = f[x]
  OBVIOUS
<1>0. PICK Bad : Bad = {f[x] : x \in Q}
  OBVIOUS
<1>1. Bad \in SUBSET SUBSET Q /\ Bad # {}
  BY <1>0
<1>2. PICK T \in Bad : \A U \in Bad : U \subseteq T => U = T
  BY <1>1, Least
<1>3. PICK x \in Q : T = f[x]
  BY <1>0
<1>4. \A y \in Q : f[y] \in Bad
  BY <1>0
<1> QED  BY <1>2, <1>3, <1>4

\* A finite set of numbers has a largest and a smallest.
Numbers(Q) == Q \subseteq Nat
LEMMA SetExtremes ==
  ASSUME NEW Q, Numbers(Q), IsFiniteSet(Q), Q # {}
  PROVE  /\ C!Max(Q) \in Q /\ \A y \in Q : C!Max(Q) >= y
         /\ C!Min(Q) \in Q /\ \A y \in Q : C!Min(Q) =< y
<1>1. \E x \in Q : \A y \in Q : x >= y
  <2>1. PICK f : f = [x \in Q |-> {y \in Q : y >= x}]
    OBVIOUS
  <2>2. f \in [Q -> SUBSET Q] /\ \A x, y \in Q : y \in f[x] <=> y >= x
    BY <2>1
  <2>3. PICK x \in Q : \A y \in Q : f[y] \subseteq f[x] => f[y] = f[x]
    <3>1. f \in [Q -> SUBSET Q]
      BY <2>2
    <3> QED  BY <3>1, LeastGiven
  <2>4. ASSUME NEW y \in Q, ~(x >= y) PROVE FALSE
    <3>1. x \in f[x] /\ x \notin f[y] /\ f[y] \subseteq Q
      BY <2>2, <2>4 DEF Numbers
    <3>2. \A z \in Q : z \in f[y] => z \in f[x]
      BY <2>2, <2>4 DEF Numbers
    <3> QED  BY <2>3, <3>1, <3>2
  <2> QED  BY <2>4
<1>2. \E x \in Q : \A y \in Q : x =< y
  <2>1. PICK f : f = [x \in Q |-> {y \in Q : y =< x}]
    OBVIOUS
  <2>2. f \in [Q -> SUBSET Q] /\ \A x, y \in Q : y \in f[x] <=> y =< x
    BY <2>1
  <2>3. PICK x \in Q : \A y \in Q : f[y] \subseteq f[x] => f[y] = f[x]
    <3>1. f \in [Q -> SUBSET Q]
      BY <2>2
    <3> QED  BY <3>1, LeastGiven
  <2>4. ASSUME NEW y \in Q, ~(x =< y) PROVE FALSE
    <3>1. x \in f[x] /\ x \notin f[y] /\ f[y] \subseteq Q
      BY <2>2, <2>4 DEF Numbers
    <3>2. \A z \in Q : z \in f[y] => z \in f[x]
      BY <2>2, <2>4 DEF Numbers
    <3> QED  BY <2>3, <3>1, <3>2
  <2> QED  BY <2>4
<1> QED  BY <1>1, <1>2 DEF C!Max, C!Min

\* A run's figures and its items.
LEMMA RunFacts ==
  ASSUME cRun \in RecoverRuns
  PROVE  /\ cRun.maxIsolate \in 1..3 /\ cRun.workers \in Nat \ {0} /\ cRun.ceiling \in Nat
         /\ cRun.start \in Nat /\ cRun.oversized \in Nat
         /\ cRun.ends \subseteq Nat /\ IsFiniteSet(cRun.ends)
         /\ C!Eligible \in Nat /\ \A e \in cRun.ends : e <= C!Eligible
         /\ C!Eligible > 0 => C!Eligible \in cRun.ends
         /\ C!Items = 1..(C!Eligible + cRun.oversized)
         /\ IsFiniteSet(C!Items) /\ Cardinality(C!Items) = C!Eligible + cRun.oversized
         /\ C!Max({1, cRun.ceiling}) = IF cRun.ceiling <= 1 THEN 1 ELSE cRun.ceiling
<1>1. /\ cRun.maxIsolate \in 1..3 /\ cRun.workers \in Nat \ {0} /\ cRun.ceiling \in Nat
      /\ cRun.start \in Nat /\ cRun.oversized \in Nat
      /\ cRun.ends \subseteq Nat /\ IsFiniteSet(cRun.ends)
  BY RecoverConstants DEF C!Run
<1>2. C!Eligible \in Nat /\ (\A e \in cRun.ends : e <= C!Eligible)
      /\ (C!Eligible > 0 => C!Eligible \in cRun.ends)
  <2>1. CASE cRun.ends = {}
    BY <2>1 DEF C!Eligible
  <2>2. CASE cRun.ends # {}
    <3>1. C!Eligible = C!Max(cRun.ends)
      BY <2>2 DEF C!Eligible
    <3> QED  BY <1>1, <2>2, <3>1, SetExtremes DEF Numbers
  <2> QED  BY <2>1, <2>2
<1>3. C!Items = 1..(C!Eligible + cRun.oversized)
  BY DEF C!Items
<1>4. IsFiniteSet(C!Items) /\ Cardinality(C!Items) = C!Eligible + cRun.oversized
  <2>1. PICK m \in Nat : m = C!Eligible + cRun.oversized
    BY <1>1, <1>2
  <2>2. IsFiniteSet(1..m) /\ Cardinality(1..m) = m
    BY <2>1, FS_Interval
  <2> QED  BY <1>3, <2>1, <2>2
<1>5. C!Max({1, cRun.ceiling}) = IF cRun.ceiling <= 1 THEN 1 ELSE cRun.ceiling
  BY <1>1, PairExtremes
<1> QED  BY <1>1, <1>2, <1>3, <1>4, <1>5

\* The next chunk is not empty, lies inside the plan's, and no planned end is inside it.
LEMMA ChunkFacts ==
  ASSUME cRun \in RecoverRuns, cPos \in 0..C!Eligible, cPos < C!Eligible, cSize \in Nat \ {0}
  PROVE  /\ C!ChunkSize \in 1..(C!Eligible - cPos)
         /\ \A e \in cRun.ends : e > cPos => e >= cPos + C!ChunkSize
<1>0. C!Eligible \in Nat /\ C!Eligible \in cRun.ends /\ cPos \in Nat
  BY RunFacts
<1> DEFINE ahead == {e \in cRun.ends : e > cPos}
<1>1. ahead \in SUBSET Nat /\ IsFiniteSet(ahead) /\ ahead # {}
  BY <1>0, RunFacts, FS_Subset
<1>2. /\ C!limitAt(cPos) \in cRun.ends /\ C!limitAt(cPos) > cPos
      /\ \A e \in cRun.ends : e > cPos => e >= C!limitAt(cPos)
  <2>1. C!limitAt(cPos) = C!Min(ahead)
    BY DEF C!limitAt
  <2>2. C!Min(ahead) \in ahead /\ \A e \in ahead : C!Min(ahead) =< e
    <3> HIDE DEF ahead
    <3> QED  BY <1>1, SetExtremes DEF Numbers
  <2> QED  BY <2>1, <2>2, RunFacts
<1>3. PICK m \in Nat : m = C!limitAt(cPos) /\ m > cPos /\ m <= C!Eligible
  BY <1>2, RunFacts
<1>4. C!ChunkSize = C!Max({1, C!Min({cSize, m - cPos})})
  BY <1>3 DEF C!ChunkSize
<1>5. C!Min({cSize, m - cPos}) = IF cSize <= m - cPos THEN cSize ELSE m - cPos
  <2>1. PICK a \in Int : a = m - cPos
    BY <1>0, <1>3
  <2>2. cSize \in Int
    OBVIOUS
  <2>3. C!Min({cSize, a}) = IF cSize <= a THEN cSize ELSE a
    BY <2>1, <2>2, PairExtremes, Zenon
  <2> QED  BY <2>1, <2>3
<1>6. PICK d \in Nat \ {0} : d = C!Min({cSize, m - cPos}) /\ d <= m - cPos
  BY <1>0, <1>3, <1>5
<1>7. C!ChunkSize = d
  BY <1>4, <1>6, PairExtremes
<1>8. d \in 1..(C!Eligible - cPos)
  BY <1>0, <1>3, <1>6
<1>9. ASSUME NEW e \in cRun.ends, e > cPos PROVE e >= cPos + d
  <2>1. e \in Nat /\ e >= m
    BY <1>2, <1>3, <1>9, RunFacts
  <2> QED  BY <1>0, <1>6, <2>1
<1> QED  BY <1>7, <1>8, <1>9

\* Record keeps the size between one and the ceiling.
LEMMA RecordSizes ==
  ASSUME cRun \in RecoverRuns, cSize \in 1..C!Max({1, cRun.ceiling}), cComplianceRun \in Nat,
         NEW o, C!Record(o)
  PROVE  cSize' \in 1..C!Max({1, cRun.ceiling}) /\ cComplianceRun' \in Nat
<1>0. cRun.ceiling \in Nat /\ cSize \in Nat /\ cSize >= 1
      /\ C!Max({1, cRun.ceiling}) = IF cRun.ceiling <= 1 THEN 1 ELSE cRun.ceiling
  BY RunFacts
<1>1. \/ cSize' = C!halve /\ cComplianceRun' = 0
      \/ cSize < cRun.ceiling /\ cSize' = C!grow /\ cComplianceRun' = 0
      \/ cSize' = cSize /\ cComplianceRun' \in {cComplianceRun, cComplianceRun + 1}
  <2>1. CASE o = "halves"
    BY <2>1 DEF C!Record
  <2>2. CASE o = "compliant" /\ cSize >= cRun.ceiling
    BY <1>0, <2>2 DEF C!Record
  <2>3. CASE o = "compliant" /\ cSize < cRun.ceiling
    BY <1>0, <2>3 DEF C!Record, C!sustainedComplianceRun
  <2>4. CASE o # "halves" /\ o # "compliant"
    BY <2>4 DEF C!Record
  <2> QED  BY <1>0, <2>1, <2>2, <2>3, <2>4
<1>2. C!halve \in 1..cSize
  BY <1>0 DEF C!halve
<1>3. ASSUME cSize < cRun.ceiling PROVE C!grow \in 1..cRun.ceiling
  <2>1. PICK g \in Nat : g = (5 * cSize) \div 4
    BY <1>0
  <2>2. PICK m \in Nat \ {0} : m = C!Max({cSize + 1, g})
    BY <1>0, <2>1, PairExtremes
  <2>3. C!grow = C!Min({cRun.ceiling, m})
    BY <2>1, <2>2 DEF C!grow
  <2>4. C!Min({cRun.ceiling, m}) = IF cRun.ceiling <= m THEN cRun.ceiling ELSE m
    <3>1. cRun.ceiling \in Int /\ m \in Int
      BY <1>0
    <3> QED  BY <3>1, PairExtremes, Zenon
  <2> QED  BY <1>0, <1>3, <2>2, <2>3, <2>4
<1> QED  BY <1>0, <1>1, <1>2, <1>3

\* The job on top of the stack, and those below it.
LEMMA JobFacts ==
  ASSUME cStack \in Seq(C!Jobs), cStack # <<>>
  PROVE  /\ C!Job = cStack[1] /\ C!Job \in C!Jobs /\ Len(cStack) \in Nat \ {0}
         /\ C!Job.set \in Seq(Nat) /\ Len(C!Job.set) \in Nat /\ C!Job.left \in Nat
         /\ C!Job.after \in BOOLEAN
         /\ Tail(cStack) \in Seq(C!Jobs) /\ Len(Tail(cStack)) = Len(cStack) - 1
         /\ \A a \in 1..(Len(cStack) - 1) : Tail(cStack)[a] = cStack[a + 1]
<1>1. Len(cStack) \in Nat \ {0}
  BY EmptySeq, LenProperties
<1>2. C!Job = cStack[1] /\ cStack[1] \in C!Jobs
  BY <1>1, ElementOfSeq DEF C!Job
<1>3. C!Job.set \in Seq(Nat) /\ C!Job.left \in Nat /\ C!Job.after \in BOOLEAN
  BY <1>2 DEF C!Jobs
<1>4. Len(C!Job.set) \in Nat
  BY <1>3, LenProperties
<1>5. /\ Tail(cStack) \in Seq(C!Jobs) /\ Len(Tail(cStack)) = Len(cStack) - 1
      /\ \A a \in 1..(Len(cStack) - 1) : Tail(cStack)[a] = cStack[a + 1]
  BY <1>1, HeadTailProperties
<1> QED  BY <1>1, <1>2, <1>3, <1>4, <1>5

\* Jobs made of what the job on top asks about, after its first n items: they share
\* none, and one that may be sent asks about fewer.
Parts(F, offs, took) ==
  /\ \A a \in 1..Len(F) :
       /\ offs[a] \in Nat /\ took <= offs[a] /\ offs[a] + Len(F[a].set) <= Len(C!Job.set)
       /\ \A j \in 1..Len(F[a].set) : F[a].set[j] = C!Job.set[offs[a] + j]
       /\ Len(F[a].set) > 1 \/ F[a].one => Len(F[a].set) < Len(C!Job.set)
  /\ \A a, b \in 1..Len(F) : a < b => offs[a] + Len(F[a].set) <= offs[b]

\* What the job on top asks about after its first n items.
Rest(u, took) ==
  /\ u \in Seq(Nat) /\ took \in 0..Len(C!Job.set) /\ Len(u) = Len(C!Job.set) - took
  /\ \A j \in 1..Len(u) : u[j] = C!Job.set[took + j]

\* Half of a set is part of it.
LEMMA HalfOf ==
  ASSUME NEW m \in Nat \ {0}
  PROVE  /\ (m + 1) \div 2 \in 1..m
         /\ (m + 1) \div 2 > 1 => (m + 1) \div 2 < m
OBVIOUS

\* The halves of what is left.
LEMMA HalvesParts ==
  ASSUME cStack \in Seq(C!Jobs), cStack # <<>>, NEW took, NEW u, Rest(u, took), u # <<>>,
         NEW left \in Nat, NEW after \in BOOLEAN
  PROVE  /\ C!halves(u, left, after) \in Seq(C!Jobs)
         /\ \E offs : Parts(C!halves(u, left, after), offs, took)
<1>0. u \in Seq(Nat) /\ took \in Nat /\ Len(u) \in Nat \ {0} /\ Len(C!Job.set) = took + Len(u)
  BY JobFacts, EmptySeq, LenProperties DEF Rest
<1>0e. \A j \in 1..Len(u) : u[j] = C!Job.set[took + j]
  BY DEF Rest
<1>1. PICK m \in Nat \ {0} : m = Len(u) /\ Len(C!Job.set) = took + m /\ took \in Nat
  BY <1>0
<1>2. PICK mid \in 1..m : mid = (m + 1) \div 2 /\ (mid > 1 => mid < m)
  BY HalfOf
<1>3. PICK one : one = [set |-> SubSeq(u, 1, mid), left |-> left, after |-> after,
                        one |-> FALSE]
  OBVIOUS
<1>4. PICK two : two = [set |-> SubSeq(u, mid + 1, m), left |-> left, after |-> after,
                        one |-> FALSE]
  OBVIOUS
<1>5. C!halves(u, left, after) = <<one, two>>
  BY <1>1, <1>2, <1>3, <1>4 DEF C!halves
<1>6. /\ one.set \in Seq(Nat) /\ Len(one.set) = mid
      /\ \A j \in 1..mid : one.set[j] = u[j]
  <2>1. one.set = SubSeq(u, 1, mid)
    BY <1>3
  <2> QED  BY <1>0, <1>1, <1>2, <2>1, SubSeqProperties
<1>7. /\ two.set \in Seq(Nat) /\ Len(two.set) = m - mid
      /\ \A j \in 1..(m - mid) : two.set[j] = u[mid + j]
  <2>1. two.set = SubSeq(u, mid + 1, m)
    BY <1>4
  <2>2. mid + 1 \in 1..(Len(u) + 1) /\ m \in ((mid + 1) - 1)..Len(u)
    BY <1>1, <1>2
  <2>3. /\ two.set \in Seq(Nat) /\ Len(two.set) = m - (mid + 1) + 1
        /\ \A j \in 1..(m - (mid + 1) + 1) : two.set[j] = u[(mid + 1) + j - 1]
    <3>1. PICK lo : lo = mid + 1
      OBVIOUS
    <3>2. /\ SubSeq(u, lo, m) \in Seq(Nat) /\ Len(SubSeq(u, lo, m)) = m - lo + 1
          /\ \A j \in 1..(m - lo + 1) : SubSeq(u, lo, m)[j] = u[lo + j - 1]
      <4>1. u \in Seq(Nat) /\ lo \in 1..(Len(u) + 1) /\ m \in (lo - 1)..Len(u)
        BY <1>0, <2>2, <3>1
      <4>2. lo <= m + 1 /\ lo \in Nat /\ m \in Nat
        BY <1>1, <1>2, <3>1
      <4> QED  BY <4>1, <4>2, SubSeqProperties
    <3> QED  BY <2>1, <3>1, <3>2
  <2>4. m - (mid + 1) + 1 = m - mid
    BY <1>1, <1>2
  <2>5. \A j \in 1..(m - mid) : (mid + 1) + j - 1 = mid + j
    BY <1>1, <1>2
  <2> QED  BY <2>3, <2>4, <2>5
<1>8. one \in C!Jobs /\ two \in C!Jobs /\ ~one.one /\ ~two.one
  BY <1>3, <1>4, <1>6, <1>7 DEF C!Jobs
<1>9. <<one, two>> \in Seq(C!Jobs)
  BY <1>8
<1>10. Parts(<<one, two>>, <<took, took + mid>>, took)
  <2>1. \A j \in 1..mid : one.set[j] = C!Job.set[took + j]
    <3>1. 1..mid \subseteq 1..Len(u)
      BY <1>1, <1>2
    <3> QED  BY <1>0e, <1>6, <3>1
  <2>2. \A j \in 1..(m - mid) : two.set[j] = C!Job.set[(took + mid) + j]
    <3> SUFFICES ASSUME NEW j \in 1..(m - mid) PROVE two.set[j] = C!Job.set[(took + mid) + j]
      OBVIOUS
    <3>1. mid + j \in 1..Len(u) /\ took + (mid + j) = (took + mid) + j
      BY <1>1, <1>2
    <3> QED  BY <1>0e, <1>7, <3>1
  <2>3. PICK F : F = <<one, two>>
    OBVIOUS
  <2>4. PICK offs : offs = <<took, took + mid>>
    OBVIOUS
  <2>5. /\ Len(F) = 2 /\ F[1] = one /\ F[2] = two /\ offs[1] = took /\ offs[2] = took + mid
    BY <2>3, <2>4
  <2>6. /\ took + mid \in Nat /\ took <= took + mid /\ took + mid <= Len(C!Job.set)
        /\ took + mid + (m - mid) <= Len(C!Job.set) /\ (mid > 1 => mid < Len(C!Job.set))
        /\ m - mid < Len(C!Job.set)
    BY <1>0, <1>1, <1>2
  <2>7. ASSUME NEW a \in 1..Len(F)
        PROVE  /\ offs[a] \in Nat /\ took <= offs[a]
               /\ offs[a] + Len(F[a].set) <= Len(C!Job.set)
               /\ \A j \in 1..Len(F[a].set) : F[a].set[j] = C!Job.set[offs[a] + j]
               /\ Len(F[a].set) > 1 \/ F[a].one => Len(F[a].set) < Len(C!Job.set)
    <3>1. CASE a = 1
      <4>1. offs[a] = took /\ F[a] = one /\ Len(F[a].set) = mid /\ ~F[a].one
        BY <1>6, <1>8, <2>5, <3>1
      <4>2. took \in Nat /\ took <= took
        BY <1>1
      <4> QED  BY <2>1, <2>6, <4>1, <4>2
    <3>2. CASE a = 2
      BY <1>7, <1>8, <2>2, <2>5, <2>6, <3>2
    <3> QED  BY <2>5, <3>1, <3>2
  <2>8. \A a, b \in 1..Len(F) : a < b => offs[a] + Len(F[a].set) <= offs[b]
    <3>1. \A a, b \in 1..Len(F) : a < b => a = 1 /\ b = 2
      BY <2>5
    <3>2. offs[1] + Len(F[1].set) <= offs[2]
      BY <1>0, <1>2, <1>6, <2>5, <2>6
    <3> QED  BY <3>1, <3>2
  <2> QED  BY <2>3, <2>4, <2>7, <2>8 DEF Parts
<1> QED  BY <1>5, <1>9, <1>10

\* The jobs a request leaves are such parts.
LEMMA FollowedParts ==
  ASSUME cStack \in Seq(C!Jobs), cStack # <<>>, NEW took, NEW u, Rest(u, took),
         NEW refused \in BOOLEAN
  PROVE  \E F, offs : /\ F \in Seq(C!Jobs) /\ F = C!Followed(u, took, refused)
                      /\ Parts(F, offs, took)
<1>0. /\ C!Job.left \in Nat /\ C!Job.after \in BOOLEAN /\ Len(C!Job.set) \in Nat
      /\ took \in Nat /\ u \in Seq(Nat) /\ Len(u) \in Nat /\ Len(C!Job.set) = took + Len(u)
  BY JobFacts, LenProperties DEF Rest
<1>0e. \A j \in 1..Len(u) : u[j] = C!Job.set[took + j]
  BY DEF Rest
<1>1. ASSUME C!Followed(u, took, refused) = <<>>
      PROVE  \E F, offs : /\ F \in Seq(C!Jobs) /\ F = C!Followed(u, took, refused)
                      /\ Parts(F, offs, took)
  <2>1. <<>> \in Seq(C!Jobs) /\ Parts(<<>>, <<>>, took)
    BY EmptySeq DEF Parts
  <2> QED  BY <1>1, <2>1
<1>2. ASSUME NEW left \in Nat, NEW after \in BOOLEAN, u # <<>>,
             C!Followed(u, took, refused) = C!halves(u, left, after)
      PROVE  \E F, offs : /\ F \in Seq(C!Jobs) /\ F = C!Followed(u, took, refused)
                      /\ Parts(F, offs, took)
  BY <1>2, HalvesParts
<1>3. CASE u = <<>>
  BY <1>1, <1>3 DEF C!Followed
<1>4. CASE u # <<>> /\ refused
  <2>1. C!Followed(u, took, refused) = C!halves(u, C!Job.left, C!Job.after)
    BY <1>4 DEF C!Followed
  <2> QED  BY <1>0, <1>2, <1>4, <2>1
<1>5. CASE u # <<>> /\ ~refused /\ C!Job.left > 0 /\ took > 0
  <2>1. PICK job : job = [set |-> u, left |-> C!Job.left - 1, after |-> FALSE, one |-> TRUE]
    OBVIOUS
  <2>2. C!Followed(u, took, refused) = <<job>>
    <3>1. u # <<>> /\ refused = FALSE /\ C!Job.left > 0 /\ took > 0 /\ ~(took = 0)
      BY <1>0, <1>5
    <3> QED  BY <2>1, <3>1 DEF C!Followed
  <2>3. job \in C!Jobs /\ job.set = u
    BY <1>0, <1>5, <2>1 DEF C!Jobs
  <2>4. <<job>> \in Seq(C!Jobs)
    BY <2>3
  <2>5. Len(u) \in Nat /\ took + Len(u) <= Len(C!Job.set) /\ Len(u) < Len(C!Job.set)
    BY <1>0, <1>5, LenProperties
  <2>6. Parts(<<job>>, <<took>>, took)
    BY <1>0, <1>0e, <2>3, <2>5 DEF Parts
  <2> QED  BY <2>2, <2>4, <2>6
<1>6. CASE u # <<>> /\ ~refused /\ C!Job.left > 0 /\ took = 0 /\ ~C!Job.after
  <2>1. C!Followed(u, took, refused) = C!halves(u, C!Job.left - 1, TRUE)
    <3>1. u # <<>> /\ refused = FALSE /\ C!Job.left > 0 /\ took = 0 /\ ~(took > 0)
          /\ C!Job.after = FALSE
      BY <1>0, <1>6
    <3> QED  BY <3>1 DEF C!Followed
  <2>2. C!Job.left - 1 \in Nat /\ TRUE \in BOOLEAN
    BY <1>0, <1>6
  <2> QED  BY <1>2, <1>6, <2>1, <2>2
<1>7. CASE u # <<>> /\ ~refused
           /\ ~(C!Job.left > 0 /\ took > 0) /\ ~(C!Job.left > 0 /\ took = 0 /\ ~C!Job.after)
  <2>1. C!Followed(u, took, refused) = <<>>
    BY <1>0, <1>7 DEF C!Followed
  <2> QED  BY <1>1, <2>1
<1> QED  BY <1>0, <1>3, <1>4, <1>5, <1>6, <1>7

\* What the stack's invariant says of a chunk.
LEMMA ChunkStack ==
  ASSUME C!RecoverTyped, C!StackInv, cPc = "chunk"
  PROVE  /\ cAsked[1] \in Nat /\ cAsked[2] \in Nat /\ cPos \in Nat /\ cAsked[2] <= cPos
         /\ \A e \in cRun.ends : e > cPos - cAsked[2] => e >= cPos
         /\ \A a \in 1..Len(cStack) : Len(cStack[a].set) \in Nat
         /\ \A a \in 1..Len(cStack) : \A j \in 1..Len(cStack[a].set) :
              /\ cStack[a].set[j] \in (cPos - cAsked[2] + 1)..cPos
              /\ cStack[a].set[j] \in C!Items /\ cState[cStack[a].set[j]] = "open"
         /\ \A a \in 1..Len(cStack) : Len(cStack[a].set) > 1 \/ cStack[a].one =>
              \A j \in 1..Len(cStack[a].set) :
                \/ cLatest[cStack[a].set[j]] = 0
                \/ Len(cStack[a].set) < cLatest[cStack[a].set[j]]
         /\ \A a, b \in 1..Len(cStack) :
              \A j \in 1..Len(cStack[a].set), k \in 1..Len(cStack[b].set) :
                cStack[a].set[j] = cStack[b].set[k] => a = b /\ j = k
<1>0. /\ cRun \in RecoverRuns /\ cAsked \in Nat \X Nat /\ cPos \in 0..C!Eligible
      /\ cStack \in Seq(C!Jobs)
  BY DEF C!RecoverTyped
<1>1. C!Eligible \in Nat /\ cRun.oversized \in Nat /\ C!Items = 1..(C!Eligible + cRun.oversized)
  BY <1>0, RunFacts
<1>2. /\ cAsked[2] <= cPos /\ \A e \in cRun.ends : e > cPos - cAsked[2] => e >= cPos
      /\ \A a \in 1..Len(cStack) : C!Fresh(a) /\ C!Unsent(a)
      /\ \A a, b \in 1..Len(cStack) : C!Apart(a, b)
  BY DEF C!StackInv
<1>3. cAsked[1] \in Nat /\ cAsked[2] \in Nat /\ cPos \in Nat
  BY <1>0, <1>1
<1>4. ASSUME NEW a \in 1..Len(cStack) PROVE Len(cStack[a].set) \in Nat
  <2>1. cStack[a] \in C!Jobs
    BY <1>0, ElementOfSeq
  <2>2. cStack[a].set \in Seq(Nat)
    BY <2>1 DEF C!Jobs
  <2> QED  BY <2>2, LenProperties
<1>5. ASSUME NEW a \in 1..Len(cStack), NEW j \in 1..Len(cStack[a].set)
      PROVE  /\ cStack[a].set[j] \in (cPos - cAsked[2] + 1)..cPos
             /\ cStack[a].set[j] \in C!Items /\ cState[cStack[a].set[j]] = "open"
  <2>1. PICK i : i = cStack[a].set[j]
    OBVIOUS
  <2>2. i \in (cPos - cAsked[2] + 1)..cPos /\ cState[i] = "open"
    BY <1>2, <2>1 DEF C!Fresh, C!Of
  <2>3. i \in C!Items
    BY <1>0, <1>1, <1>2, <1>3, <2>2
  <2> QED  BY <2>1, <2>2, <2>3
<1>6. ASSUME NEW a \in 1..Len(cStack), Len(cStack[a].set) > 1 \/ cStack[a].one
      PROVE  \A j \in 1..Len(cStack[a].set) :
               \/ cLatest[cStack[a].set[j]] = 0
               \/ Len(cStack[a].set) < cLatest[cStack[a].set[j]]
  <2>1. C!Unsent(a)
    BY <1>2
  <2> QED  BY <1>6, <2>1 DEF C!Unsent, C!Of
<1>7. ASSUME NEW a \in 1..Len(cStack), NEW b \in 1..Len(cStack)
      PROVE  \A j \in 1..Len(cStack[a].set), k \in 1..Len(cStack[b].set) :
               cStack[a].set[j] = cStack[b].set[k] => a = b /\ j = k
  BY <1>2 DEF C!Apart, C!Of
<1> QED  BY <1>2, <1>3, <1>4, <1>5, <1>6, <1>7

\* A job gives way to parts of it, and no other job is touched.
Shrunk(F, offs, took) ==
  /\ cPc = "chunk" /\ cStack # <<>> /\ took \in 0..Len(C!Job.set)
  /\ F \in Seq(C!Jobs) /\ Parts(F, offs, took)
  /\ cPc' = "chunk" /\ cPos' = cPos /\ cRun' = cRun /\ cAsked'[2] = cAsked[2]
  /\ cStack' = F \o Tail(cStack)
  /\ \A i \in C!Items : (\A j \in 1..took : C!Job.set[j] # i) => cState'[i] = cState[i]
  /\ \A i \in C!Items : (\A j \in 1..Len(C!Job.set) : C!Job.set[j] # i) =>
                          cLatest'[i] = cLatest[i]
  /\ F # <<>> => \A j \in 1..Len(C!Job.set) : cLatest'[C!Job.set[j]] = Len(C!Job.set)

\* A stretch that ends before another begins shares nothing with it.
LEMMA NoOverlap ==
  ASSUME NEW o \in Nat, NEW l \in Nat, NEW r \in Nat, NEW p \in Nat, NEW q \in Nat,
         p <= l, q >= 1, o + l <= r
  PROVE  o + p # r + q
OBVIOUS

\* The stack stays right.
LEMMA StackShrinks ==
  ASSUME C!RecoverTyped, C!StackInv, NEW F, NEW offs, NEW took, Shrunk(F, offs, took)
  PROVE  C!StackInv'
<1>0. /\ cPc = "chunk" /\ cStack # <<>> /\ F \in Seq(C!Jobs)
      /\ cStack \in Seq(C!Jobs) /\ Len(cStack) \in Nat \ {0} /\ Len(F) \in Nat
      /\ C!Job = cStack[1] /\ Len(C!Job.set) \in Nat /\ took \in 0..Len(C!Job.set)
  BY JobFacts, LenProperties DEF C!RecoverTyped, Shrunk
<1>0n. Len(cStack) \in Nat \ {0} /\ Len(F) \in Nat /\ 1 \in 1..Len(cStack)
  BY <1>0
<1>p. Parts(F, offs, took)
  BY DEF Shrunk
<1>f. \A a \in 1..Len(cStack) : \A j \in 1..Len(cStack[a].set) :
        /\ cStack[a].set[j] \in (cPos - cAsked[2] + 1)..cPos
        /\ cStack[a].set[j] \in C!Items /\ cState[cStack[a].set[j]] = "open"
  BY <1>0, ChunkStack
<1>a. \A a, b \in 1..Len(cStack) :
        \A j \in 1..Len(cStack[a].set), k \in 1..Len(cStack[b].set) :
          cStack[a].set[j] = cStack[b].set[k] => a = b /\ j = k
  BY <1>0, ChunkStack
<1>u. \A a \in 1..Len(cStack) : Len(cStack[a].set) > 1 \/ cStack[a].one =>
        \A j \in 1..Len(cStack[a].set) :
          cLatest[cStack[a].set[j]] = 0 \/ Len(cStack[a].set) < cLatest[cStack[a].set[j]]
  BY <1>0, ChunkStack
<1>1. PICK T : T = cStack'
  OBVIOUS
<1>2. /\ Len(T) = Len(F) + (Len(cStack) - 1)
      /\ \A a \in 1..Len(T) : T[a] = IF a <= Len(F) THEN F[a] ELSE Tail(cStack)[a - Len(F)]
  <2>1. Tail(cStack) \in Seq(C!Jobs) /\ Len(Tail(cStack)) = Len(cStack) - 1
    BY <1>0, JobFacts
  <2> QED  BY <1>0, <1>1, <2>1, ConcatProperties DEF Shrunk
<1>3. ASSUME NEW a \in 1..Len(T), ~(a <= Len(F))
      PROVE  a - Len(F) + 1 \in 2..Len(cStack) /\ T[a] = cStack[a - Len(F) + 1]
  <2>1. a - Len(F) \in 1..(Len(cStack) - 1)
    BY <1>0n, <1>2, <1>3
  <2>2. Tail(cStack)[a - Len(F)] = cStack[a - Len(F) + 1]
    BY <1>0, <2>1, JobFacts
  <2> QED  BY <1>0n, <1>2, <1>3, <2>1, <2>2
<1> DEFINE old(a) == IF a <= Len(F) THEN 1 ELSE a - Len(F) + 1
           off(a) == IF a <= Len(F) THEN offs[a] ELSE 0
\* Where the items of a job were before.
<1>4. ASSUME NEW a \in 1..Len(T)
      PROVE  /\ old(a) \in 1..Len(cStack) /\ off(a) \in Nat /\ Len(T[a].set) \in Nat
             /\ \A j \in 1..Len(T[a].set) :
                  /\ off(a) + j \in 1..Len(cStack[old(a)].set)
                  /\ T[a].set[j] = cStack[old(a)].set[off(a) + j]
  <2>1. CASE a <= Len(F)
    <3>1. a \in 1..Len(F) /\ T[a] = F[a] /\ old(a) = 1 /\ off(a) = offs[a]
      BY <1>0n, <1>2, <2>1
    <3>2. /\ offs[a] \in Nat /\ offs[a] + Len(F[a].set) <= Len(C!Job.set)
          /\ \A j \in 1..Len(F[a].set) : F[a].set[j] = C!Job.set[offs[a] + j]
      BY <1>p, <3>1 DEF Parts
    <3>3. Len(F[a].set) \in Nat
      <4>1. F[a] \in C!Jobs
        BY <1>0, <3>1, ElementOfSeq
      <4>2. F[a].set \in Seq(Nat)
        BY <4>1 DEF C!Jobs
      <4> QED  BY <4>2, LenProperties
    <3>4. \A j \in 1..Len(F[a].set) : offs[a] + j \in 1..Len(C!Job.set)
      <4>1. PICK o \in Nat, l \in Nat, m \in Nat :
              o = offs[a] /\ l = Len(F[a].set) /\ m = Len(C!Job.set) /\ o + l <= m
        BY <1>0, <3>2, <3>3
      <4>2. \A j \in 1..l : o + j \in 1..m
        BY <4>1
      <4> QED  BY <4>1, <4>2
    <3>5. cStack[old(a)] = C!Job /\ old(a) \in 1..Len(cStack)
      BY <1>0, <1>0n, <3>1
    <3> HIDE DEF old, off
    <3> QED  BY <3>1, <3>2, <3>3, <3>4, <3>5
  <2>2. CASE ~(a <= Len(F))
    <3>1. /\ old(a) = a - Len(F) + 1 /\ off(a) = 0 /\ T[a] = cStack[old(a)]
          /\ old(a) \in 1..Len(cStack)
      BY <1>0n, <1>3, <2>2
    <3> HIDE DEF old, off
    <3>2. Len(cStack[old(a)].set) \in Nat
      BY <1>0, <3>1, ChunkStack
    <3> QED  BY <3>1, <3>2
  <2> QED  BY <2>1, <2>2
<1>5. ASSUME NEW a \in 1..Len(T), NEW b \in 1..Len(T), NEW j \in 1..Len(T[a].set),
             NEW k \in 1..Len(T[b].set), T[a].set[j] = T[b].set[k]
      PROVE  a = b /\ j = k
  <2>1. old(a) = old(b) /\ off(a) + j = off(b) + k
    <3> HIDE DEF old, off
    <3>1. /\ old(a) \in 1..Len(cStack) /\ off(a) + j \in 1..Len(cStack[old(a)].set)
          /\ T[a].set[j] = cStack[old(a)].set[off(a) + j]
      BY <1>4
    <3>2. /\ old(b) \in 1..Len(cStack) /\ off(b) + k \in 1..Len(cStack[old(b)].set)
          /\ T[b].set[k] = cStack[old(b)].set[off(b) + k]
      BY <1>4
    <3>3. PICK x, y, p, q : x = old(a) /\ y = old(b) /\ p = off(a) + j /\ q = off(b) + k
      OBVIOUS
    <3>4. /\ x \in 1..Len(cStack) /\ p \in 1..Len(cStack[x].set)
          /\ y \in 1..Len(cStack) /\ q \in 1..Len(cStack[y].set)
          /\ cStack[x].set[p] = cStack[y].set[q]
      BY <1>5, <3>1, <3>2, <3>3
    <3>5. \A g \in 1..Len(cStack[x].set), h \in 1..Len(cStack[y].set) :
            cStack[x].set[g] = cStack[y].set[h] => x = y /\ g = h
      <4>1. x \in 1..Len(cStack) /\ y \in 1..Len(cStack)
        BY <3>4
      <4> QED  BY <1>a, <4>1
    <3>6. x = y /\ p = q
      BY <3>4, <3>5
    <3> QED  BY <3>3, <3>6
  <2>2. (a <= Len(F)) <=> (b <= Len(F))
    <3>1. ~(a <= Len(F)) => old(a) > 1
      BY <1>0n, <1>3
    <3>2. ~(b <= Len(F)) => old(b) > 1
      BY <1>0n, <1>3
    <3> QED  BY <2>1, <3>1, <3>2
  <2>3. ASSUME NEW x \in 1..Len(F), NEW y \in 1..Len(F), NEW p \in 1..Len(F[x].set),
               NEW q \in 1..Len(F[y].set), x < y, offs[x] + p = offs[y] + q
        PROVE  FALSE
    <3>1. offs[x] \in Nat /\ offs[y] \in Nat /\ offs[x] + Len(F[x].set) <= offs[y]
      BY <1>p, <2>3 DEF Parts
    <3>2. x \in 1..Len(T) /\ y \in 1..Len(T) /\ T[x] = F[x] /\ T[y] = F[y]
      BY <1>0n, <1>2
    <3>3. Len(F[x].set) \in Nat /\ Len(F[y].set) \in Nat
      BY <1>4, <3>2
    <3>4. PICK o \in Nat, r \in Nat, l \in Nat, m \in Nat :
            o = offs[x] /\ r = offs[y] /\ l = Len(F[x].set) /\ m = Len(F[y].set)
      BY <3>1, <3>3
    <3>5. p \in 1..l /\ q \in 1..m /\ o + l <= r /\ o + p = r + q
      BY <2>3, <3>1, <3>4
    <3>6. p \in Nat /\ p <= l /\ q \in Nat /\ q >= 1
      BY <3>5
    <3> QED  BY <3>4, <3>5, <3>6, NoOverlap
  <2>4. CASE a <= Len(F)
    <3>1. /\ a \in 1..Len(F) /\ b \in 1..Len(F) /\ T[a] = F[a] /\ T[b] = F[b]
          /\ off(a) = offs[a] /\ off(b) = offs[b]
      BY <1>0n, <1>2, <2>2, <2>4
    <3>2. ~(a < b) /\ ~(b < a)
      BY <2>1, <2>3, <3>1
    <3>3. a = b
      BY <3>1, <3>2
    <3> QED  BY <1>4, <2>1, <3>3
  <2>5. CASE ~(a <= Len(F))
    <3>1. a = b
      BY <1>0, <2>1, <2>2, <2>5
    <3> QED  BY <1>4, <2>1, <3>1
  <2> QED  BY <2>4, <2>5
<1>6. ASSUME NEW a \in 1..Len(T), NEW j \in 1..Len(T[a].set)
      PROVE  /\ T[a].set[j] \in (cPos - cAsked[2] + 1)..cPos /\ T[a].set[j] \in C!Items
             /\ cState'[T[a].set[j]] = "open"
  <2>1. /\ old(a) \in 1..Len(cStack) /\ off(a) + j \in 1..Len(cStack[old(a)].set)
        /\ T[a].set[j] = cStack[old(a)].set[off(a) + j]
    <3> HIDE DEF old, off
    <3> QED  BY <1>4, <1>6
  <2>2. PICK i : i = T[a].set[j]
    OBVIOUS
  <2>3. /\ i \in (cPos - cAsked[2] + 1)..cPos /\ i \in C!Items /\ cState[i] = "open"
    <3> HIDE DEF old, off
    <3> QED  BY <1>f, <2>1, <2>2
  <2>4. ASSUME NEW k \in 1..took PROVE C!Job.set[k] # i
    <3>1. k \in 1..Len(C!Job.set)
      BY <1>0
    <3>2. CASE a <= Len(F)
      <4>1. a \in 1..Len(F) /\ old(a) = 1 /\ off(a) = offs[a]
        BY <1>0, <3>2
      <4>2. offs[a] \in Nat /\ took <= offs[a]
        BY <1>p, <4>1 DEF Parts
      <4>3. k # off(a) + j
        <5>1. off(a) \in Nat /\ took \in Nat /\ took <= off(a) /\ k \in 1..took
          BY <1>0, <4>1, <4>2
        <5>2. j \in Nat /\ j >= 1
          BY <1>4, <1>6
        <5> HIDE DEF off
        <5> QED  BY <5>1, <5>2
      <4> HIDE DEF old, off
      <4> QED  BY <1>0, <1>0n, <1>a, <2>1, <2>2, <3>1, <4>1, <4>3
    <3>3. CASE ~(a <= Len(F))
      <4>1. old(a) # 1 /\ 1 \in 1..Len(cStack)
        BY <1>0n, <1>3, <3>3
      <4> HIDE DEF old, off
      <4> QED  BY <1>0, <1>a, <2>1, <2>2, <3>1, <4>1
    <3> QED  BY <3>2, <3>3
  <2>5. cState'[i] = "open"
    BY <2>3, <2>4 DEF Shrunk
  <2> QED  BY <2>2, <2>3, <2>5
<1>7. ASSUME NEW a \in 1..Len(T), Len(T[a].set) > 1 \/ T[a].one, NEW j \in 1..Len(T[a].set)
      PROVE  cLatest'[T[a].set[j]] = 0 \/ Len(T[a].set) < cLatest'[T[a].set[j]]
  <2>1. /\ old(a) \in 1..Len(cStack) /\ off(a) + j \in 1..Len(cStack[old(a)].set)
        /\ T[a].set[j] = cStack[old(a)].set[off(a) + j]
    <3> HIDE DEF old, off
    <3> QED  BY <1>4, <1>7
  <2>2. CASE a <= Len(F)
    <3>1. a \in 1..Len(F) /\ T[a] = F[a] /\ old(a) = 1 /\ F # <<>>
      BY <1>0n, <1>2, <2>2, EmptySeq
    <3>2. Len(F[a].set) < Len(C!Job.set)
      BY <1>p, <1>7, <3>1 DEF Parts
    <3>3. cLatest'[T[a].set[j]] = Len(C!Job.set)
      <4> HIDE DEF old, off
      <4> QED  BY <1>0, <2>1, <3>1 DEF Shrunk
    <3> QED  BY <3>1, <3>2, <3>3
  <2>3. CASE ~(a <= Len(F))
    <3>1. old(a) # 1 /\ 1 \in 1..Len(cStack) /\ T[a] = cStack[old(a)] /\ off(a) = 0
      BY <1>0n, <1>3, <2>3
    <3>2. PICK i : i = T[a].set[j]
      OBVIOUS
    <3>3. i \in C!Items
      BY <1>6, <3>2
    <3> HIDE DEF old, off
    <3>4. \A k \in 1..Len(C!Job.set) : C!Job.set[k] # i
      BY <1>0, <1>a, <2>1, <3>1, <3>2
    <3>5. cLatest'[i] = cLatest[i]
      BY <3>3, <3>4 DEF Shrunk
    <3>6. cLatest[i] = 0 \/ Len(T[a].set) < cLatest[i]
      BY <1>u, <1>7, <2>1, <3>1, <3>2
    <3> QED  BY <3>2, <3>5, <3>6
  <2> QED  BY <2>2, <2>3
<1>8. /\ cAsked'[2] <= cPos' /\ \A e \in cRun'.ends : e > cPos' - cAsked'[2] => e >= cPos'
  BY <1>0, ChunkStack DEF Shrunk
<1>9. \A a \in 1..Len(cStack') : C!Fresh(a)' /\ C!Unsent(a)'
  BY <1>1, <1>6, <1>7 DEF C!Fresh, C!Unsent, C!Of, Shrunk
<1>10. \A a, b \in 1..Len(cStack') : C!Apart(a, b)'
  BY <1>1, <1>5 DEF C!Apart, C!Of
<1> QED  BY <1>8, <1>9, <1>10 DEF C!StackInv, Shrunk

\* Cardinality is the instance's.
LEMMA RecoverCounts == \A Q : C!Cardinality(Q) = Cardinality(Q)
BY DEF C!Cardinality, Cardinality

\* The counts of items, and how they change by one.
LEMMA ItemCounts ==
  ASSUME cRun \in RecoverRuns, NEW Q \in SUBSET C!Items
  PROVE  /\ IsFiniteSet(Q) /\ C!Cardinality(Q) \in Nat
         /\ C!Cardinality(Q) <= C!Cardinality(C!Items)
         /\ \A i \in C!Items : i \notin Q => C!Cardinality(Q \cup {i}) = C!Cardinality(Q) + 1
         /\ \A i \in Q : C!Cardinality(Q \ {i}) = C!Cardinality(Q) - 1
         /\ \A T \in SUBSET Q : C!Cardinality(T) <= C!Cardinality(Q)
<1>1. IsFiniteSet(C!Items)
  BY RunFacts
<1>2. /\ IsFiniteSet(Q) /\ Cardinality(Q) \in Nat /\ Cardinality(Q) <= Cardinality(C!Items)
  BY <1>1, FS_Subset, FS_CardinalityType
<1>3. \A i \in C!Items : i \notin Q => Cardinality(Q \cup {i}) = Cardinality(Q) + 1
  BY <1>2, FS_AddElement
<1>4. \A i \in Q : Cardinality(Q \ {i}) = Cardinality(Q) - 1
  BY <1>2, FS_RemoveElement
<1>5. \A T \in SUBSET Q : Cardinality(T) <= Cardinality(Q)
  BY <1>2, FS_Subset
<1> QED  BY <1>2, <1>3, <1>4, <1>5, RecoverCounts

\* What may be sent grows with the items passed, by the requests of a chunk.
LEMMA AllowedGrows ==
  ASSUME cRun \in RecoverRuns, NEW p \in Nat, NEW c \in Nat
  PROVE  /\ C!Allowed(p) \in Nat /\ C!Allowed(p + c) \in Nat
         /\ C!Allowed(p) + c <= C!Allowed(p + c)
         /\ c >= 2 => C!Allowed(p) + 2 * cRun.maxIsolate + c <= C!Allowed(p + c)
<1>1. PICK k \in 1..3 : k = cRun.maxIsolate
  BY RunFacts
<1>2. PICK h \in Nat, g \in Nat : h = p \div 2 /\ g = (p + c) \div 2
  OBVIOUS
<1>3. h <= g /\ (c >= 2 => h + 1 <= g)
  BY <1>2
<1>4. C!Allowed(p) = p + 2 * k * h /\ C!Allowed(p + c) = p + c + 2 * k * g
  BY <1>1, <1>2 DEF C!Allowed
<1>5. CASE k = 1
  BY <1>1, <1>2, <1>3, <1>4, <1>5
<1>6. CASE k = 2
  BY <1>1, <1>2, <1>3, <1>4, <1>6
<1>7. CASE k = 3
  BY <1>1, <1>2, <1>3, <1>4, <1>7
<1> QED  BY <1>1, <1>5, <1>6, <1>7

\* Before the last rung no request of an item alone is out.
LEMMA EarlyRungs ==
  ASSUME C!RecoverInv, cPc \in {"top", "chunk"}
  PROVE  /\ C!Gone = {} /\ C!Flying = {} /\ C!Checked = {} /\ C!Cardinality({}) = 0
         /\ ~cHalted /\ cLate = 0
         /\ \A i \in C!Items : /\ cRung[i] = "out" /\ cState[i] \in {"open", "resolved"}
                               /\ i > cPos => cState[i] = "open" /\ cLatest[i] = 0
<1>1. ASSUME NEW i \in C!Items
      PROVE  /\ cRung[i] = "out" /\ cState[i] \in {"open", "resolved"}
             /\ i > cPos => cState[i] = "open" /\ cLatest[i] = 0
  <2>1. C!ItemRight(i)
    BY DEF C!RecoverInv, C!HaltInv
  <2> QED  BY <2>1 DEF C!ItemRight
<1>2. ~cHalted /\ cLate = 0
  BY DEF C!RecoverInv, C!HaltInv
<1>3. C!Gone = {} /\ C!Flying = {} /\ C!Checked = {}
  BY <1>1 DEF C!Gone, C!Flying, C!Checked
<1>4. C!Cardinality({}) = 0
  BY RecoverCounts, FS_EmptySet
<1> QED  BY <1>1, <1>2, <1>3, <1>4

\* The invariant of a state before the last rung.
LEMMA EarlyInv ==
  ASSUME C!RecoverTyped', C!StackInv', cPc' \in {"top", "chunk"}, cHalted' = FALSE,
         cLate' = 0, cRun' \in RecoverRuns, cRun' = cRun,
         cAsked'[1] + (IF cPc' = "chunk" THEN cBudget' ELSE 0) <=
           2 * cRun.maxIsolate + cAsked'[2],
         cRequests' + (IF cPc' = "chunk" THEN cBudget' ELSE 0) <= C!Allowed(cPos'),
         \A i \in C!Items : /\ cRung'[i] = "out" /\ cState'[i] \in {"open", "resolved"}
                            /\ i > cPos' => cState'[i] = "open" /\ cLatest'[i] = 0
  PROVE  C!RecoverInv'
<1>1. C!Items' = C!Items
  BY DEF C!Items, C!Eligible
<1>2. \A i \in C!Items : C!ItemRight(i)'
  BY DEF C!ItemRight
<1>3. C!Gone' = {} /\ C!Flying' = {} /\ C!Checked' = {}
  BY <1>1 DEF C!Gone, C!Flying, C!Checked
<1>4. C!Cardinality({}) = 0
  BY RecoverCounts, FS_EmptySet
<1>5. C!Allowed(cPos)' = C!Allowed(cPos')
  BY DEF C!Allowed
<1>6. cRun.workers \in Nat \ {0} /\ cPos' \in Nat
  BY <1>1, RunFacts DEF C!RecoverTyped, C!Eligible
<1>7. C!HaltInv'
  BY <1>1, <1>2, <1>3, <1>4, <1>6 DEF C!HaltInv
<1>8. C!CountInv'
  <2>1. C!Allowed(cPos') \in Nat
    BY <1>6, AllowedGrows
  <2> QED  BY <1>3, <1>4, <1>5, <2>1 DEF C!CountInv, C!Left
<1> QED  BY <1>7, <1>8 DEF C!RecoverInv

\* At first.
LEMMA RecoverInit == C!Init => C!RecoverInv
<1> SUFFICES ASSUME C!Init PROVE C!RecoverInv
  OBVIOUS
<1>1. /\ cRun \in RecoverRuns /\ cPc = "top" /\ cPos = 0 /\ cSize = C!StartSize(cRun)
      /\ cComplianceRun = 0 /\ cStack = <<>> /\ cBudget = 0
      /\ cState = [i \in C!Items |-> "open"] /\ cRung = [i \in C!Items |-> "out"]
      /\ cHalted = FALSE /\ cLatest = [i \in C!Items |-> 0] /\ cRequests = 0
      /\ cAsked = <<0, 0>> /\ cLate = 0
  BY DEF C!Init
<1>2. cSize \in 1..C!Max({1, cRun.ceiling})
  <2>1. cRun.start \in Nat /\ cRun.ceiling \in Nat
        /\ C!Max({1, cRun.ceiling}) = IF cRun.ceiling <= 1 THEN 1 ELSE cRun.ceiling
    BY <1>1, RunFacts
  <2>1i. cRun.start \in Int /\ cRun.ceiling \in Int
    BY <2>1
  <2>1m. C!Min({cRun.start, cRun.ceiling}) =
           IF cRun.start <= cRun.ceiling THEN cRun.start ELSE cRun.ceiling
    BY <2>1i, PairExtremes, Zenon
  <2>2. PICK m \in Nat : m = C!Min({cRun.start, cRun.ceiling}) /\ m <= cRun.ceiling
    BY <2>1, <2>1m
  <2>3. C!Max({1, m}) = IF 1 >= m THEN 1 ELSE m
    <3>1. 1 \in Int /\ m \in Int
      OBVIOUS
    <3> QED  BY <3>1, PairExtremes, Zenon
  <2>4. cSize = C!Max({1, m})
    BY <1>1, <2>2 DEF C!StartSize
  <2> QED  BY <2>1, <2>2, <2>3, <2>4
<1>3. cRun.maxIsolate \in 1..3 /\ cRun.workers \in Nat \ {0} /\ C!Eligible \in Nat
  BY <1>1, RunFacts
<1>4. <<>> \in Seq(C!Jobs)
  BY EmptySeq
<1>5. C!RecoverTyped
  <2>1. cState \in [C!Items -> {"open", "resolved", "failed", "stopped"}]
        /\ cRung \in [C!Items -> {"out", "waiting", "checked", "sent", "back"}]
        /\ cLatest \in [C!Items -> Nat]
    BY <1>1
  <2>2. cAsked \in Nat \X Nat /\ cPos \in 0..C!Eligible
    BY <1>1, <1>3
  <2>3. cStack \in Seq(C!Jobs) /\ cBudget \in Nat /\ cRequests \in Nat /\ cLate \in Nat
        /\ cComplianceRun \in Nat /\ cHalted \in BOOLEAN
        /\ cPc \in {"top", "chunk", "alone", "done"}
    BY <1>1, <1>4
  <2> QED  BY <1>1, <1>2, <2>1, <2>2, <2>3 DEF C!RecoverTyped
<1>6. \A i \in C!Items : C!ItemRight(i)
  BY <1>1 DEF C!ItemRight
<1>7. C!Gone = {} /\ C!Flying = {} /\ C!Checked = {}
  BY <1>1 DEF C!Gone, C!Flying, C!Checked
<1>8. C!Cardinality({}) = 0
  BY RecoverCounts, FS_EmptySet
<1>9. C!HaltInv
  BY <1>1, <1>3, <1>6, <1>7, <1>8 DEF C!HaltInv
<1>10. C!CountInv
  <2>1. C!Allowed(0) \in Nat
    BY <1>1, AllowedGrows
  <2> QED  BY <1>1, <1>3, <1>7, <1>8, <2>1 DEF C!CountInv, C!Left
<1>11. C!StackInv
  BY <1>1 DEF C!StackInv
<1> QED  BY <1>5, <1>9, <1>10, <1>11 DEF C!RecoverInv

\* The next chunk is begun.
LEMMA RecoverNextChunk ==
  ASSUME C!RecoverInv, C!NextChunk
  PROVE  C!RecoverInv'
<1>0. /\ cRun \in RecoverRuns /\ cPos \in 0..C!Eligible /\ cPos < C!Eligible /\ cPos \in Nat
      /\ cSize \in Nat \ {0} /\ C!Eligible \in Nat /\ cRun.maxIsolate \in 1..3
      /\ cPc = "top" /\ cPos' = cPos + C!ChunkSize
      /\ UNCHANGED <<cRun, cSize, cComplianceRun, cState, cRung, cHalted, cLatest, cRequests,
                     cLate>>
  <2>1. cRun \in RecoverRuns /\ cPos \in 0..C!Eligible /\ cSize \in 1..C!Max({1, cRun.ceiling})
    BY DEF C!RecoverInv, C!RecoverTyped
  <2>2. /\ cPos < C!Eligible /\ cPc = "top" /\ cPos' = cPos + C!ChunkSize
        /\ UNCHANGED <<cRun, cSize, cComplianceRun, cState, cRung, cHalted, cLatest, cRequests,
                       cLate>>
    BY DEF C!NextChunk, C!haltVars
  <2> QED  BY <2>1, <2>2, RunFacts
<1>1. PICK c \in Nat : c = C!ChunkSize /\ c \in 1..(C!Eligible - cPos)
  BY <1>0, ChunkFacts
<1>2. \A e \in cRun.ends : e > cPos => e >= cPos + c
  BY <1>0, <1>1, ChunkFacts
<1>3. /\ cStack = <<>> /\ cAsked \in Nat \X Nat /\ cRequests \in Nat
      /\ cAsked[1] <= 2 * cRun.maxIsolate + cAsked[2] /\ cRequests <= C!Allowed(cPos)
  <2>1. cAsked \in Nat \X Nat /\ cRequests \in Nat
    BY DEF C!RecoverInv, C!RecoverTyped
  <2>2. C!Allowed(cPos) \in Nat
    BY <1>0, AllowedGrows
  <2>3. cStack = <<>>
    BY <1>0 DEF C!RecoverInv, C!StackInv
  <2>4. C!Cardinality(C!Gone) = 0
    BY <1>0, EarlyRungs
  <2>5. C!Left = 0
    BY <1>0 DEF C!Left
  <2> QED  BY <1>0, <2>1, <2>2, <2>3, <2>4, <2>5 DEF C!RecoverInv, C!CountInv
<1>4. cPos' \in 0..C!Eligible /\ cPos' = cPos + c /\ C!Eligible' = C!Eligible /\ C!Items' = C!Items
  BY <1>0, <1>1 DEF C!Eligible, C!Items
<1>5. \A i \in C!Items : /\ cRung'[i] = "out" /\ cState'[i] \in {"open", "resolved"}
                         /\ i > cPos' => cState'[i] = "open" /\ cLatest'[i] = 0
  <2>1. \A i \in C!Items : i \in Nat
    BY <1>0, RunFacts
  <2>2. \A i \in C!Items : i > cPos' => i > cPos
    BY <1>0, <1>1, <1>4, <2>1
  <2> QED  BY <1>0, <2>2, EarlyRungs
<1>6. /\ C!Allowed(cPos) \in Nat /\ C!Allowed(cPos') \in Nat
      /\ C!Allowed(cPos) <= C!Allowed(cPos')
      /\ c >= 2 => C!Allowed(cPos) + 2 * cRun.maxIsolate + c <= C!Allowed(cPos')
  <2>1. /\ C!Allowed(cPos) \in Nat /\ C!Allowed(cPos + c) \in Nat
        /\ C!Allowed(cPos) + c <= C!Allowed(cPos + c)
        /\ c >= 2 => C!Allowed(cPos) + 2 * cRun.maxIsolate + c <= C!Allowed(cPos + c)
    BY <1>0, AllowedGrows
  <2>2. cPos' = cPos + c
    BY <1>4
  <2>3. PICK x \in Nat, y \in Nat : x = C!Allowed(cPos) /\ y = C!Allowed(cPos + c) /\ x + c <= y
    BY <2>1
  <2>4. x <= y
    BY <2>3
  <2> QED  BY <2>1, <2>2, <2>3, <2>4
<1>7. cHalted' = FALSE /\ cLate' = 0
  <2>1. cHalted \in BOOLEAN
    BY DEF C!RecoverInv, C!RecoverTyped
  <2> QED  BY <1>0, <2>1, EarlyRungs
<1>8. CASE c = 1
  <2>1. UNCHANGED <<cPc, cStack, cBudget, cAsked>>
    BY <1>1, <1>8 DEF C!NextChunk, C!chunkVars
  <2>2. C!RecoverTyped'
    BY <1>0, <1>4, <2>1 DEF C!RecoverInv, C!RecoverTyped
  <2>3. C!StackInv'
    BY <1>0, <1>3, <2>1 DEF C!StackInv
  <2>4. /\ cAsked'[1] + (IF cPc' = "chunk" THEN cBudget' ELSE 0) <=
             2 * cRun.maxIsolate + cAsked'[2]
        /\ cRequests' + (IF cPc' = "chunk" THEN cBudget' ELSE 0) <= C!Allowed(cPos')
    BY <1>0, <1>3, <1>6, <2>1
  <2> QED  BY <1>0, <1>5, <1>7, <2>1, <2>2, <2>3, <2>4, EarlyInv
<1>9. CASE c # 1
  <2>1. PICK job : job = [set |-> [j \in 1..c |-> cPos + j], left |-> cRun.maxIsolate,
                          after |-> FALSE, one |-> FALSE]
    OBVIOUS
  <2>2. /\ cPc' = "chunk" /\ cAsked' = <<0, c>> /\ cBudget' = 2 * cRun.maxIsolate + c
        /\ cStack' = <<job>>
    BY <1>1, <1>9, <2>1 DEF C!NextChunk
  <2>3. job.set \in Seq(Nat) /\ Len(job.set) = c /\ \A j \in 1..c : job.set[j] = cPos + j
    <3>1. PICK f : f = [j \in 1..c |-> cPos + j]
      OBVIOUS
    <3>2. f \in Seq(Nat) /\ Len(f) = c /\ \A j \in 1..c : f[j] = cPos + j
      BY <1>0, <3>1, IsASeq
    <3> QED  BY <2>1, <3>1, <3>2
  <2>4. job \in C!Jobs /\ ~job.one
    BY <1>0, <2>1, <2>3 DEF C!Jobs
  <2>5. cStack' \in Seq(C!Jobs) /\ Len(cStack') = 1 /\ cStack'[1] = job
    BY <2>2, <2>4
  <2>6. C!RecoverTyped'
    <3>1. cAsked' \in Nat \X Nat /\ cBudget' \in Nat
      BY <1>0, <1>1, <2>2
    <3> QED  BY <1>0, <1>4, <2>2, <2>5, <3>1 DEF C!RecoverInv, C!RecoverTyped
  <2>7. C!StackInv'
    <3>1. cPos' - cAsked'[2] = cPos /\ cAsked'[2] <= cPos' /\ cAsked'[2] = c
      BY <1>0, <1>1, <1>4, <2>2
    <3>2. \A e \in cRun'.ends : e > cPos' - cAsked'[2] => e >= cPos'
      BY <1>0, <1>2, <1>4, <3>1
    <3>3. ASSUME NEW j \in 1..c
          PROVE  /\ job.set[j] \in (cPos' - cAsked'[2] + 1)..cPos'
                 /\ cState'[job.set[j]] = "open" /\ cLatest'[job.set[j]] = 0
      <4>1. PICK i \in Nat : i = cPos + j /\ i > cPos /\ i <= cPos + c
        BY <1>0
      <4>2. i \in C!Items
        BY <1>0, <1>1, <4>1, RunFacts
      <4>3. cState[i] = "open" /\ cLatest[i] = 0
        BY <1>0, <4>1, <4>2, EarlyRungs
      <4>4. i \in (cPos + 1)..cPos'
        BY <1>0, <1>4, <4>1
      <4> QED  BY <1>0, <2>3, <3>1, <4>1, <4>3, <4>4
    <3>4. \A a \in 1..Len(cStack') : C!Fresh(a)' /\ C!Unsent(a)'
      BY <2>3, <2>5, <3>3 DEF C!Fresh, C!Unsent, C!Of
    <3>5. \A j, k \in 1..c : job.set[j] = job.set[k] => j = k
      BY <1>0, <2>3
    <3>6. \A a, b \in 1..Len(cStack') : C!Apart(a, b)'
      BY <2>3, <2>5, <3>5 DEF C!Apart, C!Of
    <3> QED  BY <2>2, <3>1, <3>2, <3>4, <3>6 DEF C!StackInv
  <2>8. /\ cAsked'[1] + (IF cPc' = "chunk" THEN cBudget' ELSE 0) <=
             2 * cRun.maxIsolate + cAsked'[2]
        /\ cRequests' + (IF cPc' = "chunk" THEN cBudget' ELSE 0) <= C!Allowed(cPos')
    <3>1. c >= 2
      BY <1>1, <1>9
    <3>2. PICK k \in Nat : k = 2 * cRun.maxIsolate
      BY <1>0
    <3>3. PICK x \in Nat, y \in Nat, r \in Nat :
            /\ x = C!Allowed(cPos) /\ y = C!Allowed(cPos') /\ r = cRequests
            /\ x + k + c <= y /\ r <= x
      BY <1>3, <1>6, <3>1, <3>2
    <3>4. 0 + (k + c) <= k + c /\ r + (k + c) <= y
      BY <3>2, <3>3
    <3>5. cAsked'[1] = 0 /\ cAsked'[2] = c /\ cBudget' = k + c /\ cRequests' = r
      BY <1>0, <2>2, <3>2, <3>3
    <3> QED  BY <2>2, <3>2, <3>3, <3>4, <3>5
  <2> QED  BY <1>0, <1>5, <1>7, <2>2, <2>6, <2>7, <2>8, EarlyInv
<1> QED  BY <1>8, <1>9

\* A chunk whose stack is empty sizes the next one.
LEMMA RecoverChunkDone ==
  ASSUME C!RecoverInv, C!ChunkDone
  PROVE  C!RecoverInv'
<1>0. /\ cPc = "chunk" /\ cStack = <<>> /\ cPc' = "top" /\ C!Record(cOutcome)
      /\ UNCHANGED <<cRun, cPos, cStack, cBudget, cState, cRung, cHalted, cLatest, cRequests,
                     cAsked, cLate>>
  BY DEF C!ChunkDone, C!chunkVars, C!haltVars, C!countVars
<1>1. C!RecoverTyped /\ cRun \in RecoverRuns /\ cBudget \in Nat /\ cRequests \in Nat
      /\ cAsked \in Nat \X Nat /\ cPos \in 0..C!Eligible /\ C!Eligible \in Nat
      /\ cRun.maxIsolate \in 1..3
  BY RunFacts DEF C!RecoverInv, C!RecoverTyped
<1>2. C!Eligible' = C!Eligible /\ C!Items' = C!Items
  BY <1>0 DEF C!Eligible, C!Items
<1>3. C!RecoverTyped'
  <2>1. cSize' \in 1..C!Max({1, cRun.ceiling}) /\ cComplianceRun' \in Nat
    BY <1>0, <1>1, RecordSizes DEF C!RecoverTyped
  <2> QED  BY <1>0, <1>1, <1>2, <2>1 DEF C!RecoverTyped
<1>4. C!StackInv'
  BY <1>0 DEF C!StackInv
<1>5. /\ cAsked'[1] + (IF cPc' = "chunk" THEN cBudget' ELSE 0) <=
           2 * cRun.maxIsolate + cAsked'[2]
      /\ cRequests' + (IF cPc' = "chunk" THEN cBudget' ELSE 0) <= C!Allowed(cPos')
  <2>1. C!CountInv /\ C!Left = cBudget /\ C!Cardinality(C!Gone) = 0
    BY <1>0, EarlyRungs DEF C!RecoverInv, C!Left
  <2>2. PICK b \in Nat, r \in Nat, x \in Nat, p \in Nat, q \in Nat, k \in Nat :
          /\ b = cBudget /\ r = cRequests /\ x = C!Allowed(cPos) /\ p = cAsked[1]
          /\ q = cAsked[2] /\ k = 2 * cRun.maxIsolate
    <3>1. cPos \in Nat /\ cAsked[1] \in Nat /\ cAsked[2] \in Nat /\ 2 * cRun.maxIsolate \in Nat
      BY <1>1
    <3>2. C!Allowed(cPos) \in Nat
      BY <1>1, <3>1, AllowedGrows
    <3> QED  BY <1>1, <3>1, <3>2
  <2>3. p + b <= k + q /\ r + b <= x + 0
    BY <2>1, <2>2 DEF C!CountInv
  <2>4. p + 0 <= k + q /\ r + 0 <= x
    BY <2>2, <2>3
  <2>5. cPos' = cPos /\ cAsked' = cAsked /\ cRequests' = cRequests /\ cPc' = "top"
    BY <1>0
  <2> QED  BY <2>2, <2>4, <2>5
<1>6. \A i \in C!Items : /\ cRung'[i] = "out" /\ cState'[i] \in {"open", "resolved"}
                         /\ i > cPos' => cState'[i] = "open" /\ cLatest'[i] = 0
  BY <1>0, EarlyRungs
<1>7. cHalted' = FALSE /\ cLate' = 0
  BY <1>0, <1>1, EarlyRungs DEF C!RecoverTyped
<1> QED  BY <1>0, <1>1, <1>3, <1>4, <1>5, <1>6, <1>7, EarlyInv

\* A step of a chunk that does not end the run.
ChunkStep(F, offs, took) ==
  /\ Shrunk(F, offs, took)
  /\ UNCHANGED <<cSize, cComplianceRun, cRung, cHalted, cLate>>
  /\ cState' \in [C!Items -> {"open", "resolved", "failed", "stopped"}]
  /\ \A i \in C!Items : cState'[i] \in {cState[i], "resolved"}
  /\ cLatest' \in [C!Items -> Nat] /\ cAsked' \in Nat \X Nat
  /\ cRequests' \in Nat /\ cBudget' \in Nat
  /\ cAsked'[1] + cBudget' <= cAsked[1] + cBudget
  /\ cRequests' + cBudget' <= cRequests + cBudget

LEMMA ChunkSteps ==
  ASSUME C!RecoverInv, NEW F, NEW offs, NEW took, ChunkStep(F, offs, took)
  PROVE  C!RecoverInv'
<1>0. /\ Shrunk(F, offs, took) /\ cPc = "chunk" /\ cPc' = "chunk" /\ cRun' = cRun
      /\ cPos' = cPos /\ cAsked'[2] = cAsked[2] /\ cStack # <<>>
      /\ cStack' = F \o Tail(cStack) /\ F \in Seq(C!Jobs) /\ took \in 0..Len(C!Job.set)
      /\ UNCHANGED <<cSize, cComplianceRun, cRung, cHalted, cLate>>
  BY DEF ChunkStep, Shrunk
<1>1. C!RecoverTyped /\ cRun \in RecoverRuns /\ cBudget \in Nat /\ cRequests \in Nat
      /\ cAsked \in Nat \X Nat /\ cPos \in 0..C!Eligible /\ C!Eligible \in Nat
      /\ cRun.maxIsolate \in 1..3 /\ cStack \in Seq(C!Jobs) /\ C!StackInv
  BY RunFacts DEF C!RecoverInv, C!RecoverTyped
<1>2. C!Eligible' = C!Eligible /\ C!Items' = C!Items
  BY <1>0 DEF C!Eligible, C!Items
<1>3. C!RecoverTyped'
  <2>1. cStack' \in Seq(C!Jobs)
    BY <1>0, <1>1, JobFacts, ConcatProperties
  <2>2. cState' \in [C!Items -> {"open", "resolved", "failed", "stopped"}]
        /\ cLatest' \in [C!Items -> Nat] /\ cAsked' \in Nat \X Nat
        /\ cRequests' \in Nat /\ cBudget' \in Nat
    BY DEF ChunkStep
  <2> QED  BY <1>0, <1>1, <1>2, <2>1, <2>2 DEF C!RecoverTyped
<1>4. C!StackInv'
  BY <1>0, <1>1, StackShrinks
<1>5. /\ cAsked'[1] + (IF cPc' = "chunk" THEN cBudget' ELSE 0) <=
           2 * cRun.maxIsolate + cAsked'[2]
      /\ cRequests' + (IF cPc' = "chunk" THEN cBudget' ELSE 0) <= C!Allowed(cPos')
  <2>1. C!CountInv /\ C!Left = cBudget /\ C!Cardinality(C!Gone) = 0
    BY <1>0, EarlyRungs DEF C!RecoverInv, C!Left
  <2>2. PICK b \in Nat, r \in Nat, x \in Nat, p \in Nat, q \in Nat, k \in Nat :
          /\ b = cBudget /\ r = cRequests /\ x = C!Allowed(cPos) /\ p = cAsked[1]
          /\ q = cAsked[2] /\ k = 2 * cRun.maxIsolate
    <3>1. cPos \in Nat /\ cAsked[1] \in Nat /\ cAsked[2] \in Nat /\ 2 * cRun.maxIsolate \in Nat
      BY <1>1
    <3>2. C!Allowed(cPos) \in Nat
      BY <1>1, <3>1, AllowedGrows
    <3> QED  BY <1>1, <3>1, <3>2
  <2>3. p + b <= k + q /\ r + b <= x + 0
    BY <2>1, <2>2 DEF C!CountInv
  <2>4. PICK bb \in Nat, rr \in Nat, pp \in Nat :
          /\ bb = cBudget' /\ rr = cRequests' /\ pp = cAsked'[1]
          /\ pp + bb <= p + b /\ rr + bb <= r + b
    BY <2>2 DEF ChunkStep
  <2>5. pp + bb <= k + q /\ rr + bb <= x
    <3>1. \A g, h, l, m, y, z \in Nat : g + h <= l + m /\ l + m <= y + z => g + h <= y + z
      OBVIOUS
    <3>2. pp + bb <= p + b /\ rr + bb <= r + b
      BY <2>4
    <3> QED  BY <2>3, <3>1, <3>2
  <2> QED  BY <1>0, <2>2, <2>4, <2>5
<1>6. ASSUME NEW i \in C!Items
      PROVE  /\ cRung'[i] = "out" /\ cState'[i] \in {"open", "resolved"}
             /\ i > cPos' => cState'[i] = "open" /\ cLatest'[i] = 0
  <2>1. /\ cRung[i] = "out" /\ cState[i] \in {"open", "resolved"}
        /\ i > cPos => cState[i] = "open" /\ cLatest[i] = 0
    BY <1>0, EarlyRungs
  <2>2. cState'[i] \in {cState[i], "resolved"}
    BY DEF ChunkStep
  <2>3. ASSUME i > cPos PROVE cState'[i] = cState[i] /\ cLatest'[i] = cLatest[i]
    <3>1. C!Job = cStack[1] /\ 1 \in 1..Len(cStack) /\ Len(C!Job.set) \in Nat
      BY <1>0, <1>1, JobFacts
    <3>2. ASSUME NEW j \in 1..Len(C!Job.set) PROVE C!Job.set[j] # i
      <4>1. PICK g : g = C!Job.set[j]
        OBVIOUS
      <4>2. g \in (cPos - cAsked[2] + 1)..cPos
        BY <1>0, <1>1, <3>1, <4>1, ChunkStack
      <4>3. i \in Int /\ cPos \in Int /\ cAsked[2] \in Int
        BY <1>1, RunFacts
      <4> QED  BY <2>3, <4>1, <4>2, <4>3
    <3>3. \A j \in 1..took : C!Job.set[j] # i
      <4>1. 1..took \subseteq 1..Len(C!Job.set)
        BY <1>0, <3>1
      <4> QED  BY <3>2, <4>1
    <3> QED  BY <1>0, <3>2, <3>3 DEF Shrunk
  <2> QED  BY <1>0, <2>1, <2>2, <2>3
<1>7. cHalted' = FALSE /\ cLate' = 0
  BY <1>0, <1>1, EarlyRungs DEF C!RecoverTyped
<1> QED  BY <1>0, <1>1, <1>3, <1>4, <1>5, <1>6, <1>7, EarlyInv

\* A job that is asked about has a request left, and what its request counts.
LEMMA AskingFacts ==
  ASSUME C!RecoverInv, C!Asking
  PROVE  /\ cPc = "chunk" /\ cStack # <<>> /\ cStack \in Seq(C!Jobs)
         /\ cBudget \in Nat \ {0} /\ cRun \in RecoverRuns
         /\ cAsked \in Nat \X Nat /\ cRequests \in Nat
         /\ Len(C!Job.set) > 1 \/ C!Job.one
<1>1. cPc = "chunk" /\ cStack # <<>> /\ ~C!Skipped
  BY DEF C!Asking
<1>2. /\ cStack \in Seq(C!Jobs) /\ cBudget \in Nat /\ cRun \in RecoverRuns
      /\ cAsked \in Nat \X Nat /\ cRequests \in Nat
  BY DEF C!RecoverInv, C!RecoverTyped
<1>3. cBudget # 0 /\ Len(C!Job.set) # 0 /\ ~(Len(C!Job.set) = 1 /\ ~C!Job.one)
  BY <1>1 DEF C!Skipped
<1>4. Len(C!Job.set) \in Nat
  BY <1>1, <1>2, JobFacts
<1>5. Len(C!Job.set) > 1 \/ C!Job.one
  <2>1. PICK l \in Nat : l = Len(C!Job.set)
    BY <1>4
  <2>2. CASE l = 1
    BY <1>3, <2>1, <2>2
  <2>3. CASE l # 1
    <3>1. l # 0
      BY <1>3, <2>1
    <3>2. l > 1
      BY <2>3, <3>1
    <3> QED  BY <2>1, <3>2
  <2> QED  BY <2>2, <2>3
<1> QED  BY <1>1, <1>2, <1>3, <1>5

LEMMA SentFacts ==
  ASSUME C!RecoverInv, C!Asking, C!Sent
  PROVE  /\ cBudget' = cBudget - 1 /\ cBudget' \in Nat /\ cAsked' \in Nat \X Nat
         /\ cAsked'[1] = cAsked[1] + 1 /\ cAsked'[2] = cAsked[2]
         /\ cRequests' = cRequests + 1 /\ cLate' = cLate
         /\ cLatest' \in [C!Items -> Nat]
         /\ \A i \in C!Items : (\A j \in 1..Len(C!Job.set) : C!Job.set[j] # i) =>
                                 cLatest'[i] = cLatest[i]
         /\ \A j \in 1..Len(C!Job.set) : cLatest'[C!Job.set[j]] = Len(C!Job.set)
<1>0. /\ cPc = "chunk" /\ cStack # <<>> /\ cStack \in Seq(C!Jobs)
      /\ cBudget \in Nat \ {0} /\ cAsked \in Nat \X Nat /\ Len(C!Job.set) \in Nat
      /\ C!Job = cStack[1] /\ 1 \in 1..Len(cStack)
  BY AskingFacts, JobFacts
<1>1. /\ cBudget' = cBudget - 1 /\ cAsked' = [cAsked EXCEPT ![1] = @ + 1]
      /\ cRequests' = cRequests + 1 /\ cLate' = (IF cHalted THEN cLate + 1 ELSE cLate)
      /\ cLatest' = [i \in C!Items |-> IF \E j \in 1..Len(C!Job.set) : C!Job.set[j] = i
                                       THEN Len(C!Job.set) ELSE cLatest[i]]
  BY DEF C!Sent
<1>2. cLate' = cLate
  <2>1. ~cHalted
    BY <1>0, EarlyRungs
  <2> QED  BY <1>1, <2>1
<1>3. /\ cAsked' \in Nat \X Nat /\ cAsked'[1] = cAsked[1] + 1 /\ cAsked'[2] = cAsked[2]
  BY <1>0, <1>1
<1>4. cLatest \in [C!Items -> Nat]
  BY DEF C!RecoverInv, C!RecoverTyped
<1>5. cLatest' \in [C!Items -> Nat]
  BY <1>0, <1>1, <1>4
<1>6. \A i \in C!Items : (\A j \in 1..Len(C!Job.set) : C!Job.set[j] # i) =>
                           cLatest'[i] = cLatest[i]
  BY <1>1
<1>7. ASSUME NEW j \in 1..Len(C!Job.set)
      PROVE  cLatest'[C!Job.set[j]] = Len(C!Job.set)
  <2>1. PICK i : i = C!Job.set[j]
    OBVIOUS
  <2>2. i \in C!Items
    BY <1>0, <2>1, ChunkStack DEF C!RecoverInv
  <2> QED  BY <1>1, <2>1, <2>2
<1>8. cBudget' \in Nat
  BY <1>0, <1>1
<1> QED  BY <1>1, <1>2, <1>3, <1>5, <1>6, <1>7, <1>8

\* A job that is not asked about, or could not be.
LEMMA RecoverDrops ==
  ASSUME C!RecoverInv, C!SkipJob \/ C!EncodeFails
  PROVE  C!RecoverInv'
<1>0. /\ cPc = "chunk" /\ cStack # <<>> /\ cStack' = Tail(cStack)
      /\ UNCHANGED <<cRun, cPc, cPos, cSize, cComplianceRun, cState, cRung, cHalted, cLatest,
                     cRequests, cAsked, cLate>>
  BY DEF C!SkipJob, C!EncodeFails, C!Asking, C!topVars, C!haltVars, C!countVars
<1>1. /\ cStack \in Seq(C!Jobs) /\ cBudget \in Nat /\ cRequests \in Nat /\ cAsked \in Nat \X Nat
      /\ cState \in [C!Items -> {"open", "resolved", "failed", "stopped"}]
      /\ cLatest \in [C!Items -> Nat]
  BY DEF C!RecoverInv, C!RecoverTyped
<1>2. cBudget' \in Nat /\ cBudget' <= cBudget
  <2>1. CASE C!SkipJob
    BY <1>1, <2>1 DEF C!SkipJob
  <2>2. CASE C!EncodeFails
    <3>1. cBudget \in Nat \ {0} /\ cBudget' = cBudget - 1
      BY <2>2, AskingFacts DEF C!EncodeFails
    <3> QED  BY <3>1
  <2> QED  BY <2>1, <2>2
<1>3. Parts(<<>>, <<>>, 0) /\ <<>> \in Seq(C!Jobs)
  BY EmptySeq DEF Parts
<1>4. cStack' = <<>> \o Tail(cStack)
  <2>1. Tail(cStack) \in Seq(C!Jobs)
    BY <1>0, <1>1, JobFacts
  <2> QED  BY <1>0, <2>1
<1>5. 0 \in 0..Len(C!Job.set)
  BY <1>0, <1>1, JobFacts
<1>6. Shrunk(<<>>, <<>>, 0)
  BY <1>0, <1>3, <1>4, <1>5 DEF Shrunk
<1>7. /\ cAsked'[1] + cBudget' <= cAsked[1] + cBudget
      /\ cRequests' + cBudget' <= cRequests + cBudget
  <2>1. PICK b \in Nat, c \in Nat, p \in Nat, r \in Nat :
          /\ b = cBudget /\ c = cBudget' /\ p = cAsked[1] /\ r = cRequests /\ c <= b
    BY <1>1, <1>2
  <2>2. p + c <= p + b /\ r + c <= r + b
    <3>1. \A x, y, w \in Nat : y <= w => x + y <= x + w
      OBVIOUS
    <3>2. c <= b
      BY <2>1
    <3> QED  BY <3>1, <3>2
  <2> QED  BY <1>0, <2>1, <2>2
<1>8. ChunkStep(<<>>, <<>>, 0)
  BY <1>0, <1>1, <1>2, <1>6, <1>7 DEF ChunkStep
<1> QED  BY <1>8, ChunkSteps

\* A request counted is a request less to come.
LEMMA Traded ==
  ASSUME NEW x \in Nat, NEW b \in Nat \ {0}
  PROVE  (x + 1) + (b - 1) <= x + b
OBVIOUS

\* What is left of a sequence after its first n elements.
LEMMA AfterFirst ==
  ASSUME NEW s \in Seq(Nat), NEW took \in 0..Len(s)
  PROVE  /\ SubSeq(s, took + 1, Len(s)) \in Seq(Nat)
         /\ Len(SubSeq(s, took + 1, Len(s))) = Len(s) - took
         /\ \A j \in 1..(Len(s) - took) : SubSeq(s, took + 1, Len(s))[j] = s[took + j]
<1>0. PICK m \in Nat : m = Len(s) /\ took \in Nat /\ took <= m
  BY LenProperties
<1>1. PICK lo \in Nat : lo = took + 1
  BY <1>0
<1>2. lo \in 1..(m + 1) /\ m \in (lo - 1)..m /\ lo <= m + 1
  BY <1>0, <1>1
<1>3. /\ SubSeq(s, lo, m) \in Seq(Nat) /\ Len(SubSeq(s, lo, m)) = m - lo + 1
      /\ \A j \in 1..(m - lo + 1) : SubSeq(s, lo, m)[j] = s[lo + j - 1]
  <2>1. lo \in 1..(Len(s) + 1) /\ m \in (lo - 1)..Len(s)
    BY <1>0, <1>2
  <2> QED  BY <1>2, <2>1, SubSeqProperties
<1>4. m - lo + 1 = m - took /\ \A j \in 1..(m - took) : lo + j - 1 = took + j
  <2>1. took \in Int /\ m \in Int
    BY <1>0
  <2>2. m - (took + 1) + 1 = m - took
    BY <2>1
  <2>3. \A j \in Int : (took + 1) + j - 1 = took + j
    BY <2>1
  <2> QED  BY <1>1, <2>2, <2>3
<1> QED  BY <1>0, <1>1, <1>3, <1>4

\* A request that was sent and leaves smaller ones.
LEMMA RecoverSent ==
  ASSUME C!RecoverInv, C!Asking, C!Sent, NEW F \in Seq(C!Jobs), NEW offs, NEW took,
         took \in 0..Len(C!Job.set), Parts(F, offs, took), cStack' = F \o Tail(cStack),
         cState' = [i \in C!Items |-> IF \E j \in 1..took : C!Job.set[j] = i
                                      THEN "resolved" ELSE cState[i]],
         UNCHANGED <<cRun, cPc, cPos, cSize, cComplianceRun, cRung, cHalted>>
  PROVE  C!RecoverInv'
<1>0. /\ cPc = "chunk" /\ cStack # <<>> /\ cBudget \in Nat \ {0} /\ cAsked \in Nat \X Nat
      /\ cRequests \in Nat
  BY AskingFacts
<1>1. cState \in [C!Items -> {"open", "resolved", "failed", "stopped"}]
  BY DEF C!RecoverInv, C!RecoverTyped
<1>2. Shrunk(F, offs, took)
  <2>1. \A i \in C!Items : (\A j \in 1..took : C!Job.set[j] # i) => cState'[i] = cState[i]
    OBVIOUS
  <2>2. cAsked'[2] = cAsked[2]
    BY SentFacts
  <2>3. /\ \A i \in C!Items : (\A j \in 1..Len(C!Job.set) : C!Job.set[j] # i) =>
                                cLatest'[i] = cLatest[i]
        /\ \A j \in 1..Len(C!Job.set) : cLatest'[C!Job.set[j]] = Len(C!Job.set)
    BY SentFacts
  <2> QED  BY <1>0, <2>1, <2>2, <2>3 DEF Shrunk
<1>3. /\ cState' \in [C!Items -> {"open", "resolved", "failed", "stopped"}]
      /\ \A i \in C!Items : cState'[i] \in {cState[i], "resolved"}
  BY <1>1
<1>4. /\ cAsked'[1] + cBudget' <= cAsked[1] + cBudget
      /\ cRequests' + cBudget' <= cRequests + cBudget
  <2>1. PICK b \in Nat \ {0}, p \in Nat, r \in Nat :
          b = cBudget /\ p = cAsked[1] /\ r = cRequests
    BY <1>0
  <2>2. cBudget' = b - 1 /\ cAsked'[1] = p + 1 /\ cRequests' = r + 1
    BY <2>1, SentFacts
  <2>3. (p + 1) + (b - 1) <= p + b /\ (r + 1) + (b - 1) <= r + b
    BY Traded
  <2> QED  BY <2>1, <2>2, <2>3
<1>5. /\ cLatest' \in [C!Items -> Nat] /\ cAsked' \in Nat \X Nat
      /\ cBudget' \in Nat /\ cLate' = cLate /\ cRequests' \in Nat
  <2>1. cRequests' = cRequests + 1
    BY SentFacts
  <2> QED  BY <1>0, <2>1, SentFacts
<1>6. ChunkStep(F, offs, took)
  BY <1>2, <1>3, <1>4, <1>5 DEF ChunkStep
<1> QED  BY <1>6, ChunkSteps

\* An answer.
LEMMA RecoverAnswered ==
  ASSUME C!RecoverInv, NEW took \in 0..C!Eligible, NEW o, C!Answered(took, o)
  PROVE  C!RecoverInv'
<1>0. /\ C!Asking /\ C!Sent /\ took <= Len(C!Job.set)
      /\ cState' = [i \in C!Items |-> IF \E j \in 1..took : C!Job.set[j] = i
                                      THEN "resolved" ELSE cState[i]]
      /\ cStack' = C!Followed(SubSeq(C!Job.set, took + 1, Len(C!Job.set)), took, FALSE)
                     \o Tail(cStack)
      /\ UNCHANGED <<cRun, cPc, cPos, cSize, cComplianceRun, cRung, cHalted>>
  BY DEF C!Answered, C!topVars
<1>1. /\ cStack # <<>> /\ cStack \in Seq(C!Jobs) /\ Len(C!Job.set) \in Nat
      /\ C!Job.set \in Seq(Nat) /\ C!Eligible \in Nat
  BY <1>0, AskingFacts, JobFacts, RunFacts
<1>2. took \in Nat /\ took \in 0..Len(C!Job.set)
  BY <1>0, <1>1
<1>3. PICK u : u = SubSeq(C!Job.set, took + 1, Len(C!Job.set))
  OBVIOUS
<1>4. Rest(u, took)
  <2>1. /\ u \in Seq(Nat) /\ Len(u) = Len(C!Job.set) - took
        /\ \A j \in 1..(Len(C!Job.set) - took) : u[j] = C!Job.set[took + j]
    BY <1>1, <1>2, <1>3, AfterFirst
  <2> QED  BY <1>2, <2>1 DEF Rest
<1>5. PICK F, offs : F \in Seq(C!Jobs) /\ F = C!Followed(u, took, FALSE) /\ Parts(F, offs, took)
  BY <1>1, <1>4, FollowedParts
<1>6. cStack' = F \o Tail(cStack)
  BY <1>0, <1>3, <1>5
<1> QED  BY <1>0, <1>2, <1>5, <1>6, RecoverSent

\* A failure the run goes on after.
LEMMA RecoverFails ==
  ASSUME C!RecoverInv, NEW f, C!CallFails(f), ~C!HaltAfter(f)
  PROVE  C!RecoverInv'
<1>0. /\ C!Asking /\ C!Sent
      /\ cStack' = IF f = "transport" THEN Tail(cStack)
                   ELSE C!Followed(C!Job.set, 0, f = "refused") \o Tail(cStack)
      /\ UNCHANGED <<cRun, cPc, cPos, cSize, cComplianceRun, cRung, cHalted, cState>>
  BY DEF C!CallFails, C!topVars
<1>1. /\ cStack # <<>> /\ cStack \in Seq(C!Jobs) /\ Len(C!Job.set) \in Nat
      /\ C!Job.set \in Seq(Nat) /\ Tail(cStack) \in Seq(C!Jobs)
  BY <1>0, AskingFacts, JobFacts
<1>2. 0 \in 0..Len(C!Job.set)
  BY <1>1
<1>3. cState' = [i \in C!Items |-> IF \E j \in 1..0 : C!Job.set[j] = i
                                   THEN "resolved" ELSE cState[i]]
  <2>1. cState \in [C!Items -> {"open", "resolved", "failed", "stopped"}]
    BY DEF C!RecoverInv, C!RecoverTyped
  <2>2. 1..0 = {}
    OBVIOUS
  <2> QED  BY <1>0, <2>1, <2>2
<1>4. CASE f = "transport"
  <2>1. Parts(<<>>, <<>>, 0) /\ <<>> \in Seq(C!Jobs)
    BY EmptySeq DEF Parts
  <2>2. cStack' = <<>> \o Tail(cStack)
    BY <1>0, <1>1, <1>4
  <2> QED  BY <1>0, <1>2, <1>3, <2>1, <2>2, RecoverSent
<1>5. CASE f # "transport"
  <2>1. Rest(C!Job.set, 0)
    BY <1>1, <1>2 DEF Rest
  <2>2. (f = "refused") \in BOOLEAN
    OBVIOUS
  <2>3. PICK F, offs :
          F \in Seq(C!Jobs) /\ F = C!Followed(C!Job.set, 0, f = "refused") /\ Parts(F, offs, 0)
    BY <1>1, <2>1, <2>2, FollowedParts
  <2>4. cStack' = F \o Tail(cStack)
    BY <1>0, <1>5, <2>3
  <2> QED  BY <1>0, <1>2, <1>3, <2>3, <2>4, RecoverSent
<1> QED  BY <1>4, <1>5

\* A request that ends the run.
LEMMA RecoverStops ==
  ASSUME C!RecoverInv, C!Asking, C!Sent, C!StopAll,
         UNCHANGED <<cRun, cPos, cSize, cComplianceRun, cRung>>
  PROVE  C!RecoverInv'
<1>0. /\ cPc = "chunk" /\ cBudget \in Nat \ {0} /\ cAsked \in Nat \X Nat
      /\ cRequests \in Nat /\ cRun \in RecoverRuns
  BY AskingFacts
<1>1. /\ cPc' = "alone" /\ cStack' = <<>> /\ cHalted' = TRUE
      /\ cState' = [i \in C!Items |-> IF cState[i] = "open" THEN "stopped" ELSE cState[i]]
  BY DEF C!StopAll
<1>2. C!Eligible' = C!Eligible /\ C!Items' = C!Items
  BY DEF C!Eligible, C!Items
<1>3. /\ cBudget' \in Nat /\ cAsked' \in Nat \X Nat /\ cAsked'[1] = cAsked[1] + 1
      /\ cAsked'[2] = cAsked[2] /\ cRequests' = cRequests + 1 /\ cLate' = cLate
      /\ cLatest' \in [C!Items -> Nat]
  BY SentFacts
<1>4. /\ \A i \in C!Items : cRung[i] = "out" /\ cState[i] \in {"open", "resolved"}
      /\ cLate = 0 /\ C!Cardinality({}) = 0 /\ C!Gone = {}
  BY <1>0, EarlyRungs
<1>5. C!RecoverTyped'
  <2>1. cState' \in [C!Items -> {"open", "resolved", "failed", "stopped"}]
    BY <1>1, <1>4
  <2>2. cRequests' \in Nat /\ cLate' \in Nat /\ cHalted' \in BOOLEAN
    BY <1>0, <1>1, <1>3, <1>4
  <2>3. cStack' \in Seq(C!Jobs)
    BY <1>1, EmptySeq
  <2>4. C!RecoverTyped
    BY DEF C!RecoverInv
  <2> QED  BY <1>1, <1>2, <1>3, <2>1, <2>2, <2>3, <2>4 DEF C!RecoverTyped
<1>6. C!Gone' = {} /\ C!Flying' = {} /\ C!Checked' = {}
  BY <1>2, <1>4 DEF C!Gone, C!Flying, C!Checked
<1>7. \A i \in C!Items : C!ItemRight(i)'
  BY <1>1, <1>4 DEF C!ItemRight
<1>8. C!HaltInv'
  <2>1. cRun.workers \in Nat \ {0}
    BY <1>0, RunFacts
  <2> QED  BY <1>1, <1>2, <1>3, <1>4, <1>6, <1>7, <2>1 DEF C!HaltInv
<1>9. C!CountInv'
  <2>1. C!CountInv /\ C!Left = cBudget
    BY <1>0 DEF C!RecoverInv, C!Left
  <2>2. cPos \in Nat /\ C!Allowed(cPos) \in Nat /\ 2 * cRun.maxIsolate \in Nat
    <3>1. cPos \in Nat /\ 2 * cRun.maxIsolate \in Nat
      BY <1>0, RunFacts DEF C!RecoverInv, C!RecoverTyped
    <3> QED  BY <1>0, <3>1, AllowedGrows
  <2>3. PICK b \in Nat \ {0}, r \in Nat, x \in Nat, p \in Nat, q \in Nat, k \in Nat :
          /\ b = cBudget /\ r = cRequests /\ x = C!Allowed(cPos) /\ p = cAsked[1]
          /\ q = cAsked[2] /\ k = 2 * cRun.maxIsolate
    BY <1>0, <2>2
  <2>4. p + b <= k + q /\ r + b <= x + 0
    BY <1>4, <2>1, <2>3 DEF C!CountInv
  <2>5. (p + 1) + 0 <= k + q /\ (r + 1) + 0 <= x + 0
    BY <2>3, <2>4
  <2>6. C!Allowed(cPos)' = C!Allowed(cPos) /\ C!Left' = 0
    BY <1>1 DEF C!Allowed, C!Left
  <2>7. cAsked'[1] = p + 1 /\ cAsked'[2] = q /\ cRequests' = r + 1
    BY <1>3, <2>3
  <2> QED  BY <1>4, <1>6, <2>3, <2>5, <2>6, <2>7 DEF C!CountInv
<1>10. C!StackInv'
  BY <1>1 DEF C!StackInv
<1> QED  BY <1>5, <1>8, <1>9, <1>10 DEF C!RecoverInv

\* The last rung begins.
LEMMA RecoverLastRung ==
  ASSUME C!RecoverInv, C!LastRung
  PROVE  C!RecoverInv'
<1>0. /\ cPc = "top" /\ cPc' = "alone"
      /\ cRung' = [i \in C!Items |-> IF cState[i] = "open" THEN "waiting" ELSE "out"]
      /\ UNCHANGED <<cRun, cPos, cSize, cComplianceRun, cStack, cBudget, cState, cHalted,
                     cLatest, cRequests, cAsked, cLate>>
  BY DEF C!LastRung, C!topVars, C!chunkVars, C!haltVars, C!countVars
<1>1. C!RecoverTyped /\ cRun \in RecoverRuns /\ cHalted \in BOOLEAN
  BY DEF C!RecoverInv, C!RecoverTyped
<1>2. C!Eligible' = C!Eligible /\ C!Items' = C!Items
  BY <1>0 DEF C!Eligible, C!Items
<1>3. /\ \A i \in C!Items : cState[i] \in {"open", "resolved"}
      /\ ~cHalted /\ cLate = 0 /\ C!Cardinality({}) = 0 /\ C!Gone = {}
  BY <1>0, EarlyRungs
<1>4. C!RecoverTyped'
  <2>1. cRung' \in [C!Items -> {"out", "waiting", "checked", "sent", "back"}]
    BY <1>0
  <2> QED  BY <1>0, <1>1, <1>2, <2>1 DEF C!RecoverTyped
<1>5. C!Gone' = {} /\ C!Flying' = {} /\ C!Checked' = {}
  BY <1>0, <1>2 DEF C!Gone, C!Flying, C!Checked
<1>6. \A i \in C!Items : C!ItemRight(i)'
  BY <1>0, <1>3 DEF C!ItemRight
<1>7. C!HaltInv'
  <2>1. cRun.workers \in Nat \ {0}
    BY <1>1, RunFacts
  <2> QED  BY <1>0, <1>2, <1>3, <1>5, <1>6, <2>1 DEF C!HaltInv
<1>8. C!CountInv'
  BY <1>0, <1>3, <1>5 DEF C!RecoverInv, C!CountInv, C!Left, C!Allowed
<1>9. C!StackInv'
  BY <1>0 DEF C!RecoverInv, C!StackInv
<1> QED  BY <1>4, <1>7, <1>8, <1>9 DEF C!RecoverInv

\* A step of the last rung moves one item, and counts what it sends.
RungStep(i, r, s) ==
  /\ cPc = "alone" /\ cPc' = "alone" /\ i \in C!Items
  /\ cRung' = [cRung EXCEPT ![i] = r] /\ cState' = [cState EXCEPT ![i] = s]
  /\ r \in {"checked", "sent", "back"}
  /\ s \in {"open", "resolved", "failed", "stopped"}
  /\ IF r = "back" THEN s \in {"resolved", "failed"} \/ (s = "stopped" /\ cHalted')
                   ELSE s = "open"
  /\ cHalted' \in BOOLEAN /\ (cHalted => cHalted')
  /\ cRequests' \in Nat /\ cLate' \in Nat
  /\ UNCHANGED <<cRun, cPos, cSize, cComplianceRun, cStack, cBudget, cLatest, cAsked>>

LEMMA RungSteps ==
  ASSUME C!RecoverInv, NEW i, NEW r, NEW s, RungStep(i, r, s),
         C!Cardinality(C!Flying') <= cRun.workers,
         IF cHalted' THEN cLate' + C!Cardinality(C!Checked') < cRun.workers ELSE cLate' = 0,
         cRequests' <= C!Allowed(cPos) + C!Cardinality(C!Gone')
  PROVE  C!RecoverInv'
<1>0. /\ cPc = "alone" /\ cPc' = "alone" /\ i \in C!Items
      /\ cRung' = [cRung EXCEPT ![i] = r] /\ cState' = [cState EXCEPT ![i] = s]
      /\ cHalted' \in BOOLEAN /\ (cHalted => cHalted') /\ cRequests' \in Nat /\ cLate' \in Nat
      /\ UNCHANGED <<cRun, cPos, cSize, cComplianceRun, cStack, cBudget, cLatest, cAsked>>
  BY DEF RungStep
<1>1. C!RecoverTyped /\ cRun \in RecoverRuns
      /\ cRung \in [C!Items -> {"out", "waiting", "checked", "sent", "back"}]
      /\ cState \in [C!Items -> {"open", "resolved", "failed", "stopped"}]
      /\ cAsked \in Nat \X Nat /\ cPos \in 0..C!Eligible
  BY DEF C!RecoverInv, C!RecoverTyped
<1>2. C!Eligible' = C!Eligible /\ C!Items' = C!Items
  BY <1>0 DEF C!Eligible, C!Items
<1>3. C!RecoverTyped'
  <2>1. /\ cRung' \in [C!Items -> {"out", "waiting", "checked", "sent", "back"}]
        /\ cState' \in [C!Items -> {"open", "resolved", "failed", "stopped"}]
    BY <1>1 DEF RungStep
  <2> QED  BY <1>0, <1>1, <1>2, <2>1 DEF C!RecoverTyped
<1>4. ASSUME NEW k \in C!Items PROVE C!ItemRight(k)'
  <2>1. CASE k = i
    <3>1. cRung'[k] = r /\ cState'[k] = s
      BY <1>0, <1>1, <2>1
    <3>2. CASE r = "back"
      BY <1>0, <3>1, <3>2 DEF RungStep, C!ItemRight
    <3>3. CASE r # "back"
      BY <1>0, <3>1, <3>3 DEF RungStep, C!ItemRight
    <3> QED  BY <3>2, <3>3
  <2>2. CASE k # i
    <3>1. cRung'[k] = cRung[k] /\ cState'[k] = cState[k]
      BY <1>0, <1>1, <2>2
    <3>2. C!ItemRight(k)
      BY DEF C!RecoverInv, C!HaltInv
    <3> QED  BY <1>0, <3>1, <3>2 DEF C!ItemRight
  <2> QED  BY <2>1, <2>2
<1>5. C!HaltInv'
  <2>1. cRun' = cRun
    BY <1>0
  <2> QED  BY <1>0, <1>2, <1>4, <2>1 DEF C!HaltInv
<1>6. C!CountInv'
  <2>1. C!CountInv /\ C!Left = 0
    BY <1>0 DEF C!RecoverInv, C!Left
  <2>2. C!Left' = 0 /\ C!Allowed(cPos)' = C!Allowed(cPos)
    BY <1>0 DEF C!Left, C!Allowed
  <2> QED  BY <1>0, <2>1, <2>2 DEF C!CountInv
<1>7. C!StackInv'
  BY <1>0 DEF C!RecoverInv, C!StackInv
<1> QED  BY <1>3, <1>5, <1>6, <1>7 DEF C!RecoverInv

\* The counts of the last rung.
RungCountsHold ==
  /\ cRun \in RecoverRuns /\ cRun.workers \in Nat \ {0} /\ cPos \in Nat
  /\ C!Allowed(cPos) \in Nat /\ cRequests \in Nat /\ cLate \in Nat /\ cHalted \in BOOLEAN
  /\ C!Gone \in SUBSET C!Items /\ C!Flying \in SUBSET C!Items
  /\ C!Checked \in SUBSET C!Items
  /\ C!Cardinality(C!Gone) \in Nat /\ C!Cardinality(C!Flying) \in Nat
  /\ C!Cardinality(C!Checked) \in Nat
  /\ cRequests <= C!Allowed(cPos) + C!Cardinality(C!Gone)
  /\ C!Cardinality(C!Flying) <= cRun.workers
  /\ IF cHalted THEN cLate + C!Cardinality(C!Checked) < cRun.workers ELSE cLate = 0
  /\ cRung \in [C!Items -> {"out", "waiting", "checked", "sent", "back"}]
  /\ cState \in [C!Items -> {"open", "resolved", "failed", "stopped"}]
  /\ \A i \in C!Items :
       cRung[i] \in {"waiting", "checked", "sent"} => cState[i] = "open"

LEMMA RungCounts ==
  ASSUME C!RecoverInv, cPc = "alone"
  PROVE  RungCountsHold
<1>1. /\ cRun \in RecoverRuns /\ cPos \in 0..C!Eligible /\ cRequests \in Nat /\ cLate \in Nat
      /\ cHalted \in BOOLEAN
      /\ cRung \in [C!Items -> {"out", "waiting", "checked", "sent", "back"}]
      /\ cState \in [C!Items -> {"open", "resolved", "failed", "stopped"}]
  BY DEF C!RecoverInv, C!RecoverTyped
<1>2. cRun.workers \in Nat \ {0} /\ cPos \in Nat
  BY <1>1, RunFacts
<1>3. C!Allowed(cPos) \in Nat
  BY <1>1, <1>2, AllowedGrows
<1>4. C!Gone \in SUBSET C!Items /\ C!Flying \in SUBSET C!Items /\ C!Checked \in SUBSET C!Items
  BY DEF C!Gone, C!Flying, C!Checked
<1>5. /\ C!Cardinality(C!Gone) \in Nat /\ C!Cardinality(C!Flying) \in Nat
      /\ C!Cardinality(C!Checked) \in Nat
  BY <1>1, <1>4, ItemCounts
<1>6. cRequests <= C!Allowed(cPos) + C!Cardinality(C!Gone)
  <2>1. cRequests + 0 <= C!Allowed(cPos) + C!Cardinality(C!Gone)
    BY DEF C!RecoverInv, C!CountInv, C!Left
  <2> QED  BY <1>1, <2>1
<1>7. /\ C!Cardinality(C!Flying) <= cRun.workers
      /\ IF cHalted THEN cLate + C!Cardinality(C!Checked) < cRun.workers ELSE cLate = 0
  BY DEF C!RecoverInv, C!HaltInv
<1>8. ASSUME NEW i \in C!Items, cRung[i] \in {"waiting", "checked", "sent"}
      PROVE  cState[i] = "open"
  <2>1. C!ItemRight(i)
    BY DEF C!RecoverInv, C!HaltInv
  <2> QED  BY <1>8, <2>1 DEF C!ItemRight
<1> QED  BY <1>1, <1>2, <1>3, <1>4, <1>5, <1>6, <1>7, <1>8 DEF RungCountsHold

\* A worker takes the next item.
LEMMA RecoverStart ==
  ASSUME C!RecoverInv, NEW i \in C!Items, C!Start(i)
  PROVE  C!RecoverInv'
<1>0. /\ cPc = "alone" /\ cPc' = "alone" /\ cRung[i] = "waiting"
      /\ C!Cardinality(C!Flying) < cRun.workers
      /\ cRung' = [cRung EXCEPT ![i] = IF cHalted THEN "back" ELSE "checked"]
      /\ cState' = [cState EXCEPT ![i] = IF cHalted THEN "stopped" ELSE @]
      /\ UNCHANGED <<cRun, cPos, cSize, cComplianceRun, cStack, cBudget, cLatest, cAsked,
                     cHalted, cRequests, cLate>>
  BY DEF C!Start, C!FirstWaiting, C!topVars, C!chunkVars, C!haltVars, C!countVars
<1>c. RungCountsHold
  BY <1>0, RungCounts
<1>2. C!Items' = C!Items
  BY <1>0 DEF C!Eligible, C!Items
<1>3. CASE cHalted
  <2>1. cRung' = [cRung EXCEPT ![i] = "back"] /\ cState' = [cState EXCEPT ![i] = "stopped"]
    BY <1>0, <1>3
  <2>2. C!Flying' = C!Flying /\ C!Checked' = C!Checked /\ C!Gone' = C!Gone \cup {i}
        /\ i \notin C!Gone
    BY <1>0, <1>2, <1>c, <2>1 DEF RungCountsHold, C!Flying, C!Checked, C!Gone
  <2>3. C!Cardinality(C!Gone') = C!Cardinality(C!Gone) + 1
    BY <1>c, <2>2, ItemCounts DEF RungCountsHold
  <2>4. RungStep(i, "back", "stopped")
    BY <1>0, <1>3, <1>c, <2>1 DEF RungStep, RungCountsHold
  <2>5. cRequests' <= C!Allowed(cPos) + C!Cardinality(C!Gone')
    <3>1. PICK x \in Nat, y \in Nat, z \in Nat :
            x = cRequests /\ y = C!Allowed(cPos) /\ z = C!Cardinality(C!Gone) /\ x <= y + z
      BY <1>c DEF RungCountsHold
    <3>2. x <= y + (z + 1)
      BY <3>1
    <3> QED  BY <1>0, <2>3, <3>1, <3>2
  <2>6. C!Cardinality(C!Flying') <= cRun.workers
    BY <1>c, <2>2 DEF RungCountsHold
  <2>7. IF cHalted' THEN cLate' + C!Cardinality(C!Checked') < cRun.workers ELSE cLate' = 0
    BY <1>0, <1>c, <2>2 DEF RungCountsHold
  <2> QED  BY <2>4, <2>5, <2>6, <2>7, RungSteps
<1>4. CASE ~cHalted
  <2>1. cRung' = [cRung EXCEPT ![i] = "checked"] /\ cState' = [cState EXCEPT ![i] = "open"]
        /\ cHalted = FALSE
    BY <1>0, <1>4, <1>c DEF RungCountsHold
  <2>2. C!Flying' = C!Flying \cup {i} /\ C!Gone' = C!Gone /\ i \notin C!Flying
    BY <1>0, <1>2, <1>c, <2>1 DEF RungCountsHold, C!Flying, C!Gone
  <2>3. C!Cardinality(C!Flying') = C!Cardinality(C!Flying) + 1
    BY <1>c, <2>2, ItemCounts DEF RungCountsHold
  <2>4. RungStep(i, "checked", "open")
    BY <1>0, <1>c, <2>1 DEF RungStep, RungCountsHold
  <2>5. cRequests' <= C!Allowed(cPos) + C!Cardinality(C!Gone')
    BY <1>0, <1>c, <2>2 DEF RungCountsHold
  <2>6. C!Cardinality(C!Flying') <= cRun.workers
    BY <1>0, <1>c, <2>3 DEF RungCountsHold
  <2>7. IF cHalted' THEN cLate' + C!Cardinality(C!Checked') < cRun.workers ELSE cLate' = 0
    BY <1>0, <1>c, <2>1 DEF RungCountsHold
  <2> QED  BY <2>4, <2>5, <2>6, <2>7, RungSteps
<1> QED  BY <1>3, <1>4

\* It sends the item's request.
LEMMA RecoverSendAlone ==
  ASSUME C!RecoverInv, NEW i \in C!Items, C!SendAlone(i)
  PROVE  C!RecoverInv'
<1>0. /\ cPc = "alone" /\ cPc' = "alone" /\ cRung[i] = "checked"
      /\ cRung' = [cRung EXCEPT ![i] = "sent"] /\ cRequests' = cRequests + 1
      /\ cLate' = (IF cHalted THEN cLate + 1 ELSE cLate)
      /\ UNCHANGED <<cRun, cPos, cSize, cComplianceRun, cStack, cBudget, cLatest, cAsked,
                     cHalted, cState>>
  BY DEF C!SendAlone, C!topVars, C!chunkVars, C!haltVars
<1>c. RungCountsHold
  BY <1>0, RungCounts
<1>1. C!Items' = C!Items
  BY <1>0 DEF C!Eligible, C!Items
<1>2. cState' = [cState EXCEPT ![i] = "open"]
  BY <1>0, <1>c DEF RungCountsHold
<1>3. /\ C!Flying' = C!Flying /\ C!Checked' = C!Checked \ {i} /\ i \in C!Checked
      /\ C!Gone' = C!Gone \cup {i} /\ i \notin C!Gone
  BY <1>0, <1>1, <1>c DEF RungCountsHold, C!Flying, C!Checked, C!Gone
<1>4. /\ C!Cardinality(C!Gone') = C!Cardinality(C!Gone) + 1
      /\ C!Cardinality(C!Checked') = C!Cardinality(C!Checked) - 1
  BY <1>c, <1>3, ItemCounts DEF RungCountsHold
<1>5. RungStep(i, "sent", "open")
  <2>1. cRequests' \in Nat /\ cLate' \in Nat
    BY <1>0, <1>c DEF RungCountsHold
  <2> QED  BY <1>0, <1>c, <1>2, <2>1 DEF RungStep, RungCountsHold
<1>6. cRequests' <= C!Allowed(cPos) + C!Cardinality(C!Gone')
  <2>1. PICK x \in Nat, y \in Nat, z \in Nat :
          x = cRequests /\ y = C!Allowed(cPos) /\ z = C!Cardinality(C!Gone) /\ x <= y + z
    BY <1>c DEF RungCountsHold
  <2>2. x + 1 <= y + (z + 1)
    BY <2>1
  <2> QED  BY <1>0, <1>4, <2>1, <2>2
<1>7. C!Cardinality(C!Flying') <= cRun.workers
  BY <1>c, <1>3 DEF RungCountsHold
<1>8. IF cHalted' THEN cLate' + C!Cardinality(C!Checked') < cRun.workers ELSE cLate' = 0
  <2>1. CASE cHalted
    <3>1. PICK x \in Nat, y \in Nat, z \in Nat :
            x = cLate /\ y = C!Cardinality(C!Checked) /\ z = cRun.workers /\ x + y < z
      BY <1>c, <2>1 DEF RungCountsHold
    <3>2. (x + 1) + (y - 1) < z
      BY <3>1
    <3> QED  BY <1>0, <1>4, <2>1, <3>1, <3>2
  <2>2. CASE ~cHalted
    BY <1>0, <1>c, <2>2 DEF RungCountsHold
  <2> QED  BY <2>1, <2>2
<1> QED  BY <1>5, <1>6, <1>7, <1>8, RungSteps

\* The reply comes back, and may end the run.
LEMMA RecoverReply ==
  ASSUME C!RecoverInv, NEW i \in C!Items, NEW s \in {"resolved", "failed"},
         cPc = "alone", cPc' = "alone", cRung[i] = "sent",
         cRung' = [cRung EXCEPT ![i] = "back"], cState' = [cState EXCEPT ![i] = s],
         cHalted' \in BOOLEAN, cHalted => cHalted',
         UNCHANGED <<cRun, cPos, cSize, cComplianceRun, cStack, cBudget, cLatest, cAsked,
                     cRequests, cLate>>
  PROVE  C!RecoverInv'
<1>c. RungCountsHold
  BY RungCounts
<1>1. C!Items' = C!Items
  BY DEF C!Eligible, C!Items
<1>3. /\ C!Flying' = C!Flying \ {i} /\ i \in C!Flying /\ C!Checked' = C!Checked
      /\ C!Gone' = C!Gone /\ C!Checked \subseteq C!Flying \ {i}
  BY <1>1, <1>c DEF RungCountsHold, C!Flying, C!Checked, C!Gone
<1>4. /\ C!Cardinality(C!Flying \ {i}) = C!Cardinality(C!Flying) - 1
      /\ C!Cardinality(C!Checked) <= C!Cardinality(C!Flying \ {i})
  <2>1. C!Cardinality(C!Flying \ {i}) = C!Cardinality(C!Flying) - 1
    BY <1>c, <1>3, ItemCounts DEF RungCountsHold
  <2>2. C!Flying \ {i} \in SUBSET C!Items /\ C!Checked \in SUBSET (C!Flying \ {i})
        /\ cRun \in RecoverRuns
    BY <1>c, <1>3 DEF RungCountsHold
  <2>3. C!Cardinality(C!Checked) <= C!Cardinality(C!Flying \ {i})
    BY <2>2, ItemCounts
  <2> QED  BY <2>1, <2>3
<1>5. RungStep(i, "back", s)
  BY <1>c DEF RungStep, RungCountsHold
<1>6. PICK f \in Nat, h \in Nat, w \in Nat :
        /\ f = C!Cardinality(C!Flying) /\ h = C!Cardinality(C!Checked) /\ w = cRun.workers
        /\ f <= w /\ h <= f - 1
  BY <1>c, <1>4 DEF RungCountsHold
<1>7. f - 1 <= w /\ 0 + h < w
  BY <1>6
<1>8. C!Cardinality(C!Flying') <= cRun.workers
  BY <1>3, <1>4, <1>6, <1>7
<1>9. IF cHalted' THEN cLate' + C!Cardinality(C!Checked') < cRun.workers ELSE cLate' = 0
  <2>1. CASE cHalted
    BY <1>c, <1>3, <2>1 DEF RungCountsHold
  <2>2. CASE ~cHalted
    BY <1>c, <1>3, <1>6, <1>7, <2>2 DEF RungCountsHold
  <2> QED  BY <2>1, <2>2
<1>10. cRequests' <= C!Allowed(cPos) + C!Cardinality(C!Gone')
  BY <1>c, <1>3 DEF RungCountsHold
<1> QED  BY <1>5, <1>8, <1>9, <1>10, RungSteps

\* Every item is back: the run reports.
LEMMA RecoverReport ==
  ASSUME C!RecoverInv, C!Report
  PROVE  C!RecoverInv'
<1>0. /\ cPc = "alone" /\ cPc' = "done" /\ \A i \in C!Items : cRung[i] \in {"out", "back"}
      /\ UNCHANGED <<cRun, cPos, cSize, cComplianceRun, cStack, cBudget, cState, cRung, cHalted,
                     cLatest, cRequests, cAsked, cLate>>
  <2>1. cPc = "alone" /\ cPc' = "done" /\ \A i \in C!Items : cRung[i] \in {"out", "back"}
    BY DEF C!Report
  <2>2. UNCHANGED <<cRun, cPos, cSize, cComplianceRun, cStack, cBudget, cState, cRung, cHalted,
                    cLatest, cRequests, cAsked, cLate>>
    BY DEF C!Report, C!topVars, C!chunkVars, C!haltVars, C!countVars
  <2> QED  BY <2>1, <2>2
<1>1. C!Eligible' = C!Eligible /\ C!Items' = C!Items
  BY <1>0 DEF C!Eligible, C!Items
<1>2. C!RecoverTyped'
  BY <1>0, <1>1 DEF C!RecoverInv, C!RecoverTyped
<1>3. C!Gone' = C!Gone /\ C!Flying' = C!Flying /\ C!Checked' = C!Checked
  BY <1>0, <1>1 DEF C!Gone, C!Flying, C!Checked
<1>4. ASSUME NEW i \in C!Items PROVE C!ItemRight(i)'
  <2>1. C!ItemRight(i)
    BY DEF C!RecoverInv, C!HaltInv
  <2>2. cRung[i] \in {"out", "back"}
    BY <1>0
  <2>3. CASE cRung[i] = "out"
    BY <1>0, <2>1, <2>3 DEF C!ItemRight
  <2>4. CASE cRung[i] = "back"
    BY <1>0, <2>1, <2>4 DEF C!ItemRight
  <2> QED  BY <2>2, <2>3, <2>4
<1>5. C!HaltInv'
  BY <1>0, <1>1, <1>3, <1>4 DEF C!RecoverInv, C!HaltInv
<1>6. C!CountInv'
  BY <1>0, <1>3 DEF C!RecoverInv, C!CountInv, C!Left, C!Allowed
<1>7. C!StackInv'
  BY <1>0 DEF C!RecoverInv, C!StackInv
<1> QED  BY <1>2, <1>5, <1>6, <1>7 DEF C!RecoverInv

\* What the invariant speaks of stays.
LEMMA RecoverSame ==
  ASSUME C!RecoverInv,
         UNCHANGED <<cRun, cPc, cPos, cSize, cComplianceRun, cStack, cBudget, cState, cRung,
                     cHalted, cLatest, cRequests, cAsked, cLate>>
  PROVE  C!RecoverInv'
<1>1. C!Eligible' = C!Eligible /\ C!Items' = C!Items
  BY DEF C!Eligible, C!Items
<1>2. C!RecoverTyped'
  BY <1>1 DEF C!RecoverInv, C!RecoverTyped
<1>3. C!Gone' = C!Gone /\ C!Flying' = C!Flying /\ C!Checked' = C!Checked
  BY <1>1 DEF C!Gone, C!Flying, C!Checked
<1>4. ASSUME NEW i \in C!Items PROVE C!ItemRight(i)'
  <2>1. C!ItemRight(i)
    BY DEF C!RecoverInv, C!HaltInv
  <2> QED  BY <2>1 DEF C!ItemRight
<1>5. C!HaltInv'
  BY <1>1, <1>3, <1>4 DEF C!RecoverInv, C!HaltInv
<1>6. C!CountInv'
  BY <1>3 DEF C!RecoverInv, C!CountInv, C!Left, C!Allowed
<1>7. C!StackInv'
  BY DEF C!RecoverInv, C!StackInv, C!Fresh, C!Unsent, C!Apart, C!Of
<1> QED  BY <1>2, <1>5, <1>6, <1>7 DEF C!RecoverInv

\* Every step keeps the invariant.
LEMMA RecoverNext == C!RecoverInv /\ [C!Next]_(C!vars) => C!RecoverInv'
<1> SUFFICES ASSUME C!RecoverInv, [C!Next]_(C!vars) PROVE C!RecoverInv'
  OBVIOUS
<1>1. CASE C!NextChunk
  BY <1>1, RecoverNextChunk
<1>2. CASE C!ChunkDone
  BY <1>2, RecoverChunkDone
<1>3. CASE C!SkipJob \/ C!EncodeFails
  BY <1>3, RecoverDrops
<1>4. CASE C!BelowFloor
  <2>1. C!Asking /\ C!Sent /\ C!StopAll /\ UNCHANGED <<cRun, cPos, cSize, cComplianceRun, cRung>>
    BY <1>4 DEF C!BelowFloor, C!topVars
  <2> QED  BY <2>1, RecoverStops
<1>5. ASSUME NEW f \in C!Failures, C!CallFails(f) PROVE C!RecoverInv'
  <2>1. CASE C!HaltAfter(f)
    <3>1. C!Asking /\ C!Sent /\ C!StopAll
          /\ UNCHANGED <<cRun, cPos, cSize, cComplianceRun, cRung>>
      BY <1>5, <2>1 DEF C!CallFails, C!topVars
    <3> QED  BY <3>1, RecoverStops
  <2>2. CASE ~C!HaltAfter(f)
    BY <1>5, <2>2, RecoverFails
  <2> QED  BY <2>1, <2>2
<1>6. ASSUME NEW took \in 0..C!Eligible, NEW o, C!Answered(took, o) PROVE C!RecoverInv'
  BY <1>6, RecoverAnswered
<1>7. CASE C!LastRung
  BY <1>7, RecoverLastRung
<1>8. CASE C!Report
  BY <1>8, RecoverReport
<1>9. CASE C!CallerEnds \/ C!Done \/ UNCHANGED C!vars
  <2>1. UNCHANGED <<cRun, cPc, cPos, cSize, cComplianceRun, cStack, cBudget, cState, cRung,
                    cHalted, cLatest, cRequests, cAsked, cLate>>
    <3>1. CASE C!CallerEnds
      BY <3>1 DEF C!CallerEnds, C!topVars, C!chunkVars, C!haltVars, C!countVars
    <3>2. CASE C!Done
      BY <3>2 DEF C!Done, C!vars, C!topVars, C!chunkVars, C!haltVars, C!countVars
    <3>3. CASE UNCHANGED C!vars
      BY <3>3 DEF C!vars, C!topVars, C!chunkVars, C!haltVars, C!countVars
    <3> QED  BY <1>9, <3>1, <3>2, <3>3
  <2> QED  BY <2>1, RecoverSame
<1>10. ASSUME NEW i \in C!Items, C!Start(i) PROVE C!RecoverInv'
  BY <1>10, RecoverStart
<1>11. ASSUME NEW i \in C!Items, C!SendAlone(i) PROVE C!RecoverInv'
  BY <1>11, RecoverSendAlone
<1>12. ASSUME NEW i \in C!Items, C!Resolves(i) PROVE C!RecoverInv'
  <2>1. /\ cPc = "alone" /\ cPc' = "alone" /\ cRung[i] = "sent"
        /\ cRung' = [cRung EXCEPT ![i] = "back"] /\ cState' = [cState EXCEPT ![i] = "resolved"]
        /\ UNCHANGED <<cRun, cPos, cSize, cComplianceRun, cStack, cBudget, cLatest, cAsked,
                       cRequests, cLate, cHalted>>
    BY <1>12 DEF C!Resolves, C!topVars, C!chunkVars, C!countVars
  <2>2. cHalted' \in BOOLEAN /\ (cHalted => cHalted')
    BY <2>1 DEF C!RecoverInv, C!RecoverTyped
  <2> QED  BY <2>1, <2>2, RecoverReply
<1>13. ASSUME NEW i \in C!Items, NEW f \in C!Failures, C!FailsAlone(i, f) PROVE C!RecoverInv'
  <2>1. /\ cPc = "alone" /\ cPc' = "alone" /\ cRung[i] = "sent"
        /\ cRung' = [cRung EXCEPT ![i] = "back"] /\ cState' = [cState EXCEPT ![i] = "failed"]
        /\ cHalted' = (cHalted \/ C!HaltAfter(f))
        /\ UNCHANGED <<cRun, cPos, cSize, cComplianceRun, cStack, cBudget, cLatest, cAsked,
                       cRequests, cLate>>
    BY <1>13 DEF C!FailsAlone, C!topVars, C!chunkVars, C!countVars
  <2>2. cHalted' \in BOOLEAN /\ (cHalted => cHalted')
    BY <2>1
  <2> QED  BY <2>1, <2>2, RecoverReply
<1>14. ASSUME NEW i \in C!Items, C!DiesAlone(i) PROVE C!RecoverInv'
  <2>1. /\ cPc = "alone" /\ cPc' = "alone" /\ cRung[i] = "sent"
        /\ cRung' = [cRung EXCEPT ![i] = "back"] /\ cState' = [cState EXCEPT ![i] = "failed"]
        /\ UNCHANGED <<cRun, cPos, cSize, cComplianceRun, cStack, cBudget, cLatest, cAsked,
                       cRequests, cLate, cHalted>>
    BY <1>14 DEF C!DiesAlone, C!topVars, C!chunkVars, C!haltVars, C!countVars
  <2>2. cHalted' \in BOOLEAN /\ (cHalted => cHalted')
    BY <2>1 DEF C!RecoverInv, C!RecoverTyped
  <2> QED  BY <2>1, <2>2, RecoverReply
<1> QED
  BY <1>1, <1>2, <1>3, <1>4, <1>5, <1>6, <1>7, <1>8, <1>9, <1>10, <1>11, <1>12, <1>13, <1>14
  DEF C!Next

\* It holds in every state the cascade reaches.
LEMMA RecoverInductive == C!Spec => []C!RecoverInv
BY RecoverInit, RecoverNext, PTL DEF C!Spec

\* The requests sent are within the bound: the items passed, the passes of the chunks
\* they were cut into, and one for each item alone.
LEMMA RequestsWithin == C!RecoverInv => C!RequestsBounded
<1> SUFFICES ASSUME C!RecoverInv PROVE C!RequestsBounded
  OBVIOUS
<1>1. /\ cRun \in RecoverRuns /\ cPos \in 0..C!Eligible /\ cRequests \in Nat /\ cBudget \in Nat
      /\ cAsked \in Nat \X Nat
  BY DEF C!RecoverInv, C!RecoverTyped
<1>2. /\ C!Eligible \in Nat /\ cRun.oversized \in Nat /\ cRun.maxIsolate \in 1..3
      /\ C!Cardinality(C!Items) = C!Eligible + cRun.oversized
  BY <1>1, RunFacts, RecoverCounts
<1>3. PICK m \in Nat, c \in Nat : m = C!Cardinality(C!Items) /\ m = cPos + c
  <2>1. PICK e \in Nat, o \in Nat, p \in Nat :
          e = C!Eligible /\ o = cRun.oversized /\ p = cPos /\ p <= e
    <3>1. PICK e \in Nat : e = C!Eligible
      BY <1>2
    <3>2. cPos \in 0..e
      BY <1>1, <3>1
    <3>3. cPos \in Nat /\ cPos <= e
      BY <3>2
    <3> QED  BY <1>2, <3>1, <3>3
  <2>2. e + o \in Nat /\ (e + o) - p \in Nat /\ e + o = p + ((e + o) - p)
    BY <2>1
  <2> QED  BY <1>2, <2>1, <2>2
<1>4. cPos \in Nat /\ C!Allowed(cPos) \in Nat /\ C!Allowed(m) \in Nat
      /\ C!Allowed(cPos) + c <= C!Allowed(m)
  <2>1. cPos \in Nat
    BY <1>1, <1>2
  <2> QED  BY <1>1, <1>3, <2>1, AllowedGrows
<1>5. PICK t : t = 2 * cRun.maxIsolate * (m \div 2)
  OBVIOUS
<1>5n. t \in Int
  <2>1. m \div 2 \in Nat
    BY <1>3
  <2> QED  BY <1>2, <1>5, <2>1
<1>6. C!Allowed(m) = m + t /\ C!recoverRequestBound(m, cRun.maxIsolate) = 2 * m + t
  BY <1>5 DEF C!Allowed, C!recoverRequestBound
<1>7. C!Gone \in SUBSET C!Items
  BY DEF C!Gone
<1>8. PICK g \in Nat : g = C!Cardinality(C!Gone) /\ g <= m
  BY <1>1, <1>3, <1>7, ItemCounts
<1>9. C!Left \in Nat
  BY <1>1 DEF C!Left
<1>10. PICK r \in Nat, l \in Nat, x \in Nat, y \in Nat :
         /\ r = cRequests /\ l = C!Left /\ x = C!Allowed(cPos) /\ y = C!Allowed(m)
         /\ r + l <= x + g /\ x + c <= y
  <2>1. cRequests + C!Left <= C!Allowed(cPos) + C!Cardinality(C!Gone)
    BY DEF C!RecoverInv, C!CountInv
  <2> QED  BY <1>1, <1>4, <1>8, <1>9, <2>1
<1>11. r <= 2 * m + t
  <2>1. y = m + t
    BY <1>6, <1>10
  <2>2. r <= x + g /\ x <= y
    BY <1>3, <1>10
  <2>3. r <= y + m
    BY <1>8, <2>2
  <2> QED  BY <1>5n, <2>1, <2>3
<1>12. cAsked[1] <= 2 * cRun.maxIsolate + cAsked[2]
  <2>1. cAsked[1] + C!Left <= 2 * cRun.maxIsolate + cAsked[2]
    BY DEF C!RecoverInv, C!CountInv
  <2>2. PICK a \in Nat, b \in Nat, k \in Nat, h \in Nat :
          a = cAsked[1] /\ b = cAsked[2] /\ k = 2 * cRun.maxIsolate /\ h = C!Left
    BY <1>1, <1>2, <1>9
  <2>3. a + h <= k + b
    BY <2>1, <2>2
  <2>4. a <= k + b
    BY <2>2, <2>3
  <2> QED  BY <2>2, <2>4
<1> QED  BY <1>3, <1>6, <1>10, <1>11, <1>12 DEF C!RequestsBounded

\* A run that was halted starts nothing more, and ends with every item accounted for.
LEMMA HaltKept == C!RecoverInv => C!HaltHeld
<1> SUFFICES ASSUME C!RecoverInv PROVE C!HaltHeld
  OBVIOUS
<1>1. cRun.workers \in Nat \ {0} /\ cLate \in Nat /\ cHalted \in BOOLEAN
      /\ cRun \in RecoverRuns
  BY RunFacts DEF C!RecoverInv, C!RecoverTyped
<1>2. cLate < cRun.workers
  <2>1. C!Checked \in SUBSET C!Items
    BY DEF C!Checked
  <2>2. PICK h \in Nat : h = C!Cardinality(C!Checked)
    BY <1>1, <2>1, ItemCounts
  <2>3. CASE cHalted
    <3>1. cLate + h < cRun.workers
      BY <2>2, <2>3 DEF C!RecoverInv, C!HaltInv
    <3> QED  BY <1>1, <2>2, <3>1
  <2>4. CASE ~cHalted
    <3>1. cLate = 0
      BY <2>4 DEF C!RecoverInv, C!HaltInv
    <3> QED  BY <1>1, <3>1
  <2> QED  BY <2>3, <2>4
<1>3. ASSUME cPc = "done", NEW i \in C!Items
      PROVE  \/ cState[i] = "resolved"
             \/ cState[i] = "failed" /\ cRung[i] = "back"
             \/ cState[i] = "stopped" /\ cHalted
  <2>1. C!ItemRight(i)
    BY DEF C!RecoverInv, C!HaltInv
  <2> QED  BY <1>3, <2>1 DEF C!ItemRight
<1> QED  BY <1>2, <1>3 DEF C!HaltHeld

\* No request crosses the end of a planned chunk, and the size stays in its range.
LEMMA PlanKept == C!RecoverInv => C!WithinPlan
<1> SUFFICES ASSUME C!RecoverInv PROVE C!WithinPlan
  OBVIOUS
<1>1. /\ cRun \in RecoverRuns /\ cSize \in 1..C!Max({1, cRun.ceiling}) /\ cRun.ceiling \in Nat
      /\ C!Max({1, cRun.ceiling}) \in Nat /\ cRun.ends \subseteq Nat
  <2>1. cRun \in RecoverRuns /\ cSize \in 1..C!Max({1, cRun.ceiling})
    BY DEF C!RecoverInv, C!RecoverTyped
  <2> QED  BY <2>1, RunFacts
<1>2. cSize >= 1 /\ cSize <= C!Max({1, cRun.ceiling})
  BY <1>1
<1>3. ASSUME NEW j \in 1..Len(cStack), Len(cStack[j].set) > 0, NEW e \in cRun.ends,
             cStack[j].set[1] <= e
      PROVE  cStack[j].set[Len(cStack[j].set)] <= e
  <2>1. cPc = "chunk"
    <3>1. CASE cPc # "chunk"
      <4>1. cStack = <<>>
        BY <3>1 DEF C!RecoverInv, C!StackInv
      <4> QED  BY <1>3, <4>1
    <3> QED  BY <3>1
  <2>2. Len(cStack[j].set) \in Nat
    BY <2>1, ChunkStack DEF C!RecoverInv
  <2>3. 1 \in 1..Len(cStack[j].set) /\ Len(cStack[j].set) \in 1..Len(cStack[j].set)
    BY <1>3, <2>2
  <2>4. PICK a, b : a = cStack[j].set[1] /\ b = cStack[j].set[Len(cStack[j].set)]
    OBVIOUS
  <2>5. a \in (cPos - cAsked[2] + 1)..cPos /\ b \in (cPos - cAsked[2] + 1)..cPos
    BY <2>1, <2>3, <2>4, ChunkStack DEF C!RecoverInv
  <2>6. cPos \in Nat /\ cAsked[2] \in Nat
        /\ \A x \in cRun.ends : x > cPos - cAsked[2] => x >= cPos
    BY <2>1, ChunkStack DEF C!RecoverInv
  <2>7. e \in Nat /\ a <= e
    BY <1>1, <1>3, <2>4
  <2>8. e > cPos - cAsked[2]
    BY <2>5, <2>6, <2>7
  <2>9. e >= cPos
    BY <2>6, <2>8
  <2>10. b <= e
    BY <2>5, <2>6, <2>7, <2>9
  <2> QED  BY <2>4, <2>10
<1> QED  BY <1>2, <1>3 DEF C!WithinPlan

\* Recovery stays under its bound whatever is answered, starts nothing once it was
\* halted, and sends no request larger than the planner's chunk (recover.go:664).
THEOREM RecoveryIsKept == C!Spec => []RecoveryKept
<1>1. C!RecoverInv => RecoveryKept
  BY RequestsWithin, HaltKept, PlanKept DEF RecoveryKept
<1> QED  BY <1>1, RecoverInductive, PTL

\* Only a request that is asked counts as a batched one of its chunk.
LEMMA OnlyAsking ==
  ASSUME C!RecoverInv, [C!Next]_(C!vars), cAsked'[1] > cAsked[1]
  PROVE  C!Asking
<1>0. cAsked \in Nat \X Nat /\ cAsked[1] \in Nat
  BY DEF C!RecoverInv, C!RecoverTyped
<1>0u. cAsked' # cAsked
  <2>1. cAsked' = cAsked => ~(cAsked'[1] > cAsked[1])
    BY <1>0
  <2> QED  BY <2>1
<1>1. CASE C!NextChunk
  <2>1. cAsked' = <<0, C!ChunkSize>>
    BY <1>0u, <1>1 DEF C!NextChunk
  <2>2. cAsked'[1] = 0 /\ ~(0 > cAsked[1])
    BY <1>0, <2>1
  <2> QED  BY <2>2
<1>2. CASE C!ChunkDone \/ C!SkipJob \/ C!LastRung \/ C!Report \/ C!CallerEnds \/ C!Done
           \/ UNCHANGED C!vars
  <2>1. cAsked' = cAsked
    BY <1>2 DEF C!ChunkDone, C!SkipJob, C!LastRung, C!Report, C!CallerEnds, C!Done, C!countVars,
                C!vars
  <2> QED  BY <1>0u, <2>1
<1>3. CASE C!EncodeFails \/ C!BelowFloor
  BY <1>3 DEF C!EncodeFails, C!BelowFloor
<1>4. ASSUME NEW f \in C!Failures, C!CallFails(f) PROVE C!Asking
  BY <1>4 DEF C!CallFails
<1>5. ASSUME NEW took \in 0..C!Eligible, NEW o, C!Answered(took, o) PROVE C!Asking
  BY <1>5 DEF C!Answered
<1>6. ASSUME NEW i \in C!Items,
             \/ C!Start(i) \/ C!SendAlone(i) \/ C!Resolves(i) \/ C!DiesAlone(i)
             \/ \E f \in C!Failures : C!FailsAlone(i, f)
      PROVE  C!Asking
  <2>1. cAsked' = cAsked
    BY <1>6 DEF C!Start, C!SendAlone, C!Resolves, C!DiesAlone, C!FailsAlone, C!countVars
  <2> QED  BY <1>0u, <2>1
<1> QED  BY <1>1, <1>2, <1>3, <1>4, <1>5, <1>6 DEF C!Next

\* A batched request asks only about open items, each of them among fewer than the
\* last time, and is sent by a run that goes on (recover.go:493).
THEOREM NeverAsksAgain == C!Spec => NeverAgain
<1>2. ASSUME C!RecoverInv, [C!Next]_(C!vars), cAsked'[1] > cAsked[1]
      PROVE  /\ ~cHalted
             /\ \A j \in 1..Len(Head(cStack).set) :
                  /\ cState[Head(cStack).set[j]] = "open"
                  /\ \/ cLatest[Head(cStack).set[j]] = 0
                     \/ Len(Head(cStack).set) < cLatest[Head(cStack).set[j]]
  <2>1. C!Asking
    BY <1>2, OnlyAsking
  <2>2. /\ cPc = "chunk" /\ cStack # <<>> /\ cStack \in Seq(C!Jobs)
        /\ Len(C!Job.set) > 1 \/ C!Job.one
    BY <1>2, <2>1, AskingFacts
  <2>3. Head(cStack) = cStack[1] /\ C!Job = cStack[1] /\ 1 \in 1..Len(cStack)
    BY <2>2, JobFacts DEF C!Job
  <2>4. ~cHalted
    BY <1>2, <2>2, EarlyRungs
  <2>5. \A j \in 1..Len(cStack[1].set) : cState[cStack[1].set[j]] = "open"
    BY <1>2, <2>2, <2>3, ChunkStack DEF C!RecoverInv
  <2>6. \A j \in 1..Len(cStack[1].set) :
          cLatest[cStack[1].set[j]] = 0 \/ Len(cStack[1].set) < cLatest[cStack[1].set[j]]
    BY <1>2, <2>2, <2>3, ChunkStack DEF C!RecoverInv
  <2> QED  BY <2>3, <2>4, <2>5, <2>6
<1> DEFINE Once ==
      cAsked'[1] > cAsked[1] =>
        /\ ~cHalted
        /\ \A j \in 1..Len(Head(cStack).set) :
             LET i == Head(cStack).set[j] IN
               /\ cState[i] = "open"
               /\ cLatest[i] = 0 \/ Len(Head(cStack).set) < cLatest[i]
<1>3. C!RecoverInv /\ [C!Next]_(C!vars) => Once
  BY <1>2
<1>4. C!Spec => [][Once]_(C!vars)
  BY <1>3, RecoverInductive, PTL DEF C!Spec
<1> QED  BY <1>4 DEF NeverAgain, C!NeverAgain

=============================================================================

----------------------------- MODULE PlanCache -----------------------------
(***************************************************************************)
(* The bounded cache of type plans: typePlanCache of                       *)
(* v2/internal/ops/typeplan.go.  A lookup and a look at the count take no   *)
(* lock; a plan is added under one, its entry first and the count after.   *)
(* Each access to the map and to the count is a step of its own.           *)
(* What a plan holds is worked out by the first caller to read it, once    *)
(* (lazyValue.get); the computation may panic or end its goroutine.        *)
(***************************************************************************)
EXTENDS Naturals, FiniteSets

CONSTANTS
  Callers,     \* goroutines that ask for a plan
  Types,
  Limit        \* typePlanLimit

Nobody == 0

VARIABLES
  entries,     \* the types whose plan is kept, each with the caller that made it
  count, mu,
  at, type,    \* where each caller is, and the type it asks for
  plan,        \* whose plan it was given: its own may be kept or not
  once,        \* of each plan: whether its value was worked out, or is being
  value, fault,
  runs         \* history: computations of each plan's value

cacheVars == <<entries, count, mu>>
lazyVars == <<once, value, fault, runs>>
vars == <<cacheVars, at, type, plan, lazyVars>>

Init ==
  /\ entries = [t \in Types |-> Nobody] /\ count = 0 /\ mu = Nobody
  /\ at = [c \in Callers |-> "look"]
  /\ type \in [Callers -> Types]
  /\ plan = [c \in Callers |-> Nobody]
  /\ once = [p \in Callers |-> "not"] /\ value = [p \in Callers |-> "zero"]
  /\ fault = [p \in Callers |-> "none"] /\ runs = [p \in Callers |-> 0]

Kept(t) == entries[t] # Nobody
Full == count >= Limit

Goto(c, l) == at' = [at EXCEPT ![c] = l]
Given(c, p) == Goto(c, "given") /\ plan' = [plan EXCEPT ![c] = p]

-----------------------------------------------------------------------------
Look(c) ==
  /\ at[c] = "look"
  /\ IF Kept(type[c]) THEN Given(c, entries[type[c]]) ELSE Goto(c, "count") /\ UNCHANGED plan
  /\ UNCHANGED <<cacheVars, type, lazyVars>>

Count(c) ==
  /\ at[c] = "count" /\ Goto(c, IF Full THEN "again" ELSE "lock")
  /\ UNCHANGED <<cacheVars, type, plan, lazyVars>>

\* Mutant: a full cache is not looked at again.
LookAgain_Not(c) ==
  at[c] = "again" /\ Given(c, c) /\ UNCHANGED <<cacheVars, type, lazyVars>>

\* Nothing is added to a full cache, so what is not there now never will be.
LookAgain(c) ==
  /\ at[c] = "again"
  /\ Given(c, IF Kept(type[c]) THEN entries[type[c]] ELSE c)
  /\ UNCHANGED <<cacheVars, type, lazyVars>>

\* store: the lock, the look under it, and the entry.
AddEntry(c) ==
  /\ at[c] = "lock" /\ mu = Nobody
  /\ IF Kept(type[c]) \/ Full
     THEN /\ Given(c, IF Kept(type[c]) THEN entries[type[c]] ELSE c)
          /\ UNCHANGED <<entries, mu>>
     ELSE /\ entries' = [entries EXCEPT ![type[c]] = c] /\ mu' = c
          /\ Goto(c, "added") /\ UNCHANGED plan
  /\ UNCHANGED <<count, type, lazyVars>>

AddCount(c) ==
  /\ at[c] = "added" /\ Given(c, c)
  /\ count' = count + 1 /\ mu' = Nobody
  /\ UNCHANGED <<entries, type, lazyVars>>

-----------------------------------------------------------------------------
\* lazyValue.get.  The caller that finds the once unused works the value out; the
\* others wait until that has ended, in whichever way.
Compute(c) ==
  /\ at[c] = "given" /\ once[plan[c]] = "not"
  /\ once' = [once EXCEPT ![plan[c]] = "running"]
  /\ runs' = [runs EXCEPT ![plan[c]] = @ + 1]
  /\ Goto(c, "computing") /\ UNCHANGED <<cacheVars, type, plan, value, fault>>

OnceDone(c, l) == once' = [once EXCEPT ![plan[c]] = "done"] /\ Goto(c, l)

Computed(c) ==
  /\ at[c] = "computing" /\ OnceDone(c, "given")
  /\ value' = [value EXCEPT ![plan[c]] = "worked"]
  /\ UNCHANGED <<cacheVars, type, plan, fault, runs>>

\* The panic is recovered: this caller reads the fault as the others do.
ComputePanics(c) ==
  /\ at[c] = "computing" /\ OnceDone(c, "given")
  /\ fault' = [fault EXCEPT ![plan[c]] = "panic"]
  /\ UNCHANGED <<cacheVars, type, plan, value, runs>>

\* Mutant: a fault is noted for a recovered panic only.
ComputeExits_Unnoted(c) ==
  /\ at[c] = "computing" /\ OnceDone(c, "gone")
  /\ UNCHANGED <<cacheVars, type, plan, value, fault, runs>>

\* runtime.Goexit: there is nothing to recover, and the goroutine goes on ending.
ComputeExits(c) ==
  /\ at[c] = "computing" /\ OnceDone(c, "gone")
  /\ fault' = [fault EXCEPT ![plan[c]] = "exit"]
  /\ UNCHANGED <<cacheVars, type, plan, value, runs>>

ReadValue(c) ==
  /\ at[c] = "given" /\ once[plan[c]] = "done"
  /\ Goto(c, IF fault[plan[c]] # "none" THEN "panicked" ELSE "returned")
  /\ UNCHANGED <<cacheVars, type, plan, lazyVars>>

Ended == {"returned", "panicked", "gone"}

Next ==
  \/ \E c \in Callers :
       \/ Look(c) \/ Count(c) \/ LookAgain(c) \/ AddEntry(c) \/ AddCount(c)
       \/ Compute(c) \/ Computed(c) \/ ComputePanics(c) \/ ComputeExits(c) \/ ReadValue(c)
  \/ (\A c \in Callers : at[c] \in Ended) /\ UNCHANGED vars

Spec == Init /\ [][Next]_vars

-----------------------------------------------------------------------------
\* Goroutines that ask for one type are given one plan: the kept one, or, only
\* when the cache has no room for the type now or ever, each its own; and the
\* cache keeps no more than its limit (typeplan.go:55-64, 83-86).
OnePlan ==
  /\ \A c \in Callers :
       at[c] \in {"given", "computing"} \cup Ended =>
         IF Kept(type[c]) THEN plan[c] = entries[type[c]] ELSE plan[c] = c /\ Full
  /\ Cardinality({t \in Types : Kept(t)}) <= Limit

\* A plan's value is worked out at most once, and a reader is returned that value or
\* panics: never the zero value a computation that did not return has left, however
\* it ended (typeplan.go:121-138).
NeverZero ==
  /\ \A p \in Callers : runs[p] <= 1
  /\ \A c \in Callers :
       /\ at[c] = "returned" => value[plan[c]] = "worked"
       /\ at[c] = "panicked" => value[plan[c]] = "zero"

-----------------------------------------------------------------------------
(***************************************************************************)
(* The inductive invariant behind OnePlan and NeverZero.                   *)
(***************************************************************************)
Having == {"given", "computing"} \cup Ended

PlanCacheTypes ==
  /\ entries \in [Types -> Callers \cup {Nobody}] /\ count \in Nat
  /\ mu \in Callers \cup {Nobody}
  /\ at \in [Callers -> {"look", "count", "again", "lock", "added"} \cup Having]
  /\ type \in [Callers -> Types] /\ plan \in [Callers -> Callers \cup {Nobody}]
  /\ once \in [Callers -> {"not", "running", "done"}]
  /\ value \in [Callers -> {"zero", "worked"}]
  /\ fault \in [Callers -> {"none", "panic", "exit"}] /\ runs \in [Callers -> Nat]

\* The count is that of the entries but for one that is being added, by the holder of
\* the lock; and who looks again has seen a full cache.
EntriesCounted ==
  /\ count + (IF mu = Nobody THEN 0 ELSE 1) = Cardinality({t \in Types : Kept(t)})
  /\ mu # Nobody => at[mu] = "added"
  /\ \A c \in Callers : /\ at[c] = "added" => mu = c /\ entries[type[c]] = c
                        /\ at[c] = "again" => Full

\* A value is worked out by one caller, and a computation that ended has left a value
\* or a fault.
OnceTrue ==
  /\ \A c \in Callers : at[c] \in Having => plan[c] \in Callers
  /\ \A c \in Callers : at[c] = "computing" => once[plan[c]] = "running"
  /\ \A c, d \in Callers :
       at[c] = "computing" /\ at[d] = "computing" /\ plan[c] = plan[d] => c = d
  /\ \A p \in Callers :
       /\ runs[p] = IF once[p] = "not" THEN 0 ELSE 1
       /\ IF once[p] = "done" THEN value[p] = "worked" <=> fault[p] = "none"
          ELSE value[p] = "zero" /\ fault[p] = "none"
  /\ \A c \in Callers :
       /\ at[c] = "returned" => once[plan[c]] = "done" /\ value[plan[c]] = "worked"
       /\ at[c] = "panicked" => once[plan[c]] = "done" /\ value[plan[c]] = "zero"

PlanCacheInv == PlanCacheTypes /\ EntriesCounted /\ OnceTrue /\ OnePlan
=============================================================================

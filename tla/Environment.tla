---------------------------- MODULE Environment ----------------------------
(***************************************************************************)
(* Settings read from the environment once and kept: the cells of          *)
(* v2/internal/config/environment.go.  A goroutine looks without the lock, *)
(* then with it, reads the variable and stores it; ReloadEnvironment       *)
(* empties the cells one by one, each under its lock.  The variable is     *)
(* changed by the program at any time; a value is the number of changes.   *)
(***************************************************************************)
EXTENDS Naturals

CONSTANTS
  Readers,
  Cells,        \* 1 to the number of cells, in the order they are emptied
  MaxChanges    \* bound: changes of the environment

Nothing == 0
Nobody == 0

VARIABLES
  env,             \* what the variables say now, from 1
  value, mu,       \* each cell's kept value, and who holds its lock
  at, cell, got,   \* where each reader is, at which cell, and what it has
  reload,          \* the next cell ReloadEnvironment empties, Nothing = none
  \* History.
  from, floor,     \* env when the reload began, and when the last that ended did
  due,             \* floor when each reader began
  reads            \* reads of each cell since it was emptied

cellVars == <<value, mu, reads>>
readerVars == <<at, cell, got, due>>
reloadVars == <<reload, from, floor>>
vars == <<env, cellVars, readerVars, reloadVars>>

Init ==
  /\ env = 1 /\ reload = Nothing /\ from = 1 /\ floor = 1
  /\ value = [c \in Cells |-> Nothing] /\ mu = [c \in Cells |-> Nobody]
  /\ reads = [c \in Cells |-> 0]
  /\ at = [r \in Readers |-> "idle"] /\ cell = [r \in Readers |-> 1]
  /\ got = [r \in Readers |-> Nothing] /\ due = [r \in Readers |-> 1]

Change ==
  /\ env <= MaxChanges /\ env' = env + 1
  /\ UNCHANGED <<cellVars, readerVars, reloadVars>>

-----------------------------------------------------------------------------
Goto(r, l) == at' = [at EXCEPT ![r] = l]
Answer(r, v) == Goto(r, "got") /\ got' = [got EXCEPT ![r] = v]

\* The look without the lock.
Get(r, c) ==
  /\ at[r] \in {"idle", "got"}
  /\ cell' = [cell EXCEPT ![r] = c] /\ due' = [due EXCEPT ![r] = floor]
  /\ IF value[c] # Nothing THEN Answer(r, value[c])
     ELSE Goto(r, "lock") /\ got' = [got EXCEPT ![r] = Nothing]
  /\ UNCHANGED <<env, cellVars, reloadVars>>

\* Mutant: what another goroutine has stored meanwhile is read again.
Held_Unasked(r) == FALSE

Held(r) == value[cell[r]] # Nothing

\* The lock, and the look under it.
Lock(r) ==
  /\ at[r] = "lock" /\ mu[cell[r]] = Nobody
  /\ IF Held(r) THEN Answer(r, value[cell[r]]) /\ UNCHANGED mu
     ELSE Goto(r, "read") /\ mu' = [mu EXCEPT ![cell[r]] = r] /\ UNCHANGED got
  /\ UNCHANGED <<env, value, reads, cell, due, reloadVars>>

Read(r) ==
  /\ at[r] = "read" /\ Goto(r, "store")
  /\ got' = [got EXCEPT ![r] = env]
  /\ reads' = [reads EXCEPT ![cell[r]] = @ + 1]
  /\ UNCHANGED <<env, value, mu, cell, due, reloadVars>>

Store(r) ==
  /\ at[r] = "store" /\ Goto(r, "got")
  /\ value' = [value EXCEPT ![cell[r]] = got[r]]
  /\ mu' = [mu EXCEPT ![cell[r]] = Nobody]
  /\ UNCHANGED <<env, reads, cell, got, due, reloadVars>>

-----------------------------------------------------------------------------
ReloadBegins ==
  /\ reload = Nothing /\ reload' = 1 /\ from' = env
  /\ UNCHANGED <<env, cellVars, readerVars, floor>>

\* Mutant: a cell is emptied beside a goroutine that is filling it.
Forget_Unlocked ==
  /\ reload \in Cells /\ reload' = reload + 1
  /\ value' = [value EXCEPT ![reload] = Nothing]
  /\ reads' = [reads EXCEPT ![reload] = 0]
  /\ UNCHANGED <<env, mu, readerVars, from, floor>>

Forget ==
  /\ reload \in Cells /\ mu[reload] = Nobody /\ reload' = reload + 1
  /\ value' = [value EXCEPT ![reload] = Nothing]
  /\ reads' = [reads EXCEPT ![reload] = 0]
  /\ UNCHANGED <<env, mu, readerVars, from, floor>>

ReloadEnds ==
  /\ reload # Nothing /\ reload \notin Cells
  /\ reload' = Nothing /\ floor' = from
  /\ UNCHANGED <<env, cellVars, readerVars, from>>

Next ==
  \/ Change \/ ReloadBegins \/ Forget \/ ReloadEnds
  \/ \E r \in Readers : (\E c \in Cells : Get(r, c)) \/ Lock(r) \/ Read(r) \/ Store(r)

Spec == Init /\ [][Next]_vars

-----------------------------------------------------------------------------
\* A setting asked for after ReloadEnvironment has returned is one read since the
\* reload began, also when a goroutine was filling the cell beside it; and
\* goroutines that find a cell empty together share one read
\* (environment.go:17-18, 30-32).
ReloadCounts ==
  /\ \A r \in Readers : at[r] = "got" => got[r] >= due[r]
  /\ \A c \in Cells : reads[c] <= 1

-----------------------------------------------------------------------------
(***************************************************************************)
(* The inductive invariant behind ReloadCounts.                            *)
(***************************************************************************)
EnvironmentTypes ==
  /\ env \in Nat /\ reload \in Nat /\ from \in Nat /\ floor \in Nat
  /\ value \in [Cells -> Nat] /\ reads \in [Cells -> Nat]
  /\ mu \in [Cells -> Readers \cup {Nobody}]
  /\ at \in [Readers -> {"idle", "lock", "read", "store", "got"}]
  /\ cell \in [Readers -> Cells] /\ got \in [Readers -> Nat] /\ due \in [Readers -> Nat]

Emptied(c) == reload # Nothing /\ c < reload

\* What is kept was read since the last reload began, and in a cell that a reload has
\* emptied since that one began.
KeptFresh ==
  /\ 1 <= floor /\ floor <= from /\ from <= env
  /\ \A c \in Cells : value[c] # Nothing =>
       value[c] >= floor /\ (Emptied(c) => value[c] >= from)

\* The lock is held while a cell is filled, and what is about to be stored in it is as
\* fresh as what is kept.
FillsFresh ==
  /\ \A r \in Readers : at[r] \in {"read", "store"} => mu[cell[r]] = r
  /\ \A r \in Readers : at[r] = "store" =>
       got[r] >= floor /\ (Emptied(cell[r]) => got[r] >= from)

\* An empty cell that nobody fills was not read since.
ReadsShared ==
  /\ \A c \in Cells : /\ reads[c] <= 1
                      /\ mu[c] = Nobody /\ value[c] = Nothing => reads[c] = 0
  /\ \A r \in Readers : at[r] = "read" => reads[cell[r]] = 0

AnswersDue ==
  \A r \in Readers : due[r] <= floor /\ (at[r] = "got" => got[r] >= due[r])

EnvironmentInv ==
  EnvironmentTypes /\ KeptFresh /\ FillsFresh /\ ReadsShared /\ AnswersDue
=============================================================================

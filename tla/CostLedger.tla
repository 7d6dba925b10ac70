----------------------------- MODULE CostLedger -----------------------------
(***************************************************************************)
(* The process-wide ledger: TrackCost of v2/internal/runtime/pricing       *)
(* (pricing.go, analytics.go), its period totals, its bounded history with *)
(* the index by request, and the queue of budget alerts one goroutine at a  *)
(* time delivers.  A call records under costMutex and the queue's mutex in *)
(* one step; delivering is a step per critical section and per callback.   *)
(***************************************************************************)
EXTENDS Integers, Sequences, FiniteSets

CONSTANTS
  Tracked,     \* calls of TrackCost
  Entry,       \* each call's cost (-1 = not priced) and request
  Limit,       \* each period's limit, 0 = none
  HistoryLimit,
  MaxDay, MaxResets   \* bounds: midnights, and resets of the ledger or budget

\* The deliverer that takes over from one whose callback ended its goroutine.
Spawned == 0
Goroutines == Tracked \cup {Spawned}
Periods == DOMAIN Limit
Thresholds == <<8, 10>>   \* tenths of a limit
Requests == {Entry[c].request : c \in Tracked}

VARIABLES
  day, keys,             \* today, and the day each call reads before it locks
  totals, notified,      \* by period instance
  alerting,              \* budgetCallback is set
  history, start, index, \* the ring, its oldest slot, the slot of each request
  queued, delivering,
  at,                    \* where each goroutine is
  \* History.
  recorded,              \* calls in the order they were recorded, since a reset
  raised, delivered,     \* alerts, in the order they were queued and called back
  epoch, fresh,          \* since the announcements were forgotten: totals added to
  resets

ringVars == <<history, start, index>>
queueVars == <<queued, delivering>>
ledgerVars == <<totals, notified, ringVars>>
alertVars == <<raised, delivered>>
epochVars == <<epoch, fresh>>
vars == <<day, keys, ledgerVars, alerting, queueVars, at, recorded, alertVars,
          epochVars, resets>>

\* A period's instance: a week is longer than the days the bound allows.
Key(period, d) == <<period, IF period = "daily" THEN d ELSE 0>>
Keys == {Key(period, d) : period \in Periods, d \in 0..MaxDay}

Init ==
  /\ day = 0 /\ keys = [c \in Tracked |-> 0]
  /\ totals = [k \in Keys |-> 0] /\ notified = [k \in Keys |-> {}]
  /\ alerting = TRUE
  /\ history = <<>> /\ start = 0 /\ index = [r \in Requests |-> 0]
  /\ queued = <<>> /\ delivering = FALSE
  /\ at = [g \in Goroutines |-> IF g = Spawned THEN "done" ELSE "idle"]
  /\ recorded = <<>> /\ raised = <<>> /\ delivered = <<>> /\ epoch = 0
  /\ fresh = {} /\ resets = 0

Goto(g, l) == at' = [at EXCEPT ![g] = l]

-----------------------------------------------------------------------------
\* pushCostRecord, on a ring of slots 1..HistoryLimit.
Oldest == start + 1

\* Mutant: an evicted request keeps its index entry.
IndexAfter_Kept(slot, request) == [index EXCEPT ![request] = slot]

\* An evicted request's entry goes, unless a newer record has it.
IndexAfter(slot, request) ==
  LET gone == IF slot <= Len(history) THEN history[slot].request ELSE request
      kept == IF index[gone] = slot THEN [index EXCEPT ![gone] = 0] ELSE index
  IN [kept EXCEPT ![request] = slot]

pushCostRecord(c) ==
  LET full == Len(history) = HistoryLimit
      slot == IF full THEN Oldest ELSE Len(history) + 1
      record == [call |-> c, request |-> Entry[c].request]
  IN /\ history' = IF full THEN [history EXCEPT ![slot] = record]
                   ELSE Append(history, record)
     /\ start' = IF full THEN (start + 1) % HistoryLimit ELSE start
     /\ index' = IndexAfter(slot, Entry[c].request)

\* The totals with a cost of the day d added.
Amount(c) == IF Entry[c].cost < 0 THEN 0 ELSE Entry[c].cost
TotalsWith(c, d) ==
  [k \in Keys |-> totals[k] + IF \E p \in Periods : k = Key(p, d) THEN Amount(c) ELSE 0]

\* dueBudgetNotices: the thresholds newly crossed, 80 percent before 100.
Crossed(tot, period, d, i) ==
  /\ alerting /\ Limit[period] > 0
  /\ 10 * tot[Key(period, d)] >= Limit[period] * Thresholds[i]

\* Mutant: the announcements are not remembered.
Due_Unremembered(tot, period, d, i) == Crossed(tot, period, d, i)

Due(tot, period, d, i) ==
  Crossed(tot, period, d, i) /\ i \notin notified[Key(period, d)]

Notice(period, d, i) == [key |-> Key(period, d), threshold |-> i, epoch |-> epoch]
NoticeIf(tot, period, d, i) ==
  IF Due(tot, period, d, i) THEN <<Notice(period, d, i)>> ELSE <<>>
NoticesOf(tot, period, d) ==
  NoticeIf(tot, period, d, 1) \o NoticeIf(tot, period, d, 2)

\* Daily, then weekly.
DueNotices(tot, d) == NoticesOf(tot, "daily", d) \o NoticesOf(tot, "weekly", d)

\* recordCost and add: whoever adds an alert delivers it if nobody does.
RecordCost(c, d) ==
  LET tot == TotalsWith(c, d)
      due == DueNotices(tot, d)
  IN /\ pushCostRecord(c) /\ totals' = tot
     /\ notified' = [k \in Keys |->
                       notified[k] \cup {due[i].threshold : i \in
                                           {j \in 1..Len(due) : due[j].key = k}}]
     /\ queued' = queued \o due /\ raised' = raised \o due
     /\ delivering' = (delivering \/ due # <<>>)
     /\ recorded' = Append(recorded, c)
     /\ fresh' = fresh \cup {Key(p, d) : p \in Periods}

\* TrackCost: the day is read before the lock is taken.
TrackCost(c) ==
  /\ at[c] = "idle" /\ Goto(c, "keyed") /\ keys' = [keys EXCEPT ![c] = day]
  /\ UNCHANGED <<day, ledgerVars, alerting, queueVars, recorded, alertVars, epochVars, resets>>

Record(c) ==
  /\ at[c] = "keyed" /\ RecordCost(c, keys[c])
  /\ Goto(c, IF queued' # queued /\ ~delivering THEN "loop" ELSE "done")
  /\ UNCHANGED <<day, keys, alerting, delivered, epoch, resets>>

-----------------------------------------------------------------------------
\* deliver: the queue's oldest alert is taken and called back with no lock held.
Take(g) ==
  /\ at[g] = "loop" /\ queued # <<>>
  /\ queued' = Tail(queued) /\ delivered' = Append(delivered, Head(queued))
  /\ Goto(g, "callback")
  /\ UNCHANGED <<day, keys, ledgerVars, alerting, delivering, recorded, raised, epochVars, resets>>

\* Mutant: the flag is cleared in a critical section of its own.
Stop_Apart(g) ==
  /\ \/ at[g] = "loop" /\ queued = <<>> /\ Goto(g, "clearing") /\ UNCHANGED delivering
     \/ at[g] = "clearing" /\ Goto(g, "done") /\ delivering' = FALSE
  /\ UNCHANGED <<day, keys, ledgerVars, alerting, queued, recorded, alertVars, epochVars, resets>>

\* The flag is cleared in the section that finds the queue empty.
Stop(g) ==
  /\ at[g] = "loop" /\ queued = <<>> /\ Goto(g, "done") /\ delivering' = FALSE
  /\ UNCHANGED <<day, keys, ledgerVars, alerting, queued, recorded, alertVars, epochVars, resets>>

\* The callback returns, or panics and is recovered.
CallbackReturns(g) ==
  /\ at[g] = "callback" /\ Goto(g, "loop")
  /\ UNCHANGED <<day, keys, ledgerVars, alerting, queueVars, recorded, alertVars, epochVars, resets>>

\* The callback records a cost: its alerts wait for the callback to return.
CallbackRecords(g, c) ==
  /\ at[g] = "callback" /\ at[c] = "idle" /\ RecordCost(c, day)
  /\ Goto(c, "done")
  /\ UNCHANGED <<day, keys, alerting, delivered, epoch, resets>>

\* Mutant: a goroutine that ends only gives up the flag.
CallbackExits_Alone(g) ==
  /\ at[g] = "callback" /\ Goto(g, "done") /\ delivering' = FALSE
  /\ UNCHANGED <<day, keys, ledgerVars, alerting, queued, recorded, alertVars, epochVars, resets>>

\* The callback ends its goroutine (runtime.Goexit): another takes over.
CallbackExits(g) ==
  /\ at[g] = "callback"
  /\ IF queued # <<>>
       THEN at' = [at EXCEPT ![g] = "done", ![Spawned] = "loop"] /\ UNCHANGED delivering
       ELSE Goto(g, "done") /\ delivering' = FALSE
  /\ UNCHANGED <<day, keys, ledgerVars, alerting, queued, recorded, alertVars, epochVars, resets>>

-----------------------------------------------------------------------------
Midnight ==
  /\ day < MaxDay /\ day' = day + 1
  /\ UNCHANGED <<keys, ledgerVars, alerting, queueVars, at, recorded, alertVars, epochVars, resets>>

\* Mutant: the announcements outlive the totals they were about.
Forget_Totals == UNCHANGED notified /\ epoch' = epoch + 1 /\ fresh' = {}

\* The announcements belong to the totals and to the limits.
Forget == notified' = [k \in Keys |-> {}] /\ epoch' = epoch + 1 /\ fresh' = {}

ResetCostTracking ==
  /\ resets < MaxResets /\ resets' = resets + 1 /\ Forget
  /\ totals' = [k \in Keys |-> 0] /\ recorded' = <<>>
  /\ history' = <<>> /\ start' = 0 /\ index' = [r \in Requests |-> 0]
  /\ UNCHANGED <<day, keys, alerting, queueVars, at, alertVars>>

SetCostHistoryLimit ==
  /\ resets < MaxResets /\ resets' = resets + 1
  /\ history' = <<>> /\ start' = 0 /\ index' = [r \in Requests |-> 0] /\ recorded' = <<>>
  /\ UNCHANGED <<day, keys, totals, notified, alerting, queueVars, at, alertVars, epochVars>>

\* ReplaceBudget and ResetBudget: limits, callback and announcements at once.
ReplaceBudget ==
  /\ resets < MaxResets /\ resets' = resets + 1 /\ Forget /\ alerting' \in BOOLEAN
  /\ UNCHANGED <<day, keys, totals, ringVars, queueVars, at, recorded, alertVars>>

Deliver(g) ==
  \/ Take(g) \/ Stop(g) \/ CallbackReturns(g) \/ CallbackExits(g)
  \/ \E c \in Tracked : CallbackRecords(g, c)

LedgerNext ==
  \/ \E c \in Tracked : TrackCost(c) \/ Record(c)
  \/ \E g \in Goroutines : Deliver(g)
  \/ Midnight \/ ResetCostTracking \/ SetCostHistoryLimit \/ ReplaceBudget

\* Every call has returned and no alert is being delivered.
Finished == (\A g \in Goroutines : at[g] = "done") /\ UNCHANGED vars

Spec == Init /\ [][LedgerNext \/ Finished]_vars

-----------------------------------------------------------------------------
\* One goroutine at a time delivers, the flag says whether one does, and an
\* alert in the queue always has one: none is left for a later call.
NoAlertStranded ==
  LET active == {g \in Goroutines : at[g] \in {"loop", "callback"}} IN
  /\ Cardinality(active) <= 1
  /\ delivering <=> active # {}
  /\ queued # <<>> => active # {}

\* Alerts reach the callback in the order the thresholds were crossed, each
\* threshold of a period once, 80 percent before 100, and a total that is over a
\* threshold has been announced: a reset makes the next crossing a new one.
AlertsInOrder ==
  /\ delivered \o queued = raised
  /\ \A i, j \in 1..Len(raised) : i < j =>
       /\ raised[i] # raised[j]
       /\ raised[i].key = raised[j].key /\ raised[i].epoch = raised[j].epoch =>
            raised[i].threshold < raised[j].threshold
  /\ \A period \in Periods, d \in 0..MaxDay, i \in {1, 2} :
       Key(period, d) \in fresh =>
         (Crossed(totals, period, d, i) <=>
            \E n \in 1..Len(raised) : raised[n] = Notice(period, d, i))

\* The history holds the last records, oldest first from its start, and the
\* index gives each request its newest record that is still held, or none.
IndexRight ==
  LET n == Len(history)
      at0(i) == history[((start + i - 1) % HistoryLimit) + 1]
  IN /\ n = IF Len(recorded) < HistoryLimit THEN Len(recorded) ELSE HistoryLimit
     /\ \A i \in 1..n : at0(i).call = recorded[Len(recorded) - n + i]
     /\ \A r \in Requests :
          IF \E s \in 1..n : history[s].request = r
          THEN /\ index[r] \in 1..n /\ history[index[r]].request = r
               /\ \A i \in 1..n : at0(i).request = r =>
                    \E j \in i..n : at0(j) = history[index[r]]
          ELSE index[r] = 0
=============================================================================

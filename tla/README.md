# Verification of SchemaFlux

SchemaFlux (`v2/`) is a Go library that turns typed operations (extract,
classify, summarise, rank, ...) into calls to language models. Most of its lines
describe requests and read answers; they are functions of one input and tests
reach them. What tests hardly reach is the part that decides *when* a call is
made, *who* waits, what is counted, and what becomes of a call that is
cancelled, repeated, duplicated, shared or refused. This directory holds TLA+
models of that part, the TLC configurations that check them on small instances,
and proofs, checked by TLAPS, of their main properties for every instance.

`PROJECT.json` is the index: components, runs, the line ranges each definition
models, one deliberate defect ("mutant") per checked property, hazards and
theorems. In the modules a definition named `X_Something` with the comment
*Mutant* is such a defect: no specification uses it, and substituting it for `X`
must make TLC report the property it is listed with.

## 1. Inventory

An operation builds a completion request. The client may hold a process-wide
**scheduler**, which admits the call; the call then goes through a chain of
**middleware**, each wrapping the next, down to a provider. Batch operations put
a **bounded pool** above all this. Every part is called from many goroutines at
once and has its own mutex; none calls another with its mutex held, so what
interacts is the calls that pass through several parts and the contexts that end
them.

| Component (under `v2/internal/`) | State | Operations | What is hard | Correct when |
| --- | --- | --- | --- | --- |
| Scheduler, `ops/scheduler.go` | queues per tenant and class, a tenant rotation with one cursor per class, in-flight counters, wake channel, cancel functions, wait group | Submit, cancellation of a waiter, the dispatcher's pass, registration, release, Close | a Submit takes five or more lock sections; the dispatcher, its own cancellation and Close race for the same waiter | counters equal what is held; limits hold; no wake-up is lost; Close reaches all that runs and drains; every Submit returns |
| Circuit breaker, `ops/resilience.go` | per key: state, streaks, time of opening, probes in flight | Allow, report | reports come late and in any state; probes of an earlier half-open period are still running | probes counted exactly and bounded; only a probe closes it; a recovered endpoint is served again |
| Breaker middleware, `runtime/mw/circuitbreaker.go` | bounded table of model keys | Complete: key, State, Allow, verdict | State and Allow are two lock sections | keys stable and bounded; probe slots given back |
| Bulkhead, `ops/resilience.go`, `runtime/mw/bulkhead.go` | per key: capacity, slots, wake channel | TryAcquire, Acquire, release | a release between the look and the wait; the first named limit stays | the wall holds; nobody sleeps past a free slot |
| Result cache, `runtime/mw/cache.go` | entries with expiry and order, claims in flight | Get, Set, sweep, evict, claim, lead, follow | a leader fails, panics or is cancelled while others wait for it | identical calls pay once; cancellations and answers stay with those they belong to |
| Hedging, `runtime/mw/hedge.go` | per request: two copies, a channel, a timer, two contexts | send, delay, loop, drain | several ready channels in one `select` | no outcome is lost to that choice; no goroutine is left |
| Budget, `runtime/mw/budget.go` | the ledger | refuse, reserve, call, settle | the ledger is open to others while the call runs | the ledger is exact; overruns are bounded |
| Rate limit, `runtime/mw/ratelimit.go` | token bucket, lazily refilled | take, wait, refuse | waits are rounded and cut; others take the token one waited for | the rate holds in every window; a full wait suffices |
| Bounded pool, `ops/plan_many.go` | step counter, wait group, first error | take a step, replace a worker, return | steps fail, panic or end their goroutine | all goroutines joined; the cause is reported; bound holds |
| Retry, fallback, `runtime/mw/` | per call only | attempts, waits, routes | a context that ends before or during a wait; whose error is in hand then | every usable route is tried, nothing is repeated that cannot be cured or after the context ended, the error tells what happened |
| Client admission, `ops/llm_helper.go`, `clientlimits.go`, `clientbudget.go` | the client's ledger, a process total | callRequest, throughScheduler, charge, repeats | ledger and context are read, then a slot is waited for; Close and the caller end the same context | every answer bought is paid once; the ceiling is passed only by calls under way; a call ends for the reason it is told |
| Adaptive sizing and recovery, `ops/adaptive.go`, `ops/recover.go` | chunk size, compliance run, a stack of sets, a halt | chunk, split, last rung, Record | long sequences of outcomes; a halt while several requests fly | requests bounded, none sent again as it was, nothing started after a halt, every item accounted for |
| Speculative flow, `ops/flow.go` | per call: branches, their contexts | BranchAhead, BranchBoth, RouteAhead | a decision fails or ends its goroutine while branches run | no branch outlives its call; only the picked one decides its result |
| Text streams, `ops/streaming.go`, `streamend.go` | buffer, outcome, flags, the slot held | produce, range, Cancel, Detach, drain, Err | several parties may end it; a full buffer nobody reads | one outcome for everyone; accounted once; the end of a context lets go of the slot |
| Sessions, `ops/session.go` | history, a busy flag | Send, SendResults, and the caller who edits the history between turns | turns of several goroutines, replies that do not fit | whole turns only; the transcript rules hold exactly |
| Process ledger, `runtime/pricing/` | totals by period, history ring and index, alert queue | TrackCost, deliver, resets | callbacks that record costs, or end their goroutine; midnight between two reads | no alert stranded or out of order; the index finds what is held |
| Checkpoints, `ops/checkpoint.go` | the store's records, by run and step | Checkpoint: load, produce, save; Delete | a crash or a failed save between an effect and its record; a run id used for other work | a step is repeated only without its record; no answer of other work is handed out |
| Settings, `setting/setting.go` | a stack of layers, the value in force | Set, the restore it returns | restores late, twice, in any order | the newest value not yet restored is in force |
| Environment, `config/environment.go` | one kept value per variable | get, ReloadEnvironment | a reload beside a goroutine that fills the cell | nothing older than the last reload is handed out |
| Type plans, `ops/typeplan.go` | a map, a count, a limit; per plan a once, a value, a fault | plan, store, get | the look and the count take no lock; the goroutine that works a value out may end | one plan for a type; the limit holds; nobody is given the zero value of a computation that never returned |

Retry repeats what a route answered and fallback moves on to another route;
hedging and the cache change how many calls reach the provider for one request;
breaker, bulkhead, rate limit and budget refuse or delay it. A refusal by one of
these is an error with a kind, which is all the layers above read.

## 2. Modules

One module per component, with an `MC` module where an instance needs
definitions. A step of a model is one critical section, one channel operation,
one `select`, or one access to an atomic, so every interleaving the Go memory
model allows between properly synchronised goroutines is a behaviour. Contexts,
panics and providers are environment actions.

**`Scheduler`** (with `MCScheduler`, `SchedulerLoop`, `SchedulerProofs`). `pc[c]`
is where Submit `c` is, `dpc` where `dispatchLoop` is, `cpc[k]` where Close `k`
is. `mu` is held over several steps only for `admitAllLocked`, which is one step
per waiter it expires or admits (`Expire`, `Admit`, until `PassDone`), by the
dispatcher or by the Submit inside `enqueue`; no other critical section can come
between. `admitted[c]` is the waiter's one-place channel, and `Send` blocks when
it is full, as in the code. `woken` says that the wake channel the dispatcher
captured is closed. `CancelWaiter` followed by `ReleaseReservationOnly` is the
branch of Submit in which the context ends although an admission may have come
first; `RegisterInFlight` is refused once the scheduler is closed; `Release`
gives the slot back before `WgDone`. Costs are integers, and an estimate that is
not a number is a negative one, which fails the same check. `enqueue` reads the
clock for its own check and again for the pass that follows under the same lock, so
`EnqueuePush` may find it a tick on.

**`CircuitBreaker`**, **`CircuitBreakerMW`**. `Allow` and `report` are one action
each. The clock is kept as the age of an open period, which stops at
`OpenDuration`: the code compares nothing else. `CircuitBreakerMW` extends the
breaker with `Complete`: `Key`, `ReadState`, `AskAllow`, `NextReturns`, then
`Report` or `Unreported`. It uses the breaker's own actions, so the two modules
cannot drift apart.

**`Bulkhead`**. The wake channel of a key is a member of `wake`; a caller waiting
on a channel that has been closed is in `woken`. `TryAcquire` is the middleware
made with RejectWhenFull.

**`Cache`**. Answers are told apart by the call that bought them. The key is the
record of the axes that matter (question, tenant, data policy); the digests the
code computes over them are taken to be collision-free. `LeadRead` ... `LeadClose`
are the leader's steps in the code's order, including the deferred ones that run
when the provider panics.

**`Hedge`**. One request: requests share nothing. `CopyEnds` and `CopySends` are
the goroutine of a copy; the rest is the caller's goroutine, one action for each
`select` branch. `Honours` and `Delays` cover a provider that ignores its context
and the setting with no delay.

**`Budget`**. Between `Reserve` and `Settle` the provider and the cost function
run. The settings are drawn at `Init`, so one run covers every choice of them.

**`RateLimit`**. A tick is a nanosecond and a token is `Interval` units of which a
tick brings `N`; only the wait is rounded, as in the code. The bucket is an exact number
here and a `float64` in the code, whose rounding is not modelled. `excess` is a history
variable: what was taken beyond the earned rate in the worst window ending now.
`turn[c]` is one too: no token was taken since `c` computed an uncut wait.

**`Pool`**. `runBounded`: each access to the counter, wait group, context and
`sync.Once` is a step. `late` is a history variable.

**`Gate`** is the abstract specification of the scheduler: a call waits, is given
one of `Slots` places or refused with a reason that is true, runs only while the
gate is open, and gives its place back once. `Scheduler` maps to it with
`PlaceOf` (a waiter whose channel holds an admission is inside already) and
implements it (`ImplementsGate`). Queues, tenants, classes, the lock and the
dispatcher do not appear in it.

**`Call`** extends `Gate`: `callRequest` uses the scheduler only through what the
gate promises. `Begin` asks the ledgers, then each attempt is `AgainContext`,
`AgainBudget`, the wait in the gate, `InsideContext` and `InsideBudget` under the
slot, `Send`, `ProviderReturns`, `GiveBack`, `Returned`, `Charge`, `Settle`; the
same steps without a gate for a client that has no scheduler. The order of
`GiveBack` and `Charge` is the code's. An answer costs one unit, or an unknown
amount when it reports no usage or its model has no price; one served from a cache
costs nothing, also when it is then refused. `stoppedByShutdown`
tells Close from the caller's own end.

**`Routes`**: a retry around a fallback whose routes have a retry of their own, as
`retry.go` and `fallback.go` compose; one attempt outside or inside gives either
alone. Errors are their kinds and the kind behind them in the chain. The length of
a wait does not matter, its end and the end of the context do.

**`Recover`**: `RunOpManyRecover`. `NextChunk` takes the next chunk inside the plan,
the stack of jobs is the splitting of what a request left, `Start`, `SendAlone` and
`Resolves` or `FailsAlone` are the last rung's goroutines, `Record` is
`AdaptiveChunkState`. An answer is the number of items it resolved.

**`TextStream`**: `runStream` and its readers. One step per section of `resultMu`,
channel operation and look at a context. The several conditions under which the
producer, a range, the drain or `Cancel` claims the outcome are the actions that
write `final`. Text is a count of pieces. A provider that panics runs the deferred
functions (`ProviderPanics`); the panic then goes on and ends the process, which cuts
every other goroutine short at any point, so what holds in each state holds then too.
A provider that is deaf to its context may never return, or send without end.

**`CostLedger`**: `TrackCost` reads the day, then records totals, ring and index and
queues the alerts that are due in one critical section; `Take`, the callback and
`Stop` are the deliverer. A callback may return, record a cost itself, or end its
goroutine, in which case a spawned one goes on.

**`Session`**: `CheckTranscript` is the scan over messages the code makes,
`WellFormed` the rules stated over the whole transcript, and `SessionSound`
compares the two. The histories a caller starts with and the model's replies are
constants; a reply is an assistant's message that answers no call, as `CallTurn`
makes it. **`Ahead`**: a branch
is what it is doing; telling it to stop and waiting for it are separate.

**`Checkpoint`**: a program that calls `Checkpoint` for one step after another. Load
(`Resume`, `Undecodable`, `Miss`, `LoadFails`), `Produce` and `Save` are separate, so
that the process can die between any two of them (`Crash`) and be started again on
the same input or on other work. `durable` chooses between the store in memory,
which dies with the process, and a caller's own, which may fail before or after it
has written (`SaveUnconfirmed`). A record made for another result type may decode
into the one asked for, or not, and is then handed over as it is or refused. `effects` and `forgotten` are history: how often a
step was carried out on an input, and how often its record was never made or was
lost.

**`Layers`**: `Set` and the restore it returns, each one step under the lock; a
restore may be called at any time and any number of times. **`Environment`**: a
cell's `get` as its look, its lock, its read and its store, beside
`ReloadEnvironment`, which empties one cell after another. A value is the number of
changes made to the environment before it was read; `due[r]` is the one a reader may
not fall behind. **`PlanCache`**: `plan` and `store` with each access to the map and
to the count a step; a plan is named by the caller that made it. `Compute` to
`ReadValue` are `lazyValue.get`: the first reader works the value out, and may panic
or end its goroutine while others wait.

**Shared instances.** Components that share nothing are put side by side, so that
one run and one module of proofs serve several. `Breakers`, `Waits`, `Spend` and
`Work` each extend one component (`CircuitBreaker`, `RateLimit`, `Cache`, `Pool`)
and hold the others as instances with variables of their own: the breaker under
its middleware in `Breakers`; the bulkhead and the hedged request in `Waits`; the
budget and the ledger in `Spend`; `Routes`, `Recover`, `Ahead`, `Session`,
`Checkpoint`, `Layers`, `Environment` and `PlanCache` in `Work`. What is said of a
component is named there, and so are the assumptions on its constants. The `MC`
module of each adds a variable `part`, chosen at `Init`, that says which component
runs while the others rest in their initial state; fairness is stated per part. The
state graph is the disjoint union of theirs. The theorems are about each
component's own specification.

## 3. What the runs show

Twelve runs; eight pass and four show that the code does not do what a comment
says of it. All are exhaustive for their instance.

| Run | Instance | Shows |
| --- | --- | --- |
| `sched` | 5 Submits, 2 tenants, 2 providers, every limit set, one deadline, one cancellation | counters exact and within limits (`CapacityKept`), token and cost ceilings (`EstimatesRespected`), queue bounded and rotation exact (`QueueKept`), no wake-up lost, no admission after a deadline and a refusal for a full queue only when it is full (`AdmissionRight`) |
| `sched_close` | 2 Submits on one place, two Close calls, one cancellation, with fairness | every waiter answered once, by Close too; all that runs is cancelled; "drained" means quiet; no `wg.Add` during the wait; every Submit returns and Close drains (`EverythingEnds`); the scheduler implements `Gate` |
| `sched_turns` | 4 Submits of 3 tenants on one place, two submitted again for ever | *violated:* finding 1 |
| `breaker` | direct: 3 callers, 2 keys, thresholds 2, 2 probes; middleware: 2 calls, 2 models, room for 1 model key | probes counted exactly and bounded; one model, one key, and probes never undercounted through the middleware (`MiddlewareKeys`); only a probe closes a tripped breaker; it recovers under fair traffic |
| `breaker_mw_slots` | the middleware, 2 callers | *violated:* finding 2 |
| `waits` | rate: 2 callers, burst 2, 5/2 ticks a token, waits cut at 2; bulkhead: 4 calls of one key with limits 2, 2, 1, -1, one rejecting; hedge: one request, all four settings | the rate holds in every window and a full wait suffices (`LimiterExact`); the wall holds and nobody sleeps past a free slot (`WallKept`); no outcome lost, observer and mark truthful (`HedgeHonest`); every wait ends, every Acquire returns, a hedged request returns on cancellation and leaves no copy (`HedgeEnds`) |
| `spend` | cache: 4 calls, 2 tenants, one entry, TTL 1; budget: 3 calls, 18 settings; ledger: 4 calls, 2 of one request, daily and weekly limits, history of 2, one midnight, one reset | single flight and nothing bought twice (`BoughtOnce`); no inherited cancellation, no foreign answer (`AnswersOwn`); nobody stranded; budget exact and its overrun bounded (`BudgetKept`); alerts delivered, once and in order, and the index of the history ring finds exactly what it holds (`CostsKept`) |
| `work` | pool: 3 steps on 2 workers; routes: 3 routes, 4 combinations of attempts, every set of qualified alternates; recovery: 4 plans; ahead: 3 functions; session: 2 turns, saved histories of up to 5 well-formed messages and one more; checkpoints: 2 steps, 3 starts, 2 inputs, 2 result types; layers: 4 calls of Set; environment: 2 readers, 2 cells, 2 changes; plans: 3 callers, 2 types, room for one | pool joined, bounded, its cause reported (`PoolKept`); routes tried, repeats bounded, the error tells what happened (`RoutesKept`); recovery bounded, halted, within its plan (`RecoveryKept`); no batched request sent again as it was (`NeverAgain`); `AheadKept`; one turn at a time and the transcript check exact (`SessionSound`); whole turns (`TurnsWhole`); nothing repeated that has its record and no answer of other work (`ResumeKept`); settings, environment and plans as every operation reads them (`SharedKept`); none can get stuck (deadlock is checked) |
| `call` | 2 calls, 1 slot, 2 attempts, 10 client settings | every bought answer charged once, the ceiling passed by at most the calls under way (`SpendKept`); the reason told is true and nothing is sent after a look that found the context ended (`EndsRight`); every call returns |
| `call_overrun` | 3 calls, 1 slot, a ceiling of one answer | *violated:* finding 3 |
| `stream` | up to 2 ranges, buffer 1, up to 3 pieces, 8 scenarios | one outcome told to all; one record, one charge, no text beside the drain (`StreamAccounted`); a context's end frees producer and readers (`StreamLetsGo`) |
| `stream_whole` | one reader, the caller's context ends | *violated:* finding 4 |

**Bounds.** Each instance is the smallest in which the contested situation has one
contestant more than room: five requests for two places and a queue of one (one
runs, one is refused by a bulkhead, one by the ceiling, one by the queue);
two identical claims of a cache key beside another tenant's and one that may not
use the cache; three probes for two slots; three steps for two workers, so that a
replaced worker meets a live one; two calls for one slot of the gate; a buffer of
one piece and two pieces of text, and three where a second range could take two more
beside a drain; a chunk of eight items, the smallest whose
splits would send more than its budget; a history of two records for four calls;
three starts of a program, so that one on other work comes between two on the same;
four calls of Set, so that a restore out of order has values above and below it.
`MaxTime` bounds clocks at the first tick after a deadline or expiry, as later
times are not told apart. In the rate limiter the clock is unbounded: ages stop
at `Horizon`, where the bucket is full in any case. In `sched` no limit is zero;
in `sched_close` every limit but one is, so both branches of each capacity check
run. `TextStream` has eight scenarios instead of every combination of events: each
pairs the events that can race for the outcome. What they leave out, such as every
kind of last chunk against Close, is in the proofs, which take any scenarios.

**Fairness.** Goroutines that can move do (weak fairness per goroutine). No
caller is made to call, no context made to end, no provider made to return unless
stated here. *Scheduler:* work returns by itself, but once Close was called it
may wait for the end of its context, which is what Close's comment is about.
*Breaker:* calls return, time passes, and every endpoint keeps being asked; the
last is strong fairness, as a caller busy with one key must come back to the
other. *Bulkhead:* calls inside return. *Hedge:* the provider returns only if it
honours its context and that context ended; the timer fires. *Rate:* the clock
runs, and the property speaks of behaviours in which calls stop being made,
since a bucket without a queue promises no order. *Call:* a call that was begun
goes on, which includes the gate's answer (`sched_close` shows that it comes),
the provider answers, and Close reaches what runs; Close itself and the ends of
contexts are not fair. *Stream:* the library's goroutines run and a loop's body
returns; a provider that honours its context returns once that has ended, and a
deaf one may never, or may send for ever, in which case a range that keeps taking
is handed text for ever and `StreamLetsGo` says that it is never left waiting. The other components need none: a stuck one is a deadlock,
and `NoneStranded` and `NoAlertStranded` say as invariants that whoever is waited
for is still on its way.

## 4. What is proved

Eight modules hold theorems: seven beside the components, and `SumTheorems`. Every
safety property a passing run checks, invariant or action property, is proved for
all values of the constants that satisfy the named assumptions, without bounds on
calls, keys, items, messages or time.

**The assumptions** are what the code's constructors and types ensure, and TLC
evaluates them on every run: finite sets of calls, workers, routes and types;
natural limits; thresholds, buffers, bursts and attempts of at least one, as the
defaults make them; amounts that are integers; names that do not collide. Those
that say more than a type: `RateAssumption`, that after `Horizon` ticks the bucket
is full, which is why ages may stop there; `RecoverConstants`, that the ends of
planned chunks are finitely many positions; `SessionConstants`, that saved
histories are sequences of messages and that what a model replies is an assistant's
message that answers no call.

**`SchedulerProofs`.** `Shapes /\ IInv` is inductive, and `IInv` joins five parts.
`QueueInv`: a queued call is in its own list once, has no answer, and the rotation
is exact; without it one could not show that `removeFromQueue` removes exactly one
and that a send finds room. `SlotInv`: counters are cardinalities of the holders and
within the limits; a counter alone says nothing of who may give it back. `CloseInv`:
the wait group counts registered calls, and after Close what runs is cancelled or
about to be. `LockInv`: who holds the lock is in its pass; nothing is queued once
closed; a sleeping dispatcher has been woken if something fits. `SubmitInv`: what a
submit at each place has been told. From it `CapacityKept`, `QueueKept`,
`OneAnswer`, `NoLostWakeup`, `CloseKept`, `NoAddAfterClose` and `AdmissionRight`.
`GateImplemented` is the refinement: `PlaceOf` maps initial states to initial states
of `Gate`, and every step is a step of the gate or leaves it as it is; which one it
is, is shown action by action, and the invariant supplies what the gate's guards ask
(`SlotInv` the free place, `CloseInv` and `LockInv` the open gate). `EstimateInv`
carries the token and cost totals as sums over the holders, on `SumTheorems`.

**`CircuitBreakerProofs`.** `BInv` is types, the exact count of probes, its bound,
and the streak bounds. The count has to be carried through every state since probes
outlive the period they were admitted in. `MWInv` says that a request uses its
model's key if there is one and found the table full otherwise, that the breaker
knows only keys that were handed out, and that probes are not undercounted; it gives
`MiddlewareKeys`.

**`SpendProofs`.** *Cache:* `CInv` says that a leader owns its key, that a call on
its way to the provider found nothing stored, and that stored, shared and returned
answers belong to their key; `NoneStranded` is proved on top of it. *Budget:*
`BudgetInv` makes the ledger the sum of what each call has settled or still
reserves, so that the overrun is bounded by the calls that ran together. *Ledger:*
`LedgerInv` is types, who delivers (`DeliveryInv`), that the alerts raised are those
delivered followed by those queued and that `notified` names exactly them
(`AlertInv`), and that the ring holds the newest
records with the index pointing at the newest of each request (`RingInv`).

**`WaitsProofs`.** `RInv` adds `BucketCovers` (bucket content and excess never exceed
the burst together) and `WaitCovers` (what is missing comes in the ticks that are
left); the argument is the arithmetic of the rounded wait. The bulkhead's `BInv`
adds that a capacity is fixed before anybody is inside or waits. `HedgeInv` keeps
every outcome in one place: with its goroutine, in the channel, or noted.

**`CallProofs`.** `CallInv` joins the gate's own invariant with what the ledgers
hold: the process total is behind the client's ledger by exactly the answers being
settled (`TotalBehind`), and once the ceiling is reached the spend and the calls
under way stay below it and the calls that were exposed then (`ExposureInv`).
`BlameRight` is carried along: a reason is true from the moment it is decided, not
only when it is told.

**`TextStreamProofs`.** `SInv`: once an outcome is decided everyone who tells one
tells that one (`Told`, `Verdict`), for a reason that happened (`Reasons`); the
record and the charge are made by the one who decided (`Booked`); nobody takes text
beside the drain (`Aside`). `Ends` says that an outcome which names the end of a
context names the one that ended, without which a record could call a stopped stream
failed. Ranges, buffer, pieces and scenarios are arbitrary.

**`WorkProofs`**, a section for each part.
- *Pool:* `PoolInv` counts the live goroutines in the wait group and gives every
  step to one goroutine at most.
- *Routes:* `RoutesInv`: routes are asked in order, a failure is told as it was, and
  at most one request follows the end of the context.
- *Recovery:* `RecoverInv`. `CountInv` counts the requests a chunk has left against
  it from its start. `StackInv` says that the jobs on the stack share no item, stay
  in the chunk, and ask about open items last asked about among more. `HaltInv` says
  what each item is at each stage and how many workers may still send after a halt.
  From it the bound on requests, the halt and the plan (`RecoveryKept`), and that no
  batched request asks again as it did (`NeverAgain`).
- *Speculation:* `AheadInv`. *Checkpoints:* `CheckpointInv`, that each time a step
  was carried out is in the store, in hand or forgotten. *Settings:* `LayersInv`,
  the linked layers in the order they were set with the newest standing one in
  force. *Environment:* `EnvironmentInv`, that what is kept, or about to be, is no
  older than the last reload and, in a cell already emptied, than the present one.
  *Plans:* `PlanCacheInv`.
- *Conversations:* `TurnsInv`, that a turn has before it the conversation it began
  with until it is kept, and `WordsInv`, that what a turn adds is what was checked
  and what the reply was checked against. `TranscriptChecked` says that the fold of
  `CheckTranscript` computes exactly the rules of its doc comment, for transcripts
  of any length. The state of the check after any set of first messages is given in
  closed form (`Seen`): this is a table the fold's recursion accepts, and a least
  counterexample shows that it accepts one table only. With it, `SessionSound` and
  `TurnsWhole` follow from the invariants.

**`SumTheorems`.** `SumFunctionOnSet` folds over a finite set in an unspecified
order. The module shows that the fold is defined, that any element may be taken
first (`SumRemove`), and what adding or changing one summand does. These inductions,
and those over positions and sets in `WorkProofs`, are appeals to a least
counterexample under a well-founded order, since the library's induction rules take
an operator and no prover here can supply one.

**Only model-checked.** Liveness: `EverythingEnds`, `Recovers`, the returns of
`Acquire`, the ends of waits and hedged requests, `CallReturns`, `StreamLetsGo`. They
rest on fairness and ENABLED, which TLAPS does not reason about here. That no part
of `work` can get stuck is TLC's deadlock check. The four violations of section 5
are counterexamples and need no proof.

## 5. Findings

1. `sched_turns` (`scheduler.go:525`). The comment of `nextAdmittableLocked`
   promises every tenant "a turn each pass". An idle tenant leaves the rotation
   and joins again at its end, ahead of the wrap; two tenants that each keep one
   request queued can take turns there for ever while a third one's queued
   request waits.
2. `breaker_mw_slots` (`circuitbreaker.go:186`). A call that reads the state
   closed and is admitted later, after a trip and the end of the open period,
   holds a probe slot the middleware does not know of. If it ends without a
   verdict the slot is never given back.

3. `call_overrun` (`llm_helper.go:758`). The comment of `ClientBudget` says that a
   bound on the calls in flight, by the scheduler, bounds the spend past the
   ceiling. The slot is given back when the provider has answered and the answer
   is charged afterwards, so the next call takes the slot and passes a ledger
   that does not know of it. With one slot and a ceiling of one answer, three calls
   buy three answers: two past the ceiling, where one slot would allow one. `CeilingKept` states what does hold: the calls under
   way, not the slots, bound the overrun.
4. `stream_whole` (`streaming.go:347`). The comment of `TextStream` says that
   appending what a range hands over reconstructs the answer. A range released by
   the end of the context can find the queue empty, after which the producer
   queues its last text and claims success; the range then ends without an error
   and without that text.

Smaller disagreements between a comment and the code met on the way, not kept as
runs:

- `circuitbreaker.go:47-49` says a call admitted while the breaker was closed
  reports nothing when it ends without a verdict. A call that read half-open and
  was then admitted by a closed breaker is reported as a success, which clears
  the count of failures.
- `cache.go:204-206` says every call emits an event. A follower whose context
  ends while it waits (line 583) emits none.
- `hedge.go:30-31` says the observer is told of each request. With a delay of
  zero (line 158) it is told nothing.
- `budget.go:160-161` says `AllowUnpricedCalls` changes only budgets that estimate
  from the request. Lines 266-271 charge nothing for an answer that cannot be
  measured whenever it was given, a provider's own estimate included.
- `plan_many.go:300-301` says a failure keeps any further step from starting. A
  worker that has looked at the context already starts one more step;
  `StepsStarted` states what the code does.

## 6. Not modelled, and what is left

Most lines of the repository are typed operations (prompt construction, JSON
extraction, schemas, decoding and validation of answers), provider HTTP clients,
price tables, options and configuration, telemetry, examples and the public
wrappers. They keep no state that two steps could disagree about: a model of them
would repeat them, and tests over inputs suit them better. The models therefore
cover a small share of the lines and the parts where order matters. `Batch`,
map-reduce and votes run on `runBounded`, which `Pool` models; what
they add is the assembly of results by position.

Inside modelled components these are left out: float rounding in sums of costs and
in the bucket of the rate limiter; `SetBudget` of `pricing.go:845-863`, which changes
the limits and keeps what was notified, and `SetBudgetEnforcement`, which only tests
call (`ReplaceBudget` is the one the public functions use);
collisions of cache keys and of checkpoint fingerprints; two reloads of the
environment at once; the length of retry waits; the requests `repair.go` makes
inside one request; opening a stream and the recorded stream; how `turn.go` builds a
provider's request; reports over the cost history. The middleware are checked one by
one: each reads only the kind of the error of the one below, and those kinds are the
environment of each model.

No safety property of a passing run is left without a proof. The next statement worth
making is `Call` over the scheduler itself instead of the gate: `GateImplemented` and
`SpendIsKept` give it together, but no single theorem states it.

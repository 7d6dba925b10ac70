-------------------------------- MODULE Cache -------------------------------
(***************************************************************************)
(* The exact-result cache of internal/runtime/mw/cache.go: the in-memory   *)
(* store with its expiry, sweep and eviction, and the single flight in     *)
(* front of it.  The first caller to claim a key leads: it reads the       *)
(* store, calls the provider on a miss, stores what is complete, frees the *)
(* key and then wakes the callers that wait on it.                         *)
(*                                                                         *)
(* An answer is told apart by the call that bought it and by whether it is *)
(* complete (llm.ClassifyCompletion).  Every caller makes one call.        *)
(***************************************************************************)
EXTENDS Integers, FiniteSets

CONSTANTS
  Calls,
  Request,       \* call -> [ask, tenant, policy, schemaValid]
  MayCancel,     \* the calls whose context may end
  NoOne, NoEntry,
  MaxEntries,    \* cacheDefaultMaxEntries
  SweepEvery,    \* cacheSweepEvery
  TTL,           \* 0: an entry does not expire
  MaxTime        \* bound on the clock

\* A policy that is declared and does not set AllowResultCaching is "mayNot".
Policies == {"undeclared", "mayCache", "mayNot"}

ASSUME CacheConstants ==
  /\ \A c \in Calls : Request[c].policy \in Policies
  /\ MaxEntries \in Nat \ {0} /\ SweepEvery \in Nat \ {0}
  /\ TTL \in Nat /\ MaxTime \in Nat
  /\ NoOne \notin Calls /\ MayCancel \subseteq Calls

\* The key holds every axis of the request, hashed, with the tenant and the
\* data policy among them.
Key_NoTenant(c) ==       \* Mutant: the partition is left out
  [ask |-> Request[c].ask, tenant |-> "any", policy |-> Request[c].policy]
Key(c) == [ask |-> Request[c].ask, tenant |-> Request[c].tenant,
           policy |-> Request[c].policy]
Keys == {Key(c) : c \in Calls}

Bypassed(c) == ~Request[c].schemaValid \/ Request[c].policy = "mayNot"

VARIABLES
  entries,     \* key -> what the store holds
  sets,        \* the number of writes of the store
  now,
  inflight,    \* key -> the call that leads, or NoOne
  pc, waitOn,
  shared,      \* leader -> what its cacheCall holds for the followers
  done,        \* the leaders whose done channel is closed
  ctxDone, result, emitted

storeVars == <<entries, sets>>
flightVars == <<inflight, shared, done>>
callVars == <<pc, waitOn, result, emitted>>
vars == <<storeVars, flightVars, callVars, now, ctxDone>>

\* What a call ends with: an answer somebody bought, or no answer.
Answer(c, complete) == [kind |-> "answer", by |-> c, complete |-> complete]
NoAnswer(kind) == [kind |-> kind, by |-> NoOne, complete |-> FALSE]
Outcome == [kind : {"none", "answer", "failed", "panicked", "canceled"},
            by : Calls \cup {NoOne}, complete : BOOLEAN]

Init ==
  /\ entries = [k \in Keys |-> NoEntry]
  /\ sets = 0
  /\ now = 0
  /\ inflight = [k \in Keys |-> NoOne]
  /\ pc = [c \in Calls |-> "start"]
  /\ waitOn = [c \in Calls |-> NoOne]
  /\ shared = [c \in Calls |-> [outcome |-> NoAnswer("none"), abandoned |-> FALSE]]
  /\ done = {}
  /\ ctxDone = {}
  /\ result = [c \in Calls |-> NoAnswer("none")]
  /\ emitted = {}

Goto(c, l) == pc' = [pc EXCEPT ![c] = l]
Ends(c, o) == result' = [result EXCEPT ![c] = o]
Emit(c) == emitted' = emitted \cup {c}

-----------------------------------------------------------------------------
(* The store *)

Present == {k \in Keys : entries[k] # NoEntry}
Expired(e) == e.expiresAt # 0 /\ now >= e.expiresAt

\* Get drops an entry that has expired.
Fresh(k) == entries[k] # NoEntry /\ ~Expired(entries[k])
GetDrops(k) == entries' = [entries EXCEPT ![k] = IF Fresh(k) THEN @ ELSE NoEntry]

SweepDue == (sets + 1) % SweepEvery = 0 \/ Cardinality(Present) >= MaxEntries

Kept == {k \in Present : ~(SweepDue /\ Expired(entries[k]))}

\* The keys evicted to make room, oldest first, when the key is a new one.
Evicted(k) ==
  IF k \in Kept \/ Cardinality(Kept) < MaxEntries THEN {}
  ELSE {j \in Kept : \A i \in Kept : entries[i].order >= entries[j].order}

\* One eviction makes room, since every set leaves at most MaxEntries entries.
Set(k, answer) ==
  /\ sets' = sets + 1
  /\ entries' = [j \in Keys |->
       IF j = k THEN [answer |-> answer, order |-> sets + 1,
                      expiresAt |-> IF TTL > 0 THEN now + TTL ELSE 0]
       ELSE IF j \in Kept \ Evicted(k) THEN entries[j] ELSE NoEntry]

-----------------------------------------------------------------------------
(* Complete *)

\* Neither read nor stored, and nobody waits for it.
Bypass(c) ==
  /\ pc[c] = "start" /\ Bypassed(c)
  /\ Emit(c)
  /\ Goto(c, "direct")
  /\ UNCHANGED <<storeVars, flightVars, waitOn, result, now, ctxDone>>

\* What the wrapped provider may do with the request of c.
ProviderOutcomes(c) ==
  {Answer(c, TRUE), Answer(c, FALSE), NoAnswer("failed"), NoAnswer("panicked")}
    \cup (IF c \in ctxDone THEN {NoAnswer("canceled")} ELSE {})

DirectReturns(c) ==
  /\ pc[c] = "direct"
  /\ \E o \in ProviderOutcomes(c) : Ends(c, o)
  /\ Goto(c, "done")
  /\ UNCHANGED <<storeVars, flightVars, waitOn, emitted, now, ctxDone>>

\* LoadOrStore: the first caller leads, a later one waits on it.
Claim_Always(c) ==      \* Mutant: loaded and stored in two steps
  /\ pc[c] = "start" /\ ~Bypassed(c)
  /\ inflight' = [inflight EXCEPT ![Key(c)] = c]
  /\ Goto(c, "read")
  /\ UNCHANGED <<storeVars, waitOn, shared, done, result, emitted, now, ctxDone>>
Claim(c) ==
  /\ pc[c] = "start" /\ ~Bypassed(c)
  /\ IF inflight[Key(c)] = NoOne
     THEN /\ inflight' = [inflight EXCEPT ![Key(c)] = c]
          /\ Goto(c, "read")
          /\ UNCHANGED waitOn
     ELSE /\ waitOn' = [waitOn EXCEPT ![c] = inflight[Key(c)]]
          /\ Goto(c, "wait")
          /\ UNCHANGED inflight
  /\ UNCHANGED <<storeVars, shared, done, result, emitted, now, ctxDone>>

\* The leader's result is what the followers will be given.
Settle(c, o, abandoned) ==
  /\ shared' = [shared EXCEPT ![c] = [outcome |-> o, abandoned |-> abandoned]]
  /\ Ends(c, o)

cacheable(o) == o.kind = "answer" /\ o.complete

LeadRead(c) ==
  /\ pc[c] = "read"
  /\ GetDrops(Key(c))
  /\ IF Fresh(Key(c)) /\ cacheable(entries[Key(c)].answer)
     THEN /\ Settle(c, entries[Key(c)].answer, FALSE)
          /\ Emit(c)
          /\ Goto(c, "delete")
     ELSE /\ Goto(c, "check")
          /\ UNCHANGED <<shared, result, emitted>>
  /\ UNCHANGED <<sets, inflight, done, waitOn, now, ctxDone>>

\* A call that was given up on while the store was read is not sent.
LeadCheck(c) ==
  /\ pc[c] = "check"
  /\ IF c \in ctxDone
     THEN /\ Settle(c, NoAnswer("canceled"), TRUE)
          /\ Emit(c)
          /\ Goto(c, "delete")
     ELSE /\ Goto(c, "next")
          /\ UNCHANGED <<shared, result, emitted>>
  /\ UNCHANGED <<storeVars, inflight, done, waitOn, now, ctxDone>>

\* A failure while the leader's own context was over is not an answer.
Abandoned_Never(c, o) == FALSE        \* Mutant
Abandoned(c, o) == o.kind \in {"failed", "canceled"} /\ c \in ctxDone

AfterNext_ReleasesFirst(c, o) ==      \* Mutant: the key is free before the set
  /\ inflight' = [inflight EXCEPT ![Key(c)] = NoOne]
  /\ Goto(c, IF cacheable(o) THEN "set" ELSE "delete")
AfterNext(c, o) ==
  /\ Goto(c, IF cacheable(o) THEN "set" ELSE "delete")
  /\ UNCHANGED inflight

NextReturns(c) ==
  /\ pc[c] = "next"
  /\ \E o \in ProviderOutcomes(c) :
       /\ Settle(c, o, Abandoned(c, o))
       /\ AfterNext(c, o)
       /\ emitted' = IF o.kind = "panicked" THEN emitted ELSE emitted \cup {c}
  /\ UNCHANGED <<storeVars, done, waitOn, now, ctxDone>>

LeadSet(c) ==
  /\ pc[c] = "set"
  /\ Set(Key(c), shared[c].outcome)
  /\ Goto(c, "delete")
  /\ UNCHANGED <<flightVars, waitOn, result, emitted, now, ctxDone>>

\* The deferred release, on a panic too: first the key, then the followers.
LeadDelete(c) ==
  /\ pc[c] = "delete"
  /\ inflight' = [inflight EXCEPT ![Key(c)] = NoOne]
  /\ Goto(c, "close")
  /\ UNCHANGED <<storeVars, shared, done, waitOn, result, emitted, now, ctxDone>>

LeadClose_NotOnPanic(c) ==     \* Mutant: followers of a panic are not woken
  /\ pc[c] = "close"
  /\ done' = IF shared[c].outcome.kind = "panicked" THEN done ELSE done \cup {c}
  /\ Goto(c, "done")
  /\ UNCHANGED <<storeVars, inflight, shared, waitOn, result, emitted, now, ctxDone>>
LeadClose(c) ==
  /\ pc[c] = "close"
  /\ done' = done \cup {c}
  /\ Goto(c, "done")
  /\ UNCHANGED <<storeVars, inflight, shared, waitOn, result, emitted, now, ctxDone>>

FollowerWoken(c) ==
  /\ pc[c] = "wait" /\ waitOn[c] \in done
  /\ LET led == shared[waitOn[c]]
     IN  CASE led.abandoned /\ c \notin ctxDone ->
                /\ Goto(c, "start") /\ UNCHANGED <<result, emitted>>
           [] led.abandoned /\ c \in ctxDone ->
                /\ Goto(c, "done") /\ Ends(c, NoAnswer("canceled"))
                /\ UNCHANGED emitted
           [] OTHER ->
                /\ Goto(c, "done") /\ Ends(c, led.outcome)
                /\ Emit(c)
  /\ waitOn' = [waitOn EXCEPT ![c] = NoOne]
  /\ UNCHANGED <<storeVars, flightVars, now, ctxDone>>

FollowerCanceled(c) ==
  /\ pc[c] = "wait" /\ c \in ctxDone
  /\ Goto(c, "done") /\ Ends(c, NoAnswer("canceled"))
  /\ waitOn' = [waitOn EXCEPT ![c] = NoOne]
  /\ UNCHANGED <<storeVars, flightVars, emitted, now, ctxDone>>

-----------------------------------------------------------------------------

EndContext(c) ==
  /\ c \in MayCancel \ ctxDone /\ pc[c] # "done"
  /\ ctxDone' = ctxDone \cup {c}
  /\ UNCHANGED <<storeVars, flightVars, callVars, now>>

Tick ==
  /\ TTL > 0 /\ now < MaxTime
  /\ now' = now + 1
  /\ UNCHANGED <<storeVars, flightVars, callVars, ctxDone>>

AllDone == (\A c \in Calls : pc[c] = "done") /\ UNCHANGED vars

Step(c) ==
  \/ Bypass(c) \/ DirectReturns(c) \/ Claim(c) \/ LeadRead(c) \/ LeadCheck(c)
  \/ NextReturns(c) \/ LeadSet(c) \/ LeadDelete(c) \/ LeadClose(c)
  \/ FollowerWoken(c) \/ FollowerCanceled(c)

Next == (\E c \in Calls : Step(c) \/ EndContext(c)) \/ Tick \/ AllDone

Spec == Init /\ [][Next]_vars

-----------------------------------------------------------------------------
(* Properties *)

Labels == {"start", "direct", "read", "check", "next", "set", "delete",
           "close", "wait", "done"}

\* Identical calls at the same instant pay once: no two of them are with the
\* provider together.
SingleFlight == \A c, d \in Calls :
  pc[c] = "next" /\ pc[d] = "next" /\ Key(c) = Key(d) => c = d

\* Identical calls one after the other pay once: while a call is with the
\* provider nothing is stored under its key, so what it buys is not held yet.
\* An earlier leader stores its answer before it frees the key, and a later
\* one reads the store after it has claimed it.
NothingBoughtTwice == \A c \in Calls : pc[c] = "next" => entries[Key(c)] = NoEntry

\* Identical calls pay once, together or one after the other.
BoughtOnce == SingleFlight /\ NothingBoughtTwice

\* A caller ends with a cancellation only if its own context ended: never with
\* that of the caller it was waiting on.
NoInheritedCancel == \A c \in Calls :
  result[c].kind = "canceled" => c \in ctxDone

\* An answer goes only to callers of the tenant and data policy it was bought
\* for that asked for the same, and one bought by a caller whose answers may
\* not be kept goes to nobody else.
Isolated == \A c \in Calls : result[c].kind = "answer" =>
  LET by == result[c].by
  IN  /\ Request[by].ask = Request[c].ask
      /\ Request[by].tenant = Request[c].tenant
      /\ Request[by].policy = Request[c].policy
      /\ Bypassed(by) \/ Bypassed(c) => by = c

\* What a caller is given is its own: no other caller's cancellation, and no answer
\* bought for another question, tenant or policy.
AnswersOwn == NoInheritedCancel /\ Isolated

\* The call leads its key: it has claimed it and not yet let go of it.
Leading(c) == pc[c] \in {"read", "check", "next", "set", "delete"}

\* Nobody waits for a call that has ended, and no key stays claimed by one,
\* although a leader panics, is cancelled or fails: a follower waits on a call
\* that is still on its way or has closed its channel.
NoneStranded ==
  /\ \A c \in Calls : pc[c] = "wait" =>
       waitOn[c] \in done \/ Leading(waitOn[c]) \/ pc[waitOn[c]] = "close"
  /\ \A k \in Keys : inflight[k] # NoOne => Leading(inflight[k])

-----------------------------------------------------------------------------
(* The inductive invariant of the proofs. *)

Entry == [answer : Outcome, order : Nat, expiresAt : Nat]

Shapes ==
  /\ entries \in [Keys -> Entry \cup {NoEntry}]
  /\ sets \in Nat /\ now \in Nat
  /\ inflight \in [Keys -> Calls \cup {NoOne}]
  /\ pc \in [Calls -> Labels]
  /\ waitOn \in [Calls -> Calls \cup {NoOne}]
  /\ shared \in [Calls -> [outcome : Outcome, abandoned : BOOLEAN]]
  /\ result \in [Calls -> Outcome]
  /\ ctxDone \subseteq Calls

\* A leader's key is claimed by it and by nobody else.
Claimed == \A c \in Calls : Leading(c) => inflight[Key(c)] = c /\ ~Bypassed(c)

\* o is an answer c may be given: its own, or one bought for the same key by
\* a caller whose answers may be kept.
Given(c, o) == o.kind = "answer" =>
  o.by = c \/ (o.by \in Calls /\ Key(o.by) = Key(c)
               /\ ~Bypassed(o.by) /\ ~Bypassed(c))

\* The store holds complete answers, each under the key it was bought for.
StoredWell == \A k \in Keys : entries[k] # NoEntry =>
  LET a == entries[k].answer
  IN  cacheable(a) /\ a.by \in Calls /\ Key(a.by) = k /\ ~Bypassed(a.by)

\* What a leader shares may be given to it, is a cancellation only when it is
\* marked as abandoned, and is complete when it is about to be stored.
SharedWell == \A c \in Calls :
  /\ Given(c, shared[c].outcome)
  /\ shared[c].outcome.kind = "answer" => ~Bypassed(c)
  /\ shared[c].outcome.kind = "canceled" => shared[c].abandoned
  /\ pc[c] = "set" => cacheable(shared[c].outcome)

\* A follower waits on a call for its own key.
WaitsWell == \A c \in Calls :
  pc[c] = "wait" => /\ ~Bypassed(c) /\ waitOn[c] \in Calls
                    /\ Key(waitOn[c]) = Key(c)

\* A call that is about to be sent or has been sent found nothing stored.
Missed == \A c \in Calls : pc[c] \in {"check", "next"} => entries[Key(c)] = NoEntry

\* A key is claimed by a call for that key.
ClaimedWell == \A k \in Keys : inflight[k] # NoOne => Key(inflight[k]) = k

Received == \A c \in Calls : Given(c, result[c])

CInv == /\ Shapes /\ Claimed /\ StoredWell /\ SharedWell /\ WaitsWell
        /\ Missed /\ ClaimedWell /\ NoInheritedCancel /\ Received
=============================================================================

---------------------------- MODULE WaitsProofs ----------------------------
(***************************************************************************)
(* Proofs about the middleware in which a call waits, for every rate,      *)
(* burst and bound on a wait, every number of callers, keys and calls and  *)
(* whatever limits the calls name.  RInv, BInv and HedgeInv are the        *)
(* inductive invariants: RateHeld follows from BucketCovers and            *)
(* WaitSuffices from WaitCovers; the bulkhead's adds that a capacity is    *)
(* fixed before anybody waits; the hedge's says where each copy's outcome  *)
(* is, which is why none is lost.                                          *)
(***************************************************************************)
EXTENDS Waits, TLAPS, FiniteSetTheorems, Sequences

-----------------------------------------------------------------------------
\* The token bucket.

\* Rounding a quotient up loses nothing.
LEMMA RoundedUp ==
  ASSUME NEW a \in Nat, NEW n \in Nat \ {0}
  PROVE  /\ (a + n - 1) \div n \in Nat
         /\ ((a + n - 1) \div n) * n >= a
<1>1. PICK r \in 0..(n - 1) : (a + n - 1) = n * ((a + n - 1) \div n) + r
  OBVIOUS
<1> QED  BY <1>1

\* The bucket holds a token at least.
LEMMA CapacityNat == Capacity \in Nat /\ Capacity >= Interval
  BY RateAssumption DEF Capacity

\* What a call finds in the bucket is a number of units up to the capacity.
LEMMA RefilledNat ==
  ASSUME TypeOK
  PROVE  Refilled \in 0..Capacity
<1>1. age * N \in Nat
  BY RateAssumption DEF TypeOK
<1> QED  BY <1>1, CapacityNat DEF TypeOK, Refilled

\* A bucket that was refilled just now holds what it holds.
LEMMA RefilledNow ==
  ASSUME NEW x \in 0..Capacity, tokens' = x, age' = 0
  PROVE  Refilled' = x
<1>1. age' * N = 0
  BY RateAssumption
<1> QED  BY <1>1, CapacityNat DEF Refilled, Capacity

\* A tick brings N units to what a call would find, up to the capacity.
LEMMA RefilledTick ==
  ASSUME TypeOK, Tick
  PROVE  Refilled' = IF Refilled + N > Capacity THEN Capacity ELSE Refilled + N
<1>1. /\ tokens' = tokens /\ tokens \in Nat /\ age \in Nat
      /\ Capacity' = Capacity
  BY CapacityNat DEF TypeOK, Tick, Capacity
<1>2. CASE age < Horizon
  <2>1. age' * N = age * N + N
    BY <1>1, <1>2, RateAssumption DEF Tick
  <2>2. age * N \in Nat
    BY <1>1, RateAssumption
  <2> QED  BY <1>1, <2>1, <2>2, CapacityNat, RateAssumption DEF Refilled
<1>3. CASE ~(age < Horizon)
  <2>1. age = Horizon /\ age' = age
    BY <1>3, RateAssumption DEF TypeOK, Tick
  <2>2. age * N >= Capacity /\ age * N \in Nat
    BY <2>1, RateAssumption DEF Capacity
  <2> QED  BY <1>1, <2>1, <2>2, CapacityNat, RateAssumption DEF Refilled
<1> QED  BY <1>2, <1>3

\* The wait is at least a tick and at most the bound, and when the bound does not
\* cut it short the missing units come in it.
LEMMA WaitLongEnough ==
  ASSUME TypeOK, Refilled < Interval
  PROVE  /\ waitFor \in 1..MaxRetryAfter
         /\ Due <= MaxRetryAfter => Refilled + waitFor * N >= Interval
<1> DEFINE a == Interval - Refilled
           q == (a + N - 1) \div N
<1>1. a \in Nat /\ Refilled \in Nat
  BY RefilledNat, CapacityNat, RateAssumption
<1>2. q \in Nat /\ q * N >= a
  BY <1>1, RoundedUp, RateAssumption
<1>3. Due = IF q < 1 THEN 1 ELSE q
  BY DEF Due
<1> HIDE DEF q
<1>4. Due \in Nat \ {0} /\ Due * N >= a
  BY <1>1, <1>2, <1>3, RateAssumption
<1>5. waitFor \in 1..MaxRetryAfter
  BY <1>4, RateAssumption DEF waitFor
<1>6. Due <= MaxRetryAfter => waitFor = Due
  BY <1>4, RateAssumption DEF waitFor
<1>7. Due <= MaxRetryAfter => waitFor * N >= a
  BY <1>4, <1>6
<1>8. waitFor * N \in Nat
  BY <1>5, RateAssumption
<1> QED  BY <1>1, <1>5, <1>7, <1>8, RateAssumption

\* A caller that finds the bucket short leaves it as it is and waits its time.
LEMMA ShortKeeps ==
  ASSUME RInv, NEW c \in Callers, NEW l \in {"sleep", "refused"},
         Refilled < Interval, Short,
         pc' = [pc EXCEPT ![c] = l],
         rest' = [rest EXCEPT ![c] = waitFor],
         turn' = [turn EXCEPT ![c] = (Due <= MaxRetryAfter)],
         UNCHANGED <<reject, ctxDone, excess>>
  PROVE  RInv'
<1> USE DEF RInv
<1>1. Refilled \in 0..Capacity /\ Capacity' = Capacity
  BY RefilledNat DEF Capacity
<1>2. Refilled' = Refilled
  BY <1>1, RefilledNow DEF Short
<1>3. waitFor \in 0..MaxRetryAfter
  BY WaitLongEnough, RateAssumption
<1>4. TypeOK'
  BY <1>1, <1>3, RateAssumption DEF TypeOK, Short, Ended
<1>5. BucketCovers'
  BY <1>1, <1>2 DEF BucketCovers
<1>6. WaitCovers'
  <2>1. ASSUME NEW d \in Callers, turn'[d]
        PROVE  Refilled' + rest'[d] * N >= Interval
    <3>1. CASE d = c
      <4>1. turn'[c] = (Due <= MaxRetryAfter) /\ rest'[c] = waitFor
        BY DEF TypeOK
      <4> QED  BY <2>1, <3>1, <4>1, <1>2, WaitLongEnough
    <3>2. CASE d # c
      <4>1. turn'[d] = turn[d] /\ rest'[d] = rest[d]
        BY <3>2 DEF TypeOK
      <4> QED  BY <2>1, <4>1, <1>2 DEF WaitCovers
    <3> QED  BY <3>1, <3>2
  <2> QED  BY <2>1 DEF WaitCovers
<1> QED  BY <1>4, <1>5, <1>6

\* A step that leaves the bucket and its history alone.
LEMMA CallerMoves ==
  ASSUME RInv, TypeOK', UNCHANGED <<tokens, age, excess>>,
         \A d \in Callers : turn'[d] => turn[d] /\ rest'[d] = rest[d]
  PROVE  RInv'
<1>1. Refilled' = Refilled /\ Capacity' = Capacity
  BY DEF Refilled, Capacity
<1> QED  BY <1>1 DEF RInv, BucketCovers, WaitCovers

\* A call for a token keeps the invariant.
LEMMA AcquireKeeps ==
  ASSUME RInv, NEW c \in Callers, Acquire(c)
  PROVE  RInv'
<1> USE DEF RInv
<1>1. /\ Refilled \in 0..Capacity /\ Capacity' = Capacity
      /\ Refilled - Interval \in 0..Capacity
  BY RefilledNat, RateAssumption, CapacityNat DEF Capacity, Acquire
<1>2. Refilled' = Refilled - Interval
  BY <1>1, RefilledNow DEF Acquire
<1>3. TypeOK'
  BY <1>1, RateAssumption DEF TypeOK, Acquire, Goto, Ended
<1>4. BucketCovers'
  BY <1>1, <1>2, RateAssumption DEF BucketCovers, Acquire, TypeOK
<1>5. WaitCovers'
  BY DEF WaitCovers, Acquire
<1> QED  BY <1>3, <1>4, <1>5

\* A tick keeps the invariant.
LEMMA TickKeeps ==
  ASSUME RInv, Tick
  PROVE  RInv'
<1> USE DEF RInv
<1>1. Refilled \in 0..Capacity /\ Capacity' = Capacity /\ Capacity \in Nat
  BY RefilledNat, CapacityNat DEF Capacity
<1>2. TypeOK'
  BY <1>1, RateAssumption DEF TypeOK, Tick, Ended
<1>3. BucketCovers'
  BY <1>1, RefilledTick, RateAssumption DEF BucketCovers, Tick, TypeOK
<1>4. ASSUME NEW d \in Callers, turn'[d]
      PROVE  Refilled' + rest'[d] * N >= Interval
  <2>1. turn[d] /\ Refilled + rest[d] * N >= Interval /\ rest[d] \in Nat
    BY <1>4, RateAssumption DEF Tick, WaitCovers, TypeOK
  <2>2. CASE rest[d] > 0
    <3>1. rest'[d] = rest[d] - 1 /\ rest'[d] \in Nat
      BY <2>1, <2>2 DEF Tick
    <3>2. rest'[d] * N = rest[d] * N - N /\ rest'[d] * N \in Nat
      BY <2>1, <3>1, RateAssumption
    <3>3. rest[d] * N \in Nat
      BY <2>1, RateAssumption
    <3> QED  BY <1>1, <2>1, <3>2, <3>3, RefilledTick, CapacityNat, RateAssumption
  <2>3. CASE rest[d] = 0
    <3>1. rest'[d] = 0
      BY <2>3 DEF Tick
    <3>2. rest'[d] * N = 0 /\ rest[d] * N = 0
      BY <3>1, <2>3, RateAssumption
    <3> QED  BY <1>1, <2>1, <3>2, RefilledTick, CapacityNat, RateAssumption
  <2> QED  BY <2>1, <2>2, <2>3
<1> QED  BY <1>2, <1>3, <1>4 DEF WaitCovers

\* RInv holds in every state of the limiter: the bucket is typed, covers what was
\* taken beyond the rate, and every full wait brings what was missing.
THEOREM RateInductive == Spec => []RInv
<1>1. Init => RInv
  <2> SUFFICES ASSUME Init PROVE RInv
    OBVIOUS
  <2>1. TypeOK
    BY CapacityNat, RateAssumption DEF Init, TypeOK, Ended
  <2>2. Refilled \in 0..Capacity
    BY <2>1, RefilledNat
  <2> QED  BY <2>1, <2>2, CapacityNat DEF Init, RInv, BucketCovers, WaitCovers
<1>2. RInv /\ [Next]_vars => RInv'
  <2> SUFFICES ASSUME RInv, [Next]_vars PROVE RInv'
    OBVIOUS
  <2>1. ASSUME NEW c \in Callers, Start(c)  PROVE RInv'
    <3>1. TypeOK'
      BY <2>1 DEF RInv, TypeOK, Start, Goto, Ended, Capacity
    <3> QED  BY <2>1, <3>1, CallerMoves DEF Start
  <2>2. ASSUME NEW c \in Callers, Acquire(c)  PROVE RInv'
    BY <2>2, AcquireKeeps
  <2>3. ASSUME NEW c \in Callers, Refused(c)  PROVE RInv'
    BY <2>3, ShortKeeps DEF Refused, Goto
  <2>4. ASSUME NEW c \in Callers, Sleep(c)  PROVE RInv'
    BY <2>4, ShortKeeps DEF Sleep, Goto
  <2>5. ASSUME NEW c \in Callers, Wake(c)  PROVE RInv'
    <3>1. TypeOK'
      BY <2>5 DEF RInv, TypeOK, Wake, Goto, Ended, Capacity
    <3> QED  BY <2>5, <3>1, CallerMoves DEF Wake
  <2>6. ASSUME NEW c \in Callers, SleepCanceled(c)  PROVE RInv'
    <3>1. TypeOK'
      BY <2>6, RateAssumption
      DEF RInv, TypeOK, SleepCanceled, Goto, Ended, Capacity
    <3>2. \A d \in Callers : turn'[d] => turn[d] /\ rest'[d] = rest[d]
      BY <2>6 DEF SleepCanceled, RInv, TypeOK
    <3> QED  BY <2>6, <3>1, <3>2, CallerMoves DEF SleepCanceled
  <2>7. ASSUME NEW c \in Callers, Again(c)  PROVE RInv'
    <3>1. TypeOK'
      BY <2>7 DEF RInv, TypeOK, Again, Goto, Ended, Capacity
    <3> QED  BY <2>7, <3>1, CallerMoves DEF Again
  <2>8. ASSUME NEW c \in Callers, CtxEnds(c)  PROVE RInv'
    <3>1. TypeOK'
      BY <2>8 DEF RInv, TypeOK, CtxEnds, Ended, Capacity
    <3> QED  BY <2>8, <3>1, CallerMoves DEF CtxEnds
  <2>9. CASE Tick
    BY <2>9, TickKeeps
  <2>10. CASE UNCHANGED vars
    <3>1. TypeOK'
      BY <2>10 DEF RInv, TypeOK, vars, Ended, Capacity
    <3> QED  BY <2>10, <3>1, CallerMoves DEF vars
  <2> QED
    BY <2>1, <2>2, <2>3, <2>4, <2>5, <2>6, <2>7, <2>8, <2>9, <2>10 DEF Next
<1> QED  BY <1>1, <1>2, PTL DEF Spec

\* In no stretch of time are more tokens taken than the burst and what the
\* stretch earned at the configured rate.
THEOREM RateIsHeld == Spec => []RateHeld
<1>1. RInv => RateHeld
  BY RefilledNat, CapacityNat DEF RInv, BucketCovers, RateHeld, TypeOK
<1> QED  BY <1>1, RateInductive, PTL

\* A caller that slept its full wait, or that comes back after the stated one,
\* finds a token unless another caller took one in between.
THEOREM WaitIsEnough == Spec => []WaitSuffices
<1>1. RInv => WaitSuffices
  <2> SUFFICES ASSUME RInv, NEW c \in Callers, turn[c], rest[c] = 0
               PROVE  Refilled >= Interval
    BY DEF WaitSuffices
  <2>1. rest[c] * N = 0
    BY RateAssumption
  <2> QED  BY <2>1, RefilledNat, RateAssumption, CapacityNat DEF RInv, WaitCovers
<1> QED  BY <1>1, RateInductive, PTL

\* The limiter is exact: both facts together, for every rate, burst and set of callers.
THEOREM LimiterIsExact == Spec => []LimiterExact
BY RateIsHeld, WaitIsEnough, PTL DEF LimiterExact

-----------------------------------------------------------------------------
\* The bulkhead.

\* The calls inside a key are a finite set, and counted.
LEMMA InsideCounted ==
  /\ \A k : IsFiniteSet(W!Inside(k)) /\ W!Cardinality(W!Inside(k)) = Cardinality(W!Inside(k))
  /\ \A k : Cardinality(W!Inside(k)) \in Nat
<1>1. \A k : W!Inside(k) \subseteq BCalls
  BY DEF W!Inside
<1>2. \A k : IsFiniteSet(W!Inside(k))
  BY <1>1, WaitsConstants, FS_Subset
<1>3. \A k : Cardinality(W!Inside(k)) \in Nat
  BY <1>2, FS_CardinalityType
<1> QED  BY <1>2, <1>3 DEF W!Cardinality, Cardinality

\* A capacity is one or more, and the one a key has stays.
LEMMA CapacityKept ==
  ASSUME W!TypeOK, NEW c \in BCalls, W!Fixed(c)
  PROVE  /\ W!Capacity(c) \in Nat \ {0} /\ BKeyOf[c] \in BKeys
         /\ bCap' \in [BKeys -> Nat] /\ bCap'[BKeyOf[c]] = W!Capacity(c)
         /\ \A k \in BKeys : k # BKeyOf[c] => bCap'[k] = bCap[k]
         /\ \A k \in BKeys : bCap[k] # 0 => bCap'[k] = bCap[k]
<1>1. BKeyOf[c] \in BKeys /\ BLimit[c] \in Int /\ bCap[BKeyOf[c]] \in Nat
  BY WaitsConstants DEF W!TypeOK
<1>2. W!Capacity(c) \in Nat \ {0}
  BY <1>1 DEF W!Capacity
<1>3. bCap[BKeyOf[c]] # 0 => W!Capacity(c) = bCap[BKeyOf[c]]
  BY DEF W!Capacity
<1> QED  BY <1>1, <1>2, <1>3 DEF W!Fixed, W!TypeOK

\* The invariant holds before anybody asks.
LEMMA WallInit == W!Init => W!BInv
<1> SUFFICES ASSUME W!Init PROVE W!BInv
  OBVIOUS
<1>1. W!TypeOK
  BY DEF W!Init, W!TypeOK
<1>2. \A k : W!Inside(k) = {}
  BY DEF W!Init, W!Inside
<1>3. \A k : Cardinality(W!Inside(k)) = 0
  BY <1>2, FS_EmptySet
<1>4. W!WallHolds
  BY <1>3, InsideCounted DEF W!Init, W!WallHolds
<1> QED  BY <1>1, <1>4 DEF W!Init, W!BInv, W!NoLostWakeup, W!Opened

\* A call that changes neither who is inside nor what is counted keeps the wall.
LEMMA WallStands ==
  ASSUME W!BInv, W!TypeOK', UNCHANGED bUsed,
         \A k \in BKeys : W!Inside(k)' = W!Inside(k),
         \A k \in BKeys : bCap[k] # 0 => bCap'[k] = bCap[k]
  PROVE  W!WallHolds'
<1>1. \A k \in BKeys : W!Cardinality(W!Inside(k))' = W!Cardinality(W!Inside(k))
  BY DEF W!Cardinality
<1>2. ASSUME NEW k \in BKeys PROVE bUsed[k] <= bCap'[k]
  BY DEF W!BInv, W!WallHolds, W!TypeOK
<1> QED  BY <1>1, <1>2 DEF W!BInv, W!WallHolds

\* A call that enters is counted, and finds room.
LEMMA WallEnter ==
  ASSUME W!BInv, NEW c \in BCalls, bPc[c] \in {"start", "ask"}, W!Enter(c)
  PROVE  W!BInv'
<1> DEFINE key == BKeyOf[c]
<1>1. /\ W!Capacity(c) \in Nat \ {0} /\ key \in BKeys
      /\ bCap' \in [BKeys -> Nat] /\ bCap'[key] = W!Capacity(c)
      /\ \A k \in BKeys : k # key => bCap'[k] = bCap[k]
      /\ \A k \in BKeys : bCap[k] # 0 => bCap'[k] = bCap[k]
  BY CapacityKept DEF W!BInv, W!Enter
<1>2. /\ bUsed' = [bUsed EXCEPT ![key] = @ + 1] /\ bPc' = [bPc EXCEPT ![c] = "inside"]
      /\ UNCHANGED <<bWake, bWoken, bCtxDone, bResult>> /\ ~(bUsed[key] >= W!Capacity(c))
  BY DEF W!Enter, W!Goto, W!Full
<1>3. W!TypeOK'
  BY <1>1, <1>2 DEF W!BInv, W!TypeOK
<1>4. W!Inside(key)' = W!Inside(key) \cup {c} /\ c \notin W!Inside(key)
  BY <1>2 DEF W!BInv, W!TypeOK, W!Inside
<1>5. \A k \in BKeys : k # key => W!Inside(k)' = W!Inside(k)
  BY <1>2 DEF W!BInv, W!TypeOK, W!Inside
<1>6. Cardinality(W!Inside(key)') = Cardinality(W!Inside(key)) + 1
  BY <1>4, InsideCounted, FS_AddElement
<1>7. ASSUME NEW k \in BKeys PROVE bUsed'[k] = W!Cardinality(W!Inside(k)')
           /\ bUsed'[k] <= bCap'[k]
  <2>1. CASE k = key
    <3>1. bUsed'[key] = bUsed[key] + 1 /\ bUsed[key] \in Nat
      BY <1>1, <1>2 DEF W!BInv, W!TypeOK
    <3>2. bUsed[key] = Cardinality(W!Inside(key))
      BY <1>1, InsideCounted DEF W!BInv, W!WallHolds
    <3>3. W!Cardinality(W!Inside(key)') = Cardinality(W!Inside(key)')
      BY DEF W!Cardinality, Cardinality
    <3> QED  BY <2>1, <3>1, <3>2, <3>3, <1>1, <1>2, <1>6
  <2>2. CASE k # key
    BY <2>2, <1>1, <1>2, <1>5 DEF W!BInv, W!TypeOK, W!WallHolds
  <2> QED  BY <2>1, <2>2
<1>8. W!WallHolds'
  BY <1>7 DEF W!WallHolds, W!Cardinality
<1>9. W!NoLostWakeup' /\ W!Opened'
  <2>1. \A d \in BCalls : bPc'[d] \in {"inside", "wait"} => d = c \/ bPc[d] = bPc'[d]
    BY <1>2 DEF W!BInv, W!TypeOK
  <2>2. \A d \in BCalls : bPc'[d] = "wait" => d # c /\ bPc[d] = "wait"
    BY <1>2 DEF W!BInv, W!TypeOK
  <2>3. ASSUME NEW d \in BCalls, bPc'[d] = "wait", d \notin bWoken'
        PROVE  bUsed'[BKeyOf[d]] >= bCap'[BKeyOf[d]] /\ BKeyOf[d] \in bWake'
    <3>1. /\ bUsed[BKeyOf[d]] >= bCap[BKeyOf[d]] /\ BKeyOf[d] \in bWake
          /\ bCap[BKeyOf[d]] # 0 /\ BKeyOf[d] \in BKeys
      BY <2>2, <2>3, <1>2, WaitsConstants DEF W!BInv, W!NoLostWakeup, W!Opened
    <3> QED  BY <3>1, <1>1, <1>2 DEF W!BInv, W!TypeOK
  <2>4. W!Opened'
    <3> SUFFICES ASSUME NEW d \in BCalls, bPc'[d] \in {"inside", "wait"}
                 PROVE  bCap'[BKeyOf[d]] # 0
      BY DEF W!Opened
    <3>1. BKeyOf[d] \in BKeys
      BY WaitsConstants
    <3> QED  BY <3>1, <2>1, <1>1 DEF W!BInv, W!Opened
  <2> QED  BY <2>3, <2>4 DEF W!NoLostWakeup
<1> QED  BY <1>3, <1>8, <1>9 DEF W!BInv

\* A call that finds the wall full is turned away or takes its place on the channel.
LEMMA WallFull ==
  ASSUME W!BInv, NEW c \in BCalls, bPc[c] \in {"start", "ask"}, W!Full(c), W!Fixed(c),
         \/ W!Return(c, "rejected") /\ UNCHANGED <<bUsed, bWake, bWoken, bCtxDone>>
         \/ /\ bWake' = bWake \cup {BKeyOf[c]} /\ W!Goto(c, "wait")
            /\ UNCHANGED <<bUsed, bWoken, bCtxDone, bResult>>
  PROVE  W!BInv'
<1> DEFINE key == BKeyOf[c]
<1>1. /\ W!Capacity(c) \in Nat \ {0} /\ key \in BKeys
      /\ bCap' \in [BKeys -> Nat] /\ bCap'[key] = W!Capacity(c)
      /\ \A k \in BKeys : k # key => bCap'[k] = bCap[k]
      /\ \A k \in BKeys : bCap[k] # 0 => bCap'[k] = bCap[k]
  BY CapacityKept DEF W!BInv
<1>2. bUsed' = bUsed /\ bWoken' = bWoken /\ bCtxDone' = bCtxDone /\ bUsed[key] >= W!Capacity(c)
  BY DEF W!Full
<1>3. PICK l \in {"done", "wait"} :
        /\ bPc' = [bPc EXCEPT ![c] = l]
        /\ l = "wait" => bWake' = bWake \cup {key}
        /\ l = "done" => bWake' = bWake
        /\ bResult' \in {bResult, [bResult EXCEPT ![c] = "rejected"]}
  BY DEF W!Return, W!Goto
<1>4. W!TypeOK'
  <2>1. bPc' \in [BCalls -> {"start", "ask", "wait", "inside", "done"}]
    BY <1>3 DEF W!BInv, W!TypeOK
  <2>2. bResult' \in [BCalls -> {"none", "served", "rejected", "canceled"}]
    BY <1>3 DEF W!BInv, W!TypeOK
  <2>3. bWake' \subseteq BKeys
    BY <1>1, <1>3 DEF W!BInv, W!TypeOK
  <2> QED  BY <1>1, <1>2, <2>1, <2>2, <2>3 DEF W!BInv, W!TypeOK
<1>5. \A d \in BCalls : d # c => bPc'[d] = bPc[d]
  BY <1>3 DEF W!BInv, W!TypeOK
<1>6. bPc'[c] = "wait" => key \in bWake'
  BY <1>3 DEF W!BInv, W!TypeOK
<1>7. bPc'[c] # "inside" /\ bPc[c] # "inside" /\ bPc'[c] \in {"done", "wait"}
  BY <1>3 DEF W!BInv, W!TypeOK
<1>8. \A k \in BKeys : W!Inside(k)' = W!Inside(k)
  BY <1>5, <1>7 DEF W!Inside
<1>9. W!WallHolds'
  BY <1>1, <1>2, <1>4, <1>8, WallStands
<1>10. W!NoLostWakeup'
  <2> SUFFICES ASSUME NEW d \in BCalls, bPc'[d] = "wait", d \notin bWoken'
               PROVE  bUsed'[BKeyOf[d]] >= bCap'[BKeyOf[d]] /\ BKeyOf[d] \in bWake'
    BY DEF W!NoLostWakeup
  <2>1. CASE d = c
    BY <2>1, <1>1, <1>2, <1>6
  <2>2. CASE d # c
    <3>1. /\ bUsed[BKeyOf[d]] >= bCap[BKeyOf[d]] /\ BKeyOf[d] \in bWake
          /\ bCap[BKeyOf[d]] # 0 /\ BKeyOf[d] \in BKeys
      BY <2>2, <1>2, <1>5, WaitsConstants DEF W!BInv, W!NoLostWakeup, W!Opened
    <3> QED  BY <3>1, <1>1, <1>2, <1>3
  <2> QED  BY <2>1, <2>2
<1>11. W!Opened'
  <2> SUFFICES ASSUME NEW d \in BCalls, bPc'[d] \in {"inside", "wait"}
               PROVE  bCap'[BKeyOf[d]] # 0
    BY DEF W!Opened
  <2>1. BKeyOf[d] \in BKeys
    BY WaitsConstants
  <2> QED  BY <2>1, <1>1, <1>5, <1>7 DEF W!BInv, W!Opened
<1> QED  BY <1>4, <1>9, <1>10, <1>11 DEF W!BInv

\* A call that leaves is no longer counted, and wakes everybody that waits at its key.
LEMMA WallRelease ==
  ASSUME W!BInv, NEW c \in BCalls, W!Release(c)
  PROVE  W!BInv'
<1> DEFINE key == BKeyOf[c]
<1>1. /\ bPc[c] = "inside" /\ bUsed' = [bUsed EXCEPT ![key] = IF @ > 0 THEN @ - 1 ELSE 0]
      /\ bWoken' = W!WakeAll(key) /\ bWake' = bWake \ {key}
      /\ bPc' = [bPc EXCEPT ![c] = "done"] /\ bResult' = [bResult EXCEPT ![c] = "served"]
      /\ bCap' = bCap /\ bCtxDone' = bCtxDone /\ key \in BKeys
  BY WaitsConstants DEF W!Release, W!Return, W!Goto
<1>2. c \in W!Inside(key)
  BY <1>1 DEF W!Inside
<1>3. W!Inside(key)' = W!Inside(key) \ {c}
  BY <1>1 DEF W!BInv, W!TypeOK, W!Inside
<1>4. \A k \in BKeys : k # key => W!Inside(k)' = W!Inside(k)
  BY <1>1 DEF W!BInv, W!TypeOK, W!Inside
<1>5. Cardinality(W!Inside(key)') = Cardinality(W!Inside(key)) - 1
  BY <1>2, <1>3, InsideCounted, FS_RemoveElement
<1>6. /\ bUsed \in [BKeys -> Nat] /\ bCap \in [BKeys -> Nat]
      /\ \A k \in BKeys : bUsed[k] = W!Cardinality(W!Inside(k)) /\ bUsed[k] <= bCap[k]
  BY DEF W!BInv, W!TypeOK, W!WallHolds
<1>7. W!TypeOK'
  <2>1. bPc' \in [BCalls -> {"start", "ask", "wait", "inside", "done"}]
    BY <1>1 DEF W!BInv, W!TypeOK
  <2>2. bResult' \in [BCalls -> {"none", "served", "rejected", "canceled"}]
    BY <1>1 DEF W!BInv, W!TypeOK
  <2>3. bUsed' \in [BKeys -> Nat]
    BY <1>1, <1>6
  <2>4. bWoken' \subseteq BCalls
    BY <1>1 DEF W!BInv, W!TypeOK, W!WakeAll, W!Waiters
  <2> QED  BY <1>1, <2>1, <2>2, <2>3, <2>4 DEF W!BInv, W!TypeOK
<1>8. ASSUME NEW k \in BKeys PROVE bUsed'[k] = W!Cardinality(W!Inside(k)')
           /\ bUsed'[k] <= bCap'[k]
  <2>1. CASE k = key
    <3>1. W!Cardinality(W!Inside(key)') = Cardinality(W!Inside(key)')
      BY DEF W!Cardinality, Cardinality
    <3>2. Cardinality(W!Inside(key)) \in Nat /\ bUsed[key] = Cardinality(W!Inside(key))
      BY <1>1, <1>6, InsideCounted
    <3>3. Cardinality(W!Inside(key)) # 0
      BY <1>2, InsideCounted, FS_EmptySet
    <3>4. bUsed'[key] = bUsed[key] - 1
      BY <3>2, <3>3, <1>1, <1>6
    <3> QED  BY <2>1, <3>1, <3>2, <3>3, <3>4, <1>1, <1>5, <1>6
  <2>2. CASE k # key
    BY <2>2, <1>1, <1>4, <1>6
  <2> QED  BY <2>1, <2>2
<1>9. W!WallHolds'
  BY <1>8 DEF W!WallHolds, W!Cardinality
<1>10. \A d \in BCalls : bPc'[d] \in {"inside", "wait"} => d # c /\ bPc[d] = bPc'[d]
  BY <1>1 DEF W!BInv, W!TypeOK
<1>11. W!Opened'
  BY <1>1, <1>10 DEF W!BInv, W!Opened
<1>12. W!NoLostWakeup'
  <2> SUFFICES ASSUME NEW d \in BCalls, bPc'[d] = "wait", d \notin bWoken'
               PROVE  bUsed'[BKeyOf[d]] >= bCap'[BKeyOf[d]] /\ BKeyOf[d] \in bWake'
    BY DEF W!NoLostWakeup
  <2>1. bPc[d] = "wait" /\ d \notin bWoken
    BY <1>1, <1>10 DEF W!WakeAll
  <2>2. bUsed[BKeyOf[d]] >= bCap[BKeyOf[d]] /\ BKeyOf[d] \in bWake /\ BKeyOf[d] \in BKeys
    BY <2>1, WaitsConstants DEF W!BInv, W!NoLostWakeup
  <2>3. BKeyOf[d] # key
    BY <2>1, <2>2, <1>1 DEF W!WakeAll, W!Waiters
  <2> QED  BY <2>2, <2>3, <1>1, <1>6
<1> QED  BY <1>7, <1>9, <1>11, <1>12 DEF W!BInv

\* Every step of the bulkhead keeps the invariant.
LEMMA WallNext ==
  ASSUME W!BInv, [W!Next]_(W!vars)
  PROVE  W!BInv'
<1>1. ASSUME NEW c \in BCalls, W!TryAcquire(c) PROVE W!BInv'
  BY <1>1, WallEnter, WallFull DEF W!TryAcquire
<1>2. ASSUME NEW c \in BCalls, W!AcquireAsk(c) PROVE W!BInv'
  BY <1>2, WallEnter, WallFull DEF W!AcquireAsk
<1>3. ASSUME NEW c \in BCalls, W!Release(c) PROVE W!BInv'
  BY <1>3, WallRelease
<1>4. ASSUME NEW c \in BCalls, NEW l \in {"ask", "done"}, bPc[c] \notin {"inside", "done"},
             bPc' = [bPc EXCEPT ![c] = l], bWoken' \in {bWoken, bWoken \ {c}},
             bResult' \in {bResult, [bResult EXCEPT ![c] = "canceled"]},
             UNCHANGED <<bCap, bUsed, bWake, bCtxDone>>
      PROVE  W!BInv'
  <2>1. bPc' \in [BCalls -> {"start", "ask", "wait", "inside", "done"}]
    BY <1>4 DEF W!BInv, W!TypeOK
  <2>2. bResult' \in [BCalls -> {"none", "served", "rejected", "canceled"}]
    BY <1>4 DEF W!BInv, W!TypeOK
  <2>3. W!TypeOK'
    BY <1>4, <2>1, <2>2 DEF W!BInv, W!TypeOK
  <2>4. /\ \A d \in BCalls : bPc'[d] \in {"inside", "wait"} => d # c /\ bPc'[d] = bPc[d]
        /\ \A d \in BCalls : bPc[d] = "inside" => bPc'[d] = "inside"
    BY <1>4 DEF W!BInv, W!TypeOK
  <2>5. \A k \in BKeys : W!Inside(k)' = W!Inside(k)
    BY <2>4 DEF W!Inside
  <2>6. W!WallHolds'
    BY <1>4, <2>3, <2>5, WallStands
  <2> QED  BY <1>4, <2>3, <2>4, <2>6 DEF W!BInv, W!NoLostWakeup, W!Opened
<1>5. ASSUME NEW c \in BCalls, W!AcquireStart(c) PROVE W!BInv'
  BY <1>4, <1>5 DEF W!AcquireStart, W!Return, W!Goto
<1>6. ASSUME NEW c \in BCalls, W!AcquireWoken(c) PROVE W!BInv'
  BY <1>4, <1>6 DEF W!AcquireWoken, W!Return, W!Goto
<1>7. ASSUME NEW c \in BCalls, W!AcquireCanceled(c) PROVE W!BInv'
  BY <1>4, <1>7 DEF W!AcquireCanceled, W!Return, W!Goto
<1>8. ASSUME UNCHANGED <<bCap, bUsed, bWake, bWoken, bPc, bResult>>, bCtxDone' \subseteq BCalls
      PROVE  W!BInv'
  <2>1. W!TypeOK'
    BY <1>8 DEF W!BInv, W!TypeOK
  <2>2. \A k \in BKeys : W!Inside(k)' = W!Inside(k)
    BY <1>8 DEF W!Inside
  <2>3. W!WallHolds'
    BY <1>8, <2>1, <2>2, WallStands
  <2> QED  BY <1>8, <2>1, <2>3 DEF W!BInv, W!NoLostWakeup, W!Opened
<1>9. ASSUME NEW c \in BCalls, W!EndContext(c) PROVE W!BInv'
  BY <1>8, <1>9 DEF W!EndContext, W!BInv, W!TypeOK
<1>10. CASE UNCHANGED W!vars
  BY <1>8, <1>10 DEF W!vars, W!BInv, W!TypeOK
<1> QED  BY <1>1, <1>2, <1>3, <1>5, <1>6, <1>7, <1>9, <1>10 DEF W!Next, W!Step, W!AllDone

\* The calls inside a key are counted exactly and stay within the capacity the key was
\* first given, and no caller waits for a wake-up that went by, for every number of
\* calls and keys and whatever limits the calls name (Acquire, TryAcquire and release).
THEOREM WallIsKept == W!Spec => []WallKept
<1>1. W!BInv => WallKept
  BY DEF W!BInv, WallKept
<1> QED  BY <1>1, WallInit, WallNext, PTL DEF W!Spec

-----------------------------------------------------------------------------
\* The hedged call.

\* What can be told of an outcome.
LEMMA OutcomeTold ==
  ASSUME NEW o \in H!Outcomes
  PROVE  /\ o.copy \in H!Copies /\ o.kind \in {"answer", "error"} /\ o # Nothing
         /\ o # H!ContextError /\ (o = H!Answer("second") <=> o.kind = "answer"
                    /\ o.copy = "second")
<1>1. o.copy \in H!Copies /\ o.kind \in {"answer", "error"}
           /\ (o.kind = "answer" => o = H!Answer(o.copy))
  BY DEF H!Outcomes, H!Answer, H!Failure
<1>2. o # Nothing /\ o # H!ContextError
  BY <1>1, WaitsConstants DEF H!ContextError
<1> QED  BY <1>1, <1>2 DEF H!Answer

\* The error of a request whose context ended is neither an answer nor of a copy.
LEMMA ContextTold ==
  /\ H!ContextError # Nothing /\ H!ContextError.kind = "context"
  /\ H!ContextError # H!Answer("second") /\ H!ContextError \notin H!Outcomes
<1>1. H!ContextError.kind = "context" /\ H!Answer("second").kind = "answer"
  BY DEF H!ContextError, H!Answer
<1>2. \A o \in H!Outcomes : o # H!ContextError
  BY OutcomeTold
<1> QED  BY <1>1, <1>2, WaitsConstants

\* The invariant holds when a request starts.
LEMMA HedgeInit == H!Init => H!HedgeInv
<1> SUFFICES ASSUME H!Init PROVE H!HedgeInv
  OBVIOUS
<1>1. /\ hOutcomes = <<>> /\ hWaiting = 0 /\ hPc = "start" /\ hReports = <<>>
      /\ hCopy = [d \in H!Copies |-> "unsent"] /\ hFailed = [d \in H!Copies |-> Nothing]
      /\ hSending = [d \in H!Copies |-> Nothing]
      /\ hEvent = [Hedged |-> FALSE, SecondWon |-> FALSE]
  BY DEF H!Init
<1>2. hOutcomes \in Seq(H!Outcomes) /\ Len(hOutcomes) = 0
  BY <1>1
<1>3. hEvent \in [Hedged : BOOLEAN, SecondWon : BOOLEAN] /\ ~hEvent.Hedged /\ ~hEvent.SecondWon
  BY <1>1
<1>4. "first" \in H!Copies /\ "second" \in H!Copies
  BY DEF H!Copies
<1>5. H!OutcomesPlaced
  BY <1>1, <1>2 DEF H!OutcomesPlaced
<1>6. H!CopiesTold
  BY <1>1, <1>3, <1>4 DEF H!CopiesTold
<1>7. H!NothingLost /\ H!TellsTheTruth
  BY <1>1 DEF H!NothingLost, H!TellsTheTruth
<1> QED  BY <1>1, <1>2, <1>3, <1>5, <1>6, <1>7 DEF H!HedgeInv

\* The first outcome that waits, and the ones behind it.
LEMMA HeadTold ==
  ASSUME H!HedgeInv, hOutcomes # <<>>
  PROVE  /\ Head(hOutcomes) \in H!Outcomes /\ Tail(hOutcomes) \in Seq(H!Outcomes)
         /\ Head(hOutcomes) = hOutcomes[1] /\ Len(hOutcomes) \in Nat \ {0}
         /\ Len(Tail(hOutcomes)) = Len(hOutcomes) - 1
         /\ \A i \in 1..Len(Tail(hOutcomes)) : Tail(hOutcomes)[i] = hOutcomes[i + 1]
  BY DEF H!HedgeInv

\* An outcome that is read and the ones left are of different copies.
LEMMA OutcomeRead ==
  ASSUME H!HedgeInv, hOutcomes # <<>>, hOutcomes' = Tail(hOutcomes), UNCHANGED <<hCopy,
             hSending>>,
         hFailed' \in {hFailed, H!note(Head(hOutcomes))},
         hFailed' # hFailed => Head(hOutcomes).kind = "error"
  PROVE  /\ H!OutcomesPlaced' /\ hFailed' \in [H!Copies -> H!Outcomes \cup {Nothing}]
         /\ hCopy[Head(hOutcomes).copy] = "ended" /\ hFailed[Head(hOutcomes).copy] = Nothing
         /\ \A i \in 1..Len(Tail(hOutcomes)) :
              /\ hCopy[Tail(hOutcomes)[i].copy] = "ended"
              /\ Tail(hOutcomes)[i].copy # Head(hOutcomes).copy
<1> DEFINE o == Head(hOutcomes)
           t == Tail(hOutcomes)
<1>1. /\ o \in H!Outcomes /\ t \in Seq(H!Outcomes) /\ o = hOutcomes[1]
           /\ Len(hOutcomes) \in Nat \ {0}
      /\ Len(t) = Len(hOutcomes) - 1 /\ \A i \in 1..Len(t) : t[i] = hOutcomes[i + 1]
  BY HeadTold
<1>2. \A i \in 1..Len(t) : i + 1 \in 1..Len(hOutcomes) /\ i + 1 # 1
  BY <1>1
<1>3. 1 \in 1..Len(hOutcomes) /\ o.copy \in H!Copies /\ hCopy[o.copy] = "ended"
           /\ hFailed[o.copy] = Nothing
  BY <1>1, OutcomeTold DEF H!HedgeInv, H!OutcomesPlaced
<1>4. \A i \in 1..Len(t) : /\ hCopy[t[i].copy] = "ended" /\ hFailed[t[i].copy] = Nothing
                           /\ t[i].copy # o.copy
  BY <1>1, <1>2, <1>3 DEF H!HedgeInv, H!OutcomesPlaced
<1>5. \A i, j \in 1..Len(t) : t[i].copy = t[j].copy => i = j
  <2> SUFFICES ASSUME NEW i \in 1..Len(t), NEW j \in 1..Len(t),
             t[i].copy = t[j].copy PROVE i = j
    OBVIOUS
  <2>1. hOutcomes[i + 1].copy = hOutcomes[j + 1].copy
    BY <1>1
  <2>2. i + 1 = j + 1
    BY <2>1, <1>2 DEF H!HedgeInv, H!OutcomesPlaced
  <2> QED  BY <2>2, <1>1
<1>6. hFailed' \in [H!Copies -> H!Outcomes \cup {Nothing}]
      /\ \A d \in H!Copies : d # o.copy => hFailed'[d] = hFailed[d]
  BY <1>1 DEF H!HedgeInv, H!note
<1>7. hFailed'[o.copy] # Nothing => hFailed'[o.copy] = o /\ o.kind = "error"
  BY <1>3 DEF H!HedgeInv, H!note
<1>8. ASSUME NEW d \in H!Copies, hFailed'[d] # Nothing
      PROVE  /\ hCopy[d] = "ended" /\ hFailed'[d] \in H!Outcomes
             /\ hFailed'[d].copy = d /\ hFailed'[d].kind = "error"
  BY <1>1, <1>3, <1>6, <1>7, <1>8 DEF H!HedgeInv, H!OutcomesPlaced
<1>9. \A i \in 1..Len(t) : hFailed'[t[i].copy] = Nothing
  <2> SUFFICES ASSUME NEW i \in 1..Len(t) PROVE hFailed'[t[i].copy] = Nothing
    OBVIOUS
  <2>1. t[i] \in H!Outcomes
    BY <1>1
  <2> QED  BY <2>1, <1>4, <1>6, OutcomeTold
<1>10. H!OutcomesPlaced'
  BY <1>4, <1>5, <1>8, <1>9 DEF H!HedgeInv, H!OutcomesPlaced
<1> QED  BY <1>3, <1>4, <1>6, <1>10

\* In a return that reads an outcome, what is left was sent by the other copy; a return
\* with nothing left missed nothing.
LEMMA MissedTold ==
  ASSUME H!HedgeInv, NEW left \in Seq(H!Outcomes), hMissed' = H!ToSet(left)
  PROVE  /\ left = <<>> => hMissed' = {}
         /\ \A o \in hMissed' : \E i \in 1..Len(left) : o = left[i]
<1>1. DOMAIN left = 1..Len(left)
  OBVIOUS
<1>2. left = <<>> => Len(left) = 0
  OBVIOUS
<1> QED  BY <1>1, <1>2 DEF H!ToSet

\* A request without a delay is the provider's own.
LEMMA HedgeUndelayed ==
  ASSUME H!HedgeInv, H!Undelayed
  PROVE  H!HedgeInv'
<1>1. PICK o \in {H!Answer("first")} \cup {H!Failure("first", why) : why \in H!Reasons} :
        H!Return(o, FALSE, hOutcomes)
  BY DEF H!Undelayed
<1>2. o.copy = "first" /\ o \in H!Outcomes
  <2>1. "first" \in H!Copies
    BY DEF H!Copies
  <2> QED  BY <2>1 DEF H!Outcomes, H!Answer, H!Failure
<1>3. /\ hPc = "start" /\ ~hDelayed /\ hDelayed' = hDelayed /\ hPc' = "returned" /\ hResult' = o
      /\ UNCHANGED <<hCopy, hSending, hOutcomes, hFailed, hWaiting, hEvent>>
      /\ hMissed' = H!ToSet(hOutcomes)
  BY <1>1 DEF H!Undelayed, H!Return, H!copyVars, H!settings
<1>4. hOutcomes = <<>>
  <2>1. ASSUME hOutcomes # <<>> PROVE FALSE
    <3>1. 1 \in 1..Len(hOutcomes) /\ hOutcomes[1] \in H!Outcomes
      BY <2>1 DEF H!HedgeInv
    <3>2. hCopy[hOutcomes[1].copy] = "ended" /\ hOutcomes[1].copy \in {"first", "second"}
      BY <3>1, OutcomeTold DEF H!HedgeInv, H!OutcomesPlaced, H!Copies
    <3> QED  BY <3>2, <1>3 DEF H!HedgeInv, H!CopiesTold
  <2> QED  BY <2>1
<1>5. hMissed' = {}
  BY <1>3, <1>4, MissedTold DEF H!HedgeInv
<1>6. \A d \in H!Copies : hFailed[d] = Nothing
  BY <1>3 DEF H!HedgeInv, H!CopiesTold
<1>7. H!NothingLost'
  BY <1>2, <1>3, <1>5, <1>6, OutcomeTold DEF H!NothingLost, H!Seen
<1>8. H!TellsTheTruth' /\ H!OutcomesPlaced' /\ H!CopiesTold'
  BY <1>3 DEF H!TellsTheTruth, H!HedgeInv, H!OutcomesPlaced, H!CopiesTold
<1> QED  BY <1>3, <1>7, <1>8 DEF H!HedgeInv

\* The moves of Complete that neither read an outcome nor return.
LEMMA HedgeMoves ==
  ASSUME H!HedgeInv, H!DelayCtxDone \/ H!DelayOver \/ H!Recheck \/ H!LoopCtxDone
  PROVE  H!HedgeInv'
<1>1. /\ UNCHANGED <<hCopy, hSending, hOutcomes, hFailed, hWaiting, hEvent, hReports, hDelayed>>
      /\ \/ hPc \in {"delay", "loop"} /\ hPc' = "drain"
         \/ hPc = "delay" /\ hPc' = "recheck"
         \/ hPc = "recheck" /\ hPc' \in {"drain", "hedge"}
  BY DEF H!DelayCtxDone, H!DelayOver, H!Recheck, H!LoopCtxDone, H!copyVars, H!callVars,
             H!settings
<1>2. H!OutcomesPlaced'
  BY <1>1 DEF H!HedgeInv, H!OutcomesPlaced
<1>3. H!CopiesTold'
  BY <1>1 DEF H!HedgeInv, H!CopiesTold
<1>4. H!NothingLost' /\ H!TellsTheTruth'
  BY <1>1 DEF H!NothingLost, H!TellsTheTruth
<1> QED  BY <1>1, <1>2, <1>3, <1>4 DEF H!HedgeInv

\* The first copy goes out.
LEMMA HedgeFirst ==
  ASSUME H!HedgeInv, H!SendFirst
  PROVE  H!HedgeInv'
<1>1. /\ UNCHANGED <<hSending, hOutcomes, hFailed, hWaiting, hEvent, hReports, hDelayed>>
      /\ hPc = "start" /\ hPc' = "delay" /\ hDelayed
      /\ hCopy' = [hCopy EXCEPT !["first"] = "running"]
  BY DEF H!SendFirst, H!send, H!callVars, H!settings
<1>2. "first" \in H!Copies /\ "second" \in H!Copies
  BY DEF H!Copies
<1>3. /\ hCopy' \in [H!Copies -> {"unsent", "running", "sending", "ended"}]
      /\ hCopy'["first"] = "running" /\ hCopy["first"] = "unsent"
      /\ \A d \in H!Copies : d # "first" => hCopy'[d] = hCopy[d]
  BY <1>1, <1>2 DEF H!HedgeInv, H!CopiesTold
<1>4. \A i \in 1..Len(hOutcomes) : hOutcomes[i].copy \in H!Copies
  BY OutcomeTold DEF H!HedgeInv
<1>5. H!OutcomesPlaced'
  BY <1>1, <1>3, <1>4 DEF H!HedgeInv, H!OutcomesPlaced
<1>6. H!CopiesTold'
  BY <1>1, <1>2, <1>3 DEF H!HedgeInv, H!CopiesTold
<1>7. H!NothingLost' /\ H!TellsTheTruth'
  BY <1>1 DEF H!NothingLost, H!TellsTheTruth
<1> QED  BY <1>1, <1>3, <1>5, <1>6, <1>7 DEF H!HedgeInv

\* The second copy goes out.
LEMMA HedgeSecond ==
  ASSUME H!HedgeInv, H!SendSecond
  PROVE  H!HedgeInv'
<1>1. /\ UNCHANGED <<hSending, hOutcomes, hFailed, hReports, hDelayed>>
      /\ hPc = "hedge" /\ hPc' = "loop" /\ hWaiting' = 2
      /\ hEvent' = [hEvent EXCEPT !.Hedged = TRUE]
      /\ hCopy' = [hCopy EXCEPT !["second"] = "running"]
  BY DEF H!SendSecond, H!send, H!settings
<1>2. "first" \in H!Copies /\ "second" \in H!Copies
  BY DEF H!Copies
<1>3. /\ hCopy' \in [H!Copies -> {"unsent", "running", "sending", "ended"}]
      /\ hCopy'["second"] = "running" /\ hCopy["second"] = "unsent"
      /\ \A d \in H!Copies : d # "second" => hCopy'[d] = hCopy[d]
  BY <1>1, <1>2 DEF H!HedgeInv, H!CopiesTold
<1>4. \A i \in 1..Len(hOutcomes) : hOutcomes[i].copy \in H!Copies
  BY OutcomeTold DEF H!HedgeInv
<1>5. H!OutcomesPlaced'
  BY <1>1, <1>3, <1>4 DEF H!HedgeInv, H!OutcomesPlaced
<1>6. hEvent' \in [Hedged : BOOLEAN, SecondWon : BOOLEAN] /\ hEvent'.Hedged = TRUE
      /\ hEvent'.SecondWon = hEvent.SecondWon
  BY <1>1 DEF H!HedgeInv
<1>7. H!CopiesTold'
  <2>1. hEvent'.Hedged = (hCopy'["second"] # "unsent") /\ hEvent'.Hedged
    BY <1>3, <1>6
  <2>2. hReports' = <<>> /\ ~hEvent'.SecondWon /\ \A d \in H!Copies : hFailed'[d] = Nothing
    BY <1>1, <1>6 DEF H!HedgeInv, H!CopiesTold
  <2>3. /\ hPc' \notin {"start", "delay", "recheck", "hedge"}
        /\ hWaiting' = 2 /\ hWaiting' # 1 /\ hWaiting' # 0
    BY <1>1
  <2> QED  BY <2>1, <2>2, <2>3, Zenon DEF H!CopiesTold
<1>8. H!NothingLost' /\ H!TellsTheTruth'
  BY <1>1 DEF H!NothingLost, H!TellsTheTruth
<1> QED  BY <1>1, <1>3, <1>5, <1>6, <1>7, <1>8 DEF H!HedgeInv

\* A failure is noted, in the loop and in the drain.
LEMMA HedgeNotes ==
  ASSUME H!HedgeInv, H!LoopFailure \/ H!DrainFailure
  PROVE  H!HedgeInv'
<1> DEFINE o == Head(hOutcomes)
<1>1. /\ UNCHANGED <<hPc, hCopy, hSending, hEvent, hReports, hDelayed>>
      /\ hPc \in {"loop", "drain"} /\ hOutcomes # <<>> /\ o.kind = "error"
      /\ hOutcomes' = Tail(hOutcomes) /\ hFailed' = H!note(o)
      /\ hPc = "loop" => hWaiting > 0 /\ hWaiting' = hWaiting - 1
      /\ hPc = "drain" => hWaiting' = hWaiting
  BY DEF H!LoopFailure, H!DrainFailure, H!settings
<1>2. /\ H!OutcomesPlaced' /\ hFailed' \in [H!Copies -> H!Outcomes \cup {Nothing}]
      /\ hFailed[o.copy] = Nothing
  BY <1>1, OutcomeRead
<1>3. o \in H!Outcomes /\ Tail(hOutcomes) \in Seq(H!Outcomes)
  BY <1>1, HeadTold
<1>4. o.copy \in H!Copies /\ o # Nothing
  BY <1>3, OutcomeTold
<1>5. hFailed'[o.copy] = o /\ \A d \in H!Copies : d # o.copy => hFailed'[d] = hFailed[d]
  BY <1>1, <1>4 DEF H!note, H!HedgeInv
<1>6. hWaiting' \in 0..2
  BY <1>1 DEF H!HedgeInv
<1>7. H!CopiesTold'
  <2>1. hPc = "loop" =>
          /\ hWaiting' = 1 => (hFailed'["first"] = Nothing <=> hFailed'["second"] # Nothing)
          /\ hWaiting' = 0 => \A d \in H!Copies : hFailed'[d] # Nothing
          /\ hWaiting' # 2
    BY <1>1, <1>2, <1>4, <1>5, <1>6 DEF H!HedgeInv, H!CopiesTold, H!Copies
  <2> QED  BY <1>1, <2>1 DEF H!HedgeInv, H!CopiesTold
<1>8. H!NothingLost' /\ H!TellsTheTruth'
  BY <1>1 DEF H!NothingLost, H!TellsTheTruth
<1> QED  BY <1>1, <1>2, <1>3, <1>6, <1>7, <1>8 DEF H!HedgeInv

\* A return: what the invariant says once the request is over, from what was returned.
LEMMA HedgeReturns ==
  ASSUME H!HedgeInv, hPc # "returned", hPc # "start", H!OutcomesPlaced', hPc' = "returned",
         hOutcomes' \in Seq(H!Outcomes), UNCHANGED <<hCopy, hSending, hFailed,
                    hWaiting, hDelayed>>,
         NEW won \in BOOLEAN,
         hEvent' \in {hEvent, [hEvent EXCEPT !.SecondWon = won]}, H!report(hEvent'),
         hEvent'.SecondWon = (hResult' = H!Answer("second")),
         hResult'.kind = "answer" => hMark' = (hCopy["second"] # "unsent"),
         H!NothingLost'
  PROVE  H!HedgeInv'
<1>1. /\ hEvent' \in [Hedged : BOOLEAN, SecondWon : BOOLEAN] /\ hEvent'.Hedged = hEvent.Hedged
      /\ hEvent' = [Hedged |-> hEvent'.Hedged, SecondWon |-> hEvent'.SecondWon]
  BY DEF H!HedgeInv
<1>2. hReports = <<>> /\ hEvent.Hedged = (hCopy["second"] # "unsent")
  BY DEF H!HedgeInv, H!CopiesTold
<1>3. hReports' = <<hEvent'>>
  <2>1. hReports' = Append(hReports, hEvent')
    BY DEF H!report
  <2> QED  BY <1>2, <2>1
<1>4. hReports' = <<[Hedged |-> hCopy["second"] # "unsent",
           SecondWon |-> hResult' = H!Answer("second")]>>
  BY <1>1, <1>2, <1>3, Zenon
<1>5. H!TellsTheTruth'
  BY <1>4 DEF H!TellsTheTruth
<1>6. H!CopiesTold'
  BY DEF H!CopiesTold
<1> QED  BY <1>1, <1>5, <1>6 DEF H!HedgeInv

\* A return with an outcome that was read: the first within the delay, or an answer.
LEMMA HedgeAnswers ==
  ASSUME H!HedgeInv, H!FirstWithinDelay \/ H!LoopAnswer \/ H!DrainAnswer
  PROVE  H!HedgeInv'
<1> DEFINE o == Head(hOutcomes)
<1>1. /\ UNCHANGED <<hCopy, hSending, hFailed, hWaiting, hDelayed>>
      /\ hPc \in {"delay", "loop", "drain"} /\ hOutcomes # <<>> /\ hOutcomes' = Tail(hOutcomes)
      /\ hPc' = "returned" /\ hResult' = o /\ hMissed' = H!ToSet(Tail(hOutcomes))
      /\ H!report(hEvent')
      /\ hPc # "delay" => /\ o.kind = "answer" /\ hMark' = (o.kind = "answer" /\ hEvent.Hedged)
                          /\ hEvent' = [hEvent EXCEPT !.SecondWon = (o.copy = "second")]
      /\ hPc = "delay" => hMark' = (o.kind = "answer" /\ FALSE) /\ hEvent' = hEvent
  BY DEF H!FirstWithinDelay, H!LoopAnswer, H!DrainAnswer, H!Return, H!report, H!settings
<1>2. o \in H!Outcomes /\ Tail(hOutcomes) \in Seq(H!Outcomes)
  BY <1>1, HeadTold
<1>3. /\ H!OutcomesPlaced' /\ hCopy[o.copy] = "ended"
      /\ \A i \in 1..Len(Tail(hOutcomes)) :
           hCopy[Tail(hOutcomes)[i].copy] = "ended" /\ Tail(hOutcomes)[i].copy # o.copy
  BY <1>1, OutcomeRead
<1>4. /\ o.copy \in {"first", "second"} /\ o # H!ContextError
      /\ o = H!Answer("second") <=> o.kind = "answer" /\ o.copy = "second"
  BY <1>2, OutcomeTold DEF H!Copies
<1>5. hPc = "delay" => hCopy["second"] = "unsent" /\ o.copy = "first" /\ ~hEvent.SecondWon
  BY <1>3, <1>4 DEF H!HedgeInv, H!CopiesTold
<1>6. hPc = "delay" => \A i \in 1..Len(Tail(hOutcomes)) : FALSE
  <2> SUFFICES ASSUME hPc = "delay", NEW i \in 1..Len(Tail(hOutcomes)) PROVE FALSE
    OBVIOUS
  <2>1. Tail(hOutcomes)[i] \in H!Outcomes
    BY <1>2
  <2>2. Tail(hOutcomes)[i].copy \in {"first", "second"}
    BY <2>1, OutcomeTold DEF H!Copies
  <2> QED  BY <2>2, <1>3, <1>5
<1>7. hPc = "delay" => hMissed' = {} /\ \A d \in H!Copies : hFailed[d] = Nothing
  BY <1>1, <1>2, <1>6, MissedTold DEF H!HedgeInv, H!CopiesTold
<1>8. H!NothingLost'
  <2>1. CASE hPc = "delay"
    BY <2>1, <1>1, <1>4, <1>5, <1>7 DEF H!NothingLost, H!Seen
  <2>2. CASE hPc # "delay"
    BY <2>2, <1>1 DEF H!NothingLost
  <2> QED  BY <2>1, <2>2
<1>9. hEvent'.SecondWon = (hResult' = H!Answer("second"))
  <2>1. CASE hPc = "delay"
    BY <2>1, <1>1, <1>4, <1>5 DEF H!HedgeInv
  <2>2. CASE hPc # "delay"
    <3>1. hEvent'.SecondWon = (o.copy = "second")
      BY <2>2, <1>1 DEF H!HedgeInv
    <3> QED  BY <2>2, <1>1, <1>4, <3>1
  <2> QED  BY <2>1, <2>2
<1>10. hResult'.kind = "answer" => hMark' = (hCopy["second"] # "unsent")
  <2>1. hEvent.Hedged = (hCopy["second"] # "unsent")
    BY <1>1 DEF H!HedgeInv, H!CopiesTold
  <2> QED  BY <2>1, <1>1, <1>5
<1>11. PICK won \in BOOLEAN : hEvent' \in {hEvent, [hEvent EXCEPT !.SecondWon = won]}
  BY <1>1
<1>12. hPc # "returned" /\ hPc # "start" /\ hOutcomes' \in Seq(H!Outcomes)
  BY <1>1, <1>2
<1> QED  BY <1>1, <1>3, <1>8, <1>9, <1>10, <1>11, <1>12, HedgeReturns

\* A return with an error: both copies failed, or the channel was drained.
LEMMA HedgeFails ==
  ASSUME H!HedgeInv, H!LoopOver \/ H!Drained
  PROVE  H!HedgeInv'
<1>1. /\ UNCHANGED <<hCopy, hSending, hOutcomes, hFailed, hWaiting, hDelayed>>
      /\ hPc \in {"loop", "drain"} /\ hPc' = "returned" /\ hMissed' = H!ToSet(hOutcomes)
      /\ H!report(hEvent') /\ hEvent' = hEvent
      /\ hPc = "loop" => hWaiting = 0 /\ hResult' = H!err(hFailed)
      /\ hPc = "drain" => hOutcomes = <<>> /\ hResult' = H!DrainedError
  BY DEF H!LoopOver, H!Drained, H!Return, H!report, H!copyVars, H!settings
<1>2. \A d \in H!Copies : hFailed[d] # Nothing =>
        hFailed[d] \in H!Outcomes /\ hFailed[d].copy = d /\ hFailed[d].kind = "error"
  BY DEF H!HedgeInv, H!OutcomesPlaced
<1>3. hPc = "loop" => \A d \in H!Copies : hFailed[d] # Nothing
  BY <1>1 DEF H!HedgeInv, H!CopiesTold
<1>4. hOutcomes = <<>>
  <2>1. ASSUME hOutcomes # <<>>, hPc = "loop" PROVE FALSE
    <3>1. 1 \in 1..Len(hOutcomes) /\ hOutcomes[1] \in H!Outcomes
      BY <2>1 DEF H!HedgeInv
    <3>2. hFailed[hOutcomes[1].copy] = Nothing /\ hOutcomes[1].copy \in H!Copies
      BY <3>1, OutcomeTold DEF H!HedgeInv, H!OutcomesPlaced
    <3> QED  BY <2>1, <3>2, <1>3
  <2> QED  BY <2>1, <1>1
<1>5. hMissed' = {}
  BY <1>1, <1>4, MissedTold DEF H!HedgeInv
<1>6. \/ /\ hResult' \in H!Outcomes /\ hResult'.kind = "error"
         /\ hResult'.copy = "second" => hFailed["first"] = Nothing
      \/ hResult' = H!ContextError /\ \A d \in H!Copies : hFailed[d] = Nothing
  <2>1. "first" \in H!Copies /\ "second" \in H!Copies
             /\ \A d \in H!Copies : d = "first" \/ d = "second"
    BY DEF H!Copies
  <2>2. CASE hFailed["first"] # Nothing
    BY <2>1, <2>2, <1>1, <1>2 DEF H!err, H!DrainedError
  <2>3. CASE hFailed["first"] = Nothing /\ hFailed["second"] # Nothing
    BY <2>1, <2>3, <1>1, <1>2 DEF H!err, H!DrainedError
  <2>4. CASE hFailed["first"] = Nothing /\ hFailed["second"] = Nothing
    BY <2>1, <2>4, <1>1, <1>3 DEF H!err, H!DrainedError
  <2> QED  BY <2>2, <2>3, <2>4
<1>7. hResult' # H!Answer("second") /\ hResult'.kind # "answer"
  BY <1>6, ContextTold, OutcomeTold
<1>8. H!NothingLost'
  <2>1. H!Seen' = {d \in H!Copies : hFailed[d] # Nothing}
    BY <1>1, <1>5 DEF H!Seen
  <2>2. hResult' = H!ContextError => H!Seen' = {}
    BY <2>1, <1>6, ContextTold
  <2>3. hResult' # H!ContextError /\ hResult'.copy = "second" => "first" \notin H!Seen'
    BY <2>1, <1>6
  <2> QED  BY <2>2, <2>3, <1>5 DEF H!NothingLost
<1>9. hEvent'.SecondWon = (hResult' = H!Answer("second"))
  BY <1>1, <1>7 DEF H!HedgeInv, H!CopiesTold
<1>10. hPc # "returned" /\ hPc # "start" /\ hOutcomes' \in Seq(H!Outcomes)
  BY <1>1 DEF H!HedgeInv
<1>11. H!OutcomesPlaced'
  BY <1>1 DEF H!HedgeInv, H!OutcomesPlaced
<1>12. hEvent' \in {hEvent, [hEvent EXCEPT !.SecondWon = TRUE]} /\ TRUE \in BOOLEAN
  BY <1>1
<1> QED  BY <1>1, <1>7, <1>8, <1>9, <1>10, <1>11, <1>12, HedgeReturns

\* A copy ends, and its goroutine holds the outcome.
LEMMA HedgeCopyEnds ==
  ASSUME H!HedgeInv, NEW d \in H!Copies, H!CopyEnds(d)
  PROVE  H!HedgeInv'
<1>1. PICK o \in H!Outcomes : o.copy = d /\ hSending' = [hSending EXCEPT ![d] = o]
  BY DEF H!CopyEnds
<1>2. /\ UNCHANGED <<hPc, hOutcomes, hFailed, hWaiting, hEvent, hReports, hDelayed,
           hResult, hMark, hMissed>>
      /\ hCopy[d] = "running" /\ hCopy' = [hCopy EXCEPT ![d] = "sending"]
  BY DEF H!CopyEnds, H!callVars, H!settings
<1>3. /\ hCopy' \in [H!Copies -> {"unsent", "running", "sending", "ended"}]
      /\ hSending' \in [H!Copies -> H!Outcomes \cup {Nothing}]
      /\ hCopy'[d] = "sending" /\ hSending'[d] = o
      /\ \A e \in H!Copies : e # d => hCopy'[e] = hCopy[e] /\ hSending'[e] = hSending[e]
  BY <1>1, <1>2 DEF H!HedgeInv
<1>4. \A i \in 1..Len(hOutcomes) : hOutcomes[i].copy \in H!Copies
  BY OutcomeTold DEF H!HedgeInv
<1>5. H!OutcomesPlaced'
  BY <1>1, <1>2, <1>3, <1>4 DEF H!HedgeInv, H!OutcomesPlaced
<1>6. "second" \in H!Copies /\ (hCopy'["second"] = "unsent" <=> hCopy["second"] = "unsent")
      /\ (hCopy["first"] = "unsent" => hCopy'["first"] = "unsent")
  BY <1>2, <1>3 DEF H!Copies
<1>7. H!CopiesTold'
  BY <1>2, <1>6 DEF H!HedgeInv, H!CopiesTold
<1>8. H!NothingLost'
  BY <1>2 DEF H!HedgeInv, H!NothingLost, H!Seen
<1>9. (hCopy'["second"] # "unsent") = (hCopy["second"] # "unsent")
  BY <1>6
<1>10. H!TellsTheTruth'
  BY <1>2, <1>9 DEF H!HedgeInv, H!TellsTheTruth
<1> QED  BY <1>2, <1>3, <1>5, <1>7, <1>8, <1>10 DEF H!HedgeInv

\* A copy's outcome goes into the channel.
LEMMA HedgeCopySends ==
  ASSUME H!HedgeInv, NEW d \in H!Copies, H!CopySends(d)
  PROVE  H!HedgeInv'
<1>1. /\ UNCHANGED <<hPc, hSending, hFailed, hWaiting, hEvent, hReports, hDelayed,
           hResult, hMark, hMissed>>
      /\ hCopy[d] = "sending" /\ hCopy' = [hCopy EXCEPT ![d] = "ended"]
      /\ hOutcomes' = Append(hOutcomes, hSending[d])
  BY DEF H!CopySends, H!callVars, H!settings
<1>2. hSending[d] \in H!Outcomes /\ hSending[d].copy = d /\ hFailed[d] = Nothing
  BY <1>1 DEF H!HedgeInv, H!OutcomesPlaced
<1>3. /\ hCopy' \in [H!Copies -> {"unsent", "running", "sending", "ended"}]
           /\ hCopy'[d] = "ended"
      /\ \A e \in H!Copies : e # d => hCopy'[e] = hCopy[e]
  BY <1>1 DEF H!HedgeInv
<1>4. \A i \in 1..Len(hOutcomes) : hOutcomes[i].copy \in H!Copies /\ hOutcomes[i].copy # d
  BY <1>1, OutcomeTold DEF H!HedgeInv, H!OutcomesPlaced
<1>5. /\ hOutcomes' \in Seq(H!Outcomes) /\ Len(hOutcomes') = Len(hOutcomes) + 1
           /\ Len(hOutcomes) \in Nat
      /\ hOutcomes'[Len(hOutcomes) + 1] = hSending[d]
      /\ \A i \in 1..Len(hOutcomes) : hOutcomes'[i] = hOutcomes[i]
  BY <1>1, <1>2 DEF H!HedgeInv
<1>6. \A i \in 1..Len(hOutcomes') : i \in 1..Len(hOutcomes) \/ i = Len(hOutcomes) + 1
  BY <1>5
<1>7. \A i \in 1..Len(hOutcomes') :
        hCopy'[hOutcomes'[i].copy] = "ended" /\ hFailed[hOutcomes'[i].copy] = Nothing
  BY <1>2, <1>3, <1>4, <1>5, <1>6 DEF H!HedgeInv, H!OutcomesPlaced
<1>8. \A i, j \in 1..Len(hOutcomes') : hOutcomes'[i].copy = hOutcomes'[j].copy => i = j
  BY <1>2, <1>4, <1>5, <1>6 DEF H!HedgeInv, H!OutcomesPlaced
<1>9. \A e \in H!Copies :
       /\ hCopy'[e] = "sending" => hSending[e] \in H!Outcomes /\ hSending[e].copy = e
       /\ hFailed[e] # Nothing => /\ hCopy'[e] = "ended" /\ hFailed[e] \in H!Outcomes
                                  /\ hFailed[e].copy = e /\ hFailed[e].kind = "error"
  BY <1>2, <1>3 DEF H!HedgeInv, H!OutcomesPlaced
<1>10. H!OutcomesPlaced'
  BY <1>1, <1>7, <1>8, <1>9 DEF H!OutcomesPlaced
<1>11. "second" \in H!Copies /\ (hCopy'["second"] = "unsent" <=> hCopy["second"] = "unsent")
      /\ (hCopy["first"] = "unsent" => hCopy'["first"] = "unsent")
  BY <1>1, <1>3 DEF H!Copies
<1>12. H!CopiesTold'
  BY <1>1, <1>11 DEF H!HedgeInv, H!CopiesTold
<1>13. H!NothingLost'
  BY <1>1 DEF H!HedgeInv, H!NothingLost, H!Seen
<1>14. (hCopy'["second"] # "unsent") = (hCopy["second"] # "unsent")
  BY <1>11
<1>15. H!TellsTheTruth'
  BY <1>1, <1>14 DEF H!HedgeInv, H!TellsTheTruth
<1> QED  BY <1>1, <1>3, <1>5, <1>10, <1>12, <1>13, <1>15 DEF H!HedgeInv

\* Every step of a hedged call keeps the invariant.
LEMMA HedgeNext ==
  ASSUME H!HedgeInv, [H!Next]_(H!vars)
  PROVE  H!HedgeInv'
<1>1. ASSUME H!Complete PROVE H!HedgeInv'
  BY <1>1, HedgeUndelayed, HedgeFirst, HedgeSecond, HedgeMoves, HedgeNotes,
             HedgeAnswers, HedgeFails
     DEF H!Complete
<1>2. ASSUME NEW d \in H!Copies, H!CopyEnds(d) \/ H!CopySends(d) PROVE H!HedgeInv'
  BY <1>2, HedgeCopyEnds, HedgeCopySends
<1>3. ASSUME UNCHANGED <<hPc, hCopy, hSending, hOutcomes, hFailed, hWaiting, hEvent, hReports,
                         hDelayed, hResult, hMark, hMissed>>
      PROVE  H!HedgeInv'
  BY <1>3 DEF H!HedgeInv, H!OutcomesPlaced, H!CopiesTold, H!NothingLost, H!Seen, H!TellsTheTruth
<1>4. CASE H!CtxEnds \/ H!TimerFires
  BY <1>3, <1>4 DEF H!CtxEnds, H!TimerFires, H!copyVars, H!callVars, H!settings
<1>5. CASE UNCHANGED H!vars
  BY <1>3, <1>5 DEF H!vars
<1> QED  BY <1>1, <1>2, <1>4, <1>5 DEF H!Next, H!Terminated

\* A hedged call loses no outcome to the order in which a select looked, and tells once
\* and truly what was hedged, however its copies, its timer and its context interleave
\* (hedge.go: Complete, hedgeDrain and report).
THEOREM HedgeIsHonest == H!Spec => []HedgeHonest
<1>1. H!HedgeInv => HedgeHonest
  BY DEF H!HedgeInv, HedgeHonest
<1> QED  BY <1>1, HedgeInit, HedgeNext, PTL DEF H!Spec

=============================================================================

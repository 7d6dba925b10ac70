------------------------------- MODULE Layers -------------------------------
(***************************************************************************)
(* A process-wide setting put in force in layers: v2/internal/setting,     *)
(* which limits, prices, the history limit and request ids share.  Setting *)
(* one and restoring one each hold the layers' lock throughout.  A restore *)
(* function may be called late, twice, in any order, by any goroutine.     *)
(***************************************************************************)
EXTENDS Naturals, Sequences, FiniteSetsExt

CONSTANTS
  Values,      \* what the setting may be
  Original,    \* what it is when nothing was set
  MaxSets      \* bound: calls of Set

VARIABLES
  top,         \* the layers that are linked, the newest last
  done,        \* the layers that were restored
  base,        \* what Base returned when the first of them was set
  inForce,     \* what Apply was last given
  values       \* each layer's value, in the order of the calls of Set

vars == <<top, done, base, inForce, values>>

Init ==
  /\ top = <<>> /\ done = {} /\ values = <<>>
  /\ base = Original /\ inForce = Original

\* Base reads what is in force: the layers are the only writers.
Set(v) ==
  /\ Len(values) < MaxSets
  /\ base' = IF top = <<>> THEN inForce ELSE base
  /\ top' = Append(top, Len(values) + 1)
  /\ values' = Append(values, v)
  /\ inForce' = v
  /\ UNCHANGED done

\* The layers up to k are left when those on top that are marked have gone.
Left(k, marked) ==
  /\ k > 0 => top[k] \notin marked
  /\ \A j \in (k + 1)..Len(top) : top[j] \in marked

\* Mutant: a restore that is not on top does nothing, and is not remembered.
Restore_TopOnly(i) ==
  LET left == IF top # <<>> /\ top[Len(top)] = i THEN SubSeq(top, 1, Len(top) - 1) ELSE top
  IN /\ i \in DOMAIN values
     /\ done' = done \cup {i} /\ top' = left
     /\ inForce' = IF left = top THEN inForce
                   ELSE IF left = <<>> THEN base ELSE values[left[Len(left)]]
     /\ UNCHANGED <<base, values>>

Restore(i) ==
  \E k \in 0..Len(top) :
    LET left == SubSeq(top, 1, k)
    IN /\ i \in DOMAIN values /\ Left(k, done \cup {i})
       /\ done' = done \cup {i} /\ top' = left
       /\ inForce' = IF left = top THEN inForce
                     ELSE IF left = <<>> THEN base ELSE values[left[Len(left)]]
       /\ UNCHANGED <<base, values>>

Next == (\E v \in Values : Set(v)) \/ (\E i \in 1..MaxSets : Restore(i))

Spec == Init /\ [][Next]_vars

-----------------------------------------------------------------------------
\* What is in force is the newest value not yet restored, and what was there
\* before the first when all are: no order of restores, late or repeated, brings
\* back a value that was restored or takes away one set later (setting.go:7-13).
NewestInForce ==
  LET standing == DOMAIN values \ done
  IN inForce = IF standing = {} THEN Original ELSE values[Max(standing)]

-----------------------------------------------------------------------------
(***************************************************************************)
(* The inductive invariant behind NewestInForce: the linked layers are in  *)
(* the order they were set, every one that stands is linked, the newest    *)
(* linked one stands, and it is in force.                                  *)
(***************************************************************************)
LayersInv ==
  /\ values \in Seq(Values) /\ top \in Seq(Nat) /\ done \subseteq DOMAIN values
  /\ \A j \in DOMAIN top : top[j] \in DOMAIN values
  /\ \A j, k \in DOMAIN top : j < k => top[j] < top[k]
  /\ \A i \in DOMAIN values \ done : \E j \in DOMAIN top : top[j] = i
  /\ top # <<>> => top[Len(top)] \notin done
  /\ base = Original
  /\ inForce = IF top = <<>> THEN Original ELSE values[top[Len(top)]]
=============================================================================

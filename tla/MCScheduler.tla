---------------------------- MODULE MCScheduler ----------------------------
(***************************************************************************)
(* Workloads for TLC: the request each call makes.                         *)
(***************************************************************************)
EXTENDS Scheduler, TLC

CONSTANTS c1, c2, c3, c4, c5, k1, k2

Req(t, q, p, n) ==
  [tenant |-> t, provider |-> q, prio |-> p, tokens |-> n, cost |-> n,
   deadline |-> 0]

OnCalls(load) == [c \in Calls |-> load[c]]

\* Two tenants and two classes.
TwoClasses == OnCalls(c1 :> Req("A", "x", 1, 1) @@ c3 :> Req("B", "y", 2, 1))

\* Requests of different weights, one with a deadline; the last alone is
\* over the ceiling.
WeightedLoad == OnCalls(
  c1 :> Req("A", "x", 1, 2) @@ c2 :> Req("A", "y", 2, 1)
  @@ c3 :> Req("B", "y", 1, 2)
  @@ c4 :> [Req("B", "x", 1, 1) EXCEPT !.deadline = 1]
  @@ c5 :> Req("B", "x", 1, 4))
=============================================================================

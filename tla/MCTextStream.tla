---------------------------- MODULE MCTextStream ----------------------------
(* TextStream in scenarios small enough for its liveness to be checked.    *)
EXTENDS TextStream

Scenario(readers, happens, chunks, bound) ==
  [readers |-> readers, happens |-> happens, chunks |-> chunks, pieces |-> bound]

\* A detached reader leaves beside another that may take two pieces more, of a stream
\* that breaks and of one that completes; two readers whose caller's context ends;
\* the ends of both contexts with the buffer full; every last chunk against the end of
\* the caller's; Cancel and Detach, with a provider that never returns and with one that
\* panics; and a provider that sends on whatever ends.
Mixed ==
  {Scenario({1, 2}, {"detach"}, {}, 3),
   Scenario({1, 2}, {"ask", "detach"}, {"ok"}, 1),
   Scenario({1, 2}, {"ask", "caller"}, {"ok"}, 0),
   Scenario({1}, {"caller", "close"}, {"ok"}, 2),
   Scenario({1}, {"caller"}, LastChunks, 1),
   Scenario({1}, {"ask", "cancel", "detach", "deaf"}, {"ok"}, 1),
   Scenario({1}, {"ask", "cancel", "panic"}, {}, 1),
   Scenario({1}, {"caller", "deaf", "endless"}, {}, 1)}

\* One reader, and the caller's context ends.
CallerLeaves == {Scenario({1}, {"ask", "caller"}, {"ok"}, 1)}
=============================================================================

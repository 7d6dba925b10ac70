------------------------------- MODULE MCCall -------------------------------
(***************************************************************************)
(* Clients for TLC, each with a provider that shows what the client's      *)
(* settings are about.                                                     *)
(***************************************************************************)
EXTENDS Call

Client(scheduled, ceiling, replies) ==
  [scheduled |-> scheduled, ceiling |-> ceiling, keeps |-> FALSE,
   refuses |-> FALSE, priced |-> TRUE, allowed |-> TRUE, replies |-> replies]

\* With and without a scheduler, under a ceiling and under none; held to the
\* process as well; answers from a cache that are refused; a model without a
\* price, counted and refused; a forbidden route.
Clients ==
  {Client(TRUE, 1, {"ok", "empty"}),
   Client(TRUE, 2, {"ok", "empty"}),
   Client(TRUE, 0, {"transient", "permanent", "panic"}),
   Client(FALSE, 1, {"ok", "empty", "nousage"}),
   Client(FALSE, 0, {"cached", "foreign", "truncated", "transient", "panic"}),
   Client(FALSE, 1, {"ok", "cachedforeign", "cachedcut", "cachedempty"}),
   [Client(TRUE, 0, {"ok", "empty"}) EXCEPT !.keeps = TRUE],
   [Client(FALSE, 1, {"ok"}) EXCEPT !.priced = FALSE],
   [Client(FALSE, 1, {"ok"}) EXCEPT !.priced = FALSE, !.refuses = TRUE],
   [Client(TRUE, 1, {"ok"}) EXCEPT !.allowed = FALSE]}

OneSlotClient == {Client(TRUE, 1, {"ok"})}
=============================================================================

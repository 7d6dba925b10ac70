------------------------------- MODULE MCWork --------------------------------
(* Small instances of the parts of module Work for TLC.  They share nothing, so a *)
(* run is one of them and the others rest in their initial state.                 *)
EXTENDS Work, TLC

VARIABLE part

\* Routes: a primary and two alternates, qualified or not, with a retry around a
\* fallback, inside it, or both.
MCConfigs ==
  {[outer |-> m[1], inner |-> m[2], kinds |-> k, qualified |-> q] :
     m \in {<<1, 2>>, <<2, 1>>, <<2, 2>>, <<1, 3>>},
     k \in {{"default"}, {"unavailable", "terminal"}}, q \in SUBSET {2, 3}}

\* Recovery: everything at once over five items; a chunk of eight, the smallest whose
\* splits would send more than its budget; and chunks that shrink and regrow inside a
\* plan, with what a chunk of one leaves for the last rung.
AnyFailure == {"repeats", "refused", "transport", "unusable"}
Of(ends, oversized, start, ceiling, k, at, happens) ==
  [ends |-> ends, oversized |-> oversized, start |-> start, ceiling |-> ceiling,
   maxIsolate |-> k, workers |-> at, partial |-> TRUE, happens |-> happens]
MCRuns ==
  {Of({4}, 1, 4, 4, 2, 2, AnyFailure \cup {"encode", "floor", "over", "died"}),
   Of({2, 4}, 0, 9, 3, 1, 3, {"transport"}),
   Of({8}, 0, 8, 8, 1, 1, {"refused"}),
   Of({3, 6, 9, 10}, 0, 2, 3, 1, 1, {})}

\* A conversation: messages of every kind, those nobody should have written included;
\* histories a caller may start with, one message of any kind after at most MaxSaved
\* well-formed ones; and what a model may reply with.
MaxSaved == 5
M == INSTANCE Session WITH   \* the words for messages, of a conversation nobody has
  Turns <- {}, Ids <- {}, Saved <- {}, Replies <- {},
  history <- sHistory, busy <- sBusy, at <- sAt, add <- sAdd, reply <- sReply,
  began <- sBegan
Asks ==
  {M!Nothing, M!Assistant(TRUE, <<[id |-> "b", usable |-> FALSE]>>),
   M!Assistant(FALSE, <<M!Asked("b"), M!Asked("b")>>), M!Assistant(TRUE, <<M!Asked("")>>),
   M!Assistant(FALSE, <<M!Asked("a")>>), M!Assistant(TRUE, <<M!Asked("b"), M!Asked("a")>>)}
Spoken ==
  Asks \cup {M!Assistant(TRUE, <<>>), M!User(TRUE), M!User(FALSE), M!Tool("a"), M!Tool("b"),
             M!Tool(""), M!Message("user", TRUE, <<>>, "a"),
             M!Message("system", TRUE, <<>>, "")}
Formed[l \in 0..MaxSaved] ==
  IF l = 0 THEN {<<>>}
  ELSE LET longer == {Append(h, m) : h \in Formed[l - 1], m \in Spoken} IN
       Formed[l - 1] \cup {h \in longer : M!WellFormed(h)}
MCSaved == {<<>>} \cup {Append(h, m) : h \in Formed[MaxSaved], m \in Spoken}
MCReplies == Asks \cup {M!Assistant(TRUE, <<>>), M!Assistant(TRUE, <<M!Asked("c")>>)}

MCInit ==
  /\ part \in {"pool", "routes", "recover", "ahead", "session", "resume", "layers",
              "environment", "plans"}
  /\ Init /\ (part # "pool" => options = CHOOSE o \in Options : o.stopOnFailure)
  /\ R!Init /\ (part # "routes" => rCfg = CHOOSE g \in MCConfigs : TRUE)
  /\ C!Init /\ (part # "recover" => cRun = CHOOSE g \in MCRuns : TRUE)
  /\ A!Init /\ (part # "ahead" => aMode = "ahead" /\ aBranch["yes"] = "running")
  /\ S!Init /\ (part # "session" => sHistory = <<>>)
  /\ K!Init /\ (part # "resume" => kDurable)
  /\ Y!Init /\ E!Init
  /\ P!Init /\ (part # "plans" => \A c \in DOMAIN pType : pType[c] = "t")

Own == <<vars, rVars, cVars, aVars, sVars>>
MCNext ==
  \/ part = "pool" /\ Next /\ UNCHANGED <<part, rVars, cVars, aVars, sVars, sharedVars>>
  \/ part = "routes" /\ R!Next /\ UNCHANGED <<part, vars, cVars, aVars, sVars, sharedVars>>
  \/ part = "recover" /\ C!Next /\ UNCHANGED <<part, vars, rVars, aVars, sVars, sharedVars>>
  \/ part = "ahead" /\ A!Next /\ UNCHANGED <<part, vars, rVars, cVars, sVars, sharedVars>>
  \/ part = "session" /\ S!Next /\ UNCHANGED <<part, vars, rVars, cVars, aVars, sharedVars>>
  \/ part = "resume" /\ K!Next /\ UNCHANGED <<part, Own, yVars, eVars, pVars>>
  \/ part = "layers" /\ Y!Next /\ UNCHANGED <<part, Own, kVars, eVars, pVars>>
  \/ part = "environment" /\ E!Next /\ UNCHANGED <<part, Own, kVars, yVars, pVars>>
  \/ part = "plans" /\ P!Next /\ UNCHANGED <<part, Own, kVars, yVars, eVars>>

MCSpec == MCInit /\ [][MCNext]_<<part, Own, sharedVars>>
=============================================================================

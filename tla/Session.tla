------------------------------ MODULE Session ------------------------------
(***************************************************************************)
(* A conversation with tools: v2/internal/ops/session.go.  Turns (Send and *)
(* SendResults) of several goroutines on one Session.  A turn takes an     *)
(* atomic flag, is composed from the history, checked, answered by the     *)
(* model while nothing is locked, checked again and kept.  Between turns   *)
(* the caller cuts the history.  A text is said or not, an id a letter.    *)
(***************************************************************************)
EXTENDS Naturals, SequencesExt

CONSTANTS
  Turns,        \* the turns goroutines make
  Ids,          \* the ids of calls, "" for none
  Saved,        \* the histories a caller may start with, well formed or not
  Replies       \* what a model may reply with

\* A message: its role ("system" stands for any that has no place here), whether it
\* has text, the calls it asks for (each with an id and whether its name and arguments
\* can be used) and the call it answers.
Messages ==
  [role : {"user", "assistant", "tool", "system"}, text : BOOLEAN,
   calls : Seq([id : Ids, usable : BOOLEAN]), answers : Ids]
Message(role, text, calls, answers) ==
  [role |-> role, text |-> text, calls |-> calls, answers |-> answers]
User(text) == Message("user", text, <<>>, "")
Assistant(text, calls) == Message("assistant", text, calls, "")
Tool(id) == Message("tool", TRUE, <<>>, id)
Nothing == Assistant(FALSE, <<>>)
Asked(id) == [id |-> id, usable |-> TRUE]

VARIABLES
  history, busy,
  at, add, reply,    \* where each turn is, what it adds, what it was answered
  began              \* history variable: the conversation each turn began with

vars == <<history, busy, at, add, reply, began>>

-----------------------------------------------------------------------------
IdsOf(calls) == {calls[j].id : j \in DOMAIN calls}
UsedIn(h) == UNION {IdsOf(h[i].calls) : i \in DOMAIN h}
Distinct(calls) == \A i, j \in DOMAIN calls : calls[i].id = calls[j].id => i = j

\* Mutant: a user message does not look for calls that wait.
UserFits_Unanswered(m, previous, waiting) ==
  m.calls = <<>> /\ m.answers = "" /\ m.text /\ previous # "user"

\* What CheckTranscript asks of a message, given the role before it, the calls that
\* wait for a result and the ids used so far.
UserFits(m, previous, waiting) ==
  m.calls = <<>> /\ m.answers = "" /\ m.text /\ previous # "user" /\ waiting = {}

AssistantFits(m, previous, waiting, used) ==
  /\ m.answers = "" /\ previous \notin {"", "assistant"} /\ waiting = {}
  /\ m.text \/ m.calls # <<>>
  /\ \A j \in DOMAIN m.calls : m.calls[j].id # "" /\ m.calls[j].usable
  /\ Distinct(m.calls) /\ IdsOf(m.calls) \cap used = {}

\* Mutant: a result may be given twice.
ToolFits_Twice(m, previous, waiting) ==
  m.calls = <<>> /\ m.answers # "" /\ previous \in {"assistant", "tool"}

ToolFits(m, previous, waiting) ==
  /\ m.calls = <<>> /\ m.answers # ""
  /\ previous \in {"assistant", "tool"} /\ m.answers \in waiting

Scan(acc, m) ==
  [ok |-> /\ acc.ok
          /\ \/ m.role = "user" /\ UserFits(m, acc.previous, acc.waiting)
             \/ /\ m.role = "assistant"
                /\ AssistantFits(m, acc.previous, acc.waiting, acc.used)
             \/ m.role = "tool" /\ ToolFits(m, acc.previous, acc.waiting),
   previous |-> m.role,
   waiting |-> IF m.role = "assistant" THEN IdsOf(m.calls) ELSE acc.waiting \ {m.answers},
   used |-> acc.used \cup IdsOf(m.calls)]

CheckTranscript(h) ==
  FoldLeft(Scan, [ok |-> TRUE, previous |-> "", waiting |-> {}, used |-> {}], h).ok

\* One result for each call.
Results(calls) == [j \in DOMAIN calls |-> Tool(calls[j].id)]

\* pendingCalls: the calls of the last message, when it is an assistant's.
pendingCalls(h) ==
  IF h = <<>> \/ Last(h).role # "assistant" THEN <<>> ELSE Last(h).calls

\* Mutant: only the ids of the reply itself are compared.
checkTurnReply_Alone(m, h) ==
  IF m.calls = <<>> THEN m.text
  ELSE Distinct(m.calls) /\ \A j \in DOMAIN m.calls : m.calls[j].id # "" /\ m.calls[j].usable

\* checkTurnReply: a reply says something or asks for tools that can be used, under
\* ids that are new in the conversation.
checkTurnReply(m, h) ==
  IF m.calls = <<>> THEN m.text
  ELSE /\ \A j \in DOMAIN m.calls : m.calls[j].id # "" /\ m.calls[j].usable
       /\ Distinct(m.calls) /\ IdsOf(m.calls) \cap UsedIn(h) = {}

-----------------------------------------------------------------------------
\* The rules of CheckTranscript's doc comment, message by message.
LastAsk(h, i) == {k \in 1..(i - 1) : h[k].role = "assistant"
                                     /\ \A l \in (k + 1)..(i - 1) : h[l].role = "tool"}
AnsweredBetween(h, k, i) == {h[l].answers : l \in (k + 1)..(i - 1)}

ShapeRight(m) ==
  CASE m.role = "user" -> m.text /\ m.calls = <<>> /\ m.answers = ""
    [] m.role = "assistant" ->
         /\ m.text \/ m.calls # <<>>
         /\ m.answers = "" /\ Distinct(m.calls)
         /\ \A j \in DOMAIN m.calls : m.calls[j].id # "" /\ m.calls[j].usable
    [] m.role = "tool" -> m.calls = <<>> /\ m.answers # ""
    [] OTHER -> FALSE

WellFormed(h) == \A i \in DOMAIN h :
  /\ ShapeRight(h[i])
  /\ h[i].role = "user" => i = 1 \/ h[i - 1].role # "user"
  /\ h[i].role = "assistant" =>
       /\ i > 1 /\ h[i - 1].role # "assistant"
       /\ \A k \in 1..(i - 1) : IdsOf(h[k].calls) \cap IdsOf(h[i].calls) = {}
  /\ h[i].role = "tool" =>
       \E k \in LastAsk(h, i) : h[i].answers \in IdsOf(h[k].calls) \ AnsweredBetween(h, k, i)
  /\ h[i].role # "tool" =>
       \A k \in LastAsk(h, i) : IdsOf(h[k].calls) \subseteq AnsweredBetween(h, k, i)

Init ==
  /\ history \in Saved
  /\ busy = FALSE
  /\ at = [t \in Turns |-> "idle"]
  /\ add = [t \in Turns |-> <<>>]
  /\ reply = [t \in Turns |-> Nothing]
  /\ began = [t \in Turns |-> <<>>]

Go(t, from, to) == at[t] = from /\ at' = [at EXCEPT ![t] = to]

\* Mutant: the flag is read and set, and a turn that finds it set goes on.
Start_Unguarded(t) ==
  /\ Go(t, "idle", "composing")
  /\ busy' = TRUE /\ began' = [began EXCEPT ![t] = history]
  /\ UNCHANGED <<history, add, reply>>

\* The compare-and-swap takes the flag.
Start(t) ==
  /\ Go(t, "idle", "composing")
  /\ ~busy /\ busy' = TRUE
  /\ began' = [began EXCEPT ![t] = history]
  /\ UNCHANGED <<history, add, reply>>

\* A second call is told at once.
Refused(t) ==
  /\ Go(t, "idle", "refused") /\ busy
  /\ UNCHANGED <<history, busy, add, reply, began>>

\* Send adds a user message, SendResults one tool message for each pending call:
\* results has to answer all of them and no other.
SendText(t) ==
  /\ Go(t, "composing", "checking")
  /\ add' = [add EXCEPT ![t] = <<User(TRUE)>>]
  /\ UNCHANGED <<history, busy, reply, began>>

SendResults(t) ==
  LET calls == pendingCalls(history) IN
  /\ Go(t, "composing", "checking")
  /\ calls # <<>>
  /\ add' = [add EXCEPT ![t] = Results(calls)]
  /\ UNCHANGED <<history, busy, reply, began>>

\* Mutant: the error of a turn that cannot be composed leaves the flag set.
NotComposed_Kept(t) ==
  /\ Go(t, "composing", "ended")
  /\ UNCHANGED <<history, busy, add, reply, began>>

\* An empty text, no call that waits, or results that do not match the calls.
NotComposed(t) ==
  /\ Go(t, "composing", "ending")
  /\ UNCHANGED <<history, busy, add, reply, began>>

Check(t) ==
  /\ Go(t, "checking", IF CheckTranscript(history \o add[t]) THEN "asking" ELSE "ending")
  /\ UNCHANGED <<history, busy, add, reply, began>>

\* CallTurn failed, was cancelled or refused by a policy, or the settings are not valid.
NoReply(t) ==
  /\ at[t] \in {"checking", "asking"}
  /\ at' = [at EXCEPT ![t] = "ending"]
  /\ UNCHANGED <<history, busy, add, reply, began>>

Reply(t) == \E m \in Replies :
  /\ Go(t, "asking", IF checkTurnReply(m, history \o add[t]) THEN "keeping" ELSE "ending")
  /\ reply' = [reply EXCEPT ![t] = m]
  /\ UNCHANGED <<history, busy, add, began>>

\* The history is read again, a new slice is assigned.
Keep(t) ==
  /\ Go(t, "keeping", "ending")
  /\ history' = history \o add[t] \o <<reply[t]>>
  /\ UNCHANGED <<busy, add, reply, began>>

\* defer s.busy.Store(false), and the turn's locals are gone.
Release(t) ==
  /\ Go(t, "ending", "ended")
  /\ busy' = FALSE
  /\ add' = [add EXCEPT ![t] = <<>>]
  /\ reply' = [reply EXCEPT ![t] = Nothing]
  /\ began' = [began EXCEPT ![t] = <<>>]
  /\ UNCHANGED history

Step(t) ==
  \/ Start(t) \/ Refused(t) \/ SendText(t) \/ SendResults(t) \/ NotComposed(t)
  \/ Check(t) \/ NoReply(t) \/ Reply(t) \/ Keep(t) \/ Release(t)

Over == \A t \in Turns : at[t] \in {"refused", "ended"}

\* Between turns the caller drops the oldest or the latest message.
Cut ==
  /\ ~busy /\ ~Over /\ history # <<>>
  /\ history' \in {Tail(history), Front(history)}
  /\ UNCHANGED <<busy, at, add, reply, began>>

Next == (\E t \in Turns : Step(t)) \/ Cut \/ (Over /\ UNCHANGED vars)

Spec == Init /\ [][Next]_vars

-----------------------------------------------------------------------------
Running(t) == at[t] \notin {"idle", "refused", "ended"}

\* One turn runs at a time, the flag is set exactly while it runs, so that no error
\* path leaves a session that refuses every later turn; and CheckTranscript accepts
\* a history, whoever wrote it, exactly when every message obeys the rules of its
\* doc comment.
OneTurn ==
  /\ busy <=> \E t \in Turns : Running(t)
  /\ \A t, u \in Turns : Running(t) /\ Running(u) => t = u
SessionSound == OneTurn /\ (CheckTranscript(history) <=> WellFormed(history))

\* While a turn runs the history changes only by that whole turn, laid over the
\* conversation the turn began with, and what it becomes can be sent again: turns
\* are not interleaved, a failed turn leaves no trace, and no accepted reply makes
\* every later turn of the session invalid.
TurnLaid ==
  \E t \in Turns : Running(t) /\ history' = began[t] \o add[t] \o <<reply[t]>>
TurnsWhole ==
  [][busy /\ history' # history => TurnLaid /\ WellFormed(history')]_vars

\* The inductive invariant of the turns: until it is kept a turn has before it the
\* conversation it began with, and what it adds is what was checked.
TurnsInv ==
  /\ busy \in BOOLEAN /\ began \in [Turns -> {began[t] : t \in Turns}]
  /\ at \in [Turns -> {"idle", "refused", "composing", "checking", "asking", "keeping",
                       "ending", "ended"}]
  /\ OneTurn
  /\ \A t \in Turns : Running(t) /\ at[t] # "ending" => began[t] = history

\* What a turn adds: what the user says, or a result for every call that waits.
Adds(t) ==
  \/ add[t] = <<User(TRUE)>>
  \/ pendingCalls(history) # <<>> /\ add[t] = Results(pendingCalls(history))
WordsInv ==
  /\ history \in Seq(Messages)
  /\ add \in [Turns -> Seq(Messages)] /\ reply \in [Turns -> Replies \cup {Nothing}]
  /\ \A t \in Turns :
       /\ at[t] \in {"checking", "asking", "keeping"} => Adds(t)
       /\ at[t] \in {"asking", "keeping"} => CheckTranscript(history \o add[t])
       /\ at[t] = "keeping" =>
            reply[t] \in Replies /\ checkTurnReply(reply[t], history \o add[t])
=============================================================================

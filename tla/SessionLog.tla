----------------------------- MODULE SessionLog -----------------------------
(***************************************************************************)
(* The event log of one session (control-plane/src/session/store.ts) and   *)
(* the turns that read and write it (agent-worker/src/runner/              *)
(* agent-runner.ts).  Turns of a session are not serialised by anything:   *)
(* each loads the history when it starts, records reasoning steps while it *)
(* runs and appends its two messages when it ends.  SQLite is synchronous, *)
(* so the code between two awaits is one action, unless the process dies   *)
(* in it: no transaction joins the statements of an operation.             *)
(*                                                                         *)
(* Ties of created_at are broken by id: the index on (session_id,          *)
(* created_at) is scanned forwards or backwards.                           *)
(***************************************************************************)
EXTENDS Naturals, FiniteSets, TLC

CONSTANTS
  Turn,
  Limit,        \* loadHistory's limit for a turn (50)
  ScanLimit,    \* the events compactSession looks at (10000)
  Keep,         \* the values of keepRecent: 20 over HTTP, 0 for a reset
  MaxEvents,    \* bound: events appended in a behaviour
  MaxClock      \* bound: milliseconds of a behaviour

ASSUME SessionLogAssumption ==
  /\ {Limit, ScanLimit, MaxEvents, MaxClock} \subseteq Nat
  /\ Keep \subseteq Nat

VARIABLES
  events,       \* the rows: records [id, kind, at, what]
  nextId,       \* AUTOINCREMENT: an id is never used again
  clock,        \* nowMs()
  turn,         \* how far a turn is
  history,      \* what loadHistory gave it
  disorderly    \* a compaction came when the log was not Orderly

vars == <<events, nextId, clock, turn, history, disorderly>>

Kind == {"user_message", "agent_response", "reasoning_step", "compaction"}
PromptKinds == Kind \ {"reasoning_step"}      \* DEFAULT_PROMPT_EVENT_KINDS

\* What a row is about: the messages it holds, a summary those it summarises.
Message == Turn \X Kind
Event == [id : 1..(MaxEvents + 2), kind : Kind, at : 0..(MaxClock + 1), what : SUBSET Message]

TypeOK ==
  /\ events \subseteq Event
  /\ nextId \in 1..(MaxEvents + 3)
  /\ clock \in 0..MaxClock
  /\ turn \in [Turn -> {"idle", "running", "done", "error"}]
  /\ \A t \in Turn : history[t] \subseteq Event
  /\ disorderly \in BOOLEAN

Init ==
  /\ events = {}
  /\ nextId = 1
  /\ clock = 0
  /\ turn = [t \in Turn |-> "idle"]
  /\ history = [t \in Turn |-> {}]
  /\ disorderly = FALSE

-----------------------------------------------------------------------------
(* Rows and their order *)

\* ORDER BY created_at ASC (, id ASC)
Before(a, b) == a.at < b.at \/ (a.at = b.at /\ a.id < b.id)

Oldest(rows, n) == {e \in rows : Cardinality({d \in rows : Before(d, e)}) < n}
Newest(rows, n) == {e \in rows : Cardinality({d \in rows : Before(e, d)}) < n}

\* The n-th row appended in a step.
Row(n, t, kind, at) ==
  [id |-> nextId + n - 1, kind |-> kind, at |-> at, what |-> {<<t, kind>>}]

\* Variant: the question is stamped when it is answered.
QuestionLate(t) == Row(1, t, "user_message", clock + 2)

Question(t) == Row(1, t, "user_message", clock)
Answer(t) == Row(2, t, "agent_response", clock + 1)

Summaries == {e \in events : e.kind = "compaction"}

\* The id below which loadHistory does not look: the latest summary is included.
CompactionFloor == {e.id : e \in Summaries}
AboveFloor(e) == \A i \in CompactionFloor : i <= e.id

\* Variant: the summary sorts among the messages by its place in the table.
LoadHistoryUnfloored == Oldest({e \in events : e.kind \in PromptKinds}, Limit)

\* loadHistory(sessionId, {limit}): the first rows of the ascending order.
LoadHistory ==
  Oldest({e \in events : e.kind \in PromptKinds /\ AboveFloor(e)}, Limit)

-----------------------------------------------------------------------------
(* A turn *)

Advance(t, to) == turn' = [turn EXCEPT ![t] = to]

\* A turn that ends has no use for its history any more.
End(t, how) == Advance(t, how) /\ history' = [history EXCEPT ![t] = {}]

Room == nextId <= MaxEvents

Begin(t) ==
  /\ turn[t] = "idle"
  /\ Advance(t, "running")
  /\ history' = [history EXCEPT ![t] = LoadHistory]
  /\ UNCHANGED <<events, nextId, clock, disorderly>>

\* A step of the reasoner; a failing append is swallowed.  Its stamp is the step's own,
\* taken just before; loadHistory leaves these rows out, so that the moment is the same.
ReasoningStep(t) ==
  /\ turn[t] = "running"
  /\ Room
  /\ events' = events \cup {Row(1, t, "reasoning_step", clock)}
  /\ nextId' = nextId + 1
  /\ UNCHANGED <<clock, turn, history, disorderly>>

\* Variant: the answer is given out and recorded afterwards, or not.
FinishUnrecorded(t) ==
  /\ turn[t] = "running"
  /\ Room
  /\ \E rows \in {{Question(t)}, {Question(t), Answer(t)}} : events' = events \cup rows
  /\ nextId' = nextId + 2
  /\ End(t, "done")
  /\ UNCHANGED <<clock, disorderly>>

\* Both messages are appended before the turn's result is returned.
Finish(t) ==
  /\ turn[t] = "running"
  /\ Room
  /\ events' = events \cup {Question(t), Answer(t)}
  /\ nextId' = nextId + 2
  /\ End(t, "done")
  /\ UNCHANGED <<clock, disorderly>>

\* The reasoner throws, or an INSERT does: the first message may be in.
Fail(t) ==
  /\ turn[t] = "running"
  /\ End(t, "error")
  /\ \/ UNCHANGED <<events, nextId>>
     \/ Room /\ events' = events \cup {Question(t)} /\ nextId' = nextId + 1
  /\ UNCHANGED <<clock, disorderly>>

\* The process dies, possibly between the two INSERTs of a turn that ends.
LoseTurns ==
  /\ turn' = [t \in Turn |-> IF turn[t] = "running" THEN "error" ELSE turn[t]]
  /\ history' = [t \in Turn |-> {}]

Crash ==
  /\ \E t \in Turn : turn[t] = "running"
  /\ LoseTurns
  /\ \/ UNCHANGED <<events, nextId>>
     \/ \E t \in Turn :
          /\ turn[t] = "running" /\ Room
          /\ events' = events \cup {Question(t)}
          /\ nextId' = nextId + 1
  /\ UNCHANGED <<clock, disorderly>>

-----------------------------------------------------------------------------
(* compactSession *)

\* A compaction at this moment can do what its comment says.  It cannot when a turn
\* ended in this very millisecond, whose answer carries the next one as its
\* timestamp and outlives the summary, or when there are more rows than it looks at.
Orderly == (\A e \in events : e.at <= clock) /\ Cardinality(events) <= ScanLimit

\* The rows it summarises: all that getEvents returns but the last keepRecent.
ToCompact(keep) ==
  LET all == Newest(events, ScanLimit) IN all \ Newest(all, keep)

Summary(rows) ==
  [id |-> nextId, kind |-> "compaction", at |-> clock, what |-> UNION {e.what : e \in rows}]

\* Variant: the rows that remain are counted off instead of those summarised.
CompactDeletingRest(keep) ==
  LET rows == ToCompact(keep)
      all == events \cup {Summary(rows)}
  IN
  /\ rows # {} /\ Room
  /\ events' = Newest(all, keep)
  /\ nextId' = nextId + 1
  /\ disorderly' = (disorderly \/ ~Orderly)
  /\ UNCHANGED <<clock, turn, history>>

\* The summary is inserted first; then as many rows as it summarises are deleted,
\* the oldest in the order of created_at, the summary among them.
Compact(keep) ==
  LET rows == ToCompact(keep)
      all == events \cup {Summary(rows)}
  IN
  /\ rows # {} /\ Room
  /\ events' = all \ Oldest(all, Cardinality(rows))
  /\ nextId' = nextId + 1
  /\ disorderly' = (disorderly \/ ~Orderly)
  /\ UNCHANGED <<clock, turn, history>>

\* The process dies between the INSERT and the DELETE.
CrashInCompact(keep) ==
  /\ ToCompact(keep) # {} /\ Room
  /\ events' = events \cup {Summary(ToCompact(keep))}
  /\ nextId' = nextId + 1
  /\ LoseTurns
  /\ UNCHANGED <<clock, disorderly>>

Tick ==
  /\ clock < MaxClock
  /\ clock' = clock + 1
  /\ UNCHANGED <<events, nextId, turn, history, disorderly>>

Next ==
  \/ \E t \in Turn : Begin(t) \/ ReasoningStep(t) \/ Finish(t) \/ Fail(t)
  \/ \E keep \in Keep : Compact(keep) \/ CrashInCompact(keep)
  \/ Crash
  \/ Tick

Spec == Init /\ [][Next]_vars

-----------------------------------------------------------------------------
(* Properties *)

\* Every message stored, or summarised by a stored summary.
Told == UNION {e.what : e \in events}

\* compactSession rolls up what it deletes: in orderly moments no step, crash or
\* compaction makes the log forget a message.
CompactionSummarises == [][Orderly => Told \subseteq UNION {e.what : e \in events'}]_vars

\* A turn whose result was returned is told with its question and its answer, also
\* after crashes (agent-runner, 8a and 8b), unless a compaction was disorderly.
AnsweredTold ==
  \A t \in Turn : turn[t] = "done" /\ ~disorderly =>
    {<<t, "user_message">>, <<t, "agent_response">>} \subseteq Told

\* The history of a turn is the latest summary and what came after it: the summary
\* comes first in its order (loadHistory's floor goes by id, its order by time).
SummaryFirst ==
  \A t \in Turn : \A s \in history[t] :
    s.kind = "compaction" => \A e \in history[t] \ {s} : Before(s, e)

\* In the order of the history an answer comes after its question and is never there
\* without it, whatever turns, crashes and orderly compactions came between.
AnswerAfterQuestion ==
  \A t \in Turn : \A a \in history[t] : a.kind = "agent_response" /\ ~disorderly =>
    \E q \in history[t] :
      /\ \E u \in Turn : q.what = {<<u, "user_message">>} /\ a.what = {<<u, "agent_response">>}
      /\ Before(q, a)

\* architecture.md: a turn loads the recent events of the session.  The message that
\* was appended last when a turn starts is in its history.
HistoryIsRecent ==
  [][\A t \in Turn : turn[t] = "idle" /\ turn'[t] = "running" =>
       \A e \in events : e.kind \in PromptKinds /\ (\A d \in events : d.id <= e.id)
         => e \in history'[t]]_vars

\* Turns are interchangeable (for the model checker).
TurnSymmetry == Permutations(Turn)
=============================================================================

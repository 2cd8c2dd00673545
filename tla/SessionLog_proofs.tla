-------------------------- MODULE SessionLog_proofs --------------------------
(***************************************************************************)
(* What SessionLog promises, for any number of turns, rows and summaries.  *)
(*                                                                         *)
(* The properties speak of histories and of told messages; what makes them *)
(* true is how rows lie in the log.  Ids are handed out in order and never *)
(* again (Numbered); nothing that is inserted after a summary is stamped   *)
(* before it (Timed); an answer that no summary covers still has its       *)
(* question just below it (Paired).  The heart of it is OldestAreCompacted:*)
(* the rows compactSession deletes, counted off from the oldest, are among *)
(* those it summarised, when the summary sorts after all of them.          *)
(***************************************************************************)
EXTENDS SessionLog, FiniteSetTheorems, TLAPS

Typed ==
  /\ TypeOK
  /\ history \in [Turn -> SUBSET Event]
  /\ IsFiniteSet(events)

Numbered ==
  \A e \in events :
    /\ e.id < nextId
    /\ \A d \in events : d.id = e.id => d = e

Timed ==
  \A s \in events : s.kind = "compaction" =>
    /\ s.at <= clock
    /\ \A e \in events : s.id < e.id => s.at <= e.at

IsQuestionOf(q, a) ==
  /\ q.kind = "user_message"
  /\ q.id + 1 = a.id
  /\ q.at < a.at
  /\ \E u \in Turn : q.what = {<<u, "user_message">>} /\ a.what = {<<u, "agent_response">>}

Covered(a) == \E s \in events : s.kind = "compaction" /\ a.id < s.id

Paired ==
  ~disorderly => \A a \in events : a.kind = "agent_response" =>
    Covered(a) \/ \E q \in events : IsQuestionOf(q, a)

LogInv ==
  /\ Typed /\ Numbered /\ Timed /\ Paired
  /\ SummaryFirst /\ AnswerAfterQuestion /\ AnsweredTold

-----------------------------------------------------------------------------
(* Rows and their order *)

LEMMA EventFields ==
  ASSUME NEW e \in Event
  PROVE  e.id \in Nat /\ e.at \in Nat /\ e.kind \in Kind /\ e.what \subseteq Message
BY SessionLogAssumption DEF Event

LEMMA BeforeTransitive ==
  ASSUME NEW a \in Event, NEW b \in Event, NEW c \in Event,
         Before(a, b), Before(b, c)
  PROVE  Before(a, c)
BY EventFields DEF Before

LEMMA BeforeIrreflexive ==
  ASSUME NEW a \in Event
  PROVE  ~Before(a, a)
BY EventFields DEF Before

LEMMA BeforeTotal ==
  ASSUME NEW a \in Event, NEW b \in Event, a.id # b.id
  PROVE  Before(a, b) \/ Before(b, a)
BY EventFields DEF Before

\* What is before one of the n oldest rows is one of them.
LEMMA OldestClosed ==
  ASSUME NEW S \in SUBSET Event, IsFiniteSet(S), NEW n \in Nat,
         NEW a \in Oldest(S, n), NEW q \in S, Before(q, a)
  PROVE  q \in Oldest(S, n)
<1> DEFINE Q == {d \in S : Before(d, q)}
           A == {d \in S : Before(d, a)}
<1>1. a \in S /\ Cardinality(A) < n
  BY DEF Oldest
<1>2. Q \subseteq A
  BY <1>1, BeforeTransitive
<1>3. IsFiniteSet(A)
  BY FS_Subset
<1>4. Cardinality(Q) <= Cardinality(A) /\ IsFiniteSet(Q)
  BY <1>2, <1>3, FS_Subset
<1>5. Cardinality(Q) \in Nat /\ Cardinality(A) \in Nat
  BY <1>3, <1>4, FS_CardinalityType
<1>6. Cardinality(Q) < n
  BY <1>1, <1>4, <1>5
<1> QED
  BY <1>6 DEF Oldest

\* A limit that is not reached leaves nothing out.
LEMMA NewestIsAll ==
  ASSUME NEW S \in SUBSET Event, IsFiniteSet(S), NEW n \in Nat,
         Cardinality(S) <= n
  PROVE  Newest(S, n) = S
<1> SUFFICES ASSUME NEW e \in S PROVE Cardinality({d \in S : Before(e, d)}) < n
  BY DEF Newest
<1> DEFINE D == {d \in S : Before(e, d)}
<1>1. D \subseteq S /\ D # S
  BY BeforeIrreflexive
<1>2. IsFiniteSet(D) /\ Cardinality(D) <= Cardinality(S) /\ Cardinality(D) # Cardinality(S)
  BY <1>1, FS_Subset
<1>3. Cardinality(D) \in Nat /\ Cardinality(S) \in Nat
  BY <1>2, FS_CardinalityType
<1> QED
  BY <1>2, <1>3

\* compactSession: as many of the oldest rows as were summarised are rows that
\* were summarised, if the summary is behind them all.
LEMMA OldestAreCompacted ==
  ASSUME NEW S \in SUBSET Event, IsFiniteSet(S),
         \A d, e \in S : d.id = e.id => d = e,
         NEW s \in Event, \A e \in S : Before(e, s),
         NEW k \in Nat
  PROVE  LET rows == S \ Newest(S, k)
         IN  Oldest(S \cup {s}, Cardinality(rows)) \subseteq rows
<1> DEFINE rows == S \ Newest(S, k)
           all == S \cup {s}
<1> SUFFICES ASSUME NEW e \in Oldest(all, Cardinality(rows)), e \notin rows
             PROVE  FALSE
  BY DEF Oldest
<1> DEFINE P == {d \in all : Before(d, e)}
<1>1. e \in all /\ Cardinality(P) < Cardinality(rows)
  BY DEF Oldest
<1>2. rows \subseteq P
  <2>1. CASE e = s
    BY <2>1
  <2>2. CASE e \in Newest(S, k)
    <3> SUFFICES ASSUME NEW r \in rows, ~Before(r, e) PROVE FALSE
      OBVIOUS
    <3> DEFINE R == {d \in S : Before(r, d)}
               E == {d \in S : Before(e, d)}
    <3>1. e \in S /\ Cardinality(E) < k
      BY <2>2 DEF Newest
    <3>2. r \in S /\ ~(Cardinality(R) < k)
      BY DEF Newest
    <3>3. Before(e, r)
      BY <3>1, <3>2, <2>2, BeforeTotal
    <3>4. R \subseteq E
      BY <3>1, <3>2, <3>3, BeforeTransitive
    <3>5. IsFiniteSet(E) /\ IsFiniteSet(R) /\ Cardinality(R) <= Cardinality(E)
      BY <3>4, FS_Subset
    <3>6. Cardinality(E) \in Nat /\ Cardinality(R) \in Nat
      BY <3>5, FS_CardinalityType
    <3> QED
      BY <3>1, <3>2, <3>5, <3>6
  <2> QED
    BY <1>1, <2>1, <2>2
<1>3. IsFiniteSet(P)
  <2>1. IsFiniteSet(all)
    BY FS_AddElement
  <2> QED
    BY <2>1, FS_Subset
<1>4. IsFiniteSet(rows) /\ Cardinality(rows) <= Cardinality(P)
  BY <1>2, <1>3, FS_Subset
<1>5. Cardinality(rows) \in Nat /\ Cardinality(P) \in Nat
  BY <1>3, <1>4, FS_CardinalityType
<1> QED
  BY <1>1, <1>4, <1>5

-----------------------------------------------------------------------------
(* What inserting rows keeps *)

\* Rows inserted with new ids and stamped now or later, a summary now, leave the
\* log numbered and timed, whatever is deleted in the same step.
LEMMA InsertKeeps ==
  ASSUME Typed, Numbered, Timed,
         NEW rows \in SUBSET Event, IsFiniteSet(rows),
         \A r \in rows : /\ nextId <= r.id /\ r.id < nextId' /\ clock <= r.at
                         /\ r.kind = "compaction" => r.at = clock
                         /\ \A q \in rows : q.id = r.id => q = r,
         nextId' \in Nat, nextId <= nextId', clock' = clock,
         events' \subseteq events \cup rows
  PROVE  events' \subseteq Event /\ IsFiniteSet(events') /\ Numbered' /\ Timed'
<1>1. events \subseteq Event /\ nextId \in Nat /\ clock \in Nat
  BY SessionLogAssumption DEF Typed, TypeOK
<1>2. events' \subseteq Event
  BY <1>1
<1>3. IsFiniteSet(events')
  <2>1. IsFiniteSet(events \cup rows)
    BY FS_Union DEF Typed
  <2> QED
    BY <2>1, FS_Subset
<1>4. \A e \in events : e.id \in Nat /\ e.id < nextId
  BY <1>1, EventFields DEF Numbered
<1>5. \A r \in rows : r.id \in Nat /\ r.at \in Nat
  BY EventFields
<1>6. Numbered'
  <2> SUFFICES ASSUME NEW e \in events', NEW d \in events'
               PROVE  e.id < nextId' /\ (d.id = e.id => d = e)
    BY DEF Numbered
  <2> QED
    BY <1>1, <1>4, <1>5 DEF Numbered
<1>7. Timed'
  <2> SUFFICES ASSUME NEW s \in events', s.kind = "compaction"
               PROVE  s.at <= clock' /\ \A e \in events' : s.id < e.id => s.at <= e.at
    BY DEF Timed
  <2>1. s.at \in Nat /\ s.at <= clock
    BY <1>1, <1>2, <1>5, EventFields DEF Timed
  <2>2. ASSUME NEW e \in events', s.id < e.id PROVE s.at <= e.at
    <3>1. CASE e \in rows
      BY <3>1, <2>1, <1>1, <1>5
    <3>2. CASE e \in events
      BY <3>2, <2>2, <1>1, <1>4, <1>5 DEF Timed
    <3> QED
      BY <3>1, <3>2
  <2> QED
    BY <2>1, <2>2
<1> QED
  BY <1>2, <1>3, <1>6, <1>7

\* An answer that is inserted brings its question: nothing else unpairs the log.
LEMMA InsertKeepsPaired ==
  ASSUME Paired, events \subseteq events', disorderly' = disorderly,
         \A a \in events' \ events : a.kind = "agent_response" =>
           \E q \in events' : IsQuestionOf(q, a)
  PROVE  Paired'
<1> SUFFICES ASSUME ~disorderly, NEW a \in events', a.kind = "agent_response"
             PROVE  Covered(a)' \/ \E q \in events' : IsQuestionOf(q, a)
  BY DEF Paired, IsQuestionOf
<1>1. CASE a \in events
  <2>1. Covered(a) \/ \E q \in events : IsQuestionOf(q, a)
    BY <1>1 DEF Paired
  <2>2. Covered(a) => Covered(a)'
    BY DEF Covered
  <2> QED
    BY <2>1, <2>2
<1>2. CASE a \notin events
  BY <1>2
<1> QED
  BY <1>1, <1>2

\* A summary covers every answer that was there before it.
LEMMA SummaryCovers ==
  ASSUME Typed, Numbered, NEW s \in events', s.kind = "compaction", s.id = nextId,
         events' \subseteq events \cup {s}
  PROVE  Paired'
<1> SUFFICES ASSUME NEW a \in events', a.kind = "agent_response" PROVE Covered(a)'
  BY DEF Paired
<1>1. a \in events /\ a.id < nextId
  BY DEF Numbered
<1> QED
  BY <1>1 DEF Covered

\* Rows that stay keep their messages told.
LEMMA StayingTells ==
  ASSUME NEW S, NEW T, \A e \in S : \A m \in e.what : \E f \in T : m \in f.what
  PROVE  UNION {e.what : e \in S} \subseteq UNION {e.what : e \in T}
OBVIOUS

-----------------------------------------------------------------------------
(* The turns *)

\* A history that is kept or dropped stays in order.
LEMMA HistoriesKept ==
  ASSUME SummaryFirst, AnswerAfterQuestion, disorderly => disorderly',
         \A t \in Turn : history'[t] = history[t] \/ history'[t] = {}
  PROVE  SummaryFirst' /\ AnswerAfterQuestion'
<1>1. SummaryFirst'
  BY DEF SummaryFirst
<1>2. AnswerAfterQuestion'
  <2> SUFFICES ASSUME NEW t \in Turn, NEW a \in history'[t],
                      a.kind = "agent_response", ~disorderly'
               PROVE  \E q \in history'[t] :
                        /\ \E u \in Turn : q.what = {<<u, "user_message">>}
                                           /\ a.what = {<<u, "agent_response">>}
                        /\ Before(q, a)
    BY DEF AnswerAfterQuestion, Before
  <2> QED
    BY DEF AnswerAfterQuestion
<1> QED
  BY <1>1, <1>2

\* What was told stays told, and a turn that is done now was done or is told now.
LEMMA AnswersKept ==
  ASSUME AnsweredTold, disorderly => disorderly',
         ~disorderly' => Told \subseteq Told',
         \A t \in Turn : turn'[t] = "done" =>
           turn[t] = "done" \/ {<<t, "user_message">>, <<t, "agent_response">>} \subseteq Told'
  PROVE  AnsweredTold'
BY DEF AnsweredTold

\* The rows of a turn that ends.
LEMMA TurnRows ==
  ASSUME Typed, Room, NEW t \in Turn, NEW kind \in Kind
  PROVE  /\ Row(1, t, kind, clock) \in Event
         /\ Row(1, t, kind, clock).id = nextId
         /\ Row(1, t, kind, clock).kind = kind
         /\ Row(1, t, kind, clock).at = clock
         /\ Row(1, t, kind, clock).what = {<<t, kind>>}
         /\ Answer(t) \in Event
         /\ Answer(t).id = nextId + 1
         /\ Answer(t).kind = "agent_response"
         /\ Answer(t).at = clock + 1
         /\ Answer(t).what = {<<t, "agent_response">>}
<1>1. nextId \in Nat /\ 1 <= nextId /\ nextId <= MaxEvents /\ clock \in 0..MaxClock
      /\ MaxEvents \in Nat /\ MaxClock \in Nat
  BY SessionLogAssumption DEF Typed, TypeOK, Room
<1>2. {<<t, kind>>} \subseteq Message /\ {<<t, "agent_response">>} \subseteq Message
  BY DEF Message, Kind
<1>3. nextId + 1 - 1 = nextId /\ nextId + 2 - 1 = nextId + 1
  BY <1>1
<1>4. nextId \in 1..(MaxEvents + 2) /\ nextId + 1 \in 1..(MaxEvents + 2)
      /\ clock \in 0..(MaxClock + 1) /\ clock + 1 \in 0..(MaxClock + 1)
  BY <1>1
<1> QED
  BY <1>2, <1>3, <1>4 DEF Row, Answer, Event, Kind

\* The history a turn starts with.
LEMMA BeginInOrder ==
  ASSUME LogInv, NEW t \in Turn, Begin(t) PROVE LogInv'
<1> USE DEF LogInv
<1> DEFINE rows == {e \in events : e.kind \in PromptKinds /\ AboveFloor(e)}
<1>1. history'[t] = Oldest(rows, Limit) /\ \A u \in Turn \ {t} : history'[u] = history[u]
  BY DEF Begin, LoadHistory, Typed
<1>2. rows \subseteq events /\ Oldest(rows, Limit) \subseteq rows /\ events \subseteq Event
  BY DEF Oldest, Typed, TypeOK
<1>3. Typed'
  <2>1. history' \in [Turn -> SUBSET Event]
    BY <1>1, <1>2 DEF Begin, Typed, LoadHistory
  <2>2. turn' \in [Turn -> {"idle", "running", "done", "error"}]
    BY DEF Begin, Advance, Typed, TypeOK
  <2> QED
    BY <2>1, <2>2 DEF Begin, Typed, TypeOK
<1>4. Numbered' /\ Timed' /\ Paired'
  BY DEF Begin, Numbered, Timed, Paired, Covered, IsQuestionOf
<1>5. SummaryFirst'
  <2> SUFFICES ASSUME NEW s \in Oldest(rows, Limit), s.kind = "compaction",
                      NEW e \in Oldest(rows, Limit) \ {s}
               PROVE  Before(s, e)
    BY <1>1 DEF SummaryFirst, Before
  <2>1. s.id <= e.id
    BY <1>2 DEF AboveFloor, CompactionFloor, Summaries
  <2>2. s.id < e.id
    BY <2>1, <1>2, EventFields DEF Numbered
  <2> QED
    BY <2>2, <1>2, EventFields DEF Timed, Before
<1>6. AnswerAfterQuestion'
  <2> SUFFICES ASSUME NEW a \in Oldest(rows, Limit), a.kind = "agent_response", ~disorderly
               PROVE  \E q \in Oldest(rows, Limit) :
                        /\ \E u \in Turn : q.what = {<<u, "user_message">>}
                                           /\ a.what = {<<u, "agent_response">>}
                        /\ Before(q, a)
    BY <1>1 DEF AnswerAfterQuestion, Before, Begin
  <2>1. a \in events /\ AboveFloor(a)
    BY <1>2
  <2>2. ~Covered(a)
    <3> SUFFICES ASSUME NEW s \in events, s.kind = "compaction", a.id < s.id PROVE FALSE
      BY DEF Covered
    <3>1. s.id <= a.id
      BY <2>1 DEF AboveFloor, CompactionFloor, Summaries
    <3> QED
      BY <3>1, <2>1, <1>2, EventFields
  <2>3. PICK q \in events : IsQuestionOf(q, a)
    BY <2>1, <2>2 DEF Paired
  <2>4. \A s \in events : s.kind = "compaction" => s.id <= q.id
    <3> SUFFICES ASSUME NEW s \in events, s.kind = "compaction" PROVE s.id <= q.id
      OBVIOUS
    <3>1. s.id <= a.id
      BY <2>1 DEF AboveFloor, CompactionFloor, Summaries
    <3>2. s.id # a.id
      BY <2>1 DEF Numbered
    <3> QED
      BY <3>1, <3>2, <2>1, <2>3, <1>2, EventFields DEF IsQuestionOf
  <2>5. q \in rows
    BY <2>3, <2>4 DEF IsQuestionOf, PromptKinds, Kind, AboveFloor, CompactionFloor, Summaries
  <2>6. Before(q, a)
    BY <2>3 DEF IsQuestionOf, Before
  <2>7. IsFiniteSet(rows) /\ rows \in SUBSET Event /\ Limit \in Nat
    BY <1>2, FS_Subset, SessionLogAssumption DEF Typed
  <2>8. q \in Oldest(rows, Limit)
    BY <2>5, <2>6, <2>7, OldestClosed
  <2> QED
    BY <2>3, <2>6, <2>8 DEF IsQuestionOf
<1>7. AnsweredTold'
  BY AnswersKept DEF Begin, Advance, Told, Typed, TypeOK
<1> QED
  BY <1>3, <1>4, <1>5, <1>6, <1>7

\* A step of a turn, or of the process, that inserts rows and deletes none.
LEMMA InsertStep ==
  ASSUME LogInv,
         NEW rows \in SUBSET Event, IsFiniteSet(rows),
         \A r \in rows : /\ nextId <= r.id /\ r.id < nextId' /\ clock <= r.at
                         /\ r.kind # "compaction"
                         /\ \A q \in rows : q.id = r.id => q = r
                         /\ r.kind = "agent_response" => \E q \in rows : IsQuestionOf(q, r),
         events' = events \cup rows,
         nextId' \in 1..(MaxEvents + 3), nextId <= nextId', clock' = clock,
         disorderly' = disorderly,
         turn' \in [Turn -> {"idle", "running", "done", "error"}],
         \A t \in Turn : turn'[t] = "done" /\ turn[t] # "done" =>
           {<<t, "user_message">>, <<t, "agent_response">>} \subseteq UNION {r.what : r \in rows},
         history' \in [Turn -> SUBSET Event],
         \A t \in Turn : history'[t] = history[t] \/ history'[t] = {}
  PROVE  LogInv'
<1> USE DEF LogInv
<1>1. nextId' \in Nat
  BY SessionLogAssumption
<1>2. events' \subseteq Event /\ IsFiniteSet(events') /\ Numbered' /\ Timed'
  BY <1>1, InsertKeeps
<1>3. Typed'
  BY <1>2 DEF Typed, TypeOK
<1>4. Paired'
  BY InsertKeepsPaired
<1>5. SummaryFirst' /\ AnswerAfterQuestion'
  BY HistoriesKept
<1>6. Told \subseteq Told' /\ UNION {r.what : r \in rows} \subseteq Told'
  BY DEF Told
<1>7. AnsweredTold'
  BY <1>6, AnswersKept
<1> QED
  BY <1>2, <1>3, <1>4, <1>5, <1>7

LEMMA ReasoningStepInserts ==
  ASSUME LogInv, NEW t \in Turn, ReasoningStep(t) PROVE LogInv'
<1> DEFINE r == Row(1, t, "reasoning_step", clock)
<1>1. r \in Event /\ r.id = nextId /\ r.kind = "reasoning_step" /\ r.at = clock
  BY TurnRows DEF ReasoningStep, LogInv, Kind
<1>2. nextId \in Nat /\ clock \in Nat /\ MaxEvents \in Nat /\ nextId <= MaxEvents /\ 1 <= nextId
  BY SessionLogAssumption DEF ReasoningStep, Room, LogInv, Typed, TypeOK
<1>3. IsFiniteSet({r})
  BY FS_Singleton
<1>4. events' = events \cup {r} /\ nextId' = nextId + 1 /\ clock' = clock /\ turn' = turn
      /\ history' = history /\ disorderly' = disorderly
  BY DEF ReasoningStep
<1>5. nextId' \in 1..(MaxEvents + 3) /\ nextId < nextId'
  BY <1>2, <1>4
<1> QED
  BY <1>1, <1>2, <1>3, <1>4, <1>5, InsertStep DEF LogInv, Typed, TypeOK

\* Ends, one way or another: the message that came in may be stored, or both are.
LEMMA FinishInserts ==
  ASSUME LogInv, NEW t \in Turn, Finish(t) PROVE LogInv'
<1> DEFINE q == Question(t)
           a == Answer(t)
<1>1. q \in Event /\ q.id = nextId /\ q.kind = "user_message" /\ q.at = clock
      /\ q.what = {<<t, "user_message">>}
  BY TurnRows DEF Finish, LogInv, Kind, Question
<1>2. a \in Event /\ a.id = nextId + 1 /\ a.kind = "agent_response" /\ a.at = clock + 1
      /\ a.what = {<<t, "agent_response">>}
  BY TurnRows DEF Finish, LogInv, Kind
<1>3. nextId \in Nat /\ clock \in Nat /\ MaxEvents \in Nat /\ nextId <= MaxEvents /\ 1 <= nextId
  BY SessionLogAssumption DEF Finish, Room, LogInv, Typed, TypeOK
<1>4. IsFiniteSet({q, a})
  <2>1. IsFiniteSet({q}) /\ IsFiniteSet({a})
    BY FS_Singleton
  <2>2. IsFiniteSet({q} \cup {a})
    BY <2>1, FS_Union
  <2>3. {q, a} = {q} \cup {a}
    OBVIOUS
  <2> QED
    BY <2>2, <2>3
<1>5. events' = events \cup {q, a} /\ nextId' = nextId + 2 /\ clock' = clock
      /\ disorderly' = disorderly
  BY DEF Finish
<1>6. turn' = [turn EXCEPT ![t] = "done"] /\ history' = [history EXCEPT ![t] = {}]
  BY DEF Finish, End, Advance
<1>7. nextId' \in 1..(MaxEvents + 3) /\ nextId <= nextId' /\ nextId + 1 < nextId'
  BY <1>3, <1>5
<1>8. IsQuestionOf(q, a)
  BY <1>1, <1>2, <1>3 DEF IsQuestionOf
<1>9. \A r \in {q, a} : /\ nextId <= r.id /\ r.id < nextId' /\ clock <= r.at
                        /\ r.kind # "compaction"
                        /\ \A p \in {q, a} : p.id = r.id => p = r
                        /\ r.kind = "agent_response" => \E p \in {q, a} : IsQuestionOf(p, r)
  BY <1>1, <1>2, <1>3, <1>7, <1>8
<1>10. turn' \in [Turn -> {"idle", "running", "done", "error"}]
       /\ history' \in [Turn -> SUBSET Event]
       /\ \A u \in Turn : history'[u] = history[u] \/ history'[u] = {}
  BY <1>6 DEF LogInv, Typed, TypeOK
<1>11. \A u \in Turn : turn'[u] = "done" /\ turn[u] # "done" =>
         {<<u, "user_message">>, <<u, "agent_response">>} \subseteq UNION {r.what : r \in {q, a}}
  BY <1>1, <1>2, <1>6 DEF LogInv, Typed, TypeOK
<1> HIDE DEF q, a
<1> QED
  BY <1>1, <1>2, <1>4, <1>5, <1>7, <1>9, <1>10, <1>11, InsertStep

\* A question alone, while turns fail and lose their histories.
LEMMA QuestionInserts ==
  ASSUME LogInv,
         \/ UNCHANGED <<events, nextId>>
         \/ \E t \in Turn : Room /\ events' = events \cup {Question(t)} /\ nextId' = nextId + 1,
         UNCHANGED <<clock, disorderly>>,
         turn' \in [Turn -> {"idle", "running", "done", "error"}],
         \A t \in Turn : turn'[t] = "done" => turn[t] = "done",
         history' \in [Turn -> SUBSET Event],
         \A t \in Turn : history'[t] = history[t] \/ history'[t] = {}
  PROVE  LogInv'
<1>1. CASE UNCHANGED <<events, nextId>>
  <2>1. IsFiniteSet({}) /\ events' = events \cup {} /\ nextId' = nextId
    BY <1>1, FS_EmptySet
  <2>2. nextId' \in 1..(MaxEvents + 3) /\ nextId <= nextId'
    BY <2>1, SessionLogAssumption DEF LogInv, Typed, TypeOK
  <2> QED
    BY <2>1, <2>2, InsertStep
<1>2. ASSUME NEW t \in Turn, Room, events' = events \cup {Question(t)}, nextId' = nextId + 1
      PROVE  LogInv'
  <2> DEFINE q == Question(t)
  <2>1. q \in Event /\ q.id = nextId /\ q.kind = "user_message" /\ q.at = clock
    BY <1>2, TurnRows DEF LogInv, Kind, Question
  <2>2. nextId \in Nat /\ clock \in Nat /\ MaxEvents \in Nat /\ nextId <= MaxEvents /\ 1 <= nextId
    BY <1>2, SessionLogAssumption DEF Room, LogInv, Typed, TypeOK
  <2>3. nextId' \in 1..(MaxEvents + 3) /\ nextId < nextId'
    BY <1>2, <2>2
  <2>4. IsFiniteSet({q})
    BY FS_Singleton
  <2>5. events' = events \cup {q}
    BY <1>2
  <2> HIDE DEF q
  <2> QED
    BY <2>1, <2>2, <2>3, <2>4, <2>5, InsertStep
<1> QED
  BY <1>1, <1>2

LEMMA FailInserts ==
  ASSUME LogInv, NEW t \in Turn, Fail(t) PROVE LogInv'
<1>1. turn' = [turn EXCEPT ![t] = "error"] /\ history' = [history EXCEPT ![t] = {}]
  BY DEF Fail, End, Advance
<1>2. /\ turn' \in [Turn -> {"idle", "running", "done", "error"}]
      /\ history' \in [Turn -> SUBSET Event]
      /\ \A u \in Turn : history'[u] = history[u] \/ history'[u] = {}
      /\ \A u \in Turn : turn'[u] = "done" => turn[u] = "done"
  BY <1>1 DEF LogInv, Typed, TypeOK
<1> QED
  BY <1>2, QuestionInserts DEF Fail

LEMMA LosingTurns ==
  ASSUME LogInv, LoseTurns
  PROVE  /\ turn' \in [Turn -> {"idle", "running", "done", "error"}]
         /\ history' \in [Turn -> SUBSET Event]
         /\ \A u \in Turn : history'[u] = {}
         /\ \A u \in Turn : turn'[u] = "done" => turn[u] = "done"
BY DEF LoseTurns, LogInv, Typed, TypeOK

LEMMA CrashInserts ==
  ASSUME LogInv, Crash PROVE LogInv'
BY LosingTurns, QuestionInserts DEF Crash

-----------------------------------------------------------------------------
(* compactSession *)

LEMMA SummaryTyped ==
  ASSUME Typed, Room, NEW keep \in Keep
  PROVE  LET s == Summary(ToCompact(keep))
         IN  /\ s \in Event /\ s.id = nextId /\ s.kind = "compaction" /\ s.at = clock
             /\ s.what = UNION {e.what : e \in ToCompact(keep)}
<1>1. nextId \in 1..(MaxEvents + 2) /\ clock \in 0..(MaxClock + 1)
  BY SessionLogAssumption DEF Typed, TypeOK, Room
<1>2. ToCompact(keep) \subseteq events /\ events \subseteq Event
  BY DEF ToCompact, Newest, Typed, TypeOK
<1>3. UNION {e.what : e \in ToCompact(keep)} \subseteq Message
  BY <1>2, EventFields
<1> QED
  BY <1>1, <1>3 DEF Summary, Event, Kind

\* In an orderly moment what is deleted was summarised, and the summary stays.
LEMMA OrderlyCompaction ==
  ASSUME Typed, Numbered, NEW keep \in Keep, Compact(keep), Orderly
  PROVE  Summary(ToCompact(keep)) \in events' /\ Told \subseteq Told'
<1> DEFINE rows == ToCompact(keep)
           s == Summary(rows)
           gone == Oldest(events \cup {s}, Cardinality(rows))
<1>1. s \in Event /\ s.id = nextId /\ s.at = clock /\ s.what = UNION {e.what : e \in rows}
  BY SummaryTyped DEF Compact
<1>2. events \subseteq Event /\ IsFiniteSet(events) /\ nextId \in Nat /\ clock \in Nat
      /\ keep \in Nat /\ ScanLimit \in Nat
  BY SessionLogAssumption DEF Typed, TypeOK
<1>3. rows = events \ Newest(events, keep)
  BY <1>2, NewestIsAll DEF ToCompact, Orderly
<1>4. \A e \in events : Before(e, s)
  BY <1>1, <1>2, EventFields DEF Before, Orderly, Numbered
<1>5. \A d, e \in events : d.id = e.id => d = e
  BY DEF Numbered
<1>6. events' = (events \cup {s}) \ gone
  BY DEF Compact
<1> HIDE DEF s
<1>7. gone \subseteq rows
  BY <1>1, <1>2, <1>3, <1>4, <1>5, OldestAreCompacted
<1>8. s \in events'
  <2>1. s \notin events
    BY <1>1, <1>2, EventFields DEF Numbered
  <2> QED
    BY <2>1, <1>3, <1>6, <1>7
<1>9. Told \subseteq Told'
  <2>1. \A e \in events : \A m \in e.what : \E f \in events' : m \in f.what
    BY <1>1, <1>6, <1>7, <1>8
  <2> QED
    BY <2>1, StayingTells DEF Told
<1> QED
  BY <1>8, <1>9 DEF s

LEMMA CompactKeeps ==
  ASSUME LogInv, NEW keep \in Keep, Compact(keep) PROVE LogInv'
<1> USE DEF LogInv
<1> DEFINE s == Summary(ToCompact(keep))
<1>1. s \in Event /\ s.id = nextId /\ s.kind = "compaction" /\ s.at = clock
  BY SummaryTyped DEF Compact
<1>2. nextId \in Nat /\ clock \in Nat /\ MaxEvents \in Nat /\ nextId <= MaxEvents /\ 1 <= nextId
  BY SessionLogAssumption DEF Compact, Room, Typed, TypeOK
<1>3. events' \subseteq events \cup {s} /\ nextId' = nextId + 1 /\ clock' = clock
      /\ turn' = turn /\ history' = history /\ disorderly' = (disorderly \/ ~Orderly)
  BY DEF Compact
<1>4. disorderly' \in BOOLEAN /\ (disorderly => disorderly') /\ (~disorderly' => Orderly)
  BY <1>3 DEF Typed, TypeOK
<1>5. ~disorderly' => s \in events' /\ Told \subseteq Told'
  BY <1>4, OrderlyCompaction
<1> HIDE DEF s
<1>6. events' \subseteq Event /\ IsFiniteSet(events') /\ Numbered' /\ Timed'
  <2>1. IsFiniteSet({s})
    BY FS_Singleton
  <2>2. nextId' \in Nat /\ nextId <= nextId' /\ nextId < nextId'
    BY <1>2, <1>3
  <2> QED
    BY <1>1, <1>2, <1>3, <2>1, <2>2, InsertKeeps
<1>7. Typed'
  BY <1>2, <1>3, <1>4, <1>6 DEF Typed, TypeOK
<1>8. Paired'
  <2>1. CASE s \in events'
    BY <2>1, <1>1, <1>3, SummaryCovers
  <2>2. CASE disorderly'
    BY <2>2 DEF Paired
  <2> QED
    BY <2>1, <2>2, <1>5
<1>9. SummaryFirst' /\ AnswerAfterQuestion'
  BY <1>3, <1>4, HistoriesKept
<1>10. AnsweredTold'
  BY <1>3, <1>4, <1>5, AnswersKept
<1> QED
  BY <1>6, <1>7, <1>8, <1>9, <1>10

LEMMA CrashInCompactKeeps ==
  ASSUME LogInv, NEW keep \in Keep, CrashInCompact(keep) PROVE LogInv'
<1> USE DEF LogInv
<1> DEFINE s == Summary(ToCompact(keep))
<1>1. s \in Event /\ s.id = nextId /\ s.kind = "compaction" /\ s.at = clock
  BY SummaryTyped DEF CrashInCompact
<1>2. nextId \in Nat /\ clock \in Nat /\ MaxEvents \in Nat /\ nextId <= MaxEvents /\ 1 <= nextId
  BY SessionLogAssumption DEF CrashInCompact, Room, Typed, TypeOK
<1>3. events' = events \cup {s} /\ nextId' = nextId + 1 /\ clock' = clock
      /\ disorderly' = disorderly
  BY DEF CrashInCompact
<1>4. /\ turn' \in [Turn -> {"idle", "running", "done", "error"}]
      /\ history' \in [Turn -> SUBSET Event]
      /\ \A u \in Turn : history'[u] = {}
      /\ \A u \in Turn : turn'[u] = "done" => turn[u] = "done"
  BY LosingTurns DEF CrashInCompact
<1> HIDE DEF s
<1>5. events' \subseteq Event /\ IsFiniteSet(events') /\ Numbered' /\ Timed'
  <2>1. IsFiniteSet({s})
    BY FS_Singleton
  <2>2. nextId' \in Nat /\ nextId <= nextId' /\ nextId < nextId'
    BY <1>2, <1>3
  <2> QED
    BY <1>1, <1>2, <1>3, <2>1, <2>2, InsertKeeps
<1>6. Typed'
  BY <1>2, <1>3, <1>4, <1>5 DEF Typed, TypeOK
<1>7. Paired'
  BY <1>1, <1>3, SummaryCovers
<1>8. SummaryFirst' /\ AnswerAfterQuestion'
  BY <1>3, <1>4, HistoriesKept
<1>9. AnsweredTold'
  <2>1. Told \subseteq Told'
    BY <1>3 DEF Told
  <2> QED
    BY <1>3, <1>4, <2>1, AnswersKept
<1> QED
  BY <1>5, <1>6, <1>7, <1>8, <1>9

LEMMA TickKeeps ==
  ASSUME LogInv, Tick PROVE LogInv'
<1> USE DEF LogInv
<1>1. clock \in 0..MaxClock /\ clock' \in 0..MaxClock /\ clock <= clock' /\ MaxClock \in Nat
  BY SessionLogAssumption DEF Tick, Typed, TypeOK
<1>2. UNCHANGED <<events, nextId, turn, history, disorderly>>
  BY DEF Tick
<1>3. Typed' /\ Numbered' /\ Paired'
  BY <1>1, <1>2 DEF Typed, TypeOK, Numbered, Paired, Covered, IsQuestionOf
<1>4. Timed'
  <2>1. \A e \in events : e.at \in Nat
    BY EventFields DEF Typed, TypeOK
  <2> QED
    BY <1>1, <1>2, <2>1 DEF Timed
<1>5. SummaryFirst' /\ AnswerAfterQuestion'
  BY <1>2, HistoriesKept
<1>6. AnsweredTold'
  BY <1>2, AnswersKept DEF Told
<1> QED
  BY <1>3, <1>4, <1>5, <1>6

-----------------------------------------------------------------------------
(* The theorems *)

LEMMA LogInit == Init => LogInv
<1> SUFFICES ASSUME Init PROVE LogInv
  OBVIOUS
<1>1. TypeOK /\ history \in [Turn -> SUBSET Event]
  <2>1. 1 \in 1..(MaxEvents + 3) /\ 0 \in 0..MaxClock
    BY SessionLogAssumption
  <2> QED
    BY <2>1 DEF Init, TypeOK
<1>2. IsFiniteSet(events)
  BY FS_EmptySet DEF Init
<1>3. Numbered /\ Timed /\ Paired
  BY DEF Init, Numbered, Timed, Paired
<1>4. SummaryFirst /\ AnswerAfterQuestion /\ AnsweredTold
  BY DEF Init, SummaryFirst, AnswerAfterQuestion, AnsweredTold
<1> QED
  BY <1>1, <1>2, <1>3, <1>4 DEF LogInv, Typed

LEMMA LogStep == LogInv /\ [Next]_vars => LogInv'
<1> SUFFICES ASSUME LogInv, [Next]_vars PROVE LogInv'
  OBVIOUS
<1>1. ASSUME NEW t \in Turn, Begin(t) \/ ReasoningStep(t) \/ Finish(t) \/ Fail(t)
      PROVE  LogInv'
  BY <1>1, BeginInOrder, ReasoningStepInserts, FinishInserts, FailInserts
<1>2. ASSUME NEW keep \in Keep, Compact(keep) \/ CrashInCompact(keep)
      PROVE  LogInv'
  BY <1>2, CompactKeeps, CrashInCompactKeeps
<1>3. CASE Crash
  BY <1>3, CrashInserts
<1>4. CASE Tick
  BY <1>4, TickKeeps
<1>5. CASE UNCHANGED vars
  BY <1>5 DEF vars, LogInv, Typed, TypeOK, Numbered, Timed, Paired, Covered, IsQuestionOf,
              SummaryFirst, AnswerAfterQuestion, AnsweredTold, Told, Before
<1> QED
  BY <1>1, <1>2, <1>3, <1>4, <1>5 DEF Next

\* The rows and the turns have the shape of the tables (store.ts).
THEOREM LogTypeCorrect == Spec => []TypeOK
<1>1. LogInv => TypeOK
  BY DEF LogInv, Typed
<1> QED
  BY <1>1, LogInit, LogStep, PTL DEF Spec

\* A history starts with its summary (loadHistory): of any number of summaries the
\* floor leaves the last, and what was inserted after it is not stamped before it.
THEOREM SummariesComeFirst == Spec => []SummaryFirst
<1>1. LogInv => SummaryFirst
  BY DEF LogInv
<1> QED
  BY <1>1, LogInit, LogStep, PTL DEF Spec

\* In a history an answer follows its question (loadHistory, agent-runner 8a and 8b),
\* also when the limit cuts it: an answer among the oldest rows has its question there.
THEOREM AnswersFollowQuestions == Spec => []AnswerAfterQuestion
<1>1. LogInv => AnswerAfterQuestion
  BY DEF LogInv
<1> QED
  BY <1>1, LogInit, LogStep, PTL DEF Spec

\* The two messages of a turn that returned its answer stay in the log or in a summary
\* (agent-runner 8a and 8b, compactSession), unless a compaction was disorderly.
THEOREM AnswersStayTold == Spec => []AnsweredTold
<1>1. LogInv => AnsweredTold
  BY DEF LogInv
<1> QED
  BY <1>1, LogInit, LogStep, PTL DEF Spec

\* In an orderly moment no step makes the log forget a message (compactSession).
THEOREM CompactionForgetsNothing == Spec => CompactionSummarises
<1>1. LogInv /\ [Next]_vars => (Orderly => Told \subseteq UNION {e.what : e \in events'})
  <2> SUFFICES ASSUME LogInv, [Next]_vars, Orderly PROVE Told \subseteq Told'
    BY DEF Told
  <2>1. ASSUME NEW keep \in Keep, Compact(keep) PROVE Told \subseteq Told'
    BY <2>1, OrderlyCompaction DEF LogInv
  <2>2. CASE events \subseteq events'
    BY <2>2 DEF Told
  <2>3. CASE \E t \in Turn : Begin(t) \/ ReasoningStep(t) \/ Finish(t) \/ Fail(t)
    BY <2>2, <2>3 DEF Begin, ReasoningStep, Finish, Fail
  <2>4. CASE \E keep \in Keep : CrashInCompact(keep)
    BY <2>2, <2>4 DEF CrashInCompact
  <2>5. CASE Crash \/ Tick \/ UNCHANGED vars
    BY <2>2, <2>5 DEF Crash, Tick, vars
  <2> QED
    BY <2>1, <2>3, <2>4, <2>5 DEF Next
<1> QED
  BY <1>1, LogInit, LogStep, PTL DEF Spec, CompactionSummarises
=============================================================================

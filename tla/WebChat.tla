------------------------------- MODULE WebChat -------------------------------
(***************************************************************************)
(* The web chat (channels/webchat/src/adapter.ts) and the turns it starts  *)
(* (cli/src/runtime/platform.ts, agent-worker/src/runner/agent-runner.ts): *)
(* sockets identify as a user, and again; what a user says starts a turn,  *)
(* several at a time; what a turn answers is broadcast to the sockets that *)
(* are registered for the user's conversation at that moment.              *)
(***************************************************************************)
EXTENDS Naturals, FiniteSets

CONSTANTS
  Socket, User, Turn,
  Nobody,
  MaxRegistrations  \* bound: identify messages

WebChatAssumption == MaxRegistrations \in Nat /\ Nobody \notin User

VARIABLES
  chatSocket,     \* chatSocket[s]: "none", "open" or "closed"
  registration,   \* registration[s]: the registration the socket's handlers hold, 0 if none
  clients,        \* registrations [id, socket, user] in the sets of their conversations
  registrations,  \* how many there have been
  channel,        \* the channel's status in the registry
  turn,           \* turn[t]: [state, user, text]; text: responseText is not empty
  \* history
  attending,      \* attending[t]: sockets that have been registered since t was said
  heard,          \* heard[s][t]: how many ends of t the socket was sent
  recorded,       \* recorded[t]: its events in the session
  renamed         \* sockets that identified more than once

connectionVars == <<chatSocket, registration, clients, registrations, renamed>>
vars == <<connectionVars, channel, turn, attending, heard, recorded>>

TypeOK ==
  /\ \A s \in Socket : registration[s] # 0 => \/ chatSocket[s] = "closed"
                                              \/ \E r \in clients : r.id = registration[s] /\ r.socket = s
  /\ \A q, r \in clients : q.id = r.id => q = r
  /\ channel \in {"connected", "error"}

Init ==
  /\ chatSocket = [s \in Socket |-> "none"] /\ registration = [s \in Socket |-> 0]
  /\ clients = {} /\ registrations = 0 /\ channel = "connected"
  /\ turn = [t \in Turn |-> [state |-> "new", user |-> Nobody, text |-> FALSE]]
  /\ attending = [t \in Turn |-> {}]
  /\ heard = [s \in Socket |-> [t \in Turn |-> 0]]
  /\ recorded = [t \in Turn |-> {}]
  /\ renamed = {}

-----------------------------------------------------------------------------
(* The sockets *)

Connect(s) ==
  /\ chatSocket[s] = "none" /\ chatSocket' = [chatSocket EXCEPT ![s] = "open"]
  /\ UNCHANGED <<registration, clients, registrations, renamed, channel, turn, attending, heard, recorded>>

\* A second identify registers the socket again; nothing takes the first one out.
Identify(s, u) ==
  /\ chatSocket[s] = "open" /\ registrations < MaxRegistrations
  /\ registrations' = registrations + 1
  /\ registration' = [registration EXCEPT ![s] = registrations + 1]
  /\ clients' = clients \cup {[id |-> registrations + 1, socket |-> s, user |-> u]}
  /\ renamed' = IF registration[s] # 0 THEN renamed \cup {s} ELSE renamed
  /\ UNCHANGED <<chatSocket, channel, turn, attending, heard, recorded>>

\* Variant: the registration stays behind.
GoneKept(s) ==
  /\ chatSocket[s] = "open" /\ chatSocket' = [chatSocket EXCEPT ![s] = "closed"]
  /\ attending' = [t \in Turn |-> attending[t] \ {s}]
  /\ UNCHANGED <<registration, clients, registrations, renamed, channel, turn, heard, recorded>>

\* The close event takes out the last registration.
Gone(s) ==
  /\ chatSocket[s] = "open" /\ chatSocket' = [chatSocket EXCEPT ![s] = "closed"]
  /\ clients' = {r \in clients : r.id # registration[s]}
  /\ attending' = [t \in Turn |-> attending[t] \ {s}]
  /\ UNCHANGED <<registration, registrations, renamed, channel, turn, heard, recorded>>

UserOf(s) == LET r == CHOOSE r \in clients : r.id = registration[s] IN r.user

\* The open sockets of the user's conversation.
Listening(u) == {r \in clients : r.user = u /\ chatSocket[r.socket] = "open"}

\* say starts a turn; a message clears the channel's error.
Say(s, t) ==
  /\ chatSocket[s] = "open" /\ registration[s] # 0 /\ turn[t].state = "new"
  /\ turn' = [turn EXCEPT ![t].state = "routing", ![t].user = UserOf(s)]
  /\ attending' = [attending EXCEPT ![t] = {r.socket : r \in Listening(UserOf(s))}]
  /\ channel' = "connected"
  /\ UNCHANGED <<connectionVars, heard, recorded>>

-----------------------------------------------------------------------------
(* The turn *)

To(t, state) == turn' = [turn EXCEPT ![t].state = state]

\* One done or one [error], to every registration of the conversation.
TellEnd(t) ==
  heard' = [s \in Socket |-> [heard[s] EXCEPT ![t] =
              @ + Cardinality({r \in Listening(turn[t].user) : r.socket = s})]]

Succeed(t) == To(t, "done") /\ TellEnd(t) /\ UNCHANGED channel

\* The turn throws where it is: the registry is told, and the conversation.
Fail(t) == To(t, "failed") /\ TellEnd(t) /\ channel' = "error"

\* A step of the turn that may throw instead.
OrFail(t, step) ==
  /\ (step /\ UNCHANGED <<heard, channel>>) \/ Fail(t)
  /\ UNCHANGED <<connectionVars, attending>>

Route(t) ==
  /\ turn[t].state = "routing"
  /\ OrFail(t, To(t, "judging")) /\ UNCHANGED recorded

\* The EGO lets the message through, enriched perhaps, or answers itself; such an
\* answer is sent and not recorded.
Judge(t) ==
  /\ turn[t].state = "judging"
  /\ \/ OrFail(t, To(t, "reasoning"))
     \/ /\ turn' = [turn EXCEPT ![t].state = "answered"]
        /\ TellEnd(t) /\ UNCHANGED <<connectionVars, channel, attending>>
  /\ UNCHANGED recorded

\* The reasoner's events: a delta is broadcast at once, a final text replaces what the
\* deltas made up.
Reason(t) ==
  /\ turn[t].state = "reasoning" /\ ~turn[t].text
  /\ OrFail(t, turn' = [turn EXCEPT ![t].text = TRUE]) /\ UNCHANGED recorded

\* The reasoner has ended; without a text a placeholder takes its place.
ReasonerEnds(t) ==
  /\ turn[t].state = "reasoning"
  /\ OrFail(t, turn' = [turn EXCEPT ![t].state = "asking", ![t].text = TRUE])
  /\ UNCHANGED recorded

Record(t, event) == recorded' = [recorded EXCEPT ![t] = @ \cup {event}]

\* Both events are appended in one go; either INSERT may throw.
AppendBoth(t) ==
  /\ turn[t].state = "asking"
  /\ \/ To(t, "ingesting") /\ recorded' = [recorded EXCEPT ![t] = {"question", "answer"}]
        /\ UNCHANGED <<heard, channel>>
     \/ Fail(t) /\ (UNCHANGED recorded \/ Record(t, "question"))
  /\ UNCHANGED <<connectionVars, attending>>

\* Variant: the turn fails when the memory does.
IngestStrictly(t) ==
  /\ turn[t].state = "ingesting"
  /\ Succeed(t) \/ Fail(t)
  /\ UNCHANGED <<connectionVars, attending, recorded>>

\* The memory takes the turn in, or throws, which is swallowed.
Ingest(t) ==
  /\ turn[t].state = "ingesting"
  /\ Succeed(t)
  /\ UNCHANGED <<connectionVars, attending, recorded>>

Next ==
  \/ \E s \in Socket : \/ Connect(s) \/ Gone(s)
                       \/ \E u \in User : Identify(s, u)
                       \/ \E t \in Turn : Say(s, t)
  \/ \E t \in Turn : \/ Route(t) \/ Judge(t) \/ Reason(t) \/ ReasonerEnds(t)
                     \/ AppendBoth(t) \/ Ingest(t)

Spec == Init /\ [][Next]_vars

-----------------------------------------------------------------------------
(* Properties *)

Ended(t) == turn[t].state \in {"done", "answered", "failed"}

\* A socket that is there from the question to the end is told of one end, and of two
\* only if it identified twice; a closed socket leaves no registration behind, unless
\* it identified twice.
EndToldOnce ==
  /\ \A s \in Socket, t \in Turn :
       /\ Ended(t) /\ s \in attending[t] => heard[s][t] >= 1
       /\ heard[s][t] > 1 => s \in renamed
  /\ \A r \in clients : chatSocket[r.socket] = "closed" => r.socket \in renamed

\* A turn is told as done if and only if the session holds its answer, after its
\* question; the EGO's own answers are not in the session at all.
DoneIsRecorded ==
  \A t \in Turn :
    /\ turn[t].state = "done" => recorded[t] = {"question", "answer"}
    /\ turn[t].state = "failed" => "answer" \notin recorded[t]
    /\ "answer" \in recorded[t] => "question" \in recorded[t]
=============================================================================

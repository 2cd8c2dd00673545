--------------------------- MODULE DiscordGateway ---------------------------
(***************************************************************************)
(* DiscordGatewayClient (channels/discord/src/gateway-client.ts): one      *)
(* shard's WebSocket to Discord, its heartbeat, its session and the loop   *)
(* that reconnects and resumes.  autoReconnect is TRUE, its default.       *)
(* reconnectAttempts only sets the length of a delay and is left out.      *)
(*                                                                         *)
(* The server's side is external: what `stream` and `events` describe is   *)
(* read from the frames the client sends and expects.                      *)
(***************************************************************************)
EXTENDS Naturals

CONSTANTS
  MaxEvents,        \* bound: the events of a session, READY being the first
  MaxSessions       \* bound: the sessions READY announces

\* Assumed of the constants; the modules that instantiate this one check it.
DiscordAssumption == MaxEvents \in Nat \ {0} /\ MaxSessions \in Nat \ {0}

VARIABLES
  socket,           \* this.ws and its readyState
  heartbeat,        \* the interval runs
  sessionId,        \* 0 stands for null
  lastSeq,          \* 0 stands for null
  closed, fatal,
  timer,            \* reconnectTimer, with the `resuming` its closure holds
  resumePending,
  stream,           \* the server's side of the socket
  cursor,           \* the last event the server sent on this socket
  events,           \* the events the server has for its newest session
  newest,           \* the newest session the server announced
  handled           \* the last event of that session given to the handler

client == <<socket, heartbeat, sessionId, lastSeq, closed, fatal, timer, resumePending>>
server == <<stream, cursor, events, newest>>
vars == <<client, server, handled>>

SocketState == {"none", "connecting", "open", "closing", "closed"}
Live == {"connecting", "open", "closing"}

\* greeting: Hello is still to come.  waiting: for Identify or Resume.
\* starting: an Identify is in, READY will follow.  live: events are sent.
\* refused: a Resume is in and the session is gone.
StreamState == {"greeting", "waiting", "starting", "live", "refused"}

TypeOK ==
  /\ socket \in SocketState
  /\ heartbeat \in BOOLEAN
  /\ sessionId \in 0..MaxSessions
  /\ lastSeq \in 0..MaxEvents
  /\ closed \in BOOLEAN /\ fatal \in BOOLEAN /\ resumePending \in BOOLEAN
  /\ timer \in {"off", "fresh", "resume"}
  /\ stream \in StreamState
  /\ cursor \in 0..MaxEvents /\ events \in 0..MaxEvents /\ handled \in 0..MaxEvents
  /\ newest \in 0..MaxSessions

Init ==
  /\ socket = "none" /\ heartbeat = FALSE
  /\ sessionId = 0 /\ lastSeq = 0
  /\ closed = FALSE /\ fatal = FALSE
  /\ timer = "off" /\ resumePending = FALSE
  /\ stream = "greeting" /\ cursor = 0 /\ events = 0 /\ newest = 0 /\ handled = 0

-----------------------------------------------------------------------------
(* Opening and closing *)

\* openSocket(resuming), up to the await of 'open'.
OpenSocket(resuming) ==
  IF closed \/ fatal THEN UNCHANGED <<socket, resumePending, stream, cursor>>
  ELSE /\ socket' = "connecting"
       /\ resumePending' = resuming
       /\ stream' = "greeting"
       /\ cursor' = 0

\* connect() is called once, by the adapter or the shard manager.
Connect ==
  /\ socket = "none"
  /\ OpenSocket(FALSE)
  /\ UNCHANGED <<heartbeat, sessionId, lastSeq, closed, fatal, timer, events, newest, handled>>

Opened ==
  /\ socket = "connecting"
  /\ socket' = "open"
  /\ UNCHANGED <<heartbeat, sessionId, lastSeq, closed, fatal, timer, resumePending, server, handled>>

\* this.ws?.close(): the socket is closing until its close event.
CloseFrame == socket' = IF socket \in {"connecting", "open"} THEN "closing" ELSE socket

\* A close code of FATAL_CODES, of NON_RESUMABLE_CODES or any other.
CloseCode == {"fatal", "session", "other"}

DropSession == sessionId' = 0 /\ lastSeq' = 0

\* Variant: the timer is armed before the code is looked at.
HandleCloseEager(code) ==
  /\ heartbeat' = FALSE
  /\ fatal' = (fatal \/ (~closed /\ code = "fatal"))
  /\ timer' = IF sessionId # 0 THEN "resume" ELSE "fresh"
  /\ UNCHANGED <<sessionId, lastSeq>>

\* handleClose: cleanup, then nothing more when closed, no reconnect after a
\* fatal code, and otherwise a timer that remembers whether to resume.
HandleClose(code) ==
  LET resumable == code # "session" /\ sessionId # 0 IN
  /\ heartbeat' = FALSE
  /\ \/ /\ closed
        /\ UNCHANGED <<sessionId, lastSeq, fatal, timer>>
     \/ /\ ~closed /\ code = "fatal"
        /\ fatal' = TRUE
        /\ UNCHANGED <<sessionId, lastSeq, timer>>
     \/ /\ ~closed /\ code # "fatal"
        /\ timer' = IF resumable THEN "resume" ELSE "fresh"
        /\ IF resumable THEN UNCHANGED <<sessionId, lastSeq>> ELSE DropSession
        /\ UNCHANGED fatal

\* The close event: of an attempt that failed, a connection that broke, a close
\* of the server or the end of the client's own.
SocketCloses ==
  /\ socket \in Live
  /\ socket' = "closed"
  /\ \E code \in CloseCode : HandleClose(code)
  /\ UNCHANGED <<closed, resumePending, server, handled>>

TimerFires ==
  /\ timer # "off"
  /\ timer' = "off"
  /\ OpenSocket(timer = "resume")
  /\ UNCHANGED <<heartbeat, sessionId, lastSeq, closed, fatal, events, newest, handled>>

\* close()
Close ==
  /\ ~closed
  /\ closed' = TRUE
  /\ timer' = "off"
  /\ heartbeat' = FALSE
  /\ CloseFrame
  /\ UNCHANGED <<sessionId, lastSeq, fatal, resumePending, server, handled>>

-----------------------------------------------------------------------------
(* Frames.  They are also delivered while the socket is closing. *)

CanReceive == socket \in {"open", "closing"}

\* handleHello: send() drops a frame unless the socket is open.
Hello ==
  /\ CanReceive /\ stream = "greeting"
  /\ heartbeat' = TRUE
  /\ stream' =
       IF socket # "open" THEN "waiting"
       ELSE IF resumePending /\ sessionId # 0 /\ lastSeq # 0
            THEN IF sessionId = newest THEN "live" ELSE "refused"
            ELSE "starting"
  /\ cursor' = IF stream' = "live" THEN lastSeq ELSE 0
  /\ UNCHANGED <<socket, sessionId, lastSeq, closed, fatal, timer, resumePending, events, newest, handled>>

\* READY, the first event of a new session.
Ready ==
  /\ CanReceive /\ stream = "starting" /\ newest < MaxSessions
  /\ newest' = newest + 1
  /\ events' = 1 /\ cursor' = 1 /\ handled' = 1
  /\ sessionId' = newest' /\ lastSeq' = 1
  /\ stream' = "live"
  /\ UNCHANGED <<socket, heartbeat, closed, fatal, timer, resumePending>>

\* Variant: the sequence number is kept only while the socket is open.
DispatchOpenOnly ==
  /\ CanReceive /\ stream = "live" /\ cursor < events
  /\ cursor' = cursor + 1
  /\ lastSeq' = IF socket = "open" THEN cursor' ELSE lastSeq
  /\ handled' = cursor'
  /\ UNCHANGED <<socket, heartbeat, sessionId, closed, fatal, timer, resumePending,
                 stream, events, newest>>

\* A dispatch: lastSeq first, then the handler, which returns at once.
Dispatch ==
  /\ CanReceive /\ stream = "live" /\ cursor < events
  /\ cursor' = cursor + 1
  /\ lastSeq' = cursor'
  /\ handled' = cursor'
  /\ UNCHANGED <<socket, heartbeat, sessionId, closed, fatal, timer, resumePending,
                 stream, events, newest>>

\* Op 7.
ReconnectRequested ==
  /\ CanReceive
  /\ CloseFrame
  /\ UNCHANGED <<heartbeat, sessionId, lastSeq, closed, fatal, timer, resumePending, server, handled>>

\* Op 9, the answer to a Resume that is refused (or, with d = true, to one that
\* should be tried again).
InvalidSession(resumable) ==
  /\ CanReceive /\ stream \in {"starting", "refused"}
  /\ IF resumable THEN UNCHANGED <<sessionId, lastSeq>> ELSE DropSession
  /\ CloseFrame
  /\ stream' = "waiting"
  /\ UNCHANGED <<heartbeat, closed, fatal, timer, resumePending, cursor, events, newest, handled>>

\* The server has something to tell, whether or not a socket is up.
ServerEvent ==
  /\ newest # 0 /\ events < MaxEvents
  /\ events' = events + 1
  /\ UNCHANGED <<client, stream, cursor, newest, handled>>

\* The server gives up its newest session: a Resume of it will be refused.
ServerForgets ==
  /\ newest \in 1..(MaxSessions - 1) /\ stream # "live"
  /\ newest' = newest + 1
  /\ events' = 0 /\ handled' = 0
  /\ UNCHANGED <<client, stream, cursor>>

Receive == Hello \/ Ready \/ Dispatch \/ \E resumable \in BOOLEAN : InvalidSession(resumable)

Next ==
  \/ Connect \/ Opened \/ SocketCloses \/ TimerFires \/ Close
  \/ Receive \/ ReconnectRequested
  \/ ServerEvent \/ ServerForgets

Spec == Init /\ [][Next]_vars

-----------------------------------------------------------------------------
(* Properties *)

\* One chain of sockets and timers (openSocket, handleClose, close): a client
\* that was neither closed nor refused has exactly one live socket or one timer,
\* never both and never none; one that was has no timer and at most a socket that is
\* closing, and the heartbeat never outlives its socket.
SingleChain ==
  /\ socket # "none" /\ ~closed /\ ~fatal => (socket \in Live) # (timer # "off")
  /\ closed \/ fatal => timer = "off" /\ socket \notin {"connecting", "open"}
  /\ heartbeat => socket \in Live

\* The client's memory of the stream is exactly what it handed on: a Resume then
\* asks for the next event of the session, and no event is skipped or handled
\* twice (handleMessage, handleHello, handleClose), whenever the socket breaks.
ResumesWhereItStopped ==
  sessionId # 0 /\ sessionId = newest => lastSeq = handled
=============================================================================

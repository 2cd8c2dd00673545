--------------------------- MODULE SlackSocketMode ---------------------------
(***************************************************************************)
(* SocketModeTransport (channels/slack/src/socket-mode-transport.ts): one  *)
(* WebSocket whose URL is fetched before every attempt, and the envelopes  *)
(* Slack sends on it.  autoReconnect is TRUE, its default; `fatal` is      *)
(* never set in the code and reconnectAttempts only sets a delay.          *)
(*                                                                         *)
(* External: Slack sends an event again until its acknowledgement arrives. *)
(***************************************************************************)
CONSTANT Event

VARIABLES
  socket,           \* this.ws and its readyState
  fetching,         \* openSocket awaits resolveSocketUrl
  timer,            \* reconnectTimer
  closed,
  stoppedFetching,  \* history: stop() came while the URL was awaited
  handled,          \* the events onEvent was called with
  acked             \* the events whose acknowledgement Slack received

link == <<socket, fetching, timer, closed, stoppedFetching>>
vars == <<link, handled, acked>>

Live == {"connecting", "open", "closing"}

TypeOK ==
  /\ socket \in {"none", "closed"} \cup Live
  /\ fetching \in BOOLEAN /\ timer \in BOOLEAN
  /\ closed \in BOOLEAN /\ stoppedFetching \in BOOLEAN
  /\ handled \subseteq Event
  /\ acked \subseteq Event

Init ==
  /\ socket = "none" /\ fetching = FALSE /\ timer = FALSE /\ closed = FALSE
  /\ stoppedFetching = FALSE
  /\ handled = {} /\ acked = {}

\* openSocket up to the await of the URL; `closed` is looked at only here.
OpenSocket == fetching' = ~closed

\* start(), called once by the adapter.
Start ==
  /\ socket = "none" /\ ~fetching /\ ~timer
  /\ OpenSocket
  /\ UNCHANGED <<socket, timer, closed, stoppedFetching, handled, acked>>

\* The URL is there: the socket is created, whatever happened meanwhile.
UrlResolved ==
  /\ fetching
  /\ fetching' = FALSE
  /\ socket' = "connecting"
  /\ UNCHANGED <<timer, closed, stoppedFetching, handled, acked>>

ScheduleReconnect == timer' = (timer \/ ~closed)

\* Variant: only a close of the socket leads to another attempt.
UrlFailedSilently ==
  /\ fetching
  /\ fetching' = FALSE
  /\ UNCHANGED <<socket, timer, closed, stoppedFetching, handled, acked>>

UrlFailed ==
  /\ fetching
  /\ fetching' = FALSE
  /\ ScheduleReconnect
  /\ UNCHANGED <<socket, closed, stoppedFetching, handled, acked>>

Opened ==
  /\ socket = "connecting"
  /\ socket' = "open"
  /\ UNCHANGED <<fetching, timer, closed, stoppedFetching, handled, acked>>

\* handleClose, of an attempt that failed as of a connection that ended.
SocketCloses ==
  /\ socket \in Live
  /\ socket' = "closed"
  /\ ScheduleReconnect
  /\ UNCHANGED <<fetching, closed, stoppedFetching, handled, acked>>

TimerFires ==
  /\ timer
  /\ timer' = FALSE
  /\ OpenSocket
  /\ UNCHANGED <<socket, closed, stoppedFetching, handled, acked>>

CloseFrame == socket' = IF socket \in {"connecting", "open"} THEN "closing" ELSE socket

\* A `disconnect` frame with refresh_requested; the others are only reported.
RefreshRequested ==
  /\ socket \in {"open", "closing"}
  /\ CloseFrame
  /\ UNCHANGED <<fetching, timer, closed, stoppedFetching, handled, acked>>

\* Variant: an envelope is acknowledged by a client that was stopped and is
\* handed on only by one that was not.
EnvelopeIgnoredWhenClosed(e) ==
  /\ socket \in {"open", "closing"} /\ e \notin acked
  /\ handled' = IF closed THEN handled ELSE handled \cup {e}
  /\ acked' \in {acked, acked \cup {e}}
  /\ UNCHANGED link

\* An events_api envelope: ack() sends nothing unless the socket is open, what
\* it sends may be lost with the connection, and the event is handed on.
Envelope(e) ==
  /\ socket \in {"open", "closing"} /\ e \notin acked
  /\ handled' = handled \cup {e}
  /\ acked' \in IF socket = "open" THEN {acked, acked \cup {e}} ELSE {acked}
  /\ UNCHANGED link

\* stop()
Stop ==
  /\ ~closed
  /\ closed' = TRUE
  /\ timer' = FALSE
  /\ stoppedFetching' = fetching
  /\ CloseFrame
  /\ UNCHANGED <<fetching, handled, acked>>

Next ==
  \/ Start \/ UrlResolved \/ UrlFailed \/ Opened \/ SocketCloses \/ TimerFires
  \/ RefreshRequested \/ Stop
  \/ \E e \in Event : Envelope(e)

Spec == Init /\ [][Next]_vars

-----------------------------------------------------------------------------
(* Properties *)

\* One chain of attempts (openSocket, scheduleReconnect, handleClose, stop): a
\* transport that runs is fetching a URL, or has a live socket, or waits for its
\* timer, and never two of these.  One that was stopped has at most a socket that is
\* closing; but a stop() that came while the URL was fetched is not heard, and that
\* fetch may still open a socket, which no timer follows.
SingleChain ==
  LET started == socket # "none" \/ fetching \/ timer
      active == {x \in {"fetch", "socket", "timer"} :
                   \/ x = "fetch" /\ fetching
                   \/ x = "socket" /\ socket \in Live
                   \/ x = "timer" /\ timer}
  IN /\ \A x, y \in active : x = y
     /\ started /\ ~closed => active # {}
     /\ closed => ~timer
     /\ closed => stoppedFetching \/ (~fetching /\ socket \notin {"connecting", "open"})

\* "does not reconnect after stop()" (socket-mode-transport.test.ts): a transport that
\* was connected before and is stopped makes no other socket.
NoReconnectAfterStop ==
  [][closed /\ socket = "closed" => socket' # "connecting"]_vars

\* What Slack will not send again was handed on (handleMessage).
AckedHandled == acked \subseteq handled
=============================================================================

--------------------------- MODULE BrowserRpcClient ---------------------------
(***************************************************************************)
(* BrowserRpcClient of the webapp (webapp/src/ui/controllers/              *)
(* rpc-client.ts) as GatewayController uses it: calls that connect first,  *)
(* a token fetched over HTTP before every socket, and a loop of            *)
(* reconnects.  Frames of the server are left out but for the answer to a  *)
(* call.  A browser has one thread: a handler is one step.                 *)
(***************************************************************************)
EXTENDS Naturals, FiniteSets

CONSTANTS
  MaxSockets,     \* bound: runs of openOnce
  Call,           \* bound: calls
  MaxAttempts     \* maxReconnectAttempts

\* Assumed of the constants; the modules that instantiate this one check it.
BrowserAssumption == MaxSockets \in Nat /\ MaxAttempts \in Nat

Opening == 1..MaxSockets

VARIABLES
  socket,         \* each run of openOnce and the socket it made
  ws,             \* this.ws; 0 stands for null
  ready,          \* the run whose promise is this.readyPromise; 0 for null
  attempt,        \* reconnectAttempt
  closedByCaller,
  status,
  timers,         \* reconnect timers that will fire
  call            \* each call: where it is, and the run it waits for or was sent on

vars == <<socket, ws, ready, attempt, closedByCaller, status, timers, call>>

\* token: awaiting getToken().  failed: getToken() threw.
SocketState == {"unused", "token", "connecting", "open", "closing", "closed", "failed"}

TypeOK ==
  /\ socket \in [Opening -> SocketState]
  /\ ws \in 0..MaxSockets /\ ready \in 0..MaxSockets
  /\ attempt \in 0..MaxAttempts /\ closedByCaller \in BOOLEAN
  /\ status \in {"idle", "connecting", "open", "reconnecting", "closed"}
  /\ timers \in 0..MaxSockets
  /\ call \in [Call -> [state : {"unused", "waiting", "sent", "dropped", "settled"}, on : 0..MaxSockets]]

Init ==
  /\ socket = [s \in Opening |-> "unused"]
  /\ ws = 0 /\ ready = 0 /\ attempt = 0 /\ closedByCaller = FALSE
  /\ status = "idle" /\ timers = 0
  /\ call = [c \in Call |-> [state |-> "unused", on |-> 0]]

IsOpen == ws # 0 /\ socket[ws] = "open"

\* The calls of a state become those of another.
Calls(Is(_), state, on) ==
  [c \in Call |-> IF Is(call[c]) THEN [state |-> state, on |-> on] ELSE call[c]]

-----------------------------------------------------------------------------
(* Opening *)

\* openOnce, up to the await of getToken().
OpenOnce(s) ==
  /\ socket[s] = "unused" /\ \A o \in 1..(s - 1) : socket[o] # "unused"
  /\ socket' = [socket EXCEPT ![s] = "token"]
  /\ status' = IF attempt = 0 THEN "connecting" ELSE "reconnecting"

\* call(): connect() returns at once on an open socket, waits for readyPromise
\* when there is one, and otherwise opens.  An eager connect() is a call nobody
\* answers and is not told apart.
Begin(c) ==
  /\ call[c].state = "unused"
  /\ \/ /\ IsOpen
        /\ call' = [call EXCEPT ![c] = [state |-> "sent", on |-> ws]]
        /\ UNCHANGED <<socket, status, ready>>
     \/ /\ ~IsOpen /\ ready # 0
        /\ call' = [call EXCEPT ![c] = [state |-> "waiting", on |-> ready]]
        /\ UNCHANGED <<socket, status, ready>>
     \/ /\ ~IsOpen /\ ready = 0
        /\ \E s \in Opening :
             /\ OpenOnce(s)
             /\ ready' = s
             /\ call' = [call EXCEPT ![c] = [state |-> "waiting", on |-> s]]
  /\ UNCHANGED <<ws, attempt, closedByCaller, timers>>

\* getToken() gave one: the socket becomes this.ws, whatever that was.
TokenGiven(s) ==
  /\ socket[s] = "token"
  /\ socket' = [socket EXCEPT ![s] = "connecting"]
  /\ ws' = s
  /\ UNCHANGED <<ready, attempt, closedByCaller, status, timers, call>>

\* The promise of a run rejects: those who wait for it are told, and connect()
\* clears readyPromise.
Reject(s) ==
  /\ ready' = IF ready = s THEN 0 ELSE ready
  /\ call' = Calls(LAMBDA k : k.state = "waiting" /\ k.on = s, "settled", s)

\* getToken() threw, as it does while the gateway is down.  The run of a
\* reconnect swallows it: "next tick cycle handles it".
TokenFails(s) ==
  /\ socket[s] = "token"
  /\ socket' = [socket EXCEPT ![s] = "failed"]
  /\ Reject(s)
  /\ UNCHANGED <<ws, attempt, closedByCaller, status, timers>>

\* onopen: the calls that waited for this run go out on this.ws, whichever socket
\* that is by now.  One that still connects makes send throw, one that closes or
\* has closed drops the frame.
Opened(s) ==
  /\ socket[s] = "connecting"
  /\ socket' = [socket EXCEPT ![s] = "open"]
  /\ attempt' = 0 /\ status' = "open"
  /\ ready' = IF ready = s THEN 0 ELSE ready
  /\ call' = Calls(LAMBDA k : k.state = "waiting" /\ k.on = s,
                   CASE socket'[ws] = "open" -> "sent"
                     [] socket'[ws] = "connecting" -> "settled"
                     [] OTHER -> "dropped", ws)
  /\ UNCHANGED <<ws, closedByCaller, timers>>

-----------------------------------------------------------------------------
(* Closing *)

Sent(k) == k.state \in {"sent", "dropped"}

\* Variant: one attempt more than maxReconnectAttempts.
HandleCloseOnceMore(s) ==
  /\ call' = Calls(Sent, "settled", s)
  /\ IF closedByCaller \/ attempt > MaxAttempts
     THEN status' = "closed" /\ UNCHANGED <<ready, attempt, timers>>
     ELSE /\ status' = "reconnecting" /\ attempt' = attempt + 1 /\ timers' = timers + 1
          /\ UNCHANGED ready

\* handleClose: every call that is pending is rejected, on whichever socket.  The
\* promise of the run is rejected only when the attempts are exhausted.
HandleClose(s) ==
  \/ /\ closedByCaller
     /\ status' = "closed"
     /\ call' = Calls(Sent, "settled", s)
     /\ UNCHANGED <<ready, attempt, timers>>
  \/ /\ ~closedByCaller /\ attempt >= MaxAttempts
     /\ status' = "closed"
     /\ ready' = IF ready = s THEN 0 ELSE ready
     /\ call' = Calls(LAMBDA k : Sent(k) \/ (k.state = "waiting" /\ k.on = s), "settled", s)
     /\ UNCHANGED <<attempt, timers>>
  \/ /\ ~closedByCaller /\ attempt < MaxAttempts
     /\ attempt' = attempt + 1
     /\ status' = "reconnecting"
     /\ timers' = timers + 1
     /\ call' = Calls(Sent, "settled", s)
     /\ UNCHANGED ready

\* onclose: a failed handshake, a broken connection, a close of either side.
SocketCloses(s) ==
  /\ socket[s] \in {"connecting", "open", "closing"}
  /\ socket' = [socket EXCEPT ![s] = "closed"]
  /\ HandleClose(s)
  /\ UNCHANGED <<ws, closedByCaller>>

TimerFires ==
  /\ timers > 0
  /\ timers' = timers - 1
  /\ \E s \in Opening : OpenOnce(s)
  /\ UNCHANGED <<ws, ready, attempt, closedByCaller, call>>

\* close(), when the page goes or the identity is reset.
Close ==
  /\ ~closedByCaller
  /\ closedByCaller' = TRUE
  /\ status' = "closed"
  /\ socket' = IF ws # 0 /\ socket[ws] \in {"connecting", "open"}
               THEN [socket EXCEPT ![ws] = "closing"] ELSE socket
  /\ UNCHANGED <<ws, ready, attempt, timers, call>>

\* The answer of the server, or the call's timer.
Settle(c) ==
  /\ Sent(call[c])
  /\ call' = [call EXCEPT ![c].state = "settled"]
  /\ UNCHANGED <<socket, ws, ready, attempt, closedByCaller, status, timers>>

-----------------------------------------------------------------------------
Next ==
  \/ \E c \in Call : Begin(c) \/ Settle(c)
  \/ \E s \in Opening : TokenGiven(s) \/ TokenFails(s) \/ Opened(s) \/ SocketCloses(s)
  \/ TimerFires \/ Close

Spec == Init /\ [][Next]_vars

-----------------------------------------------------------------------------
(* Properties *)

\* A call on the wire can still be answered (handleClose, call): the socket it
\* was sent on has not closed, whichever of several sockets it was.
SentCanBeAnswered ==
  \A c \in Call : call[c].state = "sent" => socket[call[c].on] \in {"open", "closing"}

\* A client that says it is reconnecting has an attempt or a timer under way, unless
\* getToken() threw in its last attempt: no timer follows that one, although the comment
\* where it is swallowed says "next tick cycle handles it".
ReconnectGoesOn ==
  status = "reconnecting" =>
    \/ timers > 0
    \/ \E s \in Opening : socket[s] \in {"token", "connecting"}
    \/ \E s \in Opening : socket[s] = "failed" /\ \A o \in (s + 1)..MaxSockets : socket[o] = "unused"
=============================================================================

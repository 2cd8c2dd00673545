----------------------------- MODULE RpcServer -----------------------------
(***************************************************************************)
(* The WebSocket connections between RPC clients and the gateway, and the  *)
(* gateway's side of them: RpcServer (gateway-cli/src/rpc/server.ts), the  *)
(* methods it dispatches to (methods.ts) and the shutdown of the process   *)
(* around them (lifecycle/foreground.ts, the start command of              *)
(* cli/src/commands/gateway.ts).                                           *)
(*                                                                         *)
(* A handler may still report a phase after it has returned: a deep path   *)
(* that timed out and the peers of a failed step go on.  The deltas of     *)
(* emit only carry text and are left out.                                  *)
(***************************************************************************)
EXTENDS Naturals, Sequences

-----------------------------------------------------------------------------
(* The wire: the two ends of each connection, which close on their own, and *)
(* the frames under way, which are lost with the connection.  Frames to the *)
(* client arrive in order; the few requests under way are independent, and  *)
(* their order is left open.                                                *)

CONSTANTS
  MaxSockets,       \* bound: the sockets a client ever opens
  MaxCalls,         \* bound: the calls it ever makes
  None

Socket == 1..MaxSockets
Call == 1..MaxCalls

\* Assumed of the constants; the modules that instantiate this one check it.
WireAssumption ==
  MaxSockets \in Nat \ {0} /\ MaxCalls \in Nat \ {0} /\ None \notin Socket \cup Call

VARIABLES
  clientEnd,        \* readyState at the client; "aborting": closed before it opened
  serverEnd,        \* readyState at the server
  requests,         \* frames to the server, <<call, method>>
  frames            \* frames to the client, <<call, what>>

wire == <<clientEnd, serverEnd, requests, frames>>

\* "working" stands for every phase but these; `received` goes out with `accepted`
\* and `complete` with `finalizing`, and each pair is one frame here.
Phase == {"received", "working", "streaming_response", "complete", "error"}
Terminal == {"complete", "error"}
Response == {"result", "failure"}
Frame == Phase \cup Response

Method == {"chat.send", "query"}

WireTypeOK ==
  /\ clientEnd \in [Socket -> {"none", "connecting", "aborting", "open", "closing", "refused", "closed"}]
  /\ serverEnd \in [Socket -> {"none", "open", "closing", "closed"}]
  /\ requests \in [Socket -> SUBSET (Call \X Method)]
  /\ frames \in [Socket -> Seq(Call \X Frame)]

WireInit ==
  /\ clientEnd = [s \in Socket |-> "none"]
  /\ serverEnd = [s \in Socket |-> "none"]
  /\ requests = [s \in Socket |-> {}]
  /\ frames = [s \in Socket |-> <<>>]

\* close() of an open socket: closing until its close event.
Closing(end, s) == IF end[s] = "open" THEN [end EXCEPT ![s] = "closing"] ELSE end

Receiving(end, s) == end[s] \in {"open", "closing"}

-----------------------------------------------------------------------------
(* The server *)

CONSTANT MaxReports    \* bound: the phases a handler reports

\* Assumed of the constants; the modules that instantiate this one check it.
ServerAssumption == MaxReports \in Nat

VARIABLES
  process,          \* of the gateway; "stopping": from rpc.close() to its exit
  inflight,         \* the keys of a connection's map
  aborted,          \* the calls whose signal was aborted
  turn,             \* of a chat.send
  turnClosed,
  origin,           \* the connection a turn came in on
  reports           \* how often a turn's handler reported

serverVars == <<process, inflight, aborted, turn, turnClosed, origin, reports>>

ServerTypeOK ==
  /\ process \in {"up", "stopping", "down"}
  /\ inflight \in [Socket -> SUBSET Call]
  /\ aborted \subseteq Call
  /\ turn \in [Call -> {"none", "routing", "running", "returned"}]
  /\ turnClosed \in [Call -> BOOLEAN]
  /\ origin \in [Call -> Socket \cup {None}]
  /\ reports \in [Call -> 0..MaxReports]

ServerInit ==
  /\ process = "up"
  /\ inflight = [s \in Socket |-> {}]
  /\ aborted = {}
  /\ turn = [c \in Call |-> "none"]
  /\ turnClosed = [c \in Call |-> FALSE]
  /\ origin = [c \in Call |-> None]
  /\ reports = [c \in Call |-> 0]

-----------------------------------------------------------------------------
(* Connections *)

\* The upgrade, which a server that was closed refuses.
Accept(s) ==
  /\ process = "up"
  /\ clientEnd[s] \in {"connecting", "aborting"} /\ serverEnd[s] = "none"
  /\ serverEnd' = [serverEnd EXCEPT ![s] = "open"]
  /\ UNCHANGED <<clientEnd, requests, frames, serverVars>>

\* notify and safeSend: what is sent on a socket that is not open is dropped, and
\* what is sent to a client that is gone is lost.
Send(s, fs) ==
  frames' = IF serverEnd[s] = "open" /\ clientEnd[s] # "closed"
            THEN [frames EXCEPT ![s] = @ \o fs] ELSE frames

\* Variant: the requests of a connection that is gone are forgotten and go on.
ConnectionClosesSilently(s) ==
  /\ Receiving(serverEnd, s)
  /\ serverEnd' = [serverEnd EXCEPT ![s] = "closed"]
  /\ inflight' = [inflight EXCEPT ![s] = {}]
  /\ requests' = [requests EXCEPT ![s] = {}]
  /\ UNCHANGED <<clientEnd, frames, process, aborted, turn, turnClosed, origin, reports>>

\* 'close' or 'error' of a connection.
ConnectionCloses(s) ==
  /\ Receiving(serverEnd, s)
  /\ serverEnd' = [serverEnd EXCEPT ![s] = "closed"]
  /\ aborted' = aborted \cup inflight[s]
  /\ inflight' = [inflight EXCEPT ![s] = {}]
  /\ requests' = [requests EXCEPT ![s] = {}]
  /\ UNCHANGED <<clientEnd, frames, process, turn, turnClosed, origin, reports>>

-----------------------------------------------------------------------------
(* Requests *)

Take(s, r) ==
  /\ Receiving(serverEnd, s) /\ r \in requests[s]
  /\ requests' = [requests EXCEPT ![s] = @ \ {r}]
  /\ UNCHANGED <<clientEnd, serverEnd>>

\* A method that answers at once, from its arguments and the stores.
Query(s, c) ==
  /\ Take(s, <<c, "query">>)
  /\ \E f \in Response : Send(s, <<<<c, f>>>>)
  /\ UNCHANGED serverVars

\* dispatch of chat.send up to its await of the router, or to the error its
\* parameters raise.
ChatSend(s, c) ==
  /\ Take(s, <<c, "chat.send">>)
  /\ \/ /\ Send(s, <<<<c, "failure">>>>)
        /\ UNCHANGED <<inflight, turn, origin>>
     \/ /\ inflight' = [inflight EXCEPT ![s] = @ \cup {c}]
        /\ turn' = [turn EXCEPT ![c] = "routing"]
        /\ origin' = [origin EXCEPT ![c] = s]
        /\ UNCHANGED frames
  /\ UNCHANGED <<process, aborted, turnClosed, reports>>

\* The end of dispatch: the last frames, and the entry is dropped.
EndDispatch(c, fs) ==
  /\ Send(origin[c], fs)
  /\ inflight' = [inflight EXCEPT ![origin[c]] = @ \ {c}]

\* The router answers, or throws.
Routed(c) ==
  /\ turn[c] = "routing"
  /\ \/ /\ turn' = [turn EXCEPT ![c] = "running"]
        /\ Send(origin[c], <<<<c, "received">>>>)
        /\ UNCHANGED inflight
     \/ /\ turn' = [turn EXCEPT ![c] = "none"]
        /\ EndDispatch(c, <<<<c, "failure">>>>)
  /\ UNCHANGED <<process, aborted, turnClosed, origin, reports, clientEnd, serverEnd, requests>>

\* emitPhase, which is silent once the turn is closed.
Report(c, f) ==
  /\ turn[c] \in {"running", "returned"} /\ reports[c] < MaxReports
  /\ ~turnClosed[c]
  /\ reports' = [reports EXCEPT ![c] = @ + 1]
  /\ Send(origin[c], <<<<c, f>>>>)
  /\ UNCHANGED <<process, inflight, aborted, turn, turnClosed, origin, clientEnd, serverEnd, requests>>

\* Variant: the result is sent before the turn is reported complete.
HandlerReturnsEarly(c) ==
  /\ turn[c] = "running"
  /\ turn' = [turn EXCEPT ![c] = "returned"]
  /\ turnClosed' = [turnClosed EXCEPT ![c] = TRUE]
  /\ \/ EndDispatch(c, <<<<c, "result">>, <<c, "complete">>>>)
     \/ EndDispatch(c, <<<<c, "error">>, <<c, "failure">>>>)
  /\ UNCHANGED <<process, aborted, origin, reports, clientEnd, serverEnd, requests>>

\* The handler returns or throws.
HandlerReturns(c) ==
  /\ turn[c] = "running"
  /\ turn' = [turn EXCEPT ![c] = "returned"]
  /\ turnClosed' = [turnClosed EXCEPT ![c] = TRUE]
  /\ \/ EndDispatch(c, <<<<c, "complete">>, <<c, "result">>>>)
     \/ EndDispatch(c, <<<<c, "error">>, <<c, "failure">>>>)
  /\ UNCHANGED <<process, aborted, origin, reports, clientEnd, serverEnd, requests>>

-----------------------------------------------------------------------------
(* The process *)

\* triggerShutdown, by a signal or after the answer to gateway.shutdown: the
\* clients are closed and awaited, then onShutdown stops the platform and exits.
TriggerShutdown ==
  /\ process = "up"
  /\ process' = "stopping"
  /\ serverEnd' = [s \in Socket |-> IF serverEnd[s] = "open" THEN "closing" ELSE serverEnd[s]]
  /\ UNCHANGED <<clientEnd, requests, frames, inflight, aborted, turn, turnClosed, origin, reports>>

\* The end of the process, by onShutdown or a crash: its turns are gone with it.
Exit ==
  /\ process # "down"
  /\ process' = "down"
  /\ serverEnd' = [s \in Socket |-> IF serverEnd[s] = "none" THEN "none" ELSE "closed"]
  /\ requests' = [s \in Socket |-> {}]
  /\ inflight' = [s \in Socket |-> {}]
  /\ aborted' = {}
  /\ turn' = [c \in Call |-> "none"]
  /\ turnClosed' = [c \in Call |-> FALSE]
  /\ origin' = [c \in Call |-> None]
  /\ reports' = [c \in Call |-> 0]
  /\ UNCHANGED <<clientEnd, frames>>

Restart ==
  /\ process = "down"
  /\ process' = "up"
  /\ UNCHANGED <<wire, inflight, aborted, turn, turnClosed, origin, reports>>

ServerNext ==
  \/ TriggerShutdown \/ Exit \/ Restart
  \/ \E s \in Socket :
       Accept(s) \/ ConnectionCloses(s) \/ \E c \in Call : Query(s, c) \/ ChatSend(s, c)
  \/ \E c \in Call :
       \/ Routed(c) \/ HandlerReturns(c)
       \/ \E f \in {"working", "streaming_response"} : Report(c, f)
=============================================================================

------------------------------- MODULE Platform -------------------------------
(***************************************************************************)
(* The life of one gateway process: startPlatform and its shutdown         *)
(* (cli/src/runtime/platform.ts), the mount of /rpc and triggerShutdown    *)
(* (gateway-cli/src/lifecycle/foreground.ts), and what the API gateway     *)
(* (control-plane/src/gateway/server.ts), the webchat adapter              *)
(* (channels/webchat/src/adapter.ts) and the RPC server close on the way.  *)
(*                                                                         *)
(* A turn is a submission on its way through the router and the platform's *)
(* handler; it uses the stores from its first step to its last.            *)
(***************************************************************************)
EXTENDS Naturals, FiniteSets

CONSTANTS
  Conn,           \* bound: connections that clients make, HTTP requests included
  None

Origin == {"http", "ws", "webchat", "rpc"}

\* The steps of startPlatform, gatewayStartCommand and shutdown, in order.
Stages == {"boot", "listening", "channels", "mounted", "rpc", "webchat", "gateway", "http", "stores", "exited"}

VARIABLES
  stage,          \* how far the start or the shutdown has come
  stopping,       \* triggerShutdown's flag
  cron,           \* the scheduler has its jobs
  conn,           \* each connection: its endpoint and its state
  turns,          \* the turns in flight on each connection, and the cron's
  stores          \* audit, memory and sessions are open

vars == <<stage, stopping, cron, conn, turns, stores>>

\* anonymous: a webchat client that has not identified itself.
\* leaving: closed by this side, whose peer has yet to answer.
ConnState == {"new", "anonymous", "open", "leaving", "closed"}

TypeOK ==
  /\ stage \in Stages
  /\ stopping \in BOOLEAN /\ cron \in BOOLEAN /\ stores \in BOOLEAN
  /\ conn \in [Conn -> [source : Origin \cup {None}, state : ConnState]]
  /\ turns \subseteq Conn \cup {"cron"}

Init ==
  /\ stage = "boot" /\ stopping = FALSE /\ cron = FALSE
  /\ conn = [c \in Conn |-> [source |-> None, state |-> "new"]]
  /\ turns = {} /\ stores = TRUE

Of(source) == {c \in Conn : conn[c].source = source}
Up(source) == {c \in Of(source) : conn[c].state \in {"anonymous", "open", "leaving"}}

-----------------------------------------------------------------------------
(* Start.  A start that fails ends the process: nothing is kept of it. *)

Proceed(from, to) ==
  /\ stage = from
  /\ stage' = to

\* gateway.start(): /healthz, /messages and /ws are served from here on.
Listen ==
  /\ Proceed("boot", "listening")
  /\ UNCHANGED <<stopping, cron, conn, turns, stores>>

\* webchat.initialize(), its handler, and scheduler.start().
StartChannels ==
  /\ Proceed("listening", "channels")
  /\ cron' = TRUE
  /\ UNCHANGED <<stopping, conn, turns, stores>>

\* mountRpcOnGateway, after the pid and port files are written: the signal
\* handlers and gateway.shutdown exist from here on.
MountRpc ==
  /\ Proceed("channels", "mounted")
  /\ UNCHANGED <<stopping, cron, conn, turns, stores>>

Fail ==
  /\ stage \in {"boot", "listening", "channels"}
  /\ stage' = "exited"
  /\ conn' = [c \in Conn |-> [conn[c] EXCEPT !.state = "closed"]]
  /\ turns' = {} /\ cron' = FALSE /\ stores' = FALSE
  /\ UNCHANGED stopping

-----------------------------------------------------------------------------
(* Clients *)

\* Each server takes a connection until it is told to close: a closing
\* WebSocketServer answers an upgrade with 503, a closing http server with none.
Accepts(source) ==
  CASE source = "http"    -> stage \in {"listening", "channels", "mounted", "rpc", "webchat", "gateway"}
    [] source = "ws"      -> stage \in {"listening", "channels", "mounted", "rpc", "webchat"}
    [] source = "webchat" -> stage \in {"channels", "mounted", "rpc"}
    [] source = "rpc"     -> stage = "mounted" /\ ~stopping

Connect(c, source) ==
  /\ conn[c].state = "new" /\ Accepts(source)
  /\ conn' = [conn EXCEPT ![c] =
       [source |-> source, state |-> IF source = "webchat" THEN "anonymous" ELSE "open"]]
  /\ UNCHANGED <<stage, stopping, cron, turns, stores>>

\* identify, which a socket sends when it likes.
Identify(c) ==
  /\ conn[c].state = "anonymous"
  /\ conn' = [conn EXCEPT ![c].state = "open"]
  /\ UNCHANGED <<stage, stopping, cron, turns, stores>>

\* A submission: POST /messages, a frame on /ws, say, chat.send.  Frames are also
\* delivered on a socket that is leaving.
Begin(c) ==
  /\ conn[c].state \in {"open", "leaving"}
  /\ conn[c].source = "http" => conn[c].state = "open"
  /\ c \notin turns
  /\ turns' = turns \cup {c}
  /\ UNCHANGED <<stage, stopping, cron, conn, stores>>

CronFires ==
  /\ cron /\ "cron" \notin turns
  /\ turns' = turns \cup {"cron"}
  /\ UNCHANGED <<stage, stopping, cron, conn, stores>>

\* The answer of an HTTP request closes its connection (any other would be idle,
\* which http.close() closes).
TurnEnds(t) ==
  /\ t \in turns
  /\ turns' = turns \ {t}
  /\ conn' = IF t \in Of("http") THEN [conn EXCEPT ![t].state = "closed"] ELSE conn
  /\ UNCHANGED <<stage, stopping, cron, stores>>

\* A connection ends; its turn does not, but for an HTTP connection's place.
Gone(c) ==
  /\ conn[c].state \in {"anonymous", "open", "leaving"}
  /\ conn' = [conn EXCEPT ![c].state = "closed"]
  /\ UNCHANGED <<stage, stopping, cron, turns, stores>>

-----------------------------------------------------------------------------
(* Shutdown *)

\* close() on each of them: a closing handshake is begun.
CloseAll(cs) == conn' = [c \in Conn |-> IF c \in cs THEN [conn[c] EXCEPT !.state = "leaving"] ELSE conn[c]]

\* triggerShutdown, by a signal or by gateway.shutdown; the second one returns.
\* rpc.close() closes its sockets and waits for them.
TriggerShutdown ==
  /\ stage = "mounted" /\ ~stopping
  /\ stopping' = TRUE
  /\ CloseAll(Up("rpc"))
  /\ UNCHANGED <<stage, cron, turns, stores>>

\* Then scheduler.stop(), which awaits no run.
StopCron ==
  /\ stopping /\ Up("rpc") = {}
  /\ Proceed("mounted", "rpc")
  /\ cron' = FALSE
  /\ UNCHANGED <<stopping, conn, turns, stores>>

\* webchat.shutdown() closes the registered clients only.
CloseWebchat ==
  /\ Proceed("rpc", "webchat")
  /\ CloseAll({c \in Of("webchat") : conn[c].state = "open"})
  /\ UNCHANGED <<stopping, cron, turns, stores>>

\* Variant: the connections of /ws are awaited without being closed.
CloseGatewayWaiting ==
  /\ Up("webchat") = {}
  /\ Proceed("webchat", "gateway")
  /\ UNCHANGED <<stopping, cron, conn, turns, stores>>

\* wss.close() waits for every client; then gateway.stop() closes those of /ws.
CloseGateway ==
  /\ Up("webchat") = {}
  /\ Proceed("webchat", "gateway")
  /\ CloseAll(Up("ws"))
  /\ UNCHANGED <<stopping, cron, turns, stores>>

\* http.close() once /ws is empty: no new connection, and the idle ones end.
CloseHttp ==
  /\ Up("ws") = {}
  /\ Proceed("gateway", "http")
  /\ conn' = [c \in Conn |-> IF c \in Up("http") \ turns THEN [conn[c] EXCEPT !.state = "closed"]
                             ELSE conn[c]]
  /\ UNCHANGED <<stopping, cron, turns, stores>>

\* Variant: the stores are closed before the gateway has stopped.
CloseStoresEarly ==
  /\ Proceed("http", "stores")
  /\ stores' = FALSE
  /\ UNCHANGED <<stopping, cron, conn, turns>>

\* audit, memory and sessions are closed when the last connection is gone.
CloseStores ==
  /\ Up("http") = {}
  /\ Proceed("http", "stores")
  /\ stores' = FALSE
  /\ UNCHANGED <<stopping, cron, conn, turns>>

\* The files are cleared and the process exits, with whatever runs.
Exit ==
  /\ Proceed("stores", "exited")
  /\ turns' = {}
  /\ UNCHANGED <<stopping, cron, conn, stores>>

-----------------------------------------------------------------------------
Shutdown == StopCron \/ CloseWebchat \/ CloseGateway \/ CloseHttp \/ CloseStores \/ Exit

Next ==
  \/ Listen \/ StartChannels \/ MountRpc \/ Fail
  \/ \E c \in Conn : Identify(c) \/ Begin(c) \/ Gone(c) \/ \E s \in Origin : Connect(c, s)
  \/ CronFires \/ \E t \in Conn \cup {"cron"} : TurnEnds(t)
  \/ TriggerShutdown \/ Shutdown

\* The process goes on with its shutdown, a closing handshake ends (the ws
\* library gives it 30 seconds) and a turn over HTTP ends (its model and its tools
\* have timeouts).  Nothing makes a client leave that was not asked to.
Fairness ==
  /\ WF_vars(Shutdown)
  /\ \A c \in Conn :
       /\ WF_vars(conn[c].state = "leaving" /\ Gone(c))
       /\ WF_vars(c \in Of("http") /\ TurnEnds(c))

Spec == Init /\ [][Next]_vars

-----------------------------------------------------------------------------
(* Properties *)

\* The order of the shutdown (triggerShutdown, shutdown(), ApiGateway.stop,
\* WebChatAdapter.shutdown): no turn is begun on closed stores, whichever client
\* sends it and whenever.
BeginsOnOpenStores ==
  [][turns' \subseteq turns \/ stores]_vars

\* A client that awaits the answer of POST /messages is never left with its
\* stores closed under it.
HttpTurnsServed == ~stores /\ stage # "exited" => turns \cap Up("http") = {}

\* wss.close() of the web chat awaits a client that the adapter did not close: one that
\* had not identified itself when the others were closed.
HeldByStranger ==
  stage = "webchat" /\ \E c \in Of("webchat") : conn[c].state \in {"anonymous", "open"}

\* A shutdown that was asked for ends (triggerShutdown, shutdown(), ApiGateway.stop),
\* whatever the clients of the RPC server, of /ws and of HTTP do; only a web-chat client
\* that the adapter never closed can hold it up, for as long as it stays.
ShutdownEnds == stopping ~> stage = "exited" \/ HeldByStranger
=============================================================================

----------------------------- MODULE RpcClient -----------------------------
(***************************************************************************)
(* RpcClient (tui/src/lib/rpc-client.ts), the hook that owns it (useRpc)   *)
(* and the App that calls through it.  A call's promise settles once;      *)
(* `pending` also keeps the entries of calls whose promise was rejected by *)
(* a send that threw.                                                      *)
(***************************************************************************)
EXTENDS RpcServer

CONSTANTS
  MaxAttempts,      \* maxReconnectAttempts
  method            \* what each call asks for

\* Assumed of the constants; the modules that instantiate this one check it.
ClientAssumption == MaxAttempts \in Nat /\ method \in [Call -> Method]

VARIABLES
  ws,               \* this.ws
  readyPromise,     \* the socket whose opening this.readyPromise stands for
  reconnectAttempt,
  closedByCaller,
  timers,           \* reconnect timers that have not fired
  pending,          \* the keys of the map, each with its timer
  call,             \* the promise of a call
  waits,            \* the socket whose opening a call awaits
  status,           \* the App's view of the connection
  shown,            \* the last phase a call's listener was told
  indicator         \* the call whose phase the App shows

socketVars == <<ws, readyPromise, reconnectAttempt, closedByCaller, timers, status>>
callVars == <<pending, call, waits, shown, indicator>>
clientVars == <<socketVars, callVars>>

ClientTypeOK ==
  /\ ws \in Socket \cup {None} /\ readyPromise \in Socket \cup {None}
  /\ reconnectAttempt \in 0..MaxAttempts
  /\ closedByCaller \in BOOLEAN
  /\ timers \in 0..MaxSockets
  /\ pending \subseteq Call
  /\ call \in [Call -> {"idle", "waiting", "pending", "resolved", "rejected"}]
  /\ waits \in [Call -> Socket \cup {None}]
  /\ status \in {"connecting", "open", "reconnecting", "closed"}
  /\ shown \in [Call -> Phase \cup {None}]
  /\ indicator \in Call \cup {None}

ClientInit ==
  /\ ws = None /\ readyPromise = None
  /\ reconnectAttempt = 0 /\ closedByCaller = FALSE /\ timers = 0
  /\ pending = {}
  /\ call = [c \in Call |-> "idle"]
  /\ waits = [c \in Call |-> None]
  /\ status = "connecting"
  /\ shown = [c \in Call |-> None]
  /\ indicator = None

Unsettled == {"waiting", "pending"}

\* App's busy flag.
Busy == \E c \in Call : method[c] = "chat.send" /\ call[c] \in Unsettled

\* The next socket of the constructor, while the bound allows one.
NewSocket(s) ==
  /\ clientEnd[s] = "none"
  /\ \A t \in Socket : t < s => clientEnd[t] # "none"

-----------------------------------------------------------------------------
(* Settling calls *)

\* The promises of the calls in C, if they have not settled: the App's handlers
\* also clear the phase when one of them was a turn.
Settle(C, outcome) ==
  LET S == {c \in C : call[c] \notin {"resolved", "rejected"}} IN
  /\ call' = [c \in Call |-> IF c \in S THEN outcome ELSE call[c]]
  /\ waits' = [c \in Call |-> IF c \in S THEN None ELSE waits[c]]
  /\ indicator' = IF \E c \in S : method[c] = "chat.send" THEN None ELSE indicator

\* Past `await connect()`: every call enters the map; a socket that is connecting
\* or null makes send throw, and one that is closing or closed drops the frame.
Proceed(C, end) ==
  /\ pending' = pending \cup C
  /\ IF ws = None \/ end[ws] \in {"connecting", "aborting"}
     THEN Settle(C, "rejected") /\ UNCHANGED requests
     ELSE /\ call' = [c \in Call |-> IF c \in C THEN "pending" ELSE call[c]]
          /\ waits' = [c \in Call |-> IF c \in C THEN None ELSE waits[c]]
          /\ requests' = IF end[ws] # "open" \/ ~Receiving(serverEnd, ws) THEN requests
                         ELSE [requests EXCEPT ![ws] = @ \cup {<<c, method[c]>> : c \in C}]
          /\ UNCHANGED indicator

\* The calls that await the opening of s.
Awaiting(s) == {c \in Call : waits[c] = s}

-----------------------------------------------------------------------------
(* Sockets *)

OpenSocket(s) ==
  /\ NewSocket(s)
  /\ clientEnd' = [clientEnd EXCEPT ![s] = "connecting"]
  /\ ws' = s

\* The effect of useRpc.
Connect ==
  /\ clientEnd[1] = "none" /\ ~closedByCaller
  /\ OpenSocket(1)
  /\ readyPromise' = 1
  /\ UNCHANGED <<reconnectAttempt, closedByCaller, timers, status, callVars,
                 serverEnd, requests, frames>>

\* The 'open' event, and the calls that awaited it.
Opened(s) ==
  /\ clientEnd[s] = "connecting" /\ serverEnd[s] # "none"
  /\ clientEnd' = [clientEnd EXCEPT ![s] = "open"]
  /\ reconnectAttempt' = 0
  /\ status' = "open"
  /\ Proceed(Awaiting(s), clientEnd')
  /\ UNCHANGED <<ws, readyPromise, closedByCaller, timers, shown, serverEnd, frames>>

\* Variant: one attempt more than maxReconnectAttempts.
HandleCloseOnceMore(C, failed) ==
  IF ~closedByCaller /\ reconnectAttempt <= MaxAttempts
  THEN /\ readyPromise' = None
       /\ reconnectAttempt' = reconnectAttempt + 1 /\ timers' = timers + 1
       /\ Settle(C, "rejected")
       /\ UNCHANGED pending
  ELSE /\ Settle(C \cup pending, "rejected")
       /\ readyPromise' = None /\ pending' = {}
       /\ UNCHANGED <<reconnectAttempt, timers>>

\* The handler of 'close', where C are calls that are rejected before it.
HandleClose(C, failed) ==
  \/ /\ closedByCaller
     /\ Settle(C, "rejected")
     /\ readyPromise' = IF failed THEN None ELSE readyPromise
     /\ UNCHANGED <<reconnectAttempt, timers, pending>>
  \/ /\ ~closedByCaller /\ reconnectAttempt < MaxAttempts
     /\ readyPromise' = None
     /\ reconnectAttempt' = reconnectAttempt + 1
     /\ timers' = timers + 1
     /\ Settle(C, "rejected")
     /\ UNCHANGED pending
  \/ /\ ~closedByCaller /\ reconnectAttempt = MaxAttempts
     /\ readyPromise' = None
     /\ Settle(C \cup pending, "rejected")
     /\ pending' = {}
     /\ UNCHANGED <<reconnectAttempt, timers>>

\* The App's status after onClose; connect()'s rejection comes after it.
StatusAfterClose(first) ==
  status' = IF closedByCaller /\ ~first THEN status
            ELSE IF first \/ reconnectAttempt = MaxAttempts THEN "closed"
            ELSE "reconnecting"

\* 'error' and 'close' of a socket that never opened.
Failed(s) ==
  /\ clientEnd[s] \in {"connecting", "aborting"}
  /\ clientEnd' = [clientEnd EXCEPT ![s] = "closed"]
  /\ ws' = None
  /\ HandleClose(Awaiting(s), TRUE)
  /\ StatusAfterClose(s = 1)
  /\ UNCHANGED <<closedByCaller, shown, serverEnd, requests, frames>>

\* 'unexpected-response': an upgrade that is refused.  No close event follows, as
\* the listener takes the response, and with it no reconnect.
Refused(s) ==
  /\ clientEnd[s] = "connecting" /\ serverEnd[s] = "none"
  /\ clientEnd' = [clientEnd EXCEPT ![s] = "refused"]
  /\ ws' = None /\ readyPromise' = None
  /\ Settle(Awaiting(s), "rejected")
  /\ status' = IF s = 1 THEN "closed" ELSE status
  /\ UNCHANGED <<reconnectAttempt, closedByCaller, timers, pending, shown,
                 serverEnd, requests, frames>>

\* 'close' of a socket that was open: what was under way to it is lost.  When an
\* 'error' came before it, fail() has dropped ws, whichever socket that is.
Closed(s) ==
  /\ Receiving(clientEnd, s)
  /\ clientEnd' = [clientEnd EXCEPT ![s] = "closed"]
  /\ frames' = [frames EXCEPT ![s] = <<>>]
  /\ \E failed \in BOOLEAN :
       /\ HandleClose({}, failed)
       /\ ws' = IF failed THEN None ELSE ws
  /\ StatusAfterClose(FALSE)
  /\ UNCHANGED <<closedByCaller, shown, serverEnd, requests>>

\* The reconnect timer.  Neither it nor openSocket looks at closedByCaller.
TimerFires(s) ==
  /\ timers > 0
  /\ timers' = timers - 1
  /\ OpenSocket(s)
  /\ UNCHANGED <<readyPromise, reconnectAttempt, closedByCaller, status, callVars,
                 serverEnd, requests, frames>>

-----------------------------------------------------------------------------
(* Calls *)

\* call(): a query of the App's effects, or chat.send of App.send.
MakeCall(c) ==
  /\ call[c] = "idle" /\ \A d \in Call : d < c => call[d] # "idle"
  /\ status = "open" /\ ~closedByCaller
  /\ method[c] = "chat.send" => ~Busy
  /\ \/ /\ \/ ws # None /\ clientEnd[ws] = "open"
           \/ readyPromise # None /\ clientEnd[readyPromise] # "connecting"
        /\ Proceed({c}, clientEnd)
        /\ UNCHANGED <<socketVars, clientEnd>>
     \/ /\ ~(ws # None /\ clientEnd[ws] = "open")
        /\ \/ /\ readyPromise # None /\ clientEnd[readyPromise] = "connecting"
              /\ UNCHANGED <<socketVars, clientEnd>>
           \/ /\ readyPromise = None
              /\ \E s \in Socket : OpenSocket(s)
              /\ readyPromise' = ws'
              /\ UNCHANGED <<reconnectAttempt, closedByCaller, timers, status>>
        /\ call' = [call EXCEPT ![c] = "waiting"]
        /\ waits' = [waits EXCEPT ![c] = readyPromise']
        /\ UNCHANGED <<pending, requests, indicator>>
  /\ UNCHANGED <<shown, serverEnd, frames>>

\* The timer of an entry; the promise of some has been rejected before.
Timeout(c) ==
  /\ c \in pending
  /\ pending' = pending \ {c}
  /\ Settle({c}, "rejected")
  /\ UNCHANGED <<socketVars, shown, wire>>

\* Variant: notifications reach the listener of a call that is no longer pending.
NotifiedAlways(c, f) ==
  /\ shown' = [shown EXCEPT ![c] = IF f \in Phase THEN f ELSE @]
  /\ indicator' = IF f \notin Phase THEN indicator
                  ELSE IF f \in Terminal \cup {"streaming_response"} THEN None ELSE c
  /\ UNCHANGED <<pending, call, waits>>

\* A notification with the request's id, forwarded while its call is pending.
\* Deltas and `accepted` do not touch the indicator.
Notified(c, f) ==
  /\ IF c \in pending /\ f \in Phase
     THEN /\ shown' = [shown EXCEPT ![c] = f]
          /\ indicator' = IF f \in Terminal \cup {"streaming_response"} THEN None ELSE c
     ELSE UNCHANGED <<shown, indicator>>
  /\ UNCHANGED <<pending, call, waits>>

Answered(c, f) ==
  /\ pending' = pending \ {c}
  /\ IF c \in pending THEN Settle({c}, IF f = "result" THEN "resolved" ELSE "rejected")
     ELSE UNCHANGED <<call, waits, indicator>>
  /\ UNCHANGED shown

\* handleMessage
HandleMessage(s) ==
  /\ Receiving(clientEnd, s) /\ frames[s] # <<>>
  /\ frames' = [frames EXCEPT ![s] = Tail(@)]
  /\ LET c == Head(frames[s])[1]
         f == Head(frames[s])[2]
     IN IF f \in Response THEN Answered(c, f) ELSE Notified(c, f)
  /\ UNCHANGED <<socketVars, clientEnd, serverEnd, requests>>

\* close(), when the App is unmounted.
Close ==
  /\ ~closedByCaller
  /\ closedByCaller' = TRUE
  /\ Settle(pending, "rejected")
  /\ pending' = {}
  /\ clientEnd' = IF ws = None THEN clientEnd
                  ELSE IF clientEnd[ws] = "connecting" THEN [clientEnd EXCEPT ![ws] = "aborting"]
                  ELSE Closing(clientEnd, ws)
  /\ ws' = None
  /\ UNCHANGED <<readyPromise, reconnectAttempt, timers, status, shown,
                 serverEnd, requests, frames>>

ClientNext ==
  \/ Connect \/ Close
  \/ \E s \in Socket :
       Opened(s) \/ Failed(s) \/ Refused(s) \/ Closed(s) \/ TimerFires(s) \/ HandleMessage(s)
  \/ \E c \in Call : Timeout(c) \/ MakeCall(c)
=============================================================================

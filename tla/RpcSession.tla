----------------------------- MODULE RpcSession -----------------------------
(***************************************************************************)
(* A terminal client and a gateway over the wire: reconnects, calls that   *)
(* outlive their socket, turns that outlive their client, and shutdowns,   *)
(* crashes and restarts of the gateway.                                    *)
(***************************************************************************)
EXTENDS RpcClient

vars == <<wire, clientVars, serverVars>>

TypeOK == WireTypeOK /\ ClientTypeOK /\ ServerTypeOK

Init == WireInit /\ ClientInit /\ ServerInit

Next ==
  \/ ClientNext /\ UNCHANGED serverVars
  \/ ServerNext /\ UNCHANGED clientVars

\* Assumed of the network and of timers, of nothing else: an attempt to connect
\* ends, and a call's timer fires.
Fairness ==
  /\ \A s \in Socket : WF_vars((Opened(s) \/ Failed(s) \/ Refused(s)) /\ UNCHANGED serverVars)
  /\ \A c \in Call : WF_vars(Timeout(c) /\ UNCHANGED serverVars)

Spec == Init /\ [][Next]_vars

FairSpec == Spec /\ Fairness

-----------------------------------------------------------------------------
(* Properties *)

\* What the App is told of a turn (chat.send, emitPhase, handleMessage): a turn
\* that resolved was reported complete before, and a phase is shown only while
\* its own call is still awaited, whatever sockets broke and whichever handlers
\* report late.
TurnToldInOrder ==
  /\ \A c \in Call : call[c] = "resolved" /\ method[c] = "chat.send" => shown[c] = "complete"
  /\ indicator # None => call[indicator] = "pending" /\ shown[indicator] \notin Terminal

\* A turn whose connection is gone has been told so by its signal (inflight of
\* handleConnection), however the socket went, or its process is gone.
AbortedWhenGone ==
  \A c \in Call :
    turn[c] \in {"routing", "running"} /\ serverEnd[origin[c]] = "closed" => c \in aborted

\* Every call settles (call, handleMessage, the handler of 'close', close()).
CallsSettle ==
  \A c \in Call : call[c] \in Unsettled ~> call[c] \in {"resolved", "rejected"}
=============================================================================

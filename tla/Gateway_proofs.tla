--------------------------- MODULE Gateway_proofs ---------------------------
(***************************************************************************)
(* What serves turns around their reasoning, for any number of sockets,    *)
(* calls, connections, processes, runs, executions, skills and tools: one  *)
(* inductive invariant for each of the six components of MCGateway, and    *)
(* from them what MCGateway promises of every behaviour.                   *)
(*                                                                         *)
(* Each invariant adds to the component's types and promises what the code *)
(* relies on without saying so: which socket a call is known on and in     *)
(* which order its frames go (RPC), which clients a stage of the shutdown  *)
(* may still have (platform), who can have written a pid or port file      *)
(* (lifecycle), that a task's flag counts its unfinished run (scheduler),  *)
(* what ends each execution (sandboxes), and that what a mount has found   *)
(* is in the module cache (skills).                                        *)
(***************************************************************************)
EXTENDS MCGateway, FiniteSetTheorems, TLAPS

-----------------------------------------------------------------------------
(* The client and the RPC server over their wire                          *)

Socket == Rpc!Socket
Call == Rpc!Call

\* Where the server has a call: in a request, in a turn or in frames of it.
Traced(c, s) ==
  \/ \E r \in requests[s] : r[1] = c
  \/ \E i \in DOMAIN frames[s] : frames[s][i][1] = c
  \/ (turn[c] # "none" /\ origin[c] = s)

Unsent(c) == \A s \in Socket : ~Traced(c, s)

\* A call is known on one socket, and on none before it was sent or when its send threw.
OneSocket == \A c \in Call, s, t \in Socket : Traced(c, s) /\ Traced(c, t) => s = t

NotYetSent ==
  \A c \in Call :
    /\ call[c] \in {"idle", "waiting"} => Unsent(c) /\ c \notin pending
    /\ c \in pending /\ call[c] # "pending" => call[c] = "rejected" /\ Unsent(c)
    /\ waits[c] # None => call[c] = "waiting"

\* Only a turn has phases, and its result comes right after its completion.
FrameOK(s, i) ==
  LET c == frames[s][i][1]
      f == frames[s][i][2] IN
  /\ f \in Rpc!Phase => method[c] = "chat.send"
  /\ f = "result" /\ method[c] = "chat.send" =>
       IF i = 1 THEN c \in pending => shown[c] = "complete"
       ELSE frames[s][i - 1] = <<c, "complete">>

FramesInOrder ==
  \A s \in Socket : /\ \A r \in requests[s] : r[2] = method[r[1]]
                    /\ \A i \in DOMAIN frames[s] : FrameOK(s, i)

TurnsHaveOrigins ==
  \A c \in Call : turn[c] # "none" => origin[c] \in Socket /\ method[c] = "chat.send"

\* A turn under way is in the map of its connection until that one closes.
TurnsAreKept ==
  \A c \in Call : turn[c] \in {"routing", "running"} =>
    \/ c \in aborted
    \/ (c \in inflight[origin[c]] /\ serverEnd[origin[c]] # "closed")

ClosedSockets == {s \in Socket : clientEnd[s] = "closed"}
TimersCounted == timers <= Cardinality(ClosedSockets)

IndicatesTurn == indicator # None => method[indicator] = "chat.send"

Told == Rpc!TurnToldInOrder /\ IndicatesTurn

Known == OneSocket /\ NotYetSent /\ FramesInOrder

RpcInv ==
  /\ Rpc!TypeOK /\ Told /\ Known
  /\ TurnsHaveOrigins /\ TurnsAreKept /\ TimersCounted

-----------------------------------------------------------------------------

\* What GatewayAssumption says of the constants of the wire and its two ends.
LEMMA RpcConstants ==
  ASSUME GatewayAssumption
  PROVE  /\ MaxSockets \in Nat \ {0} /\ MaxCalls \in Nat \ {0}
         /\ Socket = 1..MaxSockets /\ Call = 1..MaxCalls
         /\ None \notin Socket /\ None \notin Call
         /\ MaxAttempts \in Nat /\ MaxReports \in Nat
         /\ method \in [Call -> {"chat.send", "query"}]
  BY DEF GatewayAssumption, Rpc!WireAssumption, Rpc!ClientAssumption, Rpc!ServerAssumption, Rpc!Method,
         Socket, Call, Rpc!Socket, Rpc!Call

\* Rpc!TypeOK with the wire spelled out.
LEMMA RpcTypes ==
  Rpc!TypeOK <=>
    /\ clientEnd \in [Socket -> {"none", "connecting", "aborting", "open", "closing", "refused", "closed"}]
    /\ serverEnd \in [Socket -> {"none", "open", "closing", "closed"}]
    /\ requests \in [Socket -> SUBSET (Call \X Rpc!Method)]
    /\ frames \in [Socket -> Seq(Call \X Rpc!Frame)]
    /\ Rpc!ClientTypeOK /\ Rpc!ServerTypeOK
  BY Zenon DEF Rpc!TypeOK, Rpc!WireTypeOK, Socket, Call

\* What the server may send of a call at a time.
Replies(c) ==
  IF method[c] = "chat.send"
  THEN {<< <<c, "failure">> >>, << <<c, "received">> >>, << <<c, "working">> >>, << <<c, "streaming_response">> >>,
        << <<c, "complete">>, <<c, "result">> >>, << <<c, "error">>, <<c, "failure">> >>}
  ELSE {<< <<c, "result">> >>, << <<c, "failure">> >>}

\* A reply is typed, is one call's, and ends with its result only after completion.
LEMMA RepliesOK ==
  ASSUME NEW c \in Call, NEW fs \in Replies(c)
  PROVE  /\ fs \in Seq(Call \X Rpc!Frame) /\ Len(fs) \in {1, 2}
         /\ \A i \in 1..Len(fs) :
              /\ fs[i][1] = c
              /\ fs[i][2] \in Rpc!Phase => method[c] = "chat.send"
              /\ fs[i][2] = "result" /\ method[c] = "chat.send" => i = 2 /\ fs[1] = <<c, "complete">>
<1>1. CASE method[c] = "chat.send"
  <2>1. ASSUME NEW f \in {"failure", "received", "working", "streaming_response"}, fs = << <<c, f>> >>
        PROVE  /\ fs \in Seq(Call \X Rpc!Frame) /\ Len(fs) = 1
               /\ fs[1][1] = c /\ fs[1][2] # "result"
    BY <2>1 DEF Rpc!Frame, Rpc!Phase, Rpc!Response
  <2>2. ASSUME NEW f \in {"complete", "error"}, NEW g \in Rpc!Response, fs = << <<c, f>>, <<c, g>> >>,
               g = "result" => f = "complete"
        PROVE  /\ fs \in Seq(Call \X Rpc!Frame) /\ Len(fs) = 2
               /\ fs[1][1] = c /\ fs[1][2] # "result" /\ fs[2][1] = c
               /\ fs[2][2] = "result" => fs[1] = <<c, "complete">>
    BY <2>2 DEF Rpc!Frame, Rpc!Phase, Rpc!Response
  <2>3. \/ \E f \in {"failure", "received", "working", "streaming_response"} : fs = << <<c, f>> >>
        \/ fs = << <<c, "complete">>, <<c, "result">> >> \/ fs = << <<c, "error">>, <<c, "failure">> >>
    BY <1>1 DEF Replies
  <2>4. {"result", "failure"} = Rpc!Response
    BY DEF Rpc!Response
  <2> QED BY <1>1, <2>1, <2>2, <2>3, <2>4
<1>2. CASE method[c] # "chat.send"
  BY <1>2 DEF Replies, Rpc!Frame, Rpc!Phase, Rpc!Response
<1> QED BY <1>1, <1>2

\* A step of the server sends replies to calls it knows, and makes none known.
LEMMA ServerKnows ==
  ASSUME RpcInv, UNCHANGED <<pending, call, waits, shown>>,
         \A s \in Socket : requests'[s] \subseteq requests[s],
         \A s \in Socket : \/ frames'[s] = frames[s]
                           \/ \E c \in Call : \E fs \in Replies(c) : Traced(c, s) /\ frames'[s] = frames[s] \o fs,
         \A c \in Call, s \in Socket : turn'[c] # "none" /\ origin'[c] = s => Traced(c, s)
  PROVE  Known'
<1>1. frames \in [Socket -> Seq(Call \X Rpc!Frame)]
  BY RpcTypes DEF RpcInv
<1>2. ASSUME NEW s \in Socket, NEW c \in Call, NEW fs \in Replies(c), frames'[s] = frames[s] \o fs
      PROVE  /\ DOMAIN frames'[s] = 1..(Len(frames[s]) + Len(fs)) /\ DOMAIN frames[s] = 1..Len(frames[s])
             /\ Len(fs) \in {1, 2} /\ Len(frames[s]) \in Nat
             /\ \A i \in 1..(Len(frames[s]) + Len(fs)) :
                  frames'[s][i] = IF i <= Len(frames[s]) THEN frames[s][i] ELSE fs[i - Len(frames[s])]
  BY <1>1, <1>2, RepliesOK
<1>3. ASSUME NEW d \in Call, NEW s \in Socket, Traced(d, s)' PROVE Traced(d, s)
  <2>1. CASE \E r \in requests'[s] : r[1] = d
    BY <2>1 DEF Traced
  <2>2. CASE \E i \in DOMAIN frames'[s] : frames'[s][i][1] = d
    <3>1. CASE frames'[s] = frames[s]
      BY <2>2, <3>1 DEF Traced
    <3>2. ASSUME NEW c \in Call, NEW fs \in Replies(c), Traced(c, s), frames'[s] = frames[s] \o fs
          PROVE  Traced(d, s)
      <4>1. PICK i \in DOMAIN frames'[s] : frames'[s][i][1] = d
        BY <2>2
      <4>2. CASE i <= Len(frames[s])
        BY <1>2, <3>2, <4>1, <4>2 DEF Traced
      <4>3. CASE ~(i <= Len(frames[s]))
        <5>1. i - Len(frames[s]) \in 1..Len(fs) /\ frames'[s][i] = fs[i - Len(frames[s])]
          BY <1>2, <3>2, <4>1, <4>3
        <5> QED BY <3>2, <4>1, <5>1, RepliesOK
      <4> QED BY <4>2, <4>3
    <3> QED BY <3>1, <3>2
  <2>3. CASE turn'[d] # "none" /\ origin'[d] = s
    BY <2>3
  <2> QED BY <1>3, <2>1, <2>2, <2>3 DEF Traced
<1>4. OneSocket'
  BY <1>3 DEF OneSocket, RpcInv, Known, Socket, Call
<1>5. NotYetSent'
  BY <1>3 DEF NotYetSent, Unsent, RpcInv, Known
<1>6. ASSUME NEW s \in Socket, NEW i \in DOMAIN frames'[s] PROVE FrameOK(s, i)'
  <2>1. CASE frames'[s] = frames[s]
    BY <2>1 DEF FrameOK, FramesInOrder, RpcInv, Known
  <2>2. ASSUME NEW c \in Call, NEW fs \in Replies(c), frames'[s] = frames[s] \o fs
        PROVE  FrameOK(s, i)'
    <3>1. CASE i <= Len(frames[s])
      <4>1. FrameOK(s, i)
        BY <1>2, <2>2, <3>1 DEF FramesInOrder, RpcInv, Known
      <4>2. i \in 1..Len(frames[s]) /\ frames'[s][i] = frames[s][i] /\ (i # 1 => frames'[s][i - 1] = frames[s][i - 1])
        BY <1>2, <2>2, <3>1
      <4> QED BY <4>1, <4>2 DEF FrameOK
    <3>2. CASE ~(i <= Len(frames[s]))
      <4> DEFINE k == i - Len(frames[s])
      <4>1. k \in 1..Len(fs) /\ frames'[s][i] = fs[k]
        BY <1>2, <2>2, <3>2
      <4>2. k = 2 => i # 1 /\ frames'[s][i - 1] = fs[1]
        BY <1>2, <2>2, <3>2
      <4>3. /\ fs[k][1] = c
            /\ fs[k][2] \in Rpc!Phase => method[c] = "chat.send"
            /\ fs[k][2] = "result" /\ method[c] = "chat.send" => k = 2 /\ fs[1] = <<c, "complete">>
        BY <4>1, RepliesOK
      <4> HIDE DEF k
      <4> QED BY <4>1, <4>2, <4>3 DEF FrameOK
    <3> QED BY <3>1, <3>2
  <2> QED BY <2>1, <2>2
<1>7. FramesInOrder'
  BY <1>6 DEF FramesInOrder, RpcInv, Known
<1> QED BY <1>4, <1>5, <1>7 DEF Known

\* Send appends to the frames of one socket, or drops what it is given.
LEMMA SendOK ==
  ASSUME RpcInv, NEW s \in Socket, NEW c \in Call, NEW fs \in Replies(c), Rpc!Send(s, fs)
  PROVE  /\ frames' \in [Socket -> Seq(Call \X Rpc!Frame)]
         /\ \A t \in Socket : frames'[t] = frames[t] \/ (t = s /\ frames'[t] = frames[t] \o fs)
<1>1. frames \in [Socket -> Seq(Call \X Rpc!Frame)]
  BY RpcTypes DEF RpcInv
<1>2. fs \in Seq(Call \X Rpc!Frame)
  BY RepliesOK
<1>3. frames[s] \o fs \in Seq(Call \X Rpc!Frame)
  BY <1>1, <1>2
<1> QED BY <1>1, <1>3 DEF Rpc!Send

\* What a step of the server has to show.
LEMMA ServerStep ==
  ASSUME RpcInv, Rpc!ServerTypeOK', UNCHANGED <<Rpc!clientVars, clientEnd>>,
         serverEnd' \in [Socket -> {"none", "open", "closing", "closed"}],
         requests' \in [Socket -> SUBSET (Call \X Rpc!Method)],
         frames' \in [Socket -> Seq(Call \X Rpc!Frame)],
         \A s \in Socket : requests'[s] \subseteq requests[s],
         \A s \in Socket : \/ frames'[s] = frames[s]
                           \/ \E c \in Call : \E fs \in Replies(c) : Traced(c, s) /\ frames'[s] = frames[s] \o fs,
         \A c \in Call, s \in Socket : turn'[c] # "none" /\ origin'[c] = s => Traced(c, s),
         TurnsHaveOrigins', TurnsAreKept'
  PROVE  RpcInv'
<1>1. UNCHANGED <<ws, readyPromise, reconnectAttempt, closedByCaller, timers, status,
                  pending, call, waits, shown, indicator, clientEnd>>
  BY DEF Rpc!clientVars, Rpc!socketVars, Rpc!callVars
<1>2. Rpc!TypeOK'
  <2>1. Rpc!ClientTypeOK'
    BY <1>1 DEF RpcInv, Rpc!TypeOK, Rpc!ClientTypeOK
  <2>2. clientEnd' \in [Socket -> {"none", "connecting", "aborting", "open", "closing", "refused", "closed"}]
    BY <1>1, RpcTypes DEF RpcInv
  <2> QED BY <2>1, <2>2 DEF Rpc!TypeOK, Rpc!WireTypeOK, Socket, Call
<1>3. Known'
  BY <1>1, ServerKnows
<1>4. Told' /\ TimersCounted'
  BY <1>1 DEF RpcInv, Told, Rpc!TurnToldInOrder, IndicatesTurn, TimersCounted, ClosedSockets
<1> QED BY <1>2, <1>3, <1>4 DEF RpcInv

\* A connection comes or goes: going, it aborts what its map holds.
LEMMA ConnectionsKeep ==
  ASSUME RpcInv, GatewayAssumption, UNCHANGED Rpc!clientVars, NEW s \in Socket,
         Rpc!Accept(s) \/ Rpc!ConnectionCloses(s)
  PROVE  RpcInv'
<1>1. /\ serverEnd \in [Socket -> {"none", "open", "closing", "closed"}]
      /\ requests \in [Socket -> SUBSET (Call \X Rpc!Method)]
      /\ frames \in [Socket -> Seq(Call \X Rpc!Frame)]
      /\ inflight \in [Socket -> SUBSET Call] /\ aborted \subseteq Call
  BY RpcTypes DEF RpcInv, Rpc!ServerTypeOK, Socket, Call
<1>2. /\ UNCHANGED <<clientEnd, frames, process, turn, turnClosed, origin, reports>>
      /\ serverEnd' \in [Socket -> {"none", "open", "closing", "closed"}]
      /\ requests' \in [Socket -> SUBSET (Call \X Rpc!Method)]
      /\ \A t \in Socket : requests'[t] \subseteq requests[t]
  BY <1>1 DEF Rpc!Accept, Rpc!ConnectionCloses, Rpc!serverVars
<1>3. inflight' \in [Socket -> SUBSET Call] /\ aborted' \subseteq Call
  BY <1>1 DEF Rpc!Accept, Rpc!ConnectionCloses, Rpc!serverVars
<1>4. Rpc!ServerTypeOK'
  BY <1>2, <1>3, RpcTypes DEF RpcInv, Rpc!ServerTypeOK, Socket, Call
<1>5. TurnsHaveOrigins'
  BY <1>2 DEF RpcInv, TurnsHaveOrigins
<1>6. TurnsAreKept'
  <2>1. CASE Rpc!Accept(s)
    BY <1>1, <2>1 DEF Rpc!Accept, Rpc!serverVars, RpcInv, TurnsAreKept
  <2>2. CASE Rpc!ConnectionCloses(s)
    BY <1>1, <2>2 DEF Rpc!ConnectionCloses, RpcInv, TurnsAreKept, TurnsHaveOrigins
  <2> QED BY <2>1, <2>2
<1>7. \A c \in Call, t \in Socket : turn'[c] # "none" /\ origin'[c] = t => Traced(c, t)
  BY <1>2 DEF Traced
<1> QED
  BY <1>1, <1>2, <1>4, <1>5, <1>6, <1>7, ServerStep

\* A request is taken: a query is answered, a turn begins or is refused.
LEMMA RequestsKeep ==
  ASSUME RpcInv, GatewayAssumption, UNCHANGED Rpc!clientVars, NEW s \in Socket, NEW c \in Call,
         Rpc!Query(s, c) \/ Rpc!ChatSend(s, c)
  PROVE  RpcInv'
<1>1. /\ serverEnd \in [Socket -> {"none", "open", "closing", "closed"}]
      /\ requests \in [Socket -> SUBSET (Call \X Rpc!Method)]
      /\ frames \in [Socket -> Seq(Call \X Rpc!Frame)]
      /\ inflight \in [Socket -> SUBSET Call] /\ aborted \subseteq Call
      /\ turn \in [Call -> {"none", "routing", "running", "returned"}]
      /\ origin \in [Call -> Socket \cup {None}]
  BY RpcTypes DEF RpcInv, Rpc!ServerTypeOK, Socket, Call
<1>2. PICK m \in {"query", "chat.send"} :
        /\ <<c, m>> \in requests[s] /\ serverEnd[s] \in {"open", "closing"}
        /\ requests' = [requests EXCEPT ![s] = @ \ {<<c, m>>}]
        /\ (m = "query" <=> Rpc!Query(s, c)) /\ (m = "chat.send" => Rpc!ChatSend(s, c))
  <2>1. CASE Rpc!Query(s, c)
    BY <2>1 DEF Rpc!Query, Rpc!Take, Rpc!Receiving
  <2>2. CASE Rpc!ChatSend(s, c) /\ ~Rpc!Query(s, c)
    BY <2>2 DEF Rpc!ChatSend, Rpc!Take, Rpc!Receiving
  <2> QED BY <2>1, <2>2
<1>3. method[c] = m /\ Traced(c, s)
  BY <1>2 DEF RpcInv, Known, FramesInOrder, Traced
<1>4. /\ UNCHANGED <<clientEnd, serverEnd, process, aborted, turnClosed, reports>>
      /\ requests' \in [Socket -> SUBSET (Call \X Rpc!Method)]
      /\ \A t \in Socket : requests'[t] \subseteq requests[t]
  BY <1>1, <1>2 DEF Rpc!Query, Rpc!ChatSend, Rpc!Take, Rpc!serverVars
<1>5. \/ /\ UNCHANGED <<inflight, turn, origin>>
         /\ \E fs \in Replies(c) : Rpc!Send(s, fs)
      \/ /\ UNCHANGED frames /\ m = "chat.send"
         /\ inflight' = [inflight EXCEPT ![s] = @ \cup {c}]
         /\ turn' = [turn EXCEPT ![c] = "routing"]
         /\ origin' = [origin EXCEPT ![c] = s]
  <2>1. CASE m = "query"
    <3>1. PICK f \in Rpc!Response : Rpc!Send(s, << <<c, f>> >>) /\ UNCHANGED <<inflight, turn, origin>>
      BY <1>2, <2>1 DEF Rpc!Query, Rpc!serverVars
    <3>2. << <<c, f>> >> \in Replies(c)
      BY <1>3, <2>1 DEF Replies, Rpc!Response
    <3> QED BY <3>1, <3>2
  <2>2. CASE m = "chat.send"
    <3>1. << <<c, "failure">> >> \in Replies(c)
      BY <1>3, <2>2 DEF Replies
    <3> QED BY <1>2, <2>2, <3>1 DEF Rpc!ChatSend
  <2> QED BY <2>1, <2>2
<1>6. /\ frames' \in [Socket -> Seq(Call \X Rpc!Frame)]
      /\ \A t \in Socket : \/ frames'[t] = frames[t]
                           \/ \E d \in Call : \E fs \in Replies(d) : Traced(d, t) /\ frames'[t] = frames[t] \o fs
  <2>1. CASE UNCHANGED frames
    BY <1>1, <2>1
  <2>2. ASSUME NEW fs \in Replies(c), Rpc!Send(s, fs)
        PROVE  /\ frames' \in [Socket -> Seq(Call \X Rpc!Frame)]
               /\ \A t \in Socket : frames'[t] = frames[t] \/ (Traced(c, t) /\ frames'[t] = frames[t] \o fs)
    BY <1>3, <2>2, SendOK
  <2> QED BY <1>5, <2>1, <2>2
<1>7. Rpc!ServerTypeOK'
  <2>1. /\ inflight' \in [Socket -> SUBSET Call]
        /\ turn' \in [Call -> {"none", "routing", "running", "returned"}]
        /\ origin' \in [Call -> Socket \cup {None}]
    <3>1. CASE UNCHANGED <<inflight, turn, origin>>
      BY <1>1, <3>1
    <3>2. CASE /\ inflight' = [inflight EXCEPT ![s] = @ \cup {c}]
               /\ turn' = [turn EXCEPT ![c] = "routing"]
               /\ origin' = [origin EXCEPT ![c] = s]
      BY <1>1, <3>2
    <3> QED BY <1>5, <3>1, <3>2
  <2> QED BY <1>4, <2>1, RpcTypes DEF RpcInv, Rpc!ServerTypeOK, Socket, Call
<1>8. TurnsHaveOrigins'
  BY <1>1, <1>3, <1>5 DEF RpcInv, TurnsHaveOrigins
<1>9. TurnsAreKept'
  <2>1. CASE UNCHANGED <<inflight, turn, origin>>
    BY <1>4, <2>1 DEF RpcInv, TurnsAreKept
  <2>2. CASE /\ inflight' = [inflight EXCEPT ![s] = @ \cup {c}]
             /\ turn' = [turn EXCEPT ![c] = "routing"]
             /\ origin' = [origin EXCEPT ![c] = s]
    <3> SUFFICES ASSUME NEW d \in Call, turn'[d] \in {"routing", "running"}
                 PROVE  \/ d \in aborted'
                        \/ (d \in inflight'[origin'[d]] /\ serverEnd'[origin'[d]] # "closed")
      BY DEF TurnsAreKept
    <3>1. CASE d = c
      BY <1>1, <1>2, <1>4, <2>2, <3>1
    <3>2. CASE d # c
      <4>1. turn[d] \in {"routing", "running"} /\ origin'[d] = origin[d] /\ origin[d] \in Socket
        BY <1>1, <2>2, <3>2 DEF RpcInv, TurnsHaveOrigins
      <4> QED BY <1>1, <1>4, <2>2, <4>1 DEF RpcInv, TurnsAreKept
    <3> QED BY <3>1, <3>2
  <2> QED BY <1>5, <2>1, <2>2
<1>10. \A d \in Call, t \in Socket : turn'[d] # "none" /\ origin'[d] = t => Traced(d, t)
  <2> SUFFICES ASSUME NEW d \in Call, NEW t \in Socket, turn'[d] # "none", origin'[d] = t PROVE Traced(d, t)
    OBVIOUS
  <2>1. \/ (turn'[d] = turn[d] /\ origin'[d] = origin[d]) \/ (d = c /\ t = s)
    BY <1>1, <1>5
  <2> QED BY <1>3, <2>1 DEF Traced
<1> QED
  BY <1>1, <1>4, <1>6, <1>7, <1>8, <1>9, <1>10, ServerStep

\* The steps of a turn send on the connection it came in on.
LEMMA TurnStep ==
  ASSUME RpcInv, GatewayAssumption, UNCHANGED Rpc!clientVars, NEW c \in Call, turn[c] # "none",
         NEW fs \in Replies(c), Rpc!Send(origin[c], fs),
         NEW to \in {"none", "routing", "running", "returned"}, turn' = [turn EXCEPT ![c] = to],
         to \in {"routing", "running"} => turn[c] \in {"routing", "running"} /\ UNCHANGED inflight,
         inflight' \in {inflight, [inflight EXCEPT ![origin[c]] = @ \ {c}]},
         turnClosed' \in [Call -> BOOLEAN], reports' \in [Call -> 0..MaxReports],
         UNCHANGED <<process, aborted, origin, clientEnd, serverEnd, requests>>
  PROVE  RpcInv'
<1>1. /\ serverEnd \in [Socket -> {"none", "open", "closing", "closed"}]
      /\ requests \in [Socket -> SUBSET (Call \X Rpc!Method)]
      /\ inflight \in [Socket -> SUBSET Call]
      /\ turn \in [Call -> {"none", "routing", "running", "returned"}]
  BY RpcTypes DEF RpcInv, Rpc!ServerTypeOK, Socket, Call
<1>2. origin[c] \in Socket /\ method[c] = "chat.send" /\ Traced(c, origin[c])
  BY DEF RpcInv, TurnsHaveOrigins, Traced
<1>3. /\ frames' \in [Socket -> Seq(Call \X Rpc!Frame)]
      /\ \A t \in Socket : frames'[t] = frames[t] \/ (Traced(c, t) /\ frames'[t] = frames[t] \o fs)
  BY <1>2, SendOK
<1>4. /\ inflight' \in [Socket -> SUBSET Call]
      /\ turn' \in [Call -> {"none", "routing", "running", "returned"}]
      /\ \A d \in Call : d # c => turn'[d] = turn[d]
  BY <1>1
<1>5. Rpc!ServerTypeOK'
  BY <1>4, RpcTypes DEF RpcInv, Rpc!ServerTypeOK, Socket, Call
<1>6. TurnsHaveOrigins'
  BY <1>1, <1>2, <1>4 DEF RpcInv, TurnsHaveOrigins
<1>7. TurnsAreKept'
  <2> SUFFICES ASSUME NEW d \in Call, turn'[d] \in {"routing", "running"}
               PROVE  \/ d \in aborted \/ (d \in inflight'[origin[d]] /\ serverEnd[origin[d]] # "closed")
    BY DEF TurnsAreKept
  <2>1. CASE d = c
    BY <1>1, <2>1 DEF RpcInv, TurnsAreKept
  <2>2. CASE d # c
    <3>1. turn[d] \in {"routing", "running"} /\ origin[d] \in Socket
      BY <1>4, <2>2 DEF RpcInv, TurnsHaveOrigins
    <3>2. d \in inflight[origin[d]] => d \in inflight'[origin[d]]
      BY <1>1, <2>2, <3>1
    <3> QED BY <3>1, <3>2 DEF RpcInv, TurnsAreKept
  <2> QED BY <2>1, <2>2
<1>8. \A d \in Call, t \in Socket : turn'[d] # "none" /\ origin'[d] = t => Traced(d, t)
  BY <1>2, <1>4 DEF Traced
<1>9. \A t \in Socket : \/ frames'[t] = frames[t]
                        \/ \E d \in Call : \E gs \in Replies(d) : Traced(d, t) /\ frames'[t] = frames[t] \o gs
  BY <1>3
<1> QED
  BY <1>1, <1>3, <1>5, <1>6, <1>7, <1>8, <1>9, ServerStep

\* A turn is routed, reports or returns.
LEMMA TurnsKeep ==
  ASSUME RpcInv, GatewayAssumption, UNCHANGED Rpc!clientVars, NEW c \in Call,
         \/ Rpc!Routed(c) \/ Rpc!HandlerReturns(c)
         \/ \E f \in {"working", "streaming_response"} : Rpc!Report(c, f)
  PROVE  RpcInv'
<1>1. /\ turn[c] # "none" /\ method[c] = "chat.send"
      /\ UNCHANGED <<process, aborted, origin, clientEnd, serverEnd, requests>>
  BY DEF Rpc!Routed, Rpc!HandlerReturns, Rpc!Report, RpcInv, TurnsHaveOrigins
<1>2. /\ turn \in [Call -> {"none", "routing", "running", "returned"}]
      /\ turnClosed \in [Call -> BOOLEAN] /\ reports \in [Call -> 0..MaxReports] /\ MaxReports \in Nat
      /\ inflight \in [Socket -> SUBSET Call]
  BY RpcTypes, RpcConstants DEF RpcInv, Rpc!ServerTypeOK, Socket, Call
<1>3. /\ << <<c, "received">> >> \in Replies(c) /\ << <<c, "failure">> >> \in Replies(c)
      /\ \A f \in {"working", "streaming_response"} : << <<c, f>> >> \in Replies(c)
      /\ << <<c, "complete">>, <<c, "result">> >> \in Replies(c)
      /\ << <<c, "error">>, <<c, "failure">> >> \in Replies(c)
  BY <1>1 DEF Replies
<1>4. CASE Rpc!Routed(c)
  <2>1. UNCHANGED <<turnClosed, reports>> /\ turn[c] = "routing"
    BY <1>4 DEF Rpc!Routed
  <2>2. CASE /\ turn' = [turn EXCEPT ![c] = "running"] /\ UNCHANGED inflight
             /\ Rpc!Send(origin[c], << <<c, "received">> >>)
    BY <1>1, <1>2, <1>3, <2>1, <2>2, TurnStep
  <2>3. CASE turn' = [turn EXCEPT ![c] = "none"] /\ Rpc!EndDispatch(c, << <<c, "failure">> >>)
    BY <1>1, <1>2, <1>3, <2>1, <2>3, TurnStep DEF Rpc!EndDispatch
  <2> QED BY <1>4, <2>2, <2>3 DEF Rpc!Routed
<1>5. CASE Rpc!HandlerReturns(c)
  <2>1. PICK fs \in Replies(c) : Rpc!EndDispatch(c, fs)
    BY <1>3, <1>5 DEF Rpc!HandlerReturns
  <2>2. turn' = [turn EXCEPT ![c] = "returned"] /\ turnClosed' \in [Call -> BOOLEAN] /\ reports' = reports
    BY <1>2, <1>5 DEF Rpc!HandlerReturns
  <2> QED BY <1>1, <1>2, <2>1, <2>2, TurnStep DEF Rpc!EndDispatch
<1>6. ASSUME NEW f \in {"working", "streaming_response"}, Rpc!Report(c, f) PROVE RpcInv'
  <2>1. /\ UNCHANGED <<turn, turnClosed, inflight>> /\ Rpc!Send(origin[c], << <<c, f>> >>)
        /\ turn[c] \in {"running", "returned"}
    BY <1>6 DEF Rpc!Report
  <2>2. reports' \in [Call -> 0..MaxReports]
    BY <1>2, <1>6 DEF Rpc!Report
  <2>3. turn' = [turn EXCEPT ![c] = turn[c]]
    BY <1>2, <2>1
  <2> QED BY <1>1, <1>2, <1>3, <2>1, <2>2, <2>3, TurnStep
<1> QED BY <1>4, <1>5, <1>6

\* The process is told to stop, exits with all its turns, or comes back.
LEMMA ProcessKeepsRpc ==
  ASSUME RpcInv, GatewayAssumption, UNCHANGED Rpc!clientVars,
         Rpc!TriggerShutdown \/ Rpc!Exit \/ Rpc!Restart
  PROVE  RpcInv'
<1>1. /\ serverEnd \in [Socket -> {"none", "open", "closing", "closed"}]
      /\ requests \in [Socket -> SUBSET (Call \X Rpc!Method)]
      /\ frames \in [Socket -> Seq(Call \X Rpc!Frame)]
      /\ MaxReports \in Nat
  BY RpcTypes, RpcConstants DEF RpcInv
<1>2. CASE Rpc!TriggerShutdown \/ Rpc!Restart
  <2>1. UNCHANGED <<clientEnd, requests, frames, inflight, aborted, turn, turnClosed, origin, reports>>
    BY <1>2 DEF Rpc!TriggerShutdown, Rpc!Restart, Rpc!wire
  <2>2. /\ serverEnd' \in [Socket -> {"none", "open", "closing", "closed"}]
        /\ \A s \in Socket : serverEnd'[s] = "closed" <=> serverEnd[s] = "closed"
    BY <1>1, <1>2 DEF Rpc!TriggerShutdown, Rpc!Restart, Rpc!wire, Socket
  <2>3. Rpc!ServerTypeOK'
    BY <1>2, <2>1, RpcTypes DEF RpcInv, Rpc!ServerTypeOK, Rpc!TriggerShutdown, Rpc!Restart
  <2>4. TurnsHaveOrigins'
    BY <2>1 DEF RpcInv, TurnsHaveOrigins
  <2>5. TurnsAreKept'
    BY <2>1, <2>2 DEF RpcInv, TurnsAreKept, TurnsHaveOrigins
  <2>6. \A c \in Call, t \in Socket : turn'[c] # "none" /\ origin'[c] = t => Traced(c, t)
    BY <2>1 DEF Traced
  <2> QED BY <1>1, <2>1, <2>2, <2>3, <2>4, <2>5, <2>6, ServerStep
<1>3. CASE Rpc!Exit
  <2>1. /\ UNCHANGED <<clientEnd, frames>> /\ process' = "down"
        /\ requests' = [s \in Socket |-> {}] /\ inflight' = [s \in Socket |-> {}] /\ aborted' = {}
        /\ turn' = [c \in Call |-> "none"] /\ turnClosed' = [c \in Call |-> FALSE]
        /\ origin' = [c \in Call |-> None] /\ reports' = [c \in Call |-> 0]
        /\ serverEnd' \in [Socket -> {"none", "open", "closing", "closed"}]
    BY <1>3 DEF Rpc!Exit, Socket, Call
  <2>2. Rpc!ServerTypeOK'
    BY <1>1, <2>1 DEF Rpc!ServerTypeOK, Socket, Call
  <2>3. TurnsHaveOrigins' /\ TurnsAreKept'
    BY <2>1 DEF TurnsHaveOrigins, TurnsAreKept
  <2>4. \A c \in Call, t \in Socket : turn'[c] # "none" /\ origin'[c] = t => Traced(c, t)
    BY <2>1
  <2>5. /\ requests' \in [Socket -> SUBSET (Call \X Rpc!Method)]
        /\ \A s \in Socket : requests'[s] \subseteq requests[s]
    BY <2>1
  <2> QED BY <1>1, <2>1, <2>2, <2>3, <2>4, <2>5, ServerStep
<1> QED BY <1>2, <1>3

\* Every step of the server keeps the invariant.
LEMMA ServerKeeps ==
  ASSUME RpcInv, GatewayAssumption, Rpc!ServerNext, UNCHANGED Rpc!clientVars
  PROVE  RpcInv'
  BY ConnectionsKeep, RequestsKeep, TurnsKeep, ProcessKeepsRpc DEF Rpc!ServerNext, Socket, Call

-----------------------------------------------------------------------------
\* The client

CallTypes ==
  /\ pending \in SUBSET Call
  /\ call \in [Call -> {"idle", "waiting", "pending", "resolved", "rejected"}]
  /\ waits \in [Call -> Socket \cup {None}]
  /\ shown \in [Call -> Rpc!Phase \cup {None}]
  /\ indicator \in Call \cup {None}

SocketTypes ==
  /\ ws \in Socket \cup {None} /\ readyPromise \in Socket \cup {None}
  /\ reconnectAttempt \in 0..MaxAttempts
  /\ closedByCaller \in BOOLEAN
  /\ status \in {"connecting", "open", "reconnecting", "closed"}

\* Rpc!ClientTypeOK, split into calls, sockets and timers.
LEMMA ClientTypes == Rpc!ClientTypeOK <=> CallTypes /\ SocketTypes /\ timers \in 0..MaxSockets
  BY DEF Rpc!ClientTypeOK, CallTypes, SocketTypes, Socket, Call

\* Who has settled stays settled, and the App stops showing a turn that settles.
LEMMA SettlesKeep ==
  ASSUME RpcInv, NEW C \in SUBSET Call, Rpc!Settle(C, "rejected"),
         pending' \in SUBSET Call,
         \A c \in pending' : \/ c \in pending /\ (c \in C => call[c] # "pending")
                             \/ c \in C /\ call[c] \in {"idle", "waiting"},
         UNCHANGED <<shown, requests, turn, origin>>,
         \A s \in Socket : frames'[s] \in {frames[s], <<>>}
  PROVE  Told' /\ Known' /\ CallTypes'
<1> DEFINE S == {c \in C : call[c] \notin {"resolved", "rejected"}}
<1>1. CallTypes /\ frames \in [Socket -> Seq(Call \X Rpc!Frame)]
  BY ClientTypes, RpcTypes DEF RpcInv
<1>2. /\ call' = [c \in Call |-> IF c \in S THEN "rejected" ELSE call[c]]
      /\ waits' = [c \in Call |-> IF c \in S THEN None ELSE waits[c]]
      /\ indicator' = IF \E c \in S : method[c] = "chat.send" THEN None ELSE indicator
  BY DEF Rpc!Settle, Call
<1>3. \A d \in Call, s \in Socket : Traced(d, s)' => Traced(d, s)
  <2> SUFFICES ASSUME NEW d \in Call, NEW s \in Socket, Traced(d, s)' PROVE Traced(d, s)
    OBVIOUS
  <2>1. CASE frames'[s] = frames[s]
    BY <2>1 DEF Traced
  <2>2. CASE frames'[s] = <<>>
    BY <2>2 DEF Traced
  <2> QED BY <2>1, <2>2
<1>4. CallTypes'
  BY <1>1, <1>2 DEF CallTypes
<1>5. ASSUME NEW c \in Call
      PROVE  /\ c \in S => call'[c] = "rejected" /\ waits'[c] = None
             /\ c \notin S => call'[c] = call[c] /\ waits'[c] = waits[c]
             /\ c \in C /\ c \notin S => call[c] \in {"resolved", "rejected"}
             /\ c \in S => c \in C
  BY <1>2
<1> HIDE DEF S
<1>6. Told'
  <2>1. ASSUME NEW c \in Call, call'[c] = "resolved", method[c] = "chat.send" PROVE shown'[c] = "complete"
    BY <1>5, <2>1 DEF RpcInv, Told, Rpc!TurnToldInOrder, Call
  <2>2. ASSUME indicator' # None
        PROVE  /\ call'[indicator'] = "pending" /\ shown'[indicator'] \notin Rpc!Terminal
               /\ method[indicator'] = "chat.send"
    <3>1. indicator' = indicator /\ indicator \in Call /\ ~\E c \in S : method[c] = "chat.send"
      BY <1>1, <1>2, <2>2 DEF CallTypes
    <3>2. /\ call[indicator] = "pending" /\ shown[indicator] \notin Rpc!Terminal
          /\ method[indicator] = "chat.send"
      BY <2>2, <3>1 DEF RpcInv, Told, Rpc!TurnToldInOrder, IndicatesTurn
    <3> QED BY <1>5, <3>1, <3>2
  <2> QED BY <2>1, <2>2 DEF Told, Rpc!TurnToldInOrder, IndicatesTurn, Call
<1>7. OneSocket'
  BY <1>3 DEF OneSocket, RpcInv, Known, Socket, Call
<1>8. ASSUME NEW c \in Call
      PROVE  /\ call[c] \in {"idle", "waiting"} => Unsent(c) /\ c \notin pending
             /\ c \in pending /\ call[c] # "pending" => call[c] = "rejected" /\ Unsent(c)
             /\ waits[c] # None => call[c] = "waiting"
             /\ Unsent(c) => Unsent(c)'
  <2>1. Unsent(c) => Unsent(c)'
    BY <1>3 DEF Unsent, Socket
  <2> QED BY <2>1 DEF RpcInv, Known, NotYetSent
<1>9. NotYetSent'
  <2> SUFFICES ASSUME NEW c \in Call
               PROVE  /\ call'[c] \in {"idle", "waiting"} => Unsent(c)' /\ c \notin pending'
                      /\ c \in pending' /\ call'[c] # "pending" => call'[c] = "rejected" /\ Unsent(c)'
                      /\ waits'[c] # None => call'[c] = "waiting"
    BY DEF NotYetSent, Call
  <2>1. CASE c \in S
    BY <1>5, <1>8, <2>1
  <2>2. CASE c \notin S
    BY <1>5, <1>8, <2>2
  <2> QED BY <2>1, <2>2
<1>10. FramesInOrder'
  <2>1. ASSUME NEW s \in Socket, NEW i \in DOMAIN frames'[s] PROVE FrameOK(s, i)'
    <3>1. frames'[s] = frames[s]
      BY <2>1
    <3>2. FrameOK(s, i)
      BY <3>1 DEF RpcInv, Known, FramesInOrder
    <3>3. frames[s][i][1] \in Call /\ Traced(frames[s][i][1], s)
      BY <1>1, <3>1 DEF Traced
    <3>4. frames[s][i][1] \in pending' => frames[s][i][1] \in pending
      BY <1>8, <3>3 DEF Unsent
    <3> QED BY <3>1, <3>2, <3>4 DEF FrameOK
  <2> QED BY <2>1 DEF FramesInOrder, RpcInv, Known
<1> QED BY <1>4, <1>6, <1>7, <1>9, <1>10 DEF Known

\* Calls that were not sent before are, on this.ws, or their send throws.
LEMMA ProceedsKeep ==
  ASSUME RpcInv, GatewayAssumption, NEW C \in SUBSET Call, \A c \in C : call[c] \in {"idle", "waiting"},
         NEW end, Rpc!Proceed(C, end), UNCHANGED <<shown, frames, turn, origin>>
  PROVE  /\ Told' /\ Known' /\ CallTypes'
         /\ requests' \in [Socket -> SUBSET (Call \X Rpc!Method)]
<1>1. /\ CallTypes /\ frames \in [Socket -> Seq(Call \X Rpc!Frame)]
      /\ requests \in [Socket -> SUBSET (Call \X Rpc!Method)]
      /\ ws \in Socket \cup {None} /\ method \in [Call -> Rpc!Method]
  BY ClientTypes, RpcTypes, RpcConstants DEF RpcInv, SocketTypes, Rpc!Method
<1>2. pending' = pending \cup C /\ pending' \in SUBSET Call
  BY <1>1 DEF Rpc!Proceed, CallTypes
<1>3. CASE Rpc!Settle(C, "rejected") /\ UNCHANGED requests
  <2>1. \A c \in pending' : \/ c \in pending /\ (c \in C => call[c] # "pending")
                            \/ c \in C /\ call[c] \in {"idle", "waiting"}
    BY <1>2
  <2> QED BY <1>1, <1>2, <1>3, <2>1, SettlesKeep
<1>4. CASE /\ ws # None
           /\ call' = [c \in Call |-> IF c \in C THEN "pending" ELSE call[c]]
           /\ waits' = [c \in Call |-> IF c \in C THEN None ELSE waits[c]]
           /\ requests' \in {requests, [requests EXCEPT ![ws] = @ \cup {<<c, method[c]>> : c \in C}]}
           /\ UNCHANGED indicator
  <2>1. /\ requests' \in [Socket -> SUBSET (Call \X Rpc!Method)]
        /\ \A s \in Socket : \A r \in requests'[s] :
             r \in requests[s] \/ (s = ws /\ r[1] \in C /\ r[2] = method[r[1]])
    <3> DEFINE sent == {<<c, method[c]>> : c \in C}
    <3>1. /\ sent \subseteq Call \X Rpc!Method
          /\ \A r \in sent : r[1] \in C /\ r[2] = method[r[1]]
      BY <1>1
    <3>2. ws \in Socket /\ requests' \in {requests, [requests EXCEPT ![ws] = @ \cup sent]}
      BY <1>1, <1>4
    <3> HIDE DEF sent
    <3> QED BY <1>1, <3>1, <3>2
  <2>2. \A d \in Call, s \in Socket : Traced(d, s)' => Traced(d, s) \/ (d \in C /\ s = ws)
    BY <2>1 DEF Traced
  <2>3. CallTypes'
    BY <1>1, <1>2, <1>4 DEF CallTypes
  <2>4. ASSUME NEW c \in Call
        PROVE  /\ call[c] \in {"idle", "waiting"} => Unsent(c) /\ c \notin pending
               /\ c \in pending /\ call[c] # "pending" => call[c] = "rejected" /\ Unsent(c)
               /\ waits[c] # None => call[c] = "waiting"
               /\ c \notin C /\ Unsent(c) => Unsent(c)'
    <3>1. c \notin C /\ Unsent(c) => Unsent(c)'
      BY <2>2 DEF Unsent, Socket
    <3> QED BY <3>1 DEF RpcInv, Known, NotYetSent
  <2>5. Told'
    <3>1. ASSUME NEW c \in Call, call'[c] = "resolved", method[c] = "chat.send" PROVE shown'[c] = "complete"
      BY <1>4, <3>1 DEF RpcInv, Told, Rpc!TurnToldInOrder, Call
    <3>2. ASSUME indicator # None
          PROVE  /\ call'[indicator] = "pending" /\ shown[indicator] \notin Rpc!Terminal
                 /\ method[indicator] = "chat.send"
      BY <1>1, <1>4, <3>2 DEF RpcInv, Told, Rpc!TurnToldInOrder, IndicatesTurn, CallTypes
    <3> QED BY <1>4, <3>1, <3>2 DEF Told, Rpc!TurnToldInOrder, IndicatesTurn, Call
  <2>6. OneSocket'
    <3> SUFFICES ASSUME NEW c \in Call, NEW s \in Socket, NEW t \in Socket, Traced(c, s)', Traced(c, t)'
                 PROVE  s = t
      BY DEF OneSocket, Socket, Call
    <3>1. CASE c \in C
      BY <2>2, <2>4, <3>1 DEF Unsent
    <3>2. CASE c \notin C
      BY <2>2, <3>2 DEF RpcInv, Known, OneSocket
    <3> QED BY <3>1, <3>2
  <2>7. NotYetSent'
    <3> SUFFICES ASSUME NEW c \in Call
                 PROVE  /\ call'[c] \in {"idle", "waiting"} => Unsent(c)' /\ c \notin pending'
                        /\ c \in pending' /\ call'[c] # "pending" => call'[c] = "rejected" /\ Unsent(c)'
                        /\ waits'[c] # None => call'[c] = "waiting"
      BY DEF NotYetSent, Call
    <3>1. CASE c \in C
      BY <1>4, <3>1
    <3>2. CASE c \notin C
      BY <1>2, <1>4, <2>4, <3>2
    <3> QED BY <3>1, <3>2
  <2>8. FramesInOrder'
    <3>1. ASSUME NEW s \in Socket, NEW i \in DOMAIN frames'[s] PROVE FrameOK(s, i)'
      <4>1. FrameOK(s, i)
        BY DEF RpcInv, Known, FramesInOrder
      <4>2. frames[s][i][1] \in Call /\ Traced(frames[s][i][1], s)
        BY <1>1 DEF Traced
      <4>3. frames[s][i][1] \in pending' => frames[s][i][1] \in pending
        BY <1>2, <2>4, <4>2 DEF Unsent
      <4> QED BY <4>1, <4>3 DEF FrameOK
    <3>2. \A s \in Socket : \A r \in requests'[s] : r[2] = method[r[1]]
      BY <2>1 DEF RpcInv, Known, FramesInOrder
    <3> QED BY <3>1, <3>2 DEF FramesInOrder, Socket
  <2> QED BY <2>1, <2>3, <2>5, <2>6, <2>7, <2>8 DEF Known
<1>5. CASE ws = None \/ end[ws] \in {"connecting", "aborting"}
  BY <1>3, <1>5 DEF Rpc!Proceed
<1>6. CASE ~(ws = None \/ end[ws] \in {"connecting", "aborting"})
  BY <1>4, <1>6 DEF Rpc!Proceed, Call
<1> QED BY <1>5, <1>6

\* A reconnect timer is only ever started by a socket that closes.
LEMMA TimersAreFew ==
  ASSUME RpcInv, GatewayAssumption,
         \A s \in Socket : clientEnd[s] = "closed" => clientEnd'[s] = "closed",
         \/ timers' \in Nat /\ timers' <= timers
         \/ timers' = timers + 1 /\ \E s \in Socket : clientEnd[s] # "closed" /\ clientEnd'[s] = "closed"
  PROVE  TimersCounted' /\ timers' \in 0..MaxSockets
<1> DEFINE Shut == {s \in Socket : clientEnd'[s] = "closed"}
<1>1. Socket = 1..MaxSockets /\ MaxSockets \in Nat /\ timers \in Nat
  BY RpcConstants, RpcTypes, ClientTypes DEF RpcInv
<1>2. IsFiniteSet(Socket) /\ Cardinality(Socket) = MaxSockets
  <2>1. MaxSockets - 1 + 1 = MaxSockets
    BY <1>1
  <2> QED BY <1>1, <2>1, FS_Interval
<1>3. /\ IsFiniteSet(Shut) /\ Cardinality(Shut) \in Nat /\ Cardinality(Shut) <= MaxSockets
      /\ IsFiniteSet(ClosedSockets) /\ Cardinality(ClosedSockets) \in Nat
      /\ ClosedSockets \subseteq Shut /\ Cardinality(ClosedSockets) <= Cardinality(Shut)
  <2>1. Shut \subseteq Socket /\ ClosedSockets \subseteq Shut
    BY DEF ClosedSockets
  <2> HIDE DEF Shut
  <2>2. IsFiniteSet(Shut) /\ Cardinality(Shut) <= MaxSockets
    BY <1>2, <2>1, FS_Subset
  <2>3. IsFiniteSet(ClosedSockets) /\ Cardinality(ClosedSockets) <= Cardinality(Shut)
    BY <2>1, <2>2, FS_Subset
  <2> QED BY <2>1, <2>2, <2>3, FS_CardinalityType
<1>4. timers <= Cardinality(ClosedSockets)
  BY DEF RpcInv, TimersCounted
<1>5. timers' \in Nat /\ timers' <= Cardinality(Shut)
  <2>1. CASE timers' \in Nat /\ timers' <= timers
    BY <1>1, <1>3, <1>4, <2>1
  <2>2. CASE timers' = timers + 1 /\ \E s \in Socket : clientEnd[s] # "closed" /\ clientEnd'[s] = "closed"
    <3>1. PICK s \in Socket : clientEnd[s] # "closed" /\ clientEnd'[s] = "closed"
      BY <2>2
    <3>2. s \notin ClosedSockets /\ ClosedSockets \cup {s} \subseteq Shut
      BY <1>3, <3>1 DEF ClosedSockets
    <3> HIDE DEF Shut
    <3>3. Cardinality(ClosedSockets \cup {s}) = Cardinality(ClosedSockets) + 1
      BY <1>3, <3>2, FS_AddElement
    <3>4. Cardinality(ClosedSockets \cup {s}) <= Cardinality(Shut)
      BY <1>3, <3>2, FS_Subset
    <3> QED BY <1>1, <1>3, <1>4, <2>2, <3>3, <3>4
  <2> QED BY <2>1, <2>2
<1>6. TimersCounted' <=> timers' <= Cardinality(Shut)
  BY DEF TimersCounted, ClosedSockets
<1> HIDE DEF Shut
<1> QED BY <1>1, <1>3, <1>5, <1>6

\* What a step of the client has to show.
LEMMA ClientStep ==
  ASSUME RpcInv, GatewayAssumption, UNCHANGED <<serverEnd, Rpc!serverVars>>,
         clientEnd' \in [Socket -> {"none", "connecting", "aborting", "open", "closing", "refused", "closed"}],
         requests' \in [Socket -> SUBSET (Call \X Rpc!Method)],
         frames' \in [Socket -> Seq(Call \X Rpc!Frame)],
         Told', Known', CallTypes', SocketTypes',
         \A s \in Socket : clientEnd[s] = "closed" => clientEnd'[s] = "closed",
         \/ timers' \in Nat /\ timers' <= timers
         \/ timers' = timers + 1 /\ \E s \in Socket : clientEnd[s] # "closed" /\ clientEnd'[s] = "closed"
  PROVE  RpcInv'
<1>1. TimersCounted' /\ timers' \in 0..MaxSockets
  BY TimersAreFew
<1>2. UNCHANGED <<process, inflight, aborted, turn, turnClosed, origin, reports, serverEnd>>
  BY DEF Rpc!serverVars
<1>3. Rpc!TypeOK'
  <2>1. Rpc!ServerTypeOK'
    BY <1>2 DEF RpcInv, Rpc!TypeOK, Rpc!ServerTypeOK
  <2>2. Rpc!ClientTypeOK'
    BY <1>1 DEF Rpc!ClientTypeOK, CallTypes, SocketTypes, Socket, Call
  <2>3. serverEnd' \in [Socket -> {"none", "open", "closing", "closed"}]
    BY <1>2, RpcTypes DEF RpcInv
  <2> QED BY <2>1, <2>2, <2>3 DEF Rpc!TypeOK, Rpc!WireTypeOK, Socket, Call
<1>4. TurnsHaveOrigins' /\ TurnsAreKept'
  BY <1>2 DEF RpcInv, TurnsHaveOrigins, TurnsAreKept
<1> QED BY <1>1, <1>3, <1>4 DEF RpcInv

\* A step that only touches the sockets leaves the calls as they are.
LEMMA CallsAreLeft ==
  ASSUME RpcInv, UNCHANGED <<Rpc!callVars, requests, frames, turn, origin>>
  PROVE  /\ Told' /\ Known' /\ CallTypes'
         /\ requests' \in [Socket -> SUBSET (Call \X Rpc!Method)]
         /\ frames' \in [Socket -> Seq(Call \X Rpc!Frame)]
<1>1. UNCHANGED <<pending, call, waits, shown, indicator>>
  BY DEF Rpc!callVars
<1>2. Told' /\ CallTypes'
  BY <1>1, ClientTypes, RpcTypes DEF RpcInv, Told, Rpc!TurnToldInOrder, IndicatesTurn, CallTypes
<1>3. \A c \in Call, s \in Socket : Traced(c, s)' <=> Traced(c, s)
  BY DEF Traced
<1>4. OneSocket'
  BY <1>3 DEF RpcInv, Known, OneSocket
<1>5. NotYetSent'
  BY <1>1, <1>3 DEF RpcInv, Known, NotYetSent, Unsent
<1>6. FramesInOrder'
  BY <1>1 DEF RpcInv, Known, FramesInOrder, FrameOK
<1> QED BY <1>2, <1>4, <1>5, <1>6, RpcTypes DEF RpcInv, Known

\* What every lemma about the client starts from.
LEMMA ClientFacts ==
  ASSUME RpcInv, GatewayAssumption
  PROVE  /\ clientEnd \in [Socket -> {"none", "connecting", "aborting", "open", "closing", "refused", "closed"}]
         /\ requests \in [Socket -> SUBSET (Call \X Rpc!Method)]
         /\ frames \in [Socket -> Seq(Call \X Rpc!Frame)]
         /\ CallTypes /\ SocketTypes /\ timers \in Nat /\ MaxAttempts \in Nat
         /\ 1 \in Socket /\ None \notin Socket /\ None \notin Call
  BY RpcTypes, ClientTypes, RpcConstants DEF RpcInv

\* A socket is opened: the calls are left, and no socket is closed.
LEMMA OpeningKeeps ==
  ASSUME RpcInv, GatewayAssumption, NEW s \in Socket, Rpc!OpenSocket(s)
  PROVE  /\ clientEnd' \in [Socket -> {"none", "connecting", "aborting", "open", "closing", "refused", "closed"}]
         /\ \A t \in Socket : clientEnd[t] = "closed" => clientEnd'[t] = "closed"
         /\ ws' = s
  BY ClientFacts DEF Rpc!OpenSocket, Rpc!NewSocket

\* The first socket is opened.
LEMMA ConnectKeeps ==
  ASSUME RpcInv, GatewayAssumption, UNCHANGED Rpc!serverVars, Rpc!Connect
  PROVE  RpcInv'
<1>1. UNCHANGED <<Rpc!callVars, requests, frames, turn, origin, serverEnd>>
  BY DEF Rpc!Connect, Rpc!serverVars
<1>2. SocketTypes' /\ timers' \in Nat /\ timers' <= timers
  BY ClientFacts DEF Rpc!Connect, Rpc!OpenSocket, SocketTypes
<1>3. Rpc!OpenSocket(1) /\ 1 \in Socket
  BY ClientFacts DEF Rpc!Connect
<1> QED BY <1>1, <1>2, <1>3, OpeningKeeps, CallsAreLeft, ClientStep

\* A reconnect timer fires, also after close().
LEMMA TimerKeeps ==
  ASSUME RpcInv, GatewayAssumption, UNCHANGED Rpc!serverVars, NEW s \in Socket, Rpc!TimerFires(s)
  PROVE  RpcInv'
<1>1. UNCHANGED <<Rpc!callVars, requests, frames, turn, origin, serverEnd>>
  BY DEF Rpc!TimerFires, Rpc!serverVars
<1>2. SocketTypes' /\ timers' \in Nat /\ timers' <= timers
  BY ClientFacts DEF Rpc!TimerFires, Rpc!OpenSocket, SocketTypes
<1>3. Rpc!OpenSocket(s)
  BY DEF Rpc!TimerFires
<1> QED BY <1>1, <1>2, <1>3, OpeningKeeps, CallsAreLeft, ClientStep

\* The calls that await a socket are none that was sent.
LEMMA AwaitingWait ==
  ASSUME RpcInv, GatewayAssumption, NEW s \in Socket
  PROVE  Rpc!Awaiting(s) \in SUBSET Call /\ \A c \in Rpc!Awaiting(s) : call[c] = "waiting"
  BY ClientFacts DEF Rpc!Awaiting, RpcInv, Known, NotYetSent, Call

\* A socket opens: who awaited it is sent on this.ws, whichever socket that is now.
LEMMA OpenedKeeps ==
  ASSUME RpcInv, GatewayAssumption, UNCHANGED Rpc!serverVars, NEW s \in Socket, Rpc!Opened(s)
  PROVE  RpcInv'
<1>1. UNCHANGED <<shown, frames, turn, origin, serverEnd, timers>>
  BY DEF Rpc!Opened, Rpc!serverVars
<1>2. SocketTypes'
  BY ClientFacts DEF Rpc!Opened, SocketTypes
<1>3. /\ clientEnd' \in [Socket -> {"none", "connecting", "aborting", "open", "closing", "refused", "closed"}]
      /\ \A t \in Socket : clientEnd[t] = "closed" => clientEnd'[t] = "closed"
  BY ClientFacts DEF Rpc!Opened
<1>4. Rpc!Proceed(Rpc!Awaiting(s), clientEnd')
  BY DEF Rpc!Opened
<1>5. /\ Told' /\ Known' /\ CallTypes'
      /\ requests' \in [Socket -> SUBSET (Call \X Rpc!Method)]
  BY <1>1, <1>4, AwaitingWait, ProceedsKeep
<1>6. frames' \in [Socket -> Seq(Call \X Rpc!Frame)] /\ timers' \in Nat /\ timers' <= timers
  BY <1>1, ClientFacts
<1> QED BY <1>1, <1>2, <1>3, <1>5, <1>6, ClientStep

\* An upgrade is refused: who awaited it is rejected, and no reconnect is planned.
LEMMA RefusedKeeps ==
  ASSUME RpcInv, GatewayAssumption, UNCHANGED Rpc!serverVars, NEW s \in Socket, Rpc!Refused(s)
  PROVE  RpcInv'
<1>1. UNCHANGED <<pending, shown, requests, frames, turn, origin, serverEnd, timers>>
  BY DEF Rpc!Refused, Rpc!serverVars
<1>2. SocketTypes'
  BY ClientFacts DEF Rpc!Refused, SocketTypes
<1>3. /\ clientEnd' \in [Socket -> {"none", "connecting", "aborting", "open", "closing", "refused", "closed"}]
      /\ \A t \in Socket : clientEnd[t] = "closed" => clientEnd'[t] = "closed"
  BY ClientFacts DEF Rpc!Refused
<1>4. Rpc!Settle(Rpc!Awaiting(s), "rejected")
  BY DEF Rpc!Refused
<1>5. /\ pending' \in SUBSET Call
      /\ \A c \in pending' : c \in pending /\ (c \in Rpc!Awaiting(s) => call[c] # "pending")
  BY <1>1, AwaitingWait, ClientFacts DEF CallTypes
<1>6. Told' /\ Known' /\ CallTypes'
  BY <1>1, <1>4, <1>5, AwaitingWait, SettlesKeep
<1>7. /\ frames' \in [Socket -> Seq(Call \X Rpc!Frame)] /\ timers' \in Nat /\ timers' <= timers
      /\ requests' \in [Socket -> SUBSET (Call \X Rpc!Method)]
  BY <1>1, ClientFacts
<1> QED BY <1>1, <1>2, <1>3, <1>6, <1>7, ClientStep

\* A socket closes: some calls are rejected, and a reconnect may be planned.
LEMMA ClosesKeep ==
  ASSUME RpcInv, GatewayAssumption, NEW C \in SUBSET Call, \A c \in C : call[c] = "waiting",
         NEW never, Rpc!HandleClose(C, never), UNCHANGED <<shown, requests, turn, origin>>,
         \A s \in Socket : frames'[s] \in {frames[s], <<>>}
  PROVE  /\ Told' /\ Known' /\ CallTypes'
         /\ readyPromise' \in Socket \cup {None} /\ reconnectAttempt' \in 0..MaxAttempts
         /\ timers' \in {timers, timers + 1}
<1>1. pending \in SUBSET Call
  BY ClientFacts DEF CallTypes
<1>2. /\ readyPromise' \in Socket \cup {None} /\ reconnectAttempt' \in 0..MaxAttempts
      /\ timers' \in {timers, timers + 1}
  BY ClientFacts DEF Rpc!HandleClose, SocketTypes
<1>3. CASE Rpc!Settle(C, "rejected") /\ UNCHANGED pending
  <2>1. Told' /\ Known' /\ CallTypes'
    BY <1>1, <1>3, SettlesKeep
  <2> QED BY <1>2, <2>1
<1>4. CASE Rpc!Settle(C \cup pending, "rejected") /\ pending' = {}
  <2>1. C \cup pending \in SUBSET Call
    BY <1>1
  <2>2. Told' /\ Known' /\ CallTypes'
    BY <1>4, <2>1, SettlesKeep
  <2> QED BY <1>2, <2>2
<1> QED BY <1>3, <1>4 DEF Rpc!HandleClose

\* A socket closes before it ever opened.
LEMMA FailedKeeps ==
  ASSUME RpcInv, GatewayAssumption, UNCHANGED Rpc!serverVars, NEW s \in Socket, Rpc!Failed(s)
  PROVE  RpcInv'
<1>1. UNCHANGED <<shown, requests, frames, turn, origin, serverEnd, closedByCaller>> /\ ws' = None
  BY DEF Rpc!Failed, Rpc!serverVars
<1>2. Rpc!HandleClose(Rpc!Awaiting(s), TRUE)
  BY DEF Rpc!Failed
<1>3. /\ Told' /\ Known' /\ CallTypes'
      /\ readyPromise' \in Socket \cup {None} /\ reconnectAttempt' \in 0..MaxAttempts
      /\ timers' \in {timers, timers + 1}
  BY <1>1, <1>2, AwaitingWait, ClosesKeep
<1>4. status' \in {"connecting", "open", "reconnecting", "closed"}
  BY ClientFacts DEF Rpc!Failed, Rpc!StatusAfterClose, SocketTypes
<1>5. SocketTypes'
  BY <1>1, <1>3, <1>4, ClientFacts DEF SocketTypes
<1>6. /\ clientEnd' \in [Socket -> {"none", "connecting", "aborting", "open", "closing", "refused", "closed"}]
      /\ \A t \in Socket : clientEnd[t] = "closed" => clientEnd'[t] = "closed"
      /\ clientEnd[s] # "closed" /\ clientEnd'[s] = "closed"
  BY ClientFacts DEF Rpc!Failed
<1>7. /\ frames' \in [Socket -> Seq(Call \X Rpc!Frame)]
      /\ requests' \in [Socket -> SUBSET (Call \X Rpc!Method)]
      /\ (timers' \in Nat /\ timers' <= timers) \/ timers' = timers + 1
  BY <1>1, <1>3, ClientFacts
<1> QED BY <1>1, <1>3, <1>5, <1>6, <1>7, ClientStep

\* A socket that was open closes; what was under way to it is lost.
LEMMA ClosedKeeps ==
  ASSUME RpcInv, GatewayAssumption, UNCHANGED Rpc!serverVars, NEW s \in Socket, Rpc!Closed(s)
  PROVE  RpcInv'
<1>1. UNCHANGED <<shown, requests, turn, origin, serverEnd, closedByCaller>> /\ ws' \in {ws, None}
  BY DEF Rpc!Closed, Rpc!serverVars
<1>2. PICK drops \in BOOLEAN : Rpc!HandleClose({}, drops)
  BY DEF Rpc!Closed
<1>9. {} \in SUBSET Call /\ \A t \in Socket : frames'[t] \in {frames[t], <<>>}
  BY ClientFacts DEF Rpc!Closed
<1>3. /\ Told' /\ Known' /\ CallTypes'
      /\ readyPromise' \in Socket \cup {None} /\ reconnectAttempt' \in 0..MaxAttempts
      /\ timers' \in {timers, timers + 1}
  BY <1>1, <1>2, <1>9, ClosesKeep
<1>4. status' \in {"connecting", "open", "reconnecting", "closed"}
  BY ClientFacts DEF Rpc!Closed, Rpc!StatusAfterClose, SocketTypes
<1>5. SocketTypes'
  BY <1>1, <1>3, <1>4, ClientFacts DEF SocketTypes
<1>6. /\ clientEnd' \in [Socket -> {"none", "connecting", "aborting", "open", "closing", "refused", "closed"}]
      /\ \A t \in Socket : clientEnd[t] = "closed" => clientEnd'[t] = "closed"
      /\ clientEnd[s] # "closed" /\ clientEnd'[s] = "closed"
  BY ClientFacts DEF Rpc!Closed, Rpc!Receiving
<1>7. frames' \in [Socket -> Seq(Call \X Rpc!Frame)]
  BY ClientFacts DEF Rpc!Closed
<1>8. /\ requests' \in [Socket -> SUBSET (Call \X Rpc!Method)]
      /\ (timers' \in Nat /\ timers' <= timers) \/ timers' = timers + 1
  BY <1>1, <1>3, ClientFacts
<1> QED BY <1>1, <1>3, <1>5, <1>6, <1>7, <1>8, <1>9, ClientStep

\* close() rejects what is pending, and no call after it is made.
LEMMA CloseKeeps ==
  ASSUME RpcInv, GatewayAssumption, UNCHANGED Rpc!serverVars, Rpc!Close
  PROVE  RpcInv'
<1>1. UNCHANGED <<shown, requests, frames, turn, origin, serverEnd, timers>> /\ pending' = {}
  BY DEF Rpc!Close, Rpc!serverVars
<1>2. SocketTypes'
  BY ClientFacts DEF Rpc!Close, SocketTypes
<1>3. /\ clientEnd' \in [Socket -> {"none", "connecting", "aborting", "open", "closing", "refused", "closed"}]
      /\ \A t \in Socket : clientEnd[t] = "closed" => clientEnd'[t] = "closed"
  <2>1. ws \in Socket \/ ws = None
    BY ClientFacts DEF SocketTypes
  <2> QED BY <2>1, ClientFacts DEF Rpc!Close, Rpc!Closing
<1>4. Rpc!Settle(pending, "rejected") /\ pending \in SUBSET Call
  BY ClientFacts DEF Rpc!Close, CallTypes
<1>5. Told' /\ Known' /\ CallTypes'
  BY <1>1, <1>4, SettlesKeep
<1>6. /\ frames' \in [Socket -> Seq(Call \X Rpc!Frame)] /\ timers' \in Nat /\ timers' <= timers
      /\ requests' \in [Socket -> SUBSET (Call \X Rpc!Method)]
  BY <1>1, ClientFacts
<1> QED BY <1>1, <1>2, <1>3, <1>5, <1>6, ClientStep

\* A call's timer fires, also when its promise was rejected before.
LEMMA TimeoutKeeps ==
  ASSUME RpcInv, GatewayAssumption, UNCHANGED Rpc!serverVars, NEW c \in Call, Rpc!Timeout(c)
  PROVE  RpcInv'
<1>1. /\ UNCHANGED <<shown, requests, frames, turn, origin, serverEnd, clientEnd, timers,
                     ws, readyPromise, reconnectAttempt, closedByCaller, status>>
      /\ pending' = pending \ {c} /\ Rpc!Settle({c}, "rejected")
  BY DEF Rpc!Timeout, Rpc!serverVars, Rpc!wire, Rpc!socketVars
<1>2. SocketTypes'
  BY <1>1, ClientFacts DEF SocketTypes
<1>3. pending' \in SUBSET Call /\ {c} \in SUBSET Call
  BY <1>1, ClientFacts DEF CallTypes
<1>4. Told' /\ Known' /\ CallTypes'
  BY <1>1, <1>3, SettlesKeep
<1>5. /\ clientEnd' \in [Socket -> {"none", "connecting", "aborting", "open", "closing", "refused", "closed"}]
      /\ frames' \in [Socket -> Seq(Call \X Rpc!Frame)] /\ timers' \in Nat /\ timers' <= timers
      /\ requests' \in [Socket -> SUBSET (Call \X Rpc!Method)]
  BY <1>1, ClientFacts
<1> QED BY <1>1, <1>2, <1>4, <1>5, ClientStep

\* A call waits for a socket to open: nothing is sent of it.
LEMMA WaitingKeeps ==
  ASSUME RpcInv, GatewayAssumption, NEW c \in Call, call[c] = "idle",
         NEW s \in Socket \cup {None},
         call' = [call EXCEPT ![c] = "waiting"], waits' = [waits EXCEPT ![c] = s],
         UNCHANGED <<pending, requests, indicator, shown, frames, turn, origin>>
  PROVE  Told' /\ Known' /\ CallTypes'
<1>1. CallTypes'
  BY ClientFacts DEF CallTypes
<1>2. \A d \in Call : /\ d # c => call'[d] = call[d] /\ waits'[d] = waits[d]
                      /\ call'[c] = "waiting"
  BY ClientFacts DEF CallTypes
<1>3. Told'
  BY <1>2, ClientFacts DEF RpcInv, Told, Rpc!TurnToldInOrder, IndicatesTurn, CallTypes, Call
<1>4. \A d \in Call, t \in Socket : Traced(d, t)' <=> Traced(d, t)
  BY DEF Traced
<1>5. OneSocket'
  BY <1>4 DEF RpcInv, Known, OneSocket
<1>6. NotYetSent'
  BY <1>2, <1>4 DEF RpcInv, Known, NotYetSent, Unsent
<1>7. FramesInOrder'
  BY DEF RpcInv, Known, FramesInOrder, FrameOK
<1> QED BY <1>1, <1>3, <1>5, <1>6, <1>7 DEF Known

\* A call is sent at once, or waits for a socket to open.
LEMMA MakeCallKeeps ==
  ASSUME RpcInv, GatewayAssumption, UNCHANGED Rpc!serverVars, NEW c \in Call, Rpc!MakeCall(c)
  PROVE  RpcInv'
<1>1. UNCHANGED <<shown, frames, turn, origin, serverEnd>> /\ call[c] = "idle"
  BY DEF Rpc!MakeCall, Rpc!serverVars
<1>2. frames' \in [Socket -> Seq(Call \X Rpc!Frame)]
  BY <1>1, ClientFacts
<1>3. CASE Rpc!Proceed({c}, clientEnd) /\ UNCHANGED <<Rpc!socketVars, clientEnd>>
  <2>1. {c} \in SUBSET Call /\ \A d \in {c} : call[d] \in {"idle", "waiting"}
    BY <1>1
  <2>2. /\ Told' /\ Known' /\ CallTypes'
        /\ requests' \in [Socket -> SUBSET (Call \X Rpc!Method)]
    BY <1>1, <1>3, <2>1, ProceedsKeep
  <2>3. /\ SocketTypes' /\ timers' \in Nat /\ timers' <= timers
        /\ clientEnd' \in [Socket -> {"none", "connecting", "aborting", "open", "closing", "refused", "closed"}]
        /\ \A t \in Socket : clientEnd[t] = "closed" => clientEnd'[t] = "closed"
    BY <1>3, ClientFacts DEF SocketTypes, Rpc!socketVars
  <2> QED BY <1>1, <1>2, <2>2, <2>3, ClientStep
<1>4. CASE /\ \/ UNCHANGED <<Rpc!socketVars, clientEnd>>
              \/ /\ \E s \in Socket : Rpc!OpenSocket(s)
                 /\ readyPromise' = ws'
                 /\ UNCHANGED <<reconnectAttempt, closedByCaller, timers, status>>
           /\ call' = [call EXCEPT ![c] = "waiting"]
           /\ waits' = [waits EXCEPT ![c] = readyPromise']
           /\ UNCHANGED <<pending, requests, indicator>>
  <2>1. /\ SocketTypes' /\ UNCHANGED timers
        /\ clientEnd' \in [Socket -> {"none", "connecting", "aborting", "open", "closing", "refused", "closed"}]
        /\ \A t \in Socket : clientEnd[t] = "closed" => clientEnd'[t] = "closed"
    <3>1. CASE UNCHANGED <<Rpc!socketVars, clientEnd>>
      BY <3>1, ClientFacts DEF SocketTypes, Rpc!socketVars
    <3>2. CASE /\ \E s \in Socket : Rpc!OpenSocket(s)
               /\ readyPromise' = ws'
               /\ UNCHANGED <<reconnectAttempt, closedByCaller, timers, status>>
      BY <3>2, OpeningKeeps, ClientFacts DEF SocketTypes
    <3> QED BY <1>4, <3>1, <3>2
  <2>2. /\ timers' \in Nat /\ timers' <= timers
        /\ requests' \in [Socket -> SUBSET (Call \X Rpc!Method)]
    BY <1>4, <2>1, ClientFacts
  <2>3. readyPromise' \in Socket \cup {None}
    BY <2>1 DEF SocketTypes
  <2>4. Told' /\ Known' /\ CallTypes'
    BY <1>1, <1>4, <2>3, WaitingKeeps
  <2> QED BY <1>1, <1>2, <2>1, <2>2, <2>4, ClientStep
<1> QED BY <1>3, <1>4 DEF Rpc!MakeCall, Socket

\* A frame arrives: its call is known on this socket alone.
LEMMA MessageArrives ==
  ASSUME RpcInv, GatewayAssumption, NEW s \in Socket, frames[s] # <<>>,
         frames' = [frames EXCEPT ![s] = Tail(@)], UNCHANGED <<requests, turn, origin>>
  PROVE  /\ frames[s][1][1] \in Call /\ Head(frames[s]) = frames[s][1] /\ frames[s][1][2] \in Rpc!Frame
         /\ frames' \in [Socket -> Seq(Call \X Rpc!Frame)]
         /\ FrameOK(s, 1)
         /\ \A t \in Socket : t # s /\ Traced(frames[s][1][1], t) => FALSE
         /\ Traced(frames[s][1][1], s)
         /\ DOMAIN frames'[s] = 1..(Len(frames[s]) - 1)
         /\ \A i \in 1..(Len(frames[s]) - 1) :
              frames'[s][i] = frames[s][i + 1] /\ FrameOK(s, i + 1)
         /\ \A t \in Socket : t # s => frames'[t] = frames[t]
         /\ \A d \in Call, t \in Socket : Traced(d, t)' => Traced(d, t)
<1>1. frames \in [Socket -> Seq(Call \X Rpc!Frame)] /\ frames[s] \in Seq(Call \X Rpc!Frame)
  BY ClientFacts
<1>2. /\ frames[s][1] \in Call \X Rpc!Frame /\ Head(frames[s]) = frames[s][1]
      /\ Len(frames[s]) \in Nat \ {0} /\ DOMAIN frames[s] = 1..Len(frames[s])
      /\ Tail(frames[s]) \in Seq(Call \X Rpc!Frame)
  BY <1>1
<1>3. frames'[s] = Tail(frames[s]) /\ \A t \in Socket : t # s => frames'[t] = frames[t]
  BY <1>1
<1>4. /\ DOMAIN frames'[s] = 1..(Len(frames[s]) - 1)
      /\ \A i \in 1..(Len(frames[s]) - 1) : frames'[s][i] = frames[s][i + 1] /\ i + 1 \in DOMAIN frames[s]
  BY <1>1, <1>2, <1>3
<1>5. 1 \in DOMAIN frames[s]
  BY <1>2
<1>6. Traced(frames[s][1][1], s)
  BY <1>5 DEF Traced
<1>7. \A t \in Socket : t # s /\ Traced(frames[s][1][1], t) => FALSE
  BY <1>2, <1>6 DEF RpcInv, Known, OneSocket
<1>8. \A i \in DOMAIN frames[s] : FrameOK(s, i)
  BY DEF RpcInv, Known, FramesInOrder
<1>9. \A d \in Call, t \in Socket : Traced(d, t)' => Traced(d, t)
  <2> SUFFICES ASSUME NEW d \in Call, NEW t \in Socket, Traced(d, t)' PROVE Traced(d, t)
    OBVIOUS
  <2>1. CASE t = s
    BY <1>4, <2>1 DEF Traced
  <2>2. CASE t # s
    BY <1>3, <2>2 DEF Traced
  <2> QED BY <2>1, <2>2
<1>10. frames' \in [Socket -> Seq(Call \X Rpc!Frame)]
  BY <1>1, <1>2
<1> QED BY <1>2, <1>3, <1>4, <1>5, <1>6, <1>7, <1>8, <1>9, <1>10

\* What the rest of the calls sees of it: the frames behind it move up.
LEMMA MessageKnown ==
  ASSUME RpcInv, GatewayAssumption, NEW s \in Socket, frames[s] # <<>>,
         frames' = [frames EXCEPT ![s] = Tail(@)], UNCHANGED <<requests, turn, origin>>,
         pending' \subseteq pending,
         \A d \in Call : d # frames[s][1][1] =>
           call'[d] = call[d] /\ waits'[d] = waits[d] /\ shown'[d] = shown[d],
         LET c == frames[s][1][1] IN
           /\ frames[s][1][2] = "complete" => shown'[c] = "complete" \/ c \notin pending'
           /\ call'[c] = call[c] \/ (call'[c] \in {"resolved", "rejected"} /\ c \notin pending')
           /\ waits'[c] \in {None, waits[c]} /\ (call'[c] # call[c] => waits'[c] = None)
  PROVE  Known'
<1> DEFINE c == frames[s][1][1]
<1>1. \A d \in Call, t \in Socket : Traced(d, t)' => Traced(d, t)
  BY MessageArrives
<1>2. OneSocket'
  BY <1>1 DEF RpcInv, Known, OneSocket, Socket, Call
<1>3. NotYetSent'
  <2> SUFFICES ASSUME NEW d \in Call
               PROVE  /\ call'[d] \in {"idle", "waiting"} => Unsent(d)' /\ d \notin pending'
                      /\ d \in pending' /\ call'[d] # "pending" => call'[d] = "rejected" /\ Unsent(d)'
                      /\ waits'[d] # None => call'[d] = "waiting"
    BY DEF NotYetSent, Call
  <2>1. /\ call[d] \in {"idle", "waiting"} => Unsent(d) /\ d \notin pending
        /\ d \in pending /\ call[d] # "pending" => call[d] = "rejected" /\ Unsent(d)
        /\ waits[d] # None => call[d] = "waiting"
        /\ Unsent(d) => Unsent(d)'
    <3>1. Unsent(d) => Unsent(d)'
      BY <1>1 DEF Unsent, Socket
    <3> QED BY <3>1 DEF RpcInv, Known, NotYetSent
  <2>2. d \in pending' => d \in pending
    OBVIOUS
  <2>3. CASE call'[d] = call[d] /\ waits'[d] \in {None, waits[d]}
    BY <2>1, <2>2, <2>3
  <2>4. CASE call'[d] \in {"resolved", "rejected"} /\ d \notin pending' /\ waits'[d] = None
    BY <2>4
  <2> QED BY <2>3, <2>4
<1>4. /\ DOMAIN frames'[s] = 1..(Len(frames[s]) - 1)
      /\ \A k \in 1..(Len(frames[s]) - 1) : frames'[s][k] = frames[s][k + 1] /\ FrameOK(s, k + 1)
  BY MessageArrives
<1>5. Len(frames[s]) \in Nat
  BY ClientFacts
<1>6. ASSUME NEW t \in Socket, NEW i \in DOMAIN frames'[t] PROVE FrameOK(t, i)'
  <2>1. CASE t # s
    <3>1. frames'[t] = frames[t] /\ FrameOK(t, i)
      BY <2>1, MessageArrives DEF RpcInv, Known, FramesInOrder
    <3>2. frames[t][i][1] \in Call /\ Traced(frames[t][i][1], t)
      BY <3>1, ClientFacts DEF Traced
    <3>3. frames[t][i][1] # c
      BY <2>1, <3>2, MessageArrives
    <3>4. shown'[frames[t][i][1]] = shown[frames[t][i][1]]
      BY <3>2, <3>3
    <3> QED BY <3>1, <3>4 DEF FrameOK
  <2>2. CASE t = s
    <3>1. /\ i \in 1..(Len(frames[s]) - 1) /\ frames'[s][i] = frames[s][i + 1] /\ FrameOK(s, i + 1)
      BY <1>4, <2>2
    <3>2. i + 1 # 1 /\ (i + 1) - 1 = i
      BY <1>5, <3>1
    <3>3. CASE i = 1
      BY <2>2, <3>1, <3>2, <3>3 DEF FrameOK
    <3>4. CASE i # 1
      <4>1. i - 1 \in 1..(Len(frames[s]) - 1) /\ (i - 1) + 1 = i
        BY <1>5, <3>1, <3>4
      <4>2. frames'[s][i - 1] = frames[s][i]
        BY <1>4, <4>1
      <4> QED BY <2>2, <3>1, <3>2, <3>4, <4>2 DEF FrameOK
    <3> QED BY <3>3, <3>4
  <2> QED BY <2>1, <2>2
<1>7. FramesInOrder'
  BY <1>6 DEF RpcInv, Known, FramesInOrder
<1> QED BY <1>2, <1>3, <1>7 DEF Known

\* handleMessage, whether or not the frame's call is still pending.
LEMMA MessageKeeps ==
  ASSUME RpcInv, GatewayAssumption, UNCHANGED Rpc!serverVars, NEW s \in Socket, Rpc!HandleMessage(s)
  PROVE  RpcInv'
<1> DEFINE c == frames[s][1][1]
           f == frames[s][1][2]
<1>1. /\ frames[s] # <<>> /\ frames' = [frames EXCEPT ![s] = Tail(@)]
      /\ UNCHANGED <<requests, turn, origin, serverEnd, clientEnd, Rpc!socketVars>>
  BY DEF Rpc!HandleMessage, Rpc!serverVars
<1>2. /\ c \in Call /\ Head(frames[s]) = frames[s][1] /\ FrameOK(s, 1) /\ Traced(c, s)
      /\ f \in Rpc!Frame /\ frames' \in [Socket -> Seq(Call \X Rpc!Frame)]
  BY <1>1, MessageArrives
<1>3. IF f \in Rpc!Response THEN Rpc!Answered(c, f) ELSE Rpc!Notified(c, f)
  BY <1>2 DEF Rpc!HandleMessage
<1>4. /\ SocketTypes' /\ timers' \in Nat /\ timers' <= timers
      /\ clientEnd' \in [Socket -> {"none", "connecting", "aborting", "open", "closing", "refused", "closed"}]
      /\ \A t \in Socket : clientEnd[t] = "closed" => clientEnd'[t] = "closed"
      /\ requests' \in [Socket -> SUBSET (Call \X Rpc!Method)]
  BY <1>1, ClientFacts DEF SocketTypes, Rpc!socketVars
<1>5. /\ c \in pending => call[c] = "pending"
      /\ f \in Rpc!Phase => method[c] = "chat.send"
      /\ f = "result" /\ method[c] = "chat.send" /\ c \in pending => shown[c] = "complete"
  BY <1>2 DEF FrameOK, RpcInv, Known, NotYetSent, Unsent
<1>6. /\ pending \in SUBSET Call
      /\ call \in [Call -> {"idle", "waiting", "pending", "resolved", "rejected"}]
      /\ waits \in [Call -> Socket \cup {None}]
      /\ shown \in [Call -> Rpc!Phase \cup {None}]
      /\ indicator \in Call \cup {None} /\ None \notin Call
  BY ClientFacts DEF CallTypes
<1>7. /\ \A d \in Call : call[d] = "resolved" /\ method[d] = "chat.send" => shown[d] = "complete"
      /\ indicator # None => /\ call[indicator] = "pending" /\ shown[indicator] \notin Rpc!Terminal
                             /\ method[indicator] = "chat.send"
  BY DEF RpcInv, Told, Rpc!TurnToldInOrder, IndicatesTurn, Call
<1> HIDE DEF c, f
<1>8. /\ Told' /\ CallTypes' /\ pending' \subseteq pending
      /\ \A d \in Call : d # c => call'[d] = call[d] /\ waits'[d] = waits[d] /\ shown'[d] = shown[d]
      /\ f = "complete" => shown'[c] = "complete" \/ c \notin pending'
      /\ call'[c] = call[c] \/ (call'[c] \in {"resolved", "rejected"} /\ c \notin pending')
      /\ waits'[c] \in {None, waits[c]} /\ (call'[c] # call[c] => waits'[c] = None)
  <2>1. CASE f \in Rpc!Response /\ c \in pending
    <3>1. PICK outcome \in {"resolved", "rejected"} :
            /\ outcome = "resolved" => f = "result"
            /\ Rpc!Settle({c}, outcome) /\ pending' = pending \ {c} /\ UNCHANGED shown
      BY <1>3, <2>1 DEF Rpc!Answered
    <3> DEFINE S == {d \in {c} : call[d] \notin {"resolved", "rejected"}}
    <3>2. S = {c}
      BY <1>5, <2>1
    <3>3. /\ call' = [d \in Call |-> IF d \in {c} THEN outcome ELSE call[d]]
          /\ waits' = [d \in Call |-> IF d \in {c} THEN None ELSE waits[d]]
          /\ indicator' = IF \E d \in {c} : method[d] = "chat.send" THEN None ELSE indicator
      BY <3>1, <3>2 DEF Rpc!Settle, Call
    <3>4. CallTypes'
      BY <1>6, <3>1, <3>3 DEF CallTypes
    <3>5. \A d \in Call : /\ d # c => call'[d] = call[d] /\ waits'[d] = waits[d] /\ shown'[d] = shown[d]
                          /\ call'[c] = outcome /\ waits'[c] = None /\ shown'[d] = shown[d]
      BY <1>2, <3>1, <3>3
    <3>6. Told'
      <4>1. ASSUME NEW d \in Call, call'[d] = "resolved", method[d] = "chat.send" PROVE shown'[d] = "complete"
        BY <1>5, <1>7, <2>1, <3>1, <3>5, <4>1
      <4>2. ASSUME indicator' # None
            PROVE  /\ call'[indicator'] = "pending" /\ shown'[indicator'] \notin Rpc!Terminal
                   /\ method[indicator'] = "chat.send"
        <5>1. indicator' = indicator /\ indicator \in Call /\ method[c] # "chat.send"
          BY <1>6, <3>3, <4>2
        <5> QED BY <1>7, <3>5, <4>2, <5>1
      <4> QED BY <4>1, <4>2 DEF Told, Rpc!TurnToldInOrder, IndicatesTurn, Call
    <3>7. f # "complete"
      BY <2>1 DEF Rpc!Response
    <3> QED BY <1>2, <3>1, <3>4, <3>5, <3>6, <3>7
  <2>2. CASE f \in Rpc!Phase /\ c \in pending
    <3>1. /\ shown' = [shown EXCEPT ![c] = f]
          /\ indicator' = IF f \in Rpc!Terminal \cup {"streaming_response"} THEN None ELSE c
          /\ UNCHANGED <<pending, call, waits>>
      BY <1>3, <2>2 DEF Rpc!Notified, Rpc!Phase, Rpc!Response
    <3>2. CallTypes'
      BY <1>2, <1>6, <2>2, <3>1 DEF CallTypes
    <3>3. \A d \in Call : (d # c => shown'[d] = shown[d]) /\ shown'[c] = f
      BY <1>2, <1>6, <3>1
    <3>4. Told'
      <4>1. ASSUME NEW d \in Call, call'[d] = "resolved", method[d] = "chat.send" PROVE shown'[d] = "complete"
        BY <1>5, <1>7, <2>2, <3>1, <3>3, <4>1
      <4>2. ASSUME indicator' # None
            PROVE  /\ call'[indicator'] = "pending" /\ shown'[indicator'] \notin Rpc!Terminal
                   /\ method[indicator'] = "chat.send"
        BY <1>2, <1>5, <2>2, <3>1, <3>3, <4>2
      <4> QED BY <4>1, <4>2 DEF Told, Rpc!TurnToldInOrder, IndicatesTurn, Call
    <3> QED BY <1>2, <3>1, <3>2, <3>3, <3>4
  <2>3. CASE c \notin pending
    <3>1. UNCHANGED <<call, waits, indicator, shown>> /\ pending' = pending
      BY <1>3, <2>3, <1>6 DEF Rpc!Answered, Rpc!Notified
    <3>2. Told' /\ CallTypes'
      BY <1>6, <1>7, <3>1 DEF Told, Rpc!TurnToldInOrder, IndicatesTurn, Call, CallTypes
    <3> QED BY <2>3, <3>1, <3>2
  <2> QED BY <1>2, <2>1, <2>2, <2>3 DEF Rpc!Frame
<1>9. Known'
  BY <1>1, <1>8, MessageKnown DEF c, f
<1> QED BY <1>1, <1>2, <1>4, <1>8, <1>9, ClientStep

\* Every step of the client keeps the invariant.
LEMMA ClientKeeps ==
  ASSUME RpcInv, GatewayAssumption, Rpc!ClientNext, UNCHANGED Rpc!serverVars
  PROVE  RpcInv'
  BY ConnectKeeps, CloseKeeps, OpenedKeeps, FailedKeeps, RefusedKeeps, ClosedKeeps, TimerKeeps,
     MessageKeeps, TimeoutKeeps, MakeCallKeeps DEF Rpc!ClientNext, Socket, Call

\* So does every step of the two together.
LEMMA RpcKeeps ==
  ASSUME RpcInv, GatewayAssumption, Rpc!Next
  PROVE  RpcInv'
  BY ClientKeeps, ServerKeeps DEF Rpc!Next

\* What the invariant says of the properties.
LEMMA RpcSafe ==
  ASSUME RpcInv
  PROVE  Rpc!TypeOK /\ Rpc!TurnToldInOrder /\ Rpc!AbortedWhenGone
<1>1. Rpc!AbortedWhenGone
  BY DEF RpcInv, TurnsAreKept, Rpc!AbortedWhenGone, Call
<1> QED BY <1>1 DEF RpcInv, Told

\* The invariant holds at the start.
LEMMA RpcStarts ==
  ASSUME GatewayAssumption, Rpc!Init
  PROVE  RpcInv
<1>1. /\ clientEnd = [s \in Socket |-> "none"] /\ serverEnd = [s \in Socket |-> "none"]
      /\ requests = [s \in Socket |-> {}] /\ frames = [s \in Socket |-> <<>>]
  BY DEF Rpc!Init, Rpc!WireInit, Socket
<1>2. /\ clientEnd \in [Socket -> {"none", "connecting", "aborting", "open", "closing", "refused", "closed"}]
      /\ serverEnd \in [Socket -> {"none", "open", "closing", "closed"}]
      /\ requests \in [Socket -> SUBSET (Call \X Rpc!Method)]
      /\ frames \in [Socket -> Seq(Call \X Rpc!Frame)]
  <2>1. <<>> \in Seq(Call \X Rpc!Frame)
    OBVIOUS
  <2> QED BY <1>1, <2>1
<1>3. Rpc!ServerTypeOK
  BY RpcConstants DEF Rpc!Init, Rpc!ServerInit, Rpc!ServerTypeOK, Socket, Call
<1>4. CallTypes /\ SocketTypes /\ timers = 0 /\ timers \in 0..MaxSockets
  <2>1. CallTypes
    BY Zenon DEF Rpc!Init, Rpc!ClientInit, CallTypes, Call
  <2>2. /\ ws = None /\ readyPromise = None /\ reconnectAttempt = 0 /\ closedByCaller = FALSE
        /\ timers = 0 /\ status = "connecting"
    BY DEF Rpc!Init, Rpc!ClientInit
  <2>3. 0 \in 0..MaxAttempts /\ 0 \in 0..MaxSockets
    BY RpcConstants
  <2> QED BY <2>1, <2>2, <2>3 DEF SocketTypes
<1>5. Rpc!TypeOK
  BY <1>2, <1>3, <1>4, RpcTypes, ClientTypes
<1>6. \A c \in Call : call[c] = "idle" /\ waits[c] = None /\ turn[c] = "none" /\ pending = {} /\ indicator = None
  BY DEF Rpc!Init, Rpc!ClientInit, Rpc!ServerInit, Call
<1>7. indicator = None
  BY DEF Rpc!Init, Rpc!ClientInit
<1>8. \A c \in Call, s \in Socket : ~Traced(c, s)
  BY <1>1, <1>6 DEF Traced
<1>9. Told
  BY <1>6, <1>7 DEF Told, Rpc!TurnToldInOrder, IndicatesTurn, Call
<1>10. Known
  <2>1. OneSocket /\ NotYetSent
    BY <1>6, <1>8 DEF OneSocket, NotYetSent, Unsent
  <2>2. FramesInOrder
    BY <1>1 DEF FramesInOrder
  <2> QED BY <2>1, <2>2 DEF Known
<1>11. TurnsHaveOrigins /\ TurnsAreKept
  BY <1>6 DEF TurnsHaveOrigins, TurnsAreKept
<1>12. TimersCounted
  <2>1. ClosedSockets = {}
    BY <1>1 DEF ClosedSockets
  <2> QED BY <1>4, <2>1, FS_EmptySet DEF TimersCounted
<1> QED BY <1>5, <1>9, <1>10, <1>11, <1>12 DEF RpcInv

-----------------------------------------------------------------------------
(* The platform's start and shutdown                                      *)

\* The clients a stage of the shutdown has waited for are gone, and none of their kind
\* comes again; the cron and the stores go with their stage.
ShutdownOrder ==
  /\ cron => stage \in {"channels", "mounted"}
  /\ stores <=> stage \notin {"stores", "exited"}
  /\ \A c \in Conn : conn[c].state \in {"anonymous", "open", "leaving"} =>
       /\ conn[c].source \in Serving!Origin
       /\ conn[c].source = "rpc" => stage \notin {"rpc", "webchat", "gateway", "http", "stores", "exited"}
       /\ conn[c].source = "webchat" => stage \notin {"gateway", "http", "stores", "exited"}
       /\ conn[c].source = "ws" => stage \notin {"http", "stores", "exited"}
       /\ conn[c].source = "http" => stage \notin {"stores", "exited"}

PlatformInv == Serving!TypeOK /\ ShutdownOrder

\* Every step of the platform keeps the order of its shutdown.
LEMMA PlatformKeeps ==
  ASSUME PlatformInv, Serving!Next
  PROVE  PlatformInv'
<1> USE DEF PlatformInv, Serving!TypeOK, ShutdownOrder, Serving!Stages, Serving!ConnState, Serving!Origin
<1>1. CASE Serving!Listen
  BY <1>1 DEF Serving!Listen, Serving!Proceed
<1>2. CASE Serving!StartChannels
  BY <1>2 DEF Serving!StartChannels, Serving!Proceed
<1>3. CASE Serving!MountRpc
  BY <1>3 DEF Serving!MountRpc, Serving!Proceed
<1>4. CASE Serving!Fail
  <2>1. \A c \in Conn : conn'[c] = [conn[c] EXCEPT !.state = "closed"]
    BY <1>4 DEF Serving!Fail
  <2>2. conn' \in [Conn -> [source : Serving!Origin \cup {None}, state : Serving!ConnState]]
    BY <1>4 DEF Serving!Fail
  <2>3. \A c \in Conn : conn'[c].state = "closed"
    BY <2>1
  <2> QED
    BY <1>4, <2>2, <2>3 DEF Serving!Fail
<1>5. ASSUME NEW c \in Conn, Serving!Identify(c) \/ Serving!Begin(c) \/ Serving!Gone(c) PROVE PlatformInv'
  BY <1>5 DEF Serving!Identify, Serving!Begin, Serving!Gone
<1>6. ASSUME NEW c \in Conn, NEW s \in Serving!Origin, Serving!Connect(c, s) PROVE PlatformInv'
  <2>1. Serving!Accepts(s) /\ (s = "rpc" => stage = "mounted")
        /\ (s = "webchat" => stage \in {"channels", "mounted", "rpc"})
        /\ (s = "ws" => stage \in {"listening", "channels", "mounted", "rpc", "webchat"})
        /\ (s = "http" => stage \in {"listening", "channels", "mounted", "rpc", "webchat", "gateway"})
    BY <1>6 DEF Serving!Connect, Serving!Accepts
  <2> QED BY <1>6, <2>1 DEF Serving!Connect
<1>7. CASE Serving!CronFires
  BY <1>7 DEF Serving!CronFires
<1>8. ASSUME NEW t \in Conn \cup {"cron"}, Serving!TurnEnds(t) PROVE PlatformInv'
  BY <1>8 DEF Serving!TurnEnds, Serving!Of
<1>9. CASE Serving!TriggerShutdown
  BY <1>9 DEF Serving!TriggerShutdown, Serving!CloseAll, Serving!Up, Serving!Of
<1>10. CASE Serving!StopCron
  BY <1>10 DEF Serving!StopCron, Serving!Proceed, Serving!Up, Serving!Of
<1>11. CASE Serving!CloseWebchat
  BY <1>11 DEF Serving!CloseWebchat, Serving!Proceed, Serving!CloseAll, Serving!Up, Serving!Of
<1>12. CASE Serving!CloseGateway
  BY <1>12 DEF Serving!CloseGateway, Serving!Proceed, Serving!CloseAll, Serving!Up, Serving!Of
<1>13. CASE Serving!CloseHttp
  BY <1>13 DEF Serving!CloseHttp, Serving!Proceed, Serving!Up, Serving!Of
<1>14. CASE Serving!CloseStores
  BY <1>14 DEF Serving!CloseStores, Serving!Proceed, Serving!Up, Serving!Of
<1>15. CASE Serving!Exit
  BY <1>15 DEF Serving!Exit, Serving!Proceed
<1> QED
  BY <1>1, <1>2, <1>3, <1>4, <1>5, <1>6, <1>7, <1>8, <1>9, <1>10, <1>11, <1>12, <1>13, <1>14, <1>15
  DEF Serving!Next, Serving!Shutdown

\* The invariant holds at the start.
LEMMA PlatformStart == Serving!Init => PlatformInv
<1> SUFFICES ASSUME Serving!Init PROVE PlatformInv
  OBVIOUS
<1>1. conn \in [Conn -> [source : Serving!Origin \cup {None}, state : Serving!ConnState]]
  BY DEF Serving!Init, Serving!ConnState
<1>2. \A c \in Conn : conn[c].state = "new"
  BY DEF Serving!Init
<1> QED
  BY <1>1, <1>2 DEF Serving!Init, PlatformInv, Serving!TypeOK, ShutdownOrder, Serving!Stages

\* With an HTTP client to answer, the stores are open.
LEMMA PlatformSafe ==
  ASSUME PlatformInv
  PROVE  Serving!HttpTurnsServed
  BY DEF PlatformInv, ShutdownOrder, Serving!TypeOK, Serving!Stages, Serving!HttpTurnsServed, Serving!Up, Serving!Of

\* A turn is only begun by a client, or by the cron, and none of these is left when the stores close.
LEMMA PlatformBegins ==
  ASSUME PlatformInv, Serving!Next
  PROVE  turns' \subseteq turns \/ stores
<1> SUFFICES ASSUME ~stores PROVE turns' \subseteq turns
  OBVIOUS
<1>1. stage \in {"stores", "exited"} /\ ~cron
      /\ \A c \in Conn : conn[c].state \notin {"anonymous", "open", "leaving"}
  BY DEF PlatformInv, ShutdownOrder, Serving!Origin
<1>2. \A c \in Conn : ~Serving!Begin(c)
  BY <1>1 DEF Serving!Begin
<1>3. ~Serving!CronFires
  BY <1>1 DEF Serving!CronFires
<1> QED
  BY <1>1, <1>2, <1>3
  DEF Serving!Next, Serving!Shutdown, Serving!Listen, Serving!StartChannels, Serving!MountRpc, Serving!Fail,
      Serving!Identify, Serving!Gone, Serving!Connect, Serving!TurnEnds, Serving!TriggerShutdown,
      Serving!StopCron, Serving!CloseWebchat, Serving!CloseGateway, Serving!CloseHttp,
      Serving!CloseStores, Serving!Exit

-----------------------------------------------------------------------------
(* The gateway's processes and their files                                *)

\* Only a gateway that came to write a file is named by it, until it unlinks it; what a
\* process clears names one that crashed.
NamedByWriter ==
  /\ pidFile # None => phase[pidFile] \in {"writePort", "serving", "closePid", "crashed"}
  /\ portFile # None => phase[portFile] \in {"serving", "closePid", "closePort", "crashed"}
  /\ \A p \in Lifecycle!Proc : phase[p] \in {"clearPid", "clearPort"} =>
       found[p] \in Gateway /\ phase[found[p]] = "crashed"

LifecycleInv == Lifecycle!TypeOK /\ NamedByWriter

\* Every step of a process keeps the invariant.
LEMMA LifecycleKeeps ==
  ASSUME LifecycleInv, Lifecycle!Next, GatewayAssumption
  PROVE  LifecycleInv'
<1> USE DEF LifecycleInv, Lifecycle!TypeOK, NamedByWriter, Lifecycle!Phase, Lifecycle!Proc
<1>1. /\ Gateway \cap Command = {} /\ None \notin Gateway \cup Command
  BY DEF GatewayAssumption, Lifecycle!ProcessAssumption
<1>2. ASSUME NEW p \in Lifecycle!Proc, Lifecycle!Run(p) PROVE LifecycleInv'
  BY <1>1, <1>2 DEF Lifecycle!Run, Lifecycle!Move
<1>3. ASSUME NEW p \in Lifecycle!Proc, Lifecycle!Read(p) PROVE LifecycleInv'
  BY <1>1, <1>3 DEF Lifecycle!Read, Lifecycle!Alive, Lifecycle!Ended, Lifecycle!Onward
<1>4. ASSUME NEW p \in Lifecycle!Proc, Lifecycle!ClearPid(p) \/ Lifecycle!ClearPort(p) PROVE LifecycleInv'
  BY <1>1, <1>4 DEF Lifecycle!ClearPid, Lifecycle!ClearPort, Lifecycle!Move, Lifecycle!Onward
<1>5. ASSUME NEW p \in Lifecycle!Proc, Lifecycle!Crash(p) PROVE LifecycleInv'
  BY <1>1, <1>5 DEF Lifecycle!Crash, Lifecycle!Alive, Lifecycle!Ended
<1>6. ASSUME NEW g \in Gateway,
             \/ Lifecycle!Bind(g) \/ Lifecycle!WritePid(g) \/ Lifecycle!WritePort(g)
             \/ Lifecycle!Shutdown(g) \/ Lifecycle!UnlinkPid(g) \/ Lifecycle!UnlinkPort(g)
      PROVE LifecycleInv'
  BY <1>1, <1>6 DEF Lifecycle!Bind, Lifecycle!WritePid, Lifecycle!WritePort, Lifecycle!Shutdown,
                    Lifecycle!UnlinkPid, Lifecycle!UnlinkPort, Lifecycle!Move
<1>7. ASSUME NEW c \in Command, \/ Lifecycle!Status(c) \/ Lifecycle!PortFound(c) \/ Lifecycle!GiveUp(c)
      PROVE LifecycleInv'
  BY <1>1, <1>7 DEF Lifecycle!Status, Lifecycle!PortFound, Lifecycle!GiveUp, Lifecycle!Move
<1>8. ASSUME NEW c \in Command, NEW g \in Gateway, Lifecycle!Spawn(c, g)
      PROVE LifecycleInv'
  BY <1>1, <1>8 DEF Lifecycle!Spawn
<1> QED
  BY <1>2, <1>3, <1>4, <1>5, <1>6, <1>7, <1>8 DEF Lifecycle!Next

\* The invariant holds at the start.
LEMMA LifecycleStart == Lifecycle!Init => LifecycleInv
  BY DEF Lifecycle!Init, LifecycleInv, Lifecycle!TypeOK, NamedByWriter, Lifecycle!Phase

\* A file names a gateway that serves, is about to, or crashed.
LEMMA LifecycleSafe ==
  ASSUME LifecycleInv, GatewayAssumption
  PROVE  Lifecycle!RecordsTruthful
  BY DEF LifecycleInv, NamedByWriter, Lifecycle!TypeOK, Lifecycle!RecordsTruthful, Lifecycle!Alive, Lifecycle!Ended,
         Lifecycle!Proc, GatewayAssumption, Lifecycle!ProcessAssumption

-----------------------------------------------------------------------------
(* The scheduler                                                          *)

\* A run holds a sandbox between its acquisition and its release only.
MayHold(x) ==
  \/ x.phase \in {"executing", "releasing"}
  \/ (x.phase \in {"walking", "guarding"} /\ kindOf[x.task] # "bash")

HeldInside == \A r \in held : MayHold(run[r])

Done(t) == {r \in Cron!Runs : run[r].task = t /\ run[r].phase = "done"}

\* The flag of a task stands for its one run that is unfinished.
FlagExact ==
  \A t \in Cron!Task :
    /\ Cardinality(Cron!Unfinished(t)) = IF running[t] THEN 1 ELSE 0
    /\ runCount[t] = Cardinality(Done(t))

SchedulerInv == Cron!TypeOK /\ FlagExact /\ HeldInside

RunRecord == [task : Cron!Task, phase : Cron!Phase]

\* FiniteSets is instantiated with the scheduler: its Cardinality is this one.
LEMMA SameCardinality == \A S : Cron!Cardinality(S) = Cardinality(S)
  BY DEF Cron!Cardinality, Cardinality

\* The runs are finitely many, and so are those of one task.
LEMMA RunsFinite ==
  ASSUME SchedulerInv
  PROVE  /\ run \in Seq(RunRecord) /\ Cron!Runs = 1..Len(run) /\ Len(run) \in Nat
         /\ IsFiniteSet(Cron!Runs) /\ Cardinality(Cron!Runs) = Len(run)
         /\ \A t : /\ IsFiniteSet(Cron!Unfinished(t)) /\ IsFiniteSet(Done(t))
                   /\ Cardinality(Done(t)) <= Len(run) /\ Cardinality(Done(t)) \in Nat
<1>1. run \in Seq(RunRecord) /\ Cron!Runs = 1..Len(run) /\ Len(run) \in Nat
  BY DEF SchedulerInv, Cron!TypeOK, Cron!Runs, RunRecord
<1>2. IsFiniteSet(Cron!Runs) /\ Cardinality(Cron!Runs) = Len(run)
  BY <1>1, FS_Interval
<1>3. ASSUME NEW t PROVE /\ IsFiniteSet(Cron!Unfinished(t)) /\ IsFiniteSet(Done(t))
                         /\ Cardinality(Done(t)) <= Len(run) /\ Cardinality(Done(t)) \in Nat
  <2>1. Cron!Unfinished(t) \in SUBSET Cron!Runs /\ Done(t) \in SUBSET Cron!Runs
    BY DEF Cron!Unfinished, Done
  <2> QED BY <1>2, <2>1, FS_Subset, FS_CardinalityType
<1> QED BY <1>1, <1>2, <1>3

\* A run goes on: nobody's run ends or begins.
LEMMA GoKeeps ==
  ASSUME SchedulerInv, NEW r \in Cron!Runs, NEW to \in Cron!Phase \ {"done"},
         run[r].phase # "done", run' = [run EXCEPT ![r].phase = to],
         held' \in {held, held \cup {r}},
         r \in held' => MayHold([run[r] EXCEPT !.phase = to]),
         UNCHANGED <<enabled, broken, started, jobs, running, failed, runCount>>
  PROVE  SchedulerInv'
<1> DEFINE x == [run[r] EXCEPT !.phase = to]
<1>1. /\ run \in Seq(RunRecord) /\ Cron!Runs = 1..Len(run) /\ run[r] \in RunRecord
      /\ run \in [1..Len(run) -> RunRecord] /\ Len(run) \in Nat
  BY RunsFinite
<1>2. x \in RunRecord /\ x.task = run[r].task /\ x.phase = to
  BY <1>1 DEF RunRecord
<1>3. run' = [run EXCEPT ![r] = x]
  BY <1>1
<1> HIDE DEF x
<1>4. /\ run' \in Seq(RunRecord) /\ Len(run') = Len(run) /\ DOMAIN run' = DOMAIN run
      /\ \A q \in DOMAIN run : run'[q] = IF q = r THEN x ELSE run[q]
  BY <1>1, <1>2, <1>3
<1>5. \A t \in Cron!Task : Cron!Unfinished(t)' = Cron!Unfinished(t)
  BY <1>1, <1>2, <1>4 DEF Cron!Unfinished, Cron!Runs
<1>6. \A t \in Cron!Task : {q \in Cron!Runs : run[q].task = t /\ run[q].phase = "done"}' = Done(t)
  BY <1>1, <1>2, <1>4 DEF Done, Cron!Runs
<1>7. FlagExact'
  BY <1>5, <1>6 DEF FlagExact, SchedulerInv, Done
<1>8. Cron!TypeOK'
  BY <1>1, <1>4 DEF Cron!TypeOK, SchedulerInv, RunRecord, Cron!Runs
<1>9. HeldInside'
  <2> SUFFICES ASSUME NEW q \in held' PROVE MayHold(run'[q])
    BY DEF HeldInside, MayHold
  <2>1. CASE q = r
    BY <1>1, <1>4, <2>1 DEF x, Cron!Runs
  <2>2. CASE q # r
    <3>1. q \in held /\ q \in Cron!Runs
      BY <2>2 DEF SchedulerInv, Cron!TypeOK
    <3> QED BY <1>4, <2>2, <3>1 DEF SchedulerInv, HeldInside, Cron!Runs
  <2> QED BY <2>1, <2>2
<1> QED BY <1>7, <1>8, <1>9 DEF SchedulerInv

\* A run ends: it was the one its task's flag stands for.
LEMMA FinishKeeps ==
  ASSUME SchedulerInv, NEW r \in Cron!Runs, NEW ok \in BOOLEAN, run[r].phase # "done",
         Cron!Finish(r, ok), held' = held \ {r}, Len(run) <= MaxRuns, MaxRuns \in Nat,
         UNCHANGED <<enabled, broken, started, jobs>>
  PROVE  SchedulerInv'
<1> DEFINE x == [run[r] EXCEPT !.phase = "done"]
           t0 == run[r].task
<1>1. /\ run \in Seq(RunRecord) /\ Cron!Runs = 1..Len(run) /\ run[r] \in RunRecord
      /\ run \in [1..Len(run) -> RunRecord] /\ Len(run) \in Nat
  BY RunsFinite
<1>15. t0 \in Cron!Task
  BY <1>1 DEF RunRecord
<1>2. x \in RunRecord /\ x.task = t0 /\ x.phase = "done"
  BY <1>1 DEF RunRecord, Cron!Phase
<1>3. run' = [run EXCEPT ![r] = x]
  BY <1>1 DEF Cron!Finish
<1>0. /\ running' = [running EXCEPT ![t0] = FALSE]
      /\ runCount' = [runCount EXCEPT ![t0] = @ + 1]
      /\ failed' = [failed EXCEPT ![t0] = ~ok]
  BY DEF Cron!Finish
<1> HIDE DEF x, t0
<1>4. /\ run' \in Seq(RunRecord) /\ Len(run') = Len(run) /\ DOMAIN run' = DOMAIN run
      /\ \A q \in DOMAIN run : run'[q] = IF q = r THEN x ELSE run[q]
  BY <1>1, <1>2, <1>3
<1>5. \A t \in Cron!Task : Cron!Unfinished(t)' = Cron!Unfinished(t) \ {r}
  BY <1>1, <1>2, <1>4 DEF Cron!Unfinished, Cron!Runs
<1>6. \A t \in Cron!Task : /\ t # t0 => Done(t)' = Done(t)
                           /\ t = t0 => Done(t)' = Done(t) \cup {r} /\ r \notin Done(t)
  BY <1>1, <1>2, <1>4 DEF Done, Cron!Runs, t0
<1>7. /\ r \in Cron!Unfinished(t0)
      /\ \A t \in Cron!Task : t # t0 => r \notin Cron!Unfinished(t)
  BY <1>1 DEF Cron!Unfinished, t0
<1>8. /\ running \in [Cron!Task -> BOOLEAN] /\ runCount \in [Cron!Task -> 0..MaxRuns]
      /\ failed \in [Cron!Task -> BOOLEAN]
      /\ \A t \in Cron!Task : /\ Cardinality(Cron!Unfinished(t)) = IF running[t] THEN 1 ELSE 0
                              /\ runCount[t] = Cardinality(Done(t))
  BY DEF SchedulerInv, FlagExact, Cron!TypeOK, Done
<1>9. running[t0]
  BY <1>7, <1>8, <1>15, RunsFinite, FS_EmptySet
<1>10. ASSUME NEW t \in Cron!Task
       PROVE  /\ Cardinality(Cron!Unfinished(t)') = IF running'[t] THEN 1 ELSE 0
              /\ runCount'[t] = Cardinality(Done(t)')
              /\ runCount'[t] <= Len(run) /\ runCount'[t] \in Nat
  <2>1. CASE t = t0
    <3>1. Cardinality(Cron!Unfinished(t)') = 0
      <4>1. Cardinality(Cron!Unfinished(t)) = 1
        BY <1>8, <1>9, <2>1
      <4>2. Cardinality(Cron!Unfinished(t) \ {r}) = Cardinality(Cron!Unfinished(t)) - 1
        BY <1>7, <2>1, RunsFinite, FS_RemoveElement
      <4>3. Cron!Unfinished(t)' = Cron!Unfinished(t) \ {r}
        BY <1>5
      <4>4. Cardinality(Cron!Unfinished(t) \ {r}) = 0
        BY <4>1, <4>2
      <4> QED BY <4>3, <4>4
    <3>2. Cardinality(Done(t)') = Cardinality(Done(t)) + 1
      BY <1>6, <2>1, RunsFinite, FS_AddElement
    <3>3. Done(t)' \in SUBSET Cron!Runs
      BY <1>4 DEF Done, Cron!Runs
    <3>4. Cardinality(Done(t)') <= Len(run)
      BY <3>3, RunsFinite, FS_Subset
    <3>5. ~running'[t] /\ runCount'[t] = runCount[t] + 1
      BY <1>0, <1>8, <2>1
    <3> QED BY <1>8, <3>1, <3>2, <3>4, <3>5, RunsFinite
  <2>2. CASE t # t0
    <3>1. Cron!Unfinished(t)' = Cron!Unfinished(t) /\ Done(t)' = Done(t)
      BY <1>5, <1>6, <1>7, <2>2
    <3>2. running'[t] = running[t] /\ runCount'[t] = runCount[t]
      BY <1>0, <1>8, <2>2
    <3> QED BY <1>8, <3>1, <3>2, RunsFinite
  <2> QED BY <2>1, <2>2
<1>11. FlagExact'
  BY <1>10 DEF FlagExact, Done
<1>12. /\ runCount' \in [Cron!Task -> 0..MaxRuns] /\ running' \in [Cron!Task -> BOOLEAN]
       /\ failed' \in [Cron!Task -> BOOLEAN]
  <2>1. \A t \in Cron!Task : runCount'[t] \in 0..MaxRuns
    BY <1>1, <1>10
  <2> QED BY <1>0, <1>8, <2>1
<1>13. Cron!TypeOK'
  BY <1>1, <1>4, <1>12 DEF Cron!TypeOK, SchedulerInv, RunRecord, Cron!Runs
<1>14. HeldInside'
  <2> SUFFICES ASSUME NEW q \in held' PROVE MayHold(run'[q])
    BY DEF HeldInside, MayHold
  <2>1. q \in held /\ q \in Cron!Runs /\ q # r
    BY DEF SchedulerInv, Cron!TypeOK
  <2> QED BY <1>4, <2>1 DEF SchedulerInv, HeldInside, Cron!Runs
<1> QED BY <1>11, <1>13, <1>14 DEF SchedulerInv

\* No run is over where it begins.
LEMMA FirstPhase ==
  ASSUME GatewayAssumption, NEW t \in Cron!Task
  PROVE  Cron!First(t) \in Cron!Phase \ {"done"}
<1>1. kindOf[t] \in {"chat", "bash", "workflow"}
  BY DEF GatewayAssumption, Cron!SchedulerAssumption, Cron!Kind
<1> QED BY <1>1 DEF Cron!First, Cron!Phase

\* A run begins only where the flag is down.
LEMMA DispatchKeeps ==
  ASSUME SchedulerInv, GatewayAssumption, NEW t \in Cron!Task, Cron!Dispatch(t),
         UNCHANGED <<enabled, broken, started, jobs, failed, runCount, held>>
  PROVE  SchedulerInv'
<1>1. CASE running[t]
  <2>1. UNCHANGED <<enabled, broken, started, jobs, running, failed, runCount, run, held>>
    BY <1>1 DEF Cron!Dispatch
  <2>2. \A u : Cron!Unfinished(u)' = Cron!Unfinished(u) /\ Done(u)' = Done(u)
    BY <2>1 DEF Cron!Unfinished, Done, Cron!Runs
  <2>3. FlagExact'
    BY <2>1, <2>2 DEF SchedulerInv, FlagExact, Done
  <2> QED BY <2>1, <2>3 DEF SchedulerInv, Cron!TypeOK, HeldInside, MayHold, Cron!Runs
<1>2. CASE ~running[t]
  <2> DEFINE x == [task |-> t, phase |-> Cron!First(t)]
             new == Len(run) + 1
  <2>1. /\ run \in Seq(RunRecord) /\ Cron!Runs = 1..Len(run) /\ Len(run) \in Nat
    BY RunsFinite
  <2>2. x \in RunRecord /\ x.task = t /\ x.phase # "done"
    BY FirstPhase DEF RunRecord
  <2>3. Len(run) < MaxRuns /\ running' = [running EXCEPT ![t] = TRUE] /\ run' = Append(run, x)
    BY <1>2 DEF Cron!Dispatch
  <2> HIDE DEF x
  <2>4. /\ run' \in Seq(RunRecord) /\ Len(run') = new
        /\ \A q \in 1..new : run'[q] = IF q = new THEN x ELSE run[q]
        /\ Cron!Runs' = 1..new
    BY <2>1, <2>2, <2>3 DEF Cron!Runs
  <2>5. \A u \in Cron!Task : /\ u # t => Cron!Unfinished(u)' = Cron!Unfinished(u)
                             /\ u = t => Cron!Unfinished(u)' = Cron!Unfinished(u) \cup {new}
    BY <2>1, <2>2, <2>4 DEF Cron!Unfinished
  <2>6. \A u \in Cron!Task : Done(u)' = Done(u)
    BY <2>1, <2>2, <2>4 DEF Done
  <2>7. /\ running \in [Cron!Task -> BOOLEAN] /\ runCount' = runCount
        /\ \A u \in Cron!Task : /\ Cardinality(Cron!Unfinished(u)) = IF running[u] THEN 1 ELSE 0
                                /\ runCount[u] = Cardinality(Done(u))
    BY DEF SchedulerInv, FlagExact, Cron!TypeOK, Done
  <2>8. Cardinality(Cron!Unfinished(t)') = 1
    <3>1. Cron!Unfinished(t) = {}
      BY <1>2, <2>7, RunsFinite, FS_EmptySet
    <3>2. Cron!Unfinished(t)' = {new}
      BY <2>5, <3>1
    <3> QED BY <3>2, FS_Singleton
  <2>9. ASSUME NEW u \in Cron!Task
        PROVE  /\ Cardinality(Cron!Unfinished(u)') = IF running'[u] THEN 1 ELSE 0
               /\ runCount'[u] = Cardinality(Done(u)')
    <3>1. CASE u = t
      BY <2>3, <2>6, <2>7, <2>8, <3>1
    <3>2. CASE u # t
      <4>1. running'[u] = running[u] /\ Cron!Unfinished(u)' = Cron!Unfinished(u)
        BY <2>3, <2>5, <2>7, <3>2
      <4> QED BY <2>6, <2>7, <4>1
    <3> QED BY <3>1, <3>2
  <2>10. FlagExact'
    BY <2>9 DEF FlagExact, Done
  <2>11. MaxRuns \in Nat
    BY DEF GatewayAssumption, Cron!SchedulerAssumption
  <2>12. running' \in [Cron!Task -> BOOLEAN]
    BY <2>3, <2>7
  <2>13. held \subseteq Cron!Runs' /\ Len(run') <= MaxRuns
    BY <2>1, <2>3, <2>4, <2>11 DEF SchedulerInv, Cron!TypeOK
  <2>14. Cron!TypeOK'
    BY <2>4, <2>12, <2>13 DEF SchedulerInv, Cron!TypeOK, RunRecord
  <2>15. HeldInside'
    <3> SUFFICES ASSUME NEW q \in held PROVE MayHold(run'[q])
      BY DEF HeldInside, MayHold
    <3>1. q \in 1..Len(run)
      BY <2>1 DEF SchedulerInv, Cron!TypeOK
    <3>2. run'[q] = run[q]
      BY <2>1, <2>4, <3>1
    <3> QED BY <3>2 DEF SchedulerInv, HeldInside
  <2> QED BY <2>10, <2>14, <2>15 DEF SchedulerInv
<1> QED BY <1>1, <1>2

\* A run's next step, or its end.
LEMMA RunKeeps ==
  ASSUME SchedulerInv, GatewayAssumption, NEW r \in Cron!Runs, Cron!RunStep(r)
  PROVE  SchedulerInv'
<1> DEFINE same == UNCHANGED <<enabled, broken, started, jobs>>
           still == UNCHANGED <<running, failed, runCount>>
<1>1. /\ MaxRuns \in Nat /\ Len(run) <= MaxRuns /\ run[r] \in RunRecord
  <2>1. run[r] \in RunRecord
    BY RunsFinite
  <2> QED BY <2>1 DEF GatewayAssumption, Cron!SchedulerAssumption, SchedulerInv, Cron!TypeOK
<1>2. r \in held => MayHold(run[r])
  BY DEF SchedulerInv, HeldInside
<1>3. ASSUME NEW ok \in BOOLEAN, run[r].phase # "done", Cron!Finish(r, ok), held' = held \ {r}, same
      PROVE  SchedulerInv'
  BY <1>1, <1>3, FinishKeeps
<1>4. ASSUME NEW from \in Cron!Phase \ {"done"}, NEW to \in Cron!Phase \ {"done"},
             Cron!Go(r, from, to), held' \in {held, held \cup {r}}, same, still,
             r \in held' => \/ to \in {"executing", "releasing"}
                            \/ (to \in {"walking", "guarding"} /\ kindOf[run[r].task] # "bash")
      PROVE  SchedulerInv'
  <2>1. /\ run[r].phase # "done" /\ run' = [run EXCEPT ![r].phase = to]
    BY <1>4 DEF Cron!Go
  <2>2. r \in held' => MayHold([run[r] EXCEPT !.phase = to])
    <3> DEFINE x == [run[r] EXCEPT !.phase = to]
    <3>1. x.phase = to /\ x.task = run[r].task
      BY <1>1 DEF RunRecord
    <3> HIDE DEF x
    <3>2. r \in held' => MayHold(x)
      BY <1>4, <3>1 DEF MayHold
    <3> QED BY <3>2 DEF x
  <2> QED BY <1>4, <2>1, <2>2, GoKeeps
<1> DEFINE free == run[r].phase \in {"routing", "handling", "reading", "acquiring"}
<1>5. free \/ (run[r].phase = "guarding" /\ kindOf[run[r].task] = "bash") => r \notin held
  BY <1>2 DEF MayHold
<1>6. CASE Cron!Routed(r)
  <2>1. run[r].phase = "routing" /\ r \notin held /\ same /\ held' = held
    BY <1>5, <1>6 DEF Cron!Routed, Cron!Service, Cron!config, Cron!Go
  <2>2. CASE Cron!Go(r, "routing", "handling") /\ still
    BY <1>4, <2>1, <2>2 DEF Cron!Phase
  <2>3. CASE Cron!Finish(r, FALSE)
    BY <1>3, <2>1, <2>3
  <2> QED BY <1>6, <2>2, <2>3 DEF Cron!Routed, Cron!History
<1>7. CASE Cron!Handled(r)
  <2>1. run[r].phase = "handling" /\ r \notin held /\ same /\ held' = held
    BY <1>5, <1>7 DEF Cron!Handled, Cron!Service, Cron!config
  <2> QED BY <1>3, <1>7, <2>1 DEF Cron!Handled
<1>8. CASE Cron!Read(r)
  <2>1. run[r].phase = "reading" /\ r \notin held /\ same /\ held' = held
    BY <1>5, <1>8 DEF Cron!Read, Cron!Service, Cron!config, Cron!Go
  <2>2. CASE Cron!Go(r, "reading", "acquiring") /\ still
    BY <1>4, <2>1, <2>2 DEF Cron!Phase
  <2>3. CASE Cron!Finish(r, FALSE)
    BY <1>3, <2>1, <2>3
  <2> QED BY <1>8, <2>2, <2>3 DEF Cron!Read, Cron!History
<1>9. CASE Cron!Guarded(r)
  <2> DEFINE bash == kindOf[run[r].task] = "bash"
  <2>1. run[r].phase = "guarding" /\ same /\ held' = held /\ (bash => r \notin held)
    BY <1>5, <1>9 DEF Cron!Guarded, Cron!Service, Cron!config
  <2>2. CASE Cron!Go(r, "guarding", IF bash THEN "acquiring" ELSE "executing") /\ still
    <3>1. CASE bash
      BY <1>4, <2>1, <2>2, <3>1 DEF Cron!Phase
    <3>2. CASE ~bash
      BY <1>4, <2>1, <2>2, <3>2 DEF Cron!Phase
    <3> QED BY <3>1, <3>2
  <2>3. CASE bash /\ Cron!Finish(r, FALSE)
    BY <1>3, <2>1, <2>3
  <2>4. CASE ~bash /\ Cron!Go(r, "guarding", "walking") /\ still
    BY <1>4, <2>1, <2>4 DEF Cron!Phase
  <2> QED BY <1>9, <2>2, <2>3, <2>4 DEF Cron!Guarded, Cron!History
<1>10. CASE Cron!Acquired(r)
  <2> DEFINE bash == kindOf[run[r].task] = "bash"
  <2>1. run[r].phase = "acquiring" /\ r \notin held /\ same
    BY <1>5, <1>10 DEF Cron!Acquired, Cron!Service, Cron!config
  <2>2. CASE /\ Cron!Go(r, "acquiring", IF bash THEN "executing" ELSE "walking")
             /\ held' = held \cup {r} /\ still
    <3>1. CASE bash
      BY <1>4, <2>1, <2>2, <3>1 DEF Cron!Phase
    <3>2. CASE ~bash
      BY <1>4, <2>1, <2>2, <3>2 DEF Cron!Phase
    <3> QED BY <3>1, <3>2
  <2>3. CASE Cron!Finish(r, FALSE) /\ held' = held
    BY <1>3, <2>1, <2>3
  <2> QED BY <1>10, <2>2, <2>3 DEF Cron!Acquired, Cron!History
<1>11. CASE Cron!Walk(r)
  <2>1. same /\ still /\ held' = held /\ run[r].phase = "walking"
    BY <1>11 DEF Cron!Walk, Cron!Go, Cron!Service, Cron!config, Cron!History
  <2>2. CASE Cron!Go(r, "walking", "releasing")
    BY <1>4, <2>1, <2>2 DEF Cron!Phase
  <2>3. CASE Cron!Go(r, "walking", "guarding")
    BY <1>2, <1>4, <2>1, <2>3 DEF Cron!Phase, MayHold
  <2> QED BY <1>11, <2>2, <2>3 DEF Cron!Walk
<1>12. CASE Cron!Executed(r)
  <2>1. same /\ still /\ held' = held
    BY <1>12 DEF Cron!Executed, Cron!Service, Cron!config, Cron!History
  <2>2. \/ Cron!Go(r, "executing", "releasing")
        \/ (Cron!Go(r, "executing", "walking") /\ kindOf[run[r].task] # "bash")
    BY <1>12 DEF Cron!Executed
  <2> QED BY <1>4, <2>1, <2>2 DEF Cron!Phase
<1>13. CASE Cron!Released(r)
  BY <1>3, <1>13 DEF Cron!Released, Cron!Service, Cron!config
<1> QED
  BY <1>6, <1>7, <1>8, <1>9, <1>10, <1>11, <1>12, <1>13 DEF Cron!RunStep

\* Every step of the scheduler keeps the invariant.
LEMMA SchedulerKeeps ==
  ASSUME SchedulerInv, GatewayAssumption, Cron!Next
  PROVE  SchedulerInv'
<1>1. ASSUME UNCHANGED <<enabled, broken, running, failed, runCount, run, held>>,
             started' \in BOOLEAN, jobs' \in SUBSET Cron!Task
      PROVE  SchedulerInv'
  <2>1. \A u : Cron!Unfinished(u)' = Cron!Unfinished(u) /\ Done(u)' = Done(u)
    BY <1>1 DEF Cron!Unfinished, Done, Cron!Runs
  <2>2. FlagExact'
    BY <1>1, <2>1 DEF SchedulerInv, FlagExact, Done
  <2> QED BY <1>1, <2>2 DEF SchedulerInv, Cron!TypeOK, HeldInside, MayHold, Cron!Runs
<1>2. CASE Cron!Start
  BY <1>1, <1>2 DEF Cron!Start, Cron!config, Cron!Task
<1>3. CASE Cron!Stop
  BY <1>1, <1>3 DEF Cron!Stop, Cron!config
<1>4. ASSUME NEW t \in Cron!Task, Cron!Fire(t) \/ Cron!RunNow(t) PROVE SchedulerInv'
  BY <1>4, DispatchKeeps DEF Cron!Fire, Cron!RunNow, Cron!config
<1> QED
  BY <1>2, <1>3, <1>4, RunKeeps DEF Cron!Next

\* The invariant holds at the start.
LEMMA SchedulerStart == ASSUME GatewayAssumption PROVE Cron!Init => SchedulerInv
<1> SUFFICES ASSUME Cron!Init PROVE SchedulerInv
  OBVIOUS
<1>1. run = <<>> /\ held = {} /\ Cron!Runs = {} /\ MaxRuns \in Nat
  BY DEF Cron!Init, Cron!Runs, GatewayAssumption, Cron!SchedulerAssumption
<1>2. \A t \in Cron!Task : Cron!Unfinished(t) = {} /\ Done(t) = {} /\ running[t] = FALSE /\ runCount[t] = 0
  BY <1>1 DEF Cron!Init, Cron!Unfinished, Done
<1>3. FlagExact
  BY <1>2, FS_EmptySet DEF FlagExact, Done
<1>4. run \in Seq([task : Cron!Task, phase : Cron!Phase]) /\ Len(run) = 0 /\ 0 \in 0..MaxRuns
  BY <1>1
<1>5. runCount \in [Cron!Task -> 0..MaxRuns]
  BY <1>4 DEF Cron!Init
<1>6. Cron!TypeOK
  <2>1. Len(run) <= MaxRuns /\ held \subseteq Cron!Runs
    BY <1>1, <1>4
  <2>2. running \in [Cron!Task -> BOOLEAN] /\ failed \in [Cron!Task -> BOOLEAN]
    BY DEF Cron!Init
  <2>3. enabled \subseteq Cron!Task /\ broken \subseteq Cron!Task /\ started \in BOOLEAN /\ jobs \subseteq Cron!Task
    BY DEF Cron!Init
  <2> QED BY <1>4, <1>5, <2>1, <2>2, <2>3, Zenon DEF Cron!TypeOK
<1> QED
  BY <1>1, <1>6, <1>3, <1>4 DEF SchedulerInv, HeldInside

\* A task has one unfinished run at most, and a held sandbox a run that uses it.
LEMMA SchedulerSafe ==
  ASSUME SchedulerInv
  PROVE  Cron!OneRunPerTask
<1>1. \A r \in held : run[r].phase # "done"
  BY DEF SchedulerInv, HeldInside, MayHold
<1> QED
  BY <1>1, SameCardinality DEF SchedulerInv, FlagExact, Done, Cron!OneRunPerTask

-----------------------------------------------------------------------------
(* The sandboxes of tools                                                 *)

InProcessAlone == \A e \in Exec : exec[e].kind = "in-process" => exec[e].runner = "none"

SandboxInv == Sandbox!TypeOK /\ Sandbox!NothingOrphaned /\ InProcessAlone

Execution == [box : Box \cup {None}, kind : Sandbox!Kind \cup {None},
              phase : {"unused", "running", "done"}, timer : BOOLEAN, runner : Sandbox!Runner,
              mail : BOOLEAN \cup {None}, timedOut : BOOLEAN, ok : BOOLEAN]

\* What every execution has to fulfil, one at a time.
ExecutionOK(x) ==
  /\ x \in Execution
  /\ x.phase = "running" /\ x.kind # "in-process" => x.timer \/ x.runner # "alive"
  /\ x.phase = "done" => ~x.timer /\ x.runner # "alive"
  /\ x.kind = "in-process" => x.runner = "none"

\* The invariant, one execution at a time.
LEMMA SandboxInvPointwise ==
  SandboxInv <=> /\ box \in [Box -> {"absent", "ready", "running", "released"}]
                 /\ exec \in [Exec -> Execution]
                 /\ \A e \in Exec : ExecutionOK(exec[e])
  BY Zenon DEF SandboxInv, Sandbox!TypeOK, Sandbox!NothingOrphaned, InProcessAlone, ExecutionOK, Execution

\* The same of the next state.
LEMMA SandboxInvPointwiseNext ==
  SandboxInv' <=> /\ box' \in [Box -> {"absent", "ready", "running", "released"}]
                  /\ exec' \in [Exec -> Execution]
                  /\ \A e \in Exec : ExecutionOK(exec'[e])
  BY Zenon DEF SandboxInv, Sandbox!TypeOK, Sandbox!NothingOrphaned, InProcessAlone, ExecutionOK, Execution

\* An execution that was not begun has nothing that runs it.
LEMMA UnusedOK ==
  /\ Sandbox!Unused \in Execution /\ Sandbox!Unused.runner = "none"
  /\ Sandbox!Unused.timer = FALSE /\ Sandbox!Unused.phase = "unused"
  BY DEF Sandbox!Unused, Execution, Sandbox!Runner

\* mark() keeps the statuses of the instances in their range.
LEMMA MarkTyped ==
  ASSUME box \in [Box -> {"absent", "ready", "running", "released"}], NEW b, NEW to \in {"ready", "running"},
         Sandbox!Mark(b, to)
  PROVE  box' \in [Box -> {"absent", "ready", "running", "released"}]
  BY DEF Sandbox!Mark

\* A step that changes one execution has to show it of that one only.
LEMMA Replaced ==
  ASSUME SandboxInv, NEW e \in Exec, NEW y, ExecutionOK(y),
         exec' = [exec EXCEPT ![e] = y],
         box' \in [Box -> {"absent", "ready", "running", "released"}]
  PROVE  SandboxInv'
<1>1. /\ exec \in [Exec -> Execution] /\ \A x \in Exec : ExecutionOK(exec[x])
      /\ y \in Execution
  BY SandboxInvPointwise DEF ExecutionOK
<1>2. exec' \in [Exec -> Execution] /\ \A x \in Exec : exec'[x] = IF x = e THEN y ELSE exec[x]
  BY <1>1
<1>3. \A x \in Exec : ExecutionOK(exec'[x])
  BY <1>1, <1>2
<1> QED BY <1>2, <1>3, SandboxInvPointwiseNext

\* settle() disarms the timer and leaves nothing alive.
LEMMA SettleOK ==
  ASSUME NEW e \in Exec, NEW ok \in BOOLEAN, SandboxInv, exec[e].kind # "in-process", Sandbox!Settle(e, ok)
  PROVE SandboxInv'
<1> DEFINE x == exec[e]
           y == [x EXCEPT !.phase = "done", !.timer = FALSE, !.ok = ok, !.mail = None,
                          !.runner = IF @ = "alive" THEN "ending" ELSE @]
<1>1. ExecutionOK(x) /\ x \in Execution
  BY SandboxInvPointwise DEF ExecutionOK
<1>2. y \in Execution
  BY <1>1 DEF Execution, Sandbox!Runner
<1>3. ExecutionOK(y)
  BY <1>1, <1>2 DEF ExecutionOK, Execution, Sandbox!Runner
<1>4. exec' = [exec EXCEPT ![e] = y]
  BY <1>1, SandboxInvPointwise DEF Sandbox!Settle
<1>5. box' \in [Box -> {"absent", "ready", "running", "released"}]
  BY MarkTyped, SandboxInvPointwise DEF Sandbox!Settle
<1> HIDE DEF y
<1> QED BY <1>3, <1>4, <1>5, Replaced

\* Every step of the sandboxes keeps the invariant.
LEMMA SandboxKeeps ==
  ASSUME SandboxInv, Sandbox!Next
  PROVE  SandboxInv'
<1> DEFINE Boxes == [Box -> {"absent", "ready", "running", "released"}]
<1>1. /\ box \in Boxes /\ exec \in [Exec -> Execution]
      /\ \A x \in Exec : ExecutionOK(exec[x]) /\ exec[x] \in Execution
  BY SandboxInvPointwise DEF ExecutionOK
<1>2. CASE \E b \in Box : Sandbox!Acquire(b) \/ Sandbox!Release(b)
  <2>1. box' \in Boxes /\ exec' = exec
    BY <1>1, <1>2 DEF Sandbox!Acquire, Sandbox!Release
  <2> QED BY <1>1, <2>1, SandboxInvPointwiseNext
<1>3. ASSUME NEW e \in Exec, NEW b \in Box, NEW kind \in Sandbox!Kind, Sandbox!Refuse(e, b, kind)
      PROVE  SandboxInv'
  <2> DEFINE y == [Sandbox!Unused EXCEPT !.box = b, !.kind = kind, !.phase = "done"]
  <2>1. y \in Execution /\ y.runner = "none" /\ y.timer = FALSE /\ y.phase = "done"
    BY UnusedOK DEF Execution
  <2>2. ExecutionOK(y)
    BY Zenon, <2>1 DEF ExecutionOK
  <2>3. exec' = [exec EXCEPT ![e] = y] /\ box' \in Boxes
    BY <1>1, <1>3 DEF Sandbox!Refuse
  <2> HIDE DEF y
  <2> QED BY <2>2, <2>3, Replaced
<1>4. ASSUME NEW e \in Exec, NEW b \in Box, NEW kind \in Sandbox!Kind, Sandbox!Begin(e, b, kind)
      PROVE  SandboxInv'
  <2> DEFINE y == [Sandbox!Unused EXCEPT !.box = b, !.kind = kind, !.phase = "running", !.timer = TRUE,
                     !.runner = IF kind = "in-process" THEN "none" ELSE "alive"]
  <2>1. y \in Execution /\ y.timer = TRUE /\ y.phase = "running" /\ y.kind = kind
        /\ y.runner = IF kind = "in-process" THEN "none" ELSE "alive"
    BY UnusedOK DEF Execution, Sandbox!Runner
  <2>2. ExecutionOK(y)
    BY Zenon, <2>1 DEF ExecutionOK
  <2>3. exec' = [exec EXCEPT ![e] = y] /\ box' \in Boxes
    BY <1>1, <1>4, MarkTyped DEF Sandbox!Begin
  <2> HIDE DEF y
  <2> QED BY <2>2, <2>3, Replaced
<1>5. ASSUME NEW e \in Exec, NEW ok \in BOOLEAN, Sandbox!ToolEnds(e, ok)
      PROVE  SandboxInv'
  <2> DEFINE y == [exec[e] EXCEPT !.phase = "done", !.timer = FALSE, !.ok = ok]
  <2>1. y \in Execution
    BY <1>1 DEF Execution
  <2>2. ExecutionOK(y)
    BY <1>1, <1>5, <2>1 DEF ExecutionOK, Execution, Sandbox!ToolEnds, Sandbox!Running
  <2>3. exec' = [exec EXCEPT ![e] = y] /\ box' \in Boxes
    BY <1>1, <1>5, MarkTyped DEF Sandbox!ToolEnds
  <2> HIDE DEF y
  <2> QED BY <2>2, <2>3, Replaced
<1>6. ASSUME NEW e \in Exec, NEW ok \in BOOLEAN, Sandbox!Reply(e, ok)
      PROVE  SandboxInv'
  <2> DEFINE y == [exec[e] EXCEPT !.mail = ok]
  <2>1. y \in Execution
    BY <1>1 DEF Execution
  <2>2. ExecutionOK(y)
    BY <1>1, <2>1 DEF ExecutionOK, Execution
  <2>3. exec' = [exec EXCEPT ![e] = y] /\ box' \in Boxes
    BY <1>1, <1>6 DEF Sandbox!Reply
  <2> HIDE DEF y
  <2> QED BY <2>2, <2>3, Replaced
<1>7. ASSUME NEW e \in Exec, NEW zero \in BOOLEAN, Sandbox!OnClose(e, zero)
      PROVE  SandboxInv'
  <2> DEFINE y == [exec[e] EXCEPT !.phase = "done", !.timer = FALSE, !.ok = zero /\ ~exec[e].timedOut]
  <2>1. y \in Execution
    BY <1>1 DEF Execution
  <2>2. ExecutionOK(y)
    BY <1>1, <1>7, <2>1 DEF ExecutionOK, Execution, Sandbox!OnClose, Sandbox!Running
  <2>3. exec' = [exec EXCEPT ![e] = y] /\ box' \in Boxes
    BY <1>1, <1>7 DEF Sandbox!OnClose
  <2> HIDE DEF y
  <2> QED BY <2>2, <2>3, Replaced
<1>8. ASSUME NEW e \in Exec, Sandbox!Abort(e)
      PROVE  SandboxInv'
  <2> DEFINE y == [exec[e] EXCEPT !.timer = FALSE, !.timedOut = TRUE]
  <2>1. y \in Execution
    BY <1>1 DEF Execution
  <2>2. ExecutionOK(y)
    BY <1>1, <1>8, <2>1 DEF ExecutionOK, Execution, Sandbox!Abort, Sandbox!Running
  <2>3. exec' = [exec EXCEPT ![e] = y] /\ box' \in Boxes
    BY <1>1, <1>8 DEF Sandbox!Abort
  <2> HIDE DEF y
  <2> QED BY <2>2, <2>3, Replaced
<1>9. ASSUME NEW e \in Exec,
             \/ Sandbox!OnMessage(e) \/ Sandbox!OnError(e) \/ Sandbox!OnTimeout(e) \/ Sandbox!OnExit(e)
      PROVE  SandboxInv'
  <2>1. exec[e].kind # "in-process" /\ \E ok \in BOOLEAN : Sandbox!Settle(e, ok)
    <3>1. exec[e].mail # None => exec[e].mail \in BOOLEAN
      BY <1>1 DEF Execution
    <3> QED
      BY <1>9, <3>1, Zenon DEF Sandbox!OnMessage, Sandbox!OnError, Sandbox!OnTimeout, Sandbox!OnExit, Sandbox!Running
  <2> QED BY <2>1, SettleOK
<1>10. ASSUME NEW e \in Exec, Sandbox!WorkerExits(e) \/ Sandbox!ChildEnds(e)
       PROVE  SandboxInv'
  <2> DEFINE y == [exec[e] EXCEPT !.runner = "gone"]
  <2>1. y \in Execution
    BY <1>1 DEF Execution, Sandbox!Runner
  <2>2. ExecutionOK(y)
    BY <1>1, <1>10, <2>1 DEF ExecutionOK, Execution, Sandbox!WorkerExits, Sandbox!ChildEnds
  <2>3. exec' = [exec EXCEPT ![e] = y] /\ box' \in Boxes
    BY <1>1, <1>10 DEF Sandbox!WorkerExits, Sandbox!ChildEnds
  <2> HIDE DEF y
  <2> QED BY <2>2, <2>3, Replaced
<1>11. ASSUME NEW e \in Exec, Sandbox!Kill(e)
       PROVE  SandboxInv'
  <2> DEFINE y == [exec[e] EXCEPT !.timer = FALSE, !.timedOut = TRUE,
                                  !.runner = IF @ = "alive" THEN "ending" ELSE @]
  <2>1. y \in Execution
    BY <1>1 DEF Execution, Sandbox!Runner
  <2>2. ExecutionOK(y)
    BY <1>1, <1>11, <2>1 DEF ExecutionOK, Execution, Sandbox!Runner, Sandbox!Kill, Sandbox!Running
  <2>3. exec' = [exec EXCEPT ![e] = y] /\ box' \in Boxes
    BY <1>1, <1>11 DEF Sandbox!Kill
  <2> HIDE DEF y
  <2> QED BY <2>2, <2>3, Replaced
<1>12. ASSUME NEW e \in Exec, Sandbox!OnChildError(e)
       PROVE  SandboxInv'
  <2> DEFINE y == [exec[e] EXCEPT !.phase = "done", !.timer = FALSE, !.runner = "gone"]
  <2>1. y \in Execution
    BY <1>1 DEF Execution, Sandbox!Runner
  <2>2. ExecutionOK(y)
    BY <1>1, <1>12, <2>1 DEF ExecutionOK, Execution, Sandbox!OnChildError, Sandbox!Running
  <2>3. exec' = [exec EXCEPT ![e] = y] /\ box' \in Boxes
    BY <1>1, <1>12 DEF Sandbox!OnChildError
  <2> HIDE DEF y
  <2> QED BY <2>2, <2>3, Replaced
<1> HIDE DEF Boxes
<1> QED
  BY Zenon, <1>2, <1>3, <1>4, <1>5, <1>6, <1>7, <1>8, <1>9, <1>10, <1>11, <1>12 DEF Sandbox!Next

\* The invariant holds at the start.
LEMMA SandboxStart == Sandbox!Init => SandboxInv
<1> SUFFICES ASSUME Sandbox!Init PROVE SandboxInv
  OBVIOUS
<1>1. box \in [Box -> {"absent", "ready", "running", "released"}] /\ exec \in [Exec -> Execution]
  BY UnusedOK DEF Sandbox!Init
<1>2. Sandbox!Unused.kind = None
  BY DEF Sandbox!Unused
<1>3. ExecutionOK(Sandbox!Unused)
  BY Zenon, UnusedOK DEF ExecutionOK
<1> QED BY <1>1, <1>3, SandboxInvPointwise DEF Sandbox!Init

-----------------------------------------------------------------------------
(* The installed skills                                                   *)

\* What a mount has found was imported, a package is written for a skill, and a platform
\* that is down has neither tools nor calls under way.
FoundIsImported == \A a \in Installed!Actor : \A s \in job[a].found : imported[s] # None

WritesOf(x) == x.phase \in {"staging", "clearing", "making", "copying"} => x.skill \in Skill

WritesSkills == \A a \in Installed!Actor : WritesOf(job[a])

DownIsEmpty ==
  host = "down" => /\ \A t \in Tool : live[t] = None
                   /\ \A a \in Installed!Actor : job[a].phase = "idle"

SkillsInv ==
  /\ Installed!TypeOK /\ Installed!LiveFromCache
  /\ FoundIsImported /\ WritesSkills /\ DownIsEmpty

JobRecord == [kind : {"none", "seed", "create", "remove", "mount"}, phase : Installed!Phase,
              skill : Skill \cup {None}, source : Source \cup {None},
              files : SUBSET Installed!File, entries : SUBSET Skill, found : SUBSET Skill]

\* A job that is not under way.
LEMMA IdleTyped ==
  /\ Installed!Idle \in JobRecord /\ Installed!Idle.found = {} /\ Installed!Idle.phase = "idle"
  BY DEF Installed!Idle, JobRecord, Installed!Phase

\* The steps of the calls that neither import nor register.
LEMMA JobSteps ==
  ASSUME SkillsInv, host # "down", NEW a \in Installed!Actor, NEW y \in JobRecord,
         WritesOf(y), y.found \in {{}, job[a].found},
         job' = [job EXCEPT ![a] = y],
         dirs' \in SUBSET Skill, disk' \in [Skill -> [Installed!File -> Source \cup {None}]],
         toSeed' \in SUBSET toSeed, UNCHANGED <<imported, live, host, restarts>>
  PROVE  SkillsInv'
<1>1. /\ job \in [Installed!Actor -> JobRecord]
  BY DEF SkillsInv, Installed!TypeOK, JobRecord
<1>2. /\ job' \in [Installed!Actor -> JobRecord]
      /\ \A b \in Installed!Actor : job'[b].found \in {{}, job[b].found}
      /\ \A b \in Installed!Actor : WritesOf(job'[b])
  BY <1>1 DEF SkillsInv, WritesSkills
<1>3. Installed!TypeOK'
  BY <1>2 DEF SkillsInv, Installed!TypeOK, JobRecord
<1>4. Installed!LiveFromCache'
  BY Zenon DEF SkillsInv, Installed!LiveFromCache
<1>5. FoundIsImported'
  BY <1>2 DEF SkillsInv, FoundIsImported
<1>6. WritesSkills'
  BY Zenon, <1>2 DEF WritesSkills, WritesOf
<1> QED
  BY <1>3, <1>4, <1>5, <1>6 DEF SkillsInv, DownIsEmpty

\* The steps that write a package or take one away.
LEMMA WritingKeeps ==
  ASSUME SkillsInv, NEW a \in Installed!Actor,
         \/ Installed!Clear(a) \/ Installed!MakeDir(a) \/ Installed!CopyFile(a) \/ Installed!Copied(a)
         \/ Installed!Staged(a) \/ Installed!Uninstalled(a)
  PROVE  SkillsInv'
<1>1. /\ job \in [Installed!Actor -> JobRecord] /\ job[a] \in JobRecord
      /\ dirs \subseteq Skill /\ disk \in [Skill -> [Installed!File -> Source \cup {None}]]
      /\ WritesOf(job[a])
  BY DEF SkillsInv, WritesSkills, Installed!TypeOK, JobRecord
<1>2. job[a].phase # "idle" /\ host # "down"
  BY DEF SkillsInv, DownIsEmpty, Installed!Clear, Installed!MakeDir, Installed!CopyFile, Installed!Copied,
         Installed!Staged, Installed!Uninstalled
<1>3. Installed!Empty \in [Installed!File -> Source \cup {None}]
  BY DEF Installed!Empty
<1>4. CASE Installed!Clear(a)
  <2> DEFINE y == [job[a] EXCEPT !.phase = "making"]
  <2>1. y \in JobRecord /\ y.found = job[a].found /\ y.skill = job[a].skill
    BY <1>1 DEF JobRecord, Installed!Phase
  <2>2. WritesOf(y)
    BY <1>1, <1>4, <2>1 DEF WritesOf, Installed!Clear
  <2>3. job' = [job EXCEPT ![a] = y]
    BY <1>4 DEF Installed!Clear, Installed!Advance
  <2>4. dirs' \in SUBSET Skill /\ disk' \in [Skill -> [Installed!File -> Source \cup {None}]]
    BY <1>1, <1>3, <1>4 DEF Installed!Clear
  <2> HIDE DEF y
  <2> QED BY <1>2, <1>4, <2>1, <2>2, <2>3, <2>4, JobSteps DEF Installed!Clear
<1>5. CASE Installed!MakeDir(a)
  <2> DEFINE y == [job[a] EXCEPT !.phase = "copying", !.files = Installed!File]
  <2>1. y \in JobRecord /\ y.found = job[a].found /\ y.skill = job[a].skill
    BY <1>1 DEF JobRecord, Installed!Phase
  <2>2. WritesOf(y) /\ job[a].skill \in Skill
    BY <1>1, <1>5, <2>1 DEF WritesOf, Installed!MakeDir
  <2>3. job' = [job EXCEPT ![a] = y]
    BY <1>1, <1>5 DEF Installed!MakeDir
  <2>4. dirs' \in SUBSET Skill
    BY <1>1, <1>5, <2>2 DEF Installed!MakeDir
  <2> HIDE DEF y
  <2> QED BY <1>1, <1>2, <1>5, <2>1, <2>2, <2>3, <2>4, JobSteps DEF Installed!MakeDir
<1>6. CASE Installed!CopyFile(a)
  <2>1. CASE job[a].skill \in dirs
    <3>1. PICK f \in job[a].files :
            /\ disk' = [disk EXCEPT ![job[a].skill][f] = job[a].source]
            /\ job' = [job EXCEPT ![a].files = @ \ {f}]
      BY <1>6, <2>1 DEF Installed!CopyFile
    <3> DEFINE y == [job[a] EXCEPT !.files = @ \ {f}]
    <3>2. y \in JobRecord /\ y.found = job[a].found /\ y.skill = job[a].skill /\ y.phase = job[a].phase
      BY <1>1 DEF JobRecord
    <3>3. WritesOf(y)
      BY <1>1, <3>2 DEF WritesOf
    <3>4. job' = [job EXCEPT ![a] = y]
      BY <1>1, <3>1
    <3>5. disk' \in [Skill -> [Installed!File -> Source \cup {None}]]
      BY <1>1, <3>1, <2>1 DEF JobRecord
    <3> HIDE DEF y
    <3> QED BY <1>1, <1>2, <1>6, <3>2, <3>3, <3>4, <3>5, JobSteps DEF Installed!CopyFile
  <2>2. CASE job[a].skill \notin dirs
    <3>1. WritesOf(Installed!Idle)
      BY IdleTyped DEF WritesOf
    <3> QED BY <1>1, <1>2, <1>6, <2>2, <3>1, IdleTyped, JobSteps DEF Installed!CopyFile
  <2> QED BY <2>1, <2>2
<1>7. CASE Installed!Copied(a)
  <2> DEFINE y == IF a = Installed!Boot THEN Installed!Idle
                  ELSE [job[a] EXCEPT !.phase = "listing", !.source = None]
  <2>1. y \in JobRecord /\ y.found \in {{}, job[a].found} /\ y.phase \in {"idle", "listing"}
    BY <1>1, IdleTyped DEF JobRecord, Installed!Phase
  <2>2. WritesOf(y)
    BY <2>1 DEF WritesOf
  <2>3. job' = [job EXCEPT ![a] = y]
    BY <1>1, <1>7 DEF Installed!Copied
  <2> HIDE DEF y
  <2> QED BY <1>1, <1>2, <1>7, <2>1, <2>2, <2>3, JobSteps DEF Installed!Copied
<1>8. CASE Installed!Staged(a)
  <2>1. PICK y \in JobRecord : y.found \in {{}, job[a].found} /\ WritesOf(y) /\ job' = [job EXCEPT ![a] = y]
    <3>1. CASE job' = [job EXCEPT ![a] = Installed!Idle]
      BY <3>1, IdleTyped DEF WritesOf
    <3>2. CASE Installed!Advance(a, IF job[a].skill \in dirs THEN "clearing" ELSE "making")
      <4> DEFINE y == [job[a] EXCEPT !.phase = IF job[a].skill \in dirs THEN "clearing" ELSE "making"]
      <4>1. y \in JobRecord /\ y.found = job[a].found /\ y.skill = job[a].skill
        BY <1>1 DEF JobRecord, Installed!Phase
      <4>2. WritesOf(y)
        BY <1>1, <1>8, <4>1 DEF WritesOf, Installed!Staged
      <4>3. job' = [job EXCEPT ![a] = y]
        BY <1>1, <3>2 DEF Installed!Advance
      <4> HIDE DEF y
      <4> QED BY <4>1, <4>2, <4>3
    <3> QED BY <1>8, <3>1, <3>2 DEF Installed!Staged
  <2> QED BY <1>1, <1>2, <1>8, <2>1, JobSteps DEF Installed!Staged
<1>9. CASE Installed!Uninstalled(a)
  <2> DEFINE y == [job[a] EXCEPT !.phase = "listing"]
  <2>1. y \in JobRecord /\ y.found = job[a].found /\ y.phase = "listing"
    BY <1>1 DEF JobRecord, Installed!Phase
  <2>2. WritesOf(y)
    BY <2>1 DEF WritesOf
  <2>3. job' = [job EXCEPT ![a] = y]
    BY <1>9 DEF Installed!Uninstalled, Installed!Advance
  <2>4. dirs' \in SUBSET Skill /\ disk' \in [Skill -> [Installed!File -> Source \cup {None}]]
    BY <1>1, <1>3, <1>9 DEF Installed!Uninstalled
  <2> HIDE DEF y
  <2> QED BY <1>2, <1>9, <2>1, <2>2, <2>3, <2>4, JobSteps DEF Installed!Uninstalled
<1> QED
  BY <1>4, <1>5, <1>6, <1>7, <1>8, <1>9

\* The steps that begin a call or a scan.
LEMMA BeginningKeeps ==
  ASSUME SkillsInv, GatewayAssumption,
         \/ \E s \in Installed!Builtin : Installed!Seed(s)
         \/ Installed!FirstMount
         \/ \E j \in Job, s \in Skill :
              Installed!Remove(j, s) \/ \E source \in Source : Installed!Create(j, s, source)
         \/ \E j \in Job : Installed!Reload(j)
         \/ \E a \in Installed!Actor : Installed!List(a)
  PROVE  SkillsInv'
<1>1. /\ job \in [Installed!Actor -> JobRecord]
      /\ dirs \subseteq Skill /\ disk \in [Skill -> [Installed!File -> Source \cup {None}]]
      /\ toSeed \subseteq Installed!Builtin
      /\ Installed!Boot \in Installed!Actor /\ Job \subseteq Installed!Actor
  BY DEF SkillsInv, Installed!TypeOK, JobRecord, Installed!Actor
<1>2. /\ Installed!Builtin \subseteq Skill /\ bundled \in [Installed!Builtin -> Source]
  BY DEF GatewayAssumption, Installed!SkillsAssumption
<1>3. ASSUME NEW s \in Installed!Builtin, Installed!Seed(s) PROVE SkillsInv'
  <2> DEFINE y == [Installed!Idle EXCEPT !.kind = "seed", !.skill = s, !.source = bundled[s],
                     !.phase = IF disk[s]["manifest.json"] = None THEN "making" ELSE "clearing"]
  <2>1. y \in JobRecord /\ y.found = {} /\ y.skill = s
    BY <1>2, IdleTyped DEF JobRecord, Installed!Phase
  <2>2. WritesOf(y)
    BY <1>2, <2>1 DEF WritesOf
  <2>3. \/ job' = [job EXCEPT ![Installed!Boot] = y]
        \/ job' = [job EXCEPT ![Installed!Boot] = Installed!Idle]
    BY <1>1, <1>3 DEF Installed!Seed
  <2>4. WritesOf(Installed!Idle)
    BY IdleTyped DEF WritesOf
  <2> HIDE DEF y
  <2>5. host # "down" /\ toSeed' \in SUBSET toSeed /\ dirs' \in SUBSET Skill
        /\ disk' \in [Skill -> [Installed!File -> Source \cup {None}]]
        /\ UNCHANGED <<imported, live, host, restarts>>
    BY <1>1, <1>3 DEF Installed!Seed
  <2> QED BY <1>1, <2>1, <2>2, <2>3, <2>4, <2>5, IdleTyped, JobSteps
<1>4. ASSUME NEW a \in Installed!Actor, NEW y \in JobRecord, y.found = {}, WritesOf(y), host # "down",
             job' = [job EXCEPT ![a] = y], UNCHANGED <<dirs, disk, imported, live, host, toSeed, restarts>>
      PROVE SkillsInv'
  BY <1>1, <1>4, JobSteps
<1>5. CASE Installed!FirstMount
  <2> DEFINE y == [Installed!Idle EXCEPT !.kind = "mount", !.phase = "listing"]
  <2>1. y \in JobRecord /\ y.found = {} /\ y.phase = "listing"
    BY IdleTyped DEF JobRecord, Installed!Phase
  <2>2. WritesOf(y)
    BY <2>1 DEF WritesOf
  <2> HIDE DEF y
  <2> QED BY <1>1, <1>4, <1>5, <2>1, <2>2 DEF Installed!FirstMount, y
<1>6. ASSUME NEW j \in Job, NEW s \in Skill, Installed!Remove(j, s) PROVE SkillsInv'
  <2> DEFINE y == [Installed!Idle EXCEPT !.kind = "remove", !.skill = s, !.phase = "removing"]
  <2>1. y \in JobRecord /\ y.found = {} /\ y.phase = "removing"
    BY IdleTyped DEF JobRecord, Installed!Phase
  <2>2. WritesOf(y)
    BY <2>1 DEF WritesOf
  <2>3. job' = [job EXCEPT ![j] = y] /\ host # "down"
    BY <1>6 DEF Installed!Remove, Installed!Free
  <2> HIDE DEF y
  <2> QED BY <1>1, <1>4, <1>6, <2>1, <2>2, <2>3 DEF Installed!Remove
<1>7. ASSUME NEW j \in Job, NEW s \in Skill, NEW source \in Source, Installed!Create(j, s, source) PROVE SkillsInv'
  <2> DEFINE y == [Installed!Idle EXCEPT !.kind = "create", !.skill = s, !.source = source, !.phase = "staging"]
  <2>1. y \in JobRecord /\ y.found = {} /\ y.skill = s
    BY IdleTyped DEF JobRecord, Installed!Phase
  <2>2. WritesOf(y)
    BY <2>1 DEF WritesOf
  <2>3. job' = [job EXCEPT ![j] = y] /\ host # "down"
    BY <1>7 DEF Installed!Create, Installed!Free
  <2> HIDE DEF y
  <2> QED BY <1>1, <1>4, <1>7, <2>1, <2>2, <2>3 DEF Installed!Create
<1>8. ASSUME NEW j \in Job, Installed!Reload(j) PROVE SkillsInv'
  <2> DEFINE y == [Installed!Idle EXCEPT !.kind = "mount", !.phase = "listing"]
  <2>1. y \in JobRecord /\ y.found = {} /\ y.phase = "listing"
    BY IdleTyped DEF JobRecord, Installed!Phase
  <2>2. WritesOf(y)
    BY <2>1 DEF WritesOf
  <2>3. job' = [job EXCEPT ![j] = y] /\ host # "down"
    BY <1>8 DEF Installed!Reload, Installed!Free
  <2> HIDE DEF y
  <2> QED BY <1>1, <1>4, <1>8, <2>1, <2>2, <2>3 DEF Installed!Reload
<1>9. ASSUME NEW a \in Installed!Actor, Installed!List(a) PROVE SkillsInv'
  <2> DEFINE y == [job[a] EXCEPT !.phase = "mounting", !.found = {},
                     !.entries = {s \in dirs : disk[s]["manifest.json"] # None}]
  <2>1. y \in JobRecord /\ y.found = {} /\ y.phase = "mounting"
    BY <1>1 DEF JobRecord, Installed!Phase
  <2>2. WritesOf(y)
    BY <2>1 DEF WritesOf
  <2>3. job' = [job EXCEPT ![a] = y] /\ host # "down"
    BY <1>1, <1>9 DEF Installed!List, SkillsInv, DownIsEmpty
  <2> HIDE DEF y
  <2> QED BY <1>1, <1>4, <1>9, <2>1, <2>2, <2>3 DEF Installed!List
<1> QED
  BY <1>3, <1>5, <1>6, <1>7, <1>8, <1>9

\* import() gives a skill's module once and for all.
LEMMA MountOneKeeps ==
  ASSUME SkillsInv, NEW a \in Installed!Actor, Installed!MountOne(a)
  PROVE  SkillsInv'
<1>1. /\ job \in [Installed!Actor -> JobRecord] /\ job[a] \in JobRecord
      /\ disk \in [Skill -> [Installed!File -> Source \cup {None}]]
      /\ imported \in [Skill -> Source \cup {None}]
      /\ live \in [Tool -> Skill \cup {Core, None}]
  BY DEF SkillsInv, Installed!TypeOK, JobRecord
<1> DEFINE loads(s) == disk[s]["manifest.json"] # None /\ Installed!Module(s) # None
           taken(s) == \E o \in job[a].found : toolOf[Installed!Module(o)] = toolOf[Installed!Module(s)]
           y(s) == [job[a] EXCEPT !.entries = @ \ {s},
                                  !.found = IF loads(s) /\ ~taken(s) THEN @ \cup {s} ELSE @]
<1>2. PICK s \in job[a].entries :
        /\ job[a].phase = "mounting"
        /\ imported' = IF loads(s) THEN [imported EXCEPT ![s] = Installed!Module(s)] ELSE imported
        /\ job' = [job EXCEPT ![a] = y(s)]
        /\ UNCHANGED <<dirs, disk, live, host, toSeed, restarts>>
  BY <1>1 DEF Installed!MountOne
<1>3. s \in Skill
  BY <1>1, <1>2 DEF JobRecord
<1>4. Installed!Module(s) \in Source \cup {None}
  BY <1>1, <1>3 DEF Installed!Module, Installed!File
<1>5. /\ imported' \in [Skill -> Source \cup {None}]
      /\ \A o \in Skill : imported[o] # None => imported'[o] = imported[o]
      /\ loads(s) => imported'[s] # None
  BY <1>1, <1>2, <1>3, <1>4 DEF Installed!Module
<1>6. /\ y(s) \in JobRecord /\ y(s).phase = "mounting"
      /\ y(s).found = IF loads(s) /\ ~taken(s) THEN job[a].found \cup {s} ELSE job[a].found
  BY <1>1, <1>2, <1>3 DEF JobRecord
<1> HIDE DEF y, taken, loads
<1>7. /\ job' \in [Installed!Actor -> JobRecord]
      /\ \A b \in Installed!Actor : job'[b] = IF b = a THEN y(s) ELSE job[b]
  BY <1>1, <1>2, <1>6
<1>8. Installed!TypeOK'
  BY <1>2, <1>5, <1>7 DEF SkillsInv, Installed!TypeOK, JobRecord
<1>9. Installed!LiveFromCache'
  BY <1>2, <1>5 DEF SkillsInv, Installed!LiveFromCache
<1>10. FoundIsImported'
  <2> SUFFICES ASSUME NEW b \in Installed!Actor, NEW o \in job'[b].found PROVE imported'[o] # None
    BY DEF FoundIsImported
  <2>1. CASE o \in job[b].found
    <3>1. o \in Skill /\ imported[o] # None
      BY <1>1, <2>1 DEF SkillsInv, FoundIsImported, JobRecord
    <3> QED BY <1>5, <3>1
  <2>2. CASE o \notin job[b].found
    BY <1>5, <1>6, <1>7, <2>2
  <2> QED BY <2>1, <2>2
<1>11. WritesSkills'
  <2>1. WritesOf(y(s)) /\ \A b \in Installed!Actor : WritesOf(job[b])
    BY <1>6 DEF WritesOf, SkillsInv, WritesSkills
  <2>2. \A b \in Installed!Actor : WritesOf(job'[b])
    BY <1>7, <2>1
  <2> QED BY Zenon, <2>2 DEF WritesSkills, WritesOf
<1>12. DownIsEmpty'
  <2>1. host # "down"
    BY <1>2 DEF SkillsInv, DownIsEmpty
  <2> QED BY <1>2, <2>1 DEF DownIsEmpty
<1> QED
  BY <1>8, <1>9, <1>10, <1>11, <1>12 DEF SkillsInv

\* registerAll adds the tools of what its mount has found and replaces none.
LEMMA RegisterKeeps ==
  ASSUME SkillsInv, GatewayAssumption, NEW a \in Installed!Actor, Installed!Register(a)
  PROVE  /\ SkillsInv' /\ host # "down"
         /\ \A t \in Tool : live[t] # None => live'[t] = live[t]
<1>1. /\ job \in [Installed!Actor -> JobRecord] /\ job[a] \in JobRecord
      /\ imported \in [Skill -> Source \cup {None}]
      /\ live \in [Tool -> Skill \cup {Core, None}]
  BY DEF SkillsInv, Installed!TypeOK, JobRecord
<1>2. host # "down" /\ host' \in {host, "serving"}
  BY DEF SkillsInv, DownIsEmpty, Installed!Register
<1>3. \A t \in Tool : \/ live'[t] = live[t]
                     \/ (live[t] = None /\ live'[t] \in Installed!Offered(a, t))
  <2> DEFINE chosen(t) == CHOOSE s \in Installed!Offered(a, t) : TRUE
  <2>1. \A t \in Tool : Installed!Offered(a, t) # {} => chosen(t) \in Installed!Offered(a, t)
    OBVIOUS
  <2>2. live' = [t \in Tool |-> IF live[t] = None /\ Installed!Offered(a, t) # {} THEN chosen(t) ELSE live[t]]
    BY Zenon DEF Installed!Register
  <2> HIDE DEF chosen
  <2> QED BY <2>1, <2>2
<1>4. \A t \in Tool : Installed!Offered(a, t) \subseteq Skill
  BY <1>1 DEF Installed!Offered, JobRecord
<1>5. live' \in [Tool -> Skill \cup {Core, None}]
  <2>1. \A t \in Tool : live'[t] \in Skill \cup {Core, None}
    BY <1>1, <1>3, <1>4
  <2> QED BY <2>1 DEF Installed!Register
<1> DEFINE y == Installed!Ended(a)
<1>6. y \in JobRecord /\ y.found = {} /\ y.phase \in {"idle", "done"}
  BY <1>1, IdleTyped DEF Installed!Ended, JobRecord, Installed!Phase
<1> HIDE DEF y
<1>7. /\ job' \in [Installed!Actor -> JobRecord]
      /\ \A b \in Installed!Actor : job'[b] = IF b = a THEN y ELSE job[b]
  BY <1>1, <1>6 DEF Installed!Register, y
<1>8. Installed!TypeOK'
  BY <1>2, <1>5, <1>7 DEF SkillsInv, Installed!TypeOK, JobRecord, Installed!Register
<1>9. Installed!LiveFromCache'
  <2> SUFFICES ASSUME NEW t \in Tool, live'[t] \in Skill
               PROVE  imported'[live'[t]] # None /\ toolOf[imported'[live'[t]]] = t
    BY DEF Installed!LiveFromCache
  <2>1. imported' = imported
    BY DEF Installed!Register
  <2>2. CASE live'[t] = live[t]
    BY <2>1, <2>2 DEF SkillsInv, Installed!LiveFromCache
  <2>3. CASE live'[t] \in Installed!Offered(a, t)
    BY <2>1, <2>3 DEF SkillsInv, FoundIsImported, Installed!Offered
  <2> QED BY <1>3, <2>2, <2>3
<1>10. FoundIsImported'
  BY <1>6, <1>7 DEF SkillsInv, FoundIsImported, Installed!Register
<1>11. WritesSkills'
  <2>1. WritesOf(y) /\ \A b \in Installed!Actor : WritesOf(job[b])
    BY <1>6 DEF WritesOf, SkillsInv, WritesSkills
  <2>2. \A b \in Installed!Actor : WritesOf(job'[b])
    BY <1>7, <2>1
  <2> QED BY Zenon, <2>2 DEF WritesSkills, WritesOf
<1>12. DownIsEmpty'
  BY <1>2 DEF DownIsEmpty
<1> QED
  BY <1>2, <1>3, <1>8, <1>9, <1>10, <1>11, <1>12 DEF SkillsInv

\* The process stops, or comes back with only its own tools.
LEMMA ProcessKeeps ==
  ASSUME SkillsInv, GatewayAssumption, Installed!Stop \/ Installed!Restart
  PROVE  SkillsInv'
<1>1. Core \notin Skill /\ None \notin Skill /\ MaxRestarts \in Nat
  BY DEF GatewayAssumption, Installed!SkillsAssumption
<1>2. CASE Installed!Stop
  <2>1. job' \in [Installed!Actor -> JobRecord]
        /\ \A b \in Installed!Actor : job'[b] = Installed!Idle /\ WritesOf(Installed!Idle)
    BY <1>2, IdleTyped DEF Installed!Stop, WritesOf
  <2>2. Installed!TypeOK'
    BY <1>2, <2>1 DEF Installed!Stop, SkillsInv, Installed!TypeOK, JobRecord
  <2>3. Installed!LiveFromCache'
    BY <1>1, <1>2 DEF Installed!Stop, Installed!LiveFromCache
  <2>4. FoundIsImported' /\ DownIsEmpty'
    BY <1>2, <2>1, IdleTyped DEF Installed!Stop, FoundIsImported, DownIsEmpty
  <2>5. WritesSkills'
    BY <2>1, Zenon DEF WritesSkills, WritesOf
  <2> QED BY <2>2, <2>3, <2>4, <2>5 DEF SkillsInv
<1>3. CASE Installed!Restart
  <2>1. Installed!TypeOK'
    BY <1>1, <1>3 DEF Installed!Restart, SkillsInv, Installed!TypeOK
  <2>2. Installed!LiveFromCache'
    BY <1>1, <1>3 DEF Installed!Restart, Installed!LiveFromCache
  <2>3. FoundIsImported' /\ DownIsEmpty'
    BY <1>3 DEF Installed!Restart, SkillsInv, FoundIsImported, DownIsEmpty
  <2>4. WritesSkills'
    BY <1>3 DEF Installed!Restart, SkillsInv, WritesSkills, WritesOf
  <2> QED BY <2>1, <2>2, <2>3, <2>4 DEF SkillsInv
<1> QED
  BY <1>2, <1>3

\* Every step of the skills keeps the invariant.
LEMMA SkillsKeep ==
  ASSUME SkillsInv, GatewayAssumption, Installed!Next
  PROVE  SkillsInv'
<1>1. Job \subseteq Installed!Actor
  BY DEF Installed!Actor
<1>2. ASSUME NEW a \in Installed!Actor,
             \/ Installed!Clear(a) \/ Installed!MakeDir(a) \/ Installed!CopyFile(a) \/ Installed!Copied(a)
             \/ Installed!Staged(a) \/ Installed!Uninstalled(a)
      PROVE SkillsInv'
  BY <1>2, WritingKeeps
<1> QED
  BY <1>1, <1>2, BeginningKeeps, MountOneKeeps, RegisterKeeps, ProcessKeeps DEF Installed!Next

\* The invariant holds at the start.
LEMMA SkillsStart == ASSUME GatewayAssumption PROVE Installed!Init => SkillsInv
<1> SUFFICES ASSUME Installed!Init PROVE SkillsInv
  OBVIOUS
<1>1. Core \notin Skill /\ None \notin Skill /\ MaxRestarts \in Nat
  BY DEF GatewayAssumption, Installed!SkillsAssumption
<1>2. /\ job \in [Installed!Actor -> JobRecord]
      /\ \A b \in Installed!Actor : job[b] = Installed!Idle /\ WritesOf(Installed!Idle)
  BY IdleTyped DEF Installed!Init, WritesOf
<1>3. Installed!TypeOK
  BY <1>1, <1>2 DEF Installed!Init, Installed!TypeOK, JobRecord, Installed!Empty
<1>4. Installed!LiveFromCache
  BY <1>1 DEF Installed!Init, Installed!LiveFromCache
<1>5. FoundIsImported /\ DownIsEmpty /\ WritesSkills
  BY <1>2, IdleTyped DEF Installed!Init, FoundIsImported, DownIsEmpty, WritesSkills
<1> QED
  BY <1>3, <1>4, <1>5 DEF SkillsInv

\* What a step does to the tools that turns hold.
LEMMA ToolsAreKept ==
  ASSUME SkillsInv, GatewayAssumption, Installed!Next, host' # "down"
  PROVE  \A t \in Tool : live[t] # None => live'[t] = live[t]
<1>1. CASE live' = live
  BY <1>1
<1>2. CASE \E a \in Installed!Actor : Installed!Register(a)
  BY <1>2, RegisterKeeps
<1>3. CASE Installed!Restart
  BY <1>3 DEF Installed!Restart, SkillsInv, DownIsEmpty
<1>4. ~Installed!Stop
  BY DEF Installed!Stop
<1> QED
  BY <1>1, <1>2, <1>3, <1>4
  DEF Installed!Next, Installed!Seed, Installed!FirstMount, Installed!Remove, Installed!Create,
      Installed!Staged, Installed!Uninstalled, Installed!Reload, Installed!Clear, Installed!MakeDir,
      Installed!CopyFile, Installed!Copied, Installed!List, Installed!MountOne

-----------------------------------------------------------------------------
(* All of them                                                            *)

\* Every component keeps its invariant, whichever of them moves.
GatewayInv == RpcInv /\ PlatformInv /\ LifecycleInv /\ SchedulerInv /\ SandboxInv /\ SkillsInv

\* A component that does not move keeps its invariant.
LEMMA RpcRests ==
  ASSUME RpcInv, UNCHANGED rpcVars
  PROVE  RpcInv'
<1>1. /\ UNCHANGED <<clientEnd, serverEnd, requests, frames, process, inflight, aborted, turn, turnClosed,
                     origin, reports>>
      /\ UNCHANGED <<ws, readyPromise, reconnectAttempt, closedByCaller, timers, pending, call, waits,
                     status, shown, indicator>>
  BY DEF rpcVars
<1>2. Rpc!TypeOK'
  BY <1>1 DEF RpcInv, Rpc!TypeOK, Rpc!WireTypeOK, Rpc!ClientTypeOK, Rpc!ServerTypeOK
<1>3. Told' /\ Known'
  BY <1>1, CallsAreLeft DEF Rpc!callVars
<1>4. TurnsHaveOrigins' /\ TurnsAreKept' /\ TimersCounted'
  BY <1>1 DEF RpcInv, TurnsHaveOrigins, TurnsAreKept, TimersCounted, ClosedSockets
<1> QED BY <1>2, <1>3, <1>4 DEF RpcInv

LEMMA PlatformRests ==
  ASSUME PlatformInv, UNCHANGED platformVars
  PROVE  PlatformInv'
  BY DEF PlatformInv, Serving!TypeOK, ShutdownOrder, platformVars

LEMMA LifecycleRests ==
  ASSUME LifecycleInv, UNCHANGED lifecycleVars
  PROVE  LifecycleInv'
  BY DEF LifecycleInv, Lifecycle!TypeOK, NamedByWriter, lifecycleVars

LEMMA SchedulerRests ==
  ASSUME SchedulerInv, UNCHANGED schedulerVars
  PROVE  SchedulerInv'
  BY DEF SchedulerInv, Cron!TypeOK, FlagExact, HeldInside, MayHold, Done, Cron!Unfinished,
         Cron!Runs, schedulerVars

LEMMA SandboxRests ==
  ASSUME SandboxInv, UNCHANGED sandboxVars
  PROVE  SandboxInv'
<1>1. UNCHANGED <<box, exec>>
  BY DEF sandboxVars
<1> QED BY <1>1, SandboxInvPointwise, SandboxInvPointwiseNext

LEMMA SkillsRest ==
  ASSUME SkillsInv, UNCHANGED skillsVars
  PROVE  SkillsInv'
  BY DEF SkillsInv, Installed!TypeOK, Installed!LiveFromCache, FoundIsImported, WritesSkills, WritesOf,
         DownIsEmpty, skillsVars

\* The invariant holds at the start.
LEMMA GatewayStarts ==
  ASSUME GatewayAssumption, Init
  PROVE  GatewayInv
  BY RpcStarts, PlatformStart, LifecycleStart, SchedulerStart, SandboxStart, SkillsStart DEF Init, GatewayInv

\* Every step is one of one component, or stutters.
LEMMA GatewayKeeps ==
  ASSUME GatewayAssumption, GatewayInv, [Next]_vars
  PROVE  GatewayInv'
<1> USE DEF GatewayInv
<1>1. CASE RpcStep
  BY <1>1, RpcKeeps, PlatformRests, LifecycleRests, SchedulerRests, SandboxRests, SkillsRest DEF RpcStep
<1>2. CASE PlatformStep
  BY <1>2, RpcRests, PlatformKeeps, LifecycleRests, SchedulerRests, SandboxRests, SkillsRest DEF PlatformStep
<1>3. CASE LifecycleStep
  BY <1>3, RpcRests, PlatformRests, LifecycleKeeps, SchedulerRests, SandboxRests, SkillsRest DEF LifecycleStep
<1>4. CASE SchedulerStep
  BY <1>4, RpcRests, PlatformRests, LifecycleRests, SchedulerKeeps, SandboxRests, SkillsRest DEF SchedulerStep
<1>5. CASE SandboxStep
  BY <1>5, RpcRests, PlatformRests, LifecycleRests, SchedulerRests, SandboxKeeps, SkillsRest DEF SandboxStep
<1>6. CASE SkillsStep
  BY <1>6, RpcRests, PlatformRests, LifecycleRests, SchedulerRests, SandboxRests, SkillsKeep DEF SkillsStep
<1>7. CASE UNCHANGED vars
  BY <1>7, RpcRests, PlatformRests, LifecycleRests, SchedulerRests, SandboxRests, SkillsRest DEF vars
<1> QED BY <1>1, <1>2, <1>3, <1>4, <1>5, <1>6, <1>7 DEF Next

\* Hence it holds of every behaviour.
LEMMA GatewaySafe == Spec => []GatewayInv
<1>1. Init => GatewayInv
  BY GatewayAssumption, GatewayStarts
<1>2. GatewayInv /\ [Next]_vars => GatewayInv'
  BY GatewayAssumption, GatewayKeeps
<1> QED BY <1>1, <1>2, PTL DEF Spec

\* Each part of the six components keeps its range; among them the reconnect attempts
\* of a client stay within maxReconnectAttempts, and no client has more reconnect
\* timers than sockets that closed.
THEOREM GatewayTypeCorrect == Spec => []TypeOK
<1>1. GatewayInv => TypeOK
  BY RpcSafe DEF GatewayInv, PlatformInv, LifecycleInv, SchedulerInv, SandboxInv, SkillsInv, TypeOK
<1> QED BY <1>1, GatewaySafe, PTL

\* However sockets break and handlers report late, the App never takes a turn for
\* resolved that was not reported complete, and shows a phase only while its call is
\* awaited (chat.send, emitPhase, handleMessage).
THEOREM TurnsAreToldInOrder == Spec => []TurnToldInOrder
<1>1. GatewayInv => TurnToldInOrder
  BY RpcSafe DEF GatewayInv, TurnToldInOrder
<1> QED BY <1>1, GatewaySafe, PTL

\* A turn under way whose connection is gone has had its signal aborted
\* (handleConnection of the RPC server).
THEOREM GoneIsAborted == Spec => []AbortedWhenGone
<1>1. GatewayInv => AbortedWhenGone
  BY RpcSafe DEF GatewayInv, AbortedWhenGone
<1> QED BY <1>1, GatewaySafe, PTL

\* The books agree with what happens: flags with runs, timers with threads, files with
\* processes, stores with HTTP turns, live tools with the module cache.
THEOREM NothingIsOrphaned == Spec => []NothingOrphaned
<1>1. GatewayInv => NothingOrphaned
  BY GatewayAssumption, SchedulerSafe, LifecycleSafe, PlatformSafe
  DEF GatewayInv, SandboxInv, SkillsInv, NothingOrphaned
<1> QED BY <1>1, GatewaySafe, PTL

\* No turn is begun on closed stores, and no skill ever takes the place of one of the
\* platform's own tools (shutdown, remountInstalledSkills).
THEOREM TurnsKeepWhatTheyRelyOn == Spec => KeptForTurns
<1> DEFINE Begins == turns' \subseteq turns \/ stores
           Kept == host' # "down" => \A t \in Tool : live[t] = Core => live'[t] = Core
<1>1. ASSUME GatewayInv, [Next]_vars PROVE [Begins]_Serving!vars
  <2>1. CASE PlatformStep
    BY <1>1, <2>1, PlatformBegins DEF PlatformStep, GatewayInv
  <2>2. CASE UNCHANGED platformVars
    BY <2>2 DEF platformVars
  <2> QED
    BY <1>1, <2>1, <2>2
    DEF Next, vars, RpcStep, LifecycleStep, SchedulerStep, SandboxStep, SkillsStep
<1>2. ASSUME GatewayInv, [Next]_vars PROVE [Kept]_<<host, live>>
  <2>1. CASE SkillsStep
    <3>1. Core # None
      BY GatewayAssumption DEF GatewayAssumption, Installed!SkillsAssumption
    <3> QED
      BY <1>2, <2>1, <3>1, GatewayAssumption, ToolsAreKept DEF SkillsStep, GatewayInv
  <2>2. CASE UNCHANGED skillsVars
    BY <2>2 DEF skillsVars
  <2> QED
    BY <1>2, <2>1, <2>2
    DEF Next, vars, RpcStep, PlatformStep, LifecycleStep, SchedulerStep, SandboxStep
<1> QED
  BY <1>1, <1>2, GatewaySafe, PTL DEF Spec, KeptForTurns, Serving!BeginsOnOpenStores, Installed!CoreKept
=============================================================================

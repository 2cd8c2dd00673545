----------------------------- MODULE DeviceNode -----------------------------
(***************************************************************************)
(* DeviceNodeServer (device-node/src/server.ts): the connections of        *)
(* companion devices, the pairing handshake with its asynchronous          *)
(* verification, and the map by which the server reaches a device.         *)
(***************************************************************************)
CONSTANTS
  Conn,             \* connections, in all there ever are
  Device,
  None

\* Assumed of the constants; the modules that instantiate this one check it.
DeviceAssumption == None \notin Conn \cup Device

VARIABLES
  running,
  ws,               \* the readyState of a connection's socket
  deviceId,         \* conn.deviceId
  hello,            \* the ids whose verification is awaited, one hello each at a time
  connections,      \* the map from devices to connections
  verified,         \* the ids verifyPairing confirmed for a connection
  said              \* <<c, d>>: a message of c was handed on as d's

vars == <<running, ws, deviceId, hello, connections, verified, said>>

TypeOK ==
  /\ running \in BOOLEAN
  /\ ws \in [Conn -> {"none", "open", "closing", "closed"}]
  /\ deviceId \in [Conn -> Device \cup {None}]
  /\ hello \in [Conn -> SUBSET Device]
  /\ connections \in [Device -> Conn \cup {None}]
  /\ verified \in [Conn -> SUBSET Device]
  /\ said \subseteq Conn \X Device

Init ==
  /\ running = TRUE
  /\ ws = [c \in Conn |-> "none"]
  /\ deviceId = [c \in Conn |-> None]
  /\ hello = [c \in Conn |-> {}]
  /\ connections = [d \in Device |-> None]
  /\ verified = [c \in Conn |-> {}]
  /\ said = {}

\* A frame may still arrive while the socket is closing.
CanReceive(c) == ws[c] \in {"open", "closing"}

\* handleUpgrade; a server that was stopped listens no longer.
Accept(c) ==
  /\ running
  /\ ws[c] = "none"
  /\ ws' = [ws EXCEPT ![c] = "open"]
  /\ UNCHANGED <<running, deviceId, hello, connections, verified, said>>

\* Variant: the connection is known by the id it claims while the claim is checked.
HelloTrusting(c, d) ==
  /\ CanReceive(c) /\ d \notin hello[c]
  /\ hello' = [hello EXCEPT ![c] = @ \cup {d}]
  /\ deviceId' = [deviceId EXCEPT ![c] = d]
  /\ UNCHANGED <<running, ws, connections, verified, said>>

\* handleHello up to its await.
Hello(c, d) ==
  /\ CanReceive(c) /\ d \notin hello[c]
  /\ hello' = [hello EXCEPT ![c] = @ \cup {d}]
  /\ UNCHANGED <<running, ws, deviceId, connections, verified, said>>

\* verifyPairing answers yes: the connection is entered into the map, whatever
\* has become of its socket.
Paired(c, d) ==
  /\ d \in hello[c]
  /\ deviceId' = [deviceId EXCEPT ![c] = d]
  /\ connections' = [connections EXCEPT ![d] = c]
  /\ verified' = [verified EXCEPT ![c] = @ \cup {d}]
  /\ hello' = [hello EXCEPT ![c] = @ \ {d}]
  /\ UNCHANGED <<running, ws, said>>

CloseFrame(c) == IF ws[c] = "open" THEN "closing" ELSE ws[c]

\* It answers no: the server closes the socket.
PairFailed(c, d) ==
  /\ d \in hello[c]
  /\ hello' = [hello EXCEPT ![c] = @ \ {d}]
  /\ ws' = [ws EXCEPT ![c] = CloseFrame(c)]
  /\ UNCHANGED <<running, deviceId, connections, verified, said>>

\* handleMessage: only a paired connection is listened to.
Message(c) ==
  /\ CanReceive(c)
  /\ deviceId[c] # None
  /\ said' = said \cup {<<c, deviceId[c]>>}
  /\ UNCHANGED <<running, ws, deviceId, hello, connections, verified>>

\* The close event deletes the entry of the connection's device, whichever
\* connection the entry holds.
Close(c) ==
  /\ CanReceive(c)
  /\ ws' = [ws EXCEPT ![c] = "closed"]
  /\ connections' = IF deviceId[c] = None THEN connections
                    ELSE [connections EXCEPT ![deviceId[c]] = None]
  /\ UNCHANGED <<running, deviceId, hello, verified, said>>

\* stop(), up to its await of the sockets that are left.
Stop ==
  /\ running
  /\ running' = FALSE
  /\ ws' = [c \in Conn |-> IF \E d \in Device : connections[d] = c THEN CloseFrame(c) ELSE ws[c]]
  /\ connections' = [d \in Device |-> None]
  /\ UNCHANGED <<deviceId, hello, verified, said>>

Next ==
  \/ Stop
  \/ \E c \in Conn :
       \/ Accept(c) \/ Message(c) \/ Close(c)
       \/ \E d \in Device : Hello(c, d) \/ Paired(c, d) \/ PairFailed(c, d)

Spec == Init /\ [][Next]_vars

-----------------------------------------------------------------------------
(* Properties *)

\* pushTo's receivers: the connection that would be sent a push for d.
Reach(d) == IF connections[d] # None /\ ws[connections[d]] = "open" THEN {connections[d]} ELSE {}

\* Whatever hellos a connection sends and however verifications and closes
\* overlap (handleHello, handleMessage, pushTo), it is spoken to and listened to
\* only as a device it proved to be.
OnlyVerified ==
  /\ \A d \in Device : \A c \in Reach(d) : d \in verified[c]
  /\ \A p \in said : p[2] \in verified[p[1]]

\* The last connection that proved to be a device is the one the map has (handleHello,
\* handleConnection, pushTo), for as long as it is open and the server runs; unless
\* another connection proved to be the same device and came later, or has closed, which
\* takes the entry away whosever it is.
Reachable ==
  \A c \in Conn : running /\ ws[c] = "open" /\ deviceId[c] # None =>
    LET d == deviceId[c] IN
    \/ connections[d] = c
    \/ \E e \in Conn \ {c} : d \in verified[e] /\ (connections[d] = e \/ ws[e] = "closed")
=============================================================================

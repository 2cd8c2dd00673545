----------------------- MODULE EdgeTransports_proofs -----------------------
(***************************************************************************)
(* What stands at the edges of the system, for any number of sockets,      *)
(* calls, devices, keys, sessions and entries: an inductive invariant for  *)
(* each of the components of MCEdges that carry messages, let people in    *)
(* and remember what was said. Edges_proofs adds persona, goals and the    *)
(* streams of models, and the theorems of them all.                        *)
(*                                                                         *)
(* Each invariant adds to the component's types and promises what the code *)
(* relies on without saying so: which socket a call was sent on (browser), *)
(* how many chains a poller has (page), whose key a pair was generated for *)
(* (identity), which registration a socket has (web chat), what a loop has *)
(* read of a stream and not handed on (Redis), which messages a request    *)
(* carries (webhooks), which rows an ingest has written (memory).          *)
(*                                                                         *)
(* A component has three lemmas: what starts has the invariant, a step of  *)
(* the component keeps it, and a step of another does not touch it. Where  *)
(* the promise is not a conjunct, a fourth (...IsSafe) derives it.         *)
(***************************************************************************)
EXTENDS MCEdges, FiniteSets, FiniteSetTheorems, TLAPS

-----------------------------------------------------------------------------
(* Discord's gateway                                                      *)

\* What a fatal close code and a client that never connected leave behind; and the
\* session the client knows is one the server announced.
DiscordInv ==
  /\ Discord!TypeOK /\ Discord!SingleChain /\ Discord!ResumesWhereItStopped
  /\ fatal => socket = "closed"
  /\ socket = "none" => timer = "off"
  /\ sessionId <= newest

LEMMA DiscordStarts == ASSUME EdgesAssumption, Discord!Init PROVE DiscordInv
<1>1. heartbeat \in BOOLEAN /\ closed \in BOOLEAN /\ fatal \in BOOLEAN /\ resumePending \in BOOLEAN
  BY DEF Discord!Init
<1> QED
  BY <1>1 DEF EdgesAssumption, Discord!DiscordAssumption, Discord!Init, DiscordInv, Discord!TypeOK,
     Discord!SingleChain, Discord!ResumesWhereItStopped, Discord!Live, Discord!SocketState, Discord!StreamState

LEMMA DiscordKeeps == ASSUME EdgesAssumption, DiscordInv, Discord!Next PROVE DiscordInv'
<1>0. MaxEvents \in Nat \ {0} /\ MaxSessions \in Nat \ {0}
  BY DEF EdgesAssumption, Discord!DiscordAssumption
<1> USE <1>0 DEF DiscordInv, Discord!TypeOK, Discord!SingleChain, Discord!ResumesWhereItStopped,
                 Discord!Live, Discord!SocketState, Discord!StreamState, Discord!client, Discord!server
<1>1. CASE Discord!Connect
  <2>1. resumePending' \in BOOLEAN
    BY <1>1 DEF Discord!Connect, Discord!OpenSocket
  <2> QED BY <1>1, <2>1 DEF Discord!Connect, Discord!OpenSocket
<1>2. CASE Discord!Opened
  BY <1>2 DEF Discord!Opened
<1>3. CASE Discord!SocketCloses
  <2>1. PICK code \in Discord!CloseCode : Discord!HandleClose(code)
    BY <1>3 DEF Discord!SocketCloses
  <2>2. CASE closed
    BY <1>3, <2>1, <2>2 DEF Discord!SocketCloses, Discord!HandleClose
  <2>3. CASE ~closed /\ code = "fatal"
    BY <1>3, <2>1, <2>3 DEF Discord!SocketCloses, Discord!HandleClose
  <2>4. CASE ~closed /\ code # "fatal"
    <3>1. heartbeat' = FALSE /\ heartbeat' \in BOOLEAN
      BY <2>1 DEF Discord!HandleClose
    <3> QED BY <3>1, <1>3, <2>1, <2>4 DEF Discord!SocketCloses, Discord!HandleClose, Discord!DropSession
  <2> QED BY <2>2, <2>3, <2>4
<1>4. CASE Discord!TimerFires
  <2>1. resumePending' \in BOOLEAN
    BY <1>4 DEF Discord!TimerFires, Discord!OpenSocket
  <2>2. CASE closed \/ fatal
    BY <1>4, <2>2 DEF Discord!TimerFires, Discord!OpenSocket
  <2>3. CASE ~closed /\ ~fatal
    <3>1. /\ socket' = "connecting" /\ stream' = "greeting" /\ cursor' = 0 /\ timer' = "off"
          /\ UNCHANGED <<heartbeat, sessionId, lastSeq, closed, fatal, events, newest, handled>>
      BY <1>4, <2>3 DEF Discord!TimerFires, Discord!OpenSocket
    <3> QED BY <1>4, <2>1, <2>3, <3>1 DEF Discord!TimerFires
  <2> QED BY <2>2, <2>3
<1>5. CASE Discord!Close
  BY <1>5 DEF Discord!Close, Discord!CloseFrame
<1>6. CASE Discord!Hello
  BY <1>6 DEF Discord!Hello, Discord!CanReceive
<1>7. CASE Discord!Ready
  BY <1>7 DEF Discord!Ready, Discord!CanReceive
<1>8. CASE Discord!Dispatch
  BY <1>8 DEF Discord!Dispatch, Discord!CanReceive
<1>9. ASSUME NEW resumable \in BOOLEAN, Discord!InvalidSession(resumable) PROVE DiscordInv'
  BY <1>9 DEF Discord!InvalidSession, Discord!CanReceive, Discord!CloseFrame, Discord!DropSession
<1>10. CASE Discord!ReconnectRequested
  BY <1>10 DEF Discord!ReconnectRequested, Discord!CanReceive, Discord!CloseFrame
<1>11. CASE Discord!ServerEvent
  BY <1>11 DEF Discord!ServerEvent
<1>12. CASE Discord!ServerForgets
  BY <1>12 DEF Discord!ServerForgets
<1> QED
  BY <1>1, <1>2, <1>3, <1>4, <1>5, <1>6, <1>7, <1>8, <1>9, <1>10, <1>11, <1>12
  DEF Discord!Next, Discord!Receive

LEMMA DiscordRests == ASSUME DiscordInv, UNCHANGED discordVars PROVE DiscordInv'
  BY DEF DiscordInv, Discord!TypeOK, Discord!SingleChain, Discord!ResumesWhereItStopped, discordVars

-----------------------------------------------------------------------------
(* Slack's socket mode                                                    *)

\* Slack!SingleChain, pair by pair.
SlackChain ==
  /\ ~(fetching /\ slackSocket \in Slack!Live) /\ ~(fetching /\ slackTimer)
  /\ ~(slackTimer /\ slackSocket \in Slack!Live)
  /\ slackSocket # "none" /\ ~slackClosed => fetching \/ slackTimer \/ slackSocket \in Slack!Live
  /\ slackClosed => ~slackTimer
  /\ slackClosed => stoppedFetching \/ (~fetching /\ slackSocket \notin {"connecting", "open"})

SlackInv == Slack!TypeOK /\ SlackChain /\ Slack!AckedHandled

LEMMA SlackIsSafe == ASSUME SlackInv PROVE Slack!SingleChain
  BY DEF SlackInv, SlackChain, Slack!SingleChain

LEMMA SlackStarts == ASSUME Slack!Init PROVE SlackInv
  BY DEF Slack!Init, SlackInv, SlackChain, Slack!TypeOK, Slack!AckedHandled, Slack!Live

LEMMA SlackKeeps == ASSUME SlackInv, Slack!Next PROVE SlackInv'
<1> USE DEF SlackInv, SlackChain, Slack!TypeOK, Slack!AckedHandled, Slack!Live, Slack!link
<1>1. CASE Slack!Start
  BY <1>1 DEF Slack!Start, Slack!OpenSocket
<1>2. CASE Slack!UrlResolved
  BY <1>2 DEF Slack!UrlResolved
<1>3. CASE Slack!UrlFailed
  BY <1>3 DEF Slack!UrlFailed, Slack!ScheduleReconnect
<1>4. CASE Slack!Opened
  BY <1>4 DEF Slack!Opened
<1>5. CASE Slack!SocketCloses
  BY <1>5 DEF Slack!SocketCloses, Slack!ScheduleReconnect
<1>6. CASE Slack!TimerFires
  BY <1>6 DEF Slack!TimerFires, Slack!OpenSocket
<1>7. CASE Slack!RefreshRequested
  BY <1>7 DEF Slack!RefreshRequested, Slack!CloseFrame
<1>8. CASE Slack!Stop
  BY <1>8 DEF Slack!Stop, Slack!CloseFrame
<1>9. ASSUME NEW e \in Event, Slack!Envelope(e) PROVE SlackInv'
  BY <1>9 DEF Slack!Envelope
<1> QED BY <1>1, <1>2, <1>3, <1>4, <1>5, <1>6, <1>7, <1>8, <1>9 DEF Slack!Next

LEMMA SlackRests == ASSUME SlackInv, UNCHANGED slackVars PROVE SlackInv'
  BY DEF SlackInv, SlackChain, Slack!TypeOK, Slack!AckedHandled, slackVars

-----------------------------------------------------------------------------
(* Telegram's polling                                                     *)

TelegramInv == Telegram!TypeOK /\ Telegram!ConfirmedDispatched /\ nextOffset <= dispatched

LEMMA TelegramStarts == ASSUME EdgesAssumption, Telegram!Init PROVE TelegramInv
<1>1. running \in BOOLEAN /\ aborted \in BOOLEAN
  BY DEF Telegram!Init
<1> QED
  BY <1>1 DEF EdgesAssumption, Telegram!TelegramAssumption, Telegram!Init, TelegramInv, Telegram!TypeOK,
     Telegram!ConfirmedDispatched

LEMMA TelegramKeeps == ASSUME EdgesAssumption, TelegramInv, Telegram!Next PROVE TelegramInv'
<1>0. MaxUpdates \in Nat
  BY DEF EdgesAssumption, Telegram!TelegramAssumption
<1> USE <1>0 DEF TelegramInv, Telegram!TypeOK, Telegram!ConfirmedDispatched, Telegram!Larger
<1>1. CASE Telegram!Update
  BY <1>1 DEF Telegram!Update
<1>2. CASE Telegram!Initialize
  <2>1. running' \in BOOLEAN /\ aborted' \in BOOLEAN
    BY <1>2 DEF Telegram!Initialize
  <2> QED BY <1>2, <2>1 DEF Telegram!Initialize
<1>3. CASE Telegram!Poll
  BY <1>3 DEF Telegram!Poll
<1>4. CASE Telegram!Answer
  <2> DEFINE covered == Telegram!Larger(confirmed, nextOffset)
  <2>1. PICK n \in covered..updates, throws \in BOOLEAN :
          /\ throws => n > covered
          /\ nextOffset' = IF n > covered THEN n ELSE nextOffset
          /\ dispatched' = IF n > covered THEN Telegram!Larger(dispatched, n) ELSE dispatched
          /\ loop' = IF ~throws THEN "top" ELSE IF aborted THEN "ended" ELSE "sleeping"
    BY <1>4 DEF Telegram!Answer
  <2>2. covered \in 0..MaxUpdates /\ n \in 0..MaxUpdates
    BY <2>1
  <2>3. UNCHANGED <<running, aborted, updates, confirmed>>
    BY <1>4 DEF Telegram!Answer
  <2> HIDE DEF covered
  <2> QED BY <2>1, <2>2, <2>3
<1>5. CASE Telegram!PollFails
  BY <1>5 DEF Telegram!PollFails
<1>6. CASE Telegram!Wake
  BY <1>6 DEF Telegram!Wake
<1>7. CASE Telegram!Shutdown
  BY <1>7 DEF Telegram!Shutdown
<1>8. CASE Telegram!Exit
  <2>1. running' \in BOOLEAN
    BY <1>8 DEF Telegram!Exit
  <2> QED BY <1>8, <2>1 DEF Telegram!Exit
<1> QED BY <1>1, <1>2, <1>3, <1>4, <1>5, <1>6, <1>7, <1>8 DEF Telegram!Next

LEMMA TelegramRests == ASSUME TelegramInv, UNCHANGED telegramVars PROVE TelegramInv'
  BY DEF TelegramInv, Telegram!TypeOK, Telegram!ConfirmedDispatched, telegramVars

-----------------------------------------------------------------------------
(* The device node                                                        *)

\* A connection is known by an id, and an id is mapped to a connection, only once
\* verifyPairing confirmed the two.
NodeInv ==
  /\ Node!TypeOK
  /\ \A c \in Conn : ws[c] = "none" => deviceId[c] = None /\ hello[c] = {}
  /\ \A c \in Conn : deviceId[c] # None => deviceId[c] \in verified[c]
  /\ \A d \in Device : connections[d] # None => d \in verified[connections[d]]
  /\ \A p \in said : p[2] \in verified[p[1]]
  /\ Node!Reachable

LEMMA NodeIsSafe == ASSUME NodeInv PROVE Node!OnlyVerified
  BY DEF NodeInv, Node!OnlyVerified, Node!Reach

LEMMA NodeStarts == ASSUME Node!Init PROVE NodeInv
<1>1. nodeRunning \in BOOLEAN
  BY DEF Node!Init
<1> QED BY <1>1 DEF Node!Init, NodeInv, Node!TypeOK, Node!Reachable

LEMMA NodeKeeps == ASSUME EdgesAssumption, NodeInv, Node!Next PROVE NodeInv'
<1>0. None \notin Conn \cup Device
  BY DEF EdgesAssumption, Node!DeviceAssumption
<1> USE <1>0 DEF NodeInv, Node!TypeOK, Node!Reachable
<1>1. CASE Node!Stop
  <2>1. nodeRunning' = FALSE /\ nodeRunning' \in BOOLEAN
    BY <1>1 DEF Node!Stop
  <2> QED BY <1>1, <2>1 DEF Node!Stop, Node!CloseFrame
<1>2. ASSUME NEW c \in Conn, Node!Accept(c) PROVE NodeInv'
  <2>1. /\ ws[c] = "none" /\ ws' = [ws EXCEPT ![c] = "open"]
        /\ UNCHANGED <<nodeRunning, deviceId, hello, connections, verified, said>>
    BY <1>2 DEF Node!Accept
  <2>2. deviceId[c] = None /\ \A b \in Conn : b # c => ws'[b] = ws[b]
    BY <2>1
  <2>3. Node!Reachable'
    BY <2>1, <2>2
  <2> QED BY <2>1, <2>3
<1>3. ASSUME NEW c \in Conn, NEW d \in Device, Node!Paired(c, d) PROVE NodeInv'
  <2>1. Node!TypeOK'
    BY <1>3 DEF Node!Paired
  <2>2. \A b \in Conn : verified[b] \subseteq verified'[b]
    BY <1>3 DEF Node!Paired
  <2>3. d \in verified'[c] /\ deviceId'[c] = d /\ connections'[d] = c
    BY <1>3 DEF Node!Paired
  <2>4. /\ \A b \in Conn : b # c => deviceId'[b] = deviceId[b]
        /\ \A e \in Device : e # d => connections'[e] = connections[e]
        /\ UNCHANGED <<nodeRunning, ws, said>>
    BY <1>3 DEF Node!Paired
  <2>5. \A b \in Conn : deviceId'[b] # None => deviceId'[b] \in verified'[b]
    BY <2>2, <2>3, <2>4
  <2>6. \A e \in Device : connections'[e] # None => e \in verified'[connections'[e]]
    BY <2>2, <2>3, <2>4
  <2>7. \A p \in said' : p[2] \in verified'[p[1]]
    BY <2>2, <2>4
  <2>8. Node!Reachable'
    BY <2>2, <2>3, <2>4
  <2>9. \A b \in Conn : ws'[b] = "none" => deviceId'[b] = None /\ hello'[b] = {}
    BY <1>3 DEF Node!Paired
  <2> QED BY <2>1, <2>5, <2>6, <2>7, <2>8, <2>9
<1>4. ASSUME NEW c \in Conn, NEW d \in Device, Node!PairFailed(c, d) PROVE NodeInv'
  BY <1>4 DEF Node!PairFailed, Node!CloseFrame
<1>5. ASSUME NEW c \in Conn, Node!Message(c) PROVE NodeInv'
  BY <1>5 DEF Node!Message
<1>6. ASSUME NEW c \in Conn, Node!Close(c) PROVE NodeInv'
  <2>1. /\ ws' = [ws EXCEPT ![c] = "closed"]
        /\ connections' = IF deviceId[c] = None THEN connections
                          ELSE [connections EXCEPT ![deviceId[c]] = None]
        /\ UNCHANGED <<nodeRunning, deviceId, hello, verified, said>>
    BY <1>6 DEF Node!Close
  <2>2. Node!Reachable'
    <3>1. \A b \in Conn : b # c => ws'[b] = ws[b]
      BY <2>1
    <3>2. ws'[c] = "closed"
      BY <2>1
    <3>3. \A e \in Device : connections'[e] = connections[e] \/ (e = deviceId[c] /\ e \in verified[c])
      BY <2>1
    <3> QED BY <2>1, <3>1, <3>2, <3>3
  <2>3. Node!TypeOK' /\ \A e \in Device : connections'[e] \in {connections[e], None}
    BY <2>1
  <2> QED BY <2>1, <2>2, <2>3
<1>7. ASSUME NEW c \in Conn, NEW d \in Device, Node!Hello(c, d) PROVE NodeInv'
  BY <1>7 DEF Node!Hello, Node!CanReceive
<1> QED BY <1>1, <1>2, <1>3, <1>4, <1>5, <1>6, <1>7 DEF Node!Next

LEMMA NodeRests == ASSUME NodeInv, UNCHANGED nodeVars PROVE NodeInv'
  BY DEF NodeInv, Node!TypeOK, Node!Reachable, nodeVars

-----------------------------------------------------------------------------
(* Device authentication                                                  *)

\* What the running gateway holds is what it would load again.
AuthInv ==
  /\ Auth!TypeOK /\ Auth!SessionEarned
  /\ up /\ ~outside => file = [secret |-> secret, devices |-> devices]

LEMMA AuthConstants ==
  ASSUME EdgesAssumption
  PROVE /\ None \notin Device
        /\ ChallengeTtl \in Nat /\ SessionTtl \in Nat /\ MaxTime \in Nat /\ MaxSecrets \in Nat
  BY DEF EdgesAssumption, Auth!AuthAssumption

LEMMA AuthIsSafe == ASSUME AuthInv PROVE Auth!SessionSurvivesRestart
  BY DEF AuthInv, Auth!SessionSurvivesRestart, Auth!Accepted

LEMMA AuthStarts == ASSUME EdgesAssumption, Auth!Init PROVE AuthInv
<1>1. up \in BOOLEAN /\ outside \in BOOLEAN
  BY DEF Auth!Init
<1>2. Auth!TypeOK
  BY <1>1, AuthConstants
  DEF Auth!Init, Auth!TypeOK, Auth!Secret, Auth!Content, Auth!Unreadable, Auth!NoCli, Auth!Record, Auth!Token
<1> QED
  BY <1>2 DEF Auth!Init, AuthInv, Auth!SessionEarned

LEMMA AuthKeeps == ASSUME EdgesAssumption, AuthInv, Auth!Next PROVE AuthInv'
<1> USE AuthConstants DEF AuthInv
<1>0. /\ now \in Nat /\ now \in 0..MaxTime
      /\ issued \subseteq Auth!Token /\ challenges \in [Challenge -> Auth!Record]
      /\ file \in Auth!Content /\ file.secret \in 0..MaxSecrets /\ file.devices \subseteq Device
      /\ file = [secret |-> file.secret, devices |-> file.devices]
      /\ cli.content \in Auth!Content /\ devices \subseteq Device /\ secret \in 0..MaxSecrets
  BY DEF Auth!TypeOK, Auth!Content, Auth!Secret
<1>1. CASE Auth!Start
  <2>1. /\ secret' \in Auth!Secret /\ secrets' \in Auth!Secret /\ file' \in Auth!Content /\ devices' \subseteq Device
        /\ file' = [secret |-> secret', devices |-> devices']
    <3>1. CASE file # Auth!Unreadable
      BY <1>1, <3>1, <1>0 DEF Auth!Start, Auth!TypeOK, Auth!Secret, Auth!Content
    <3>2. CASE file = Auth!Unreadable
      <4>1. /\ secrets < MaxSecrets /\ secrets' = secrets + 1
            /\ secret' = secrets' /\ devices' = {}
            /\ file' = [secret |-> secrets', devices |-> {}]
        BY <1>1, <3>2 DEF Auth!Start
      <4>2. secrets \in 0..MaxSecrets
        BY DEF Auth!TypeOK, Auth!Secret
      <4>3. secrets' \in 0..MaxSecrets
        BY <4>1, <4>2
      <4> QED BY <4>1, <4>3 DEF Auth!Secret, Auth!Content
    <3> QED BY <3>1, <3>2
  <2>2. up' \in BOOLEAN /\ outside' \in BOOLEAN
    BY <1>1 DEF Auth!Start
  <2>3. UNCHANGED <<now, cli, issued>>
    BY <1>1 DEF Auth!Start
  <2>4. challenges' \in [Challenge -> Auth!Record]
    BY <1>0, <1>1 DEF Auth!Start, Auth!Record
  <2>5. \A c \in Challenge :
          /\ challenges'[c].device = challenges[c].device /\ challenges'[c].at = challenges[c].at
          /\ challenges[c].state = "consumed" => challenges'[c].state = "consumed"
    BY <1>0, <1>1 DEF Auth!Start, Auth!Record
  <2>6. Auth!TypeOK'
    BY <2>1, <2>2, <2>3, <2>4 DEF Auth!TypeOK
  <2>7. Auth!SessionEarned'
    BY <1>0, <2>3, <2>5 DEF Auth!SessionEarned, Auth!Token
  <2> QED BY <2>1, <2>6, <2>7
<1>2. CASE Auth!Stop
  <2>1. up' = FALSE /\ up' \in BOOLEAN
    BY <1>2 DEF Auth!Stop
  <2> QED BY <1>2, <2>1 DEF Auth!Stop, Auth!TypeOK, Auth!SessionEarned, Auth!Secret
<1>3. CASE Auth!CrashInPersist
  <2>1. up' = FALSE /\ up' \in BOOLEAN
    BY <1>3 DEF Auth!CrashInPersist
  <2>2. file' \in Auth!Content
    BY <1>3 DEF Auth!CrashInPersist, Auth!Unreadable, Auth!Content, Auth!Secret
  <2> QED BY <1>3, <2>1, <2>2 DEF Auth!CrashInPersist, Auth!TypeOK, Auth!SessionEarned, Auth!Secret
<1>4. CASE Auth!CliWrite
  <2>1. outside' = TRUE /\ outside' \in BOOLEAN
    BY <1>4 DEF Auth!CliWrite
  <2>2. file' \in Auth!Content
    BY <1>0, <1>4 DEF Auth!CliWrite, Auth!Content
  <2>3. cli' \in [device : Device \cup {None}, content : Auth!Content]
    BY <1>4 DEF Auth!CliWrite, Auth!NoCli, Auth!Unreadable, Auth!Content, Auth!Secret
  <2> QED BY <1>4, <2>1, <2>2, <2>3 DEF Auth!CliWrite, Auth!TypeOK, Auth!SessionEarned
<1>5. CASE Auth!Tick
  BY <1>0, <1>5 DEF Auth!Tick, Auth!TypeOK, Auth!SessionEarned
<1>6. ASSUME NEW d \in Device, Auth!Enroll(d) PROVE AuthInv'
  BY <1>6 DEF Auth!Enroll, Auth!Persist, Auth!TypeOK, Auth!SessionEarned, Auth!Content
<1>7. ASSUME NEW d \in Device, Auth!CliLoad(d) PROVE AuthInv'
  BY <1>7 DEF Auth!CliLoad, Auth!TypeOK, Auth!SessionEarned
<1>8. ASSUME NEW c \in Challenge, NEW d \in Device \cup {None}, Auth!IssueChallenge(c, d) PROVE AuthInv'
  <2>1. UNCHANGED <<now, up, secret, devices, file, cli, secrets, issued, outside>>
    BY <1>8 DEF Auth!IssueChallenge
  <2>2. challenges' \in [Challenge -> Auth!Record]
    BY <1>0, <1>8 DEF Auth!IssueChallenge, Auth!Record
  <2>3. \A b \in Challenge : challenges[b].state = "consumed" => challenges'[b] = challenges[b]
    BY <1>0, <1>8 DEF Auth!IssueChallenge
  <2>4. Auth!TypeOK'
    BY <2>1, <2>2 DEF Auth!TypeOK
  <2>5. Auth!SessionEarned'
    BY <1>0, <2>1, <2>3 DEF Auth!SessionEarned, Auth!Token
  <2> QED BY <2>1, <2>4, <2>5
<1>9. ASSUME NEW c \in Challenge, NEW d \in Device, NEW signed \in BOOLEAN, Auth!Assert(c, d, signed)
      PROVE AuthInv'
  <2>1. /\ up /\ challenges[c].state = "pending"
        /\ challenges' = [challenges EXCEPT ![c].state = "consumed"]
        /\ UNCHANGED <<now, up, secret, cli, secrets, outside>>
    BY <1>9 DEF Auth!Assert
  <2>2. challenges' \in [Challenge -> Auth!Record]
    BY <1>0, <2>1 DEF Auth!Record
  <2>3. /\ \A b \in Challenge : b # c => challenges'[b] = challenges[b]
        /\ challenges'[c].state = "consumed"
        /\ challenges'[c].device = challenges[c].device /\ challenges'[c].at = challenges[c].at
    BY <1>0, <2>1
  <2>4. \A t \in issued : t.challenge # c
    BY <2>1 DEF Auth!SessionEarned
  <2>5. CASE Auth!Consumable(c, d) /\ signed
    <3> DEFINE new == [device |-> d, at |-> now, secret |-> secret, challenge |-> c]
    <3>1. /\ issued' = issued \cup {new} /\ devices' = devices
          /\ file' = [secret |-> secret, devices |-> devices]
      BY <1>9, <2>5 DEF Auth!Assert, Auth!Persist
    <3>2. new \in Auth!Token /\ new.challenge = c /\ new.at = now /\ new.device = d
      BY <1>0 DEF Auth!Token, Auth!Secret
    <3>3. now <= challenges[c].at + ChallengeTtl /\ challenges[c].device \in {None, d}
      BY <2>5 DEF Auth!Consumable
    <3>4. \A t \in issued : t.challenge \in Challenge
      BY <1>0 DEF Auth!Token
    <3> HIDE DEF new
    <3>5. Auth!TypeOK'
      BY <1>0, <2>1, <2>2, <3>1, <3>2 DEF Auth!TypeOK, Auth!Content, Auth!Secret
    <3>6. Auth!SessionEarned'
      BY <2>3, <2>4, <3>1, <3>2, <3>3, <3>4 DEF Auth!SessionEarned
    <3> QED BY <2>1, <3>1, <3>5, <3>6
  <2>6. CASE ~(Auth!Consumable(c, d) /\ signed)
    <3>1. UNCHANGED <<devices, file, issued>>
      BY <1>9, <2>6 DEF Auth!Assert
    <3>2. \A t \in issued : t.challenge \in Challenge
      BY <1>0 DEF Auth!Token
    <3> QED BY <2>1, <2>2, <2>3, <2>4, <3>1, <3>2 DEF Auth!TypeOK, Auth!SessionEarned
  <2> QED BY <2>5, <2>6
<1> QED BY <1>1, <1>2, <1>3, <1>4, <1>5, <1>6, <1>7, <1>8, <1>9 DEF Auth!Next

LEMMA AuthRests == ASSUME AuthInv, UNCHANGED authVars PROVE AuthInv'
  BY DEF AuthInv, Auth!TypeOK, Auth!SessionEarned, authVars

-----------------------------------------------------------------------------
(* The rate limiter                                                       *)

\* What take() keeps: the units given out and the units left together never
\* exceed what the bucket has held since it was first seen.
Conserved(k) ==
  /\ bucket[k].seen =>
       Cost * granted[k] + bucket[k].tokens <= Capacity + Rate * bucket[k].last
  /\ ~bucket[k].seen => granted[k] = 0

LimiterInv ==
  /\ Limiter!TypeOK
  /\ clock <= latest
  /\ \A k \in Key : Conserved(k)
  /\ Limiter!RateBounded

\* Products that SMT should not have to expand.
LEMMA Distributes ==
  ASSUME NEW r \in Nat, NEW a \in Int, NEW b \in Int
  PROVE r * (a - b) = r * a - r * b /\ r * a \in Int /\ r * b \in Int
OBVIOUS

LEMMA OneMore ==
  ASSUME NEW c \in Nat, NEW g \in Nat
  PROVE c * (g + 1) = c * g + c /\ c * g \in Nat /\ c * (g + 1) \in Nat
OBVIOUS

LEMMA Grows ==
  ASSUME NEW r \in Nat, NEW a \in Nat, NEW b \in Nat, a <= b
  PROVE r * a <= r * b
<1>1. PICK d \in Nat : b = a + d
  BY b - a \in Nat
<1>2. r * d \in Nat /\ r * b = r * a + r * d /\ r * a \in Nat
  BY <1>1
<1> QED
  BY <1>2

LEMMA LimiterConstants ==
  ASSUME EdgesAssumption
  PROVE Capacity \in Nat /\ Rate \in Nat /\ Cost \in Nat /\ MaxTime \in Nat
  BY DEF EdgesAssumption, Limiter!RateAssumption

LEMMA LimiterStarts == ASSUME EdgesAssumption, Limiter!Init PROVE LimiterInv
<1>1. Cost * 0 = 0 /\ Rate * 0 = 0
  BY LimiterConstants
<1> QED
  BY <1>1, LimiterConstants DEF Limiter!Init, LimiterInv, Limiter!TypeOK, Conserved, Limiter!RateBounded, Limiter!Bucket

\* take(): whatever the clock did meanwhile, the refill telescopes.
LEMMA TakeConserves ==
  ASSUME EdgesAssumption, LimiterInv, NEW k \in Key, Limiter!Take(k) PROVE LimiterInv'
<1> DEFINE b == Limiter!Seen(k)  g == granted[k]  r == Limiter!Refilled(k)
<1>1. b \in Limiter!Bucket /\ g \in Nat /\ clock \in Nat /\ latest \in Nat /\ b.seen
  BY LimiterConstants DEF LimiterInv, Limiter!TypeOK, Limiter!Seen, Limiter!Bucket
<1>2. Cost * g \in Nat /\ Rate * b.last \in Int /\ Rate * clock \in Int /\ Rate * latest \in Nat
  BY <1>1, OneMore, Distributes, LimiterConstants DEF Limiter!Bucket
<1>3. Cost * g + b.tokens <= Capacity + Rate * b.last
  <2>1. CASE bucket[k].seen
    BY <2>1 DEF Limiter!Seen, LimiterInv, Conserved
  <2>2. CASE ~bucket[k].seen
    <3>1. g = 0 /\ b.tokens = Capacity /\ b.last = clock
      BY <2>2 DEF Limiter!Seen, LimiterInv, Conserved
    <3>2. Cost * g = 0 /\ Rate * clock >= 0
      BY <3>1, <1>1, LimiterConstants
    <3> QED
      BY <3>1, <3>2, <1>2, LimiterConstants
  <2> QED
    BY <2>1, <2>2
<1>4. Rate * (clock - b.last) = Rate * clock - Rate * b.last
  BY <1>1, Distributes, LimiterConstants DEF Limiter!Bucket
<1>5. r \in Int /\ r <= b.tokens + Rate * (clock - b.last)
  BY <1>1, <1>2, <1>4, LimiterConstants DEF Limiter!Refilled, Limiter!Lesser, Limiter!Bucket
<1>6. Cost * g + r <= Capacity + Rate * clock
  BY <1>1, <1>2, <1>3, <1>4, <1>5, LimiterConstants DEF Limiter!Bucket
<1>7. Rate * clock <= Rate * latest
  BY <1>1, Grows, LimiterConstants DEF LimiterInv
<1>8. ASSUME NEW o \in Key, o # k
      PROVE bucket'[o] = bucket[o] /\ granted'[o] = granted[o]
  BY <1>8 DEF Limiter!Take, LimiterInv, Limiter!TypeOK
<1>9. clock' = clock /\ latest' = latest
  BY DEF Limiter!Take
<1>10. CASE r >= Cost
  <2>1. granted' = [granted EXCEPT ![k] = g + 1]
        /\ bucket' = [bucket EXCEPT ![k] = [seen |-> TRUE, tokens |-> r - Cost, last |-> clock]]
    BY <1>10 DEF Limiter!Take
  <2>2. Cost * (g + 1) = Cost * g + Cost /\ Cost * (g + 1) \in Nat
    BY <1>1, OneMore, LimiterConstants
  <2>3. Cost * (g + 1) <= Capacity + Rate * latest
    BY <2>2, <1>2, <1>5, <1>6, <1>7, <1>10, LimiterConstants
  <2>4. Cost * (g + 1) + (r - Cost) <= Capacity + Rate * clock
    BY <2>2, <1>2, <1>5, <1>6, LimiterConstants
  <2>5. Limiter!TypeOK'
    BY <2>1, <1>1, <1>5, <1>9, LimiterConstants DEF LimiterInv, Limiter!TypeOK, Limiter!Bucket
  <2>6. granted'[k] = g + 1 /\ bucket'[k] = [seen |-> TRUE, tokens |-> r - Cost, last |-> clock]
    BY <2>1 DEF LimiterInv, Limiter!TypeOK
  <2> QED
    BY <2>3, <2>4, <2>5, <2>6, <1>8, <1>9 DEF LimiterInv, Conserved, Limiter!RateBounded
<1>11. CASE ~(r >= Cost)
  <2>1. granted' = granted
        /\ bucket' = [bucket EXCEPT ![k] = [seen |-> TRUE, tokens |-> r, last |-> clock]]
    BY <1>11 DEF Limiter!Take
  <2>2. Limiter!TypeOK'
    BY <2>1, <1>1, <1>5, <1>9, LimiterConstants DEF LimiterInv, Limiter!TypeOK, Limiter!Bucket
  <2>3. granted'[k] = g /\ bucket'[k] = [seen |-> TRUE, tokens |-> r, last |-> clock]
    BY <2>1 DEF LimiterInv, Limiter!TypeOK
  <2> QED
    BY <2>1, <2>2, <2>3, <1>6, <1>8, <1>9 DEF LimiterInv, Conserved, Limiter!RateBounded
<1> QED
  BY <1>10, <1>11

LEMMA ClockConserves ==
  ASSUME EdgesAssumption, LimiterInv, NEW t \in 0..MaxTime, Limiter!Clock(t) PROVE LimiterInv'
<1>1. clock' \in 0..MaxTime /\ latest' \in 0..MaxTime /\ clock' <= latest' /\ latest <= latest'
  BY LimiterConstants DEF LimiterInv, Limiter!TypeOK, Limiter!Clock
<1>2. Rate * latest <= Rate * latest' /\ Rate * latest \in Int /\ Rate * latest' \in Int
  <2>1. latest \in Nat /\ latest' \in Nat
    BY <1>1, LimiterConstants DEF LimiterInv, Limiter!TypeOK
  <2>2. Rate * latest <= Rate * latest'
    BY <1>1, <2>1, Grows, LimiterConstants
  <2>3. Rate * latest \in Int /\ Rate * latest' \in Int
    BY <2>1, LimiterConstants
  <2> QED
    BY <2>2, <2>3
<1>3. \A k \in Key : Cost * granted[k] \in Nat
  BY OneMore, LimiterConstants DEF LimiterInv, Limiter!TypeOK
<1>4. Limiter!RateBounded'
  BY <1>2, <1>3, LimiterConstants DEF LimiterInv, Limiter!RateBounded, Limiter!Clock
<1> QED
  BY <1>1, <1>4 DEF LimiterInv, Limiter!TypeOK, Conserved, Limiter!Clock


LEMMA LimiterKeeps == ASSUME EdgesAssumption, LimiterInv, Limiter!Next PROVE LimiterInv'
<1>1. ASSUME NEW k \in Key, Limiter!Take(k) PROVE LimiterInv'
  BY <1>1, TakeConserves
<1>2. ASSUME NEW t \in 0..MaxTime, Limiter!Clock(t) PROVE LimiterInv'
  BY <1>2, ClockConserves
<1> QED BY <1>1, <1>2 DEF Limiter!Next

LEMMA LimiterRests == ASSUME LimiterInv, UNCHANGED limiterVars PROVE LimiterInv'
  BY DEF LimiterInv, Limiter!TypeOK, Conserved, Limiter!RateBounded, limiterVars

-----------------------------------------------------------------------------
(* The browser's client                                                   *)

Used(s) == page[s] # "unused"
Closed == {s \in Browser!Opening : page[s] = "closed"}

\* Browser!SentCanBeAnswered, of a socket there is.
Answerable ==
  \A c \in Call : call[c].state = "sent" =>
    call[c].on \in Browser!Opening /\ page[call[c].on] \in {"open", "closing"}

\* The runs are made in their order; a reconnect under way is a timer or the run that was
\* made last, which has no socket that opened; every timer is of a socket that closed;
\* and a socket that was made has once been this.ws.
BrowserInv ==
  /\ Browser!TypeOK /\ Answerable
  /\ \A s, o \in Browser!Opening : Used(s) /\ o < s => Used(o)
  /\ status = "reconnecting" =>
       \/ timers > 0
       \/ \E s \in Browser!Opening :
            /\ page[s] \in {"token", "connecting", "failed"}
            /\ \A o \in Browser!Opening : o > s => ~Used(o)
  /\ timers <= Cardinality(Closed)
  /\ \A s \in Browser!Opening : page[s] = "connecting" => pageWs # 0

LEMMA BrowserConstants ==
  ASSUME EdgesAssumption PROVE MaxSockets \in Nat /\ MaxAttempts \in Nat
  BY DEF EdgesAssumption, Browser!BrowserAssumption

LEMMA BrowserIsSafe == ASSUME EdgesAssumption, BrowserInv PROVE Browser!SentCanBeAnswered /\ Browser!ReconnectGoesOn
<1>0. Browser!SentCanBeAnswered
  BY DEF BrowserInv, Answerable, Browser!SentCanBeAnswered
<1>1. SUFFICES ASSUME status = "reconnecting", ~(timers > 0)
               PROVE \/ \E s \in Browser!Opening : page[s] \in {"token", "connecting"}
                     \/ \E s \in Browser!Opening :
                          page[s] = "failed" /\ \A o \in (s + 1)..MaxSockets : page[o] = "unused"
  BY <1>0 DEF Browser!ReconnectGoesOn
<1>2. PICK s \in Browser!Opening : /\ page[s] \in {"token", "connecting", "failed"}
                                   /\ \A o \in Browser!Opening : o > s => ~Used(o)
  BY <1>1 DEF BrowserInv
<1>3. \A o \in (s + 1)..MaxSockets : o \in Browser!Opening /\ o > s
  BY BrowserConstants DEF Browser!Opening
<1> QED BY <1>2, <1>3 DEF Used

\* The sockets that closed are as many as they were, or one more.
LEMMA ClosedIsFinite ==
  ASSUME EdgesAssumption PROVE /\ IsFiniteSet(Closed) /\ Cardinality(Closed) \in 0..MaxSockets
                               /\ IsFiniteSet(Browser!Opening)
<1>1. IsFiniteSet(1..MaxSockets) /\ Cardinality(1..MaxSockets) = MaxSockets
  BY BrowserConstants, FS_Interval
<1>2. Closed \subseteq 1..MaxSockets
  BY DEF Closed, Browser!Opening
<1>3. IsFiniteSet(Closed) /\ Cardinality(Closed) <= MaxSockets
  BY <1>1, <1>2, FS_Subset
<1>4. Cardinality(Closed) \in Nat
  BY <1>3, FS_CardinalityType
<1> QED BY <1>1, <1>3, <1>4, BrowserConstants DEF Browser!Opening

\* A run that is made is the last one.
LEMMA OpenOnceIsLast ==
  ASSUME EdgesAssumption, BrowserInv, NEW s \in Browser!Opening, Browser!OpenOnce(s)
  PROVE /\ page' \in [Browser!Opening -> Browser!SocketState]
        /\ page'[s] = "token" /\ \A o \in Browser!Opening : o # s => page'[o] = page[o]
        /\ page[s] = "unused"
        /\ \A o \in Browser!Opening : o > s => ~Used(o)'
        /\ \A o, p \in Browser!Opening : Used(o)' /\ p < o => Used(p)'
        /\ Closed' = Closed
        /\ status' \in {"connecting", "reconnecting"}
<1> USE BrowserConstants
<1>1. /\ page[s] = "unused" /\ \A o \in 1..(s - 1) : Used(o)
      /\ page' = [page EXCEPT ![s] = "token"]
      /\ status' \in {"connecting", "reconnecting"}
  BY DEF Browser!OpenOnce, Used
<1>2. page \in [Browser!Opening -> Browser!SocketState]
  BY DEF BrowserInv, Browser!TypeOK
<1>3. /\ page' \in [Browser!Opening -> Browser!SocketState]
      /\ page'[s] = "token" /\ \A o \in Browser!Opening : o # s => page'[o] = page[o]
  BY <1>1, <1>2 DEF Browser!SocketState
<1>4. \A o \in Browser!Opening : o > s => ~Used(o)
  BY <1>1 DEF BrowserInv, Used
<1>5. \A p \in Browser!Opening : p < s => Used(p)
  BY <1>1 DEF Browser!Opening
<1>6. \A o \in Browser!Opening : Used(o)' <=> Used(o) \/ o = s
  BY <1>3 DEF Used
<1>7. \A o \in Browser!Opening : o > s => ~Used(o)'
  BY <1>4, <1>6 DEF Browser!Opening
<1>8. ASSUME NEW o \in Browser!Opening, NEW p \in Browser!Opening, Used(o)', p < o PROVE Used(p)'
  BY <1>5, <1>6, <1>8 DEF BrowserInv
<1>9. Closed' = Closed
  BY <1>1, <1>3 DEF Closed
<1> QED BY <1>1, <1>3, <1>7, <1>8, <1>9

LEMMA BrowserStarts == ASSUME EdgesAssumption, Browser!Init PROVE BrowserInv
<1>1. closedByCaller \in BOOLEAN
  BY DEF Browser!Init
<1>2. Cardinality(Closed) \in 0..MaxSockets
  BY ClosedIsFinite
<1>3. Browser!TypeOK
  BY <1>1, BrowserConstants DEF Browser!Init, Browser!TypeOK, Browser!SocketState
<1> QED
  BY <1>2, <1>3, BrowserConstants DEF Browser!Init, BrowserInv, Answerable, Used

LEMMA BrowserKeeps == ASSUME EdgesAssumption, BrowserInv, Browser!Next PROVE BrowserInv'
<1> USE BrowserConstants
<1>0. /\ page \in [Browser!Opening -> Browser!SocketState]
      /\ call \in [Call -> [state : {"unused", "waiting", "sent", "dropped", "settled"}, on : 0..MaxSockets]]
      /\ pageWs \in 0..MaxSockets /\ ready \in 0..MaxSockets /\ attempt \in 0..MaxAttempts
      /\ timers \in 0..MaxSockets
      /\ closedByCaller \in BOOLEAN
      /\ \A o \in Browser!Opening : o \in 0..MaxSockets /\ o \in Nat
  BY DEF BrowserInv, Browser!TypeOK, Browser!Opening
<1>1. ASSUME NEW c \in Call, Browser!Begin(c) PROVE BrowserInv'
  <2>1. UNCHANGED <<pageWs, attempt, closedByCaller, timers>>
    BY <1>1 DEF Browser!Begin
  <2>2. CASE Browser!IsOpen
    <3>1. call' = [call EXCEPT ![c] = [state |-> "sent", on |-> pageWs]] /\ UNCHANGED <<page, status, ready>>
      BY <1>1, <2>2 DEF Browser!Begin
    <3>2. pageWs \in Browser!Opening /\ page[pageWs] = "open"
      BY <1>0, <2>2 DEF Browser!IsOpen, Browser!Opening
    <3> QED
      BY <1>0, <2>1, <3>1, <3>2 DEF BrowserInv, Browser!TypeOK, Answerable, Used, Closed
  <2>3. CASE ~Browser!IsOpen /\ ready # 0
    <3>1. call' = [call EXCEPT ![c] = [state |-> "waiting", on |-> ready]] /\ UNCHANGED <<page, status, ready>>
      BY <1>1, <2>3 DEF Browser!Begin
    <3> QED
      BY <1>0, <2>1, <3>1 DEF BrowserInv, Browser!TypeOK, Answerable, Used, Closed
  <2>4. CASE ~Browser!IsOpen /\ ready = 0
    <3>1. PICK s \in Browser!Opening :
            /\ Browser!OpenOnce(s) /\ ready' = s
            /\ call' = [call EXCEPT ![c] = [state |-> "waiting", on |-> s]]
      BY <1>1, <2>4 DEF Browser!Begin
    <3>2. /\ page' \in [Browser!Opening -> Browser!SocketState]
          /\ page'[s] = "token" /\ \A o \in Browser!Opening : o # s => page'[o] = page[o]
          /\ page[s] = "unused"
          /\ \A o \in Browser!Opening : o > s => ~Used(o)'
          /\ \A o, p \in Browser!Opening : Used(o)' /\ p < o => Used(p)'
          /\ Closed' = Closed
          /\ status' \in {"connecting", "reconnecting"}
      BY <3>1, OpenOnceIsLast
    <3>3. Browser!TypeOK'
      BY <1>0, <2>1, <3>1, <3>2 DEF BrowserInv, Browser!TypeOK
    <3>4. Answerable'
      BY <1>0, <3>1, <3>2 DEF BrowserInv, Answerable
    <3> QED
      BY <2>1, <3>2, <3>3, <3>4 DEF BrowserInv
  <2> QED BY <2>2, <2>3, <2>4
<1>2. ASSUME NEW c \in Call, Browser!Settle(c) PROVE BrowserInv'
  BY <1>0, <1>2 DEF Browser!Settle, Browser!Sent, BrowserInv, Browser!TypeOK, Answerable, Used, Closed
<1>3. ASSUME NEW s \in Browser!Opening, Browser!TokenGiven(s) PROVE BrowserInv'
  <2>1. /\ page[s] = "token" /\ page' = [page EXCEPT ![s] = "connecting"] /\ pageWs' = s
        /\ UNCHANGED <<ready, attempt, closedByCaller, status, timers, call>>
    BY <1>3 DEF Browser!TokenGiven
  <2>2. /\ page' \in [Browser!Opening -> Browser!SocketState]
        /\ page'[s] = "connecting" /\ \A o \in Browser!Opening : o # s => page'[o] = page[o]
        /\ s # 0
    BY <1>0, <2>1 DEF Browser!SocketState, Browser!Opening
  <2>3. Closed' = Closed /\ \A o \in Browser!Opening : Used(o)' <=> Used(o)
    BY <2>1, <2>2 DEF Closed, Used
  <2>4. Browser!TypeOK' /\ Answerable'
    BY <1>0, <2>1, <2>2 DEF BrowserInv, Browser!TypeOK, Answerable
  <2> QED BY <2>1, <2>2, <2>3, <2>4 DEF BrowserInv
<1>4. ASSUME NEW s \in Browser!Opening, Browser!TokenFails(s) PROVE BrowserInv'
  <2>1. /\ page[s] = "token" /\ page' = [page EXCEPT ![s] = "failed"]
        /\ ready' = IF ready = s THEN 0 ELSE ready
        /\ call' = [c \in Call |-> IF call[c].state = "waiting" /\ call[c].on = s
                                   THEN [state |-> "settled", on |-> s] ELSE call[c]]
        /\ UNCHANGED <<pageWs, attempt, closedByCaller, status, timers>>
    BY <1>4 DEF Browser!TokenFails, Browser!Reject, Browser!Calls
  <2>2. /\ page' \in [Browser!Opening -> Browser!SocketState]
        /\ page'[s] = "failed" /\ \A o \in Browser!Opening : o # s => page'[o] = page[o]
    BY <1>0, <2>1 DEF Browser!SocketState, Browser!Opening
  <2>3. Closed' = Closed /\ \A o \in Browser!Opening : Used(o)' <=> Used(o)
    BY <2>1, <2>2 DEF Closed, Used
  <2>4. Browser!TypeOK' /\ Answerable'
    BY <1>0, <2>1, <2>2 DEF BrowserInv, Browser!TypeOK, Answerable
  <2> QED BY <2>1, <2>2, <2>3, <2>4 DEF BrowserInv
<1>5. ASSUME NEW s \in Browser!Opening, Browser!Opened(s) PROVE BrowserInv'
  <2>1. /\ page[s] = "connecting" /\ page' = [page EXCEPT ![s] = "open"]
        /\ attempt' = 0 /\ status' = "open"
        /\ ready' = IF ready = s THEN 0 ELSE ready
        /\ UNCHANGED <<pageWs, closedByCaller, timers>>
    BY <1>5 DEF Browser!Opened
  <2>2. /\ page' \in [Browser!Opening -> Browser!SocketState]
        /\ page'[s] = "open" /\ \A o \in Browser!Opening : o # s => page'[o] = page[o]
        /\ pageWs \in Browser!Opening
    BY <1>0, <2>1 DEF BrowserInv, Browser!SocketState, Browser!Opening
  <2>3. PICK st \in {"sent", "settled", "dropped"} :
          /\ st = "sent" => page'[pageWs] = "open"
          /\ call' = [c \in Call |-> IF call[c].state = "waiting" /\ call[c].on = s
                                     THEN [state |-> st, on |-> pageWs] ELSE call[c]]
    <3>1. CASE page'[pageWs] = "open"
      BY <1>5, <3>1 DEF Browser!Opened, Browser!Calls
    <3>2. CASE page'[pageWs] = "connecting"
      BY <1>5, <3>2 DEF Browser!Opened, Browser!Calls
    <3>3. CASE page'[pageWs] # "open" /\ page'[pageWs] # "connecting"
      BY <1>5, <3>3 DEF Browser!Opened, Browser!Calls
    <3> QED BY <3>1, <3>2, <3>3
  <2>4. Closed' = Closed /\ \A o \in Browser!Opening : Used(o)' <=> Used(o)
    BY <2>1, <2>2 DEF Closed, Used
  <2>5. Browser!TypeOK'
    BY <1>0, <2>1, <2>2, <2>3 DEF BrowserInv, Browser!TypeOK
  <2>6. Answerable'
    BY <1>0, <2>1, <2>2, <2>3 DEF BrowserInv, Answerable
  <2> QED BY <2>1, <2>2, <2>4, <2>5, <2>6 DEF BrowserInv
<1>6. ASSUME NEW s \in Browser!Opening, Browser!SocketCloses(s) PROVE BrowserInv'
  <2>1. /\ page[s] \in {"connecting", "open", "closing"} /\ page' = [page EXCEPT ![s] = "closed"]
        /\ UNCHANGED <<pageWs, closedByCaller>>
    BY <1>6 DEF Browser!SocketCloses
  <2>2. /\ page' \in [Browser!Opening -> Browser!SocketState]
        /\ page'[s] = "closed" /\ \A o \in Browser!Opening : o # s => page'[o] = page[o]
    BY <1>0, <2>1 DEF Browser!SocketState, Browser!Opening
  <2>3. \A o \in Browser!Opening : Used(o)' <=> Used(o)
    BY <2>1, <2>2 DEF Used
  <2>4. Closed' = Closed \cup {s} /\ s \notin Closed
    BY <2>1, <2>2 DEF Closed
  <2>5. Cardinality(Closed') = Cardinality(Closed) + 1 /\ Cardinality(Closed) \in Nat
    BY <2>4, ClosedIsFinite, FS_AddElement, FS_CardinalityType
  <2>6. Cardinality(Closed') \in 0..MaxSockets
    <3>1. Closed' \subseteq 1..MaxSockets
      BY DEF Closed, Browser!Opening
    <3>2. IsFiniteSet(1..MaxSockets) /\ Cardinality(1..MaxSockets) = MaxSockets
      BY FS_Interval
    <3>3. Cardinality(Closed') <= MaxSockets
      BY <3>1, <3>2, FS_Subset
    <3> QED BY <2>5, <3>3
  <2>7. /\ status' \in {"closed", "reconnecting"} /\ ready' \in 0..MaxSockets
        /\ attempt' \in 0..MaxAttempts
        /\ timers' \in {timers, timers + 1} /\ (status' = "reconnecting" => timers' = timers + 1)
        /\ call' \in [Call -> [state : {"unused", "waiting", "sent", "dropped", "settled"}, on : 0..MaxSockets]]
        /\ \A c \in Call : call'[c].state # "sent"
    <3>1. Browser!HandleClose(s)
      BY <1>6 DEF Browser!SocketCloses
    <3>2. CASE closedByCaller
      BY <1>0, <3>1, <3>2 DEF Browser!HandleClose, Browser!Calls, Browser!Sent
    <3>3. CASE ~closedByCaller /\ attempt >= MaxAttempts
      BY <1>0, <3>1, <3>3 DEF Browser!HandleClose, Browser!Calls, Browser!Sent
    <3>4. CASE ~closedByCaller /\ attempt < MaxAttempts
      BY <1>0, <3>1, <3>4 DEF Browser!HandleClose, Browser!Calls, Browser!Sent
    <3> QED BY <1>0, <3>2, <3>3, <3>4
  <2>8. timers' <= Cardinality(Closed') /\ timers' \in 0..MaxSockets
    <3>1. timers <= Cardinality(Closed) /\ timers \in Nat
      BY <1>0 DEF BrowserInv
    <3> QED BY <2>5, <2>6, <2>7, <3>1
  <2>9. Browser!TypeOK'
    BY <1>0, <2>1, <2>2, <2>7, <2>8 DEF Browser!TypeOK
  <2>10. status' = "reconnecting" => timers' > 0
    BY <1>0, <2>7
  <2> QED BY <2>1, <2>2, <2>3, <2>7, <2>8, <2>9, <2>10 DEF BrowserInv, Answerable
<1>7. CASE Browser!TimerFires
  <2>1. PICK s \in Browser!Opening : Browser!OpenOnce(s)
    BY <1>7 DEF Browser!TimerFires
  <2>2. timers > 0 /\ timers' = timers - 1 /\ UNCHANGED <<pageWs, ready, attempt, closedByCaller, call>>
    BY <1>7 DEF Browser!TimerFires
  <2>3. /\ page' \in [Browser!Opening -> Browser!SocketState]
        /\ page'[s] = "token" /\ \A o \in Browser!Opening : o # s => page'[o] = page[o]
        /\ page[s] = "unused"
        /\ \A o \in Browser!Opening : o > s => ~Used(o)'
        /\ \A o, p \in Browser!Opening : Used(o)' /\ p < o => Used(p)'
        /\ Closed' = Closed
        /\ status' \in {"connecting", "reconnecting"}
    BY <2>1, OpenOnceIsLast
  <2>4. Browser!TypeOK'
    BY <1>0, <2>2, <2>3 DEF BrowserInv, Browser!TypeOK
  <2>5. Answerable'
    BY <1>0, <2>2, <2>3 DEF BrowserInv, Answerable
  <2>6. timers' <= Cardinality(Closed')
    BY <1>0, <2>2, <2>3, ClosedIsFinite DEF BrowserInv
  <2> QED BY <2>2, <2>3, <2>4, <2>5, <2>6 DEF BrowserInv
<1>8. CASE Browser!Close
  <2>1. closedByCaller' = TRUE /\ closedByCaller' \in BOOLEAN
    BY <1>8 DEF Browser!Close
  <2>2. status' = "closed" /\ UNCHANGED <<pageWs, ready, attempt, timers, call>>
    BY <1>8 DEF Browser!Close
  <2>3. /\ page' \in [Browser!Opening -> Browser!SocketState]
        /\ \A o \in Browser!Opening : page'[o] = page[o] \/ (page[o] \in {"connecting", "open"} /\ page'[o] = "closing")
    BY <1>0, <1>8 DEF Browser!Close, Browser!SocketState
  <2>4. Closed' = Closed /\ \A o \in Browser!Opening : Used(o)' <=> Used(o)
    BY <2>3 DEF Closed, Used
  <2>5. Browser!TypeOK'
    BY <1>0, <2>1, <2>2, <2>3 DEF BrowserInv, Browser!TypeOK
  <2>6. Answerable'
    <3> SUFFICES ASSUME NEW c \in Call, call[c].state = "sent" PROVE call[c].on \in Browser!Opening /\ page'[call[c].on] \in {"open", "closing"}
      BY <2>2 DEF Answerable
    <3>1. call[c].on \in Browser!Opening /\ page[call[c].on] \in {"open", "closing"}
      BY DEF BrowserInv, Answerable
    <3> QED BY <1>0, <1>8, <3>1 DEF Browser!Close
  <2> QED BY <2>2, <2>3, <2>4, <2>5, <2>6 DEF BrowserInv
<1> QED BY <1>1, <1>2, <1>3, <1>4, <1>5, <1>6, <1>7, <1>8 DEF Browser!Next

LEMMA BrowserRests == ASSUME BrowserInv, UNCHANGED browserVars PROVE BrowserInv'
  BY DEF BrowserInv, Browser!TypeOK, Answerable, Used, Closed, browserVars

-----------------------------------------------------------------------------
(* The page: its chat and its polling                                     *)

RequestState == {"new", "running", "timed out", "forgotten", "over"}

ChatTypes ==
  /\ request \in [Send -> RequestState] /\ got \in [Send -> SUBSET Send]
  /\ busy \in Send \cup {None} /\ streaming \in {busy, None}
  /\ unfinished \subseteq turns /\ turns \subseteq Send
  /\ \A r \in Send : request[r] = "running" <=> busy = r

\* A poll or a timer of the poller is one chain, which it hands on; a timer that is no
\* longer known is of a kick that came while a poll was under way.
PollTypes ==
  /\ attached \in BOOLEAN /\ visible \in BOOLEAN /\ online \in BOOLEAN /\ tracked \in BOOLEAN
  /\ overlaps \in 0..MaxChains
  /\ ticks \in Nat /\ strays \in Nat /\ strays <= overlaps

PageInv == ChatTypes /\ Page!TextIsOwn /\ PollTypes /\ Page!PollingGoesOn

LEMMA PageConstants == ASSUME EdgesAssumption PROVE None \notin Send /\ MaxChains \in Nat
  BY DEF EdgesAssumption, Page!PageAssumption

LEMMA PageIsSafe == ASSUME EdgesAssumption, PageInv PROVE Page!TypeOK
<1>1. ticks + strays \in 0..MaxChains + 1
  <2>1. /\ ticks \in Nat /\ strays \in Nat /\ MaxChains \in Nat /\ overlaps \in 0..MaxChains
        /\ Page!Chains <= 1 + overlaps
    BY PageConstants DEF PageInv, PollTypes, Page!PollingGoesOn
  <2>2. CASE tracked
    BY <2>1, <2>2 DEF Page!Chains
  <2>3. CASE ~tracked
    BY <2>1, <2>3 DEF Page!Chains
  <2> QED BY <2>2, <2>3
<1> QED BY <1>1 DEF PageInv, ChatTypes, PollTypes, Page!TypeOK

LEMMA PageStarts == ASSUME EdgesAssumption, Page!Init PROVE PageInv
<1>1. PollTypes
  <2>1. attached \in BOOLEAN /\ visible \in BOOLEAN /\ online \in BOOLEAN /\ tracked \in BOOLEAN
    BY DEF Page!Init
  <2> QED BY <2>1, PageConstants DEF PollTypes, Page!Init
<1>2. Page!PollingGoesOn
  <2>1. Page!Chains = 0 /\ ~attached /\ overlaps = 0
    BY DEF Page!Init, Page!Chains
  <2> QED BY <2>1 DEF Page!PollingGoesOn
<1>3. ChatTypes /\ Page!TextIsOwn
  BY PageConstants DEF ChatTypes, RequestState, Page!TextIsOwn, Page!Init
<1> QED BY <1>1, <1>2, <1>3 DEF PageInv

LEMMA ChatRests ==
  ASSUME ChatTypes, Page!TextIsOwn, UNCHANGED Page!chatVars PROVE ChatTypes' /\ Page!TextIsOwn'
  BY DEF ChatTypes, Page!TextIsOwn, Page!chatVars

LEMMA PollRests ==
  ASSUME PollTypes, Page!PollingGoesOn, UNCHANGED Page!pollVars PROVE PollTypes' /\ Page!PollingGoesOn'
  BY DEF PollTypes, Page!PollingGoesOn, Page!Chains, Page!pollVars

\* The send that is under way ends.
LEMMA FinishKeeps ==
  ASSUME EdgesAssumption, ChatTypes, Page!TextIsOwn, NEW r \in Send, NEW state \in {"over", "timed out"},
         request[r] = "running", Page!Finish(r, state), UNCHANGED <<turns, got>>
  PROVE ChatTypes' /\ Page!TextIsOwn'
<1>1. /\ request' = [request EXCEPT ![r] = state]
      /\ unfinished' = unfinished \ {r} /\ streaming' = None /\ busy' = None /\ phase' = None
  BY DEF Page!Finish
<1>2. busy = r
  BY DEF ChatTypes
<1>3. request' \in [Send -> RequestState] /\ \A q \in Send : q # r => request'[q] = request[q]
  BY <1>1 DEF ChatTypes, RequestState
<1>4. \A q \in Send : request'[q] # "running"
  BY <1>1, <1>2, <1>3 DEF ChatTypes
<1>5. ChatTypes'
  BY <1>1, <1>3, <1>4, PageConstants DEF ChatTypes
<1>6. \A q \in Send : request[q] \in {"timed out", "forgotten"} => request'[q] \in {"timed out", "forgotten"}
  BY <1>3
<1> QED BY <1>1, <1>2, <1>5, <1>6 DEF Page!TextIsOwn, ChatTypes

LEMMA ChatKeeps ==
  ASSUME EdgesAssumption, ChatTypes, Page!TextIsOwn, Page!ChatStep PROVE ChatTypes' /\ Page!TextIsOwn'
<1> USE PageConstants
<1>1. ASSUME NEW r \in Send, Page!SendText(r) PROVE ChatTypes' /\ Page!TextIsOwn'
  <2>1. /\ request[r] = "new" /\ busy = None
        /\ request' = [request EXCEPT ![r] = "running"]
        /\ busy' = r /\ streaming' = r
        /\ turns' = turns \cup {r} /\ unfinished' = unfinished \cup {r}
        /\ UNCHANGED <<phase, got>>
    BY <1>1 DEF Page!SendText
  <2>2. request' \in [Send -> RequestState] /\ request'[r] = "running"
        /\ \A q \in Send : q # r => request'[q] = request[q]
    BY <2>1 DEF ChatTypes, RequestState
  <2>3. ChatTypes'
    BY <2>1, <2>2 DEF ChatTypes
  <2>4. unfinished = {}
    BY <2>1 DEF Page!TextIsOwn, ChatTypes
  <2>5. \A q \in Send : request[q] \in {"timed out", "forgotten"} => request'[q] \in {"timed out", "forgotten"}
    BY <2>1, <2>2
  <2> QED BY <2>1, <2>3, <2>4, <2>5 DEF Page!TextIsOwn
<1>2. ASSUME NEW r \in Send, Page!Accepted(r) PROVE ChatTypes' /\ Page!TextIsOwn'
  BY <1>2 DEF Page!Accepted, ChatTypes, Page!TextIsOwn
<1>3. ASSUME NEW r \in Send, Page!Delta(r) PROVE ChatTypes' /\ Page!TextIsOwn'
  <2>1. /\ request[r] \in {"running", "timed out"} /\ streaming \in Send /\ streaming = busy
        /\ got' = [got EXCEPT ![streaming] = @ \cup {r}]
        /\ UNCHANGED <<request, busy, streaming, turns, unfinished, phase>>
    BY <1>3 DEF Page!Delta, Page!AtServer, ChatTypes
  <2>2. r = streaming \/ request[r] = "timed out"
    BY <2>1 DEF ChatTypes
  <2>3. ChatTypes'
    BY <2>1 DEF ChatTypes
  <2>4. /\ \A q \in Send : q # streaming => got'[q] = got[q]
        /\ got'[streaming] = got[streaming] \cup {r}
    BY <2>1 DEF ChatTypes
  <2> QED BY <2>1, <2>2, <2>3, <2>4 DEF Page!TextIsOwn
<1>4. ASSUME NEW r \in Send, Page!Phase(r) PROVE ChatTypes' /\ Page!TextIsOwn'
  <2>1. request[r] = "running" => busy = r
    BY DEF ChatTypes
  <2> QED BY <1>4, <2>1 DEF Page!Phase, Page!AtServer, ChatTypes, Page!TextIsOwn
<1>5. ASSUME NEW r \in Send, Page!Result(r) PROVE ChatTypes' /\ Page!TextIsOwn'
  BY <1>5, FinishKeeps DEF Page!Result
<1>6. ASSUME NEW r \in Send, Page!SendFails(r, "over") \/ Page!SendFails(r, "timed out")
      PROVE ChatTypes' /\ Page!TextIsOwn'
  BY <1>6, FinishKeeps DEF Page!SendFails
<1>7. ASSUME NEW r \in Send, Page!Forgotten(r) PROVE ChatTypes' /\ Page!TextIsOwn'
  <2>1. /\ request[r] = "timed out" /\ request' = [request EXCEPT ![r] = "forgotten"]
        /\ UNCHANGED <<busy, streaming, turns, unfinished, phase, got>>
    BY <1>7 DEF Page!Forgotten
  <2>2. request' \in [Send -> RequestState] /\ \A q \in Send : q # r => request'[q] = request[q]
        /\ request'[r] = "forgotten"
    BY <2>1 DEF ChatTypes, RequestState
  <2>3. \A q \in Send : request[q] \in {"timed out", "forgotten"} => request'[q] \in {"timed out", "forgotten"}
    BY <2>1, <2>2
  <2>4. ChatTypes'
    BY <2>1, <2>2 DEF ChatTypes
  <2> QED BY <2>1, <2>3, <2>4 DEF Page!TextIsOwn
<1>8. CASE Page!NewSession
  BY <1>8 DEF Page!NewSession, ChatTypes, Page!TextIsOwn
<1>9. CASE Page!LoadHistory
  BY <1>9 DEF Page!LoadHistory, ChatTypes, Page!TextIsOwn
<1>10. CASE Page!HistoryLoaded
  BY <1>10 DEF Page!HistoryLoaded, ChatTypes, Page!TextIsOwn
<1> QED BY <1>1, <1>2, <1>3, <1>4, <1>5, <1>6, <1>7, <1>8, <1>9, <1>10 DEF Page!ChatStep

\* The chains are as many as before, and those of a kick one more than those it leaves.
LEMMA TickKeeps ==
  ASSUME PollTypes, NEW timed \in BOOLEAN, NEW others \in Nat, Page!Tick(timed, others)
  PROVE /\ tracked' \in BOOLEAN /\ ticks' \in Nat /\ strays' \in Nat
        /\ Page!Chains' = ticks + others + (IF timed THEN 1 ELSE 0) + 1
        /\ strays' <= others + (IF timed THEN 1 ELSE 0)
<1>1. ticks \in Nat
  BY DEF PollTypes
<1>2. CASE online
  <2>1. ticks' = ticks + 1 /\ tracked' = timed /\ strays' = others
    BY <1>2 DEF Page!Tick
  <2>2. CASE timed
    <3>1. tracked' \in BOOLEAN /\ tracked'
      BY <2>1, <2>2
    <3> QED BY <1>1, <2>1, <2>2, <3>1 DEF Page!Chains
  <2>3. CASE ~timed
    <3>1. tracked' \in BOOLEAN /\ ~tracked'
      BY <2>1, <2>3
    <3> QED BY <1>1, <2>1, <2>3, <3>1 DEF Page!Chains
  <2> QED BY <2>2, <2>3
<1>3. CASE ~online
  <2>1. tracked' = TRUE /\ ticks' = ticks /\ strays' = IF timed THEN others + 1 ELSE others
    BY <1>3 DEF Page!Tick, Page!Arm
  <2>2. tracked' \in BOOLEAN /\ tracked'
    BY <2>1
  <2> QED BY <1>1, <2>1, <2>2 DEF Page!Chains
<1> QED BY <1>2, <1>3

\* One chain, or one more than there were, which the history knows.
LEMMA KickKeeps ==
  ASSUME EdgesAssumption, PollTypes, Page!PollingGoesOn, Page!StopAndTick
  PROVE /\ tracked' \in BOOLEAN /\ ticks' \in Nat /\ strays' \in Nat
        /\ overlaps' \in 0..MaxChains /\ strays' <= overlaps'
        /\ Page!Chains' <= 1 + overlaps' /\ Page!Chains' >= 1
<1>1. ticks \in Nat /\ strays \in Nat /\ overlaps \in 0..MaxChains /\ MaxChains \in Nat /\ strays <= overlaps
  BY PageConstants DEF PollTypes
<1>2. /\ tracked' \in BOOLEAN /\ ticks' \in Nat /\ strays' \in Nat
      /\ Page!Chains' = ticks + strays + 1 /\ strays' <= strays
  <2>1. Page!Tick(FALSE, strays)
    BY DEF Page!StopAndTick
  <2>2. /\ tracked' \in BOOLEAN /\ ticks' \in Nat /\ strays' \in Nat
        /\ Page!Chains' = ticks + strays + (IF FALSE THEN 1 ELSE 0) + 1
        /\ strays' <= strays + (IF FALSE THEN 1 ELSE 0)
    BY <1>1, <2>1, TickKeeps
  <2> QED BY <1>1, <2>2
<1>3. ticks + strays <= 1 + overlaps
  <2>1. Page!Chains <= 1 + overlaps
    BY DEF Page!PollingGoesOn
  <2> QED BY <1>1, <2>1 DEF Page!Chains, PollTypes
<1>5. CASE ticks > 0
  <2>1. overlaps < MaxChains /\ overlaps' = overlaps + 1
    BY <1>5 DEF Page!StopAndTick
  <2> QED BY <1>1, <1>2, <1>3, <2>1
<1>6. CASE ~(ticks > 0)
  <2>1. ticks = 0
    BY <1>1, <1>6
  <2>2. overlaps' = overlaps
    BY <1>6 DEF Page!StopAndTick
  <2> QED BY <1>1, <1>2, <2>1, <2>2
<1> QED BY <1>5, <1>6

\* So many chains as before.
LEMMA ChainsKept ==
  ASSUME EdgesAssumption, PollTypes, Page!PollingGoesOn,
         tracked' \in BOOLEAN, ticks' \in Nat, strays' \in Nat, Page!Chains' = Page!Chains,
         strays' <= overlaps, UNCHANGED <<attached, visible, online, overlaps>>
  PROVE PollTypes' /\ Page!PollingGoesOn'
<1>1. PollTypes'
  BY DEF PollTypes
<1>2. Page!PollingGoesOn'
  BY DEF Page!PollingGoesOn
<1> QED BY <1>1, <1>2

LEMMA StopKeeps ==
  ASSUME PollTypes, Page!PollingGoesOn, Page!Stop
  PROVE /\ tracked' \in BOOLEAN /\ UNCHANGED <<ticks, strays, overlaps>>
        /\ Page!Chains' <= Page!Chains /\ Page!Chains' \in Nat /\ Page!Chains \in Nat
<1>1. tracked' = FALSE /\ tracked' \in BOOLEAN /\ UNCHANGED <<ticks, strays, overlaps>>
  BY DEF Page!Stop
<1>2. ticks \in Nat /\ strays \in Nat
  BY DEF PollTypes
<1>3. Page!Chains' = ticks + strays
  BY <1>1, <1>2 DEF Page!Chains
<1>4. Page!Chains \in {ticks + strays, ticks + strays + 1}
  BY <1>2 DEF Page!Chains
<1> QED BY <1>1, <1>2, <1>3, <1>4

LEMMA PollKeeps ==
  ASSUME EdgesAssumption, PollTypes, Page!PollingGoesOn, Page!PollStep \/ Page!HostStep
  PROVE PollTypes' /\ Page!PollingGoesOn'
<1>0. /\ attached \in BOOLEAN /\ visible \in BOOLEAN /\ online \in BOOLEAN /\ tracked \in BOOLEAN
      /\ overlaps \in 0..MaxChains /\ ticks \in Nat /\ strays \in Nat /\ strays <= overlaps
      /\ Page!Chains <= 1 + overlaps /\ MaxChains \in Nat /\ overlaps \in Nat
  BY PageConstants DEF PollTypes, Page!PollingGoesOn
<1>1. CASE Page!Kick
  <2>1. Page!StopAndTick /\ UNCHANGED <<attached, visible, online>>
    BY <1>1 DEF Page!Kick
  <2> QED BY <1>0, <2>1, KickKeeps DEF PollTypes, Page!PollingGoesOn
<1>2. CASE Page!HostConnected
  <2>1. attached' = TRUE /\ attached' \in BOOLEAN
    BY <1>2 DEF Page!HostConnected
  <2>2. Page!StopAndTick /\ UNCHANGED <<visible, online>>
    BY <1>2 DEF Page!HostConnected
  <2> QED BY <1>0, <2>1, <2>2, KickKeeps DEF PollTypes, Page!PollingGoesOn
<1>3. CASE Page!HostDisconnected
  <2>1. attached' = FALSE /\ attached' \in BOOLEAN
    BY <1>3 DEF Page!HostDisconnected
  <2>2. Page!Stop /\ UNCHANGED <<visible, online>>
    BY <1>3 DEF Page!HostDisconnected
  <2>3. /\ tracked' \in BOOLEAN /\ UNCHANGED <<ticks, strays, overlaps>>
        /\ Page!Chains' <= Page!Chains /\ Page!Chains' \in Nat /\ Page!Chains \in Nat
    BY <2>2, StopKeeps
  <2>4. Page!Chains' <= 1 + overlaps'
    BY <1>0, <2>3
  <2>5. PollTypes'
    BY <1>0, <2>1, <2>2, <2>3, <2>4 DEF PollTypes
  <2>6. Page!PollingGoesOn'
    BY <2>1, <2>3, <2>4 DEF Page!PollingGoesOn
  <2> QED BY <2>5, <2>6
<1>4. CASE Page!VisibilityChanges
  <2>1. visible' = ~visible /\ visible' \in BOOLEAN /\ UNCHANGED <<attached, online>>
    BY <1>0, <1>4 DEF Page!VisibilityChanges
  <2>2. CASE ~attached
    <3>1. UNCHANGED <<ticks, tracked, strays, overlaps>>
      BY <1>4, <2>2 DEF Page!VisibilityChanges
    <3>2. Page!Chains' = Page!Chains
      BY <3>1 DEF Page!Chains
    <3>3. PollTypes'
      BY <2>1, <3>1, <3>2 DEF PollTypes
    <3>4. Page!PollingGoesOn'
      BY <2>1, <2>2, <3>1, <3>2 DEF Page!PollingGoesOn
    <3> QED BY <3>3, <3>4
  <2>3. CASE attached /\ visible
    <3>0. ~visible' /\ Page!Stop
      BY <1>4, <2>1, <2>3 DEF Page!VisibilityChanges
    <3>1. /\ tracked' \in BOOLEAN /\ UNCHANGED <<ticks, strays, overlaps>>
          /\ Page!Chains' <= Page!Chains /\ Page!Chains' \in Nat /\ Page!Chains \in Nat
      BY <3>0, StopKeeps
    <3>2. Page!Chains' <= 1 + overlaps'
      BY <1>0, <3>1
    <3>3. PollTypes'
      BY <1>0, <2>1, <3>1, <3>2 DEF PollTypes
    <3>4. Page!PollingGoesOn'
      BY <3>0, <3>1, <3>2 DEF Page!PollingGoesOn
    <3> QED BY <3>3, <3>4
  <2>4. CASE attached /\ ~visible
    <3>1. Page!StopAndTick
      BY <1>4, <2>4 DEF Page!VisibilityChanges
    <3>2. PollTypes'
      BY <1>0, <2>1, <3>1, KickKeeps DEF PollTypes
    <3>3. Page!PollingGoesOn'
      BY <3>1, KickKeeps DEF Page!PollingGoesOn
    <3> QED BY <3>2, <3>3
  <2> QED BY <2>2, <2>3, <2>4
<1>5. CASE Page!ConnectionChanges
  <2>1. online' \in BOOLEAN /\ UNCHANGED <<attached, visible, ticks, tracked, strays, overlaps>>
    BY <1>0, <1>5 DEF Page!ConnectionChanges
  <2>2. Page!Chains' = Page!Chains
    BY <2>1 DEF Page!Chains
  <2>3. PollTypes'
    BY <2>1, <2>2 DEF PollTypes
  <2>4. Page!PollingGoesOn'
    BY <2>1, <2>2 DEF Page!PollingGoesOn
  <2> QED BY <2>3, <2>4
<1>6. CASE Page!TimerFires
  <2>1. UNCHANGED <<attached, visible, online, overlaps>>
    BY <1>6 DEF Page!TimerFires
  <2>2. CASE tracked /\ Page!Tick(FALSE, strays)
    <3>1. /\ tracked' \in BOOLEAN /\ ticks' \in Nat /\ strays' \in Nat
          /\ Page!Chains' = ticks + strays + (IF FALSE THEN 1 ELSE 0) + 1
          /\ strays' <= strays + (IF FALSE THEN 1 ELSE 0)
      BY <1>0, <2>2, TickKeeps
    <3>2. Page!Chains = ticks + strays + 1
      BY <2>2 DEF Page!Chains
    <3>3. Page!Chains' = Page!Chains /\ strays' <= overlaps
      BY <1>0, <3>1, <3>2
    <3> QED BY <2>1, <3>1, <3>3, ChainsKept
  <2>3. CASE strays > 0 /\ Page!Tick(tracked, strays - 1)
    <3>0. strays - 1 \in Nat
      BY <1>0, <2>3
    <3>1. /\ tracked' \in BOOLEAN /\ ticks' \in Nat /\ strays' \in Nat
          /\ Page!Chains' = ticks + (strays - 1) + (IF tracked THEN 1 ELSE 0) + 1
          /\ strays' <= (strays - 1) + (IF tracked THEN 1 ELSE 0)
      BY <1>0, <2>3, <3>0, TickKeeps
    <3>3. Page!Chains' = Page!Chains /\ strays' <= overlaps
      <4>1. Page!Chains = ticks + strays + (IF tracked THEN 1 ELSE 0)
        BY DEF Page!Chains
      <4> QED BY <1>0, <3>1, <4>1
    <3> QED BY <2>1, <3>1, <3>3, ChainsKept
  <2> QED BY <1>6, <2>2, <2>3 DEF Page!TimerFires
<1>7. CASE Page!PollEnds
  <2>1. ticks > 0 /\ ticks' = ticks - 1 /\ UNCHANGED <<attached, visible, online, overlaps>>
    BY <1>7 DEF Page!PollEnds
  <2>2. CASE visible
    <3>1. tracked' = TRUE /\ strays' = IF tracked THEN strays + 1 ELSE strays
      BY <1>7, <2>2 DEF Page!PollEnds, Page!Arm
    <3>2. tracked' \in BOOLEAN /\ tracked'
      BY <3>1
    <3>3. Page!Chains' = (ticks - 1) + strays' + 1 /\ strays' \in Nat /\ ticks' \in Nat
      BY <1>0, <2>1, <3>1, <3>2 DEF Page!Chains
    <3>4. Page!Chains' = Page!Chains /\ strays' <= overlaps
      <4>1. Page!Chains = ticks + strays + (IF tracked THEN 1 ELSE 0)
        BY DEF Page!Chains
      <4> QED BY <1>0, <2>1, <3>1, <3>3, <4>1
    <3> QED BY <2>1, <3>2, <3>3, <3>4, ChainsKept
  <2>3. CASE ~visible
    <3>1. UNCHANGED <<tracked, strays>>
      BY <1>7, <2>3 DEF Page!PollEnds
    <3>2. ticks' \in Nat /\ Page!Chains' = Page!Chains - 1 /\ Page!Chains \in Nat
      BY <1>0, <2>1, <3>1 DEF Page!Chains
    <3>3. Page!Chains' <= 1 + overlaps'
      BY <1>0, <2>1, <3>2
    <3>4. PollTypes'
      BY <1>0, <2>1, <3>1, <3>2, <3>3 DEF PollTypes
    <3>5. Page!PollingGoesOn'
      BY <2>1, <2>3, <3>3 DEF Page!PollingGoesOn
    <3> QED BY <3>4, <3>5
  <2> QED BY <2>2, <2>3
<1> QED BY <1>1, <1>2, <1>3, <1>4, <1>5, <1>6, <1>7 DEF Page!PollStep, Page!HostStep

LEMMA PageKeeps ==
  ASSUME EdgesAssumption, PageInv, Page!ChatStep \/ Page!PollStep \/ Page!HostStep PROVE PageInv'
<1>1. CASE Page!ChatStep
  <2>1. UNCHANGED Page!pollVars
    BY <1>1 DEF Page!ChatStep, Page!pollVars, Page!SendText, Page!Accepted, Page!Delta, Page!Phase, Page!Result,
      Page!SendFails, Page!Forgotten, Page!NewSession, Page!LoadHistory, Page!HistoryLoaded
  <2> QED BY <1>1, <2>1, ChatKeeps, PollRests DEF PageInv
<1>2. CASE Page!PollStep \/ Page!HostStep
  <2>1. UNCHANGED Page!chatVars
    BY <1>2 DEF Page!PollStep, Page!HostStep, Page!Kick, Page!HostConnected, Page!HostDisconnected,
      Page!VisibilityChanges, Page!ConnectionChanges, Page!TimerFires, Page!PollEnds
  <2> QED BY <1>2, <2>1, ChatRests, PollKeeps DEF PageInv
<1> QED BY <1>1, <1>2

LEMMA PageRests == ASSUME PageInv, UNCHANGED pageVars PROVE PageInv'
<1>1. UNCHANGED Page!chatVars /\ UNCHANGED Page!pollVars
  BY DEF pageVars, Page!chatVars, Page!pollVars
<1> QED BY <1>1, ChatRests, PollRests DEF PageInv

-----------------------------------------------------------------------------
(* The browser's identity                                                 *)

Active(c) == op[c].state \notin Identity!Idle
CallState == {"new", "done", "failed", "loading", "saving", "deriving", "paired", "deleting"}

\* No answer of the storage contradicts another.
Reliable == \E p \in Identity!Place : answeredBy \subseteq {p}

\* The key that is kept: where storage is reliable one of the places holds none.
TheKey == IF storedKey["IndexedDB"] # 0 THEN storedKey["IndexedDB"] ELSE storedKey["localStorage"]

\* What holds of a call on its way, as long as storage is reliable, no two keys are made
\* at once and no reset meets another call: the key it holds is the stored one, or the
\* first one there is; an assert is of the device enrolled.
OnItsWay(c) ==
  /\ c \in AssertCall => op[c].device = enrolledAs /\ enrolledAs # 0 /\ op[c].state # "saving"
  /\ op[c].state \in {"loading", "saving", "deriving", "paired"} => c \notin Reset
  /\ op[c].state = "saving" => TheKey = 0 /\ op[c].key # 0
  /\ op[c].state \in {"deriving", "paired"} => TheKey # 0 /\ op[c].key = TheKey
  /\ op[c].state = "deleting" => c \in Reset /\ enrolledAs = 0 /\ pair = 0

\* Resets have no other neighbours, and one call at most makes a key.
Neighbours ==
  \A c, d \in Identity!Op : c # d /\ Active(c) /\ Active(d) =>
    /\ c \in Reset <=> d \in Reset
    /\ ~(op[c].state = "saving" /\ op[d].state = "saving")

Alone ==
  /\ Neighbours
  /\ \A c \in Identity!Op : Active(c) => OnItsWay(c)
  /\ \A p \in Identity!Place : p \notin answeredBy => storedKey[p] = 0
  /\ pair \in {0, TheKey} /\ token \in {0, enrolledAs}
  /\ enrolledAs # 0 => TheKey = enrolledAs

IdentityInv ==
  /\ Identity!TypeOK
  /\ op \in [Identity!Op -> [state : CallState, key : Nat, device : Nat]]
  /\ identityOverlapped \in BOOLEAN
  /\ ~identityOverlapped /\ Reliable => Alone

LEMMA IdentityConstants ==
  ASSUME EdgesAssumption
  PROVE /\ MaxKeys \in Nat
        /\ EnrollCall \cap AssertCall = {} /\ EnrollCall \cap Reset = {} /\ AssertCall \cap Reset = {}
  BY DEF EdgesAssumption, Identity!IdentityAssumption

\* Under reliable storage a place that answers has the key that is kept, if there is one.
LEMMA OneKey ==
  ASSUME Identity!TypeOK, NEW q \in Identity!Place, answeredBy \subseteq {q},
         \A p \in Identity!Place : p \notin answeredBy => storedKey[p] = 0
  PROVE  /\ storedKey[q] = TheKey
         /\ \A p \in Identity!Place : p # q => storedKey[p] = 0
  BY DEF TheKey, Identity!Place

LEMMA IdentityIsSafe == ASSUME IdentityInv PROVE Identity!KeyIsDevices
<1>1. CASE identityOverlapped
  BY <1>1 DEF Identity!KeyIsDevices
<1>2. CASE ~Reliable
  BY <1>2 DEF Identity!KeyIsDevices, Reliable
<1>3. CASE Alone /\ Reliable /\ enrolledAs # 0
  <2>1. PICK q \in Identity!Place : answeredBy \subseteq {q}
    BY <1>3 DEF Reliable
  <2>2. TheKey = enrolledAs /\ storedKey[q] = TheKey
    BY <1>3, <2>1, OneKey DEF Alone, IdentityInv
  <2> QED BY <1>3, <2>1, <2>2 DEF Alone, Identity!KeyIsDevices
<1>4. CASE enrolledAs = 0
  BY <1>4 DEF Identity!KeyIsDevices
<1> QED BY <1>1, <1>2, <1>3, <1>4 DEF IdentityInv

LEMMA IdentityStarts == ASSUME EdgesAssumption, Identity!Init PROVE IdentityInv
<1>1. identityOverlapped \in BOOLEAN
  BY DEF Identity!Init
<1>2. TheKey = 0 /\ \A p \in Identity!Place : storedKey[p] = 0
  BY DEF TheKey, Identity!Init, Identity!Place
<1>3. Alone
  BY <1>2 DEF Alone, Neighbours, Active, Identity!Init, Identity!Idle
<1>4. storedKey \in [Identity!Place -> 0..0] /\ keys = 0
  BY DEF Identity!Init
<1> QED
  BY <1>1, <1>3, <1>4, IdentityConstants DEF Identity!Init, IdentityInv, Identity!TypeOK, CallState

\* Storage that answers once more is no more reliable than it was.
LEMMA StaysUnreliable ==
  ASSUME Reliable', answeredBy \subseteq answeredBy'
  PROVE Reliable
  BY DEF Reliable

\* A call that starts where none may, is the history's; a reset that starts alone or
\* among resets, and any other among others, is not.
LEMMA StartsAlone ==
  ASSUME IdentityInv, NEW c \in Identity!Op, Identity!Starts(c), UNCHANGED answeredBy
  PROVE /\ identityOverlapped' \in BOOLEAN
        /\ ~identityOverlapped' /\ Reliable' =>
             /\ Alone
             /\ \A d \in Identity!Op : d # c /\ Active(d) => (d \in Reset <=> c \in Reset)
        /\ ~Active(c)
<1> DEFINE mixed == \E d \in Identity!Op \ {c} : Identity!Under(d) /\ (d \in Reset) # (c \in Reset)
<1>1. identityOverlapped' = (identityOverlapped \/ mixed) /\ op[c].state = "new"
  BY DEF Identity!Starts
<1>2. mixed \in BOOLEAN /\ identityOverlapped \in BOOLEAN
  BY DEF IdentityInv
<1>3. ~mixed => \A d \in Identity!Op : d # c /\ Active(d) => (d \in Reset <=> c \in Reset)
  BY DEF Active, Identity!Under
<1> HIDE DEF mixed
<1>4. identityOverlapped' \in BOOLEAN /\ (~identityOverlapped' => ~identityOverlapped /\ ~mixed)
  BY <1>1, <1>2
<1>5. ~identityOverlapped' /\ Reliable' => Alone
  BY <1>4 DEF IdentityInv, Reliable
<1> QED BY <1>1, <1>3, <1>4, <1>5 DEF Active, Identity!Idle

\* What a step does to the calls: one of them goes on.
OthersRest(c) == \A d \in Identity!Op : d # c => op'[d] = op[d]

LEMMA IdentityKeeps == ASSUME EdgesAssumption, IdentityInv, Identity!Next PROVE IdentityInv'
<1> USE IdentityConstants
<1>0. /\ op \in [Identity!Op -> [state : CallState, key : Nat, device : Nat]]
      /\ keys \in 0..MaxKeys /\ keys \in Nat /\ storedKey \in [Identity!Place -> 0..keys] /\ enrolledAs \in 0..keys
      /\ pair \in 0..keys /\ token \in 0..keys
      /\ \A c \in Identity!Op : op[c].key \in 0..keys /\ op[c].device \in 0..keys
      /\ identityOverlapped \in BOOLEAN /\ answeredBy \subseteq Identity!Place \cup {"nowhere"}
  BY DEF IdentityInv, Identity!TypeOK
<1>1. ASSUME NEW c \in Identity!Op, Identity!BeginEnroll(c) PROVE IdentityInv'
  <2> DEFINE to == [state |-> IF pair # 0 THEN "paired" ELSE "loading", key |-> pair, device |-> 0]
  <2>1. /\ c \in EnrollCall /\ Identity!Starts(c)
        /\ op' = [op EXCEPT ![c] = to]
        /\ UNCHANGED <<storedKey, answeredBy, enrolledAs, pair, token, keys>>
    BY <1>1 DEF Identity!BeginEnroll
  <2>2. /\ to \in [state : CallState, key : Nat, device : Nat] /\ to.key = pair /\ to.device = 0
        /\ to.state \in {"paired", "loading"} /\ (to.state = "paired" => pair # 0)
    BY <1>0 DEF CallState
  <2> HIDE DEF to
  <2>3. op' \in [Identity!Op -> [state : CallState, key : Nat, device : Nat]] /\ op'[c] = to /\ OthersRest(c)
    BY <1>0, <2>1, <2>2 DEF OthersRest
  <2>4. Identity!TypeOK'
    BY <1>0, <2>1, <2>2, <2>3 DEF Identity!TypeOK, OthersRest
  <2>5. ASSUME ~identityOverlapped', Reliable' PROVE Alone'
    <3>1. Alone /\ \A d \in Identity!Op : d # c /\ Active(d) => (d \in Reset <=> c \in Reset)
      BY <2>1, <2>5, StartsAlone
    <3>2. c \notin AssertCall /\ c \notin Reset
      BY <2>1
    <3>3. TheKey' = TheKey
      BY <2>1 DEF TheKey
    <3>4. \A d \in Identity!Op : d # c => (Active(d)' <=> Active(d)) /\ (OnItsWay(d)' <=> OnItsWay(d))
      BY <2>1, <2>3, <3>3 DEF OthersRest, Active, OnItsWay
    <3>5. OnItsWay(c)'
      BY <2>1, <2>2, <2>3, <3>1, <3>2, <3>3 DEF OnItsWay, Alone
    <3>6. Neighbours'
      BY <2>2, <2>3, <3>1, <3>4 DEF Neighbours, OthersRest, Alone
    <3> QED BY <2>1, <3>1, <3>3, <3>4, <3>5, <3>6 DEF Alone
  <2> QED BY <2>1, <2>3, <2>4, <2>5, StartsAlone DEF IdentityInv
<1>2. ASSUME NEW c \in Identity!Op, Identity!BeginAssert(c) PROVE IdentityInv'
  <2>0. PICK to \in [state : CallState, key : Nat, device : Nat] :
          /\ op' = [op EXCEPT ![c] = to]
          /\ to.key \in 0..keys /\ to.device \in 0..keys
          /\ \/ to.state \in Identity!Idle
             \/ /\ to.state \in {"paired", "loading"} /\ (to.state = "paired" => pair # 0)
                /\ to.key = pair /\ to.device = enrolledAs /\ enrolledAs # 0
    <3>1. \/ op' = [op EXCEPT ![c] = [state |-> "done", key |-> 0, device |-> 0]]
          \/ op' = [op EXCEPT ![c] = [state |-> "failed", key |-> 0, device |-> 0]]
          \/ /\ enrolledAs # 0
             /\ op' = [op EXCEPT ![c] = [state |-> IF pair # 0 THEN "paired" ELSE "loading",
                                         key |-> pair, device |-> enrolledAs]]
      BY <1>2 DEF Identity!BeginAssert, Identity!End
    <3>2. /\ [state |-> "done", key |-> 0, device |-> 0] \in [state : CallState, key : Nat, device : Nat]
          /\ [state |-> "failed", key |-> 0, device |-> 0] \in [state : CallState, key : Nat, device : Nat]
          /\ [state |-> IF pair # 0 THEN "paired" ELSE "loading", key |-> pair, device |-> enrolledAs]
               \in [state : CallState, key : Nat, device : Nat]
      BY <1>0 DEF CallState
    <3> QED BY <1>0, <3>1, <3>2 DEF Identity!Idle
  <2>1. /\ c \in AssertCall /\ c \notin Reset /\ Identity!Starts(c)
        /\ UNCHANGED <<storedKey, answeredBy, enrolledAs, pair, token, keys>>
    BY <1>2 DEF Identity!BeginAssert
  <2>3. op' \in [Identity!Op -> [state : CallState, key : Nat, device : Nat]] /\ op'[c] = to /\ OthersRest(c)
    BY <1>0, <2>0 DEF OthersRest
  <2>4. Identity!TypeOK'
    BY <1>0, <2>0, <2>1, <2>3 DEF Identity!TypeOK, OthersRest
  <2>5. ASSUME ~identityOverlapped', Reliable' PROVE Alone'
    <3>1. Alone /\ \A d \in Identity!Op : d # c /\ Active(d) => (d \in Reset <=> c \in Reset)
      BY <2>1, <2>5, StartsAlone
    <3>2. TheKey' = TheKey
      BY <2>1 DEF TheKey
    <3>3. \A d \in Identity!Op : d # c => (Active(d)' <=> Active(d)) /\ (OnItsWay(d)' <=> OnItsWay(d))
      BY <2>1, <2>3, <3>2 DEF OthersRest, Active, OnItsWay
    <3>4. Active(c)' => OnItsWay(c)' /\ op'[c].state # "saving"
      BY <2>0, <2>1, <2>3, <3>1, <3>2 DEF OnItsWay, Alone, Active, Identity!Idle
    <3>5. Neighbours'
      BY <2>1, <2>3, <3>1, <3>3, <3>4 DEF Neighbours, OthersRest, Alone
    <3> QED BY <2>1, <3>1, <3>2, <3>3, <3>4, <3>5 DEF Alone
  <2> QED BY <2>1, <2>3, <2>4, <2>5, StartsAlone DEF IdentityInv
<1>3. ASSUME NEW c \in Identity!Op, Identity!BeginReset(c) PROVE IdentityInv'
  <2>1. /\ c \in Reset /\ Identity!Starts(c)
        /\ token' = 0 /\ pair' = 0 /\ enrolledAs' = 0
        /\ op' = [op EXCEPT ![c].state = "deleting"]
        /\ UNCHANGED <<storedKey, answeredBy, keys>>
    BY <1>3 DEF Identity!BeginReset, Identity!To
  <2>3. /\ op' \in [Identity!Op -> [state : CallState, key : Nat, device : Nat]]
        /\ op'[c].state = "deleting" /\ op'[c].key = op[c].key /\ op'[c].device = op[c].device /\ OthersRest(c)
    BY <1>0, <2>1 DEF OthersRest, CallState
  <2>4. Identity!TypeOK'
    BY <1>0, <2>1, <2>3 DEF Identity!TypeOK, OthersRest
  <2>5. ASSUME ~identityOverlapped', Reliable' PROVE Alone'
    <3>1. Alone /\ \A d \in Identity!Op : d # c /\ Active(d) => d \in Reset
      BY <2>1, <2>5, StartsAlone
    <3>2. c \notin AssertCall /\ Reset \cap AssertCall = {}
      BY <2>1
    <3>3. TheKey' = TheKey
      BY <2>1 DEF TheKey
    <3>4. \A d \in Identity!Op : d # c => (Active(d)' <=> Active(d))
      BY <2>3 DEF OthersRest, Active
    <3>5. \A d \in Identity!Op : d # c /\ Active(d) => op[d].state = "deleting"
      BY <1>0, <3>1 DEF Alone, OnItsWay, Active, Identity!Idle, CallState
    <3>6. \A d \in Identity!Op : Active(d)' => d \in Reset /\ op'[d].state = "deleting"
      BY <2>1, <2>3, <3>1, <3>4, <3>5 DEF OthersRest
    <3>7. \A d \in Identity!Op : Active(d)' => OnItsWay(d)'
      BY <2>1, <3>2, <3>6 DEF OnItsWay
    <3>8. Neighbours'
      BY <3>6 DEF Neighbours
    <3> QED BY <2>1, <3>1, <3>7, <3>8 DEF Alone
  <2> QED BY <2>1, <2>3, <2>4, <2>5, StartsAlone DEF IdentityInv
<1>4. ASSUME NEW c \in Identity!Op, Identity!LoadKey(c) PROVE IdentityInv'
  <2>0. PICK p \in Identity!Place :
          /\ answeredBy' = answeredBy \cup {p}
          /\ IF storedKey[p] # 0
             THEN /\ op' = [op EXCEPT ![c].state = "deriving", ![c].key = storedKey[p]]
                  /\ UNCHANGED <<keys, identityOverlapped>>
             ELSE /\ keys < MaxKeys /\ keys' = keys + 1
                  /\ op' = [op EXCEPT ![c].state = "saving", ![c].key = keys + 1]
                  /\ identityOverlapped' = (identityOverlapped \/
                       \E d \in Identity!Op \ {c} : op[d].state = "saving")
    BY <1>4 DEF Identity!LoadKey
  <2>1. op[c].state = "loading" /\ UNCHANGED <<storedKey, enrolledAs, pair, token>>
    BY <1>4 DEF Identity!LoadKey
  <2>2. TheKey' = TheKey /\ answeredBy \subseteq answeredBy' /\ answeredBy' \subseteq Identity!Place \cup {"nowhere"}
    BY <1>0, <2>0, <2>1 DEF TheKey
  <2>3. storedKey[p] \in 0..keys /\ storedKey[p] \in Nat
    BY <1>0
  <2>4. ASSUME Reliable', Alone PROVE storedKey[p] = TheKey
    <3>1. PICK q \in Identity!Place : answeredBy' \subseteq {q}
      BY <2>4 DEF Reliable
    <3>2. p = q /\ answeredBy \subseteq {q}
      BY <2>0, <3>1
    <3> QED BY <2>4, <3>2, OneKey DEF Alone, IdentityInv
  <2>5. CASE storedKey[p] # 0
    <3>1. op' = [op EXCEPT ![c].state = "deriving", ![c].key = storedKey[p]] /\ UNCHANGED <<keys, identityOverlapped>>
      BY <2>0, <2>5
    <3>2. /\ op' \in [Identity!Op -> [state : CallState, key : Nat, device : Nat]]
          /\ op'[c].state = "deriving" /\ op'[c].key = storedKey[p] /\ op'[c].device = op[c].device /\ OthersRest(c)
      BY <1>0, <2>3, <3>1 DEF OthersRest, CallState
    <3>3. Identity!TypeOK'
      BY <1>0, <2>1, <2>2, <2>3, <3>1, <3>2 DEF Identity!TypeOK, OthersRest
    <3>4. ASSUME Alone, Reliable' PROVE Alone'
      <4>1. \A d \in Identity!Op : d # c => (Active(d)' <=> Active(d)) /\ (OnItsWay(d)' <=> OnItsWay(d))
        BY <2>1, <2>2, <3>2 DEF OthersRest, Active, OnItsWay
      <4>2. Active(c) /\ OnItsWay(c)
        BY <2>1, <3>4 DEF Active, Identity!Idle, Alone
      <4>3. OnItsWay(c)'
        BY <2>1, <2>2, <2>4, <2>5, <3>2, <3>4, <4>2 DEF OnItsWay
      <4>4. Neighbours'
        BY <3>2, <3>4, <4>1, <4>2 DEF Neighbours, OthersRest, Alone
      <4> QED BY <2>1, <2>2, <3>4, <4>1, <4>2, <4>3, <4>4 DEF Alone
    <3> QED BY <2>2, <3>1, <3>2, <3>3, <3>4, <1>0, StaysUnreliable DEF IdentityInv
  <2>6. CASE storedKey[p] = 0
    <3>1. /\ keys < MaxKeys /\ keys' = keys + 1
          /\ op' = [op EXCEPT ![c].state = "saving", ![c].key = keys + 1]
      BY <2>0, <2>6
    <3>2. /\ op' \in [Identity!Op -> [state : CallState, key : Nat, device : Nat]]
          /\ op'[c].state = "saving" /\ op'[c].key = keys + 1 /\ op'[c].device = op[c].device /\ OthersRest(c)
      BY <1>0, <3>1 DEF OthersRest, CallState
    <3>3. Identity!TypeOK'
      <4>1. keys' \in 0..MaxKeys /\ \A n \in 0..keys : n \in 0..keys'
        BY <1>0, <3>1
      <4>2. keys + 1 \in 0..keys'
        BY <1>0, <3>1
      <4>3. storedKey' \in [Identity!Place -> 0..keys']
        BY <1>0, <2>1, <4>1
      <4> QED BY <1>0, <2>1, <2>2, <3>2, <4>1, <4>2, <4>3 DEF Identity!TypeOK, OthersRest
    <3>4. /\ identityOverlapped' \in BOOLEAN
          /\ ~identityOverlapped' => ~identityOverlapped /\ \A d \in Identity!Op : d # c => op[d].state # "saving"
      <4> DEFINE twice == \E d \in Identity!Op \ {c} : op[d].state = "saving"
      <4>1. identityOverlapped' = (identityOverlapped \/ twice) /\ twice \in BOOLEAN
        BY <2>0, <2>6
      <4>2. ~twice => \A d \in Identity!Op : d # c => op[d].state # "saving"
        OBVIOUS
      <4> HIDE DEF twice
      <4> QED BY <1>0, <4>1, <4>2
    <3>5. ASSUME Alone, Reliable', ~identityOverlapped' PROVE Alone'
      <4>1. \A d \in Identity!Op : d # c => (Active(d)' <=> Active(d)) /\ (OnItsWay(d)' <=> OnItsWay(d))
        BY <2>1, <2>2, <3>2 DEF OthersRest, Active, OnItsWay
      <4>2. Active(c) /\ OnItsWay(c)
        BY <2>1, <3>5 DEF Active, Identity!Idle, Alone
      <4>3. OnItsWay(c)'
        <5>1. c \notin AssertCall /\ c \notin Reset /\ TheKey = 0
          BY <2>1, <2>4, <2>6, <3>5, <4>2 DEF OnItsWay, Alone
        <5>2. op'[c].key # 0
          BY <1>0, <3>2
        <5> QED BY <2>1, <2>2, <3>2, <5>1, <5>2 DEF OnItsWay
      <4>4. Neighbours'
        BY <3>2, <3>4, <3>5, <4>1, <4>2 DEF Neighbours, OthersRest, Alone
      <4> QED BY <2>1, <2>2, <3>5, <4>1, <4>2, <4>3, <4>4 DEF Alone
    <3> QED BY <2>2, <3>2, <3>3, <3>4, <3>5, StaysUnreliable DEF IdentityInv
  <2> QED BY <2>5, <2>6
<1>5. ASSUME NEW c \in Identity!Op, Identity!SaveKey(c) PROVE IdentityInv'
  <2>1. /\ op[c].state = "saving"
        /\ op' = [op EXCEPT ![c].state = "deriving"]
        /\ UNCHANGED <<enrolledAs, pair, token, keys, identityOverlapped>>
    BY <1>5 DEF Identity!SaveKey, Identity!To
  <2>2. /\ op' \in [Identity!Op -> [state : CallState, key : Nat, device : Nat]]
        /\ op'[c].state = "deriving" /\ op'[c].key = op[c].key /\ op'[c].device = op[c].device /\ OthersRest(c)
    BY <1>0, <2>1 DEF OthersRest, CallState
  <2>3. CASE answeredBy' = answeredBy \cup {"nowhere"} /\ UNCHANGED storedKey
    <3>1. ~Reliable'
      BY <2>3 DEF Reliable, Identity!Place
    <3>2. Identity!TypeOK'
      BY <1>0, <2>1, <2>2, <2>3 DEF Identity!TypeOK, OthersRest
    <3> QED BY <1>0, <2>1, <2>2, <3>1, <3>2 DEF IdentityInv
  <2>4. ASSUME NEW p \in Identity!Place, storedKey' = [storedKey EXCEPT ![p] = op[c].key],
               answeredBy' = answeredBy \cup {p}
        PROVE IdentityInv'
    <3>1. Identity!TypeOK'
      BY <1>0, <2>1, <2>2, <2>4 DEF Identity!TypeOK, OthersRest
    <3>2. ASSUME Alone, Reliable' PROVE Alone'
      <4>1. Active(c) /\ OnItsWay(c) /\ c \notin AssertCall /\ c \notin Reset
        BY <2>1, <3>2 DEF Active, Identity!Idle, Alone, OnItsWay
      <4>2. TheKey = 0 /\ enrolledAs = 0 /\ pair = 0 /\ token = 0 /\ op[c].key # 0
        BY <2>1, <3>2, <4>1 DEF OnItsWay, Alone
      <4>3. PICK q \in Identity!Place : answeredBy' \subseteq {q}
        BY <3>2 DEF Reliable
      <4>4. p = q /\ answeredBy \subseteq {p}
        BY <2>4, <4>3
      <4>5. \A o \in Identity!Place : o # p => storedKey[o] = 0
        BY <3>2, <4>4, OneKey DEF Alone, IdentityInv
      <4>6. /\ storedKey'[p] = op[c].key
            /\ \A o \in Identity!Place : o # p => storedKey'[o] = 0
        BY <1>0, <2>4, <4>5
      <4>7. TheKey' = op[c].key
        BY <4>2, <4>6 DEF TheKey, Identity!Place
      <4>8. \A d \in Identity!Op : Active(d)' <=> Active(d)
        BY <2>1, <2>2 DEF OthersRest, Active, Identity!Idle
      <4>9. \A d \in Identity!Op : d # c /\ Active(d) => op[d].state = "loading" /\ OnItsWay(d)
        BY <1>0, <2>1, <3>2, <4>1, <4>2 DEF Alone, Neighbours, OnItsWay, Active, Identity!Idle, CallState
      <4>10. \A d \in Identity!Op : d # c /\ Active(d) => OnItsWay(d)'
        BY <2>1, <2>2, <4>9 DEF OnItsWay, OthersRest
      <4>11. OnItsWay(c)'
        BY <2>1, <2>2, <4>1, <4>2, <4>7 DEF OnItsWay
      <4>12. Neighbours'
        BY <2>2, <3>2, <4>8 DEF Neighbours, OthersRest, Alone
      <4> QED BY <2>1, <2>4, <4>2, <4>6, <4>8, <4>10, <4>11, <4>12 DEF Alone
    <3> QED BY <1>0, <2>1, <2>2, <2>4, <3>1, <3>2, StaysUnreliable DEF IdentityInv
  <2> QED BY <1>5, <2>3, <2>4 DEF Identity!SaveKey
<1>6. ASSUME NEW c \in Identity!Op, Identity!KeepPair(c) PROVE IdentityInv'
  <2>1. /\ op[c].state = "deriving" /\ pair' = op[c].key
        /\ op' = [op EXCEPT ![c].state = "paired"]
        /\ UNCHANGED <<storedKey, answeredBy, enrolledAs, token, keys, identityOverlapped>>
    BY <1>6 DEF Identity!KeepPair, Identity!To
  <2>2. /\ op' \in [Identity!Op -> [state : CallState, key : Nat, device : Nat]]
        /\ op'[c].state = "paired" /\ op'[c].key = op[c].key /\ op'[c].device = op[c].device /\ OthersRest(c)
    BY <1>0, <2>1 DEF OthersRest, CallState
  <2>3. Identity!TypeOK' /\ TheKey' = TheKey /\ (Reliable' <=> Reliable)
    BY <1>0, <2>1, <2>2 DEF Identity!TypeOK, OthersRest, TheKey, Reliable
  <2>4. ASSUME Alone PROVE Alone'
    <3>1. Active(c) /\ OnItsWay(c) /\ op[c].key = TheKey /\ c \notin Reset
      BY <2>1, <2>4 DEF Active, Identity!Idle, Alone, OnItsWay
    <3>2. \A d \in Identity!Op : Active(d)' <=> Active(d)
      BY <2>1, <2>2 DEF OthersRest, Active, Identity!Idle
    <3>3. \A d \in Identity!Op : d # c /\ Active(d) => d \notin Reset
      BY <2>4, <3>1 DEF Alone, Neighbours
    <3>4. \A d \in Identity!Op : Active(d) => OnItsWay(d)'
      BY <2>1, <2>2, <2>3, <2>4, <3>1, <3>3 DEF OnItsWay, OthersRest, Alone
    <3>5. Neighbours'
      BY <2>2, <2>4, <3>2 DEF Neighbours, OthersRest, Alone
    <3> QED BY <2>1, <2>3, <2>4, <3>1, <3>2, <3>4, <3>5 DEF Alone
  <2> QED BY <1>0, <2>1, <2>2, <2>3, <2>4 DEF IdentityInv
<1>7. ASSUME NEW c \in Identity!Op, Identity!Enrolled(c) PROVE IdentityInv'
  <2>1. /\ c \in EnrollCall /\ op[c].state = "paired" /\ enrolledAs' \in {op[c].key, enrolledAs}
        /\ op' = [op EXCEPT ![c] = [state |-> "done", key |-> 0, device |-> 0]]
        /\ UNCHANGED <<storedKey, answeredBy, pair, token, keys, identityOverlapped>>
    BY <1>7 DEF Identity!Enrolled, Identity!End
  <2>2. /\ op' \in [Identity!Op -> [state : CallState, key : Nat, device : Nat]]
        /\ op'[c] = [state |-> "done", key |-> 0, device |-> 0] /\ OthersRest(c)
    BY <1>0, <2>1 DEF OthersRest, CallState
  <2>3. Identity!TypeOK' /\ TheKey' = TheKey /\ (Reliable' <=> Reliable)
    BY <1>0, <2>1, <2>2 DEF Identity!TypeOK, OthersRest, TheKey, Reliable
  <2>4. ASSUME Alone PROVE Alone'
    <3>1. Active(c) /\ op[c].key = TheKey /\ TheKey # 0 /\ c \notin Reset
      BY <2>1, <2>4 DEF Active, Identity!Idle, Alone, OnItsWay
    <3>2. ~Active(c)' /\ \A d \in Identity!Op : d # c => (Active(d)' <=> Active(d)) /\ op'[d] = op[d]
      BY <2>2 DEF OthersRest, Active, Identity!Idle
    <3>3. enrolledAs' = enrolledAs \/ (enrolledAs = 0 /\ enrolledAs' = TheKey)
      BY <2>1, <2>4, <3>1 DEF Alone
    <3>4. \A d \in Identity!Op : d # c /\ Active(d) => d \notin Reset /\ OnItsWay(d)
      BY <2>4, <3>1 DEF Alone, Neighbours
    <3>5. \A d \in Identity!Op : d # c /\ Active(d) => OnItsWay(d)'
      BY <2>1, <2>3, <3>2, <3>3, <3>4 DEF OnItsWay
    <3>6. Neighbours'
      BY <2>4, <3>2 DEF Neighbours, Alone
    <3> QED BY <2>1, <2>3, <2>4, <3>2, <3>3, <3>5, <3>6 DEF Alone
  <2> QED BY <1>0, <2>1, <2>2, <2>3, <2>4 DEF IdentityInv
<1>8. ASSUME NEW c \in Identity!Op, NEW to \in [state : {"done", "failed"}, key : {0}, device : {0}],
             op' = [op EXCEPT ![c] = to],
             UNCHANGED <<answeredBy, enrolledAs, pair, keys, identityOverlapped>>,
             token' = token \/ (token' = op[c].device /\ c \in AssertCall /\ Active(c)),
             storedKey' = storedKey \/
               (storedKey' = [storedKey EXCEPT !["IndexedDB"] = 0] /\ op[c].state = "deleting")
      PROVE IdentityInv'
  <2>1. /\ op' \in [Identity!Op -> [state : CallState, key : Nat, device : Nat]]
        /\ op'[c] = to /\ OthersRest(c)
    BY <1>0, <1>8 DEF OthersRest, CallState
  <2>2. Identity!TypeOK' /\ (Reliable' <=> Reliable)
    <3>1. storedKey' \in [Identity!Place -> 0..keys]
      BY <1>0, <1>8
    <3> QED BY <1>0, <1>8, <2>1, <3>1 DEF Identity!TypeOK, OthersRest, Reliable
  <2>3. ASSUME Alone, Reliable PROVE Alone'
    <3>1. ~Active(c)' /\ \A d \in Identity!Op : d # c => (Active(d)' <=> Active(d)) /\ op'[d] = op[d]
      BY <2>1 DEF OthersRest, Active, Identity!Idle
    <3>2. token' \in {0, enrolledAs}
      BY <1>8, <2>3 DEF Alone, OnItsWay
    <3>3. Neighbours'
      BY <2>3, <3>1 DEF Neighbours, Alone
    <3>4. CASE storedKey' = storedKey
      <4>1. TheKey' = TheKey
        BY <3>4 DEF TheKey
      <4>2. \A d \in Identity!Op : d # c /\ Active(d) => OnItsWay(d)'
        BY <1>8, <2>3, <3>1, <4>1 DEF Alone, OnItsWay
      <4> QED BY <1>8, <2>3, <3>1, <3>2, <3>3, <3>4, <4>1, <4>2 DEF Alone
    <3>5. CASE storedKey' = [storedKey EXCEPT !["IndexedDB"] = 0] /\ op[c].state = "deleting"
      <4>1. Active(c) /\ c \in Reset /\ enrolledAs = 0 /\ pair = 0
        BY <2>3, <3>5 DEF Active, Identity!Idle, Alone, OnItsWay
      <4>2. \A d \in Identity!Op : d # c /\ Active(d) => d \in Reset /\ OnItsWay(d) /\ d \notin AssertCall
        BY <2>3, <4>1 DEF Alone, Neighbours
      <4>3. \A d \in Identity!Op : d # c /\ Active(d) => op[d].state = "deleting"
        BY <1>0, <4>2 DEF OnItsWay, Active, Identity!Idle, CallState
      <4>4. \A d \in Identity!Op : d # c /\ Active(d) => OnItsWay(d)'
        BY <1>8, <3>1, <4>1, <4>2, <4>3 DEF OnItsWay
      <4>5. \A p \in Identity!Place : p \notin answeredBy' => storedKey'[p] = 0
        BY <1>0, <1>8, <2>3, <3>5 DEF Alone
      <4> QED BY <1>8, <3>1, <3>2, <3>3, <4>1, <4>4, <4>5 DEF Alone
    <3> QED BY <1>8, <3>4, <3>5
  <2> QED BY <1>0, <1>8, <2>1, <2>2, <2>3 DEF IdentityInv
<1>9. ASSUME NEW c \in Identity!Op, Identity!Asserted(c) \/ Identity!Refused(c) \/ Identity!DeleteKey(c)
      PROVE IdentityInv'
  <2>1. /\ [state |-> "done", key |-> 0, device |-> 0] \in [state : {"done", "failed"}, key : {0}, device : {0}]
        /\ [state |-> "failed", key |-> 0, device |-> 0] \in [state : {"done", "failed"}, key : {0}, device : {0}]
    OBVIOUS
  <2>2. CASE Identity!Asserted(c)
    BY <1>8, <2>1, <2>2 DEF Identity!Asserted, Identity!End, Active, Identity!Idle
  <2>3. CASE Identity!Refused(c)
    BY <1>8, <2>1, <2>3 DEF Identity!Refused, Identity!End
  <2>4. CASE Identity!DeleteKey(c)
    BY <1>8, <2>1, <2>4 DEF Identity!DeleteKey, Identity!End
  <2> QED BY <1>9, <2>2, <2>3, <2>4
<1>10. CASE Identity!TokenExpires
  <2>1. token' = 0 /\ UNCHANGED <<storedKey, answeredBy, enrolledAs, pair, keys, op, identityOverlapped>>
    BY <1>10 DEF Identity!TokenExpires
  <2>2. Alone => Alone'
    BY <2>1 DEF Alone, Neighbours, Active, OnItsWay, TheKey
  <2> QED BY <1>0, <2>1, <2>2 DEF IdentityInv, Identity!TypeOK, Reliable
<1>11. CASE Identity!Reload
  <2>1. /\ pair' = 0 /\ token' = 0
        /\ UNCHANGED <<storedKey, answeredBy, enrolledAs, keys, identityOverlapped>>
        /\ op' = [c \in Identity!Op |-> IF op[c].state \in Identity!Idle THEN op[c]
                                        ELSE [state |-> "failed", key |-> 0, device |-> 0]]
    BY <1>11 DEF Identity!Reload
  <2>2. op' \in [Identity!Op -> [state : CallState, key : Nat, device : Nat]]
    BY <1>0, <2>1 DEF CallState
  <2>3. \A c \in Identity!Op : ~Active(c)'
    BY <1>0, <2>1 DEF Active, Identity!Idle
  <2>4. Identity!TypeOK'
    BY <1>0, <2>1 DEF Identity!TypeOK
  <2>5. Alone => Alone'
    BY <2>1, <2>3 DEF Alone, Neighbours, TheKey
  <2> QED BY <1>0, <2>1, <2>2, <2>4, <2>5 DEF IdentityInv, Reliable
<1> QED BY <1>1, <1>2, <1>3, <1>4, <1>5, <1>6, <1>7, <1>9, <1>10, <1>11 DEF Identity!Next

LEMMA IdentityRests == ASSUME IdentityInv, UNCHANGED identityVars PROVE IdentityInv'
  BY DEF IdentityInv, Identity!TypeOK, Alone, Neighbours, OnItsWay, Active, TheKey, Reliable, identityVars

-----------------------------------------------------------------------------
(* The web chat                                                           *)

SaidState == {"new", "routing", "judging", "reasoning", "asking", "ingesting", "done", "answered", "failed"}

WebTypes ==
  /\ chatSocket \in [Socket -> {"none", "open", "closed"}]
  /\ registrations \in 0..MaxRegistrations /\ registration \in [Socket -> 0..registrations]
  /\ clients \subseteq [id : 1..registrations, socket : Socket, user : ChatUser] /\ IsFiniteSet(clients)
  /\ channel \in {"connected", "error"}
  /\ turn \in [Said -> [state : SaidState, user : ChatUser \cup {None}, text : BOOLEAN]]
  /\ attending \in [Said -> SUBSET Socket] /\ heard \in [Socket -> [Said -> Nat]]
  /\ recorded \in [Said -> SUBSET {"question", "answer"}]

\* A socket that is open and identified has its last registration, under an id of its
\* own; it has a second one, or one that is left when it has closed, only if it
\* identified twice.
Registered ==
  /\ \A s \in Socket : chatSocket[s] = "open" /\ registration[s] # 0 =>
       \E r \in clients : r.id = registration[s] /\ r.socket = s
  /\ \A q, r \in clients : q.id = r.id => q = r
  /\ \A r \in clients : chatSocket[r.socket] # "none" /\ registration[r.socket] # 0
  /\ \A q, r \in clients : q.socket = r.socket /\ q # r => q.socket \in renamed
  /\ \A r \in clients : chatSocket[r.socket] = "closed" => r.socket \in renamed
  /\ \A s \in Socket : chatSocket[s] = "none" => registration[s] = 0

\* Until a turn ends nobody has heard of its end, and those who attend it listen.
Attended ==
  \A t \in Said :
    /\ turn[t].state = "new" => attending[t] = {}
    /\ ~Web!Ended(t) => \A s \in Socket : heard[s][t] = 0
    /\ ~Web!Ended(t) => \A s \in attending[t] : \E r \in Web!Listening(turn[t].user) : r.socket = s
    /\ Web!Ended(t) => \A s \in attending[t] : heard[s][t] >= 1
    /\ \A s \in Socket : heard[s][t] > 1 => s \in renamed

\* What a turn has recorded where it is.
RecordedSoFar ==
  \A t \in Said :
    /\ turn[t].state \in {"ingesting", "done"} => recorded[t] = {"question", "answer"}
    /\ turn[t].state = "failed" => recorded[t] \subseteq {"question"}
    /\ turn[t].state \notin {"ingesting", "done", "failed"} => recorded[t] = {}

WebInv == WebTypes /\ Registered /\ Attended /\ RecordedSoFar

Saying == [state : SaidState, user : ChatUser \cup {None}, text : BOOLEAN]
Registration == [id : 1..registrations, socket : Socket, user : ChatUser]

LEMMA WebConstants == ASSUME EdgesAssumption PROVE MaxRegistrations \in Nat /\ None \notin ChatUser
  BY DEF EdgesAssumption, Web!WebChatAssumption

LEMMA WebIsSafe ==
  ASSUME WebInv PROVE Web!TypeOK /\ Web!EndToldOnce /\ Web!DoneIsRecorded
<1>1. Web!TypeOK
  <2>1. ASSUME NEW s \in Socket, registration[s] # 0, chatSocket[s] # "closed"
        PROVE \E r \in clients : r.id = registration[s] /\ r.socket = s
    BY <2>1 DEF WebInv, WebTypes, Registered
  <2> QED BY <2>1 DEF WebInv, WebTypes, Registered, Web!TypeOK
<1>2. Web!EndToldOnce
  BY DEF WebInv, Attended, Registered, Web!EndToldOnce
<1>3. Web!DoneIsRecorded
  BY DEF WebInv, RecordedSoFar, WebTypes, Web!DoneIsRecorded
<1> QED BY <1>1, <1>2, <1>3

LEMMA WebStarts == ASSUME EdgesAssumption, Web!Init PROVE WebInv
<1>1. IsFiniteSet(clients)
  BY FS_EmptySet DEF Web!Init
<1>2. /\ turn = [t \in Said |-> [state |-> "new", user |-> None, text |-> FALSE]]
      /\ [state |-> "new", user |-> None, text |-> FALSE] \in Saying
  BY DEF Web!Init, Saying, SaidState
<1>3. turn \in [Said -> Saying] /\ \A t \in Said : turn[t].state = "new"
  BY <1>2
<1>4. WebTypes
  BY <1>1, <1>3, WebConstants DEF Web!Init, WebTypes, Saying
<1>5. \A t \in Said : ~Web!Ended(t)
  BY <1>3 DEF Web!Ended
<1>6. Attended
  BY <1>3, <1>5 DEF Web!Init, Attended
<1>7. Registered /\ RecordedSoFar
  BY <1>3 DEF Web!Init, Registered, RecordedSoFar
<1> QED BY <1>4, <1>6, <1>7 DEF WebInv

LEMMA WebCardinality == \A S : Web!Cardinality(S) = Cardinality(S)
  BY DEF Web!Cardinality, Cardinality

\* Every registration of a socket that listens is told, and only one that identified
\* twice is told twice.
LEMMA ToldOnce ==
  ASSUME WebInv, NEW s \in Socket, NEW u
  PROVE LET R == {r \in Web!Listening(u) : r.socket = s} IN
        /\ Cardinality(R) \in Nat
        /\ (\E r \in Web!Listening(u) : r.socket = s) => Cardinality(R) >= 1
        /\ Cardinality(R) > 1 => s \in renamed
<1> DEFINE R == {r \in Web!Listening(u) : r.socket = s}
<1>1. R \subseteq clients /\ IsFiniteSet(clients)
  BY DEF Web!Listening, WebInv, WebTypes
<1>2. IsFiniteSet(R) /\ Cardinality(R) \in Nat
  BY <1>1, FS_Subset, FS_CardinalityType
<1>3. R # {} => Cardinality(R) >= 1
  <2>1. R # {} => Cardinality(R) # 0
    BY <1>2, FS_EmptySet
  <2> QED BY <1>2, <2>1
<1>4. ASSUME s \notin renamed PROVE Cardinality(R) <= 1
  <2>1. \A q, r \in R : q = r
    BY <1>1, <1>4 DEF WebInv, Registered
  <2>2. CASE R = {}
    BY <2>2, FS_EmptySet
  <2>3. CASE R # {}
    <3>1. PICK r : R = {r}
      BY <2>1, <2>3
    <3>2. Cardinality({r}) = 1
      BY FS_Singleton
    <3> QED BY <3>1, <3>2
  <2> QED BY <2>2, <2>3
<1>5. Cardinality(R) > 1 => s \in renamed
  BY <1>2, <1>4
<1>6. (\E r \in Web!Listening(u) : r.socket = s) => R # {}
  OBVIOUS
<1> QED BY <1>2, <1>3, <1>5, <1>6

\* A step of a turn that has been said and has not ended: it goes on, or its end is told.
LEMMA TurnGoesOn ==
  ASSUME WebInv, NEW t \in Said, turn[t].state # "new", ~Web!Ended(t),
         turn' \in [Said -> Saying], turn'[t].state # "new", turn'[t].user = turn[t].user,
         \A o \in Said : o # t => turn'[o] = turn[o],
         UNCHANGED <<Web!connectionVars, attending>>,
         \/ ~Web!Ended(t)' /\ UNCHANGED heard
         \/ Web!Ended(t)' /\ Web!TellEnd(t)
  PROVE /\ Registered' /\ Attended'
        /\ heard' \in [Socket -> [Said -> Nat]]
<1>1. UNCHANGED <<chatSocket, registration, clients, registrations, renamed>>
  BY DEF Web!connectionVars
<1>2. Registered'
  BY <1>1 DEF WebInv, Registered
<1>3. \A o \in Said : o # t => (Web!Ended(o)' <=> Web!Ended(o))
  BY DEF Web!Ended
<1>4. \A u : Web!Listening(u)' = Web!Listening(u)
  BY <1>1 DEF Web!Listening
<1>5. /\ heard \in [Socket -> [Said -> Nat]] /\ \A s \in Socket : heard[s][t] = 0
      /\ \A s \in attending[t] : \E r \in Web!Listening(turn[t].user) : r.socket = s
      /\ attending \in [Said -> SUBSET Socket]
  BY DEF WebInv, WebTypes, Attended
<1>6. CASE ~Web!Ended(t)' /\ UNCHANGED heard
  <2>1. Attended'
    BY <1>1, <1>3, <1>4, <1>5, <1>6 DEF WebInv, Attended
  <2> QED BY <1>2, <1>5, <1>6, <2>1
<1>7. CASE Web!Ended(t)' /\ Web!TellEnd(t)
  <2> DEFINE ends(s) == Cardinality({r \in Web!Listening(turn[t].user) : r.socket = s})
  <2>1. \A s \in Socket : /\ ends(s) \in Nat
                          /\ (\E r \in Web!Listening(turn[t].user) : r.socket = s) => ends(s) >= 1
                          /\ ends(s) > 1 => s \in renamed
    BY ToldOnce
  <2>2. heard' = [s \in Socket |-> [heard[s] EXCEPT ![t] = @ + ends(s)]]
    BY <1>7, WebCardinality DEF Web!TellEnd
  <2> HIDE DEF ends
  <2>3. ASSUME NEW s \in Socket PROVE heard'[s] = [heard[s] EXCEPT ![t] = ends(s)]
    <3>1. heard[s][t] + ends(s) = ends(s)
      BY <1>5, <2>1
    <3>2. heard'[s] = [heard[s] EXCEPT ![t] = heard[s][t] + ends(s)]
      BY <2>2
    <3> QED BY <3>1, <3>2
  <2>4. heard' \in [Socket -> [Said -> Nat]]
    <3>1. \A s \in Socket : [heard[s] EXCEPT ![t] = ends(s)] \in [Said -> Nat]
      BY <1>5, <2>1
    <3> QED BY <2>2, <2>3, <3>1
  <2>5. ASSUME NEW s \in Socket
        PROVE heard'[s][t] = ends(s) /\ \A o \in Said : o # t => heard'[s][o] = heard[s][o]
    <3>1. heard[s] \in [Said -> Nat]
      BY <1>5
    <3> QED BY <2>3, <3>1
  <2>6. \A s \in attending[t] : s \in Socket /\ heard'[s][t] >= 1
    BY <1>5, <2>1, <2>5
  <2>7. ASSUME NEW o \in Said
        PROVE  /\ turn'[o].state = "new" => attending'[o] = {}
               /\ ~Web!Ended(o)' => \A s \in Socket : heard'[s][o] = 0
               /\ ~Web!Ended(o)' => \A s \in attending'[o] :
                    \E r \in Web!Listening(turn[o].user)' : r.socket = s
               /\ Web!Ended(o)' => \A s \in attending'[o] : heard'[s][o] >= 1
               /\ \A s \in Socket : heard'[s][o] > 1 => s \in renamed'
    <3>1. CASE o = t
      BY <1>1, <1>7, <2>1, <2>5, <2>6, <3>1
    <3>2. CASE o # t
      <4>1. /\ turn'[o] = turn[o] /\ (Web!Ended(o)' <=> Web!Ended(o)) /\ attending'[o] = attending[o]
            /\ \A s \in Socket : heard'[s][o] = heard[s][o]
            /\ attending[o] \subseteq Socket /\ renamed' = renamed
        BY <1>1, <1>3, <1>5, <2>5, <3>2
      <4>2. Web!Listening(turn[o].user)' = Web!Listening(turn[o].user)
        BY <1>1, <4>1 DEF Web!Listening
      <4> QED BY <4>1, <4>2 DEF WebInv, Attended
    <3> QED BY <3>1, <3>2
  <2>8. Attended'
    BY <2>7 DEF Attended
  <2> QED BY <1>2, <2>4, <2>8
<1> QED BY <1>6, <1>7

\* What a turn that goes on has recorded.
LEMMA TurnKeeps ==
  ASSUME WebInv, NEW t \in Said, turn[t].state \notin {"new", "done", "answered", "failed"},
         NEW to \in Saying, turn' = [turn EXCEPT ![t] = to],
         to.state # "new", to.user = turn[t].user,
         UNCHANGED <<Web!connectionVars, attending>>, channel' \in {"connected", "error"},
         \/ to.state \notin {"done", "answered", "failed"} /\ UNCHANGED heard
         \/ to.state \in {"done", "answered", "failed"} /\ Web!TellEnd(t),
         recorded' \in [Said -> SUBSET {"question", "answer"}],
         \A o \in Said : o # t => recorded'[o] = recorded[o],
         to.state \in {"ingesting", "done"} => recorded'[t] = {"question", "answer"},
         to.state = "failed" => recorded'[t] \subseteq {"question"},
         to.state \notin {"ingesting", "done", "failed"} => recorded'[t] = {}
  PROVE WebInv'
<1>1. turn' \in [Said -> Saying] /\ turn'[t] = to /\ \A o \in Said : o # t => turn'[o] = turn[o]
  BY DEF WebInv, WebTypes, Saying
<1>2. ~Web!Ended(t) /\ turn[t].state # "new"
  BY DEF Web!Ended
<1>3. Web!Ended(t)' <=> to.state \in {"done", "answered", "failed"}
  BY <1>1 DEF Web!Ended
<1>4. Registered' /\ Attended' /\ heard' \in [Socket -> [Said -> Nat]]
  BY <1>1, <1>2, <1>3, TurnGoesOn
<1>5. UNCHANGED <<chatSocket, registration, clients, registrations, renamed>>
  BY DEF Web!connectionVars
<1>6. WebTypes'
  BY <1>1, <1>4, <1>5 DEF WebInv, WebTypes, Saying
<1>7. RecordedSoFar'
  BY <1>1 DEF WebInv, RecordedSoFar
<1> QED BY <1>4, <1>6, <1>7 DEF WebInv

\* The turn with another state, or a text.
LEMMA Replaced ==
  ASSUME WebInv, NEW t \in Said, NEW state \in SaidState
  PROVE LET a == [turn[t] EXCEPT !.state = state]
            b == [turn[t] EXCEPT !.text = TRUE]
            c == [turn[t] EXCEPT !.state = state, !.text = TRUE]
        IN /\ a \in Saying /\ a.state = state /\ a.user = turn[t].user
           /\ b \in Saying /\ b.state = turn[t].state /\ b.user = turn[t].user
           /\ c \in Saying /\ c.state = state /\ c.user = turn[t].user
           /\ [turn EXCEPT ![t].state = state] = [turn EXCEPT ![t] = a]
           /\ [turn EXCEPT ![t].text = TRUE] = [turn EXCEPT ![t] = b]
           /\ [turn EXCEPT ![t].state = state, ![t].text = TRUE] = [turn EXCEPT ![t] = c]
<1>1. turn \in [Said -> Saying] /\ turn[t] \in Saying
  BY DEF WebInv, WebTypes, Saying
<1> QED BY <1>1 DEF Saying

\* A step that does not touch the turns, what was heard and what was recorded.
LEMMA ConnectionsKeep ==
  ASSUME WebInv, UNCHANGED <<channel, turn, heard, recorded>>,
         chatSocket' \in [Socket -> {"none", "open", "closed"}],
         registrations' \in 0..MaxRegistrations, registration' \in [Socket -> 0..registrations'],
         clients' \subseteq [id : 1..registrations', socket : Socket, user : ChatUser],
         IsFiniteSet(clients'), Registered', renamed \subseteq renamed',
         \A t \in Said : attending'[t] \subseteq attending[t], attending' \in [Said -> SUBSET Socket],
         \A t \in Said : \A s \in attending'[t] : \A r \in clients :
           chatSocket[r.socket] = "open" /\ r.socket = s => r \in clients' /\ chatSocket'[r.socket] = "open"
  PROVE WebInv'
<1>1. WebTypes'
  BY DEF WebInv, WebTypes
<1>2. RecordedSoFar'
  BY DEF WebInv, RecordedSoFar
<1>3. \A t \in Said : Web!Ended(t)' <=> Web!Ended(t)
  BY DEF Web!Ended
<1>4. ASSUME NEW t \in Said, ~Web!Ended(t), NEW s \in attending'[t]
      PROVE \E r \in Web!Listening(turn[t].user)' : r.socket = s
  <2>1. PICK r \in Web!Listening(turn[t].user) : r.socket = s
    BY <1>4 DEF WebInv, Attended
  <2>2. r \in clients /\ r.user = turn[t].user /\ chatSocket[r.socket] = "open"
    BY <2>1 DEF Web!Listening
  <2> QED BY <1>4, <2>1, <2>2 DEF Web!Listening
<1>5. Attended'
  BY <1>3, <1>4 DEF WebInv, Attended
<1> QED BY <1>1, <1>2, <1>5 DEF WebInv

LEMMA SocketsKeep ==
  ASSUME EdgesAssumption, WebInv, NEW s \in Socket,
         Web!Connect(s) \/ Web!Gone(s) \/ \E u \in ChatUser : Web!Identify(s, u)
  PROVE WebInv'
<1>0. /\ chatSocket \in [Socket -> {"none", "open", "closed"}]
      /\ registrations \in 0..MaxRegistrations /\ registration \in [Socket -> 0..registrations]
      /\ clients \subseteq [id : 1..registrations, socket : Socket, user : ChatUser] /\ IsFiniteSet(clients)
      /\ attending \in [Said -> SUBSET Socket]
      /\ registrations \in Nat /\ MaxRegistrations \in Nat
      /\ \A r \in clients : r.id \in 1..registrations /\ r.socket \in Socket
  BY WebConstants DEF WebInv, WebTypes
<1>1. CASE Web!Connect(s)
  <2>1. /\ chatSocket[s] = "none" /\ chatSocket' = [chatSocket EXCEPT ![s] = "open"]
        /\ UNCHANGED <<registration, clients, registrations, renamed, channel, turn, attending, heard, recorded>>
    BY <1>1 DEF Web!Connect
  <2>2. registration[s] = 0 /\ \A r \in clients : r.socket # s
    BY <2>1 DEF WebInv, Registered
  <2>3. chatSocket' \in [Socket -> {"none", "open", "closed"}] /\ chatSocket'[s] = "open"
        /\ \A o \in Socket : o # s => chatSocket'[o] = chatSocket[o]
    BY <1>0, <2>1
  <2>4. Registered'
    BY <1>0, <2>1, <2>2, <2>3 DEF WebInv, Registered
  <2>5. \A r \in clients : chatSocket[r.socket] = "open" => chatSocket'[r.socket] = "open"
    BY <1>0, <2>2, <2>3
  <2> QED BY <1>0, <2>1, <2>3, <2>4, <2>5, ConnectionsKeep
<1>2. CASE Web!Gone(s)
  <2>1. /\ chatSocket[s] = "open" /\ chatSocket' = [chatSocket EXCEPT ![s] = "closed"]
        /\ clients' = {r \in clients : r.id # registration[s]}
        /\ attending' = [t \in Said |-> attending[t] \ {s}]
        /\ UNCHANGED <<registration, registrations, renamed, channel, turn, heard, recorded>>
    BY <1>2 DEF Web!Gone
  <2>2. chatSocket' \in [Socket -> {"none", "open", "closed"}] /\ chatSocket'[s] = "closed"
        /\ \A o \in Socket : o # s => chatSocket'[o] = chatSocket[o]
    BY <1>0, <2>1
  <2>3. \A r \in clients : r.id = registration[s] => r.socket = s
    BY <1>0, <2>1 DEF WebInv, Registered
  <2>4. clients' \subseteq clients /\ IsFiniteSet(clients')
    BY <1>0, <2>1, FS_Subset
  <2>5. \A r \in clients' : r.socket = s => s \in renamed
    <3> SUFFICES ASSUME NEW r \in clients, r.id # registration[s], r.socket = s PROVE s \in renamed
      BY <2>1
    <3>1. registration[s] # 0
      BY DEF WebInv, Registered
    <3>2. PICK q \in clients : q.id = registration[s] /\ q.socket = s
      BY <2>1, <3>1 DEF WebInv, Registered
    <3> QED BY <3>2 DEF WebInv, Registered
  <2>6. Registered'
    <3>1. ASSUME NEW o \in Socket, chatSocket'[o] = "open", registration'[o] # 0
          PROVE \E r \in clients' : r.id = registration'[o] /\ r.socket = o
      <4>1. o # s /\ chatSocket[o] = "open" /\ registration[o] # 0
        BY <2>1, <2>2, <3>1
      <4>2. PICK r \in clients : r.id = registration[o] /\ r.socket = o
        BY <4>1 DEF WebInv, Registered
      <4> QED BY <2>1, <2>3, <4>1, <4>2
    <3>2. \A o \in Socket : chatSocket'[o] = "none" => registration'[o] = 0
      BY <2>1, <2>2 DEF WebInv, Registered
    <3>3. \A r \in clients' : /\ chatSocket'[r.socket] # "none" /\ registration'[r.socket] # 0
                              /\ chatSocket'[r.socket] = "closed" => r.socket \in renamed'
      BY <1>0, <2>1, <2>2, <2>4, <2>5 DEF WebInv, Registered
    <3>4. \A q, r \in clients' : /\ q.id = r.id => q = r
                                 /\ q.socket = r.socket /\ q # r => q.socket \in renamed'
      BY <2>1, <2>4 DEF WebInv, Registered
    <3> QED BY <3>1, <3>2, <3>3, <3>4 DEF Registered
  <2>7. /\ attending' \in [Said -> SUBSET Socket]
        /\ \A t \in Said : attending'[t] \subseteq attending[t] /\ s \notin attending'[t]
    BY <1>0, <2>1
  <2>8. ASSUME NEW t \in Said, NEW o \in attending'[t], NEW r \in clients,
               chatSocket[r.socket] = "open", r.socket = o
        PROVE r \in clients' /\ chatSocket'[r.socket] = "open"
    <3>1. r.socket # s /\ r.socket \in Socket
      BY <1>0, <2>7, <2>8
    <3> QED BY <2>1, <2>2, <2>3, <2>8, <3>1
  <2> QED BY <1>0, <2>1, <2>2, <2>4, <2>6, <2>7, <2>8, ConnectionsKeep
<1>3. ASSUME NEW u \in ChatUser, Web!Identify(s, u) PROVE WebInv'
  <2> DEFINE new == [id |-> registrations + 1, socket |-> s, user |-> u]
  <2>1. /\ chatSocket[s] = "open" /\ registrations < MaxRegistrations
        /\ registrations' = registrations + 1
        /\ registration' = [registration EXCEPT ![s] = registrations + 1]
        /\ clients' = clients \cup {new}
        /\ renamed' = IF registration[s] # 0 THEN renamed \cup {s} ELSE renamed
        /\ UNCHANGED <<chatSocket, channel, turn, attending, heard, recorded>>
    BY <1>3 DEF Web!Identify
  <2>2. new.id = registrations + 1 /\ new.socket = s /\ new.user = u
        /\ new \in [id : 1..registrations + 1, socket : Socket, user : ChatUser]
    BY <1>0
  <2> HIDE DEF new
  <2>3. registrations' \in 0..MaxRegistrations /\ registrations + 1 # 0
        /\ \A n \in 0..registrations : n \in 0..registrations'
        /\ \A m \in 1..registrations : m \in 1..registrations' /\ m # registrations + 1
    BY <1>0, <2>1
  <2>4. registration' \in [Socket -> 0..registrations'] /\ registration'[s] = registrations + 1
        /\ \A o \in Socket : o # s => registration'[o] = registration[o]
    <3>1. registrations + 1 \in 0..registrations'
      BY <1>0, <2>1
    <3> QED BY <1>0, <2>1, <2>3, <3>1
  <2>5. clients' \subseteq [id : 1..registrations', socket : Socket, user : ChatUser]
    BY <1>0, <2>1, <2>2, <2>3
  <2>6. IsFiniteSet(clients')
    BY <1>0, <2>1, FS_AddElement
  <2>7. Registered'
    <3>1. ASSUME NEW o \in Socket, chatSocket'[o] = "open", registration'[o] # 0
          PROVE \E r \in clients' : r.id = registration'[o] /\ r.socket = o
      <4>1. CASE o = s
        BY <2>1, <2>2, <2>4, <4>1
      <4>2. CASE o # s
        BY <2>1, <2>4, <3>1, <4>2 DEF WebInv, Registered
      <4> QED BY <4>1, <4>2
    <3>2. \A o \in Socket : chatSocket'[o] = "none" => registration'[o] = 0
      BY <2>1, <2>4 DEF WebInv, Registered
    <3>3. \A r \in clients' : /\ chatSocket'[r.socket] # "none" /\ registration'[r.socket] # 0
                              /\ chatSocket'[r.socket] = "closed" => r.socket \in renamed'
      <4>1. ASSUME NEW r \in clients
            PROVE /\ chatSocket'[r.socket] # "none" /\ registration'[r.socket] # 0
                  /\ chatSocket'[r.socket] = "closed" => r.socket \in renamed'
        BY <1>0, <2>1, <2>3, <2>4 DEF WebInv, Registered
      <4>2. /\ chatSocket'[new.socket] # "none" /\ registration'[new.socket] # 0
            /\ chatSocket'[new.socket] # "closed"
        BY <2>1, <2>2, <2>3, <2>4
      <4> QED BY <2>1, <4>1, <4>2
    <3>4. \A q, r \in clients' : q.id = r.id => q = r
      BY <1>0, <2>1, <2>2, <2>3 DEF WebInv, Registered
    <3>5. \A q, r \in clients' : q.socket = r.socket /\ q # r => q.socket \in renamed'
      <4>1. \A r \in clients : r.socket = s => s \in renamed'
        BY <2>1 DEF WebInv, Registered
      <4> QED BY <2>1, <2>2, <4>1 DEF WebInv, Registered
    <3> QED BY <3>1, <3>2, <3>3, <3>4, <3>5 DEF Registered
  <2> QED BY <1>0, <2>1, <2>3, <2>4, <2>5, <2>6, <2>7, ConnectionsKeep
<1> QED BY <1>1, <1>2, <1>3

LEMMA SayKeeps ==
  ASSUME EdgesAssumption, WebInv, NEW s \in Socket, NEW t \in Said, Web!Say(s, t) PROVE WebInv'
<1> DEFINE u == Web!UserOf(s)
<1>1. /\ chatSocket[s] = "open" /\ registration[s] # 0 /\ turn[t].state = "new"
      /\ turn' = [turn EXCEPT ![t].state = "routing", ![t].user = u]
      /\ attending' = [attending EXCEPT ![t] = {r.socket : r \in Web!Listening(u)}]
      /\ channel' = "connected"
      /\ UNCHANGED <<chatSocket, registration, clients, registrations, renamed, heard, recorded>>
  BY DEF Web!Say, Web!connectionVars
<1>2. u \in ChatUser
  <2>1. \E r \in clients : r.id = registration[s]
    BY <1>1 DEF WebInv, Registered
  <2>2. \A r \in clients : r.user \in ChatUser
    BY DEF WebInv, WebTypes
  <2> QED BY <2>1, <2>2 DEF Web!UserOf
<1> HIDE DEF u
<1>3. turn \in [Said -> Saying] /\ attending \in [Said -> SUBSET Socket] /\ recorded \in [Said -> SUBSET {"question", "answer"}]
  BY DEF WebInv, WebTypes, Saying
<1>4. /\ turn' \in [Said -> Saying] /\ turn'[t].state = "routing" /\ turn'[t].user = u
      /\ \A o \in Said : o # t => turn'[o] = turn[o]
  <2>1. turn[t] \in Saying
    BY <1>3
  <2>2. turn'[t].state = "routing" /\ turn'[t].user = u
    BY <1>1, <1>3, <2>1 DEF Saying
  <2>3. \A o \in Said : o # t => turn'[o] = turn[o]
    BY <1>1, <1>3
  <2>4. turn' \in [Said -> Saying]
    BY <1>1, <1>2, <1>3, <2>1 DEF Saying, SaidState
  <2> QED BY <2>2, <2>3, <2>4
<1>5. {r.socket : r \in Web!Listening(u)} \subseteq Socket
  BY DEF WebInv, WebTypes, Web!Listening
<1>6. attending' \in [Said -> SUBSET Socket] /\ attending'[t] = {r.socket : r \in Web!Listening(u)}
      /\ \A o \in Said : o # t => attending'[o] = attending[o]
  BY <1>1, <1>3, <1>5
<1>7. WebTypes'
  BY <1>1, <1>4, <1>6 DEF WebInv, WebTypes, Saying
<1>8. Registered'
  BY <1>1 DEF WebInv, Registered
<1>9. RecordedSoFar'
  BY <1>1, <1>4 DEF WebInv, RecordedSoFar
<1>10. \A v : Web!Listening(v)' = Web!Listening(v)
  BY <1>1 DEF Web!Listening
<1>11. ~Web!Ended(t) /\ ~Web!Ended(t)' /\ \A o \in Said : o # t => (Web!Ended(o)' <=> Web!Ended(o))
  BY <1>1, <1>4 DEF Web!Ended
<1>12. \A o \in attending'[t] : \E r \in Web!Listening(u) : r.socket = o
  BY <1>6
<1>13. Attended'
  BY <1>1, <1>4, <1>6, <1>10, <1>11, <1>12 DEF WebInv, Attended
<1> QED BY <1>7, <1>8, <1>9, <1>13 DEF WebInv

\* A turn that fails where it is.
LEMMA FailKeeps ==
  ASSUME WebInv, NEW t \in Said, turn[t].state \notin {"new", "done", "answered", "failed"}, Web!Fail(t),
         UNCHANGED <<Web!connectionVars, attending>>,
         recorded' \in [Said -> SUBSET {"question", "answer"}], recorded'[t] \subseteq {"question"},
         \A o \in Said : o # t => recorded'[o] = recorded[o]
  PROVE WebInv'
<1> DEFINE to == [turn[t] EXCEPT !.state = "failed"]
<1>1. /\ turn' = [turn EXCEPT ![t].state = "failed"] /\ Web!TellEnd(t) /\ channel' \in {"connected", "error"}
  BY DEF Web!Fail, Web!To
<1>2. to \in Saying /\ to.state = "failed" /\ to.user = turn[t].user /\ turn' = [turn EXCEPT ![t] = to]
  BY <1>1, Replaced DEF SaidState
<1> HIDE DEF to
<1> QED BY <1>1, <1>2, TurnKeeps

\* A turn that goes on to another state, or that fails instead.
LEMMA OrFailKeeps ==
  ASSUME WebInv, NEW t \in Said, turn[t].state \in {"routing", "judging", "reasoning"},
         NEW to \in Saying, to.state \in {"routing", "judging", "reasoning", "asking"}, to.user = turn[t].user,
         Web!OrFail(t, turn' = [turn EXCEPT ![t] = to]), UNCHANGED recorded
  PROVE WebInv'
<1>0. /\ recorded \in [Said -> SUBSET {"question", "answer"}] /\ recorded[t] = {}
      /\ channel \in {"connected", "error"}
  BY DEF WebInv, WebTypes, RecordedSoFar
<1>1. UNCHANGED <<Web!connectionVars, attending>>
  BY DEF Web!OrFail
<1>2. CASE turn' = [turn EXCEPT ![t] = to] /\ UNCHANGED <<heard, channel>>
  BY <1>0, <1>1, <1>2, TurnKeeps
<1>3. CASE Web!Fail(t)
  BY <1>0, <1>1, <1>3, FailKeeps
<1> QED BY <1>2, <1>3 DEF Web!OrFail

LEMMA TurnStepsKeep ==
  ASSUME WebInv, NEW t \in Said,
         \/ Web!Route(t) \/ Web!Judge(t) \/ Web!Reason(t) \/ Web!ReasonerEnds(t)
         \/ Web!AppendBoth(t) \/ Web!Ingest(t)
  PROVE WebInv'
<1>0. /\ recorded \in [Said -> SUBSET {"question", "answer"}]
      /\ channel \in {"connected", "error"}
  BY DEF WebInv, WebTypes
<1>1. CASE Web!Route(t)
  <2>1. turn[t].state = "routing" /\ Web!OrFail(t, turn' = [turn EXCEPT ![t] = [turn[t] EXCEPT !.state = "judging"]])
        /\ UNCHANGED recorded
    BY <1>1, Replaced DEF Web!Route, Web!OrFail, Web!To, SaidState
  <2> QED BY <2>1, Replaced, OrFailKeeps DEF SaidState
<1>2. CASE Web!Judge(t)
  <2>0. turn[t].state = "judging" /\ UNCHANGED recorded
    BY <1>2 DEF Web!Judge
  <2>1. CASE Web!OrFail(t, Web!To(t, "reasoning"))
    <3>1. Web!OrFail(t, turn' = [turn EXCEPT ![t] = [turn[t] EXCEPT !.state = "reasoning"]])
      BY <2>1, Replaced DEF Web!OrFail, Web!To, SaidState
    <3> QED BY <2>0, <3>1, Replaced, OrFailKeeps DEF SaidState
  <2>2. CASE /\ turn' = [turn EXCEPT ![t].state = "answered"]
             /\ Web!TellEnd(t) /\ UNCHANGED <<Web!connectionVars, channel, attending>>
    <3> DEFINE to == [turn[t] EXCEPT !.state = "answered"]
    <3>1. to \in Saying /\ to.state = "answered" /\ to.user = turn[t].user /\ turn' = [turn EXCEPT ![t] = to]
      BY <2>2, Replaced DEF SaidState
    <3>2. recorded[t] = {}
      BY <2>0 DEF WebInv, RecordedSoFar
    <3> HIDE DEF to
    <3> QED BY <1>0, <2>0, <2>2, <3>1, <3>2, TurnKeeps
  <2> QED BY <1>2, <2>1, <2>2 DEF Web!Judge
<1>3. CASE Web!Reason(t)
  <2>1. turn[t].state = "reasoning" /\ Web!OrFail(t, turn' = [turn EXCEPT ![t] = [turn[t] EXCEPT !.text = TRUE]])
        /\ UNCHANGED recorded
    BY <1>3, Replaced DEF Web!Reason, Web!OrFail, SaidState
  <2>2. LET b == [turn[t] EXCEPT !.text = TRUE] IN
        b \in Saying /\ b.state = turn[t].state /\ b.user = turn[t].user
    <3>1. "done" \in SaidState
      BY DEF SaidState
    <3> QED BY <3>1, Replaced
  <2> QED BY <2>1, <2>2, OrFailKeeps
<1>4. CASE Web!ReasonerEnds(t)
  <2>1. turn[t].state = "reasoning"
        /\ Web!OrFail(t, turn' = [turn EXCEPT ![t] = [turn[t] EXCEPT !.state = "asking", !.text = TRUE]])
        /\ UNCHANGED recorded
    BY <1>4, Replaced DEF Web!ReasonerEnds, Web!OrFail, SaidState
  <2> QED BY <2>1, Replaced, OrFailKeeps DEF SaidState
<1>5. CASE Web!AppendBoth(t)
  <2>0. turn[t].state = "asking" /\ UNCHANGED <<Web!connectionVars, attending>> /\ recorded[t] = {}
    BY <1>5 DEF Web!AppendBoth, WebInv, RecordedSoFar
  <2>1. CASE Web!To(t, "ingesting") /\ recorded' = [recorded EXCEPT ![t] = {"question", "answer"}]
             /\ UNCHANGED <<heard, channel>>
    <3> DEFINE to == [turn[t] EXCEPT !.state = "ingesting"]
    <3>1. to \in Saying /\ to.state = "ingesting" /\ to.user = turn[t].user /\ turn' = [turn EXCEPT ![t] = to]
      BY <2>1, Replaced DEF SaidState, Web!To
    <3>2. recorded' \in [Said -> SUBSET {"question", "answer"}] /\ recorded'[t] = {"question", "answer"}
          /\ \A o \in Said : o # t => recorded'[o] = recorded[o]
      BY <1>0, <2>1
    <3> HIDE DEF to
    <3> QED BY <1>0, <2>0, <2>1, <3>1, <3>2, TurnKeeps
  <2>2. CASE Web!Fail(t) /\ (UNCHANGED recorded \/ Web!Record(t, "question"))
    <3>1. recorded' \in [Said -> SUBSET {"question", "answer"}] /\ recorded'[t] \subseteq {"question"}
          /\ \A o \in Said : o # t => recorded'[o] = recorded[o]
      BY <1>0, <2>0, <2>2 DEF Web!Record
    <3> QED BY <2>0, <2>2, <3>1, FailKeeps
  <2> QED BY <1>5, <2>1, <2>2 DEF Web!AppendBoth
<1>6. CASE Web!Ingest(t)
  <2> DEFINE to == [turn[t] EXCEPT !.state = "done"]
  <2>0. /\ turn[t].state = "ingesting" /\ UNCHANGED <<Web!connectionVars, attending, recorded>>
        /\ turn' = [turn EXCEPT ![t].state = "done"] /\ Web!TellEnd(t) /\ channel' = channel
    BY <1>6 DEF Web!Ingest, Web!Succeed, Web!To
  <2>1. to \in Saying /\ to.state = "done" /\ to.user = turn[t].user /\ turn' = [turn EXCEPT ![t] = to]
    BY <2>0, Replaced DEF SaidState
  <2>2. recorded[t] = {"question", "answer"}
    BY <2>0 DEF WebInv, RecordedSoFar
  <2> HIDE DEF to
  <2> QED BY <1>0, <2>0, <2>1, <2>2, TurnKeeps
<1> QED BY <1>1, <1>2, <1>3, <1>4, <1>5, <1>6

LEMMA WebKeeps == ASSUME EdgesAssumption, WebInv, Web!Next PROVE WebInv'
  BY SocketsKeep, SayKeeps, TurnStepsKeep DEF Web!Next

LEMMA WebRests == ASSUME WebInv, UNCHANGED webchatVars PROVE WebInv'
  BY DEF WebInv, WebTypes, Registered, Attended, RecordedSoFar, Web!Ended, Web!Listening, webchatVars

-----------------------------------------------------------------------------
(* Routing and sessions                                                   *)

RowStatus == {"active", "hibernated", "redirected"}
SessionRow == [key : Sessions!Keys, status : RowStatus, target : 0..MaxIds]
VisitState == {"new", "inserting", "creating", "resuming", "hibernating", "redirecting",
               "looking", "greeting", "done", "failed"}
VisitRecord == [state : VisitState, key : Sessions!Keys \cup {None}, id : 0..MaxIds,
                status : RowStatus \cup {None}, target : 0..MaxIds, row : SessionRow \cup {None}]

\* The first rule that matches is the one of the highest priority.
RulesSorted ==
  /\ rules \in Seq(Rule)
  /\ \A i, j \in 1..Len(rules) : i < j => rules[i].priority >= rules[j].priority

\* A conversation has one row, and a row keeps its conversation.
RowsOK ==
  /\ nextSession \in 1..(MaxIds + 1)
  /\ \A i \in Sessions!Rows : i \in 1..MaxIds /\ i < nextSession /\ table[i] \in SessionRow
  /\ \A i, j \in Sessions!Rows : table[i].key = table[j].key => i = j
  /\ \A r \in resolved : r[2] \in Sessions!Rows /\ table[r[2]].key = r[1]
  /\ \A i \in marked : i \in Sessions!Rows /\ (rowOverlapped \/ table[i].target # 0)
  /\ preambles \subseteq Sessions!Rows /\ rowOverlapped \in BOOLEAN

\* What a call is about to do, with the rows of t: a key to insert, a row that it writes
\* back under its own key.
VisitOK(x, t) ==
  /\ x \in VisitRecord
  /\ x.state = "new" => x.row = None
  /\ x.state \in {"inserting", "creating", "looking", "redirecting"} => x.key \in Sessions!Keys
  /\ x.state = "redirecting" => x.target # 0
  /\ x.state \in {"resuming", "hibernating", "redirecting"} =>
       /\ x.status \in RowStatus
       /\ x.row # None => x.row \in SessionRow /\ x.id \in DOMAIN t /\ x.row.key = t[x.id].key

VisitsOK ==
  /\ DOMAIN visit = Sessions!Visit /\ visit = [c \in Sessions!Visit |-> visit[c]]
  /\ \A c \in Sessions!Visit : VisitOK(visit[c], table)

\* A process is inside one statement at a time, of a call of its own.
HoldsOK ==
  /\ held \in [Sessions!Process -> Sessions!Visit \cup {None}]
  /\ \A p \in Sessions!Process : held[p] # None => Sessions!ProcessOf(held[p]) = p

SessionsInv == RulesSorted /\ RowsOK /\ VisitsOK /\ HoldsOK

LEMMA SessionsNumbers == ASSUME EdgesAssumption
  PROVE  /\ DefaultAgent \in Agent /\ MaxIds \in Nat
         /\ \A r \in Rule : r.agent \in Agent /\ r.priority \in Int
  BY DEF EdgesAssumption, Sessions!SessionsAssumption

LEMMA FreshIs == ASSUME EdgesAssumption
  PROVE  /\ Sessions!Fresh \in VisitRecord
         /\ Sessions!Fresh.state = "new" /\ Sessions!Fresh.row = None
  BY SessionsNumbers DEF Sessions!Fresh, VisitRecord, VisitState

LEMMA VisitFields ==
  ASSUME NEW x \in VisitRecord
  PROVE  /\ x.state \in VisitState /\ x.key \in Sessions!Keys \cup {None} /\ x.id \in 0..MaxIds
         /\ x.status \in RowStatus \cup {None} /\ x.target \in 0..MaxIds
         /\ x.row \in SessionRow \cup {None}
  BY DEF VisitRecord

\* A call that is over, or that goes on under another name.
LEMMA VisitEnds ==
  ASSUME EdgesAssumption, NEW s \in {"done", "failed"}, NEW t
  PROVE  VisitOK([Sessions!Fresh EXCEPT !.state = s], t)
<1>1. s \in VisitState
  BY DEF VisitState
<1> DEFINE x == [Sessions!Fresh EXCEPT !.state = s]
<1>2. x \in VisitRecord /\ x.state = s
  BY <1>1, FreshIs DEF VisitRecord
<1> HIDE DEF x
<1>3. VisitOK(x, t)
  BY <1>2 DEF VisitOK
<1> QED BY <1>3 DEF x

LEMMA VisitKept ==
  ASSUME NEW x, NEW t, NEW u, VisitOK(x, t), DOMAIN t \subseteq DOMAIN u,
         \A i \in DOMAIN t : u[i].key = t[i].key
  PROVE  VisitOK(x, u)
  BY DEF VisitOK

LEMMA VisitSet ==
  ASSUME VisitsOK, NEW c \in Sessions!Visit, NEW x, VisitOK(x, table'),
         visit' = [visit EXCEPT ![c] = x], DOMAIN table \subseteq DOMAIN table',
         \A i \in DOMAIN table : table'[i].key = table[i].key
  PROVE  VisitsOK'
<1>1. /\ DOMAIN visit' = Sessions!Visit /\ visit'[c] = x
      /\ \A d \in Sessions!Visit : d # c => visit'[d] = visit[d]
  BY DEF VisitsOK
<1>2. visit' = [d \in Sessions!Visit |-> visit'[d]]
  BY <1>1
<1>3. ASSUME NEW d \in Sessions!Visit PROVE VisitOK(visit'[d], table')
  <2>1. CASE d = c
    BY <1>1, <2>1
  <2>2. CASE d # c
    <3>1. VisitOK(visit[d], table)
      BY DEF VisitsOK
    <3>2. VisitOK(visit[d], table')
      BY <3>1, VisitKept
    <3> QED BY <1>1, <2>2, <3>2
  <2> QED BY <2>1, <2>2
<1> QED BY <1>1, <1>2, <1>3 DEF VisitsOK

LEMMA HeldSet ==
  ASSUME HoldsOK, NEW c \in Sessions!Visit,
         Sessions!Hold(c) \/ Sessions!LetGo(c) \/ UNCHANGED held
  PROVE  HoldsOK'
<1> DEFINE p == Sessions!ProcessOf(c)
<1>1. p \in Sessions!Process
  BY DEF Sessions!ProcessOf, Sessions!Process
<1>2. CASE Sessions!Hold(c)
  <2>1. held' = [held EXCEPT ![p] = c]
    BY <1>2 DEF Sessions!Hold
  <2>2. Sessions!ProcessOf(c) = p
    OBVIOUS
  <2> HIDE DEF p
  <2> QED BY <1>1, <2>1, <2>2 DEF HoldsOK
<1>3. CASE Sessions!LetGo(c)
  <2>1. held' = [held EXCEPT ![p] = None]
    BY <1>3 DEF Sessions!LetGo
  <2> HIDE DEF p
  <2> QED BY <1>1, <2>1 DEF HoldsOK
<1>4. CASE UNCHANGED held
  BY <1>4 DEF HoldsOK
<1> QED BY <1>2, <1>3, <1>4

LEMMA SessionsStart == ASSUME EdgesAssumption, Sessions!Init PROVE SessionsInv
<1>1. RulesSorted
  BY DEF Sessions!Init, RulesSorted
<1>2. RowsOK
  <2>a. rowOverlapped = FALSE /\ table = <<>> /\ nextSession = 1
    BY DEF Sessions!Init
  <2>b. Len(<<>>) = 0 /\ DOMAIN <<>> = 1..0
    OBVIOUS
  <2>c. rowOverlapped \in BOOLEAN
    BY <2>a
  <2>d. DOMAIN table = {}
    BY <2>a, <2>b
  <2>1. rowOverlapped \in BOOLEAN /\ DOMAIN table = {} /\ nextSession = 1
    BY <2>a, <2>c, <2>d
  <2> QED BY <2>1, SessionsNumbers DEF Sessions!Init, RowsOK, Sessions!Rows
<1>3. VisitsOK
  <2>1. DOMAIN visit = Sessions!Visit /\ \A c \in Sessions!Visit : visit[c] = Sessions!Fresh
    BY DEF Sessions!Init
  <2>2. visit = [c \in Sessions!Visit |-> visit[c]]
    BY DEF Sessions!Init
  <2>3. VisitOK(Sessions!Fresh, table)
    BY FreshIs DEF VisitOK
  <2> QED BY <2>1, <2>2, <2>3 DEF VisitsOK
<1>4. HoldsOK
  BY DEF Sessions!Init, HoldsOK
<1> QED BY <1>1, <1>2, <1>3, <1>4 DEF SessionsInv

LEMMA WithoutKeeps ==
  ASSUME RulesSorted, EdgesAssumption, NEW id
  PROVE  /\ Sessions!Without(id) \in Seq(Rule)
         /\ \A i, j \in 1..Len(Sessions!Without(id)) :
              i < j => Sessions!Without(id)[i].priority >= Sessions!Without(id)[j].priority
<1>0. rules \in Seq(Rule)
  BY DEF RulesSorted
<1>1. CASE ~\E i \in DOMAIN rules : rules[i].id = id
  BY <1>1 DEF Sessions!Without, RulesSorted
<1>2. CASE \E i \in DOMAIN rules : rules[i].id = id
  <2> DEFINE k == CHOOSE i \in DOMAIN rules : rules[i].id = id
             left == SubSeq(rules, 1, k - 1)
             right == SubSeq(rules, k + 1, Len(rules))
  <2>1. k \in 1..Len(rules) /\ Len(rules) \in Nat
    BY <1>0, <1>2
  <2>2. Sessions!Without(id) = left \o right
    BY <1>2 DEF Sessions!Without
  <2> HIDE DEF k
  <2>3. left \in Seq(Rule) /\ Len(left) = k - 1 /\ \A i \in 1..(k - 1) : left[i] = rules[i]
    BY <1>0, <2>1
  <2>4. right \in Seq(Rule) /\ Len(right) = Len(rules) - k
        /\ \A i \in 1..(Len(rules) - k) : right[i] = rules[k + i]
    BY <1>0, <2>1
  <2> HIDE DEF left, right
  <2> DEFINE both == left \o right
  <2>a. both \in Seq(Rule) /\ Len(both) = Len(rules) - 1
    BY <2>1, <2>3, <2>4
  <2>b. \A i \in 1..(k - 1) : both[i] = rules[i]
    BY <2>1, <2>3, <2>4
  <2>c. ASSUME NEW i \in k..(Len(rules) - 1) PROVE both[i] = rules[i + 1]
    <3>1. i - (k - 1) \in 1..(Len(rules) - k) /\ i \in 1..(Len(left) + Len(right)) /\ i > Len(left)
      BY <2>1, <2>3, <2>4
    <3>2. both[i] = right[i - Len(left)]
      BY <2>3, <2>4, <3>1
    <3>3. right[i - (k - 1)] = rules[k + (i - (k - 1))] /\ k + (i - (k - 1)) = i + 1
      BY <2>1, <2>4, <3>1
    <3> QED BY <2>3, <3>2, <3>3
  <2>5. /\ both \in Seq(Rule) /\ Len(both) = Len(rules) - 1
        /\ \A i \in 1..(k - 1) : both[i] = rules[i]
        /\ \A i \in k..(Len(rules) - 1) : both[i] = rules[i + 1]
    BY <2>a, <2>b, <2>c
  <2> HIDE DEF both
  <2>6. ASSUME NEW i \in 1..Len(both), NEW j \in 1..Len(both), i < j
        PROVE  both[i].priority >= both[j].priority
    <3> DEFINE m == IF i < k THEN i ELSE i + 1
               n == IF j < k THEN j ELSE j + 1
    <3>1. m \in 1..Len(rules) /\ n \in 1..Len(rules) /\ m < n
      BY <2>1, <2>5, <2>6
    <3>2. ASSUME NEW l \in 1..Len(both) PROVE both[l] = rules[IF l < k THEN l ELSE l + 1]
      <4>1. CASE l < k
        <5>1. l \in 1..(k - 1)
          BY <2>1, <4>1
        <5> QED BY <2>5, <4>1, <5>1
      <4>2. CASE ~(l < k)
        <5>1. l \in k..(Len(rules) - 1)
          BY <2>1, <2>5, <4>2
        <5> QED BY <2>5, <4>2, <5>1
      <4> QED BY <4>1, <4>2
    <3>3. both[i] = rules[m] /\ both[j] = rules[n]
      BY <3>2
    <3> HIDE DEF m, n
    <3> QED BY <3>1, <3>3 DEF RulesSorted
  <2> QED BY <2>2, <2>5, <2>6 DEF both
<1> QED BY <1>1, <1>2

LEMMA SessionsRules ==
  ASSUME EdgesAssumption, SessionsInv, NEW r \in Rule,
         Sessions!AddRule(r) \/ Sessions!RemoveRule(r.id)
  PROVE  SessionsInv'
<1>0. RulesSorted /\ RowsOK /\ VisitsOK /\ HoldsOK
  BY DEF SessionsInv
<1>1. UNCHANGED <<table, nextSession, visit, held, preambles, resolved, marked, rowOverlapped>>
  BY DEF Sessions!AddRule, Sessions!RemoveRule
<1>2. RowsOK' /\ VisitsOK' /\ HoldsOK'
  BY <1>0, <1>1 DEF RowsOK, VisitsOK, HoldsOK, Sessions!Rows
<1>3. CASE Sessions!RemoveRule(r.id)
  <2>1. rules' = Sessions!Without(r.id)
    BY <1>3 DEF Sessions!RemoveRule
  <2>2. RulesSorted'
    BY <1>0, <2>1, WithoutKeeps DEF RulesSorted
  <2> QED BY <1>2, <2>2 DEF SessionsInv
<1>4. CASE Sessions!AddRule(r)
  <2> DEFINE others == Sessions!Without(r.id)
  <2>1. /\ others \in Seq(Rule)
        /\ \A i, j \in 1..Len(others) : i < j => others[i].priority >= others[j].priority
    BY <1>0, WithoutKeeps
  <2>2. PICK k \in 1..(Len(others) + 1) :
          /\ \A i \in 1..(k - 1) : others[i].priority >= r.priority
          /\ \A i \in k..Len(others) : others[i].priority < r.priority
          /\ rules' = SubSeq(others, 1, k - 1) \o <<r>> \o SubSeq(others, k, Len(others))
    BY <1>4 DEF Sessions!AddRule
  <2> HIDE DEF others
  <2> DEFINE left == SubSeq(others, 1, k - 1)
             right == SubSeq(others, k, Len(others))
  <2>3. left \in Seq(Rule) /\ Len(left) = k - 1 /\ \A i \in 1..(k - 1) : left[i] = others[i]
    BY <2>1, <2>2
  <2>4. right \in Seq(Rule) /\ Len(right) = Len(others) - k + 1
        /\ \A i \in 1..(Len(others) - k + 1) : right[i] = others[k + i - 1]
    BY <2>1, <2>2
  <2>5. rules' = left \o <<r>> \o right
    BY <2>2
  <2> HIDE DEF left, right
  <2>6. k \in Nat /\ k >= 1 /\ Len(others) \in Nat /\ k <= Len(others) + 1
    BY <2>1, <2>2
  <2>7. /\ left \o <<r>> \in Seq(Rule) /\ Len(left \o <<r>>) = k
        /\ \A i \in 1..(k - 1) : (left \o <<r>>)[i] = others[i]
        /\ (left \o <<r>>)[k] = r
    BY <2>3, <2>6
  <2> DEFINE first == left \o <<r>>
  <2> HIDE DEF first
  <2>8. /\ first \in Seq(Rule) /\ Len(first) = k /\ \A i \in 1..(k - 1) : first[i] = others[i]
        /\ first[k] = r /\ rules' = first \o right
    BY <2>5, <2>7 DEF first
  <2>a. rules' \in Seq(Rule) /\ Len(rules') = Len(others) + 1
    BY <2>4, <2>6, <2>8
  <2>b. \A i \in 1..(k - 1) : rules'[i] = others[i]
    BY <2>4, <2>6, <2>8
  <2>c. rules'[k] = r
    BY <2>4, <2>6, <2>8
  <2>d. ASSUME NEW i \in (k + 1)..(Len(others) + 1) PROVE rules'[i] = others[i - 1]
    <3>1. i - k \in 1..(Len(others) - k + 1) /\ i \in 1..(Len(first) + Len(right)) /\ i > Len(first)
      BY <2>4, <2>6, <2>8
    <3>2. rules'[i] = right[i - Len(first)]
      BY <2>4, <2>8, <3>1
    <3>3. right[i - k] = others[k + (i - k) - 1]
      BY <2>4, <3>1
    <3>4. k + (i - k) - 1 = i - 1
      BY <2>6
    <3> QED BY <2>8, <3>2, <3>3, <3>4
  <2>9. /\ rules' \in Seq(Rule) /\ Len(rules') = Len(others) + 1
        /\ \A i \in 1..(k - 1) : rules'[i] = others[i]
        /\ rules'[k] = r
        /\ \A i \in (k + 1)..(Len(others) + 1) : rules'[i] = others[i - 1]
    BY <2>a, <2>b, <2>c, <2>d
  <2>10. ASSUME NEW i \in 1..Len(rules'), NEW j \in 1..Len(rules'), i < j
         PROVE  rules'[i].priority >= rules'[j].priority
    <3>a. \A l \in 1..Len(others) : others[l].priority \in Int
      <4> TAKE l \in 1..Len(others)
      <4>1. others[l] \in Rule
        BY <2>1
      <4> QED BY <4>1, SessionsNumbers
    <3>b. r.priority \in Int
      BY SessionsNumbers
    <3>1. CASE i < k /\ j < k
      <4>1. i \in 1..(k - 1) /\ j \in 1..(k - 1) /\ i \in 1..Len(others) /\ j \in 1..Len(others)
        BY <2>6, <2>9, <3>1
      <4>2. rules'[i] = others[i] /\ rules'[j] = others[j]
        BY <2>9, <4>1
      <4> QED BY <2>1, <2>10, <4>1, <4>2
    <3>2. CASE i < k /\ j = k
      BY <2>2, <2>6, <2>9, <3>2
    <3>3. CASE i < k /\ j > k
      <4>1. i \in 1..(k - 1) /\ i \in 1..Len(others) /\ j - 1 \in k..Len(others) /\ j - 1 \in 1..Len(others)
        BY <2>6, <2>9, <3>3
      <4>2. others[i].priority >= r.priority /\ others[j - 1].priority < r.priority
        BY <2>2, <4>1
      <4>3. j \in (k + 1)..(Len(others) + 1)
        BY <2>6, <2>9, <3>3
      <4>4. rules'[i] = others[i] /\ rules'[j] = others[j - 1]
        BY <2>9, <4>1, <4>3
      <4>5. others[i].priority \in Int /\ others[j - 1].priority \in Int
        BY <3>a, <4>1
      <4> QED BY <3>b, <4>2, <4>4, <4>5
    <3>4. CASE i = k
      <4>1. j - 1 \in k..Len(others) /\ j - 1 \in 1..Len(others)
        BY <2>6, <2>9, <2>10, <3>4
      <4> QED BY <2>2, <2>6, <2>9, <2>10, <3>a, <3>b, <3>4, <4>1
    <3>5. CASE i > k
      <4>1. /\ i \in (k + 1)..(Len(others) + 1) /\ j \in (k + 1)..(Len(others) + 1)
            /\ i - 1 \in 1..Len(others) /\ j - 1 \in 1..Len(others) /\ i - 1 < j - 1
        BY <2>6, <2>9, <2>10, <3>5
      <4>2. rules'[i] = others[i - 1] /\ rules'[j] = others[j - 1]
        BY <2>9, <4>1
      <4> QED BY <2>1, <4>1, <4>2
    <3> QED BY <2>6, <2>10, <3>1, <3>2, <3>3, <3>4, <3>5
  <2>11. RulesSorted'
    BY <2>9, <2>10 DEF RulesSorted
  <2> QED BY <1>2, <2>11 DEF SessionsInv
<1> QED BY <1>3, <1>4

LEMMA AgentIsAgent == ASSUME EdgesAssumption, RulesSorted, NEW k PROVE Sessions!AgentOf(k) \in Agent
<1>1. CASE \E i \in DOMAIN rules : Sessions!MatchesFirst(i, k)
  <2> DEFINE i == CHOOSE i \in DOMAIN rules : Sessions!MatchesFirst(i, k)
  <2>1. i \in DOMAIN rules
    BY <1>1
  <2>2. Sessions!AgentOf(k) = rules[i].agent
    BY <1>1 DEF Sessions!AgentOf
  <2> HIDE DEF i
  <2>3. rules[i] \in Rule
    BY <2>1 DEF RulesSorted
  <2> QED BY <2>2, <2>3, SessionsNumbers
<1>2. CASE ~\E i \in DOMAIN rules : Sessions!MatchesFirst(i, k)
  BY <1>2, SessionsNumbers DEF Sessions!AgentOf
<1> QED BY <1>1, <1>2

\* Steps of one call that leave the table alone.
LEMMA SessionsCall ==
  ASSUME EdgesAssumption, SessionsInv, NEW c \in Sessions!Visit, NEW x, VisitOK(x, table),
         visit' = [visit EXCEPT ![c] = x],
         Sessions!Hold(c) \/ Sessions!LetGo(c) \/ UNCHANGED held,
         UNCHANGED <<rules, table, marked, rowOverlapped>>,
         nextSession' \in 1..(MaxIds + 1), nextSession <= nextSession',
         preambles' \subseteq Sessions!Rows,
         \A r \in resolved' : r[2] \in Sessions!Rows /\ table[r[2]].key = r[1]
  PROVE  SessionsInv'
<1>0. RulesSorted /\ RowsOK /\ VisitsOK /\ HoldsOK
  BY DEF SessionsInv
<1>1. RulesSorted'
  BY <1>0 DEF RulesSorted
<1>2. VisitsOK'
  BY <1>0, VisitSet
<1>3. HoldsOK'
  BY <1>0, HeldSet
<1>4. RowsOK'
  <2>1. \A i \in Sessions!Rows : i < nextSession'
    BY <1>0, SessionsNumbers DEF RowsOK
  <2> QED BY <1>0, <2>1 DEF RowsOK, Sessions!Rows
<1> QED BY <1>1, <1>2, <1>3, <1>4 DEF SessionsInv

LEMMA SessionsAsTheyAre == ASSUME SessionsInv
  PROVE  /\ nextSession \in 1..(MaxIds + 1) /\ preambles \subseteq Sessions!Rows
         /\ \A r \in resolved : r[2] \in Sessions!Rows /\ table[r[2]].key = r[1]
         /\ \A c \in Sessions!Visit : VisitOK(visit[c], table) /\ visit[c] \in VisitRecord
  BY DEF SessionsInv, RowsOK, VisitsOK, VisitOK

LEMMA SessionsResolve ==
  ASSUME EdgesAssumption, SessionsInv, NEW c \in Sessions!Visit, NEW k \in Conversation,
         Sessions!Resolve(c, k)
  PROVE  SessionsInv'
<1> DEFINE key == <<Sessions!AgentOf(k), k>>
           id == Sessions!WithKey(key)
<1>0. RulesSorted /\ RowsOK /\ VisitsOK /\ HoldsOK
  BY DEF SessionsInv
<1>1. key \in Sessions!Keys
  BY <1>0, AgentIsAgent DEF Sessions!Keys
<1>2. /\ visit[c].state = "new" /\ VisitOK(visit[c], table) /\ visit[c] \in VisitRecord
      /\ UNCHANGED <<rules, table, nextSession, preambles, marked, rowOverlapped>>
  BY SessionsAsTheyAre DEF Sessions!Resolve
<1>a. nextSession' \in 1..(MaxIds + 1) /\ nextSession <= nextSession' /\ preambles' \subseteq Sessions!Rows
  BY <1>2, SessionsAsTheyAre, SessionsNumbers
<1>3. CASE ~Sessions!HasKey(key)
  <2> DEFINE x == [visit[c] EXCEPT !.state = "inserting", !.key = key]
  <2>1. visit' = [visit EXCEPT ![c] = x] /\ Sessions!Hold(c) /\ UNCHANGED resolved
    BY <1>3 DEF Sessions!Resolve
  <2>2. x \in VisitRecord /\ x.state = "inserting" /\ x.key = key
    BY <1>1, <1>2 DEF VisitRecord, VisitState
  <2> HIDE DEF x, key
  <2>3. VisitOK(x, table)
    BY <1>1, <2>2 DEF VisitOK
  <2> QED BY <1>2, <1>a, <2>1, <2>3, SessionsCall, SessionsAsTheyAre
<1>4. CASE Sessions!HasKey(key)
  <2>1. id \in Sessions!Rows /\ table[id].key = key
    BY <1>4 DEF Sessions!HasKey, Sessions!WithKey
  <2>2. resolved' = resolved \cup {<<key, id>>}
    BY <1>4 DEF Sessions!Resolve
  <2>3. \/ /\ visit' = [visit EXCEPT ![c].state = "resuming", ![c].id = id, ![c].status = "active"]
           /\ Sessions!Hold(c)
        \/ Sessions!End(c, "done") /\ UNCHANGED held
    BY <1>4 DEF Sessions!Resolve
  <2> HIDE DEF key, id
  <2>4. \A r \in resolved' : r[2] \in Sessions!Rows /\ table[r[2]].key = r[1]
    BY <2>1, <2>2, SessionsAsTheyAre
  <2>5. CASE /\ visit' = [visit EXCEPT ![c].state = "resuming", ![c].id = id, ![c].status = "active"]
             /\ Sessions!Hold(c)
    <3> DEFINE x == [visit[c] EXCEPT !.state = "resuming", !.id = id, !.status = "active"]
    <3>1. visit' = [visit EXCEPT ![c] = x]
      BY <2>5
    <3>2. id \in 0..MaxIds
      BY <1>0, <2>1, SessionsNumbers DEF RowsOK
    <3>3. /\ x \in VisitRecord /\ x.state = "resuming" /\ x.status = "active"
          /\ x.row = visit[c].row
      BY <1>2, <3>2 DEF VisitRecord, VisitState, RowStatus
    <3> HIDE DEF x
    <3>4. VisitOK(x, table)
      BY <1>2, <3>3 DEF VisitOK, RowStatus
    <3> QED BY <1>2, <1>a, <2>4, <2>5, <3>1, <3>4, SessionsCall
  <2>6. CASE Sessions!End(c, "done") /\ UNCHANGED held
    BY <1>2, <1>a, <2>4, <2>6, VisitEnds, SessionsCall DEF Sessions!End
  <2> QED BY <2>3, <2>5, <2>6
<1> QED BY <1>3, <1>4

LEMMA SessionsHibernate ==
  ASSUME EdgesAssumption, SessionsInv, NEW c \in Sessions!Visit, NEW id \in Sessions!Rows,
         Sessions!Hibernate(c, id)
  PROVE  SessionsInv'
<1> DEFINE x == [visit[c] EXCEPT !.state = "hibernating", !.id = id, !.status = "hibernated"]
<1>1. /\ visit[c].state = "new" /\ VisitOK(visit[c], table) /\ visit[c] \in VisitRecord
      /\ UNCHANGED <<rules, table, nextSession, preambles, resolved, marked, rowOverlapped>>
      /\ visit' = [visit EXCEPT ![c] = x] /\ Sessions!Hold(c)
  BY SessionsAsTheyAre DEF Sessions!Hibernate
<1>2. id \in 0..MaxIds
  BY SessionsNumbers DEF SessionsInv, RowsOK
<1>3. /\ x \in VisitRecord /\ x.state = "hibernating" /\ x.status = "hibernated"
      /\ x.row = visit[c].row
  BY <1>1, <1>2 DEF VisitRecord, VisitState, RowStatus
<1> HIDE DEF x
<1>4. VisitOK(x, table)
  BY <1>1, <1>3 DEF VisitOK, RowStatus
<1>5. nextSession' \in 1..(MaxIds + 1) /\ nextSession <= nextSession' /\ preambles' \subseteq Sessions!Rows
  BY <1>1, SessionsAsTheyAre, SessionsNumbers
<1> QED BY <1>1, <1>4, <1>5, SessionsCall, SessionsAsTheyAre

LEMMA SessionsReadRow ==
  ASSUME EdgesAssumption, SessionsInv, NEW c \in Sessions!Visit, Sessions!ReadRow(c)
  PROVE  SessionsInv'
<1>1. /\ visit[c].state \in {"resuming", "hibernating", "redirecting"}
      /\ VisitOK(visit[c], table) /\ visit[c] \in VisitRecord
      /\ UNCHANGED <<rules, table, nextSession, preambles, resolved, marked, rowOverlapped>>
  BY SessionsAsTheyAre DEF Sessions!ReadRow, Sessions!Updating
<1>2. nextSession' \in 1..(MaxIds + 1) /\ nextSession <= nextSession' /\ preambles' \subseteq Sessions!Rows
  BY <1>1, SessionsAsTheyAre, SessionsNumbers
<1>3. CASE visit[c].id \in Sessions!Rows
  <2> DEFINE row == table[visit[c].id]
             x == [visit[c] EXCEPT !.row = row]
  <2>1. visit' = [visit EXCEPT ![c] = x] /\ UNCHANGED held
    BY <1>3 DEF Sessions!ReadRow
  <2>2. row \in SessionRow
    BY <1>3 DEF SessionsInv, RowsOK
  <2>3. row.key = table[visit[c].id].key
    OBVIOUS
  <2> HIDE DEF row
  <2>4. /\ x \in VisitRecord /\ x.state = visit[c].state /\ x.status = visit[c].status
        /\ x.row = row /\ x.id = visit[c].id /\ x.target = visit[c].target /\ x.key = visit[c].key
    BY <1>1, <2>2 DEF VisitRecord
  <2> HIDE DEF x
  <2>5. VisitOK(x, table)
    BY <1>1, <1>3, <2>2, <2>3, <2>4 DEF VisitOK, Sessions!Rows
  <2> QED BY <1>1, <1>2, <2>1, <2>5, SessionsCall, SessionsAsTheyAre
<1>4. CASE visit[c].id \notin Sessions!Rows
  <2>1. Sessions!End(c, "failed") /\ Sessions!LetGo(c)
    BY <1>4 DEF Sessions!ReadRow
  <2> QED BY <1>1, <1>2, <2>1, VisitEnds, SessionsCall, SessionsAsTheyAre DEF Sessions!End
<1> QED BY <1>3, <1>4

\* A function of the store returns.
LEMMA SessionsReturn ==
  ASSUME EdgesAssumption, NEW c \in Sessions!Visit, NEW next \in {"done", "greeting", "looking"},
         Sessions!Return(c, next), visit[c] \in VisitRecord,
         next = "looking" => visit[c].key \in Sessions!Keys
  PROVE  Sessions!LetGo(c) /\ \E x : visit' = [visit EXCEPT ![c] = x] /\ \A t : VisitOK(x, t)
<1>1. Sessions!LetGo(c)
  BY DEF Sessions!Return
<1>2. CASE next = "done"
  BY <1>1, <1>2, VisitEnds DEF Sessions!Return, Sessions!End
<1>3. CASE next # "done"
  <2> DEFINE x == [visit[c] EXCEPT !.state = next]
  <2>1. visit' = [visit EXCEPT ![c] = x]
    BY <1>3 DEF Sessions!Return, Sessions!To
  <2>2. x \in VisitRecord /\ x.state = next /\ x.key = visit[c].key
    BY DEF VisitRecord, VisitState
  <2> HIDE DEF x
  <2>3. \A t : VisitOK(x, t)
    BY <1>3, <2>2 DEF VisitOK
  <2> QED BY <1>1, <2>1, <2>3
<1> QED BY <1>2, <1>3

LEMMA SessionsInsert ==
  ASSUME EdgesAssumption, SessionsInv, NEW c \in Sessions!Visit, Sessions!Insert(c)
  PROVE  SessionsInv'
<1> DEFINE key == visit[c].key
<1>0. RulesSorted /\ RowsOK /\ VisitsOK /\ HoldsOK
  BY DEF SessionsInv
<1>1. /\ visit[c].state \in {"inserting", "creating"} /\ nextSession \in 1..MaxIds
      /\ VisitOK(visit[c], table) /\ visit[c] \in VisitRecord
      /\ UNCHANGED <<rules, preambles, marked, rowOverlapped>>
  BY SessionsAsTheyAre DEF Sessions!Insert, Sessions!Ids
<1>2. key \in Sessions!Keys
  BY <1>1 DEF VisitOK
<1>3. CASE Sessions!HasKey(key)
  <2>1. Sessions!End(c, "failed") /\ Sessions!LetGo(c) /\ UNCHANGED <<table, nextSession, resolved>>
    BY <1>3 DEF Sessions!Insert
  <2>2. nextSession' \in 1..(MaxIds + 1) /\ nextSession <= nextSession' /\ preambles' \subseteq Sessions!Rows
    BY <1>1, <2>1, SessionsAsTheyAre, SessionsNumbers
  <2> QED BY <1>1, <2>1, <2>2, VisitEnds, SessionsCall, SessionsAsTheyAre DEF Sessions!End
<1>4. CASE ~Sessions!HasKey(key)
  <2>1. /\ table' = Sessions!With(table, key) /\ nextSession' = nextSession + 1
        /\ resolved' = IF visit[c].state = "inserting"
                         THEN resolved \cup {<<key, nextSession>>} ELSE resolved
        /\ Sessions!Return(c, IF visit[c].state = "inserting" THEN "done" ELSE "greeting")
    BY <1>4 DEF Sessions!Insert
  <2> DEFINE row == [key |-> key, status |-> "active", target |-> 0]
  <2>2. row \in SessionRow /\ row.key = key
    BY <1>2, SessionsNumbers DEF SessionRow, RowStatus
  <2>3. /\ DOMAIN table' = DOMAIN table \cup {nextSession} /\ table'[nextSession] = row
        /\ \A i \in DOMAIN table : i # nextSession => table'[i] = table[i]
    BY <2>1 DEF Sessions!With
  <2>4. \A i \in DOMAIN table : i # nextSession /\ table[i].key # key /\ i \in 1..MaxIds /\ i < nextSession
    BY <1>0, <1>4, SessionsNumbers, <1>1 DEF RowsOK, Sessions!HasKey, Sessions!Rows
  <2>5. PICK x : visit' = [visit EXCEPT ![c] = x] /\ \A t : VisitOK(x, t)
    BY <1>1, <2>1, SessionsReturn
  <2>6. Sessions!LetGo(c)
    BY <2>1 DEF Sessions!Return
  <2> HIDE DEF row, key
  <2>7. VisitsOK'
    BY <1>0, <2>3, <2>4, <2>5, VisitSet
  <2>8. HoldsOK'
    BY <1>0, <2>6, HeldSet
  <2>9. RulesSorted'
    BY <1>0, <1>1 DEF RulesSorted
  <2>10. RowsOK'
    <3>1. nextSession' \in 1..(MaxIds + 1)
      BY <1>1, <2>1, SessionsNumbers
    <3>2. ASSUME NEW i \in DOMAIN table'
          PROVE i \in 1..MaxIds /\ i < nextSession' /\ table'[i] \in SessionRow
      <4>1. CASE i = nextSession
        BY <1>1, <2>1, <2>2, <2>3, <4>1, SessionsNumbers
      <4>2. CASE i # nextSession
        <5>1. i \in DOMAIN table /\ table'[i] = table[i]
          BY <2>3, <4>2
        <5>2. i \in 1..MaxIds /\ i < nextSession /\ table[i] \in SessionRow
          BY <1>0, <2>4, <5>1 DEF RowsOK, Sessions!Rows
        <5> QED BY <1>1, <2>1, <5>1, <5>2, SessionsNumbers
      <4> QED BY <4>1, <4>2
    <3>3. \A i, j \in DOMAIN table' : table'[i].key = table'[j].key => i = j
      BY <1>0, <2>2, <2>3, <2>4 DEF RowsOK, Sessions!Rows
    <3>4. \A r \in resolved' : r[2] \in DOMAIN table' /\ table'[r[2]].key = r[1]
      <4> SUFFICES ASSUME NEW r \in resolved' PROVE r[2] \in DOMAIN table' /\ table'[r[2]].key = r[1]
        OBVIOUS
      <4>1. CASE r \in resolved
        <5>1. r[2] \in DOMAIN table /\ table[r[2]].key = r[1]
          BY <1>0, <4>1 DEF RowsOK, Sessions!Rows
        <5> QED BY <2>3, <2>4, <5>1
      <4>2. CASE r = <<key, nextSession>>
        BY <2>2, <2>3, <4>2
      <4> QED BY <2>1, <4>1, <4>2
    <3>5. \A i \in marked' : i \in DOMAIN table' /\ (rowOverlapped' \/ table'[i].target # 0)
      BY <1>0, <1>1, <2>3, <2>4 DEF RowsOK, Sessions!Rows
    <3> QED BY <1>0, <1>1, <2>3, <3>1, <3>2, <3>3, <3>4, <3>5 DEF RowsOK, Sessions!Rows
  <2> QED BY <2>7, <2>8, <2>9, <2>10 DEF SessionsInv
<1> QED BY <1>3, <1>4

LEMMA SessionsWriteRow ==
  ASSUME EdgesAssumption, SessionsInv, NEW c \in Sessions!Visit, Sessions!WriteRow(c)
  PROVE  SessionsInv'
<1> DEFINE id == visit[c].id
           row == visit[c].row
           m == Sessions!Merged(c)
<1>0. RulesSorted /\ RowsOK /\ VisitsOK /\ HoldsOK
  BY DEF SessionsInv
<1>1. /\ visit[c].state \in {"resuming", "hibernating", "redirecting"} /\ row # None
      /\ VisitOK(visit[c], table) /\ visit[c] \in VisitRecord
      /\ UNCHANGED <<rules, nextSession, preambles, resolved>>
      /\ table' = [table EXCEPT ![id] = m]
      /\ marked' = IF visit[c].state = "redirecting" THEN marked \cup {id} ELSE marked
      /\ Sessions!Return(c, IF visit[c].state = "redirecting" THEN "looking" ELSE "done")
  BY SessionsAsTheyAre DEF Sessions!WriteRow, Sessions!Updating
<1>a. rowOverlapped' = (rowOverlapped \/ table[id] # row)
  BY DEF Sessions!WriteRow
<1>2. /\ row \in SessionRow /\ id \in DOMAIN table /\ row.key = table[id].key
      /\ visit[c].status \in RowStatus /\ visit[c].target \in 0..MaxIds
      /\ visit[c].state = "redirecting" => visit[c].target # 0 /\ visit[c].key \in Sessions!Keys
  BY <1>1, VisitFields DEF VisitOK
<1>3. /\ m \in SessionRow /\ m.key = row.key
      /\ visit[c].target # 0 => m.target = visit[c].target
      /\ visit[c].target = 0 => m.target = row.target
  BY <1>2 DEF Sessions!Merged, SessionRow
<1>4. PICK x : visit' = [visit EXCEPT ![c] = x] /\ \A t : VisitOK(x, t)
  BY <1>1, <1>2, SessionsReturn
<1>5. Sessions!LetGo(c)
  BY <1>1 DEF Sessions!Return
<1> HIDE DEF id, row, m
<1>6. /\ DOMAIN table' = DOMAIN table /\ table'[id] = m
      /\ \A i \in DOMAIN table : i # id => table'[i] = table[i]
      /\ \A i \in DOMAIN table : table'[i].key = table[i].key
  BY <1>1, <1>2, <1>3
<1>7. VisitsOK'
  BY <1>0, <1>4, <1>6, VisitSet
<1>8. HoldsOK' /\ RulesSorted'
  BY <1>0, <1>1, <1>5, HeldSet DEF RulesSorted
<1>9. RowsOK'
  <2>1. rowOverlapped' \in BOOLEAN
    BY <1>a
  <2>2. \A i \in DOMAIN table' : i \in 1..MaxIds /\ i < nextSession' /\ table'[i] \in SessionRow
    BY <1>0, <1>1, <1>3, <1>6 DEF RowsOK, Sessions!Rows
  <2>3. /\ \A i, j \in DOMAIN table' : table'[i].key = table'[j].key => i = j
        /\ \A r \in resolved' : r[2] \in DOMAIN table' /\ table'[r[2]].key = r[1]
    BY <1>0, <1>1, <1>6 DEF RowsOK, Sessions!Rows
  <2>4. ASSUME NEW i \in marked', ~rowOverlapped' PROVE table'[i].target # 0
    <3>1. ~rowOverlapped /\ table[id] = row
      BY <1>a, <2>4
    <3>2. CASE i \in marked /\ i # id
      BY <1>0, <1>6, <3>1, <3>2 DEF RowsOK, Sessions!Rows
    <3>3. CASE i \in marked /\ i = id
      <4>1. row.target # 0
        BY <1>0, <3>1, <3>3 DEF RowsOK
      <4> QED BY <1>3, <1>6, <3>3, <4>1
    <3>4. CASE i \notin marked
      <4>1. i = id /\ visit[c].target # 0
        BY <1>1, <1>2, <2>4, <3>4
      <4> QED BY <1>3, <1>6, <4>1
    <3> QED BY <3>2, <3>3, <3>4
  <2>5. \A i \in marked' : i \in DOMAIN table'
    BY <1>0, <1>1, <1>2, <1>6 DEF RowsOK, Sessions!Rows
  <2> QED BY <1>0, <1>1, <1>6, <2>1, <2>2, <2>3, <2>4, <2>5 DEF RowsOK, Sessions!Rows
<1> QED BY <1>7, <1>8, <1>9 DEF SessionsInv

LEMMA SessionsRedirect ==
  ASSUME EdgesAssumption, SessionsInv, NEW c \in Sessions!Visit, NEW id \in Sessions!Rows,
         NEW agent \in Agent, NEW target \in Sessions!Ids, Sessions!Redirect(c, id, agent, target)
  PROVE  SessionsInv'
<1> DEFINE key == <<agent, table[id].key[2]>>
           x == [visit[c] EXCEPT !.state = "redirecting", !.id = id, !.target = target,
                                 !.status = "redirected", !.key = key]
<1>1. /\ visit[c].state = "new" /\ VisitOK(visit[c], table) /\ visit[c] \in VisitRecord
      /\ UNCHANGED <<rules, table, preambles, resolved, marked, rowOverlapped>>
      /\ visit' = [visit EXCEPT ![c] = x] /\ Sessions!Hold(c)
      /\ nextSession' = IF target \in Sessions!Rows THEN nextSession ELSE nextSession + 1
      /\ target \in Sessions!Rows \/ nextSession < MaxIds
  BY SessionsAsTheyAre DEF Sessions!Redirect
<1>2. id \in 0..MaxIds /\ target \in 0..MaxIds /\ target # 0
  BY SessionsNumbers DEF SessionsInv, RowsOK, Sessions!Ids
<1>3. key \in Sessions!Keys
  <2>1. table[id] \in SessionRow
    BY DEF SessionsInv, RowsOK
  <2>2. table[id].key \in Agent \X Conversation
    BY <2>1 DEF SessionRow, Sessions!Keys
  <2> QED BY <2>2 DEF Sessions!Keys
<1> HIDE DEF key
<1>4. /\ x \in VisitRecord /\ x.state = "redirecting" /\ x.status = "redirected"
      /\ x.row = visit[c].row /\ x.target = target /\ x.key = key
  BY <1>1, <1>2, <1>3 DEF VisitRecord, VisitState, RowStatus
<1> HIDE DEF x
<1>5. VisitOK(x, table)
  BY <1>1, <1>2, <1>3, <1>4 DEF VisitOK, RowStatus
<1>6. nextSession' \in 1..(MaxIds + 1) /\ nextSession <= nextSession' /\ preambles' \subseteq Sessions!Rows
  BY <1>1, SessionsAsTheyAre, SessionsNumbers
<1> QED BY <1>1, <1>5, <1>6, SessionsCall, SessionsAsTheyAre

LEMMA SessionsGoOn == ASSUME EdgesAssumption, SessionsInv, Sessions!Next PROVE SessionsInv'
<1>1. ASSUME NEW c \in Sessions!Visit, Sessions!Look(c) PROVE SessionsInv'
  <2>1. /\ visit[c].state = "looking" /\ VisitOK(visit[c], table) /\ visit[c] \in VisitRecord
        /\ UNCHANGED <<rules, table, nextSession, held, preambles, resolved, marked, rowOverlapped>>
    BY <1>1, SessionsAsTheyAre DEF Sessions!Look
  <2>2. PICK s \in {"greeting", "creating"} : Sessions!To(c, s)
    BY <1>1 DEF Sessions!Look
  <2> DEFINE x == [visit[c] EXCEPT !.state = s]
  <2>3. visit' = [visit EXCEPT ![c] = x]
    BY <2>2 DEF Sessions!To
  <2>4. x \in VisitRecord /\ x.state = s /\ x.key = visit[c].key
    BY <2>1 DEF VisitRecord, VisitState
  <2> HIDE DEF x
  <2>5. VisitOK(x, table)
    BY <2>1, <2>4 DEF VisitOK
  <2>6. nextSession' \in 1..(MaxIds + 1) /\ nextSession <= nextSession' /\ preambles' \subseteq Sessions!Rows
    BY <2>1, SessionsAsTheyAre, SessionsNumbers
  <2> QED BY <2>1, <2>3, <2>5, <2>6, SessionsCall, SessionsAsTheyAre
<1>2. ASSUME NEW c \in Sessions!Visit, Sessions!Greet(c) PROVE SessionsInv'
  <2>1. /\ Sessions!End(c, "done")
        /\ UNCHANGED <<rules, table, nextSession, held, resolved, marked, rowOverlapped>>
    BY <1>2 DEF Sessions!Greet
  <2>2. preambles' \subseteq Sessions!Rows
    BY <1>2, SessionsAsTheyAre DEF Sessions!Greet
  <2>3. nextSession' \in 1..(MaxIds + 1) /\ nextSession <= nextSession'
    BY <2>1, SessionsAsTheyAre, SessionsNumbers
  <2> QED BY <2>1, <2>2, <2>3, VisitEnds, SessionsCall, SessionsAsTheyAre DEF Sessions!End
<1>3. ASSUME NEW p \in Sessions!Process, Sessions!Kill(p) PROVE SessionsInv'
  <2>0. RulesSorted /\ RowsOK /\ VisitsOK /\ HoldsOK
    BY DEF SessionsInv
  <2>1. /\ UNCHANGED <<rules, table, nextSession, preambles, resolved, marked, rowOverlapped>>
        /\ held' = [held EXCEPT ![p] = None]
    BY <1>3 DEF Sessions!Kill
  <2>2. /\ DOMAIN visit' = Sessions!Visit /\ visit' = [c \in Sessions!Visit |-> visit'[c]]
        /\ \A c \in Sessions!Visit :
             visit'[c] = [Sessions!Fresh EXCEPT !.state = "failed"] \/ visit'[c] = visit[c]
    BY <1>3 DEF Sessions!Kill
  <2>3. VisitsOK'
    BY <2>0, <2>1, <2>2, VisitEnds DEF VisitsOK
  <2>4. HoldsOK'
    BY <2>0, <2>1 DEF HoldsOK
  <2>5. RulesSorted' /\ RowsOK'
    BY <2>0, <2>1 DEF RulesSorted, RowsOK, Sessions!Rows
  <2> QED BY <2>3, <2>4, <2>5 DEF SessionsInv
<1> QED
  BY <1>1, <1>2, <1>3, SessionsRules, SessionsResolve, SessionsInsert, SessionsReadRow,
     SessionsWriteRow, SessionsHibernate, SessionsRedirect DEF Sessions!Next

LEMMA SessionsRest == ASSUME SessionsInv, UNCHANGED sessionsVars PROVE SessionsInv'
<1>1. RulesSorted' /\ RowsOK'
  BY DEF SessionsInv, RulesSorted, RowsOK, Sessions!Rows, sessionsVars
<1>2. VisitsOK' /\ HoldsOK'
  BY DEF SessionsInv, VisitsOK, HoldsOK, sessionsVars
<1> QED BY <1>1, <1>2 DEF SessionsInv

LEMMA SessionsAreSafe == ASSUME EdgesAssumption, SessionsInv
  PROVE Sessions!TypeOK /\ Sessions!OneSession /\ Sessions!RedirectRemembered
<1>0. RulesSorted /\ RowsOK /\ HoldsOK
  BY DEF SessionsInv
<1>1. \A i, j \in DOMAIN rules : i < j => rules[i].priority >= rules[j].priority
  BY <1>0 DEF RulesSorted
<1>2. \A i \in Sessions!Rows : /\ table[i].key \in Sessions!Keys /\ table[i].target \in 0..MaxIds
                               /\ table[i].status \in {"active", "hibernated", "redirected"}
  BY <1>0 DEF RowsOK, SessionRow, RowStatus
<1>3. Sessions!TypeOK
  BY <1>0, <1>1, <1>2 DEF Sessions!TypeOK, RowsOK, HoldsOK
<1> QED BY <1>0, <1>3 DEF RowsOK, Sessions!OneSession, Sessions!RedirectRemembered

-----------------------------------------------------------------------------
(* The bus over Redis Streams                                             *)

LoopState == {"none", "reading", "testing", "handing", "handling", "ended"}

RedisTypes ==
  /\ redisStream \in Seq(BOOLEAN) /\ Len(redisStream) <= MaxEntries
  /\ group \in {None} \cup 0..Len(redisStream) /\ since \in 0..Len(redisStream)
  /\ pending \in [Consumer -> SUBSET (1..Len(redisStream))]
  /\ redisLoop \in [Consumer -> LoopState] /\ cancelled \in [Consumer -> BOOLEAN]
  /\ batch \in [Consumer -> Seq(Nat)] /\ \A c \in Consumer : Len(batch[c]) <= Batch
  /\ handed \in [Redis!Entry -> Nat] /\ known \in BOOLEAN /\ busClosed \in BOOLEAN

\* The group is there once it is known, and a loop only where it is.
RedisLoops ==
  /\ known => group # None
  /\ \A c \in Consumer :
       /\ redisLoop[c] \notin {"none", "ended"} => group # None
       /\ redisLoop[c] \notin {"handing", "handling"} => batch[c] = <<>>

\* Every entry since the group is there was acked, or is pending.
Accounted ==
  /\ group = None => redisAcked = {} /\ \A c \in Consumer : pending[c] = {}
  /\ group # None =>
       /\ since <= group
       /\ \A e \in redisAcked : e \in (since + 1)..group
       /\ \A c \in Consumer : pending[c] \subseteq (since + 1)..group
       /\ \A e \in (since + 1)..group : e \in redisAcked \/ \E c \in Consumer : e \in pending[c]

OneOwner == \A c, d \in Consumer : c # d => pending[c] \cap pending[d] = {}

\* What was handed on was delivered before.
HandedOnce ==
  \A e \in Redis!Entry : handed[e] <= 1 /\ (handed[e] > 0 => group # None /\ e <= group)

\* What is in a batch is its reader's, was not handed on, and is there once.
BatchHeld ==
  \A c \in Consumer : \A i \in 1..Len(batch[c]) :
    /\ batch[c][i] \in pending[c] /\ handed[batch[c][i]] = 0
    /\ \A j \in 1..Len(batch[c]) : batch[c][i] = batch[c][j] => i = j

RedisHeld == Accounted /\ OneOwner /\ HandedOnce /\ BatchHeld
RedisInv == RedisTypes /\ RedisLoops /\ RedisHeld

LEMMA RedisNumbers == ASSUME EdgesAssumption
  PROVE Batch \in Nat /\ Batch > 0 /\ MaxEntries \in Nat /\ None \notin Nat
  BY DEF EdgesAssumption, Redis!RedisAssumption

LEMMA RedisStarts == ASSUME EdgesAssumption, Redis!Init PROVE RedisInv
<1>1. known \in BOOLEAN /\ busClosed \in BOOLEAN /\ known = FALSE
  BY DEF Redis!Init
<1>2. redisStream \in Seq(BOOLEAN) /\ Len(redisStream) = 0
  BY DEF Redis!Init
<1>3. RedisTypes
  <2>1. /\ pending \in [Consumer -> SUBSET (1..Len(redisStream))]
        /\ handed \in [Redis!Entry -> Nat]
    BY DEF Redis!Init
  <2>2. cancelled \in [Consumer -> BOOLEAN]
    BY DEF Redis!Init
  <2>3. batch \in [Consumer -> Seq(Nat)] /\ \A c \in Consumer : Len(batch[c]) = 0
    BY DEF Redis!Init
  <2>4. redisLoop \in [Consumer -> LoopState] /\ group = None /\ since = 0
    BY DEF Redis!Init, LoopState
  <2> QED BY <1>1, <1>2, <2>1, <2>2, <2>3, <2>4, RedisNumbers DEF RedisTypes
<1>4. RedisLoops
  BY <1>1, RedisNumbers DEF Redis!Init, RedisLoops
<1>5. RedisHeld
  BY RedisNumbers DEF Redis!Init, RedisHeld, Accounted, OneOwner, HandedOnce, BatchHeld
<1> QED BY <1>3, <1>4, <1>5 DEF RedisInv

LEMMA RedisPublish == ASSUME EdgesAssumption, RedisInv, NEW readable \in BOOLEAN, Redis!Publish(readable)
  PROVE RedisInv'
<1>0. RedisTypes /\ RedisLoops /\ RedisHeld
  BY DEF RedisInv
<1>1. /\ redisStream' \in Seq(BOOLEAN) /\ Len(redisStream') = Len(redisStream) + 1
      /\ Len(redisStream) < MaxEntries /\ Len(redisStream) \in Nat
  BY <1>0 DEF Redis!Publish, RedisTypes
<1>2. UNCHANGED <<group, pending, redisAcked, busClosed, known, redisLoop, cancelled, batch, since, handed>>
  BY DEF Redis!Publish, Redis!busVars
<1>3. pending' \in [Consumer -> SUBSET (1..Len(redisStream'))]
  BY <1>0, <1>1, <1>2 DEF RedisTypes
<1>4. RedisTypes'
  BY <1>0, <1>1, <1>2, <1>3, RedisNumbers DEF RedisTypes
<1>5. RedisLoops' /\ RedisHeld'
  BY <1>0, <1>2 DEF RedisLoops, RedisHeld, Accounted, OneOwner, HandedOnce, BatchHeld, Redis!Entry
<1> QED BY <1>4, <1>5 DEF RedisInv

LEMMA RedisSubscribe == ASSUME EdgesAssumption, RedisInv, NEW c \in Consumer, Redis!Subscribe(c)
  PROVE RedisInv'
<1>0. RedisTypes /\ RedisLoops /\ RedisHeld
  BY DEF RedisInv
<1>1. UNCHANGED <<redisStream, pending, redisAcked, busClosed, cancelled, batch, handed>>
  BY DEF Redis!Subscribe
<1>2. CASE /\ Redis!To(c, "reading") /\ known' = TRUE
           /\ group' = IF group = None THEN Len(redisStream) ELSE group
           /\ since' = IF group = None THEN Len(redisStream) ELSE since
  <2>1. known' \in BOOLEAN
    BY <1>2
  <2>2. redisLoop' \in [Consumer -> LoopState]
    BY <1>0, <1>2 DEF Redis!To, RedisTypes, LoopState
  <2>3. group' \in 0..Len(redisStream) /\ since' \in 0..Len(redisStream) /\ group' # None
    BY <1>0, <1>2, RedisNumbers DEF RedisTypes
  <2>4. RedisTypes'
    BY <1>0, <1>1, <2>1, <2>2, <2>3 DEF RedisTypes
  <2>5. RedisLoops'
    BY <1>0, <1>1, <1>2, <2>3 DEF RedisLoops, Redis!To, RedisTypes, Redis!Subscribe
  <2>6. Accounted'
    BY <1>0, <1>1, <1>2, <2>3 DEF RedisHeld, Accounted, RedisTypes
  <2>7. OneOwner' /\ HandedOnce' /\ BatchHeld'
    BY <1>0, <1>1, <1>2, <2>3 DEF RedisHeld, OneOwner, HandedOnce, BatchHeld, RedisTypes, Redis!Entry
  <2> QED BY <2>4, <2>5, <2>6, <2>7 DEF RedisInv, RedisHeld
<1>3. CASE ~known /\ Redis!To(c, "ended") /\ UNCHANGED <<known, group, since>>
  <2>1. redisLoop' \in [Consumer -> LoopState]
    BY <1>0, <1>3 DEF Redis!To, RedisTypes, LoopState
  <2>2. RedisTypes'
    BY <1>0, <1>1, <1>3, <2>1 DEF RedisTypes
  <2>3. RedisLoops'
    BY <1>0, <1>1, <1>3 DEF RedisLoops, Redis!To, RedisTypes, Redis!Subscribe
  <2>4. RedisHeld'
    BY <1>0, <1>1, <1>3 DEF RedisHeld, Accounted, OneOwner, HandedOnce, BatchHeld, Redis!Entry
  <2> QED BY <2>2, <2>3, <2>4 DEF RedisInv
<1> QED BY <1>2, <1>3 DEF Redis!Subscribe

\* The server's part of a read: the next entries are one consumer's.
LEMMA RedisDelivers ==
  ASSUME EdgesAssumption, RedisTypes, Accounted, OneOwner, HandedOnce, NEW c \in Consumer,
         NEW n \in Nat, group # None, group + n <= Len(redisStream), Redis!Deliver(c, n),
         UNCHANGED <<redisStream, redisAcked, since, handed>>
  PROVE  /\ group \in Nat /\ group' = group + n /\ group' \in 0..Len(redisStream)
         /\ pending' \in [Consumer -> SUBSET (1..Len(redisStream))]
         /\ pending'[c] = pending[c] \cup (group + 1)..(group + n)
         /\ \A d \in Consumer : d # c => pending'[d] = pending[d]
         /\ Accounted' /\ OneOwner' /\ HandedOnce'
<1>1. /\ group \in 0..Len(redisStream) /\ Len(redisStream) \in Nat /\ since \in Nat
      /\ group' = group + n
  BY DEF RedisTypes, Redis!Deliver
<1>2. /\ pending'[c] = pending[c] \cup (group + 1)..(group + n)
      /\ \A d \in Consumer : d # c => pending'[d] = pending[d]
  BY DEF RedisTypes, Redis!Deliver
<1>3. group' \in 0..Len(redisStream) /\ group' # None
  BY <1>1, RedisNumbers
<1>4. (group + 1)..(group + n) \in SUBSET (1..Len(redisStream))
  BY <1>1
<1>5. pending' \in [Consumer -> SUBSET (1..Len(redisStream))]
  BY <1>2, <1>4 DEF RedisTypes, Redis!Deliver
<1>6. Accounted'
  <2>1. ASSUME NEW e \in redisAcked' PROVE e \in (since' + 1)..group'
    BY <1>1 DEF Accounted
  <2>2. ASSUME NEW d \in Consumer, NEW e \in pending'[d] PROVE e \in (since' + 1)..group'
    <3>1. CASE e \in pending[d]
      <4>1. e \in (since + 1)..group
        BY <3>1 DEF Accounted
      <4> QED BY <1>1, <4>1
    <3>2. CASE e \in (group + 1)..(group + n)
      <4>1. since <= group
        BY DEF Accounted
      <4> QED BY <1>1, <3>2, <4>1
    <3> QED BY <1>2, <2>2, <3>1, <3>2
  <2>3. ASSUME NEW e \in (since' + 1)..group'
        PROVE e \in redisAcked' \/ \E d \in Consumer : e \in pending'[d]
    BY <1>1, <1>2 DEF Accounted
  <2>4. since' <= group'
    BY <1>1 DEF Accounted
  <2> QED BY <1>3, <2>1, <2>2, <2>3, <2>4 DEF Accounted
<1>7. OneOwner'
  <2>1. \A d \in Consumer : pending[d] \cap (group + 1)..(group + n) = {}
    BY <1>1 DEF Accounted
  <2> QED BY <1>2, <2>1 DEF OneOwner
<1>8. HandedOnce'
  BY <1>1, <1>3 DEF HandedOnce, Redis!Entry
<1> QED BY <1>1, <1>2, <1>3, <1>5, <1>6, <1>7, <1>8

LEMMA RedisRead == ASSUME EdgesAssumption, RedisInv, NEW c \in Consumer, Redis!Read(c)
  PROVE RedisInv'
<1> DEFINE fresh == Len(redisStream) - group
           n == IF fresh < Batch THEN fresh ELSE Batch
<1>0. RedisTypes /\ RedisLoops /\ Accounted /\ OneOwner /\ HandedOnce /\ BatchHeld
  BY DEF RedisInv, RedisHeld
<1>1. redisLoop[c] = "reading" /\ group # None /\ batch[c] = <<>>
  BY <1>0 DEF Redis!Read, RedisLoops
<1>2. UNCHANGED <<redisStream, redisAcked, busClosed, known, cancelled, since, handed>>
  BY DEF Redis!Read
<1>3. group \in Nat /\ n \in Nat /\ n <= Batch /\ group + n <= Len(redisStream)
  BY <1>0, <1>1, RedisNumbers DEF RedisTypes
<1>4. \/ Redis!To(c, "testing") /\ UNCHANGED <<group, pending, batch>>
      \/ /\ Redis!Deliver(c, n) /\ Redis!To(c, "handing")
         /\ batch' = [batch EXCEPT ![c] = [i \in 1..n |-> group + i]]
  BY DEF Redis!Read
<1> HIDE DEF n, fresh
<1>5. CASE Redis!To(c, "testing") /\ UNCHANGED <<group, pending, batch>>
  <2>1. redisLoop' \in [Consumer -> LoopState]
    BY <1>0, <1>5 DEF Redis!To, RedisTypes, LoopState
  <2>2. RedisTypes'
    BY <1>0, <1>2, <1>5, <2>1 DEF RedisTypes
  <2>3. RedisLoops'
    BY <1>0, <1>1, <1>2, <1>5 DEF RedisLoops, Redis!To, RedisTypes
  <2>4. RedisHeld'
    BY <1>0, <1>2, <1>5 DEF RedisHeld, Accounted, OneOwner, HandedOnce, BatchHeld, Redis!Entry
  <2> QED BY <2>2, <2>3, <2>4 DEF RedisInv
<1>6. CASE /\ Redis!Deliver(c, n) /\ Redis!To(c, "handing")
           /\ batch' = [batch EXCEPT ![c] = [i \in 1..n |-> group + i]]
  <2> DEFINE fetched == [i \in 1..n |-> group + i]
  <2>1. /\ group' = group + n /\ group' \in 0..Len(redisStream)
        /\ pending' \in [Consumer -> SUBSET (1..Len(redisStream))]
        /\ pending'[c] = pending[c] \cup (group + 1)..(group + n)
        /\ \A d \in Consumer : d # c => pending'[d] = pending[d]
        /\ Accounted' /\ OneOwner' /\ HandedOnce'
    BY <1>0, <1>1, <1>2, <1>3, <1>6, RedisDelivers
  <2>2. redisLoop' \in [Consumer -> LoopState]
    BY <1>0, <1>6 DEF Redis!To, RedisTypes, LoopState
  <2>3. fetched \in Seq(Nat) /\ Len(fetched) = n /\ \A i \in 1..n : fetched[i] = group + i
    BY <1>3
  <2>4. batch' = [batch EXCEPT ![c] = fetched]
    BY <1>6
  <2> HIDE DEF fetched
  <2>5. /\ batch' \in [Consumer -> Seq(Nat)] /\ batch'[c] = fetched
        /\ \A d \in Consumer : d # c => batch'[d] = batch[d]
    BY <1>0, <2>3, <2>4 DEF RedisTypes
  <2>6. \A d \in Consumer : Len(batch'[d]) <= Batch
    BY <1>0, <1>3, <2>3, <2>5 DEF RedisTypes
  <2>7. RedisTypes'
    BY <1>0, <1>2, <2>1, <2>2, <2>5, <2>6 DEF RedisTypes
  <2>8. RedisLoops'
    BY <1>0, <1>1, <1>2, <1>6, <2>1, <2>5, RedisNumbers DEF RedisLoops, Redis!To, RedisTypes
  <2>9. \A i \in 1..n : group + i \in (group + 1)..(group + n) /\ group + i \in Redis!Entry
    BY <1>0, <1>3, RedisNumbers DEF RedisTypes, Redis!Entry
  <2>10. ASSUME NEW i \in 1..n PROVE handed[group + i] = 0
    <3>1. group + i \in Redis!Entry /\ ~(group + i <= group)
      BY <1>3, <2>9
    <3>2. handed[group + i] \in Nat
      BY <1>0, <3>1 DEF RedisTypes
    <3> QED BY <1>0, <3>1, <3>2 DEF HandedOnce
  <2>11. BatchHeld'
    <3> SUFFICES ASSUME NEW d \in Consumer, NEW i \in 1..Len(batch'[d])
                 PROVE /\ batch'[d][i] \in pending'[d] /\ handed'[batch'[d][i]] = 0
                       /\ \A j \in 1..Len(batch'[d]) : batch'[d][i] = batch'[d][j] => i = j
      BY DEF BatchHeld
    <3>1. CASE d = c
      BY <1>2, <1>3, <2>1, <2>3, <2>5, <2>9, <2>10, <3>1
    <3>2. CASE d # c
      <4>1. batch'[d] = batch[d] /\ pending'[d] = pending[d] /\ handed' = handed
        BY <1>2, <2>1, <2>5, <3>2
      <4>2. i \in 1..Len(batch[d])
        BY <4>1
      <4>3. /\ batch[d][i] \in pending[d] /\ handed[batch[d][i]] = 0
            /\ \A j \in 1..Len(batch[d]) : batch[d][i] = batch[d][j] => i = j
        BY <1>0, <4>2 DEF BatchHeld
      <4> QED BY <4>1, <4>3
    <3> QED BY <3>1, <3>2
  <2> QED BY <2>1, <2>7, <2>8, <2>11 DEF RedisInv, RedisHeld
<1> QED BY <1>4, <1>5, <1>6

LEMMA RedisReadFails == ASSUME EdgesAssumption, RedisInv, NEW c \in Consumer, Redis!ReadFails(c)
  PROVE RedisInv'
<1>0. RedisTypes /\ RedisLoops /\ Accounted /\ OneOwner /\ HandedOnce /\ BatchHeld
  BY DEF RedisInv, RedisHeld
<1>1. redisLoop[c] = "reading" /\ group # None /\ batch[c] = <<>>
  BY <1>0 DEF Redis!ReadFails, RedisLoops
<1>2. UNCHANGED <<redisStream, redisAcked, busClosed, known, cancelled, batch, since, handed>>
  BY DEF Redis!ReadFails
<1>3. group \in Nat /\ Len(redisStream) \in Nat
  BY <1>0, <1>1 DEF RedisTypes
<1>4. /\ redisLoop' \in [Consumer -> LoopState] /\ redisLoop'[c] \in {"ended", "testing"}
      /\ \A d \in Consumer : d # c => redisLoop'[d] = redisLoop[d]
  BY <1>0 DEF Redis!ReadFails, Redis!To, RedisTypes, LoopState
<1>5. CASE UNCHANGED <<group, pending>>
  <2>1. RedisTypes'
    BY <1>0, <1>2, <1>4, <1>5 DEF RedisTypes
  <2>2. RedisLoops'
    BY <1>0, <1>1, <1>2, <1>4, <1>5 DEF RedisLoops
  <2>3. RedisHeld'
    BY <1>0, <1>2, <1>5 DEF RedisHeld, Accounted, OneOwner, HandedOnce, BatchHeld, Redis!Entry
  <2> QED BY <2>1, <2>2, <2>3 DEF RedisInv
<1>6. CASE group < Len(redisStream) /\ Redis!Deliver(c, 1)
  <2>1. /\ group' = group + 1 /\ group' \in 0..Len(redisStream)
        /\ pending' \in [Consumer -> SUBSET (1..Len(redisStream))]
        /\ pending'[c] = pending[c] \cup (group + 1)..(group + 1)
        /\ \A d \in Consumer : d # c => pending'[d] = pending[d]
        /\ Accounted' /\ OneOwner' /\ HandedOnce'
    BY <1>0, <1>1, <1>2, <1>3, <1>6, RedisDelivers
  <2>2. RedisTypes'
    BY <1>0, <1>2, <1>4, <2>1 DEF RedisTypes
  <2>3. RedisLoops'
    BY <1>0, <1>1, <1>2, <1>4, <2>1, RedisNumbers DEF RedisLoops
  <2>4. \A d \in Consumer : pending[d] \subseteq pending'[d]
    BY <2>1
  <2>5. BatchHeld'
    BY <1>0, <1>2, <2>4 DEF BatchHeld
  <2> QED BY <2>1, <2>2, <2>3, <2>5 DEF RedisInv, RedisHeld
<1> QED BY <1>5, <1>6 DEF Redis!ReadFails

\* Steps of the loop, and of those who stop it, that leave the entries alone.
LEMMA RedisLoopGoesOn ==
  ASSUME EdgesAssumption, RedisInv,
         UNCHANGED <<redisStream, group, pending, redisAcked, batch, since, handed>>,
         known' \in BOOLEAN, known' => known, busClosed' \in BOOLEAN,
         cancelled' \in [Consumer -> BOOLEAN], redisLoop' \in [Consumer -> LoopState],
         \A c \in Consumer :
           /\ redisLoop'[c] \notin {"none", "ended"} => redisLoop[c] \notin {"none", "ended"}
           /\ redisLoop'[c] \notin {"handing", "handling"} =>
                redisLoop[c] \notin {"handing", "handling"} \/ batch[c] = <<>>
  PROVE  RedisInv'
<1>0. RedisTypes /\ RedisLoops /\ RedisHeld
  BY DEF RedisInv
<1>1. RedisTypes'
  BY <1>0 DEF RedisTypes
<1>2. RedisLoops'
  BY <1>0 DEF RedisLoops
<1>3. RedisHeld'
  BY <1>0 DEF RedisHeld, Accounted, OneOwner, HandedOnce, BatchHeld, Redis!Entry
<1> QED BY <1>1, <1>2, <1>3 DEF RedisInv

LEMMA RedisHand == ASSUME EdgesAssumption, RedisInv, NEW c \in Consumer, Redis!Hand(c)
  PROVE RedisInv'
<1> DEFINE e == Head(batch[c])
           left == Tail(batch[c])
<1>0. RedisTypes /\ RedisLoops /\ Accounted /\ OneOwner /\ HandedOnce /\ BatchHeld
  BY DEF RedisInv, RedisHeld
<1>1. /\ redisLoop[c] = "handing" /\ batch[c] # <<>>
      /\ UNCHANGED <<redisStream, group, pending, redisAcked, busClosed, known, cancelled, since>>
      /\ batch' = [batch EXCEPT ![c] = left]
  BY DEF Redis!Hand
<1>2. \/ handed' = [handed EXCEPT ![e] = @ + 1] /\ Redis!To(c, "handling")
      \/ UNCHANGED <<handed, redisLoop>>
  BY DEF Redis!Hand
<1>3. batch[c] \in Seq(Nat) /\ Len(batch[c]) \in Nat /\ Len(batch[c]) > 0 /\ e = batch[c][1]
  BY <1>0, <1>1 DEF RedisTypes
<1>4. /\ left \in Seq(Nat) /\ Len(left) = Len(batch[c]) - 1
      /\ \A i \in 1..Len(left) : left[i] = batch[c][i + 1]
  BY <1>3
<1>n. /\ Len(left) \in Nat /\ 1 \in 1..Len(batch[c])
      /\ \A i \in 1..Len(left) : i \in Nat /\ i + 1 \in 1..Len(batch[c])
  BY <1>3, <1>4
<1> HIDE DEF e, left
<1>5. /\ batch' \in [Consumer -> Seq(Nat)] /\ batch'[c] = left
      /\ \A d \in Consumer : d # c => batch'[d] = batch[d]
  BY <1>0, <1>1, <1>4 DEF RedisTypes
<1>6. e \in pending[c] /\ handed[e] = 0 /\ e \in 1..Len(redisStream)
  BY <1>0, <1>3 DEF BatchHeld, RedisTypes
<1>7. e \in Redis!Entry /\ group # None /\ e <= group /\ group \in Nat
  <2>1. group # None
    BY <1>0, <1>1 DEF RedisLoops
  <2>2. group \in Nat /\ since \in Nat /\ Len(redisStream) \in Nat /\ Len(redisStream) <= MaxEntries
    BY <1>0, <2>1 DEF RedisTypes
  <2>3. e \in (since + 1)..group
    BY <1>0, <1>6, <2>1 DEF Accounted
  <2>4. e \in Redis!Entry
    BY <1>6, <2>2, RedisNumbers DEF Redis!Entry
  <2> QED BY <2>1, <2>2, <2>3, <2>4
<1>8. /\ handed' \in [Redis!Entry -> Nat] /\ handed'[e] \in {0, 1}
      /\ \A f \in Redis!Entry : f # e => handed'[f] = handed[f]
  BY <1>0, <1>2, <1>6, <1>7 DEF RedisTypes
<1>9. /\ redisLoop' \in [Consumer -> LoopState] /\ redisLoop'[c] \in {"handing", "handling"}
      /\ \A d \in Consumer : d # c => redisLoop'[d] = redisLoop[d]
  BY <1>0, <1>1, <1>2 DEF RedisTypes, LoopState, Redis!To
<1>10. ASSUME NEW d \in Consumer PROVE Len(batch'[d]) <= Batch
  <2>1. Len(batch[c]) <= Batch /\ Len(batch[d]) <= Batch
    BY <1>0 DEF RedisTypes
  <2>2. CASE d = c
    BY <1>3, <1>4, <1>5, <2>1, <2>2, RedisNumbers
  <2>3. CASE d # c
    BY <1>5, <2>1, <2>3
  <2> QED BY <2>2, <2>3
<1>11. RedisTypes'
  BY <1>0, <1>1, <1>5, <1>8, <1>9, <1>10 DEF RedisTypes
<1>12. RedisLoops'
  BY <1>0, <1>1, <1>5, <1>7, <1>9 DEF RedisLoops
<1>13. Accounted' /\ OneOwner'
  BY <1>0, <1>1 DEF Accounted, OneOwner
<1>14. HandedOnce'
  BY <1>0, <1>1, <1>7, <1>8 DEF HandedOnce, Redis!Entry
<1>15. BatchHeld'
  <2> SUFFICES ASSUME NEW d \in Consumer, NEW i \in 1..Len(batch'[d])
               PROVE /\ batch'[d][i] \in pending'[d] /\ handed'[batch'[d][i]] = 0
                     /\ \A j \in 1..Len(batch'[d]) : batch'[d][i] = batch'[d][j] => i = j
    BY DEF BatchHeld
  <2>1. CASE d = c
    <3>0. batch'[d] = left
      BY <1>5, <2>1
    <3>i. i \in 1..Len(left)
      BY <3>0
    <3>1. i + 1 \in 1..Len(batch[c]) /\ batch'[d][i] = batch[c][i + 1] /\ 1 \in 1..Len(batch[c])
      BY <1>4, <1>n, <3>0, <3>i
    <3>2. batch[c][i + 1] \in pending[c] /\ handed[batch[c][i + 1]] = 0 /\ batch[c][i + 1] # e
      <4>0. i + 1 # 1
        BY <1>n, <3>i
      <4>1. batch[c][i + 1] # e
        BY <1>0, <1>3, <3>1, <4>0 DEF BatchHeld
      <4> QED BY <1>0, <3>1, <4>1 DEF BatchHeld
    <3>3. batch[c][i + 1] \in Redis!Entry
      <4>1. batch[c][i + 1] \in 1..Len(redisStream) /\ Len(redisStream) \in Nat /\ Len(redisStream) <= MaxEntries
        BY <1>0, <3>2 DEF RedisTypes
      <4> QED BY <4>1, RedisNumbers DEF Redis!Entry
    <3>4. ASSUME NEW j \in 1..Len(batch'[d]), batch'[d][i] = batch'[d][j] PROVE i = j
      <4>j. j \in 1..Len(left)
        BY <3>0
      <4>1. j + 1 \in 1..Len(batch[c]) /\ batch'[d][j] = batch[c][j + 1]
        BY <1>4, <1>n, <3>0, <4>j
      <4>2. i + 1 = j + 1
        BY <1>0, <3>1, <3>4, <4>1 DEF BatchHeld
      <4>3. i \in Nat /\ j \in Nat
        BY <1>n, <3>i, <4>j
      <4> QED BY <4>2, <4>3
    <3> QED BY <1>1, <1>8, <2>1, <3>1, <3>2, <3>3, <3>4
  <2>2. CASE d # c
    <3>1. /\ batch'[d] = batch[d] /\ batch[d][i] \in pending[d] /\ handed[batch[d][i]] = 0
          /\ \A j \in 1..Len(batch[d]) : batch[d][i] = batch[d][j] => i = j
      BY <1>0, <1>5, <2>2 DEF BatchHeld
    <3>2. batch[d][i] # e /\ batch[d][i] \in Redis!Entry
      <4>1. batch[d][i] \in 1..Len(redisStream) /\ Len(redisStream) \in Nat /\ Len(redisStream) <= MaxEntries
        BY <1>0, <3>1 DEF RedisTypes
      <4>2. batch[d][i] # e
        BY <1>0, <1>6, <2>2, <3>1 DEF OneOwner
      <4> QED BY <4>1, <4>2, RedisNumbers DEF Redis!Entry
    <3> QED BY <1>1, <1>8, <3>1, <3>2
  <2> QED BY <2>1, <2>2
<1> QED BY <1>11, <1>12, <1>13, <1>14, <1>15 DEF RedisInv, RedisHeld

LEMMA RedisHandled == ASSUME EdgesAssumption, RedisInv, NEW c \in Consumer, Redis!Handled(c)
  PROVE RedisInv'
<1>0. RedisTypes /\ RedisLoops /\ Accounted /\ OneOwner /\ HandedOnce /\ BatchHeld
  BY DEF RedisInv, RedisHeld
<1>1. /\ redisLoop[c] = "handling" /\ redisLoop' = [redisLoop EXCEPT ![c] = "handing"]
      /\ UNCHANGED <<redisStream, group, busClosed, known, cancelled, batch, since, handed>>
  BY DEF Redis!Handled, Redis!To
<1>2. redisLoop' \in [Consumer -> LoopState]
  BY <1>0, <1>1 DEF RedisTypes, LoopState
<1>3. CASE UNCHANGED <<redisAcked, pending>>
  BY <1>0, <1>1, <1>2, <1>3, RedisLoopGoesOn DEF RedisTypes
<1>4. ASSUME NEW e \in pending[c], handed[e] > 0, redisAcked' = redisAcked \cup {e},
             pending' = [pending EXCEPT ![c] = @ \ {e}]
      PROVE  RedisInv'
  <2>1. /\ pending' \in [Consumer -> SUBSET (1..Len(redisStream))]
        /\ pending'[c] = pending[c] \ {e}
        /\ \A d \in Consumer : d # c => pending'[d] = pending[d]
    BY <1>0, <1>4 DEF RedisTypes
  <2>2. RedisTypes'
    BY <1>0, <1>1, <1>2, <2>1 DEF RedisTypes
  <2>3. RedisLoops'
    BY <1>0, <1>1 DEF RedisLoops, RedisTypes
  <2>4. Accounted'
    <3>1. group # None /\ e \in (since + 1)..group
      BY <1>0, <1>1, <1>4 DEF RedisLoops, Accounted
    <3>2. \A d \in Consumer : pending'[d] \subseteq pending[d]
      BY <2>1
    <3>3. \A f \in (since + 1)..group : f \in redisAcked' \/ \E d \in Consumer : f \in pending'[d]
      BY <1>0, <1>4, <2>1, <3>1 DEF Accounted
    <3> QED BY <1>0, <1>1, <1>4, <3>1, <3>2, <3>3 DEF Accounted
  <2>5. OneOwner'
    BY <1>0, <2>1 DEF OneOwner
  <2>6. HandedOnce'
    BY <1>0, <1>1 DEF HandedOnce, Redis!Entry
  <2>7. BatchHeld'
    BY <1>0, <1>1, <1>4, <2>1 DEF BatchHeld
  <2> QED BY <2>2, <2>3, <2>4, <2>5, <2>6, <2>7 DEF RedisInv, RedisHeld
<1> QED BY <1>3, <1>4 DEF Redis!Handled

LEMMA RedisRestart == ASSUME EdgesAssumption, RedisInv, Redis!Restart PROVE RedisInv'
<1>0. RedisTypes /\ RedisLoops /\ RedisHeld
  BY DEF RedisInv
<1>1. /\ UNCHANGED <<redisStream, group, pending, redisAcked, cancelled, since, handed>>
      /\ known' = FALSE /\ busClosed' = FALSE
  BY DEF Redis!Restart
<1>2. known' \in BOOLEAN /\ busClosed' \in BOOLEAN
  BY <1>1
<1>3. /\ redisLoop' \in [Consumer -> LoopState]
      /\ \A c \in Consumer : redisLoop'[c] \in {"none", "ended"}
  BY DEF Redis!Restart, LoopState
<1>4. batch' \in [Consumer -> Seq(Nat)] /\ \A c \in Consumer : batch'[c] = <<>> /\ Len(batch'[c]) = 0
  BY DEF Redis!Restart
<1>5. RedisTypes'
  BY <1>0, <1>1, <1>2, <1>3, <1>4, RedisNumbers DEF RedisTypes
<1>6. RedisLoops'
  BY <1>1, <1>3, <1>4 DEF RedisLoops
<1>7. RedisHeld'
  BY <1>0, <1>1, <1>4 DEF RedisHeld, Accounted, OneOwner, HandedOnce, BatchHeld, Redis!Entry
<1> QED BY <1>5, <1>6, <1>7 DEF RedisInv

LEMMA RedisGoesOn == ASSUME EdgesAssumption, RedisInv, Redis!Next PROVE RedisInv'
<1>0. RedisTypes /\ RedisLoops
  BY DEF RedisInv
<1>1. ASSUME NEW c \in Consumer, Redis!Test(c) \/ Redis!EndBatch(c) \/ Redis!Unsubscribe(c)
      PROVE RedisInv'
  <2>1. CASE Redis!Test(c)
    <3>1. UNCHANGED <<redisStream, group, pending, redisAcked, busClosed, known, cancelled, batch, since, handed>>
      BY <2>1 DEF Redis!Test
    <3>2. /\ redisLoop' \in [Consumer -> LoopState] /\ redisLoop[c] = "testing"
          /\ redisLoop'[c] \in {"ended", "reading"}
          /\ \A d \in Consumer : d # c => redisLoop'[d] = redisLoop[d]
      BY <1>0, <2>1 DEF Redis!Test, Redis!To, RedisTypes, LoopState
    <3> QED BY <1>0, <3>1, <3>2, RedisLoopGoesOn DEF RedisTypes
  <2>2. CASE Redis!EndBatch(c)
    <3>1. UNCHANGED <<redisStream, group, pending, redisAcked, busClosed, known, cancelled, batch, since, handed>>
      BY <2>2 DEF Redis!EndBatch
    <3>2. /\ redisLoop' \in [Consumer -> LoopState] /\ redisLoop[c] = "handing" /\ batch[c] = <<>>
          /\ redisLoop'[c] = "testing"
          /\ \A d \in Consumer : d # c => redisLoop'[d] = redisLoop[d]
      BY <1>0, <2>2 DEF Redis!EndBatch, Redis!To, RedisTypes, LoopState
    <3> QED BY <1>0, <3>1, <3>2, RedisLoopGoesOn DEF RedisTypes
  <2>3. CASE Redis!Unsubscribe(c)
    <3>1. UNCHANGED <<redisStream, group, pending, redisAcked, busClosed, known, redisLoop, batch, since, handed>>
      BY <2>3 DEF Redis!Unsubscribe
    <3>2. cancelled' \in [Consumer -> BOOLEAN]
      BY <1>0, <2>3 DEF Redis!Unsubscribe, RedisTypes
    <3> QED BY <1>0, <3>1, <3>2, RedisLoopGoesOn DEF RedisTypes
  <2> QED BY <1>1, <2>1, <2>2, <2>3
<1>2. CASE Redis!Close
  <2>1. /\ UNCHANGED <<redisStream, group, pending, redisAcked, known, redisLoop, cancelled, batch, since, handed>>
        /\ busClosed' \in BOOLEAN
    BY <1>2 DEF Redis!Close
  <2> QED BY <1>0, <2>1, RedisLoopGoesOn DEF RedisTypes
<1> QED
  BY <1>1, <1>2, RedisPublish, RedisSubscribe, RedisRead, RedisReadFails, RedisHand, RedisHandled,
     RedisRestart DEF Redis!Next

LEMMA RedisRests == ASSUME RedisInv, UNCHANGED redisVars PROVE RedisInv'
<1>1. RedisTypes'
  BY DEF RedisInv, RedisTypes, redisVars
<1>2. RedisLoops' /\ RedisHeld'
  BY DEF RedisInv, RedisLoops, RedisHeld, Accounted, OneOwner, HandedOnce, BatchHeld, redisVars
<1> QED BY <1>1, <1>2 DEF RedisInv

LEMMA RedisIsSafe == ASSUME EdgesAssumption, RedisInv PROVE Redis!TypeOK /\ Redis!EntriesAccounted
<1>0. RedisTypes /\ RedisLoops /\ Accounted /\ OneOwner /\ HandedOnce /\ BatchHeld
  BY DEF RedisInv, RedisHeld
<1>1. Redis!TypeOK
  BY <1>0 DEF Redis!TypeOK, RedisTypes, RedisLoops
<1>2. group # None => (since + 1)..group = redisAcked \cup UNION {pending[c] : c \in Consumer}
  <2> SUFFICES ASSUME group # None
               PROVE \A e : e \in (since + 1)..group <=> e \in redisAcked \cup UNION {pending[c] : c \in Consumer}
    OBVIOUS
  <2> QED BY <1>0 DEF Accounted
<1>3. ASSUME NEW c \in Consumer, NEW i \in 1..MaxEntries, i <= Len(batch[c])
      PROVE batch[c][i] \in pending[c]
  <2>1. i \in 1..Len(batch[c])
    BY <1>0, <1>3, RedisNumbers DEF RedisTypes
  <2> QED BY <1>0, <2>1 DEF BatchHeld
<1> QED BY <1>0, <1>1, <1>2, <1>3 DEF Redis!EntriesAccounted, OneOwner, HandedOnce

-----------------------------------------------------------------------------
(* The memory                                                             *)

IngestState == {"new", "appending", "embedding", "done", "failed"}
CompactionState == {"new", "summarising", "appending", "appending blank", "embedding",
                    "embedding blank", "done", "failed"}
SearchState == {"new", "embedding", "done", "failed"}
MemoryRow == Memory!Row

MemoryCalls ==
  /\ ingest \in [Turn -> [state : IngestState, next : 1..(Parts + 1)]]
  /\ compaction \in [Compaction -> [state : CompactionState, stale : SUBSET MemoryRow]]
  /\ search \in [Search -> [state : SearchState, hits : SUBSET MemoryRow]]

\* A piece is appended to its file before it is indexed.
Ingested ==
  \A t \in Turn :
    /\ ingest[t].state \in {"appending", "embedding"} => ingest[t].next <= Parts
    /\ ingest[t].state = "embedding" => <<t, ingest[t].next>> \in files

\* An identifier is one row's, and names no other row later: what a compaction read is
\* what it deletes.
RowsKnown ==
  /\ \A r \in rows : r.id < nextId /\ r.of \subseteq files
  /\ \A r, x \in rows : r.id = x.id => r = x
  /\ \A c \in Compaction :
       /\ \A x \in compaction[c].stale : x.id < nextId /\ x.of \subseteq files
       /\ \A r \in rows, x \in compaction[c].stale : r.id = x.id => r = x

\* NothingForgotten, of the rows there are.
Remembered == \A p \in indexed : p \in blanked \/ \E r \in rows : p \in r.of

MemoryInv == Memory!TypeOK /\ MemoryCalls /\ Ingested /\ RowsKnown /\ Remembered

LEMMA MemoryNumbers == ASSUME EdgesAssumption
  PROVE Parts \in Nat /\ Parts > 0 /\ MaxTimes \in Nat /\ MaxRows \in Nat
  BY DEF EdgesAssumption, Memory!PalaceAssumption

LEMMA RowIsRow == \A r \in MemoryRow :
  /\ r.id \in 1..MaxRows /\ r.of \in SUBSET Memory!Piece /\ r.at \in 0..MaxTimes
  BY DEF MemoryRow, Memory!Row

LEMMA MemoryStarts == ASSUME EdgesAssumption, Memory!Init PROVE MemoryInv
<1>1. /\ memoryReady \in BOOLEAN /\ memoryClock = 0 /\ rows = {} /\ nextId = 1
      /\ accessLog = {} /\ files = {} /\ indexed = {} /\ blanked = {}
  BY DEF Memory!Init
<1>2. ingest \in [Turn -> [state : IngestState, next : 1..(Parts + 1)]]
      /\ \A t \in Turn : ingest[t].state = "new" /\ ingest[t].next = 1
  BY MemoryNumbers DEF Memory!Init, IngestState
<1>3. compaction \in [Compaction -> [state : CompactionState, stale : SUBSET MemoryRow]]
      /\ \A c \in Compaction : compaction[c].stale = {}
  BY DEF Memory!Init, CompactionState
<1>4. search \in [Search -> [state : SearchState, hits : SUBSET MemoryRow]]
  BY DEF Memory!Init, SearchState
<1>5. 1 \in 1..(MaxRows + 1) /\ 0 \in 0..MaxTimes /\ 1 \in 1..(Parts + 1)
  BY MemoryNumbers
<1>6. Memory!TypeOK
  BY <1>1, <1>2, <1>5 DEF Memory!TypeOK, Memory!Ids
<1> QED
  BY <1>1, <1>2, <1>3, <1>4, <1>6 DEF MemoryInv, MemoryCalls, Ingested, RowsKnown, Remembered

\* A row is inserted, of pieces that are in the files, and others may go.
LEMMA RowsGoOn ==
  ASSUME EdgesAssumption, Memory!TypeOK, MemoryCalls, RowsKnown, NEW stayed \in SUBSET rows,
         NEW of \in SUBSET Memory!Piece, of \subseteq files, Memory!Room,
         rows' = stayed \cup {Memory!NewRow(of)}, nextId' = nextId + 1, UNCHANGED files,
         \A c \in Compaction : compaction'[c].stale \subseteq compaction[c].stale
  PROVE  /\ rows' \subseteq Memory!Row /\ nextId' \in 1..(MaxRows + 1) /\ RowsKnown'
         /\ Memory!NewRow(of) \in rows' /\ Memory!NewRow(of).of = of
         /\ Memory!NewRow(of).id = nextId
<1> DEFINE new == Memory!NewRow(of)
<1>1. nextId \in Nat /\ nextId >= 1 /\ nextId <= MaxRows /\ rows \subseteq MemoryRow
  BY MemoryNumbers DEF Memory!TypeOK, Memory!Room, MemoryRow
<1>2. new \in MemoryRow /\ new.of = of /\ new.id = nextId
  BY <1>1, MemoryNumbers DEF Memory!TypeOK, Memory!NewRow, Memory!Row, MemoryRow
<1> HIDE DEF new
<1>3. rows' = stayed \cup {new}
  BY DEF new
<1>4. rows' \subseteq Memory!Row
  BY <1>1, <1>2, <1>3 DEF MemoryRow
<1>5. \A r \in rows : r.id \in Nat /\ r.id < nextId /\ r.of \subseteq files
  BY <1>1, RowIsRow, MemoryNumbers DEF RowsKnown
<1>6. \A r \in rows' : r.id < nextId' /\ r.of \subseteq files'
  BY <1>1, <1>2, <1>3, <1>5
<1>7. \A r, x \in rows' : r.id = x.id => r = x
  BY <1>1, <1>2, <1>3, <1>5 DEF RowsKnown
<1>8. ASSUME NEW c \in Compaction, NEW x \in compaction'[c].stale
      PROVE  /\ x.id < nextId' /\ x.of \subseteq files'
             /\ \A r \in rows' : r.id = x.id => r = x
  <2>1. x \in compaction[c].stale
    BY <1>8
  <2>2. compaction[c] \in [state : CompactionState, stale : SUBSET MemoryRow]
    BY DEF MemoryCalls
  <2>3. x.id \in Nat
    BY <2>1, <2>2, RowIsRow, MemoryNumbers
  <2>4. x.id < nextId /\ x.of \subseteq files /\ \A r \in rows : r.id = x.id => r = x
    BY <2>1 DEF RowsKnown
  <2> QED BY <1>1, <1>2, <1>3, <2>3, <2>4
<1>9. RowsKnown'
  BY <1>6, <1>7, <1>8 DEF RowsKnown
<1>10. nextId' \in 1..(MaxRows + 1)
  BY <1>1, MemoryNumbers
<1>11. new \in rows' /\ new.of = of /\ new.id = nextId
  BY <1>2, <1>3
<1> QED BY <1>4, <1>9, <1>10, <1>11 DEF new

\* Steps that leave the rows, their files and what is said of them alone.
LEMMA MemoryCallGoesOn ==
  ASSUME EdgesAssumption, MemoryInv, MemoryCalls', Ingested',
         UNCHANGED <<rows, nextId, files, indexed, blanked>>,
         memoryReady' \in BOOLEAN, memoryClock' \in 0..MaxTimes, accessLog' \subseteq Memory!Ids(rows),
         \A c \in Compaction : compaction'[c].stale \subseteq compaction[c].stale
  PROVE  MemoryInv'
<1>1. Memory!TypeOK'
  <2>1. \A t \in Turn : ingest'[t] \in [state : IngestState, next : 1..(Parts + 1)]
    BY DEF MemoryCalls
  <2>2. \A t \in Turn : ingest'[t].next \in 1..(Parts + 1)
    BY <2>1
  <2> QED BY <2>2 DEF MemoryInv, Memory!TypeOK, Memory!Ids
<1>2. RowsKnown' /\ Remembered'
  BY DEF MemoryInv, RowsKnown, Remembered
<1> QED BY <1>1, <1>2 DEF MemoryInv

LEMMA IngestSet ==
  ASSUME MemoryCalls, NEW t \in Turn, NEW s \in IngestState, NEW k \in 1..(Parts + 1),
         Memory!IngestTo(t, s, k)
  PROVE  /\ ingest' \in [Turn -> [state : IngestState, next : 1..(Parts + 1)]]
         /\ ingest'[t].state = s /\ ingest'[t].next = k
         /\ \A u \in Turn : u # t => ingest'[u] = ingest[u]
<1> DEFINE x == [state |-> s, next |-> k]
<1>1. x \in [state : IngestState, next : 1..(Parts + 1)] /\ x.state = s /\ x.next = k
  OBVIOUS
<1>2. ingest' = [ingest EXCEPT ![t] = x]
  BY DEF Memory!IngestTo
<1> HIDE DEF x
<1> QED BY <1>1, <1>2 DEF MemoryCalls

LEMMA IngestIs ==
  ASSUME MemoryCalls, NEW t \in Turn
  PROVE  ingest[t].state \in IngestState /\ ingest[t].next \in 1..(Parts + 1)
<1>1. ingest[t] \in [state : IngestState, next : 1..(Parts + 1)]
  BY DEF MemoryCalls
<1> QED BY <1>1

LEMMA CompactionIs ==
  ASSUME MemoryCalls, NEW c \in Compaction
  PROVE  compaction[c].state \in CompactionState /\ compaction[c].stale \in SUBSET MemoryRow
<1>1. compaction[c] \in [state : CompactionState, stale : SUBSET MemoryRow]
  BY DEF MemoryCalls
<1> QED BY <1>1

LEMMA CompactionSet ==
  ASSUME MemoryCalls, NEW c \in Compaction, NEW s \in CompactionState, Memory!CompactionTo(c, s)
  PROVE  /\ compaction' \in [Compaction -> [state : CompactionState, stale : SUBSET MemoryRow]]
         /\ \A d \in Compaction : compaction'[d].stale = compaction[d].stale
<1> DEFINE x == [compaction[c] EXCEPT !.state = s]
<1>1. compaction[c] \in [state : CompactionState, stale : SUBSET MemoryRow]
  BY DEF MemoryCalls
<1>2. /\ x \in [state : CompactionState, stale : SUBSET MemoryRow]
      /\ x.stale = compaction[c].stale
  BY <1>1
<1>3. compaction' = [compaction EXCEPT ![c] = x]
  BY DEF Memory!CompactionTo
<1> HIDE DEF x
<1> QED BY <1>2, <1>3 DEF MemoryCalls

LEMMA SearchSet ==
  ASSUME MemoryCalls, NEW q \in Search, NEW s \in SearchState, NEW hits \in SUBSET MemoryRow,
         Memory!SearchTo(q, s, hits)
  PROVE  search' \in [Search -> [state : SearchState, hits : SUBSET MemoryRow]]
<1> DEFINE x == [state |-> s, hits |-> hits]
<1>1. x \in [state : SearchState, hits : SUBSET MemoryRow]
  OBVIOUS
<1>2. search' = [search EXCEPT ![q] = x]
  BY DEF Memory!SearchTo
<1> HIDE DEF x
<1> QED BY <1>1, <1>2 DEF MemoryCalls

LEMMA MemoryIngests ==
  ASSUME EdgesAssumption, MemoryInv, NEW t \in Turn,
         Memory!BeginIngest(t) \/ Memory!Append(t) \/ Memory!Index(t)
  PROVE  MemoryInv'
<1>0. Memory!TypeOK /\ MemoryCalls /\ Ingested /\ RowsKnown /\ Remembered
  BY DEF MemoryInv
<1>a. ingest[t].next \in 1..(Parts + 1) /\ 1 \in 1..(Parts + 1) /\ Parts \in Nat
  BY <1>0, IngestIs, MemoryNumbers
<1>b. UNCHANGED <<memoryReady, memoryClock, compaction, search, blanked, accessLog>>
  BY DEF Memory!BeginIngest, Memory!Append, Memory!Index
<1>c. accessLog \subseteq Memory!Ids(rows) /\ memoryReady \in BOOLEAN /\ memoryClock \in 0..MaxTimes
  BY <1>0 DEF Memory!TypeOK
<1>d. \A c \in Compaction : compaction'[c].stale \subseteq compaction[c].stale
  BY <1>b
<1>1. CASE Memory!BeginIngest(t)
  <2>1. /\ Memory!IngestTo(t, IF memoryReady THEN "appending" ELSE "failed", 1)
        /\ UNCHANGED <<rows, nextId, files, indexed>>
    BY <1>1 DEF Memory!BeginIngest
  <2>2. PICK s \in {"appending", "failed"} : Memory!IngestTo(t, s, 1)
    BY <2>1
  <2>3. s \in IngestState
    BY DEF IngestState
  <2>4. /\ ingest' \in [Turn -> [state : IngestState, next : 1..(Parts + 1)]]
        /\ ingest'[t].state = s /\ ingest'[t].next = 1
        /\ \A u \in Turn : u # t => ingest'[u] = ingest[u]
    BY <1>0, <1>a, <2>2, <2>3, IngestSet
  <2>5. MemoryCalls' /\ Ingested'
    BY <1>0, <1>b, <2>1, <2>4, MemoryNumbers DEF MemoryCalls, Ingested
  <2> QED BY <1>b, <1>c, <1>d, <2>1, <2>5, MemoryCallGoesOn
<1>2. CASE Memory!Append(t)
  <2>1. ingest[t].state = "appending" /\ UNCHANGED <<rows, nextId, indexed>>
    BY <1>2 DEF Memory!Append
  <2>2. PICK s \in {"embedding", "failed"} :
          /\ Memory!IngestTo(t, s, ingest[t].next)
          /\ s = "embedding" => files' = files \cup {<<t, ingest[t].next>>}
          /\ s = "failed" => files' = files
    BY <1>2 DEF Memory!Append
  <2>3. s \in IngestState
    BY DEF IngestState
  <2>4. /\ ingest' \in [Turn -> [state : IngestState, next : 1..(Parts + 1)]]
        /\ ingest'[t].state = s /\ ingest'[t].next = ingest[t].next
        /\ \A u \in Turn : u # t => ingest'[u] = ingest[u]
    BY <1>0, <1>a, <2>2, <2>3, IngestSet
  <2>5. ingest[t].next \in 1..Parts /\ <<t, ingest[t].next>> \in Memory!Piece
    BY <1>0, <1>a, <2>1 DEF Ingested, Memory!Piece
  <2>6. files \subseteq files' /\ files' \subseteq Memory!Piece
    BY <1>0, <2>2, <2>5 DEF Memory!TypeOK
  <2>7. MemoryCalls' /\ Ingested'
    BY <1>0, <1>b, <2>2, <2>4, <2>5, <2>6 DEF MemoryCalls, Ingested
  <2>8. RowsKnown'
    BY <1>0, <1>b, <2>1, <2>6 DEF RowsKnown
  <2>9. Memory!TypeOK'
    <3>1. \A u \in Turn : ingest'[u].next \in 1..(Parts + 1)
      BY <1>0, <1>a, <2>4 DEF Memory!TypeOK
    <3> QED BY <1>0, <1>b, <2>1, <2>6, <3>1 DEF Memory!TypeOK, Memory!Ids
  <2> QED BY <1>0, <1>b, <2>1, <2>7, <2>8, <2>9 DEF MemoryInv, Remembered
<1>3. CASE Memory!Index(t)
  <2> DEFINE k == ingest[t].next
             piece == <<t, k>>
  <2>1. ingest[t].state = "embedding" /\ UNCHANGED files
    BY <1>3 DEF Memory!Index
  <2>2. k \in 1..Parts /\ piece \in files /\ piece \in Memory!Piece
    BY <1>0, <1>a, <2>1 DEF Ingested, Memory!Piece
  <2>3. CASE /\ memoryReady /\ Memory!Insert({piece})
             /\ indexed' = indexed \cup {piece}
             /\ Memory!IngestTo(t, IF k = Parts THEN "done" ELSE "appending", k + 1)
    <3>1. PICK s \in {"done", "appending"} :
            Memory!IngestTo(t, s, k + 1) /\ (s = "appending" => k # Parts)
      BY <2>3
    <3>2. s \in IngestState /\ k + 1 \in 1..(Parts + 1)
      BY <2>2, MemoryNumbers DEF IngestState
    <3>3. /\ ingest' \in [Turn -> [state : IngestState, next : 1..(Parts + 1)]]
          /\ ingest'[t].state = s /\ ingest'[t].next = k + 1
          /\ \A u \in Turn : u # t => ingest'[u] = ingest[u]
      BY <1>0, <3>1, <3>2, IngestSet
    <3>4. MemoryCalls'
      BY <1>0, <1>b, <3>3 DEF MemoryCalls
    <3>5. Ingested'
      BY <1>0, <2>1, <2>2, <3>1, <3>3, MemoryNumbers DEF Ingested
    <3>6. /\ Memory!Room /\ rows' = rows \cup {Memory!NewRow({piece})} /\ nextId' = nextId + 1
      BY <2>3 DEF Memory!Insert
    <3> HIDE DEF piece
    <3> DEFINE of == {piece}
    <3>a. of \in SUBSET Memory!Piece /\ of \subseteq files /\ rows \in SUBSET rows
      BY <2>2
    <3>b. Memory!Room /\ rows' = rows \cup {Memory!NewRow(of)} /\ nextId' = nextId + 1
      BY <3>6
    <3> HIDE DEF of
    <3>c. /\ rows' \subseteq Memory!Row /\ nextId' \in 1..(MaxRows + 1) /\ RowsKnown'
          /\ Memory!NewRow(of) \in rows' /\ Memory!NewRow(of).of = of
      BY <1>0, <1>d, <2>1, <3>a, <3>b, RowsGoOn
    <3>7. /\ rows' \subseteq Memory!Row /\ nextId' \in 1..(MaxRows + 1) /\ RowsKnown'
          /\ Memory!NewRow({piece}) \in rows' /\ Memory!NewRow({piece}).of = {piece}
      BY <3>c DEF of
    <3>8. Memory!TypeOK'
      <4>1. \A u \in Turn : ingest'[u].next \in 1..(Parts + 1)
        BY <1>0, <3>2, <3>3 DEF Memory!TypeOK
      <4>2. accessLog' \subseteq Memory!Ids(rows')
        BY <1>b, <1>c, <3>6 DEF Memory!Ids
      <4>3. indexed' \subseteq Memory!Piece
        BY <1>0, <2>2, <2>3 DEF Memory!TypeOK, piece
      <4> QED BY <1>0, <1>b, <1>c, <2>1, <3>7, <4>1, <4>2, <4>3 DEF Memory!TypeOK, Memory!Ids
    <3>9. Remembered'
      <4>1. indexed' = indexed \cup {piece}
        BY <2>3 DEF piece
      <4> QED BY <1>0, <1>b, <3>6, <3>7, <4>1 DEF Remembered
    <3> QED BY <3>4, <3>5, <3>7, <3>8, <3>9 DEF MemoryInv
  <2>4. CASE Memory!IngestTo(t, "failed", k) /\ UNCHANGED <<rows, nextId, indexed>>
    <3>1. /\ ingest' \in [Turn -> [state : IngestState, next : 1..(Parts + 1)]]
          /\ ingest'[t].state = "failed"
          /\ \A u \in Turn : u # t => ingest'[u] = ingest[u]
      BY <1>0, <1>a, <2>4, IngestSet DEF IngestState
    <3>2. MemoryCalls' /\ Ingested'
      BY <1>0, <1>b, <2>1, <3>1 DEF MemoryCalls, Ingested
    <3> QED BY <1>b, <1>c, <1>d, <2>1, <2>4, <3>2, MemoryCallGoesOn
  <2> QED BY <1>3, <2>3, <2>4 DEF Memory!Index
<1> QED BY <1>1, <1>2, <1>3

LEMMA MemoryReads ==
  ASSUME EdgesAssumption, MemoryInv, NEW c \in Compaction, NEW cutoff \in 1..memoryClock,
         Memory!BeginCompact(c, cutoff)
  PROVE  MemoryInv'
<1>0. Memory!TypeOK /\ MemoryCalls /\ Ingested /\ RowsKnown /\ Remembered
  BY DEF MemoryInv
<1>1. UNCHANGED <<memoryReady, memoryClock, rows, nextId, accessLog, files, ingest, search, indexed, blanked>>
  BY DEF Memory!BeginCompact
<1>2. PICK s \in CompactionState, stale \in SUBSET rows :
        compaction' = [compaction EXCEPT ![c] = [state |-> s, stale |-> stale]]
  <2> DEFINE old == {r \in rows : r.at < cutoff}
             s == IF ~memoryReady THEN "failed" ELSE IF old = {} THEN "done" ELSE "summarising"
             stale == IF memoryReady THEN old ELSE {}
  <2>1. s \in CompactionState /\ stale \in SUBSET rows
    BY DEF CompactionState
  <2>2. compaction' = [compaction EXCEPT ![c] = [state |-> s, stale |-> stale]]
    BY DEF Memory!BeginCompact
  <2> QED BY <2>1, <2>2
<1> DEFINE x == [state |-> s, stale |-> stale]
<1>3. rows \subseteq MemoryRow
  BY <1>0 DEF Memory!TypeOK, MemoryRow
<1>4. x \in [state : CompactionState, stale : SUBSET MemoryRow] /\ x.stale = stale
  BY <1>3
<1>5. compaction' = [compaction EXCEPT ![c] = x]
  BY <1>2
<1> HIDE DEF x
<1>6. /\ compaction' \in [Compaction -> [state : CompactionState, stale : SUBSET MemoryRow]]
      /\ compaction'[c].stale = stale /\ \A d \in Compaction : d # c => compaction'[d] = compaction[d]
  BY <1>0, <1>4, <1>5 DEF MemoryCalls
<1>7. RowsKnown'
  <2>1. \A r \in stale : r.id < nextId /\ r.of \subseteq files /\ \A y \in rows : y.id = r.id => y = r
    BY <1>0 DEF RowsKnown
  <2>2. ASSUME NEW d \in Compaction
        PROVE /\ \A r \in compaction'[d].stale : r.id < nextId /\ r.of \subseteq files
              /\ \A y \in rows, r \in compaction'[d].stale : y.id = r.id => y = r
    <3>1. CASE d = c
      BY <1>6, <2>1, <3>1
    <3>2. CASE d # c
      BY <1>0, <1>6, <3>2 DEF RowsKnown
    <3> QED BY <3>1, <3>2
  <2> QED BY <1>0, <1>1, <2>2 DEF RowsKnown
<1>8. MemoryCalls' /\ Ingested' /\ Remembered'
  BY <1>0, <1>1, <1>6 DEF MemoryCalls, Ingested, Remembered
<1>9. Memory!TypeOK'
  BY <1>0, <1>1 DEF Memory!TypeOK, Memory!Ids
<1> QED BY <1>7, <1>8, <1>9 DEF MemoryInv

LEMMA MemoryCompacts ==
  ASSUME EdgesAssumption, MemoryInv, NEW c \in Compaction,
         Memory!Summarise(c) \/ Memory!AppendSummary(c) \/ Memory!ReplaceFails(c)
  PROVE  MemoryInv'
<1>0. Memory!TypeOK /\ MemoryCalls /\ Ingested
  BY DEF MemoryInv
<1>1. UNCHANGED <<memoryReady, memoryClock, rows, nextId, accessLog, files, ingest, search, indexed, blanked>>
  BY DEF Memory!Summarise, Memory!AppendSummary, Memory!ReplaceFails
<1>2. PICK s \in CompactionState : Memory!CompactionTo(c, s)
  BY DEF Memory!Summarise, Memory!AppendSummary, Memory!ReplaceFails, CompactionState
<1>3. /\ compaction' \in [Compaction -> [state : CompactionState, stale : SUBSET MemoryRow]]
      /\ \A d \in Compaction : compaction'[d].stale \subseteq compaction[d].stale
  BY <1>0, <1>2, CompactionSet
<1>4. MemoryCalls' /\ Ingested'
  BY <1>0, <1>1, <1>3 DEF MemoryCalls, Ingested
<1>5. accessLog \subseteq Memory!Ids(rows) /\ memoryReady \in BOOLEAN /\ memoryClock \in 0..MaxTimes
  BY <1>0 DEF Memory!TypeOK
<1> QED BY <1>1, <1>3, <1>4, <1>5, MemoryCallGoesOn

\* What a compaction tells of, and what it blanks, covers what it read.
LEMMA MemoryTells ==
  ASSUME MemoryInv, NEW c \in Compaction, Memory!Embedded(c), Memory!Blank(c)
  PROVE  /\ Memory!Told(c) \in SUBSET Memory!Piece /\ Memory!Told(c) \subseteq files
         /\ blanked \subseteq blanked' /\ blanked' \subseteq Memory!Piece
         /\ \A r \in compaction[c].stale : \A p \in r.of : p \in Memory!Told(c) \/ p \in blanked'
<1> DEFINE pieces == Memory!Pieces(compaction[c].stale)
<1>0. Memory!TypeOK /\ MemoryCalls /\ RowsKnown
  BY DEF MemoryInv
<1>1. compaction[c].stale \subseteq MemoryRow
  BY <1>0, CompactionIs
<1>2. pieces \subseteq Memory!Piece /\ pieces \subseteq files
  BY <1>0, <1>1, RowIsRow DEF Memory!Pieces, RowsKnown
<1>3. \A r \in compaction[c].stale : \A p \in r.of : p \in pieces
  BY DEF Memory!Pieces
<1> HIDE DEF pieces
<1>4. CASE compaction[c].state = "embedding"
  <2>1. Memory!Told(c) = pieces /\ blanked' = blanked
    BY <1>4 DEF Memory!Told, Memory!Blank, pieces
  <2> QED BY <1>0, <1>2, <1>3, <2>1 DEF Memory!TypeOK
<1>5. CASE compaction[c].state # "embedding"
  <2>1. Memory!Told(c) = {} /\ blanked' = blanked \cup pieces
    BY <1>5 DEF Memory!Told, Memory!Blank, pieces
  <2> QED BY <1>0, <1>2, <1>3, <2>1 DEF Memory!TypeOK
<1> QED BY <1>4, <1>5

\* The summary's row covers the rows that go.
LEMMA MemoryReplaces ==
  ASSUME EdgesAssumption, MemoryInv, NEW c \in Compaction, Memory!Embedded(c), Memory!Blank(c),
         Memory!Room, nextId' = nextId + 1, NEW stayed \in SUBSET rows,
         rows' = stayed \cup {Memory!NewRow(Memory!Told(c))},
         \A r \in rows : r \in stayed \/ r \in compaction[c].stale,
         accessLog' \subseteq Memory!Ids(stayed), UNCHANGED <<memoryReady, memoryClock, files, indexed>>,
         \A d \in Compaction : compaction'[d].stale \subseteq compaction[d].stale,
         MemoryCalls', Ingested'
  PROVE  MemoryInv'
<1> DEFINE of == Memory!Told(c)
<1>0. Memory!TypeOK /\ MemoryCalls /\ RowsKnown /\ Remembered
  BY DEF MemoryInv
<1>1. /\ of \in SUBSET Memory!Piece /\ of \subseteq files
      /\ blanked \subseteq blanked' /\ blanked' \subseteq Memory!Piece
      /\ \A r \in compaction[c].stale : \A p \in r.of : p \in of \/ p \in blanked'
  BY MemoryTells
<1>2. rows' = stayed \cup {Memory!NewRow(of)}
  OBVIOUS
<1> HIDE DEF of
<1>3. /\ rows' \subseteq Memory!Row /\ nextId' \in 1..(MaxRows + 1) /\ RowsKnown'
      /\ Memory!NewRow(of) \in rows' /\ Memory!NewRow(of).of = of
  BY <1>0, <1>1, <1>2, RowsGoOn
<1>4. Remembered'
  BY <1>0, <1>1, <1>2, <1>3 DEF Remembered
<1>5. Memory!TypeOK'
  <2>1. \A t \in Turn : ingest'[t] \in [state : IngestState, next : 1..(Parts + 1)]
    BY DEF MemoryCalls
  <2>2. \A t \in Turn : ingest'[t].next \in 1..(Parts + 1)
    BY <2>1
  <2>3. accessLog' \subseteq Memory!Ids(rows')
    BY <1>2 DEF Memory!Ids
  <2> QED BY <1>0, <1>1, <1>3, <2>2, <2>3 DEF Memory!TypeOK, Memory!Ids
<1> QED BY <1>3, <1>4, <1>5 DEF MemoryInv

LEMMA MemoryReplace ==
  ASSUME EdgesAssumption, MemoryInv, NEW c \in Compaction, Memory!Replace(c)
  PROVE  MemoryInv'
<1> DEFINE stale == Memory!Ids(compaction[c].stale)
<1>0. Memory!TypeOK /\ MemoryCalls /\ Ingested /\ RowsKnown
  BY DEF MemoryInv
<1>1. /\ Memory!Embedded(c) /\ Memory!Room /\ nextId' = nextId + 1 /\ Memory!Blank(c)
      /\ UNCHANGED <<memoryReady, memoryClock, files, ingest, search, indexed>>
  BY DEF Memory!Replace
<1>2. PICK s \in {"done", "failed"} : Memory!CompactionTo(c, s)
  BY DEF Memory!Replace
<1>3. /\ compaction' \in [Compaction -> [state : CompactionState, stale : SUBSET MemoryRow]]
      /\ \A d \in Compaction : compaction'[d].stale \subseteq compaction[d].stale
  BY <1>0, <1>2, CompactionSet DEF CompactionState
<1>4. MemoryCalls' /\ Ingested'
  BY <1>0, <1>1, <1>3 DEF MemoryCalls, Ingested
<1>5. PICK stayed \in SUBSET rows :
        /\ rows' = stayed \cup {Memory!NewRow(Memory!Told(c))}
        /\ accessLog' \subseteq Memory!Ids(stayed)
        /\ \A r \in rows : r \in stayed \/ r.id \in stale
  <2>1. CASE Memory!Deletable(stale)
    <3> DEFINE left == {r \in rows : r.id \notin stale}
    <3>1. rows' = left \cup {Memory!NewRow(Memory!Told(c))} /\ accessLog' = accessLog \ stale
      BY <2>1 DEF Memory!Replace
    <3>2. accessLog' \subseteq Memory!Ids(left)
      BY <1>0, <3>1 DEF Memory!TypeOK, Memory!Ids
    <3> QED BY <3>1, <3>2
  <2>2. CASE ~Memory!Deletable(stale)
    <3>1. rows' = rows \cup {Memory!NewRow(Memory!Told(c))} /\ accessLog' = accessLog
      BY <2>2 DEF Memory!Replace
    <3> QED BY <1>0, <3>1 DEF Memory!TypeOK
  <2> QED BY <2>1, <2>2
<1>6. \A r \in rows : r \in stayed \/ r \in compaction[c].stale
  BY <1>0, <1>5 DEF RowsKnown, Memory!Ids
<1> QED BY <1>1, <1>3, <1>4, <1>5, <1>6, MemoryReplaces

LEMMA MemoryLoses ==
  ASSUME MemoryInv, Memory!Lose, files \subseteq files'
  PROVE  /\ MemoryCalls' /\ Ingested'
         /\ \A c \in Compaction : compaction'[c].stale \subseteq compaction[c].stale
<1>0. MemoryCalls /\ Ingested
  BY DEF MemoryInv
<1>1. ASSUME NEW t \in Turn
      PROVE  /\ ingest'[t] \in [state : IngestState, next : 1..(Parts + 1)]
             /\ ingest'[t].state \notin {"appending", "embedding"}
  <2>1. ingest[t] \in [state : IngestState, next : 1..(Parts + 1)]
    BY <1>0 DEF MemoryCalls
  <2>2. CASE Memory!Busy(ingest[t].state)
    <3>1. ingest'[t] = [ingest[t] EXCEPT !.state = "failed"]
      BY <2>2 DEF Memory!Lose
    <3> QED BY <2>1, <3>1 DEF IngestState
  <2>3. CASE ~Memory!Busy(ingest[t].state)
    <3>1. ingest'[t] = ingest[t]
      BY <2>3 DEF Memory!Lose
    <3> QED BY <2>1, <2>3, <3>1 DEF Memory!Busy
  <2> QED BY <2>2, <2>3
<1>2. ASSUME NEW c \in Compaction
      PROVE  /\ compaction'[c] \in [state : CompactionState, stale : SUBSET MemoryRow]
             /\ compaction'[c].stale \subseteq compaction[c].stale
  <2>1. compaction[c] \in [state : CompactionState, stale : SUBSET MemoryRow]
    BY <1>0 DEF MemoryCalls
  <2>2. compaction'[c] = [state |-> "failed", stale |-> {}] \/ compaction'[c] = compaction[c]
    BY DEF Memory!Lose
  <2>3. CASE compaction'[c] = [state |-> "failed", stale |-> {}]
    BY <2>3 DEF CompactionState
  <2> QED BY <2>1, <2>2, <2>3
<1>3. ASSUME NEW s \in Search PROVE search'[s] \in [state : SearchState, hits : SUBSET MemoryRow]
  <2>1. search[s] \in [state : SearchState, hits : SUBSET MemoryRow]
    BY <1>0 DEF MemoryCalls
  <2>2. search'[s] = [state |-> "failed", hits |-> {}] \/ search'[s] = search[s]
    BY DEF Memory!Lose
  <2> QED BY <2>1, <2>2 DEF SearchState
<1>4. /\ ingest' = [t \in Turn |-> ingest'[t]] /\ compaction' = [c \in Compaction |-> compaction'[c]]
      /\ search' = [s \in Search |-> search'[s]]
  BY DEF Memory!Lose
<1>5. MemoryCalls'
  BY <1>1, <1>2, <1>3, <1>4 DEF MemoryCalls
<1>6. Ingested'
  BY <1>1 DEF Ingested
<1> QED BY <1>2, <1>5, <1>6

LEMMA MemoryGoesOn == ASSUME EdgesAssumption, MemoryInv, Memory!Next PROVE MemoryInv'
<1>0. Memory!TypeOK /\ MemoryCalls /\ Ingested
  BY DEF MemoryInv
<1>a. accessLog \subseteq Memory!Ids(rows) /\ memoryReady \in BOOLEAN /\ memoryClock \in 0..MaxTimes
  BY <1>0 DEF Memory!TypeOK
<1>1. ASSUME NEW s \in Search, Memory!BeginSearch(s) PROVE MemoryInv'
  <2>1. UNCHANGED <<memoryReady, memoryClock, rows, nextId, accessLog, files, ingest, compaction, indexed, blanked>>
    BY <1>1 DEF Memory!BeginSearch
  <2>2. PICK state \in SearchState, hits \in SUBSET rows : Memory!SearchTo(s, state, hits)
    BY <1>1 DEF Memory!BeginSearch, SearchState
  <2>3. hits \in SUBSET MemoryRow
    BY <1>0 DEF Memory!TypeOK, MemoryRow
  <2>4. search' \in [Search -> [state : SearchState, hits : SUBSET MemoryRow]]
    BY <1>0, <2>2, <2>3, SearchSet
  <2>5. MemoryCalls' /\ Ingested'
    BY <1>0, <2>1, <2>4 DEF MemoryCalls, Ingested
  <2> QED BY <1>a, <2>1, <2>5, MemoryCallGoesOn
<1>2. ASSUME NEW s \in Search, Memory!RecordAccesses(s) PROVE MemoryInv'
  <2>1. UNCHANGED <<memoryReady, memoryClock, rows, nextId, files, ingest, compaction, indexed, blanked>>
    BY <1>2 DEF Memory!RecordAccesses
  <2>2. search[s] \in [state : SearchState, hits : SUBSET MemoryRow]
    BY <1>0 DEF MemoryCalls
  <2>3. PICK state \in SearchState, hits \in SUBSET MemoryRow : Memory!SearchTo(s, state, hits)
    BY <1>2, <2>2 DEF Memory!RecordAccesses, SearchState
  <2>4. search' \in [Search -> [state : SearchState, hits : SUBSET MemoryRow]]
    BY <1>0, <2>3, SearchSet
  <2>5. MemoryCalls' /\ Ingested'
    BY <1>0, <2>1, <2>4 DEF MemoryCalls, Ingested
  <2>6. accessLog' \subseteq Memory!Ids(rows)
    BY <1>2, <1>a DEF Memory!RecordAccesses
  <2> QED BY <1>a, <2>1, <2>5, <2>6, MemoryCallGoesOn
<1>3. CASE Memory!Close
  <2>1. /\ UNCHANGED <<memoryClock, rows, nextId, accessLog, files, ingest, compaction, search, indexed, blanked>>
        /\ memoryReady' \in BOOLEAN
    BY <1>3 DEF Memory!Close
  <2>2. MemoryCalls' /\ Ingested'
    BY <1>0, <2>1 DEF MemoryCalls, Ingested
  <2> QED BY <1>a, <2>1, <2>2, MemoryCallGoesOn
<1>4. CASE Memory!Restart
  <2>1. /\ UNCHANGED <<memoryClock, rows, nextId, accessLog, files, indexed, blanked>>
        /\ memoryReady' \in BOOLEAN /\ Memory!Lose
    BY <1>4 DEF Memory!Restart
  <2> QED BY <1>a, <2>1, MemoryLoses, MemoryCallGoesOn
<1>5. CASE Memory!Tick
  <2>1. /\ UNCHANGED <<memoryReady, rows, nextId, accessLog, files, ingest, compaction, search, indexed, blanked>>
        /\ memoryClock' \in 0..MaxTimes
    BY <1>5, <1>a, MemoryNumbers DEF Memory!Tick
  <2>2. MemoryCalls' /\ Ingested'
    BY <1>0, <2>1 DEF MemoryCalls, Ingested
  <2> QED BY <1>a, <2>1, <2>2, MemoryCallGoesOn
<1>6. ASSUME NEW c \in Compaction, Memory!CrashInReplace(c) PROVE MemoryInv'
  <2>1. /\ Memory!Embedded(c) /\ Memory!Insert(Memory!Told(c)) /\ Memory!Blank(c) /\ Memory!Lose
        /\ UNCHANGED <<memoryReady, memoryClock, accessLog, files, indexed>>
    BY <1>6 DEF Memory!CrashInReplace
  <2>2. /\ Memory!Room /\ rows' = rows \cup {Memory!NewRow(Memory!Told(c))} /\ nextId' = nextId + 1
    BY <2>1 DEF Memory!Insert
  <2>3. /\ MemoryCalls' /\ Ingested'
        /\ \A d \in Compaction : compaction'[d].stale \subseteq compaction[d].stale
    BY <2>1, MemoryLoses
  <2> QED BY <1>a, <2>1, <2>2, <2>3, MemoryReplaces
<1> QED
  BY <1>1, <1>2, <1>3, <1>4, <1>5, <1>6, MemoryIngests, MemoryReads, MemoryCompacts, MemoryReplace
  DEF Memory!Next

LEMMA MemoryRests == ASSUME MemoryInv, UNCHANGED memoryVars PROVE MemoryInv'
<1>1. Memory!TypeOK'
  BY DEF MemoryInv, Memory!TypeOK, Memory!Ids, memoryVars
<1>2. MemoryCalls' /\ Ingested' /\ RowsKnown' /\ Remembered'
  BY DEF MemoryInv, MemoryCalls, Ingested, RowsKnown, Remembered, memoryVars
<1> QED BY <1>1, <1>2 DEF MemoryInv

LEMMA MemoryIsSafe == ASSUME MemoryInv PROVE Memory!TypeOK /\ Memory!NothingForgotten
  BY DEF MemoryInv, Remembered, RowsKnown, Memory!NothingForgotten, Memory!Pieces

-----------------------------------------------------------------------------
(* Webhooks                                                               *)

\* No two requests carry the same message; one that is read carries what may still be
\* dispatched; one that is answered 200 carries what was signed and dispatched.
HooksInv ==
  /\ Hooks!TypeOK
  /\ \A p, q \in Post : p # q => post[p].carries \cap post[q].carries = {}
  /\ \A p \in Post :
       /\ post[p].phase = "idle" => post[p].carries = {}
       /\ post[p].phase = "reading" =>
            \A m \in post[p].carries : posted[m] < MaxDispatches
       /\ post[p].phase = "ok" =>
            /\ post[p].carries \subseteq ProviderMessage
            /\ \A m \in post[p].carries \cap Spoken : posted[m] > 0
  /\ Hooks!AnsweredDispatched /\ Hooks!OnlySigned

LEMMA HooksConstants ==
  ASSUME EdgesAssumption
  PROVE Spoken \subseteq ProviderMessage /\ Foreign \cap ProviderMessage = {} /\ MaxDispatches \in Nat
  BY DEF EdgesAssumption, Hooks!WebhookAssumption

LEMMA HooksStarts == ASSUME EdgesAssumption, Hooks!Init PROVE HooksInv
<1>1. serving \in BOOLEAN
  BY DEF Hooks!Init
<1> QED
  BY <1>1, HooksConstants DEF Hooks!Init, HooksInv, Hooks!TypeOK, Hooks!Idle, Hooks!AnsweredDispatched,
    Hooks!OnlySigned

LEMMA HooksKeeps == ASSUME EdgesAssumption, HooksInv, Hooks!Next PROVE HooksInv'
<1> USE HooksConstants DEF HooksInv, Hooks!TypeOK, Hooks!Idle, Hooks!AnsweredDispatched, Hooks!OnlySigned
<1>1. CASE Hooks!Initialize
  <2>1. serving' \in BOOLEAN
    BY <1>1 DEF Hooks!Initialize
  <2> QED BY <1>1, <2>1 DEF Hooks!Initialize
<1>2. CASE Hooks!Crash
  <2>1. serving' \in BOOLEAN
    BY <1>2 DEF Hooks!Crash
  <2> QED BY <1>2, <2>1 DEF Hooks!Crash
<1>3. CASE Hooks!Shutdown
  <2>1. serving' \in BOOLEAN
    BY <1>3 DEF Hooks!Shutdown
  <2> QED BY <1>3, <2>1 DEF Hooks!Shutdown
<1>4. CASE Hooks!Closed
  BY <1>4 DEF Hooks!Closed
<1>5. ASSUME NEW p \in Post, NEW ms \in (SUBSET ProviderMessage) \cup {{m} : m \in Foreign}, Hooks!Posted(p, ms)
      PROVE HooksInv'
  <2>1. ms \in SUBSET (ProviderMessage \cup Foreign)
    OBVIOUS
  <2>2. post' = [post EXCEPT ![p] = [phase |-> "reading", carries |-> ms]]
    BY <1>5 DEF Hooks!Posted
  <2>3. Hooks!TypeOK'
    BY <1>5, <2>1, <2>2 DEF Hooks!Posted
  <2>4. \A q \in Post : q # p => post'[q] = post[q]
    BY <2>2
  <2>5. post'[p].phase = "reading" /\ post'[p].carries = ms
    BY <2>2
  <2> QED BY <1>5, <2>1, <2>3, <2>4, <2>5 DEF Hooks!Posted
<1>6. ASSUME NEW p \in Post, Hooks!Handle(p) PROVE HooksInv'
  <2>1. CASE post[p].carries \subseteq ProviderMessage
    <3> DEFINE came == Hooks!Heard(post[p].carries)
    <3>1. came \subseteq post[p].carries /\ post[p].carries \cap Spoken \subseteq came
          /\ came \cap Foreign = {}
      BY <2>1 DEF Hooks!Heard
    <3>2. posted' = [m \in ProviderMessage \cup Foreign |-> posted[m] + IF m \in came THEN 1 ELSE 0]
      BY <1>6, <2>1 DEF Hooks!Handle, Hooks!Verified, Hooks!Dispatch
    <3>3. post' = [post EXCEPT ![p].phase = "ok"] /\ UNCHANGED <<server, serving, answered>>
      BY <1>6, <2>1 DEF Hooks!Handle, Hooks!Verified
    <3>4. post[p].phase = "reading"
      BY <1>6 DEF Hooks!Handle
    <3> HIDE DEF came
    <3>5. posted' \in [ProviderMessage \cup Foreign -> 0..MaxDispatches]
      BY <3>1, <3>2, <3>4
    <3>6. \A q \in Post : q # p => post'[q] = post[q]
      BY <3>3
    <3>7. post'[p].phase = "ok" /\ post'[p].carries = post[p].carries
      BY <3>3
    <3>8. Hooks!TypeOK'
      BY <3>3, <3>5
    <3>9. \A m \in post[p].carries \cap Spoken : posted'[m] > 0
      BY <3>1, <3>2
    <3>10. \A m \in ProviderMessage \cup Foreign : posted'[m] >= posted[m]
      BY <3>2
    <3>11. \A m \in (ProviderMessage \cup Foreign) \ post[p].carries : posted'[m] = posted[m]
      BY <3>1, <3>2
    <3>12. \A m \in Foreign : posted'[m] = 0
      BY <3>1, <3>2
    <3>13. \A m \in answered \cap Spoken : posted'[m] > 0
      <4>1. posted \in [ProviderMessage \cup Foreign -> Nat] /\ posted' \in [ProviderMessage \cup Foreign -> Nat]
        BY <3>5
      <4>2. \A m \in answered \cap Spoken : m \in ProviderMessage /\ posted[m] > 0
        OBVIOUS
      <4> QED BY <4>1, <4>2, <3>10
    <3>14. \A q, r \in Post : q # r => post'[q].carries \cap post'[r].carries = {}
      BY <3>6, <3>7
    <3>15. \A q \in Post :
             /\ post'[q].phase = "idle" => post'[q].carries = {}
             /\ post'[q].phase = "reading" => \A m \in post'[q].carries : posted'[m] < MaxDispatches
             /\ post'[q].phase = "ok" =>
                  /\ post'[q].carries \subseteq ProviderMessage
                  /\ \A m \in post'[q].carries \cap Spoken : posted'[m] > 0
      <4> DEFINE Read(q) ==
             /\ post'[q].phase = "idle" => post'[q].carries = {}
             /\ post'[q].phase = "reading" => \A m \in post'[q].carries : posted'[m] < MaxDispatches
             /\ post'[q].phase = "ok" =>
                  /\ post'[q].carries \subseteq ProviderMessage
                  /\ \A m \in post'[q].carries \cap Spoken : posted'[m] > 0
      <4>1. Read(p)
        BY <3>7, <3>9, <2>1
      <4>2. ASSUME NEW q \in Post, q # p PROVE Read(q)
        <5>1. post[q].carries \subseteq (ProviderMessage \cup Foreign) \ post[p].carries
          BY <4>2
        <5>2. \A m \in post[q].carries : posted'[m] = posted[m]
          BY <3>11, <5>1
        <5> QED BY <4>2, <3>6, <5>2
      <4> QED BY <4>1, <4>2
    <3>16. server' = "closed" => \A q \in Post : post'[q] = Hooks!Idle
      BY <3>3, <3>4
    <3> QED BY <3>3, <3>8, <3>12, <3>13, <3>14, <3>15, <3>16
  <2>2. CASE ~(post[p].carries \subseteq ProviderMessage)
    <3>1. post' = [post EXCEPT ![p].phase = "refused"] /\ UNCHANGED <<server, serving, answered, posted>>
      BY <1>6, <2>2 DEF Hooks!Handle, Hooks!Verified
    <3>2. post[p].phase = "reading"
      BY <1>6 DEF Hooks!Handle
    <3> QED BY <3>1, <3>2
  <2> QED BY <2>1, <2>2
<1>7. ASSUME NEW p \in Post, Hooks!Answer(p) PROVE HooksInv'
  <2>1. post' = [post EXCEPT ![p] = [phase |-> "idle", carries |-> {}]] /\ UNCHANGED <<server, serving, posted>>
    BY <1>7 DEF Hooks!Answer
  <2>2. post[p].phase \in {"ok", "refused"}
    BY <1>7 DEF Hooks!Answer
  <2>3. answered' \subseteq answered \cup (IF post[p].phase = "ok" THEN post[p].carries ELSE {})
    BY <1>7 DEF Hooks!Answer
  <2>4. answered' \subseteq ProviderMessage /\ \A m \in answered' \cap Spoken : posted[m] > 0
    BY <2>3
  <2> QED BY <2>1, <2>2, <2>4
<1> QED BY <1>1, <1>2, <1>3, <1>4, <1>5, <1>6, <1>7 DEF Hooks!Next

LEMMA HooksRests == ASSUME HooksInv, UNCHANGED webhookVars PROVE HooksInv'
  BY DEF HooksInv, Hooks!TypeOK, Hooks!AnsweredDispatched, Hooks!OnlySigned, webhookVars
=============================================================================

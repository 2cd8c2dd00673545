------------------------------- MODULE MCEdges -------------------------------
(***************************************************************************)
(* The edges of the system, what comes in from the outside and what is     *)
(* kept on disk: the transports of Discord, Slack and Telegram, the web    *)
(* chat, the browser's client, page and identity, the device node, the     *)
(* gateway's device registry and rate limiter, the bus over Redis, the     *)
(* table of sessions, the memory, the persona, the goals, the streams of   *)
(* the models and the webhooks.  They share no state.  A behaviour is one  *)
(* of one component, chosen at the start, so that the states to explore    *)
(* are a sum and not a product.                                            *)
(***************************************************************************)
EXTENDS Integers, Sequences

CONSTANTS
  MaxEvents, MaxSessions, Event, MaxUpdates, Conn, Device, None, Torn,
  Challenge, ChallengeTtl, SessionTtl, MaxTime, MaxSecrets,
  Key, Capacity, Rate, Cost, MaxSockets, Call, MaxAttempts,
  Send, MaxChains, EnrollCall, AssertCall, Reset, MaxKeys,
  Socket, ChatUser, Said, MaxRegistrations,
  Gateway, Cli, Agent, DefaultAgent, Conversation, Rule, MaxIds,
  Consumer, Batch, MaxEntries,
  Turn, Parts, Compaction, Search, MaxVariables, MaxTimes, MaxRows,
  Evolve, Decay, Snapshot, Import, Stored, Given, MaxCalls,
  CreateCall, UpdateCall, List, Wire, MaxRounds, MaxChunks,
  ProviderMessage, Spoken, Foreign, Post, MaxDispatches

VARIABLES
  which,
  socket, heartbeat, sessionId, lastSeq, closed, fatal, timer, resumePending, stream,
  cursor, events, newest, handled,
  slackSocket, fetching, slackTimer, slackClosed, stoppedFetching, slackHandled, acked,
  running, aborted, loop, nextOffset, updates, confirmed, dispatched,
  nodeRunning, ws, deviceId, hello, connections, verified, said,
  now, up, secret, devices, challenges, file, cli, secrets, issued, outside,
  clock, latest, bucket, granted,
  page, pageWs, ready, attempt, closedByCaller, status, timers, call,
  request, busy, streaming, turns, unfinished, knowsSession, phase, history, got,
  attached, visible, online, ticks, tracked, strays, overlaps,
  storedKey, answeredBy, enrolledAs, pair, token, keys, op, identityOverlapped,
  chatSocket, registration, clients, registrations, channel, turn, attending, heard,
  recorded, renamed,
  rules, table, nextSession, visit, held, preambles, resolved, marked, rowOverlapped,
  redisStream, group, pending, redisAcked, busClosed, known, redisLoop, cancelled, batch,
  since, handed,
  memoryReady, memoryClock, rows, nextId, accessLog, files, ingest, compaction, search,
  indexed, blanked,
  objects, cached, personaFile, personaCall, truncated, writesOverlapped, kept, raced,
  goals, goalFile, goalCall, chain, told, clobbered,
  provider, tools, json, streamPhase, round, calls, chunks, indexToId, pendingCalls, text,
  prefillEmitted, messages, sent,
  server, serving, post, answered, posted

discordVars == <<socket, heartbeat, sessionId, lastSeq, closed, fatal, timer,
                 resumePending, stream, cursor, events, newest, handled>>
slackVars == <<slackSocket, fetching, slackTimer, slackClosed, stoppedFetching,
               slackHandled, acked>>
telegramVars == <<running, aborted, loop, nextOffset, updates, confirmed, dispatched>>
nodeVars == <<nodeRunning, ws, deviceId, hello, connections, verified, said>>
authVars == <<now, up, secret, devices, challenges, file, cli, secrets, issued, outside>>
limiterVars == <<clock, latest, bucket, granted>>
browserVars == <<page, pageWs, ready, attempt, closedByCaller, status, timers, call>>
pageVars == <<request, busy, streaming, turns, unfinished, knowsSession, phase, history,
              got, attached, visible, online, ticks, tracked, strays, overlaps>>
identityVars == <<storedKey, answeredBy, enrolledAs, pair, token, keys, op,
                  identityOverlapped>>
webchatVars == <<chatSocket, registration, clients, registrations, channel, turn,
                 attending, heard, recorded, renamed>>
sessionsVars == <<rules, table, nextSession, visit, held, preambles, resolved, marked,
                  rowOverlapped>>
redisVars == <<redisStream, group, pending, redisAcked, busClosed, known, redisLoop,
               cancelled, batch, since, handed>>
memoryVars == <<memoryReady, memoryClock, rows, nextId, accessLog, files, ingest,
                compaction, search, indexed, blanked>>
personaVars == <<objects, cached, personaFile, personaCall, truncated, writesOverlapped,
                 kept, raced>>
goalsVars == <<goals, goalFile, goalCall, chain, told, clobbered>>
modelVars == <<provider, tools, json, streamPhase, round, calls, chunks, indexToId,
               pendingCalls, text, prefillEmitted, messages, sent>>
webhookVars == <<server, serving, post, answered, posted>>

Discord == INSTANCE DiscordGateway
Slack == INSTANCE SlackSocketMode WITH
  socket <- slackSocket, timer <- slackTimer, closed <- slackClosed,
  handled <- slackHandled
Telegram == INSTANCE TelegramPolling
Node == INSTANCE DeviceNode WITH
  running <- nodeRunning
Auth == INSTANCE DeviceAuth
Limiter == INSTANCE RateLimiter WITH
  now <- clock
Browser == INSTANCE BrowserRpcClient WITH
  socket <- page, ws <- pageWs
Page == INSTANCE BrowserPage WITH
  NoTurn <- None
Identity == INSTANCE DeviceIdentity WITH
  Enroll <- EnrollCall, Assert <- AssertCall,
  stored <- storedKey, deviceId <- enrolledAs, overlapped <- identityOverlapped
Web == INSTANCE WebChat WITH
  Turn <- Said, User <- ChatUser, Nobody <- None
Sessions == INSTANCE Sessions WITH
  overlapped <- rowOverlapped, Nil <- None, MaxSessions <- MaxIds
Redis == INSTANCE RedisStreamsBus WITH
  stream <- redisStream, acked <- redisAcked, loop <- redisLoop, NoGroup <- None
Memory == INSTANCE PalaceMemory WITH
  ready <- memoryReady, clock <- memoryClock, MaxTime <- MaxTimes
Persona == INSTANCE Persona WITH
  file <- personaFile, call <- personaCall, overlapped <- writesOverlapped,
  Missing <- None
Goals == INSTANCE GoalStore WITH
  Create <- CreateCall, Update <- UpdateCall,
  Null <- None, Half <- Torn
Model == INSTANCE ModelStream WITH
  phase <- streamPhase, pending <- pendingCalls
Hooks == INSTANCE Webhook WITH
  Message <- ProviderMessage, running <- serving, dispatched <- posted

ASSUME EdgesAssumption ==
  /\ Discord!DiscordAssumption /\ Telegram!TelegramAssumption /\ Node!DeviceAssumption
  /\ Auth!AuthAssumption
  /\ Limiter!RateAssumption /\ Browser!BrowserAssumption /\ Page!PageAssumption
  /\ Identity!IdentityAssumption /\ Web!WebChatAssumption /\ Sessions!SessionsAssumption
  /\ Redis!RedisAssumption /\ Memory!PalaceAssumption /\ Persona!PersonaAssumption
  /\ Goals!GoalAssumption
  /\ Model!StreamAssumption /\ Hooks!WebhookAssumption

Init ==
  /\ which \in {"discord", "slack", "telegram", "node", "auth", "limiter", "browser",
               "chat", "poll", "identity", "webchat", "sessions", "redis",
               "memory", "persona", "goals", "model", "webhook"}
  /\ Discord!Init /\ Slack!Init /\ Telegram!Init /\ Node!Init /\ Auth!Init /\ Limiter!Init
  /\ Browser!Init /\ Page!Init /\ Identity!Init /\ Web!Init /\ Sessions!Init
  /\ Redis!Init /\ Memory!Init /\ Persona!Init /\ Goals!Init
  /\ Model!Init /\ Hooks!Init
  /\ which # "persona" => personaFile = None
  /\ which # "model" => provider = "openai" /\ tools = {} /\ json = FALSE

DiscordStep ==
  /\ which = "discord" /\ Discord!Next
  /\ UNCHANGED <<which, modelVars, webhookVars, slackVars, telegramVars, nodeVars,
                 authVars, limiterVars, browserVars, pageVars, identityVars, webchatVars,
                 sessionsVars, redisVars, memoryVars, personaVars, goalsVars>>
SlackStep ==
  /\ which = "slack" /\ Slack!Next
  /\ UNCHANGED <<which, modelVars, webhookVars, discordVars, telegramVars, nodeVars,
                 authVars, limiterVars, browserVars, pageVars, identityVars, webchatVars,
                 sessionsVars, redisVars, memoryVars, personaVars, goalsVars>>
TelegramStep ==
  /\ which = "telegram" /\ Telegram!Next
  /\ UNCHANGED <<which, modelVars, webhookVars, discordVars, slackVars, nodeVars,
                 authVars, limiterVars, browserVars, pageVars, identityVars, webchatVars,
                 sessionsVars, redisVars, memoryVars, personaVars, goalsVars>>
NodeStep ==
  /\ which = "node" /\ Node!Next
  /\ UNCHANGED <<which, modelVars, webhookVars, discordVars, slackVars, telegramVars,
                 authVars, limiterVars, browserVars, pageVars, identityVars, webchatVars,
                 sessionsVars, redisVars, memoryVars, personaVars, goalsVars>>
AuthStep ==
  /\ which = "auth" /\ Auth!Next
  /\ UNCHANGED <<which, modelVars, webhookVars, discordVars, slackVars, telegramVars,
                 nodeVars, limiterVars, browserVars, pageVars, identityVars, webchatVars,
                 sessionsVars, redisVars, memoryVars, personaVars, goalsVars>>
LimiterStep ==
  /\ which = "limiter" /\ Limiter!Next
  /\ UNCHANGED <<which, modelVars, webhookVars, discordVars, slackVars, telegramVars,
                 nodeVars, authVars, browserVars, pageVars, identityVars, webchatVars,
                 sessionsVars, redisVars, memoryVars, personaVars, goalsVars>>
BrowserStep ==
  /\ which = "browser" /\ Browser!Next
  /\ UNCHANGED <<which, modelVars, webhookVars, discordVars, slackVars, telegramVars,
                 nodeVars, authVars, limiterVars, pageVars, identityVars, webchatVars,
                 sessionsVars, redisVars, memoryVars, personaVars, goalsVars>>
PageStep ==
  /\ \/ which = "chat" /\ (Page!ChatStep \/ Page!HostStep)
     \/ which = "poll" /\ (Page!PollStep \/ Page!HostStep)
  /\ UNCHANGED <<which, modelVars, webhookVars, discordVars, slackVars, telegramVars,
                 nodeVars, authVars, limiterVars, browserVars, identityVars, webchatVars,
                 sessionsVars, redisVars, memoryVars, personaVars, goalsVars>>
IdentityStep ==
  /\ which = "identity" /\ Identity!Next
  /\ UNCHANGED <<which, modelVars, webhookVars, discordVars, slackVars, telegramVars,
                 nodeVars, authVars, limiterVars, browserVars, pageVars, webchatVars,
                 sessionsVars, redisVars, memoryVars, personaVars, goalsVars>>
WebStep ==
  /\ which = "webchat" /\ Web!Next
  /\ UNCHANGED <<which, modelVars, webhookVars, discordVars, slackVars, telegramVars,
                 nodeVars, authVars, limiterVars, browserVars, pageVars, identityVars,
                 sessionsVars, redisVars, memoryVars, personaVars, goalsVars>>
SessionsStep ==
  /\ which = "sessions" /\ Sessions!Next
  /\ UNCHANGED <<which, modelVars, webhookVars, discordVars, slackVars, telegramVars,
                 nodeVars, authVars, limiterVars, browserVars, pageVars, identityVars,
                 webchatVars, redisVars, memoryVars, personaVars, goalsVars>>
RedisStep ==
  /\ which = "redis" /\ Redis!Next
  /\ UNCHANGED <<which, modelVars, webhookVars, discordVars, slackVars, telegramVars,
                 nodeVars, authVars, limiterVars, browserVars, pageVars, identityVars,
                 webchatVars, sessionsVars, memoryVars, personaVars, goalsVars>>
MemoryStep ==
  /\ which = "memory" /\ Memory!Next
  /\ UNCHANGED <<which, modelVars, webhookVars, discordVars, slackVars, telegramVars,
                 nodeVars, authVars, limiterVars, browserVars, pageVars, identityVars,
                 webchatVars, sessionsVars, redisVars, personaVars, goalsVars>>
PersonaStep ==
  /\ which = "persona" /\ Persona!Next
  /\ UNCHANGED <<which, modelVars, webhookVars, discordVars, slackVars, telegramVars,
                 nodeVars, authVars, limiterVars, browserVars, pageVars, identityVars,
                 webchatVars, sessionsVars, redisVars, memoryVars, goalsVars>>
GoalsStep ==
  /\ which = "goals" /\ Goals!Next
  /\ UNCHANGED <<which, modelVars, webhookVars, discordVars, slackVars, telegramVars,
                 nodeVars, authVars, limiterVars, browserVars, pageVars, identityVars,
                 webchatVars, sessionsVars, redisVars, memoryVars, personaVars>>

ModelStep ==
  /\ which = "model" /\ Model!Next
  /\ UNCHANGED <<which, webhookVars, discordVars, slackVars, telegramVars, nodeVars,
                 authVars, limiterVars, browserVars, pageVars, identityVars, webchatVars,
                 sessionsVars, redisVars, memoryVars, personaVars, goalsVars>>
WebhookStep ==
  /\ which = "webhook" /\ Hooks!Next
  /\ UNCHANGED <<which, modelVars, discordVars, slackVars, telegramVars, nodeVars,
                 authVars, limiterVars, browserVars, pageVars, identityVars, webchatVars,
                 sessionsVars, redisVars, memoryVars, personaVars, goalsVars>>

Next ==
  \/ DiscordStep \/ SlackStep \/ TelegramStep \/ NodeStep \/ AuthStep \/ LimiterStep
  \/ BrowserStep \/ PageStep \/ IdentityStep \/ WebStep \/ SessionsStep
  \/ RedisStep \/ MemoryStep \/ PersonaStep \/ GoalsStep \/ ModelStep
  \/ WebhookStep

vars == <<which, modelVars, webhookVars, discordVars, slackVars, telegramVars,
          nodeVars, authVars, limiterVars,
          browserVars, pageVars, identityVars, webchatVars, sessionsVars, redisVars,
          memoryVars, personaVars, goalsVars>>

Spec == Init /\ [][Next]_vars

-----------------------------------------------------------------------------
(* Properties *)

TypeOK ==
  /\ Discord!TypeOK /\ Slack!TypeOK /\ Telegram!TypeOK /\ Node!TypeOK /\ Auth!TypeOK
  /\ Limiter!TypeOK /\ Browser!TypeOK /\ Page!TypeOK /\ Identity!TypeOK /\ Web!TypeOK
  /\ Sessions!TypeOK /\ Redis!TypeOK /\ Memory!TypeOK /\ Persona!TypeOK
  /\ Goals!TypeOK /\ Model!TypeOK /\ Hooks!TypeOK

\* What goes on goes on once.  A transport that was neither stopped nor refused has
\* exactly one socket or one reconnect timer, a stopped one no timer and no socket that
\* is not closing, but for a stop() of Slack's that met the fetch of a URL (openSocket,
\* handleClose, scheduleReconnect, close and stop of Discord's and Slack's transports);
\* a browser that says it reconnects does, unless its token was refused; a visible page
\* polls, on one chain and on one more for each kick that overtook a poll (kick, stop
\* and tick of PollingController); a web chat's socket hears one end of a turn, and a
\* text in JSON mode is opened once.
SingleChain ==
  /\ Discord!SingleChain /\ Slack!SingleChain
  /\ Browser!ReconnectGoesOn /\ Page!PollingGoesOn
  /\ Web!EndToldOnce
  /\ Model!PrefillOnce

\* Over broken sockets, failing requests, crashes and restarts nothing is lost:
\* Discord's Resume asks for the event after the last one handed on, what Slack,
\* Telegram and the posts of a webhook take for delivered was handed on, a call of the
\* browser that is still awaited was sent on a socket that can still answer, a device
\* with one connection can be reached on it, an entry of a Redis stream is pending until
\* it is acked, what was indexed is in the memory, changes of persona and goals that
\* were acknowledged are kept, a turn that is told as done is in the session, a
\* redirected session tells where to, and the calls a model asked for are the calls the
\* executor holds.
NothingLost ==
  /\ Discord!ResumesWhereItStopped /\ Slack!AckedHandled /\ Telegram!ConfirmedDispatched
  /\ Browser!SentCanBeAnswered /\ Node!Reachable
  /\ Redis!EntriesAccounted
  /\ Memory!NothingForgotten
  /\ Persona!Ledger /\ Persona!ChangesKept
  /\ Goals!GoalsKept
  /\ Web!DoneIsRecorded
  /\ Sessions!RedirectRemembered
  /\ Model!CallsAsAsked /\ Hooks!AnsweredDispatched

\* Everyone is who they are taken for: a connection of the device node is spoken to
\* only as a device it proved to be, a challenge earns one session and a restart keeps
\* it, no key is let through beyond its budget however the clock is set, a browser
\* holds the key of the device it claims to be, a turn on the page has its own text, a
\* conversation one session, a result the call it answers, and what nobody signed
\* reaches no channel.
Admission ==
  /\ Node!OnlyVerified
  /\ Auth!SessionEarned /\ Auth!SessionSurvivesRestart
  /\ Limiter!RateBounded
  /\ Identity!KeyIsDevices
  /\ Page!TextIsOwn
  /\ Sessions!OneSession
  /\ Model!ResultsFollowCalls
  /\ Hooks!OnlySigned

-----------------------------------------------------------------------------
(* The constants of the instance that TLC checks. *)

\* Two rules that match the same conversation, the one with the higher priority for
\* the default agent.
RoutingRules ==
  {[id |-> 1, priority |-> 1, agent |-> "b", conversations |-> {"k"}],
   [id |-> 2, priority |-> 2, agent |-> "a", conversations |-> {"k"}]}

\* One step of verbosity below its bound with five changes in a row behind it, and a
\* relationship that is about to grow out of being new.
Verbosity(delta) == [field |-> "verbosity", delta |-> delta]
PersonasOnDisk ==
  {[value |-> [verbosity |-> 392, proactivity |-> 160],
    log |-> <<Verbosity(32)>> \o [i \in 1..5 |-> Verbosity(40)],
    total |-> 120, maturity |-> 2, count |-> 7,
    behaviors |-> <<[confidence |-> 240, old |-> TRUE]>>, of |-> {}],
   [value |-> [verbosity |-> 160, proactivity |-> 160], log |-> <<>>,
    total |-> 29, maturity |-> 0, count |-> 0, behaviors |-> <<>>, of |-> {}]}
FeedbackGiven ==
  [type : {"instruction"}, field : {"verbosity"}, direction : {-1, 1}]
    \cup [type : {"lesson", "strong criticism", "exposure"}]
=============================================================================

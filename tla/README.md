# A TLA+ model of AgentEgo

AgentEgo is an agent platform in TypeScript: messages come in from channels, an EGO layer in
front of the agent decides what to do with each, a worker reasons and calls tools, and sessions,
memory, schedules and traces are kept in SQLite and files. A gateway is one Node process, so code
between two `await`s is atomic; the interesting behaviour is what happens between them, on its
sockets, and between it and the commands and restarts that work on the same files.

This directory holds TLA+ modules for the parts with control in them, TLC configurations that
check them on small instances, and TLAPS proofs for every instance. Paths below are relative to
`src/packages/`.

## Inventory

| Part | State | Operations | Talks to | Hard behaviour | What makes it correct |
|---|---|---|---|---|---|
| `ego/src/layer.ts`, `circuit-breaker.ts` | breaker state, failure count, probe flag, cost ledger, config | processDetailed, runDeepPath, setConfig; allow, recordSuccess, recordFailure | LLM, memory, audit log, sessions | concurrent turns, `withTimeout` that does not cancel, late answers, an audit store that rejects | one probe, a probe that is always given back, each failure counted once |
| `ego/src/persona-*.ts`, `goal-store.ts` | a cached object or array, a file | load, evolve, decay, import; create, update, list | files | first loads that race, writes not put in line, a torn file | an acknowledged change is kept, the log explains the numbers |
| `message-bus/src/in-process-bus.ts` | entries, group offsets, waiters | publish, subscribe, ack, unsubscribe, close | handlers | competing loops, sleeping and waking, close under load | an entry goes to a group at most once, none is overslept, loops end |
| `message-bus/src/redis-streams-bus.ts` | known groups, running loops | the same over Redis | Redis | groups created late, lost replies, processes that die | an entry is one consumer's until it is acked |
| `workflow/src/engine.ts` | frames, failure, return flag, call depth | one handler per kind of step | tools | parallel branches over one ExecState, nested try/return/finally | balanced frames, no failure lost or invented, finally runs, runs end |
| `control-plane/src/session/` | session rows, event rows, rules | route, resolve, hibernate, resume, close, appendEvent, compactSession, loadHistory | SQLite | statements without a transaction, several processes, ids against timestamps | one session per conversation, compaction forgets nothing, histories are well formed |
| `agent-worker/src/runner/agent-runner.ts` | none of its own | processTurn | store, memory, reasoner | concurrent turns of one session, crashes at the end of a turn | an answer given is an answer stored |
| `agent-worker/src/reasoning/`, `model/` | plan, results, retries, replans, budget; the calls of a stream | ReAct and plan-execute runs; the adapters' streams | model, tools, sandbox | parallel levels, replans, the downgrade, interleaved fragments | an answer covers its plan, work is neither lost nor done twice, calls are the model's, a turn ends |
| `agent-worker/src/tools/` | sandbox instances | acquire, execute, release | worker threads, Docker | reply, error, exit and timer race | one outcome, no runner left |
| `skills/src/`, `tools/skill-tools.ts` | installed packages, the module cache, live tools | install, uninstall, seed, mount | files, the loader | overlapping authoring calls, crashes, a cache nobody empties | the platform's own tools stay, a live tool runs a module that was loaded |
| `scheduler/src/` | jobs, flags, history | start, stop, runNow, dispatch | runners | runs that outlive stop, a start that fails half way | a task never runs twice at once |
| `cli/src/runtime/platform.ts`, `control-plane/src/gateway/` | servers, connections, stores, rate buckets | start, HTTP and WebSocket turns, shutdown | router, runner, stores | turns under shutdown, clients that stay, a clock that steps back | no turn on closed stores, a shutdown ends or it is known who holds it, budgets hold |
| `control-plane/src/gateway/device-auth.ts`, `webapp` identity | devices, challenges, secret, one file; keys and tokens | enroll, challenge, assert, revoke | file, `device` command, IndexedDB | restarts, torn writes, a second process, overlapping enrolments | a challenge earns one session, a restart keeps it, the key is the device's |
| `gateway-cli/src/`, `tui`, `webapp` | requests in flight, pending calls, reconnect timers, pid and port files | call, notify, reconnect, chat.send, start, stop, detach | gateway | duplicated ids, close during a reconnect, crashes, deltas that name no turn | each call settles once, a lost client's turn is aborted, a text is its own |
| `channels/*` | socket, session, sequence number, offset, registrations | open, resume, poll, acknowledge, post, shut down | Discord, Slack, Telegram, WhatsApp, browsers | events of old sockets, stop during open, resends | one live chain, a stop that is final, what was acknowledged was handled |
| `device-node/src/server.ts` | connections by device | hello, send, close | devices | a reconnect before the old close, an awaited verification | a connection is spoken to only as what it proved to be |
| `memory/src/` | rows, access log, files | ingest, compact, search | embedder, model, SQLite | all three overlap at their awaits | what was indexed is in a row or a summary |
| `observability`, `core`, the rest of `cli` | files and tables | read, write | | little concurrency | |

A turn goes channel → router → EGO layer → runner → reasoner → tools, with the session store read at
its start and written at its end; `cli/src/runtime/platform.ts` wires it. The EGO layer is wired
without `sessions` there, so a redirect is decided and audited but not performed.

## Modules and the code

| Module | Models | How state and actions correspond |
|---|---|---|
| `CircuitBreaker` | `ego/src/circuit-breaker.ts` | `cbState`, `failures`, `probeInFlight` are the private fields; the clock is one bit, `cooled`. Its methods are synchronous and so are predicates that other actions use. |
| `EgoLayer` | `ego/src/layer.ts`, with `downgradeState` and `withTimeout` of core | A turn is a caller (`call`) and a deep path (`deep`) that outlives it. One action per stretch between awaits; `CatchBlock` is the catch clause with its breaker call and its audit record. |
| `Persona`, `GoalStore` | `ego/src/persona-manager.ts`, `persona-evolution.ts`, `goal-store.ts` | The cached object (its identity matters: a call keeps the one it loaded), the file, and the calls at their awaits. A write truncates the file first. The evolution's products are exact in steps of 1/400. |
| `ConsumerGroup` | the contract in `message-bus/src/bus.ts` | What was published, handed to a group, acknowledged. No offsets, no loops. |
| `InProcessBus` | `message-bus/src/in-process-bus.ts`, one subject | `offsets`, `pending`, `waiters`, `closed`, `cancelled` are the code's; `loop`, `next`, `last` say where each subscription's loop is. Subjects share only `closed`. |
| `RedisStreamsBus` | `message-bus/src/redis-streams-bus.ts` | The server's stream, group and pending list are external; `known` is the cache of groups; a request whose reply is lost may have been carried out. |
| `WorkflowEngine` | `workflow/src/engine.ts` | The promises in flight are strands, each a stack of activations of `runStep`; `scopes`, `failedAt`, `returning`, `callDepth` are ExecState. `now` is the synchronous run: a child runs up to its first await before its sibling starts. |
| `SessionLog` | the events of `control-plane/src/session/store.ts` and the steps of `agent-runner.ts` that touch them | Rows with id, time, kind and the messages they hold or summarise. Each operation is one action, with a crash between its statements as another. |
| `Sessions` | the table of sessions in the same file, `router.ts`, `ego/src/redirect.ts` | A row per session; each SQL statement is a step of one of several processes. |
| `ReactExecutor` | `agent-worker/src/reasoning/react-executor.ts` | `steps`, `toolCalls` are the spent budget, `reason` the termination reason; `react` says what the run awaits. A tool that fails is an observation. |
| `PlanExecute` | `agent-worker/src/reasoning/plan-execute-executor.ts` | A plan is a sequence of steps with an id, dependencies and perhaps a tool; `status`, `attempt` are the code's, `at` is the await of `executeStep`, `source` says which execution a step's observation comes from. `left` is what is left of `computeLevels`, which depends on the plan only. |
| `HybridReasoner` | `agent-worker/src/reasoning/hybrid-reasoner.ts` | Routes a turn to one of the two; the second falls back on the first. Holds their properties. |
| `ModelStream` | `agent-worker/src/model/anthropic.ts`, `openai.ts`, `tool-name.ts` and `handleChunk` | One event of the provider per step, its chunk handled by the reader before the next; `indexToId` and `pendingCalls` are the two maps. |
| `ToolSandbox` | `agent-worker/src/tools/sandbox.ts`, `worker-sandbox.ts`, `docker-sandbox.ts`, `container-runtime.ts` | An execution with its runner (thread or child), its timer and its outcome; `box` is the instance. |
| `Skills` | `skills/src/`, `skill-tools.ts`, `remountInstalledSkills` | Directories, what the loader has imported, what is mounted; a job is a call of an authoring tool at its awaits. |
| `Scheduler` | `scheduler/src/scheduler.ts`, `runners/` | `running`, `failed`, `runCount` are a task's history; runs go on after `stop`. |
| `Platform` | `cli/src/runtime/platform.ts`, `gateway-cli/src/lifecycle/foreground.ts`, `stop()` of the gateway and the web chat | `stage` is how far start or shutdown has come; connections and the turns in flight on them. |
| `GatewayProcess` | `gateway-cli/src/lifecycle/`, `cli/src/commands/gateway.ts` | The pid and the port file, read and written by gateways and commands in steps. |
| `RpcServer`, `RpcClient`, `RpcSession` | `gateway-cli/src/rpc/` and the wire to it; `tui/src/lib/rpc-client.ts` with the App; both together | `inflight` is keyed by the id the client chose; `pending` is the client's map. `RpcSession` composes them: a step of one leaves the other's variables alone but for the wire. |
| `RateLimiter`, `DeviceAuth` | `control-plane/src/gateway/rate-limiter.ts`, `device-auth.ts` | Buckets in exact units; devices, challenges and the secret in memory and in the file, with the `device` command as a second process. |
| `BrowserRpcClient`, `BrowserPage`, `DeviceIdentity` | `webapp/src/ui/controllers/` | The browser's socket and calls; its chat, phase and polling; its key, id and token. |
| `DiscordGateway`, `SlackSocketMode`, `TelegramPolling`, `WebChat`, `Webhook` | `channels/*/src/` | A socket's own life and what the client believes of it are kept apart, so that events of an old socket reach the client late. `Webhook` is Slack's HTTP mode and WhatsApp's cloud client, which serve alike. |
| `DeviceNode` | `device-node/src/server.ts` | `connections` is the map by device, `verified` what a connection proved. |
| `PalaceMemory` | `memory/src/palace-memory.ts`, `ingest`, `db`, `llm-compactor.ts`, `search` | Rows and files hold sets of pieces; ingests, compactions and searches at their awaits. |
| `MC*` | | Instances for TLC. `MCWorkflowEngine` holds three workflows, `MCHybridReasoner` the plans a planner may answer; `MCEdges` and `MCGateway` are described below. Of `InProcessBus` and `SessionLog`, and of the tables that `MCEdges` takes, the instance is a few definitions at the end of the module. |
| `*_proofs` | | Theorems and proofs. |

`MCEdges` and `MCGateway` instantiate components that share no state. A behaviour of theirs is one of
*one* component, chosen in the initial state by `which`; the others stay as they are. So their states
are a sum and not a product, and one run asks the same question of each: does what goes on go on once,
is nothing acknowledged lost, is anyone let in unearned; do calls settle, is anything orphaned, does
everything end. Each of their properties is a conjunction of the components' own.

Definitions whose comment starts with "Variant:" are wrong versions of the definition that follows
them. They are in no specification; each shows that a property can tell the difference. Those that
`PROJECT.json` does not list as mutants were tried by hand in the same way.

## What the runs check

| Run | Instance | Result |
|---|---|---|
| `ego_layer` | three turn slots, threshold 2, at most 3 counted failures, one config switch, redirect judged or not, failing audit | The counter agrees with the state; a half-open breaker has exactly one waiting caller who owns the probe (when the cooldown outlasts the decision budget); a failure is charged once, to a turn that still waits; half-open is always left. |
| `ego_late_success` | the same | **Violated**: an open breaker is closed by a late answer, against the comment of the class. |
| `in_process_bus` | two consumers of one group (one takes batches of 2 and has no timer), one of another, 2 entries | The bus refines `ConsumerGroup`; no two claims overlap; no sleeper sleeps on an entry; each entry reaches each group that keeps a subscription; `close` ends every loop and `unsubscribe` those that have a timer. |
| `workflow_engine` | three workflows: nested try/catch/finally with returns out of scopes, recursion into the depth limit, three parallel branches; each tool call succeeds, fails or throws | Frames and depth are given back on every path; a failure ends the workflow exactly when no try catches it (no parallel step); finally always runs; every run ends. |
| `workflow_isolation` | the same | **Violated**: a parallel branch writes into the frame of its sibling. |
| `session_log` | three turns of a session, limit 3, scan limit 4, `keepRecent` 0 and 2, 5 events, 3 points of time | A summary comes first in a history; an answer never without its question before it; what a finished turn said stays told, also after crashes; a compaction never forgets. The last three hold as long as compactions are *orderly*. |
| `history_is_recent` | the same | **Violated**: past the limit a turn gets the oldest messages. |
| `hybrid_reasoner` | five plans (parallel and chained steps, repeated ids, a cycle, a missing dependency), one retry, two replans, matcher wired, budget of 2 steps and 3 tool calls, sequential and parallel, abort at any time | A turn ends, and with an answer of the model unless it threw or was aborted; an answer from a plan has every step of it done that can be ordered; such a step runs after its dependencies; results survive replans, each for one step; no step or sandbox is left behind by a turn that does not throw. |
| `edges` | `MCEdges`: Discord, Slack, Telegram, device node, device registry, rate limiter, browser client, page (chat and polling), browser identity, web chat, sessions, Redis bus, memory, persona, goals, model streams, webhooks | `SingleChain`: a transport has one socket or one timer, a stopped one neither, unless its stop met Slack's fetch of a URL; a reconnect goes on; so does a poll, on one chain and one more for each kick that overtook it; an end is told once. `NothingLost`: over broken sockets, failing requests, crashes and restarts what was acknowledged is kept, and a device that proved itself on one connection is reached on it. `Admission`: nobody passes unearned, no text, result or session goes to another. |
| `gateway` | `MCGateway`: terminal and RPC server over their wire, platform, pid and port files, scheduler, sandboxes, skills | A turn is told in order and aborted when its client is gone; no run, runner or record is orphaned; no turn begins on closed stores and no skill takes the place of a tool of the platform's; calls settle, executions end, and shutdown ends, unless a web-chat client that the adapter never closed stays. |
| `stream_arguments` | `ModelStream` alone: a stream of either provider, two tools, one round, three chunks | **Violated**: a tool call of an Anthropic model loses its arguments. |
| `slack_stop` | `SlackSocketMode` alone, one event | **Violated**: a transport that is stopped while it fetches the URL of a reconnect connects again. |

The five violations are disagreements between the code and its documentation, listed with quotes
in `PROJECT.json`.

### What the properties say around known behaviour

Some behaviours of the code are modelled and named as the exception of a property. For some nothing in
the repository promises otherwise; where a comment does, it is named:

- `SessionLog`, *orderly*: an answer is stamped one millisecond ahead, so a compaction in the very
  millisecond in which a turn ended deletes the summary and keeps the answer; and with more than
  10000 rows the compaction summarises the newest but deletes the oldest (`disorderly`).
- `PlanExecute`: a step of a dependency cycle lands in the last level and executes before the step it depends
  on, although the comment of `computeLevels` (`plan-execute-executor.ts:769`) has it skipped. The
  properties on dependencies speak of the steps that some order reaches.
- `SlackSocketMode`: `openSocket` tests `closed` only before it awaits the URL, so a stop during the await
  is followed by a socket that opens and delivers events, once, with no reconnect after it. `SingleChain`
  excepts it (`stoppedFetching`), and the run `slack_stop` shows it: a test of the transport
  (`socket-mode-transport.test.ts:171`) says that it does not reconnect after `stop()`.
- `BrowserRpcClient`: a `getToken()` that throws in the last attempt ends the reconnects, with the
  status still `reconnecting`, although the comment where it is swallowed expects a later cycle.
- `RpcClient`: `close()` leaves the reconnect timer armed, so a closed client may open a socket once more.
  An `error` on an open socket drops the client's socket before its `close` does.
- `BrowserPage`: a delta names no turn, so what a send that timed out still brings lands in the next
  one's text; each `kick()` during a fetch starts one more chain of polls, for good (`overlaps` counts them).
- `DeviceIdentity`: a read of IndexedDB that fails is taken for an empty one, upon which an `assert()` all by
  itself makes a new key and stores it over that of the enrolled device; a write that fails goes to
  `localStorage`, which the next read looks at only if IndexedDB fails again, and which line 6 of
  `device-identity.ts` rules out. `KeyIsDevices` speaks of a browser in which every read and write was answered
  by the same place (`answeredBy`). It also excepts two enrolments that each make a key, and a reset among
  other calls (`overlapped`).
- `DeviceNode`: the close of a connection deletes the entry of its device, also when a newer connection
  has taken it (`server.ts:149`), which then stays open and cannot be reached. `Reachable` speaks of a device
  that no other connection claimed.
- `WebChat`: a socket that identifies twice is told twice, and stays registered once after its close.
- `GoalStore`, `Persona`: first loads that race, writes that overlap and a torn file may undo a change
  (`clobbered`, `raced`, `overlapped`).
- `PalaceMemory`: an empty answer of the model to a compaction leaves an empty summary (`blanked`).
- `Skills`: a skill that was removed keeps its tool until the process ends, and a replaced one runs its old
  module, since the loader's cache is never emptied. The comments say that the tool disappears on the next turn
  (`skill-tools.ts:252`) and that the registry is filled anew from the disk (`platform.ts:358-360`). No property
  takes either side: `CoreKept` is about the platform's own tools.
- `Platform`: the web chat's shutdown closes the clients it knows (`webchat/src/adapter.ts:62-72`) and then awaits
  all of them, so one that had not identified itself holds the shutdown for as long as it stays.
  `ShutdownEnds` says that nobody else can (`HeldByStranger`).
- `Sessions`: the redirect remembers a target that is not the id its target is then created under;
  two processes may write a row over each other (`overlapped`).
- `Webhook`: a body that breaks off while it is read rejects outside any handler, which ends the process.
- `DeviceAuth`: a file torn by a crash is taken for no file; sessions and devices are gone with it.

### Bounds, and why they are enough

- `EgoLayer`: the breaker tells apart a probe, a turn admitted before the trip and a third one;
  three slots, reused, give all of them. Threshold 2 has a counter that is neither empty nor
  full. `MaxFailures` stops admissions when three failures are counted, which is past the trip.
- `InProcessBus`: two consumers compete, a third one in another group shows independence. Two
  entries and a batch size of 2 give batches that are cut short and batches that are handled
  after a cancel. The proofs do away with these bounds.
- `WorkflowEngine`: depth limit 3 is reached and passed by the recursion; four strands are one
  root and three branches, the least with a sibling in a scope, one in a call and one in a try.
- `SessionLog`: with limit 3 two finished turns pass the limit; scan limit 4 is passed by 5
  events; three points of time tell earlier, the same and one ahead. Turns are symmetric: nothing
  in the module tells them apart.
- `HybridReasoner`: two replans are one after the refresh for goal updates and the least number that
  hands a result on twice; with one retry an attempt is neither first nor last only once. Two
  ReAct steps of two calls each meet a tool budget of 3 in the middle of a step. The plans cover a
  level of two, a chain, ids that repeat within and across plans, and steps no order reaches.
- `MCEdges`: three sockets of a transport are one that is old, one that is closing and one that is new
  (`MaxSockets`, `MaxSessions`); two kicks during a poll (`MaxChains`) make up to three chains; three
  events make a gap and what follows it. Two devices or
  connections are the least that can be taken for each other; the clock has three values, so that a challenge
  and a session are fresh, just expired and gone. Two enrolments can each make a key, and an assert and
  a reset meet either. Two gateways and a command share the sessions. Two consumers and
  two entries of a stream give one batch cut short. Two ingests, two compactions and a search meet each
  other at each await; two loads, evolutions or creations race. Personas start next to the bounds that their
  rules clamp, confirm or ripen at. Two tools and two rounds show a call told to the model and answered.
- `MCGateway`: two sockets are the one that breaks and its successor, two calls are a turn and a query.
  Two gateways and one command race for the files; three connections serve HTTP, the web chat and RPC; two
  runs of each of three tasks, one per runner, overlap. Two executions in two boxes race with their timers; one
  skill in two versions and two authoring jobs, with one restart, meet the cache before and after it.

Deadlock is not checked in any run: each system may stop, when its messages are answered, its bus is
closed, its workflow is done or the bounds are used up.

### Fairness

- `EgoLayer`: only `Timeout` is weakly fair. A Node timer always fires; the model and the stores
  may never answer. It is enough for `HalfOpenResolves`.
- `InProcessBus`: each subscription's own step (going round, its timer, its handler settling) is
  weakly fair: the event loop runs every ready continuation. Handlers are taken to settle, since a
  handler that hangs blocks its loop by design. Nobody has to publish, acknowledge or close.
- `WorkflowEngine`: weak fairness of the whole step relation: tools settle and the event loop
  does not stop.
- `HybridReasoner`: weak fairness of the turn's own steps: a request to the model, the guard or the
  planner answers or fails, a tool has 30 s. A turn takes finitely many steps, so no step of a parallel
  level can be starved for ever. The abort is never forced.
- `RpcSession`: a connection attempt opens, fails or is refused, and a call's timer fires. The server
  owes nothing.
- `ToolSandbox`: a timer fires, a container that was asked to end is killed, a runner that was told to
  end ends, and its `close` event is delivered. The tool may never answer.
- `Platform`: the shutdown's own steps; a closing handshake ends, since the library gives it 30 seconds; and a
  turn over HTTP ends (the gateway's stop awaits it). No client leaves that was not asked to, hence the exception of
  `ShutdownEnds`.
- The other components: none; they have safety properties only.

## What is proved

With TLAPS, for all values of the constants that satisfy the modules' assumptions, which say no more
than types, a positive threshold, batch or bound, and that a workflow is well formed (`schema.ts`).

`EgoLayer_proofs`:
- `Typed`, `CounterAgrees` (inductive with `TypeOK`), `ProbeNeverLeaks`.
- `ProbeIsAlone`: `OneProbe` is not inductive: it says nothing before the trip. `SoleProbe` adds that
  while the breaker is open all callers who wait are elders of the trip, and that half-open has no
  elders; the cooldown ends only when the elders have been answered.
- `FailureChargedOnce`: an action property; every action that raises the count is a catch block of
  a waiting turn.

`InProcessBus_proofs`, with the invariant `TypeOK /\ SleepInv /\ ClaimInv`:
- `Typed`; `NoWakeupLost`, which needs that the wait set holds sleepers only (`WaitersSleep`).
- `ClaimsNeverOverlap` from `ClaimInv`: batches end below the offset (`BatchWithin`), offsets below the
  entries (`OffsetsWithin`), pending entries were handed (`PendingHanded`). `StepKinds` reduces the
  actions to four: nothing handed, a batch taken, the next entry of a batch, an acknowledgement.
- `Implements`: `Spec => ImplementsContract`, the specification of `ConsumerGroup` under the mapping. A
  batch taken and an advance each hand one entry (`TakeHands`, `AdvanceHands`); an acknowledgement
  acknowledges; a publish publishes; the rest stutters.

`WorkflowEngine_proofs`, with the invariant `EngineInv`, for every well-formed workflow and any number
of strands:
- `EngineTypeCorrect`; `FramesAreBalanced`; `FinallyAlwaysRuns` (an action property).
- `FramesBalanced` is not inductive: what a step gives back depends on where its activation is. `Shape` says
  where the activations of a strand may be; `Scheduled` that a strand waits once in `now` and that
  `parallel` makes strands that are new; `Balanced` counts the activations that hold a frame. `PickedNext`
  is the lemma on counting: a step changes the count by what the top activation was and by what it is.
- `FinallyAlwaysRuns` needs `Clean`: a step started by finally is next to run, with the flags cleared. Between
  the clearing and its start no sibling comes, since a strand goes on only when nothing else runs.
- `FailuresAccounted` has an invariant of its own, `AccountInv`, for workflows without parallel steps: the
  failure that nobody catches is the current one, or was put aside by a finally that is under way
  (`Owed`), and in both cases no activation below catches (`Held`).

`SessionLog_proofs`, for any number of turns, rows and summaries:
- `LogTypeCorrect`, `SummariesComeFirst`, `AnswersFollowQuestions`, `AnswersStayTold`,
  `CompactionForgetsNothing` (an action property).
- The invariant says how rows lie in the log: ids are handed out in order (`Numbered`), nothing inserted after
  a summary is stamped before it (`Timed`), an answer that no summary covers has its question just
  below it (`Paired`). `OldestAreCompacted` is the heart of it: the rows that `compactSession` deletes, counted
  off from the oldest, are among those it summarised.

`HybridReasoner_proofs`, for any set of plans, any budgets and any answers of router, matcher and tools, with the
invariant `HybridInv` (TLC checked it on the run's instance first):
- `TurnTypeCorrect`, `AnswersAreSpoken`, `AnswersCoverThePlan`, `DependenciesComeFirst`, `NothingPreservedTwice`,
  `LevelsAreLeftClean`, and the action property `ReplansKeepWork`.
- `AnswerCoversPlan` says nothing before the synthesis. `LevelsInOrder` follows the plan through its levels: ahead
  are steps nobody has touched but those bound to an earlier success, behind every step is settled. What
  `NextLevel` makes of a plan is the lemma `LevelKinds`: a level whose steps have what they need in earlier ones,
  or the rest, none of which any order can reach. `Blocked` (the skips that `executePlan` cascades) is
  the least set closed under it and stays within that rest, since the levels' order is respected.
- `NoDoublePreservation` needs `SourcesAge`: an observation of this round belongs to the step that made it,
  one carried over is of an earlier round, and a replan begins with earlier ones only.
- `AnswerIsSpoken` needs `ReactSteps`: every step of the ReAct executor after the first has a call behind it.

`Gateway_proofs`, for `MCGateway!Spec` with any number of sockets, calls, connections, processes, runs,
executions, skills and tools, under `GatewayAssumption` (the ranges of the constants; no gateway is a command,
no two scheduled tasks share an id, `None` and `Core` are nothing else). `GatewayInv` has one invariant for each component,
and a step of one leaves the others' variables alone (TLC checked them on the run's instance first):
- `GatewayTypeCorrect`, `TurnsAreToldInOrder`, `GoneIsAborted`, `NothingIsOrphaned`, and the action
  properties in `TurnsKeepWhatTheyRelyOn`.
- *RPC.* `TurnToldInOrder` speaks of the client's map and `AbortedWhenGone` of the server's; neither is inductive.
  `Traced` says where the server has a call: in a request, in a turn, in frames to the client.
  `OneSocket`: that is on one socket only, so no old socket speaks of a call on the new one. `NotYetSent`: a call
  that waits, or whose send threw while its entry stayed in `pending`, is traced nowhere, so no answer comes
  to it. `FramesInOrder`: a turn's result is right behind its `complete`, or at the head of its socket with the
  completion shown. `TurnsAreKept`: a turn under way is in the map of a connection that is open, or aborted.
  `TimersCounted`: a reconnect timer has a socket that closed behind it, which bounds the timers.
- *Platform.* `ShutdownOrder`: clients of a kind are gone, and none comes, once the stage that waits for
  them is over; so nobody is left who could begin a turn when the stores close.
- *Processes.* `NamedByWriter`: a file names a gateway that has written it and not yet unlinked it, or one that
  crashed; what a process is about to clear as stale is a crashed one's.
- *Scheduler.* `FlagExact`: a task's flag counts its unfinished runs and `runCount` the finished ones. `HeldInside`: a
  sandbox is held within its run.
- *Sandboxes.* `ExecutionOK`: what still runs has a timer or was told to end, and an execution that was
  settled has neither timer nor live runner.
- *Skills.* `CoreKept` is of single steps: a mount adds under names that are free and takes away only what skills
  registered. `FoundIsImported`, `WritesSkills`, `DownIsEmpty`: a mount registers only what `import()` gave it, and a
  process starts with no tool but its own.

`EdgeTransports_proofs` and `Edges_proofs`, for `MCEdges!Spec` with any number of sockets, events, devices, keys,
calls, users, gateways, rules, consumers, entries, files, personas, goals, rounds and chunks, under `EdgesAssumption`: the
ranges of the constants, that sets of calls which are told apart are disjoint, that the marks for "nothing" and "torn"
are nothing else, and that the personas on disk are ones this program wrote (`Sound`). `EdgesInv` has an invariant for each of the
seventeen components (TLC checked each on the run's instance first), and a step of one leaves the others' variables alone:
- `EdgesTypeCorrect`, `OneChainEach`, `NothingIsLost`, `OnlyTheAdmitted`: the four invariants of the run; and for the
  reader four of their parts: `RateIsBounded`, `SessionsAreEarned`, `EntriesStayAccounted`, `LogExplainsPersona`.
- *Transports, device node, webhooks.* Nearly inductive as they stand. Slack adds that a stopped transport fetches only if
  the stop met the fetch. Discord adds that a refused client has no live socket
  and that the session it knows is one the server announced, the device node that a device in the map has proved itself on that
  connection (and `Reachable`, which is inductive), a webhook
  that a message is in one post at a time and posts that were read have a dispatch to come.
- *Device authentication.* What survives a restart is what the file says: while the gateway runs and no other process
  has written it, the file is the memory.
- *Rate limiter.* Tokens and grants are conserved against the highest time seen (`Conserved`), so a clock that steps back
  earns nothing twice.
- *Browser's client.* `Answerable`: a call was sent on a socket there is. That reconnecting goes on needs the order of
  the attempts (one is made before the next): what is under way is a timer or the attempt made last. Every timer has a socket
  that closed behind it, which bounds the timers.
- *Page, identity.* A poll or a timer is one chain, and hands it on; a kick that meets neither starts the only one.
  `Alone`: while one place answers for the key (`Reliable`), no two keys were made at once and no reset met another
  call, a key on its way (`OnItsWay`) is the stored one, or the first there is, whatever enrolments and asserts overlap.
- *Web chat.* `Registered`: an identified open socket has its last registration, and a second one only if it identified
  twice; `Attended`: who attends a turn listens until it ends; `RecordedSoFar`: what each state of a turn has recorded.
- *Sessions.* `RulesSorted` under every addRule and removeRule; `VisitsOK`: a call that is to write a row back has one of
  the key that row still has.
- *Redis.* `BatchHeld`: what a loop has read and not handed on is pending at it, each entry once, and was never handed.
- *Memory.* `RowsKnown`: an id is one row's and names no other later, so what a compaction read is what it deletes;
  `Ingested`: a piece is in its file before it is indexed.
- *Persona.* A call that waits holds an object of which the log is the ledger, whether or not it is the cached one;
  `kept` changes are in the cached object and in what is being written, unless first loads raced. The balance of a
  log is a recursive function of its length, so `BalanceAppended` (an entry adds what it says) is an induction: over
  `WFMin` of the library, the least length at which two sums differ. Each operation of the evolution
  preserves `Sound` by a lemma of its own (`InteractedIs`, `MovedIs`, `LearnedIs`, ...).
- *Goals.* `GoalLine`: the flushes in line are those with a write to come, each once, and only the first has its turn;
  `GoalsHeld`: a flush takes its own change along, unless a first load replaced the list.
- *Models.* `CallsHeld`: the executor holds the provider's calls, in order, with OpenAI's fragments of their own
  index and none of Anthropic's (the violation above). `Follows`: each result follows its call, through
  `convertMessage` and any number of rounds.

Only model-checked: all liveness properties, which the prover cannot do (`HalfOpenResolves`, `EveryEntryHanded`, `LoopsEnd`,
`Terminates`, `TurnEnds`, and `EverythingEnds` of `MCGateway`). Every invariant and every other action property of
a passing run is a theorem.

## What is not modelled

`PROJECT.json` lists every part with its status. Left out as parts: the context gatherer,
normalisation, prompts and feedback of the EGO layer (text and scores); the workflow registry and schema
(validation); observability (append-only, `Platform` closes it); WhatsApp over baileys (the connection is
the library's); the built-in skills' own code and the built-in tools (a tool is an outcome); static files and
the read-only routes of the gateway and the device API; widgets and views. Text, prompts, scoring, wire
formats and presentation are left out everywhere.

Redirects are only a step that may throw in `EgoLayer`, since nothing in the wired program performs them;
`Sessions` has what they would do. `cooldownMinutes: 0`, which the schema allows, is not a cooldown of the
model. The daily cost cap is modelled as coded: the layer books 0 for each call (`layer.ts:417`), so the cap
never fires. The abort signal of a reasoning context has no provider in the repository; the model lets it
come at any time. A turn that throws in a parallel level leaves the peers of the step running: they are in
the model and end, and `NothingLeftBehind` makes no claim about them.

## Plan

Done: every component with control of its own is modelled and checked, and each invariant, action property and
refinement that a passing run checks is proved for all values of the constants. Left:

1. `Platform` with `SessionLog`: a turn that outlives the shutdown writes to a closed store.
2. `EgoLayer` with `Sessions`, once the program wires redirects.

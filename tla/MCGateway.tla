------------------------------ MODULE MCGateway ------------------------------
(***************************************************************************)
(* What serves turns around their reasoning: the terminal's client and the *)
(* RPC server over their wire, the platform's start and shutdown, the      *)
(* gateway's processes and their files, the scheduler, the sandboxes of    *)
(* tools and the installed skills.  A behaviour is one of one component,   *)
(* chosen at the start: they share no state but through what each module   *)
(* models of its neighbours.                                               *)
(***************************************************************************)
EXTENDS Integers, Sequences, TLC

CONSTANTS
  MaxSockets, MaxCalls, None, MaxAttempts, MaxReports,
  Conn, Gateway, Command, MaxRuns, Box, Exec,
  Skill, Source, Tool, CoreTool, Job, Core, MaxRestarts,
  method, portOf, tasks, kindOf, toolOf, version, bundled

VARIABLES
  which,
  clientEnd, serverEnd, requests, frames,
  ws, readyPromise, reconnectAttempt, closedByCaller, timers, pending, call, waits, status,
  shown, indicator,
  process, inflight, aborted, turn, turnClosed, origin, reports,
  stage, stopping, cron, conn, turns, stores,
  phase, found, pidFile, portFile, child, reported,
  enabled, broken, started, jobs, running, failed, runCount, run, held,
  box, exec,
  dirs, disk, imported, live, host, toSeed, restarts, job

rpcVars == <<clientEnd, serverEnd, requests, frames, ws, readyPromise, reconnectAttempt,
             closedByCaller, timers, pending, call, waits, status, shown, indicator,
             process, inflight, aborted, turn, turnClosed, origin, reports>>
platformVars == <<stage, stopping, cron, conn, turns, stores>>
lifecycleVars == <<phase, found, pidFile, portFile, child, reported>>
schedulerVars == <<enabled, broken, started, jobs, running, failed, runCount, run, held>>
sandboxVars == <<box, exec>>
skillsVars == <<dirs, disk, imported, live, host, toSeed, restarts, job>>

Rpc == INSTANCE RpcSession
Serving == INSTANCE Platform
Lifecycle == INSTANCE GatewayProcess
Cron == INSTANCE Scheduler
Sandbox == INSTANCE ToolSandbox
Installed == INSTANCE Skills WITH process <- host

ASSUME GatewayAssumption ==
  /\ Rpc!WireAssumption /\ Rpc!ClientAssumption /\ Rpc!ServerAssumption
  /\ Lifecycle!ProcessAssumption /\ Cron!SchedulerAssumption /\ Installed!SkillsAssumption

Init ==
  /\ which \in {"rpc", "platform", "lifecycle", "scheduler", "sandbox", "skills"}
  /\ Rpc!Init /\ Serving!Init /\ Lifecycle!Init /\ Sandbox!Init /\ Installed!Init
  /\ Cron!Init
  /\ which # "scheduler" => enabled = {} /\ broken = {}

RpcStep ==
  /\ which = "rpc" /\ Rpc!Next
  /\ UNCHANGED <<which, platformVars, lifecycleVars, schedulerVars, sandboxVars, skillsVars>>
PlatformStep ==
  /\ which = "platform" /\ Serving!Next
  /\ UNCHANGED <<which, rpcVars, lifecycleVars, schedulerVars, sandboxVars, skillsVars>>
LifecycleStep ==
  /\ which = "lifecycle" /\ Lifecycle!Next
  /\ UNCHANGED <<which, rpcVars, platformVars, schedulerVars, sandboxVars, skillsVars>>
SchedulerStep ==
  /\ which = "scheduler" /\ Cron!Next
  /\ UNCHANGED <<which, rpcVars, platformVars, lifecycleVars, sandboxVars, skillsVars>>
SandboxStep ==
  /\ which = "sandbox" /\ Sandbox!Next
  /\ UNCHANGED <<which, rpcVars, platformVars, lifecycleVars, schedulerVars, skillsVars>>
SkillsStep ==
  /\ which = "skills" /\ Installed!Next
  /\ UNCHANGED <<which, rpcVars, platformVars, lifecycleVars, schedulerVars, sandboxVars>>

Next ==
  \/ RpcStep \/ PlatformStep \/ LifecycleStep \/ SchedulerStep \/ SandboxStep \/ SkillsStep

vars == <<which, rpcVars, platformVars, lifecycleVars, schedulerVars, sandboxVars, skillsVars>>

Spec == Init /\ [][Next]_vars

\* The fairness of a component that was not chosen holds of it as it stands.
FairSpec == Spec /\ Rpc!Fairness /\ Serving!Fairness /\ Sandbox!Fairness

-----------------------------------------------------------------------------
(* Properties *)

TypeOK ==
  /\ Rpc!TypeOK /\ Serving!TypeOK /\ Lifecycle!TypeOK /\ Cron!TypeOK /\ Sandbox!TypeOK
  /\ Installed!TypeOK

\* What the App is told of a turn (chat.send, emitPhase, handleMessage): a turn
\* that resolved was reported complete before, and a phase is shown only while
\* its own call is still awaited.
TurnToldInOrder == Rpc!TurnToldInOrder

\* A turn whose connection is gone has been told so by its signal, or its
\* process is gone (handleConnection of the RPC server).
AbortedWhenGone == Rpc!AbortedWhenGone

\* The books agree with what happens: at most one run of a scheduled task is
\* unfinished and its flag says so; no thread or container is left that nobody
\* told to end; pid and port file name no gateway that stopped; no store closes
\* under an HTTP turn; and a live tool runs the module loaded for its skill.
NothingOrphaned ==
  /\ Cron!OneRunPerTask /\ Sandbox!NothingOrphaned /\ Lifecycle!RecordsTruthful
  /\ Serving!HttpTurnsServed /\ Installed!LiveFromCache

\* What turns rely on is not changed under them: no turn is begun on closed
\* stores (shutdown), and no installed skill takes the place of a tool of the
\* platform's own (remountInstalledSkills, LiveToolRegistry.registerAll).
KeptForTurns == Serving!BeginsOnOpenStores /\ Installed!CoreKept

\* Whatever breaks, a client's call settles, an execution in a worker or a
\* container ends together with what ran it, and a shutdown that was asked for
\* ends, unless a web-chat client that the adapter never closed stays (call and
\* close of RpcClient, settle, runChild, shutdown).
EverythingEnds == Rpc!CallsSettle /\ Sandbox!ExecutionsEnd /\ Serving!ShutdownEnds

-----------------------------------------------------------------------------
(* The constants of the instance that TLC checks. *)

CONSTANTS s1, p1, p2, t1, t2, g1, g2

MCMethod == <<"chat.send", "query">>
MCPortOf == g1 :> 1 @@ g2 :> 1
MCTasks == <<"daily", "backup", "flow">>
MCKindOf == "daily" :> "chat" @@ "backup" :> "bash" @@ "flow" :> "workflow"
MCToolOf == p1 :> t1 @@ p2 :> t2
MCVersion == p1 :> 1 @@ p2 :> 2
MCBundled == s1 :> p2
=============================================================================

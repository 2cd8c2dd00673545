---------------------------- MODULE GatewayProcess ----------------------------
(***************************************************************************)
(* Which gateway runs: the pid and port files (gateway-cli/src/lifecycle/  *)
(* pidfile.ts) that processes on one state directory share, the foreground *)
(* start, `gateway status` (cli/src/commands/gateway.ts) and the detached  *)
(* start (lifecycle/detach.ts).  Every file operation is an await, so that *)
(* the processes interleave between any two of them.  Pids are not reused. *)
(***************************************************************************)
EXTENDS Naturals, FiniteSets

CONSTANTS
  Gateway,        \* processes that run `gateway start --foreground`
  Command,        \* processes that run `gateway status` or start detached
  portOf,         \* the port each gateway binds
  None

Proc == Gateway \cup Command

\* Assumed of the constants; the modules that instantiate this one check it.
ProcessAssumption == Gateway \cap Command = {} /\ None \notin Proc

VARIABLES
  phase,          \* where each process is
  found,          \* the record a process has read
  pidFile, portFile,    \* the gateway a file names
  child,          \* the gateway a detaching command has spawned
  reported        \* what a detached start told its user

vars == <<phase, found, pidFile, portFile, child, reported>>

\* "crashed" is any end other than the clean one, a refusal or a return.
Phase == {"off", "reading", "clearPid", "clearPort", "binding", "writePid", "writePort",
          "serving", "closePid", "closePort", "stopped", "refused", "crashed",
          "spawning", "waiting", "told", "gaveUp"}

TypeOK ==
  /\ phase \in [Proc -> Phase]
  /\ found \in [Proc -> Gateway \cup {None}]
  /\ pidFile \in Gateway \cup {None} /\ portFile \in Gateway \cup {None}
  /\ child \in [Command -> Gateway \cup {None}]
  /\ reported \in [Command -> Gateway \cup {None}]

Ended == {"off", "stopped", "refused", "crashed", "told", "gaveUp"}
Alive(p) == phase[p] \notin Ended

\* It holds its port from the end of listen() to the end of platform.shutdown().
Bound(g) == phase[g] \in {"writePid", "writePort", "serving"}

Init ==
  /\ phase = [p \in Proc |-> "off"]
  /\ found = [p \in Proc |-> None]
  /\ pidFile = None /\ portFile = None
  /\ child = [c \in Command |-> None] /\ reported = [c \in Command |-> None]

Move(p, from, to) ==
  /\ phase[p] = from
  /\ phase' = [phase EXCEPT ![p] = to]

-----------------------------------------------------------------------------
(* resolveRunning, of every kind of process *)

\* A process is started: a gateway by a user or by a detaching command.
Run(p) ==
  /\ Move(p, "off", "reading")
  /\ p \in Gateway => \A c \in Command : phase[c] # "spawning"
  /\ UNCHANGED <<found, pidFile, portFile, child, reported>>

\* What follows when nothing is running, and when something is.
Onward(p) == IF p \in Gateway THEN "binding" ELSE "spawning"
\* readPidFile, then isProcessAlive at once: no record, a live one, a stale one.
Read(p) ==
  /\ phase[p] = "reading"
  /\ found' = [found EXCEPT ![p] = pidFile]
  /\ phase' = [phase EXCEPT ![p] =
       IF pidFile = None THEN Onward(p) ELSE IF Alive(pidFile) THEN "refused" ELSE "clearPid"]
  /\ UNCHANGED <<pidFile, portFile, child, reported>>

\* clearPidFile of a stale record: two unlinks of whatever the files are by then.
ClearPid(p) ==
  /\ Move(p, "clearPid", "clearPort")
  /\ pidFile' = None
  /\ UNCHANGED <<found, portFile, child, reported>>

ClearPort(p) ==
  /\ Move(p, "clearPort", Onward(p))
  /\ portFile' = None
  /\ UNCHANGED <<found, pidFile, child, reported>>

-----------------------------------------------------------------------------
(* gatewayStartCommand in the foreground *)

\* startPlatform listens; a port in use is an 'error' event that nobody handles.
Bind(g) ==
  /\ Move(g, "binding", IF \E o \in Gateway : Bound(o) /\ portOf[o] = portOf[g]
                        THEN "crashed" ELSE "writePid")
  /\ UNCHANGED <<found, pidFile, portFile, child, reported>>

WritePid(g) ==
  /\ Move(g, "writePid", "writePort")
  /\ pidFile' = g
  /\ UNCHANGED <<found, portFile, child, reported>>

WritePort(g) ==
  /\ Move(g, "writePort", "serving")
  /\ portFile' = g
  /\ UNCHANGED <<found, pidFile, child, reported>>

\* onShutdown: platform.shutdown(), then clearPidFile and exit.
Shutdown(g) ==
  /\ Move(g, "serving", "closePid")
  /\ UNCHANGED <<found, pidFile, portFile, child, reported>>

\* Variant: the port file is forgotten.
UnlinkPidHasty(g) ==
  /\ Move(g, "closePid", "stopped")
  /\ pidFile' = None
  /\ UNCHANGED <<found, portFile, child, reported>>

UnlinkPid(g) ==
  /\ Move(g, "closePid", "closePort")
  /\ pidFile' = None
  /\ UNCHANGED <<found, portFile, child, reported>>

UnlinkPort(g) ==
  /\ Move(g, "closePort", "stopped")
  /\ portFile' = None
  /\ UNCHANGED <<found, pidFile, child, reported>>

\* A signal before /rpc is mounted, kill -9, an exception, a failed start.
Crash(p) ==
  /\ Alive(p)
  /\ phase' = [phase EXCEPT ![p] = "crashed"]
  /\ UNCHANGED <<found, pidFile, portFile, child, reported>>

-----------------------------------------------------------------------------
(* Commands *)

\* `gateway status` returns here; detachGateway spawns a gateway of its own.
Status(c) ==
  /\ Move(c, "spawning", "told")
  /\ UNCHANGED <<found, pidFile, portFile, child, reported>>

Spawn(c, g) ==
  /\ phase[c] = "spawning" /\ phase[g] = "off"
  /\ phase' = [phase EXCEPT ![c] = "waiting", ![g] = "reading"]
  /\ child' = [child EXCEPT ![c] = g]
  /\ UNCHANGED <<found, pidFile, portFile, reported>>

\* waitForPort reads the port file until there is one; then the pid file, whose
\* record, or failing it the child, is what the user is told.
PortFound(c) ==
  /\ phase[c] = "waiting" /\ portFile # None
  /\ phase' = [phase EXCEPT ![c] = "told"]
  /\ reported' = [reported EXCEPT ![c] = IF pidFile = None THEN child[c] ELSE pidFile]
  /\ UNCHANGED <<found, pidFile, portFile, child>>

GiveUp(c) ==
  /\ Move(c, "waiting", "gaveUp")
  /\ UNCHANGED <<found, pidFile, portFile, child, reported>>

Next ==
  \/ \E p \in Proc : Run(p) \/ Read(p) \/ ClearPid(p) \/ ClearPort(p) \/ Crash(p)
  \/ \E g \in Gateway : \/ Bind(g) \/ WritePid(g) \/ WritePort(g)
                        \/ Shutdown(g) \/ UnlinkPid(g) \/ UnlinkPort(g)
  \/ \E c \in Command : \/ Status(c) \/ PortFound(c) \/ GiveUp(c)
                        \/ \E g \in Gateway : Spawn(c, g)

Spec == Init /\ [][Next]_vars

-----------------------------------------------------------------------------
(* Properties *)

\* Whichever starts, commands and crashes overlap (resolveRunning, onShutdown,
\* clearPidFile): a gateway that stopped cleanly or never came to serve is named
\* by no file, and records are cleared only on behalf of one that has ended.
RecordsTruthful ==
  /\ \A g \in Gateway : phase[g] \in {"stopped", "refused"} => pidFile # g /\ portFile # g
  /\ \A p \in Proc : phase[p] \in {"clearPid", "clearPort"} => ~Alive(found[p])
=============================================================================

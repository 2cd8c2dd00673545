----------------------------- MODULE ToolSandbox -----------------------------
(***************************************************************************)
(* The three implementations of Contracts.ToolSandbox in                   *)
(* agent-worker/src/tools: InProcessSandbox (sandbox.ts), WorkerSandbox    *)
(* with a worker thread per execution (worker-sandbox.ts and its runner),  *)
(* and DockerSandbox with a child process (docker-sandbox.ts, runChild of  *)
(* container-runtime.ts), which runs other tools as the first one does.    *)
(*                                                                         *)
(* A tool's answer, an error, an exit and the timer race; what the tool    *)
(* computes is left out but for its success.                               *)
(***************************************************************************)
EXTENDS Naturals, FiniteSets

CONSTANTS
  Box,            \* sandbox instances that may be acquired
  Exec,           \* bound: executions that may be begun
  None

Kind == {"in-process", "worker", "docker"}

VARIABLES
  box,            \* `instances`: absent, or the status of the instance
  exec            \* every execution and what runs it

vars == <<box, exec>>

\* What runs an execution: the code itself, or a thread or a child process that
\* is alive, was told to end, or has ended.
Runner == {"none", "alive", "ending", "gone"}

Unused == [box |-> None, kind |-> None, phase |-> "unused", timer |-> FALSE,
           runner |-> "none", mail |-> None, timedOut |-> FALSE, ok |-> FALSE]

TypeOK ==
  /\ box \in [Box -> {"absent", "ready", "running", "released"}]
  /\ exec \in [Exec -> [box : Box \cup {None}, kind : Kind \cup {None},
                        phase : {"unused", "running", "done"}, timer : BOOLEAN, runner : Runner,
                        mail : BOOLEAN \cup {None}, timedOut : BOOLEAN, ok : BOOLEAN]]

Init ==
  /\ box = [b \in Box |-> "absent"]
  /\ exec = [e \in Exec |-> Unused]

-----------------------------------------------------------------------------
(* Instances *)

\* An instance has a generated id: it is acquired once.
Acquire(b) ==
  /\ box[b] = "absent"
  /\ box' = [box EXCEPT ![b] = "ready"]
  /\ UNCHANGED exec

\* release() forgets the instance, whatever still runs on it.
Release(b) ==
  /\ box[b] \in {"ready", "running"}
  /\ box' = [box EXCEPT ![b] = "released"]
  /\ UNCHANGED exec

\* registered.status: written to the record even when it has been forgotten.
Mark(b, status) == box' = IF box[b] = "released" THEN box ELSE [box EXCEPT ![b] = status]

-----------------------------------------------------------------------------
(* The start of an execution *)

\* "sandbox not acquired", "unknown tool", arguments that dockerCommand rejects
\* and a spawn that throws: an answer at once.
Refuse(e, b, kind) ==
  /\ exec[e] = Unused
  /\ exec' = [exec EXCEPT ![e] = [Unused EXCEPT !.box = b, !.kind = kind, !.phase = "done"]]
  /\ UNCHANGED box

\* The timer is armed; a worker or a child is started.  A container's execution
\* leaves the status of its instance alone.
Begin(e, b, kind) ==
  /\ exec[e] = Unused /\ box[b] \in {"ready", "running"}
  /\ exec' = [exec EXCEPT ![e] = [Unused EXCEPT
                !.box = b, !.kind = kind, !.phase = "running", !.timer = TRUE,
                !.runner = IF kind = "in-process" THEN "none" ELSE "alive"]]
  /\ IF kind = "docker" THEN UNCHANGED box ELSE Mark(b, "running")

Running(e, kind) == exec[e].phase = "running" /\ exec[e].kind = kind

-----------------------------------------------------------------------------
(* In process: the timer only aborts the signal the tool was given *)

ToolEnds(e, ok) ==
  /\ Running(e, "in-process")
  /\ exec' = [exec EXCEPT ![e].phase = "done", ![e].timer = FALSE, ![e].ok = ok]
  /\ Mark(exec[e].box, "ready")

Abort(e) ==
  /\ Running(e, "in-process") /\ exec[e].timer
  /\ exec' = [exec EXCEPT ![e].timer = FALSE, ![e].timedOut = TRUE]
  /\ UNCHANGED box

-----------------------------------------------------------------------------
(* Worker *)

\* Variant: the worker is terminated only when it timed out.
SettleWithoutEnd(e, ok) ==
  /\ exec' = [exec EXCEPT ![e].phase = "done", ![e].timer = FALSE, ![e].ok = ok,
                          ![e].mail = None]
  /\ Mark(exec[e].box, "ready")

\* settle: the first one wins, clears the timer, drops every listener and tells
\* the worker to end; execute then returns.
Settle(e, ok) ==
  /\ exec' = [exec EXCEPT ![e].phase = "done", ![e].timer = FALSE, ![e].ok = ok,
                          ![e].mail = None,
                          ![e].runner = IF @ = "alive" THEN "ending" ELSE @]
  /\ Mark(exec[e].box, "ready")

\* The runner has loaded and run the tool and posts one reply.
Reply(e, ok) ==
  /\ Running(e, "worker") /\ exec[e].runner = "alive" /\ exec[e].mail = None
  /\ exec' = [exec EXCEPT ![e].mail = ok]
  /\ UNCHANGED box

OnMessage(e) ==
  /\ Running(e, "worker") /\ exec[e].mail # None
  /\ Settle(e, exec[e].mail)

\* An uncaught error, or a limit of the worker that was reached.
OnError(e) ==
  /\ Running(e, "worker") /\ exec[e].runner = "alive"
  /\ Settle(e, FALSE)

OnTimeout(e) ==
  /\ Running(e, "worker") /\ exec[e].timer
  /\ Settle(e, FALSE)

\* The thread ends by itself, or because it was told to.
WorkerExits(e) ==
  /\ exec[e].kind = "worker" /\ exec[e].runner \in {"alive", "ending"}
  /\ exec' = [exec EXCEPT ![e].runner = "gone"]
  /\ UNCHANGED box

OnExit(e) ==
  /\ Running(e, "worker") /\ exec[e].runner = "gone"
  /\ Settle(e, FALSE)

-----------------------------------------------------------------------------
(* Container: the timer kills the child, and its close event settles *)

Kill(e) ==
  /\ Running(e, "docker") /\ exec[e].timer
  /\ exec' = [exec EXCEPT ![e].timer = FALSE, ![e].timedOut = TRUE,
                          ![e].runner = IF @ = "alive" THEN "ending" ELSE @]
  /\ UNCHANGED box

ChildEnds(e) ==
  /\ exec[e].kind = "docker" /\ exec[e].runner \in {"alive", "ending"}
  /\ exec' = [exec EXCEPT ![e].runner = "gone"]
  /\ UNCHANGED box

\* 'close': a success needs exit code 0 and a timer that has not fired.
OnClose(e, zero) ==
  /\ Running(e, "docker") /\ exec[e].runner = "gone"
  /\ exec' = [exec EXCEPT ![e].phase = "done", ![e].timer = FALSE,
                          ![e].ok = zero /\ ~exec[e].timedOut]
  /\ UNCHANGED box

\* 'error': the child could not be started.
OnChildError(e) ==
  /\ Running(e, "docker") /\ exec[e].runner = "alive"
  /\ exec' = [exec EXCEPT ![e].phase = "done", ![e].timer = FALSE, ![e].runner = "gone"]
  /\ UNCHANGED box

-----------------------------------------------------------------------------
Next ==
  \/ \E b \in Box : Acquire(b) \/ Release(b)
  \/ \E e \in Exec, b \in Box, kind \in Kind : Refuse(e, b, kind) \/ Begin(e, b, kind)
  \/ \E e \in Exec, ok \in BOOLEAN : ToolEnds(e, ok) \/ Reply(e, ok) \/ OnClose(e, ok)
  \/ \E e \in Exec : \/ Abort(e) \/ OnMessage(e) \/ OnError(e) \/ OnTimeout(e) \/ OnExit(e)
                     \/ WorkerExits(e) \/ Kill(e) \/ ChildEnds(e) \/ OnChildError(e)

\* A timer that is armed fires, a thread that was terminated or a child that was
\* killed ends, and their events are delivered.  Nothing is assumed of a tool.
Fairness ==
  \A e \in Exec :
    /\ WF_vars(OnTimeout(e)) /\ WF_vars(Kill(e))
    /\ WF_vars(exec[e].runner = "ending" /\ (WorkerExits(e) \/ ChildEnds(e)))
    /\ WF_vars(OnClose(e, FALSE) \/ OnClose(e, TRUE))

Spec == Init /\ [][Next]_vars

-----------------------------------------------------------------------------
(* Properties *)

\* Whichever of reply, error, exit and timer comes first (settle, runChild): an
\* execution that waits on a thread or a child has a timer that will end it, or
\* has already told it to end; one that has returned left neither a timer nor a
\* runner that nobody told to end.
NothingOrphaned ==
  \A e \in Exec :
    /\ exec[e].phase = "running" /\ exec[e].kind # "in-process" =>
         exec[e].timer \/ exec[e].runner # "alive"
    /\ exec[e].phase = "done" => ~exec[e].timer /\ exec[e].runner # "alive"

\* An execution in a worker or a container returns, and what ran it ends, even
\* when the tool never answers.
ExecutionsEnd ==
  \A e \in Exec : exec[e].phase = "running" /\ exec[e].kind # "in-process"
                    ~> exec[e].phase = "done" /\ exec[e].runner = "gone"
=============================================================================

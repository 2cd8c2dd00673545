------------------------------ MODULE Scheduler ------------------------------
(***************************************************************************)
(* SchedulerService (scheduler/src/scheduler.ts) with its three runners    *)
(* (scheduler/src/runners): cron fires, runs asked for by runNow, and the  *)
(* sandbox a run holds.  A run goes on after stop(), which awaits none.    *)
(* The ids are distinct (loadTasksFromFile refuses a duplicate), and each  *)
(* type has its runner (buildScheduler of cli/src/runtime/platform.ts).    *)
(***************************************************************************)
EXTENDS Naturals, Sequences, FiniteSets

CONSTANTS
  tasks,          \* the tasks of the file, in order
  kindOf,         \* task -> "chat", "bash" or "workflow"
  MaxRuns         \* bound: runs that are begun

Task == {tasks[i] : i \in DOMAIN tasks}
Kind == {"chat", "bash", "workflow"}

\* Assumed of the constants; the modules that instantiate this one check it.
SchedulerAssumption ==
  /\ kindOf \in [Task -> Kind] /\ MaxRuns \in Nat
  /\ \A i, j \in DOMAIN tasks : tasks[i] = tasks[j] => i = j

VARIABLES
  enabled, broken,      \* the tasks enabled, and those with a bad cron spec
  started, jobs,        \* SchedulerService.started and the keys of jobs
  running, failed,      \* TaskHistory.running, and whether lastError is set
  runCount,
  run,                  \* the runs that were begun
  held                  \* the runs whose sandbox is acquired and not released

vars == <<enabled, broken, started, jobs, running, failed, runCount, run, held>>
config == <<enabled, broken>>

Phase == {"routing", "handling", "reading", "guarding", "acquiring", "walking",
          "executing", "releasing", "done"}

Runs == DOMAIN run
Unfinished(t) == {r \in Runs : run[r].task = t /\ run[r].phase # "done"}

TypeOK ==
  /\ enabled \subseteq Task /\ broken \subseteq Task
  /\ started \in BOOLEAN /\ jobs \subseteq Task
  /\ running \in [Task -> BOOLEAN] /\ failed \in [Task -> BOOLEAN]
  /\ runCount \in [Task -> 0..MaxRuns]
  /\ run \in Seq([task : Task, phase : Phase]) /\ Len(run) <= MaxRuns
  /\ held \subseteq Runs

Init ==
  /\ enabled \in SUBSET Task /\ broken \in SUBSET Task
  /\ started = FALSE /\ jobs = {}
  /\ running = [t \in Task |-> FALSE] /\ failed = [t \in Task |-> FALSE]
  /\ runCount = [t \in Task |-> 0]
  /\ run = <<>> /\ held = {}

-----------------------------------------------------------------------------
(* The service *)

\* start(): tasks are scheduled in order, up to the first that is enabled and
\* broken, where it throws with `started` set and the earlier jobs in place.
Start ==
  LET bad == {i \in DOMAIN tasks : tasks[i] \in enabled \cap broken} IN
  /\ ~started
  /\ started' = TRUE
  /\ jobs' = {tasks[i] : i \in {k \in DOMAIN tasks : tasks[k] \in enabled /\ \A b \in bad : k < b}}
  /\ UNCHANGED <<config, running, failed, runCount, run, held>>

Stop ==
  /\ started
  /\ started' = FALSE /\ jobs' = {}
  /\ UNCHANGED <<config, running, failed, runCount, run, held>>

First(t) == [chat |-> "routing", bash |-> "guarding", workflow |-> "reading"][kindOf[t]]

\* Variant: the flag is set when the runner first returns to the loop.
DispatchLate(t) ==
  IF running[t] THEN UNCHANGED <<running, run>>
  ELSE /\ Len(run) < MaxRuns
       /\ run' = Append(run, [task |-> t, phase |-> First(t)])
       /\ UNCHANGED running

\* dispatch, up to the first await of its runner.
Dispatch(t) ==
  IF running[t] THEN UNCHANGED <<running, run>>
  ELSE /\ Len(run) < MaxRuns
       /\ running' = [running EXCEPT ![t] = TRUE]
       /\ run' = Append(run, [task |-> t, phase |-> First(t)])

Fire(t) ==
  /\ t \in jobs
  /\ Dispatch(t)
  /\ UNCHANGED <<config, started, jobs, failed, runCount, held>>

\* runNow: any task, enabled or not and whether or not the service is started.
RunNow(t) ==
  /\ ~running[t]
  /\ Dispatch(t)
  /\ UNCHANGED <<config, started, jobs, failed, runCount, held>>

-----------------------------------------------------------------------------
(* A run *)

Go(r, from, to) ==
  /\ run[r].phase = from
  /\ run' = [run EXCEPT ![r].phase = to]

\* What dispatch does when its runner has returned or thrown.
Finish(r, ok) ==
  LET t == run[r].task IN
  /\ run' = [run EXCEPT ![r].phase = "done"]
  /\ running' = [running EXCEPT ![t] = FALSE]
  /\ runCount' = [runCount EXCEPT ![t] = @ + 1]
  /\ failed' = [failed EXCEPT ![t] = ~ok]

Service == <<config, started, jobs>>
History == <<running, failed, runCount>>

\* ChatTaskRunner: the route, then the platform's handler.  A route that throws
\* is caught by dispatch.
Routed(r) ==
  /\ \/ Go(r, "routing", "handling") /\ UNCHANGED History
     \/ run[r].phase = "routing" /\ Finish(r, FALSE)
  /\ UNCHANGED <<Service, held>>

Handled(r) ==
  /\ run[r].phase = "handling"
  /\ \E ok \in BOOLEAN : Finish(r, ok)
  /\ UNCHANGED <<Service, held>>

\* WorkflowTaskRunner: the file is read and validated.
Read(r) ==
  /\ \/ Go(r, "reading", "acquiring") /\ UNCHANGED History
     \/ run[r].phase = "reading" /\ Finish(r, FALSE)
  /\ UNCHANGED <<Service, held>>

\* guard.check: BashTaskRunner asks before it acquires a sandbox and ends when it
\* is denied; the adapter of a workflow asks before each tool, and a denial is
\* that tool's result.
Guarded(r) ==
  LET bash == kindOf[run[r].task] = "bash" IN
  /\ run[r].phase = "guarding"
  /\ \/ Go(r, "guarding", IF bash THEN "acquiring" ELSE "executing") /\ UNCHANGED History
     \/ bash /\ Finish(r, FALSE)
     \/ ~bash /\ Go(r, "guarding", "walking") /\ UNCHANGED History
  /\ UNCHANGED <<Service, held>>

\* toolSandbox.acquire stands outside the try: a throw ends the run with nothing
\* to release.
Acquired(r) ==
  /\ run[r].phase = "acquiring"
  /\ \/ /\ Go(r, "acquiring", IF kindOf[run[r].task] = "bash" THEN "executing" ELSE "walking")
        /\ held' = held \cup {r}
        /\ UNCHANGED History
     \/ Finish(r, FALSE) /\ UNCHANGED held
  /\ UNCHANGED Service

\* executeWorkflow reaches a tool call, or its end.
Walk(r) ==
  /\ Go(r, "walking", "guarding") \/ Go(r, "walking", "releasing")
  /\ UNCHANGED <<Service, History, held>>

Executed(r) ==
  /\ Go(r, "executing", IF kindOf[run[r].task] = "bash" THEN "releasing" ELSE "walking")
  /\ UNCHANGED <<Service, History, held>>

\* The finally of both runners.
Released(r) ==
  /\ run[r].phase = "releasing"
  /\ held' = held \ {r}
  /\ \E ok \in BOOLEAN : Finish(r, ok)
  /\ UNCHANGED Service

-----------------------------------------------------------------------------
RunStep(r) ==
  Routed(r) \/ Handled(r) \/ Read(r) \/ Guarded(r) \/ Acquired(r) \/ Walk(r)
    \/ Executed(r) \/ Released(r)

Next ==
  \/ Start \/ Stop
  \/ \E t \in Task : Fire(t) \/ RunNow(t)
  \/ \E r \in Runs : RunStep(r)

Spec == Init /\ [][Next]_vars

-----------------------------------------------------------------------------
(* Properties *)

\* "A task that is already running skips its next fire": at most one run of a
\* task is unfinished, however fires, runNow and stop/start interleave; the flag
\* says so exactly, a finished run holds no sandbox, and every finished run was
\* counted (dispatch, runNow, the finally blocks of the runners).
OneRunPerTask ==
  \A t \in Task :
    /\ Cardinality(Unfinished(t)) = IF running[t] THEN 1 ELSE 0
    /\ runCount[t] = Cardinality({r \in Runs : run[r].task = t /\ run[r].phase = "done"})
    /\ \A r \in held : run[r].phase # "done"
=============================================================================

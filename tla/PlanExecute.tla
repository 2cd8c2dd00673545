---------------------------- MODULE PlanExecute ----------------------------
(***************************************************************************)
(* One turn of the plan-and-execute reasoner                               *)
(* (agent-worker/src/reasoning/plan-execute-executor.ts).  The planner's   *)
(* plan is run level by level, one step after the other or a level at a    *)
(* time; a step that fails all its attempts has the plan replaced, and     *)
(* when no replan is left the turn is handed to the ReAct executor.        *)
(*                                                                         *)
(* A plan is a sequence of steps.  Nothing in parsePlan asks for distinct  *)
(* ids, for dependencies that exist or for an order of them.  Goals,       *)
(* arguments, prompts, traces and token usage are left out.                *)
(***************************************************************************)
EXTENDS ReactExecutor, Sequences, FiniteSets

CONSTANTS
  Plans,            \* bound: the valid plans the planner may answer
  StepRetryLimit,   \* config.stepRetryLimit
  ReplanLimit,      \* config.replanLimit
  HasMatcher        \* a stepMatcher is wired

ASSUME PlanAssumption ==
  /\ StepRetryLimit \in Nat
  /\ ReplanLimit \in Nat
  /\ HasMatcher \in BOOLEAN
  /\ \A p \in Plans : p # <<>> /\ p \in Seq({p[i] : i \in DOMAIN p})

VARIABLES
  phase,        \* where the turn is
  plan,         \* the plan in force
  status,       \* status[i]: the status of its i-th step
  at,           \* at[i]: what executeStep of the i-th step awaits
  attempt,      \* attempt[i]: its attempt in runStepWithRetries
  source,       \* source[i]: the execution whose observation a success carries
  left,         \* the steps of the levels that are not begun
  todo,         \* the runnable steps of this level that are not begun
  replanCount,
  parallel,     \* config.parallelExecution
  goalShift     \* shouldFireGoalUpdateReplan(ctx)

planVars ==
  <<phase, plan, status, at, attempt, source, left, todo, replanCount, parallel, goalShift>>

running == <<status, at, attempt, source>>     \* what the steps themselves change
config == <<parallel, goalShift, aborted>>

\* off: not routed here.  planning, refresh, replan: awaiting the planner.
\* levels: between two levels.  level: in a level.  synth: awaiting the model.
\* react: handed to the ReAct executor.
Phase == {"off", "start", "planning", "refresh", "levels", "level", "replan", "synth",
          "react", "final", "threw"}

Unbound == <<0, 0>>

PlanTypeOK ==
  /\ ReactTypeOK
  /\ phase \in Phase
  /\ plan \in Plans \cup {<<>>}
  /\ status \in [DOMAIN plan -> {"pending", "running", "success", "failed", "skipped"}]
  /\ at \in [DOMAIN plan -> {"idle", "guard", "sandbox"}]
  /\ attempt \in [DOMAIN plan -> 1..StepRetryLimit + 1]
  /\ source \in [DOMAIN plan -> (0..ReplanLimit) \X Nat]
  /\ left \subseteq DOMAIN plan
  /\ todo \subseteq DOMAIN plan
  /\ replanCount \in 0..ReplanLimit
  /\ {parallel, goalShift} \subseteq BOOLEAN

PlanInit ==
  /\ ReactInit
  /\ phase = "off"
  /\ plan = <<>> /\ status = <<>> /\ at = <<>> /\ attempt = <<>> /\ source = <<>>
  /\ left = {} /\ todo = {}
  /\ replanCount = 0
  /\ parallel \in BOOLEAN
  /\ goalShift \in BOOLEAN

-----------------------------------------------------------------------------
\* Plans

IdsOf(p) == {p[i].id : i \in DOMAIN p}

\* stepById: of several steps with one id, the last one.
StepById(d) ==
  CHOOSE i \in DOMAIN plan : plan[i].id = d /\ \A j \in DOMAIN plan : plan[j].id = d => j <= i

\* Variant: the steps whose dependencies are in the plan.
NextLevelUnordered ==
  LET ready == {i \in left : plan[i].deps \subseteq IdsOf(plan)}
  IN  IF ready = {} THEN left ELSE ready

\* computeLevels, one level at a time: the steps whose dependencies are in earlier
\* levels, or all that are left when there is none.
NextLevel ==
  LET ready == {i \in left : plan[i].deps \subseteq {plan[j].id : j \in DOMAIN plan \ left}}
  IN  IF ready = {} THEN left ELSE ready

\* Step i of a level is skipped when a dependency does not exist, has failed or was
\* skipped, where S are the steps skipped in this level: the code goes through the
\* level in plan order, and sees only what it skipped before.
Blocked(i, S) ==
  /\ status[i] = "pending"
  /\ \E d \in plan[i].deps :
       \/ d \notin IdsOf(plan)
       \/ status[StepById(d)] \in {"failed", "skipped"}
       \/ StepById(d) \in S /\ StepById(d) < i

\* The least set of steps of the level that the rule closes.
SkippedOf(level) ==
  {i \in level :
     \A S \in SUBSET level : (\A j \in level : Blocked(j, S) => j \in S) => i \in S}

First(S) == CHOOSE i \in S : \A j \in S : i <= j

-----------------------------------------------------------------------------
\* The planner

\* A plan that is run from its first level; the steps bound to an earlier success
\* carry its observation.
Adopt(p, bound, carried) ==
  /\ plan' = p
  /\ status' = [i \in DOMAIN p |-> IF i \in bound THEN "success" ELSE "pending"]
  /\ source' = [i \in DOMAIN p |-> IF i \in bound THEN carried[i] ELSE Unbound]
  /\ at' = [i \in DOMAIN p |-> "idle"]
  /\ attempt' = [i \in DOMAIN p |-> 1]
  /\ left' = DOMAIN p
  /\ todo' = {}

KeepPlan == UNCHANGED <<plan, status, at, attempt, source, left, todo>>

\* downgradeOnPlanError, downgradeToReact: the executor starts with a fresh budget.
Downgrade == phase' = "react" /\ StartReact /\ KeepPlan

Throws == phase' = "threw" /\ KeepPlan /\ UNCHANGED reactVars

StartPlanning ==
  /\ phase = "start"
  /\ \/ aborted /\ phase' = "final" /\ reason' = "user_abort" /\ UNCHANGED spoken
     \/ ~aborted /\ phase' = "planning" /\ UNCHANGED <<reason, spoken>>
  /\ KeepPlan
  /\ UNCHANGED <<react, steps, toolCalls, calls, replanCount, config>>

\* callPlanner answers: a plan, an answer that is no plan, or an error.
Planned ==
  /\ phase = "planning"
  /\ \/ \E p \in Plans :
          /\ Adopt(p, {}, <<>>)
          /\ phase' = IF goalShift /\ ReplanLimit > 0 THEN "refresh" ELSE "levels"
          /\ UNCHANGED reactVars
     \/ Downgrade
     \/ Throws
  /\ UNCHANGED <<replanCount, config>>

\* applyGoalUpdateReplan, trigger #3: no step has run yet, so none is preserved.
Refreshed ==
  /\ phase = "refresh"
  /\ \/ \E p \in Plans :
          /\ Adopt(p, {}, <<>>)
          /\ phase' = "levels"
          /\ replanCount' = replanCount + 1
          /\ UNCHANGED reactVars
     \/ phase' = "levels" /\ KeepPlan /\ UNCHANGED <<reactVars, replanCount>>
     \/ Throws /\ UNCHANGED replanCount
  /\ UNCHANGED config

\* The earlier successes a new plan may take over, and the last of those with an id.
Succeeded == {i \in DOMAIN plan : status[i] = "success"}

LastSuccess(d) ==
  CHOOSE i \in Succeeded :
    plan[i].id = d /\ \A j \in Succeeded : plan[j].id = d => j <= i

\* Variant: an id that comes back twice is taken over twice.
PreservationsShared(p) ==
  LET kept == {i \in DOMAIN p : \E j \in Succeeded : plan[j].id = p[i].id}
  IN  {[i \in kept |-> source[LastSuccess(p[i].id)]]}

\* Variant: the matcher is asked first.
PreservationsByGoal(p) ==
  LET ids == {plan[j].id : j \in Succeeded}
  IN  {[i \in DOMAIN b |-> source[LastSuccess(b[i])]] :
         b \in {c \in UNION {[B -> ids] : B \in SUBSET DOMAIN p} :
                  \A i, j \in DOMAIN c : c[i] = c[j] => i = j}}

\* preservePriorSuccesses: which steps of the new plan take over which success.  An
\* id that comes back goes to the first step that has it, and the matcher may give
\* the others to steps under another id, each to one step.
Preservations(p) ==
  LET ids == {plan[j].id : j \in Succeeded}
      exact == {i \in DOMAIN p : p[i].id \in ids /\ \A k \in 1..i - 1 : p[k].id # p[i].id}
  IN  {[i \in DOMAIN b |-> source[LastSuccess(b[i])]] :
         b \in {c \in UNION {[B -> ids] : B \in SUBSET DOMAIN p} :
                  /\ exact \subseteq DOMAIN c
                  /\ \A i \in exact : c[i] = p[i].id
                  /\ HasMatcher \/ DOMAIN c = exact
                  /\ \A i, j \in DOMAIN c : c[i] = c[j] => i = j}}

\* The planner answers after a failure.
Replanned ==
  /\ phase = "replan"
  /\ \/ \E p \in Plans : \E carried \in Preservations(p) :
          /\ Adopt(p, DOMAIN carried, carried)
          /\ phase' = "levels"
          /\ UNCHANGED reactVars
     \/ Downgrade
     \/ Throws
  /\ UNCHANGED <<replanCount, config>>

-----------------------------------------------------------------------------
\* The levels

Begin(S, new) ==
  /\ status' = [i \in DOMAIN plan |-> IF i \in S THEN "running" ELSE new[i]]
  /\ at' = [i \in DOMAIN plan |-> IF i \in S THEN "guard" ELSE at[i]]

\* The next level, before which an abort is seen, or the end of the plan: steps
\* settled before are passed over, steps with a dependency that failed are skipped,
\* the others are begun.
StartLevel ==
  /\ phase = "levels"
  /\ \/ /\ aborted /\ left # {}
        /\ phase' = "final" /\ reason' = "user_abort"
        /\ KeepPlan
     \/ /\ left = {}
        /\ phase' = "synth"
        /\ KeepPlan /\ UNCHANGED reason
     \/ /\ ~aborted /\ left # {}
        /\ LET level == NextLevel
               skipped == SkippedOf(level)
               runnable == {i \in level \ skipped : status[i] = "pending"}
               begun == IF runnable = {} \/ parallel THEN runnable ELSE {First(runnable)}
           IN  /\ Begin(begun, [i \in DOMAIN plan |->
                                  IF i \in skipped THEN "skipped" ELSE status[i]])
               /\ left' = left \ level
               /\ todo' = runnable \ begun
               /\ phase' = IF runnable = {} THEN "levels" ELSE "level"
        /\ UNCHANGED <<plan, attempt, source, reason>>
  /\ UNCHANGED <<react, steps, toolCalls, calls, spoken, replanCount, config>>

\* executeStep answers.  A step that throws rejects Promise.all at once: the run is
\* over, and its peers go on unobserved.
Succeeds(i) ==
  /\ status' = [status EXCEPT ![i] = "success"]
  /\ at' = [at EXCEPT ![i] = "idle"]
  /\ source' = [source EXCEPT ![i] = <<replanCount, i>>]
  /\ UNCHANGED <<attempt, phase>>

AttemptFails(i) ==
  /\ IF attempt[i] <= StepRetryLimit
     THEN /\ attempt' = [attempt EXCEPT ![i] = @ + 1]
          /\ at' = [at EXCEPT ![i] = "guard"]
          /\ UNCHANGED status
     ELSE /\ status' = [status EXCEPT ![i] = "failed"]
          /\ at' = [at EXCEPT ![i] = "idle"]
          /\ UNCHANGED attempt
  /\ UNCHANGED <<source, phase>>

StepThrows(i) ==
  /\ at' = [at EXCEPT ![i] = "idle"]
  /\ phase' = "threw"
  /\ UNCHANGED <<status, attempt, source>>

\* A step without a tool is done; otherwise the guard refuses the call, the sandbox
\* is acquired, or one of the two throws.
GuardAnswers(i) ==
  /\ at[i] = "guard"
  /\ \/ ~plan[i].tool /\ Succeeds(i)
     \/ plan[i].tool /\ AttemptFails(i)
     \/ plan[i].tool /\ StepThrows(i)
     \/ /\ plan[i].tool
        /\ at' = [at EXCEPT ![i] = "sandbox"]
        /\ UNCHANGED <<status, attempt, source, phase>>
  /\ UNCHANGED <<plan, left, todo, replanCount, reactVars, config>>

\* The tool ends, and the sandbox is released in every case.
ToolEnds(i) ==
  /\ at[i] = "sandbox"
  /\ Succeeds(i) \/ AttemptFails(i) \/ StepThrows(i)
  /\ UNCHANGED <<plan, left, todo, replanCount, reactVars, config>>

Active == {i \in DOMAIN plan : at[i] # "idle"}
Failed == {i \in DOMAIN plan : status[i] = "failed"}

\* Variant: replanCount only counts the refresh.
ReplanNeededUncounted ==
  IF replanCount >= ReplanLimit
  THEN Downgrade /\ UNCHANGED replanCount
  ELSE phase' = "replan" /\ KeepPlan /\ UNCHANGED <<reactVars, replanCount>>

\* Variant: one replan more than the limit.
ReplanNeededOnceMore ==
  IF replanCount > ReplanLimit
  THEN Downgrade /\ UNCHANGED replanCount
  ELSE phase' = "replan" /\ replanCount' = replanCount + 1 /\ KeepPlan /\ UNCHANGED reactVars

\* outcome.kind = 'replan_needed'
ReplanNeeded ==
  IF replanCount >= ReplanLimit
  THEN Downgrade /\ UNCHANGED replanCount
  ELSE phase' = "replan" /\ replanCount' = replanCount + 1 /\ KeepPlan /\ UNCHANGED reactVars

NextStep ==
  /\ Begin({First(todo)}, status)
  /\ todo' = todo \ {First(todo)}
  /\ UNCHANGED <<phase, plan, attempt, source, left>>

LevelDone == phase' = "levels" /\ KeepPlan

\* Variant: a level is left as soon as one of its steps has failed.
AdvanceFailFast ==
  /\ phase = "level"
  /\ \/ Failed # {} /\ ReplanNeeded
     \/ /\ Active = {} /\ Failed = {}
        /\ IF todo # {} THEN NextStep ELSE LevelDone
        /\ UNCHANGED <<replanCount, reactVars>>
  /\ UNCHANGED config

\* Variant: the result of the last step of a level is not looked at.
AdvanceLastUnseen ==
  /\ phase = "level" /\ Active = {}
  /\ \/ Failed # {} /\ todo # {} /\ ReplanNeeded
     \/ /\ Failed = {} \/ todo = {}
        /\ IF todo # {} THEN NextStep ELSE LevelDone
        /\ UNCHANGED <<replanCount, reactVars>>
  /\ UNCHANGED config

\* All steps of the level that were begun have settled: a failure leaves the plan,
\* otherwise the next step of the level is begun or the level is done.
Advance ==
  /\ phase = "level" /\ Active = {}
  /\ \/ Failed # {} /\ ReplanNeeded
     \/ /\ Failed = {}
        /\ IF todo # {} THEN NextStep ELSE LevelDone
        /\ UNCHANGED <<replanCount, reactVars>>
  /\ UNCHANGED config

\* synthesizeFinal
Synthesize ==
  /\ phase = "synth"
  /\ \/ /\ phase' = "final"
        /\ reason' = IF Failed # {} THEN "hard_error" ELSE "final_answer"
        /\ spoken' = TRUE
     \/ phase' = "threw" /\ UNCHANGED <<reason, spoken>>
  /\ KeepPlan
  /\ UNCHANGED <<react, steps, toolCalls, calls, replanCount, config>>

PlanNext ==
  \/ StartPlanning \/ Planned \/ Refreshed \/ Replanned
  \/ StartLevel \/ Advance \/ Synthesize
  \/ \E i \in DOMAIN plan : GuardAnswers(i) \/ ToolEnds(i)
=============================================================================

--------------------------- MODULE HybridReasoner ---------------------------
(***************************************************************************)
(* One turn of the HybridReasoner                                          *)
(* (agent-worker/src/reasoning/hybrid-reasoner.ts): the router's choice is *)
(* run by the ReAct executor or by the plan-and-execute executor, which    *)
(* falls back on the first.  The caller may set the abort signal any time. *)
(***************************************************************************)
EXTENDS PlanExecute

vars == <<planVars, reactVars, aborted>>

Init == PlanInit

\* selectMode: the router's rules on words and tools are left open; without the tool
\* stack every turn goes to ReAct.
Route ==
  /\ phase = "off"
  /\ \/ phase' = "start" /\ UNCHANGED reactVars
     \/ phase' = "react" /\ StartReact
  /\ KeepPlan
  /\ UNCHANGED <<replanCount, config>>

Abort ==
  /\ ~aborted
  /\ aborted' = TRUE
  /\ UNCHANGED <<planVars, reactVars>>

\* The steps of a ReAct run.
ReactStep == ReactNext /\ UNCHANGED planVars

Turn == Route \/ PlanNext \/ ReactStep

Next == Turn \/ Abort

\* Every await of a turn ends: model and guard calls are requests that answer or
\* fail, and a tool has a timeout of 30 s.  Nobody has to abort.
Spec == Init /\ [][Next]_vars /\ WF_vars(Turn)

-----------------------------------------------------------------------------

TypeOK == PlanTypeOK

Finished == phase = "final" \/ react = "final"

\* A turn that does not throw and was not aborted ends with an answer of the model,
\* whichever executor gives it: the synthesis of the plan's results, the model's own
\* answer, or the summary of a ReAct run that ran out of steps or tool calls ("so the
\* user gets *something* instead of an empty response").
AnswerIsSpoken ==
  Finished /\ MaxToolCalls > 0 => reason = "user_abort" \/ spoken

\* The steps that no order can reach: the largest set whose members each need an id
\* that no step outside the set has.
Unreachable ==
  UNION {S \in SUBSET (DOMAIN plan) :
           \A i \in S : ~(plan[i].deps \subseteq {plan[j].id : j \in DOMAIN plan \ S})}

\* When the answer is written from a plan, every step of the plan that can be ordered
\* has succeeded, and of the others each has succeeded or was skipped: executePlan
\* never reports 'partial', no step is passed over by the levels, and the hard_error
\* of a turn that went on over a failed step does not occur.
AnswerCoversPlan ==
  phase = "synth" \/ (phase = "final" /\ reason # "user_abort") =>
    \A i \in DOMAIN plan :
      status[i] = "success" \/ (i \in Unreachable /\ status[i] = "skipped")

Executing == {i \in DOMAIN plan : status[i] = "running"}

\* A step that can be ordered is executed only when each of its dependencies has
\* succeeded, in this plan or in one it replaces: also when a level is run at once,
\* and when ids repeat.
DependenciesSucceeded ==
  \A i \in Executing \ Unreachable : \A d \in plan[i].deps :
    \E j \in DOMAIN plan : plan[j].id = d /\ status[j] = "success"

\* One execution answers for one step: over any number of replans, with ids that come
\* back, repeat or are matched by their goal, no observation is given to two steps
\* ("prevents double-preservation").
NoDoublePreservation ==
  \A i, j \in DOMAIN plan :
    status[i] = "success" /\ status[j] = "success" /\ source[i] = source[j] => i = j

\* Work that was done is not done again: an id that succeeded in the replaced plan and
\* comes back in the new one is still a success there, with the observation it had,
\* whatever the matcher says of the other steps ("exact id match is tried first and
\* always wins").
CompletedWorkKept ==
  [][phase = "replan" /\ phase' = "levels" =>
       \A j \in DOMAIN plan :
         status[j] = "success" /\ plan[j].id \in IdsOf(plan') =>
           \E i \in DOMAIN plan', k \in DOMAIN plan :
             /\ plan'[i].id = plan[j].id /\ status'[i] = "success"
             /\ plan[k].id = plan[j].id /\ status[k] = "success"
             /\ source'[i] = source[k]]_vars

\* While the planner, the model or the ReAct executor works, and after the turn's end,
\* no step of a plan is executing and no sandbox is held.  (A turn that throws leaves
\* the peers of a parallel step behind.)
NothingLeftBehind ==
  phase \in {"refresh", "levels", "replan", "synth", "react", "final"} => Active = {}

\* Whatever the planner answers and the tools do, the turn ends: with a final event,
\* or by throwing; and all sandboxes are released for good.
TurnEnds == <>[]((Finished \/ phase = "threw" \/ react = "threw") /\ Active = {})
=============================================================================

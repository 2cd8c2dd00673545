------------------------ MODULE HybridReasoner_proofs ------------------------
(***************************************************************************)
(* A turn of the HybridReasoner, for every set of plans the planner may    *)
(* answer and any limits: what is executed has its dependencies, what is   *)
(* answered covers the plan, and work is neither lost nor used twice over  *)
(* any number of replans.                                                  *)
(*                                                                         *)
(* The inductive invariant, HybridInv, follows a plan through its levels:  *)
(* LevelsInOrder says what may be found before and behind the level in     *)
(* force, LevelKinds what computeLevels makes of it, and SourcesAge which  *)
(* round an observation is from.                                           *)
(***************************************************************************)
EXTENDS HybridReasoner, WellFoundedInduction, TLAPS

\* Statuses and what the steps await agree: a step holds a guard call or a sandbox
\* only while it is running, and outside a level (or a turn that threw) none runs.
StepsSettled ==
  /\ Active \subseteq Executing
  /\ phase # "threw" => Executing \subseteq Active
  /\ phase \notin {"level", "threw"} => Active = {}

\* Where a plan stands.  The levels still to come hold steps nobody has touched but
\* those bound to an earlier success, and while there are such levels nothing has been
\* skipped; behind them every step is settled, but for those of the level in force.
LevelsInOrder ==
  /\ \A i \in left : status[i] \in {"pending", "success"}
  /\ \A i \in todo : status[i] = "pending"
  /\ todo \cap left = {}
  /\ left # {} => \A i \in DOMAIN plan : status[i] # "skipped"
  /\ phase \in {"refresh", "levels", "synth"} =>
       /\ todo = {}
       /\ \A i \in DOMAIN plan \ left : status[i] \in {"success", "skipped"}
  /\ phase = "level" =>
       \A i \in DOMAIN plan \ left : status[i] = "pending" => i \in todo
  /\ phase = "synth" => left = {}

\* Only a step that no order can reach is skipped.
SkippedUnreachable ==
  \A i \in DOMAIN plan : status[i] = "skipped" => i \in Unreachable

DepsSucceeded(i) ==
  \A d \in plan[i].deps : \E j \in DOMAIN plan : plan[j].id = d /\ status[j] = "success"

\* What was begun, and what is about to be, has its dependencies.
BegunInOrder == \A i \in (Executing \cup todo) \ Unreachable : DepsSucceeded(i)

\* An observation of the current round belongs to the step that made it, one that was
\* carried over is older; after a failure all there are will be carried over.
SourcesAge ==
  \A i \in DOMAIN plan : status[i] = "success" =>
    /\ source[i][1] <= replanCount
    /\ source[i][1] = replanCount => source[i][2] = i
    /\ phase = "replan" => source[i][1] < replanCount

\* The rounds of replanning: none before the first plan runs.
RoundsCounted ==
  /\ phase \in {"off", "start", "planning", "refresh"} => replanCount = 0
  /\ phase = "refresh" => ReplanLimit > 0

\* The ReAct executor runs when the turn was handed to it, and every step it took
\* after the first has a tool call behind it.
ReactSteps ==
  /\ react # "off" <=> phase = "react"
  /\ react \in {"off", "loop"} => steps = 0 \/ toolCalls > 0
  /\ react = "tools" => calls > 0 \/ toolCalls > 0
  /\ react = "tool" => toolCalls > 0

HybridInv ==
  /\ TypeOK
  /\ StepsSettled /\ LevelsInOrder /\ SkippedUnreachable /\ BegunInOrder
  /\ SourcesAge /\ NoDoublePreservation
  /\ RoundsCounted /\ ReactSteps
  /\ AnswerIsSpoken /\ AnswerCoversPlan

-----------------------------------------------------------------------------
\* Choosing among the steps of a plan

LEMMA LeastOf == ASSUME NEW S \in SUBSET Nat, S # {} PROVE \E m \in S : \A k \in S : m <= k
<1>1. \E m \in S : \A k \in S : ~(<<k, m>> \in OpToRel(<, Nat))
  BY NatLessThanWellFounded, WFMin
<1>2. ASSUME NEW k \in S, NEW m \in S, k < m PROVE <<k, m>> \in OpToRel(<, Nat)
  <2>1. <<k, m>> \in Nat \X Nat /\ <<k, m>>[1] < <<k, m>>[2]
    BY <1>2
  <2> QED
    BY <2>1, Zenon DEF OpToRel
<1>3. PICK m \in S : \A k \in S : ~(k < m)
  BY <1>1, <1>2
<1> QED
  BY <1>3

LEMMA GreatestOf ==
  ASSUME NEW n \in Nat, NEW S \in SUBSET (1..n), S # {}
  PROVE \E m \in S : \A k \in S : k <= m
<1> DEFINE T == {n - k : k \in S}
<1>1. T \in SUBSET Nat /\ T # {}
  <2>1. \A k \in S : n - k \in Nat
    OBVIOUS
  <2>2. PICK k \in S : TRUE
    OBVIOUS
  <2>3. n - k \in T
    OBVIOUS
  <2> QED
    BY <2>1, <2>3
<1>2. PICK t \in T : \A k \in T : t <= k
  BY <1>1, LeastOf
<1>3. PICK m \in S : t = n - m
  BY <1>2
<1>4. \A k \in S : n - k \in T
  OBVIOUS
<1>5. \A k \in S : k <= m
  BY <1>2, <1>3, <1>4
<1> QED
  BY <1>5

LEMMA PlanIsSequence ==
  ASSUME NEW p \in Plans \cup {<<>>}
  PROVE Len(p) \in Nat /\ DOMAIN p = 1..Len(p)
<1>1. CASE p = <<>>
  BY <1>1
<1>2. CASE p \in Plans
  <2>1. p \in Seq({p[i] : i \in DOMAIN p})
    BY <1>2, PlanAssumption DEF PlanAssumption
  <2> QED
    BY <2>1
<1> QED
  BY <1>1, <1>2

LEMMA StepsAreNumbers ==
  ASSUME TypeOK PROVE DOMAIN plan \in SUBSET Nat /\ Len(plan) \in Nat /\ DOMAIN plan = 1..Len(plan)
BY PlanIsSequence DEF TypeOK, PlanTypeOK

LEMMA FirstOf ==
  ASSUME TypeOK, NEW S \in SUBSET (DOMAIN plan), S # {} PROVE First(S) \in S
<1>1. \E i \in S : \A j \in S : i <= j
  BY StepsAreNumbers, LeastOf
<1> QED
  BY <1>1 DEF First

LEMMA StepByIdExists ==
  ASSUME TypeOK, NEW d \in IdsOf(plan) PROVE StepById(d) \in DOMAIN plan
<1> DEFINE S == {i \in DOMAIN plan : plan[i].id = d}
<1>1. S # {} /\ S \in SUBSET (1..Len(plan))
  BY StepsAreNumbers DEF IdsOf
<1>2. PICK m \in S : \A k \in S : k <= m
  BY <1>1, StepsAreNumbers, GreatestOf
<1>3. m \in DOMAIN plan /\ plan[m].id = d /\ \A j \in DOMAIN plan : plan[j].id = d => j <= m
  BY <1>2
<1> QED
  BY <1>3 DEF StepById

LEMMA LastSuccessExists ==
  ASSUME TypeOK, NEW d \in {plan[j].id : j \in Succeeded}
  PROVE LastSuccess(d) \in Succeeded /\ plan[LastSuccess(d)].id = d
<1> DEFINE S == {i \in Succeeded : plan[i].id = d}
<1>1. S # {} /\ S \in SUBSET (1..Len(plan))
  BY StepsAreNumbers DEF Succeeded
<1>2. PICK m \in S : \A k \in S : k <= m
  BY <1>1, StepsAreNumbers, GreatestOf
<1>3. m \in Succeeded /\ plan[m].id = d /\ \A j \in Succeeded : plan[j].id = d => j <= m
  BY <1>2
<1> QED
  BY <1>3 DEF LastSuccess

-----------------------------------------------------------------------------
\* Steps that leave the plan alone

\* What a step owes to the plan.
PlanPart ==
  /\ SkippedUnreachable /\ BegunInOrder /\ NoDoublePreservation

LEMMA KeepPlanKeeps ==
  ASSUME TypeOK, PlanPart, KeepPlan
  PROVE /\ PlanPart'
        /\ Unreachable' = Unreachable /\ Active' = Active /\ Executing' = Executing
        /\ Failed' = Failed
<1>1. UNCHANGED <<plan, status, at, attempt, source, left, todo>>
  BY DEF KeepPlan
<1>2. Unreachable' = Unreachable
  BY <1>1 DEF Unreachable
<1> QED
  BY <1>1, <1>2
  DEF PlanPart, SkippedUnreachable, BegunInOrder, DepsSucceeded, NoDoublePreservation,
      Executing, Active, Failed

\* An abort.
LEMMA AbortKeeps == ASSUME HybridInv, Abort PROVE HybridInv'
<1>1. aborted' = TRUE /\ UNCHANGED <<planVars, reactVars>> /\ KeepPlan
  BY DEF Abort, planVars, KeepPlan
<1>2. PlanPart' /\ Unreachable' = Unreachable /\ Active' = Active /\ Executing' = Executing
  BY <1>1, KeepPlanKeeps DEF HybridInv, PlanPart
<1>3. TypeOK'
  BY <1>1 DEF HybridInv, TypeOK, PlanTypeOK, ReactTypeOK, planVars, reactVars
<1>4. StepsSettled' /\ LevelsInOrder' /\ SourcesAge' /\ RoundsCounted'
  BY <1>1, <1>2
  DEF HybridInv, StepsSettled, LevelsInOrder, SourcesAge, RoundsCounted, planVars
<1>5. ReactSteps' /\ AnswerIsSpoken' /\ AnswerCoversPlan'
  BY <1>1, <1>2
  DEF HybridInv, ReactSteps, AnswerIsSpoken, AnswerCoversPlan, Finished, planVars, reactVars
<1> QED
  BY <1>2, <1>3, <1>4, <1>5 DEF HybridInv, PlanPart

\* A step of the ReAct run: its budget, and why it ends.
LEMMA ReactStepKeeps == ASSUME HybridInv, ReactStep PROVE HybridInv'
<1>1. UNCHANGED planVars /\ KeepPlan
  BY DEF ReactStep, planVars, KeepPlan
<1>2. PlanPart' /\ Unreachable' = Unreachable /\ Active' = Active /\ Executing' = Executing
  BY <1>1, KeepPlanKeeps DEF HybridInv, PlanPart
<1>3. StepsSettled' /\ LevelsInOrder' /\ SourcesAge' /\ RoundsCounted'
  BY <1>1, <1>2
  DEF HybridInv, StepsSettled, LevelsInOrder, SourcesAge, RoundsCounted, planVars
<1>4. react # "off" /\ phase = "react"
  BY DEF HybridInv, ReactSteps, ReactStep, ReactNext, ReactLoop, StreamEnds, NextCall,
         ToolAnswers, SumUp
<1>5. AnswerCoversPlan'
  BY <1>1, <1>4 DEF AnswerCoversPlan, planVars
<1>6. ReactTypeOK /\ ReactSteps /\ AnswerIsSpoken /\ phase' = phase
  BY <1>1 DEF HybridInv, TypeOK, PlanTypeOK, planVars
<1>7. ReactTypeOK'
  <2> USE <1>6, ReactAssumption
      DEF ReactStep, ReactNext, ReactLoop, StreamEnds, NextCall, ToolAnswers, SumUp, Exhausted,
          FinishReact, ReactAssumption, ReactTypeOK
  <2>1. react' \in ReactState /\ reason' \in Reason
    BY DEF ReactState, Reason
  <2>2. steps' \in 0..MaxSteps /\ toolCalls' \in 0..MaxToolCalls /\ calls' \in 0..CallsPerStep
    OBVIOUS
  <2>3. spoken' \in BOOLEAN /\ aborted' \in BOOLEAN
    BY Zenon
  <2> QED
    BY <2>1, <2>2, <2>3
<1>8. ReactSteps'
  BY <1>4, <1>6, ReactAssumption
  DEF ReactStep, ReactNext, ReactLoop, StreamEnds, NextCall, ToolAnswers, SumUp, Exhausted,
      FinishReact, ReactAssumption, ReactTypeOK, ReactSteps
<1>9. AnswerIsSpoken'
  <2>1. phase' # "final"
    BY <1>4, <1>6
  <2>2. SUFFICES ASSUME react' = "final", MaxToolCalls > 0 PROVE reason' = "user_abort" \/ spoken'
    BY <2>1 DEF AnswerIsSpoken, Finished
  <2> USE ReactAssumption DEF ReactAssumption, ReactTypeOK, ReactSteps
  <2>3. CASE ReactLoop
    BY <2>2, <2>3, <1>6 DEF ReactLoop, Exhausted, FinishReact
  <2>4. CASE StreamEnds
    BY <2>2, <2>4, <1>6 DEF StreamEnds, FinishReact
  <2>5. CASE NextCall
    BY <2>2, <2>5, <1>6 DEF NextCall, Exhausted, FinishReact
  <2>6. CASE ToolAnswers
    BY <2>2, <2>6 DEF ToolAnswers
  <2>7. CASE SumUp
    BY <2>2, <2>7 DEF SumUp
  <2> QED
    BY <2>3, <2>4, <2>5, <2>6, <2>7 DEF ReactStep, ReactNext
<1>10. TypeOK'
  BY <1>1, <1>7 DEF HybridInv, TypeOK, PlanTypeOK, planVars
<1> QED
  BY <1>2, <1>3, <1>5, <1>8, <1>9, <1>10 DEF HybridInv, PlanPart

\* Handing the turn to the ReAct executor, from a phase in which no step is active.
LEMMA HandOver ==
  ASSUME HybridInv, phase \notin {"react", "threw"}, phase = "level" => Active = {}, Downgrade,
         UNCHANGED <<replanCount, config>>
  PROVE HybridInv'
<1>1. KeepPlan /\ phase' = "react" /\ react' = "loop" /\ react = "off"
      /\ UNCHANGED <<steps, toolCalls, calls, reason, spoken>>
  BY DEF Downgrade, StartReact, HybridInv, ReactSteps
<1>2. PlanPart' /\ Active' = Active /\ Executing' = Executing /\ Active' = {}
  BY <1>1, KeepPlanKeeps DEF HybridInv, PlanPart, StepsSettled
<1>3. TypeOK'
  BY <1>1 DEF HybridInv, TypeOK, PlanTypeOK, ReactTypeOK, KeepPlan, config, Phase, ReactState
<1>4. StepsSettled'
  BY <1>1, <1>2 DEF HybridInv, StepsSettled
<1>5. LevelsInOrder' /\ SourcesAge' /\ RoundsCounted'
  BY <1>1 DEF HybridInv, LevelsInOrder, SourcesAge, RoundsCounted, KeepPlan
<1>6. ReactSteps' /\ AnswerIsSpoken' /\ AnswerCoversPlan'
  BY <1>1 DEF HybridInv, ReactSteps, AnswerIsSpoken, AnswerCoversPlan, Finished
<1> QED
  BY <1>2, <1>3, <1>4, <1>5, <1>6 DEF HybridInv, PlanPart

\* The routing of a turn.
LEMMA RouteKeeps == ASSUME HybridInv, Route PROVE HybridInv'
<1>1. CASE phase' = "react" /\ StartReact
  BY <1>1, HandOver DEF Route, Downgrade
<1>2. CASE phase' = "start" /\ UNCHANGED reactVars
  <2>1. KeepPlan /\ phase = "off" /\ phase' = "start" /\ UNCHANGED reactVars
        /\ UNCHANGED <<replanCount, config>>
    BY <1>2 DEF Route
  <2>2. PlanPart' /\ Active' = Active /\ Executing' = Executing
    BY <2>1, KeepPlanKeeps DEF HybridInv, PlanPart
  <2>3. TypeOK'
    BY <2>1 DEF HybridInv, TypeOK, PlanTypeOK, ReactTypeOK, KeepPlan, config, Phase, reactVars
  <2>4. StepsSettled' /\ LevelsInOrder' /\ SourcesAge' /\ RoundsCounted'
    BY <2>1, <2>2
    DEF HybridInv, StepsSettled, LevelsInOrder, SourcesAge, RoundsCounted, KeepPlan
  <2>5. ReactSteps' /\ AnswerIsSpoken' /\ AnswerCoversPlan'
    BY <2>1 DEF HybridInv, ReactSteps, AnswerIsSpoken, AnswerCoversPlan, Finished, reactVars
  <2> QED
    BY <2>2, <2>3, <2>4, <2>5 DEF HybridInv, PlanPart
<1> QED
  BY <1>1, <1>2 DEF Route

-----------------------------------------------------------------------------
\* The planner

\* A turn that throws at an await of the planner or of the synthesis.
LEMMA ThrowsKeeps ==
  ASSUME HybridInv, phase # "react", Throws, UNCHANGED <<replanCount, config>>
  PROVE HybridInv'
<1>1. KeepPlan /\ phase' = "threw" /\ react = "off" /\ UNCHANGED reactVars
  BY DEF Throws, HybridInv, ReactSteps
<1>2. PlanPart' /\ Active' = Active /\ Executing' = Executing
  BY <1>1, KeepPlanKeeps DEF HybridInv, PlanPart
<1>3. TypeOK'
  BY <1>1 DEF HybridInv, TypeOK, PlanTypeOK, ReactTypeOK, KeepPlan, config, Phase, reactVars
<1>4. StepsSettled' /\ LevelsInOrder' /\ SourcesAge' /\ RoundsCounted'
  BY <1>1, <1>2
  DEF HybridInv, StepsSettled, LevelsInOrder, SourcesAge, RoundsCounted, KeepPlan
<1>5. ReactSteps' /\ AnswerIsSpoken' /\ AnswerCoversPlan'
  BY <1>1 DEF HybridInv, ReactSteps, AnswerIsSpoken, AnswerCoversPlan, Finished, reactVars
<1> QED
  BY <1>2, <1>3, <1>4, <1>5 DEF HybridInv, PlanPart

\* A plan that is put in force: its steps are untouched but for those that carry an
\* older observation, each its own.
LEMMA AdoptKeeps ==
  ASSUME HybridInv, phase # "react", NEW p \in Plans, NEW bound \in SUBSET DOMAIN p, NEW carried,
         Adopt(p, bound, carried),
         \A i \in bound : /\ carried[i] \in (0..ReplanLimit) \X Nat
                          /\ carried[i][1] < replanCount',
         \A i, j \in bound : carried[i] = carried[j] => i = j,
         phase' \in {"refresh", "levels"},
         phase' = "refresh" => replanCount' = 0 /\ ReplanLimit > 0,
         replanCount' \in 0..ReplanLimit,
         UNCHANGED reactVars, UNCHANGED config
  PROVE HybridInv'
<1> USE PlanAssumption DEF PlanAssumption
<1>1. /\ plan' = p /\ left' = DOMAIN p /\ todo' = {}
      /\ status' = [i \in DOMAIN p |-> IF i \in bound THEN "success" ELSE "pending"]
      /\ source' = [i \in DOMAIN p |-> IF i \in bound THEN carried[i] ELSE Unbound]
      /\ at' = [i \in DOMAIN p |-> "idle"]
      /\ attempt' = [i \in DOMAIN p |-> 1]
  BY DEF Adopt
<1>2. react = "off"
  BY DEF HybridInv, ReactSteps
<1>3. TypeOK'
  <2>1. ReactTypeOK' /\ {parallel, goalShift}' \subseteq BOOLEAN
    BY DEF HybridInv, TypeOK, PlanTypeOK, ReactTypeOK, config, reactVars
  <2>2. status' \in [DOMAIN p -> {"pending", "running", "success", "failed", "skipped"}]
    BY <1>1
  <2>3. at' \in [DOMAIN p -> {"idle", "guard", "sandbox"}]
    BY <1>1
  <2>4. attempt' \in [DOMAIN p -> 1..StepRetryLimit + 1]
    BY <1>1
  <2>5. source' \in [DOMAIN p -> (0..ReplanLimit) \X Nat]
    <3>1. Unbound \in (0..ReplanLimit) \X Nat
      BY DEF Unbound
    <3> QED
      BY <1>1, <3>1
  <2> QED
    BY <1>1, <2>1, <2>2, <2>3, <2>4, <2>5 DEF TypeOK, PlanTypeOK, Phase
<1>4. \A i \in DOMAIN plan' : /\ status'[i] = "success" <=> i \in bound
                              /\ status'[i] # "success" => status'[i] = "pending"
                              /\ at'[i] = "idle"
                              /\ i \in bound => source'[i] = carried[i]
  BY <1>1
<1>5. Active' = {} /\ Executing' = {}
  BY <1>4 DEF Active, Executing
<1>6. StepsSettled'
  BY <1>5 DEF StepsSettled
<1>7. LevelsInOrder'
  BY <1>1, <1>4 DEF LevelsInOrder
<1>8. SkippedUnreachable' /\ BegunInOrder'
  BY <1>1, <1>4, <1>5 DEF SkippedUnreachable, BegunInOrder
<1>9. SourcesAge'
  <2> SUFFICES ASSUME NEW i \in bound
               PROVE source'[i][1] <= replanCount' /\ source'[i][1] # replanCount'
                     /\ source'[i][1] < replanCount'
    BY <1>1, <1>4 DEF SourcesAge
  <2>1. source'[i] = carried[i] /\ carried[i] \in (0..ReplanLimit) \X Nat
    BY <1>1, <1>4
  <2>2. carried[i][1] \in Nat /\ carried[i][1] < replanCount'
    BY <2>1
  <2> QED
    BY <2>1, <2>2
<1>10. NoDoublePreservation'
  BY <1>1, <1>4 DEF NoDoublePreservation
<1>11. RoundsCounted'
  BY DEF RoundsCounted
<1>12. ReactSteps' /\ AnswerIsSpoken' /\ AnswerCoversPlan'
  BY <1>2 DEF HybridInv, ReactSteps, AnswerIsSpoken, AnswerCoversPlan, Finished, reactVars
<1> QED
  BY <1>3, <1>6, <1>7, <1>8, <1>9, <1>10, <1>11, <1>12 DEF HybridInv

LEMMA StartPlanningKeeps == ASSUME HybridInv, StartPlanning PROVE HybridInv'
<1>1. /\ KeepPlan /\ phase = "start" /\ phase' \in {"final", "planning"}
      /\ phase' = "final" => reason' = "user_abort"
      /\ reason' \in {reason, "user_abort"} /\ spoken' = spoken
      /\ UNCHANGED <<react, steps, toolCalls, calls, replanCount, config>>
  BY DEF StartPlanning
<1>2. PlanPart' /\ Active' = Active /\ Executing' = Executing
  BY <1>1, KeepPlanKeeps DEF HybridInv, PlanPart
<1>3. TypeOK'
  BY <1>1 DEF HybridInv, TypeOK, PlanTypeOK, ReactTypeOK, KeepPlan, config, Phase, Reason
<1>4. StepsSettled' /\ LevelsInOrder' /\ SourcesAge' /\ RoundsCounted'
  BY <1>1, <1>2
  DEF HybridInv, StepsSettled, LevelsInOrder, SourcesAge, RoundsCounted, KeepPlan
<1>5. ReactSteps' /\ AnswerIsSpoken' /\ AnswerCoversPlan'
  BY <1>1 DEF HybridInv, ReactSteps, AnswerIsSpoken, AnswerCoversPlan, Finished
<1> QED
  BY <1>2, <1>3, <1>4, <1>5 DEF HybridInv, PlanPart

LEMMA PlannedKeeps == ASSUME HybridInv, Planned PROVE HybridInv'
<1>1. phase = "planning" /\ UNCHANGED <<replanCount, config>> /\ replanCount = 0
  BY DEF Planned, HybridInv, RoundsCounted
<1>2. ASSUME NEW p \in Plans, Adopt(p, {}, <<>>), UNCHANGED reactVars,
             phase' = IF goalShift /\ ReplanLimit > 0 THEN "refresh" ELSE "levels"
      PROVE HybridInv'
  <2>1. replanCount' = 0 /\ 0 \in 0..ReplanLimit /\ phase' \in {"refresh", "levels"}
        /\ (phase' = "refresh" => ReplanLimit > 0)
    BY <1>1, <1>2, PlanAssumption DEF PlanAssumption
  <2> QED
    BY <1>1, <1>2, <2>1, AdoptKeeps
<1> QED
  BY <1>1, <1>2, HandOver, ThrowsKeeps DEF Planned

LEMMA RefreshedKeeps == ASSUME HybridInv, Refreshed PROVE HybridInv'
<1>1. phase = "refresh" /\ UNCHANGED config /\ replanCount = 0 /\ ReplanLimit > 0
  BY DEF Refreshed, HybridInv, RoundsCounted
<1>2. ASSUME NEW p \in Plans, Adopt(p, {}, <<>>), phase' = "levels",
             replanCount' = replanCount + 1, UNCHANGED reactVars
      PROVE HybridInv'
  <2>1. replanCount' \in 0..ReplanLimit
    BY <1>1, <1>2, PlanAssumption DEF PlanAssumption
  <2> QED
    BY <1>1, <1>2, <2>1, AdoptKeeps
<1>3. CASE phase' = "levels" /\ KeepPlan /\ UNCHANGED <<reactVars, replanCount>>
  <2>1. PlanPart' /\ Active' = Active /\ Executing' = Executing
    BY <1>3, KeepPlanKeeps DEF HybridInv, PlanPart
  <2>2. TypeOK'
    BY <1>1, <1>3
    DEF HybridInv, TypeOK, PlanTypeOK, ReactTypeOK, KeepPlan, config, Phase, reactVars
  <2>3. StepsSettled' /\ LevelsInOrder' /\ SourcesAge' /\ RoundsCounted'
    BY <1>1, <1>3, <2>1
    DEF HybridInv, StepsSettled, LevelsInOrder, SourcesAge, RoundsCounted, KeepPlan
  <2>4. ReactSteps' /\ AnswerIsSpoken' /\ AnswerCoversPlan'
    BY <1>1, <1>3
    DEF HybridInv, ReactSteps, AnswerIsSpoken, AnswerCoversPlan, Finished, reactVars
  <2> QED
    BY <2>1, <2>2, <2>3, <2>4 DEF HybridInv, PlanPart
<1> QED
  BY <1>1, <1>2, <1>3, ThrowsKeeps DEF Refreshed

\* What preservePriorSuccesses may choose: observations of earlier successes, each for
\* one step, and for every id that comes back the last success under that id.
LEMMA Preserves ==
  ASSUME TypeOK, NEW p \in Plans, NEW carried \in Preservations(p)
  PROVE /\ DOMAIN carried \subseteq DOMAIN p
        /\ \A i \in DOMAIN carried : \E k \in Succeeded : carried[i] = source[k]
        /\ (\A k, l \in Succeeded : source[k] = source[l] => k = l) =>
             \A i, j \in DOMAIN carried : carried[i] = carried[j] => i = j
        /\ \A d \in {plan[j].id : j \in Succeeded} : d \in IdsOf(p) =>
             \E i \in DOMAIN carried : \E k \in Succeeded :
               p[i].id = d /\ plan[k].id = d /\ carried[i] = source[k]
<1> DEFINE ids == {plan[j].id : j \in Succeeded}
           exact == {i \in DOMAIN p : p[i].id \in ids /\ \A k \in 1..i - 1 : p[k].id # p[i].id}
<1>1. PICK c \in UNION {[B -> ids] : B \in SUBSET DOMAIN p} :
        /\ exact \subseteq DOMAIN c
        /\ \A i \in exact : c[i] = p[i].id
        /\ \A i, j \in DOMAIN c : c[i] = c[j] => i = j
        /\ carried = [i \in DOMAIN c |-> source[LastSuccess(c[i])]]
  BY DEF Preservations
<1>2. DOMAIN c \subseteq DOMAIN p /\ \A i \in DOMAIN c : c[i] \in ids
  BY <1>1
<1>3. DOMAIN carried = DOMAIN c /\ \A i \in DOMAIN c : carried[i] = source[LastSuccess(c[i])]
  BY <1>1
<1>4. \A i \in DOMAIN c : LastSuccess(c[i]) \in Succeeded /\ plan[LastSuccess(c[i])].id = c[i]
  BY <1>2, LastSuccessExists
<1>5. \A i \in DOMAIN carried : \E k \in Succeeded : carried[i] = source[k]
  BY <1>3, <1>4
<1>6. ASSUME \A k, l \in Succeeded : source[k] = source[l] => k = l
      PROVE \A i, j \in DOMAIN carried : carried[i] = carried[j] => i = j
  <2> SUFFICES ASSUME NEW i \in DOMAIN c, NEW j \in DOMAIN c, carried[i] = carried[j] PROVE i = j
    BY <1>3
  <2>1. LastSuccess(c[i]) = LastSuccess(c[j])
    BY <1>3, <1>4, <1>6
  <2>2. c[i] = c[j]
    BY <1>4, <2>1
  <2> QED
    BY <1>1, <2>2
<1>7. ASSUME NEW d \in ids, d \in IdsOf(p)
      PROVE \E i \in DOMAIN carried : \E k \in Succeeded :
              p[i].id = d /\ plan[k].id = d /\ carried[i] = source[k]
  <2> DEFINE S == {i \in DOMAIN p : p[i].id = d}
  <2>1. Len(p) \in Nat /\ DOMAIN p = 1..Len(p)
    BY PlanIsSequence
  <2>2. S \in SUBSET Nat /\ S # {}
    BY <1>7, <2>1 DEF IdsOf
  <2>3. PICK m \in S : \A k \in S : m <= k
    BY <2>2, LeastOf
  <2>4. \A k \in 1..m - 1 : p[k].id # d
    BY <2>1, <2>3
  <2>5. m \in exact
    BY <2>3, <2>4
  <2>6. m \in DOMAIN c /\ c[m] = d
    BY <1>1, <2>3, <2>5
  <2> QED
    BY <1>3, <1>4, <2>3, <2>6
<1> QED
  BY <1>2, <1>3, <1>5, <1>6, <1>7

LEMMA ReplannedKeeps == ASSUME HybridInv, Replanned PROVE HybridInv'
<1>1. phase = "replan" /\ UNCHANGED <<replanCount, config>> /\ replanCount \in 0..ReplanLimit
  BY DEF Replanned, HybridInv, TypeOK, PlanTypeOK
<1>2. ASSUME NEW p \in Plans, NEW carried \in Preservations(p), Adopt(p, DOMAIN carried, carried),
             phase' = "levels", UNCHANGED reactVars
      PROVE HybridInv'
  <2>1. /\ DOMAIN carried \in SUBSET DOMAIN p
        /\ \A i \in DOMAIN carried : \E k \in Succeeded : carried[i] = source[k]
    BY Preserves DEF HybridInv
  <2>2. \A k \in Succeeded : source[k] \in (0..ReplanLimit) \X Nat /\ source[k][1] < replanCount
    BY <1>1 DEF HybridInv, TypeOK, PlanTypeOK, SourcesAge, Succeeded
  <2>3. \A k, l \in Succeeded : source[k] = source[l] => k = l
    BY DEF HybridInv, NoDoublePreservation, Succeeded
  <2>4. \A i, j \in DOMAIN carried : carried[i] = carried[j] => i = j
    BY <2>3, Preserves DEF HybridInv
  <2>5. \A i \in DOMAIN carried : carried[i] \in (0..ReplanLimit) \X Nat
                                  /\ carried[i][1] < replanCount'
    BY <1>1, <2>1, <2>2
  <2> QED
    BY <1>1, <1>2, <2>1, <2>4, <2>5, AdoptKeeps
<1> QED
  BY <1>1, <1>2, HandOver, ThrowsKeeps DEF Replanned

-----------------------------------------------------------------------------
\* The levels

\* A running step goes on, succeeds, fails or throws.
LEMMA StepSettles ==
  ASSUME HybridInv, NEW i \in DOMAIN plan, at[i] # "idle",
         UNCHANGED <<plan, left, todo, replanCount, reactVars, config>>,
         \/ Succeeds(i) \/ AttemptFails(i) \/ StepThrows(i)
         \/ at' = [at EXCEPT ![i] = "sandbox"] /\ UNCHANGED <<status, attempt, source, phase>>
  PROVE HybridInv'
<1>1. TypeOK /\ PlanTypeOK
  BY DEF HybridInv, TypeOK
<1>2. status[i] = "running" /\ phase \in {"level", "threw"} /\ phase' \in {phase, "threw"}
  BY <1>1
  DEF HybridInv, StepsSettled, Active, Executing, PlanTypeOK, Phase, Succeeds, AttemptFails,
      StepThrows
<1>3. i \notin left /\ i \notin todo
  BY <1>2 DEF HybridInv, LevelsInOrder
<1>4. \A j \in DOMAIN plan : j # i =>
        status'[j] = status[j] /\ at'[j] = at[j] /\ source'[j] = source[j]
  BY <1>1 DEF PlanTypeOK, Succeeds, AttemptFails, StepThrows
<1>5. /\ status'[i] \in {"running", "success", "failed"}
      /\ status'[i] # "running" => at'[i] = "idle"
      /\ status'[i] = "running" => at'[i] # "idle" \/ phase' = "threw"
      /\ status'[i] = "success" => source'[i] = <<replanCount, i>>
  BY <1>1, <1>2 DEF PlanTypeOK, Succeeds, AttemptFails, StepThrows
<1>6. TypeOK'
  <2>1. ReactTypeOK' /\ {parallel, goalShift}' \subseteq BOOLEAN
    BY <1>1 DEF PlanTypeOK, ReactTypeOK, config, reactVars
  <2>2. phase' \in Phase /\ plan' \in Plans \cup {<<>>} /\ left' \subseteq DOMAIN plan'
        /\ todo' \subseteq DOMAIN plan' /\ replanCount' \in 0..ReplanLimit
    BY <1>1, <1>2 DEF PlanTypeOK, Phase
  <2>3. status' \in [DOMAIN plan -> {"pending", "running", "success", "failed", "skipped"}]
        /\ at' \in [DOMAIN plan -> {"idle", "guard", "sandbox"}]
    BY <1>1 DEF PlanTypeOK, Succeeds, AttemptFails, StepThrows
  <2>4. attempt' \in [DOMAIN plan -> 1..StepRetryLimit + 1]
    <3>1. \/ attempt' = attempt
          \/ attempt[i] <= StepRetryLimit /\ attempt' = [attempt EXCEPT ![i] = @ + 1]
      BY DEF Succeeds, AttemptFails, StepThrows
    <3>2. attempt \in [DOMAIN plan -> 1..StepRetryLimit + 1] /\ StepRetryLimit \in Nat
      BY <1>1, PlanAssumption DEF PlanAssumption, PlanTypeOK
    <3> QED
      BY <3>1, <3>2
  <2>5. <<replanCount, i>> \in (0..ReplanLimit) \X Nat
    BY <1>1, StepsAreNumbers DEF PlanTypeOK
  <2>6. source' \in [DOMAIN plan -> (0..ReplanLimit) \X Nat]
    BY <1>1, <2>5 DEF PlanTypeOK, Succeeds, AttemptFails, StepThrows
  <2> QED
    BY <2>1, <2>2, <2>3, <2>4, <2>6 DEF TypeOK, PlanTypeOK
<1>7. Unreachable' = Unreachable
  BY DEF Unreachable
<1>8. StepsSettled'
  BY <1>2, <1>4, <1>5 DEF HybridInv, StepsSettled, Active, Executing
<1>9. LevelsInOrder'
  <2>1. /\ plan' = plan /\ left' = left /\ todo' = todo /\ LevelsInOrder
        /\ left \subseteq DOMAIN plan /\ todo \subseteq DOMAIN plan
    BY <1>1 DEF HybridInv, PlanTypeOK, planVars
  <2>2. \A j \in left \cup todo : status'[j] = status[j]
    BY <1>3, <1>4, <2>1
  <2>3. phase' \notin {"refresh", "levels", "synth"}
    BY <1>2
  <2>4. phase' = "level" => phase = "level"
    BY <1>2
  <2>5. ASSUME left # {}, NEW j \in DOMAIN plan
        PROVE  status'[j] # "skipped"
    BY <1>4, <1>5, <2>1, <2>5 DEF LevelsInOrder
  <2>6. ASSUME phase = "level", NEW j \in DOMAIN plan \ left, status'[j] = "pending"
        PROVE  j \in todo
    BY <1>4, <1>5, <2>1, <2>6 DEF LevelsInOrder
  <2> QED
    BY <2>1, <2>2, <2>3, <2>4, <2>5, <2>6 DEF LevelsInOrder
<1>10. SkippedUnreachable'
  BY <1>4, <1>5, <1>7 DEF HybridInv, SkippedUnreachable
<1>11. BegunInOrder'
  <2> SUFFICES ASSUME NEW j \in (Executing' \cup todo) \ Unreachable, NEW d \in plan[j].deps
               PROVE \E k \in DOMAIN plan : plan[k].id = d /\ status'[k] = "success"
    BY <1>7 DEF BegunInOrder, DepsSucceeded
  <2>1. j \in Executing \cup todo
    BY <1>2, <1>4 DEF Executing
  <2>2. PICK k \in DOMAIN plan : plan[k].id = d /\ status[k] = "success"
    BY <2>1 DEF HybridInv, BegunInOrder, DepsSucceeded
  <2>3. k # i
    BY <1>2, <2>2
  <2> QED
    BY <1>4, <2>2, <2>3
<1>12. SourcesAge'
  BY <1>1, <1>2, <1>4, <1>5 DEF HybridInv, SourcesAge, PlanTypeOK
<1>13. NoDoublePreservation'
  <2> SUFFICES ASSUME NEW j \in DOMAIN plan, NEW k \in DOMAIN plan, status'[j] = "success",
                      status'[k] = "success", source'[j] = source'[k], j # k
               PROVE FALSE
    BY DEF NoDoublePreservation
  <2>1. CASE j # i /\ k # i
    BY <2>1, <1>4 DEF HybridInv, NoDoublePreservation
  <2>2. CASE j = i
    BY <2>2, <1>4, <1>5 DEF HybridInv, SourcesAge
  <2>3. CASE k = i
    BY <2>3, <1>4, <1>5 DEF HybridInv, SourcesAge
  <2> QED
    BY <2>1, <2>2, <2>3
<1>14. RoundsCounted' /\ ReactSteps' /\ AnswerIsSpoken' /\ AnswerCoversPlan'
  BY <1>2
  DEF HybridInv, RoundsCounted, ReactSteps, AnswerIsSpoken, AnswerCoversPlan, Finished, reactVars
<1> QED
  BY <1>6, <1>8, <1>9, <1>10, <1>11, <1>12, <1>13, <1>14 DEF HybridInv

LEMMA GuardAnswersKeeps ==
  ASSUME HybridInv, NEW i \in DOMAIN plan, GuardAnswers(i) PROVE HybridInv'
<1>1. at[i] # "idle"
  BY DEF GuardAnswers
<1> QED
  BY <1>1, StepSettles DEF GuardAnswers

LEMMA ToolEndsKeeps ==
  ASSUME HybridInv, NEW i \in DOMAIN plan, ToolEnds(i) PROVE HybridInv'
<1>1. at[i] # "idle"
  BY DEF ToolEnds
<1> QED
  BY <1>1, StepSettles DEF ToolEnds

LEMMA SynthesizeKeeps == ASSUME HybridInv, Synthesize PROVE HybridInv'
<1>1. /\ KeepPlan /\ phase = "synth" /\ phase' \in {"final", "threw"} /\ react = "off"
      /\ phase' = "final" => spoken' = TRUE
      /\ UNCHANGED <<react, steps, toolCalls, calls, replanCount, config>>
  BY DEF Synthesize, HybridInv, ReactSteps
<1>2. PlanPart' /\ Active' = Active /\ Executing' = Executing /\ Unreachable' = Unreachable
  BY <1>1, KeepPlanKeeps DEF HybridInv, PlanPart
<1>3. TypeOK'
  BY <1>1 DEF Synthesize, HybridInv, TypeOK, PlanTypeOK, ReactTypeOK, KeepPlan, config, Phase, Reason
<1>4. StepsSettled' /\ LevelsInOrder' /\ SourcesAge' /\ RoundsCounted'
  BY <1>1, <1>2
  DEF HybridInv, StepsSettled, LevelsInOrder, SourcesAge, RoundsCounted, KeepPlan
<1>5. ReactSteps' /\ AnswerIsSpoken'
  BY <1>1 DEF HybridInv, ReactSteps, AnswerIsSpoken, Finished
<1>6. AnswerCoversPlan'
  BY <1>1, <1>2 DEF HybridInv, AnswerCoversPlan, KeepPlan
<1> QED
  BY <1>2, <1>3, <1>4, <1>5, <1>6 DEF HybridInv, PlanPart

\* A level is what can be ordered next, and then all its dependencies have succeeded and
\* none of it is skipped; or it is all that is left, and no order can reach any of that.
LEMMA LevelKinds ==
  ASSUME HybridInv, phase = "levels", left # {}
  PROVE /\ NextLevel \in SUBSET left
        /\ \A i \in SkippedOf(NextLevel) : i \in NextLevel /\ status[i] = "pending"
        /\ \/ NextLevel = left /\ left \subseteq Unreachable
           \/ SkippedOf(NextLevel) = {} /\ \A i \in NextLevel : DepsSucceeded(i)
<1> DEFINE behind == {plan[j].id : j \in DOMAIN plan \ left}
           ready == {i \in left : plan[i].deps \subseteq behind}
<1>1. NextLevel = IF ready = {} THEN left ELSE ready
  BY DEF NextLevel
<1>2. NextLevel \in SUBSET left
  BY <1>1
<1>3. \A i \in SkippedOf(NextLevel) : i \in NextLevel /\ status[i] = "pending"
  <2> SUFFICES ASSUME NEW i \in SkippedOf(NextLevel) PROVE i \in NextLevel /\ status[i] = "pending"
    OBVIOUS
  <2> DEFINE S == {j \in NextLevel : status[j] = "pending"}
  <2>1. S \in SUBSET NextLevel /\ \A j \in NextLevel : Blocked(j, S) => j \in S
    BY DEF Blocked
  <2>2. i \in S
    BY <2>1 DEF SkippedOf
  <2> QED
    BY <2>2
<1>4. CASE ready = {}
  <2>1. left \in SUBSET (DOMAIN plan)
    BY DEF HybridInv, TypeOK, PlanTypeOK
  <2>2. \A i \in left : ~(plan[i].deps \subseteq behind)
    BY <1>4
  <2>3. left \subseteq Unreachable
    BY <2>1, <2>2 DEF Unreachable
  <2> QED
    BY <1>1, <1>2, <1>3, <1>4, <2>3
<1>5. CASE ready # {}
  <2>1. \A j \in DOMAIN plan \ left : status[j] = "success"
    BY DEF HybridInv, LevelsInOrder
  <2>2. \A j \in DOMAIN plan : status[j] \notin {"failed", "skipped"}
    BY <2>1 DEF HybridInv, LevelsInOrder
  <2>3. \A i \in NextLevel : DepsSucceeded(i)
    BY <1>1, <1>5, <2>1 DEF DepsSucceeded
  <2>4. ASSUME NEW i \in NextLevel PROVE ~Blocked(i, {})
    <3> SUFFICES ASSUME NEW d \in plan[i].deps
                 PROVE d \in IdsOf(plan) /\ status[StepById(d)] \notin {"failed", "skipped"}
      BY DEF Blocked
    <3>1. d \in IdsOf(plan)
      BY <2>3, <2>4 DEF DepsSucceeded, IdsOf
    <3> QED
      BY <2>2, <3>1, StepByIdExists DEF HybridInv
  <2>5. SkippedOf(NextLevel) = {}
    BY <2>4 DEF SkippedOf
  <2> QED
    BY <1>2, <1>3, <2>3, <2>5
<1> QED
  BY <1>4, <1>5

\* Steps that are begun, and steps that are skipped with them.
LEMMA Begins ==
  ASSUME HybridInv, phase \in {"levels", "level"}, Active = {},
         NEW S \in SUBSET (DOMAIN plan), NEW skipped \in SUBSET (DOMAIN plan),
         \A i \in S \cup skipped : status[i] = "pending",
         S \cap skipped = {},
         Begin(S, [i \in DOMAIN plan |-> IF i \in skipped THEN "skipped" ELSE status[i]]),
         NEW newLeft \in SUBSET left, NEW newTodo \in SUBSET (DOMAIN plan \ newLeft),
         left' = newLeft, todo' = newTodo,
         \A i \in newTodo : status[i] = "pending" /\ i \notin S \cup skipped,
         (S \cup skipped) \cap newLeft = {},
         newLeft # {} => skipped = {},
         \A i \in skipped : i \in Unreachable,
         \A i \in (S \cup newTodo) \ Unreachable : DepsSucceeded(i),
         phase' \in {"levels", "level"},
         phase' = "levels" =>
           /\ S = {} /\ newTodo = {}
           /\ \A i \in DOMAIN plan \ newLeft : status[i] \in {"success", "skipped"} \/ i \in skipped,
         \A i \in DOMAIN plan \ newLeft :
           status[i] = "pending" => i \in S \cup skipped \cup newTodo,
         UNCHANGED <<plan, attempt, source, replanCount, reactVars, config>>
  PROVE HybridInv'
<1>1. TypeOK /\ PlanTypeOK
  BY DEF HybridInv, TypeOK
<1>2. react = "off"
  BY DEF HybridInv, ReactSteps
<1>3. status' = [i \in DOMAIN plan |-> IF i \in S THEN "running"
                                       ELSE IF i \in skipped THEN "skipped" ELSE status[i]]
      /\ at' = [i \in DOMAIN plan |-> IF i \in S THEN "guard" ELSE at[i]]
  BY DEF Begin
<1>4. \A i \in DOMAIN plan :
        /\ i \in S => status'[i] = "running" /\ at'[i] = "guard"
        /\ i \in skipped => status'[i] = "skipped"
        /\ i \notin S \cup skipped => status'[i] = status[i]
        /\ i \notin S => at'[i] = "idle"
        /\ status[i] # "running"
  BY <1>1, <1>3 DEF HybridInv, StepsSettled, Active, Executing, PlanTypeOK
<1>5. TypeOK'
  <2>1. status' \in [DOMAIN plan -> {"pending", "running", "success", "failed", "skipped"}]
    BY <1>1, <1>3 DEF PlanTypeOK
  <2>2. at' \in [DOMAIN plan -> {"idle", "guard", "sandbox"}]
    BY <1>1, <1>3 DEF PlanTypeOK
  <2> QED
    BY <1>1, <2>1, <2>2 DEF TypeOK, PlanTypeOK, ReactTypeOK, Phase, config, reactVars
<1>6. Unreachable' = Unreachable
  BY DEF Unreachable
<1>7. Active' = S /\ Executing' = S
  BY <1>4 DEF Active, Executing
<1>8. StepsSettled'
  BY <1>7 DEF StepsSettled
<1>9. LevelsInOrder'
  BY <1>1, <1>4 DEF HybridInv, LevelsInOrder, PlanTypeOK
<1>10. SkippedUnreachable'
  BY <1>4, <1>6 DEF HybridInv, SkippedUnreachable
<1>11. BegunInOrder'
  <2> SUFFICES ASSUME NEW i \in (S \cup newTodo) \ Unreachable
               PROVE DepsSucceeded(i)'
    BY <1>6, <1>7 DEF BegunInOrder
  <2>1. DepsSucceeded(i)
    OBVIOUS
  <2> QED
    BY <1>4, <2>1 DEF DepsSucceeded
<1>12. SourcesAge' /\ NoDoublePreservation'
  BY <1>4 DEF HybridInv, SourcesAge, NoDoublePreservation
<1>13. RoundsCounted' /\ ReactSteps' /\ AnswerIsSpoken' /\ AnswerCoversPlan'
  BY <1>2
  DEF HybridInv, RoundsCounted, ReactSteps, AnswerIsSpoken, AnswerCoversPlan, Finished, reactVars
<1> QED
  BY <1>5, <1>8, <1>9, <1>10, <1>11, <1>12, <1>13 DEF HybridInv

LEMMA StartLevelKeeps == ASSUME HybridInv, StartLevel PROVE HybridInv'
<1>1. /\ phase = "levels" /\ react = "off" /\ Active = {}
      /\ UNCHANGED <<react, steps, toolCalls, calls, spoken, replanCount, config>>
  BY DEF StartLevel, HybridInv, ReactSteps, StepsSettled
<1>2. CASE KeepPlan /\ (\/ phase' = "final" /\ reason' = "user_abort"
                        \/ left = {} /\ phase' = "synth" /\ UNCHANGED reason)
  <2>1. PlanPart' /\ Active' = Active /\ Executing' = Executing /\ Unreachable' = Unreachable
    BY <1>2, KeepPlanKeeps DEF HybridInv, PlanPart
  <2>2. TypeOK'
    BY <1>1, <1>2 DEF HybridInv, TypeOK, PlanTypeOK, ReactTypeOK, KeepPlan, config, Phase, Reason
  <2>3. StepsSettled' /\ LevelsInOrder' /\ SourcesAge' /\ RoundsCounted'
    BY <1>1, <1>2, <2>1
    DEF HybridInv, StepsSettled, LevelsInOrder, SourcesAge, RoundsCounted, KeepPlan
  <2>4. ReactSteps' /\ AnswerIsSpoken'
    BY <1>1, <1>2 DEF HybridInv, ReactSteps, AnswerIsSpoken, Finished
  <2>5. AnswerCoversPlan'
    <3>1. ASSUME left = {} PROVE \A i \in DOMAIN plan :
            status[i] = "success" \/ (i \in Unreachable /\ status[i] = "skipped")
      BY <1>1, <3>1 DEF HybridInv, LevelsInOrder, SkippedUnreachable
    <3> QED
      BY <1>2, <2>1, <3>1 DEF AnswerCoversPlan, KeepPlan
  <2> QED
    BY <2>1, <2>2, <2>3, <2>4, <2>5 DEF HybridInv, PlanPart
<1>3. CASE left # {} /\ phase' \in {"levels", "level"}
  <2> DEFINE level == NextLevel
             skipped == SkippedOf(level)
             runnable == {i \in level \ skipped : status[i] = "pending"}
             begun == IF runnable = {} \/ parallel THEN runnable ELSE {First(runnable)}
  <2>1. /\ Begin(begun, [i \in DOMAIN plan |-> IF i \in skipped THEN "skipped" ELSE status[i]])
        /\ left' = left \ level
        /\ todo' = runnable \ begun
        /\ phase' = IF runnable = {} THEN "levels" ELSE "level"
        /\ UNCHANGED <<plan, attempt, source, reason>>
    BY <1>3 DEF StartLevel
  <2>2. level \in SUBSET left /\ \A i \in skipped : i \in level /\ status[i] = "pending"
    BY <1>1, <1>3, LevelKinds
  <2>3. \/ left \ level = {} /\ level \subseteq Unreachable
        \/ skipped = {} /\ \A i \in level : DepsSucceeded(i)
    BY <1>1, <1>3, LevelKinds
  <2>4. left \in SUBSET (DOMAIN plan)
    BY DEF HybridInv, TypeOK, PlanTypeOK
  <2>5. begun \in SUBSET runnable /\ (begun = {} => runnable = {})
    <3>1. runnable \in SUBSET (DOMAIN plan)
      BY <2>2, <2>4
    <3>2. runnable # {} => First(runnable) \in runnable
      BY <3>1, FirstOf DEF HybridInv
    <3> QED
      BY <3>2
  <2>6. /\ begun \in SUBSET (DOMAIN plan) /\ skipped \in SUBSET (DOMAIN plan)
        /\ \A i \in begun \cup skipped : status[i] = "pending"
        /\ begun \cap skipped = {}
        /\ left \ level \in SUBSET left
        /\ runnable \ begun \in SUBSET (DOMAIN plan \ (left \ level))
        /\ \A i \in runnable \ begun : status[i] = "pending" /\ i \notin begun \cup skipped
        /\ (begun \cup skipped) \cap (left \ level) = {}
    BY <2>2, <2>4, <2>5
  <2>7. /\ left \ level # {} => skipped = {}
        /\ \A i \in skipped : i \in Unreachable
        /\ \A i \in (begun \cup (runnable \ begun)) \ Unreachable : DepsSucceeded(i)
    BY <2>2, <2>3, <2>5
  <2>8. /\ \A i \in level : status[i] \in {"pending", "success"}
        /\ \A i \in DOMAIN plan \ left : status[i] \in {"success", "skipped"}
    BY <1>1, <2>2 DEF HybridInv, LevelsInOrder
  <2>9. phase' = "levels" =>
          /\ begun = {} /\ runnable \ begun = {}
          /\ \A i \in DOMAIN plan \ (left \ level) :
               status[i] \in {"success", "skipped"} \/ i \in skipped
    BY <2>1, <2>5, <2>8
  <2>10. \A i \in DOMAIN plan \ (left \ level) :
           status[i] = "pending" => i \in begun \cup skipped \cup (runnable \ begun)
    BY <2>5, <2>8
  <2>11. UNCHANGED <<plan, attempt, source, replanCount, reactVars, config>>
    BY <1>1, <2>1 DEF reactVars
  <2> HIDE DEF level, skipped, runnable, begun
  <2> QED
    BY <1>1, <1>3, <2>1, <2>6, <2>7, <2>9, <2>10, <2>11, Begins
<1> QED
  BY <1>2, <1>3 DEF StartLevel

LEMMA AdvanceKeeps == ASSUME HybridInv, Advance PROVE HybridInv'
<1>1. /\ phase = "level" /\ react = "off" /\ Active = {} /\ Executing = {}
      /\ UNCHANGED config
  BY DEF Advance, HybridInv, ReactSteps, StepsSettled
<1>2. CASE ReplanNeeded /\ replanCount >= ReplanLimit
  BY <1>1, <1>2, HandOver DEF ReplanNeeded
<1>3. CASE ReplanNeeded /\ ~(replanCount >= ReplanLimit)
  <2>1. /\ phase' = "replan" /\ replanCount' = replanCount + 1
        /\ KeepPlan /\ UNCHANGED reactVars
    BY <1>3 DEF ReplanNeeded
  <2>2. PlanPart' /\ Active' = Active /\ Executing' = Executing
    BY <2>1, KeepPlanKeeps DEF HybridInv, PlanPart
  <2>3. replanCount \in Nat /\ replanCount' \in 0..ReplanLimit
    BY <1>3, <2>1, PlanAssumption DEF PlanAssumption, HybridInv, TypeOK, PlanTypeOK
  <2>4. TypeOK'
    BY <1>1, <2>1, <2>3
    DEF HybridInv, TypeOK, PlanTypeOK, ReactTypeOK, KeepPlan, config, Phase, reactVars
  <2>5. StepsSettled' /\ LevelsInOrder' /\ RoundsCounted'
    BY <1>1, <2>1, <2>2
    DEF HybridInv, StepsSettled, LevelsInOrder, RoundsCounted, KeepPlan
  <2>6. SourcesAge'
    <3> SUFFICES ASSUME NEW i \in DOMAIN plan, status[i] = "success"
                 PROVE source[i][1] <= replanCount + 1 /\ source[i][1] # replanCount + 1
                       /\ source[i][1] < replanCount + 1
      BY <2>1 DEF SourcesAge, KeepPlan
    <3>1. source[i][1] \in Nat /\ source[i][1] <= replanCount
      BY DEF HybridInv, TypeOK, PlanTypeOK, SourcesAge
    <3> QED
      BY <2>3, <3>1
  <2>7. ReactSteps' /\ AnswerIsSpoken' /\ AnswerCoversPlan'
    BY <1>1, <2>1
    DEF HybridInv, ReactSteps, AnswerIsSpoken, AnswerCoversPlan, Finished, reactVars
  <2> QED
    BY <2>2, <2>4, <2>5, <2>6, <2>7 DEF HybridInv, PlanPart
<1>4. CASE Failed = {} /\ todo # {} /\ NextStep /\ UNCHANGED <<replanCount, reactVars>>
  <2> DEFINE f == First(todo)
             begun == {f}
             none == {}
             rest == todo \ {f}
  <2>1. todo \in SUBSET (DOMAIN plan) /\ f \in todo
    BY <1>4, FirstOf DEF HybridInv, TypeOK, PlanTypeOK
  <2>2. /\ Begin({f}, status) /\ todo' = todo \ {f}
        /\ UNCHANGED <<phase, plan, attempt, source, left>>
    BY <1>4 DEF NextStep
  <2>3. Begin(begun, [i \in DOMAIN plan |-> IF i \in none THEN "skipped" ELSE status[i]])
    BY <2>2 DEF Begin
  <2>4. /\ \A i \in todo : status[i] = "pending" /\ i \notin left
        /\ \A i \in todo \ Unreachable : DepsSucceeded(i)
        /\ \A i \in DOMAIN plan \ left : status[i] = "pending" => i \in todo
    BY <1>1 DEF HybridInv, LevelsInOrder, BegunInOrder
  <2>5. phase' = "level" /\ left' = left /\ todo' = rest
        /\ UNCHANGED <<plan, attempt, source, replanCount, reactVars, config>>
    BY <1>1, <1>4, <2>2
  <2>6. /\ begun \in SUBSET (DOMAIN plan) /\ none \in SUBSET (DOMAIN plan)
        /\ \A i \in begun \cup none : status[i] = "pending"
        /\ begun \cap none = {}
        /\ left \in SUBSET left /\ rest \in SUBSET (DOMAIN plan \ left)
        /\ \A i \in rest : status[i] = "pending" /\ i \notin begun \cup none
        /\ (begun \cup none) \cap left = {}
    BY <2>1, <2>4
  <2>7. /\ \A i \in none : i \in Unreachable
        /\ \A i \in (begun \cup rest) \ Unreachable : DepsSucceeded(i)
        /\ \A i \in DOMAIN plan \ left :
             status[i] = "pending" => i \in begun \cup none \cup rest
    BY <2>1, <2>4
  <2>8. left # {} => none = {}
    OBVIOUS
  <2> HIDE DEF f, begun, none, rest
  <2> QED
    BY <1>1, <2>3, <2>5, <2>6, <2>7, <2>8, Begins
<1>5. CASE Failed = {} /\ todo = {} /\ LevelDone /\ UNCHANGED <<replanCount, reactVars>>
  <2>1. phase' = "levels" /\ KeepPlan
    BY <1>5 DEF LevelDone
  <2>2. PlanPart' /\ Active' = Active /\ Executing' = Executing
    BY <2>1, KeepPlanKeeps DEF HybridInv, PlanPart
  <2>3. TypeOK'
    BY <1>1, <1>5, <2>1
    DEF HybridInv, TypeOK, PlanTypeOK, ReactTypeOK, KeepPlan, config, Phase, reactVars
  <2>4. \A i \in DOMAIN plan \ left : status[i] \in {"success", "skipped"}
    BY <1>1, <1>5 DEF HybridInv, TypeOK, PlanTypeOK, LevelsInOrder, Executing, Failed
  <2>5. LevelsInOrder'
    BY <1>1, <1>5, <2>1, <2>4 DEF HybridInv, LevelsInOrder, KeepPlan
  <2>6. StepsSettled' /\ SourcesAge' /\ RoundsCounted'
    BY <1>1, <1>5, <2>1, <2>2 DEF HybridInv, StepsSettled, SourcesAge, RoundsCounted, KeepPlan
  <2>7. ReactSteps' /\ AnswerIsSpoken' /\ AnswerCoversPlan'
    BY <1>1, <1>5, <2>1
    DEF HybridInv, ReactSteps, AnswerIsSpoken, AnswerCoversPlan, Finished, reactVars
  <2> QED
    BY <2>2, <2>3, <2>5, <2>6, <2>7 DEF HybridInv, PlanPart
<1> QED
  BY <1>2, <1>3, <1>4, <1>5 DEF Advance

-----------------------------------------------------------------------------
\* The theorems

LEMMA HybridInit == ASSUME Init PROVE HybridInv
<1> USE ReactAssumption, PlanAssumption DEF ReactAssumption, PlanAssumption
<1>1. TypeOK
  <2>1. ReactTypeOK
    <3>1. spoken \in BOOLEAN /\ aborted \in BOOLEAN
      BY Zenon DEF Init, PlanInit, ReactInit
    <3>2. react \in ReactState /\ reason \in Reason
          /\ steps \in 0..MaxSteps /\ toolCalls \in 0..MaxToolCalls /\ calls \in 0..CallsPerStep
      BY DEF Init, PlanInit, ReactInit, ReactState, Reason
    <3> QED
      BY <3>1, <3>2 DEF ReactTypeOK
  <2>2. \A S : <<>> \in [DOMAIN <<>> -> S]
    OBVIOUS
  <2>3. plan = <<>> /\ status = <<>> /\ at = <<>> /\ attempt = <<>> /\ source = <<>>
    BY DEF Init, PlanInit
  <2>4. /\ status \in [DOMAIN plan -> {"pending", "running", "success", "failed", "skipped"}]
        /\ at \in [DOMAIN plan -> {"idle", "guard", "sandbox"}]
        /\ attempt \in [DOMAIN plan -> 1..StepRetryLimit + 1]
        /\ source \in [DOMAIN plan -> (0..ReplanLimit) \X Nat]
    BY <2>2, <2>3
  <2>5. phase \in Phase /\ replanCount \in 0..ReplanLimit /\ left = {} /\ todo = {}
        /\ {parallel, goalShift} \subseteq BOOLEAN
    BY DEF Init, PlanInit, Phase
  <2> QED
    BY <2>1, <2>3, <2>4, <2>5 DEF TypeOK, PlanTypeOK
<1>2. DOMAIN plan = {}
  BY DEF Init, PlanInit
<1> QED
  BY <1>1, <1>2
  DEF Init, PlanInit, ReactInit, HybridInv, StepsSettled, LevelsInOrder, SkippedUnreachable,
      BegunInOrder, SourcesAge, NoDoublePreservation, RoundsCounted, ReactSteps,
      AnswerIsSpoken, AnswerCoversPlan, Finished, Active, Executing

LEMMA HybridStep == ASSUME HybridInv, [Next]_vars PROVE HybridInv'
<1>1. CASE PlanNext
  BY <1>1, StartPlanningKeeps, PlannedKeeps, RefreshedKeeps, ReplannedKeeps, StartLevelKeeps,
     AdvanceKeeps, SynthesizeKeeps, GuardAnswersKeeps, ToolEndsKeeps DEF PlanNext
<1>2. CASE UNCHANGED vars
  <2>1. UNCHANGED <<planVars, reactVars, aborted>> /\ KeepPlan
    BY <1>2 DEF vars, planVars, KeepPlan
  <2>2. PlanPart' /\ Active' = Active /\ Executing' = Executing /\ Unreachable' = Unreachable
    BY <2>1, KeepPlanKeeps DEF HybridInv, PlanPart
  <2>3. TypeOK'
    BY <2>1 DEF HybridInv, TypeOK, PlanTypeOK, ReactTypeOK, planVars, reactVars
  <2>4. StepsSettled' /\ LevelsInOrder' /\ SourcesAge' /\ RoundsCounted'
    BY <2>1, <2>2
    DEF HybridInv, StepsSettled, LevelsInOrder, SourcesAge, RoundsCounted, planVars
  <2>5. ReactSteps' /\ AnswerIsSpoken' /\ AnswerCoversPlan'
    BY <2>1, <2>2
    DEF HybridInv, ReactSteps, AnswerIsSpoken, AnswerCoversPlan, Finished, planVars, reactVars
  <2> QED
    BY <2>2, <2>3, <2>4, <2>5 DEF HybridInv, PlanPart
<1> QED
  BY <1>1, <1>2, RouteKeeps, ReactStepKeeps, AbortKeeps DEF Next, Turn

LEMMA HybridSafe == Spec => []HybridInv
BY HybridInit, HybridStep, PTL DEF Spec

\* Whatever the planner answers, each part of a turn keeps its range: the rounds of
\* replanning and the budget of the ReAct run stay within their limits.
THEOREM TurnTypeCorrect == Spec => []TypeOK
<1>1. HybridInv => TypeOK
  BY DEF HybridInv
<1> QED
  BY <1>1, HybridSafe, PTL

\* A turn that ends without throwing or an abort ends with text of the model.
THEOREM AnswersAreSpoken == Spec => []AnswerIsSpoken
<1>1. HybridInv => AnswerIsSpoken
  BY DEF HybridInv
<1> QED
  BY <1>1, HybridSafe, PTL

\* For every set of plans, also with repeated ids, cycles and dependencies that do not
\* exist: an answer written from a plan rests on the success of each step that can be
\* ordered (executePlan, computeLevels).
THEOREM AnswersCoverThePlan == Spec => []AnswerCoversPlan
<1>1. HybridInv => AnswerCoversPlan
  BY DEF HybridInv
<1> QED
  BY <1>1, HybridSafe, PTL

\* No step that can be ordered is executed before its dependencies succeeded, run in
\* parallel or one by one.
THEOREM DependenciesComeFirst == Spec => []DependenciesSucceeded
<1>1. HybridInv => DependenciesSucceeded
  BY DEF HybridInv, BegunInOrder, DepsSucceeded, DependenciesSucceeded
<1> QED
  BY <1>1, HybridSafe, PTL

\* Over any number of replans, no observation is given to two steps
\* (preservePriorSuccesses).
THEOREM NothingPreservedTwice == Spec => []NoDoublePreservation
<1>1. HybridInv => NoDoublePreservation
  BY DEF HybridInv
<1> QED
  BY <1>1, HybridSafe, PTL

\* No step runs on and no sandbox is held outside a level, but for a turn that threw.
THEOREM LevelsAreLeftClean == Spec => []NothingLeftBehind
<1>1. HybridInv => NothingLeftBehind
  BY DEF HybridInv, StepsSettled, NothingLeftBehind
<1> QED
  BY <1>1, HybridSafe, PTL

\* A replan keeps every success whose id comes back, with its observation, whatever
\* the matcher says (preservePriorSuccesses).
THEOREM ReplansKeepWork == Spec => CompletedWorkKept
<1> DEFINE Kept ==
      phase = "replan" /\ phase' = "levels" =>
        \A j \in DOMAIN plan :
          status[j] = "success" /\ plan[j].id \in IdsOf(plan') =>
            \E i \in DOMAIN plan', k \in DOMAIN plan :
              /\ plan'[i].id = plan[j].id /\ status'[i] = "success"
              /\ plan[k].id = plan[j].id /\ status[k] = "success"
              /\ source'[i] = source[k]
<1>1. ASSUME HybridInv, [Next]_vars PROVE [Kept]_vars
  <2> SUFFICES ASSUME phase = "replan", phase' = "levels",
                      NEW j \in DOMAIN plan, status[j] = "success", plan[j].id \in IdsOf(plan')
               PROVE \E i \in DOMAIN plan', k \in DOMAIN plan :
                       /\ plan'[i].id = plan[j].id /\ status'[i] = "success"
                       /\ plan[k].id = plan[j].id /\ status[k] = "success"
                       /\ source'[i] = source[k]
    OBVIOUS
  <2>1. Replanned
    <3>1. \A i \in DOMAIN plan : at[i] = "idle"
      BY <1>1 DEF HybridInv, StepsSettled, Active
    <3>2. react = "off"
      BY <1>1 DEF HybridInv, ReactSteps
    <3>3. ~ReactStep /\ ~Route /\ ~Abort /\ ~(UNCHANGED vars)
      BY <3>2 DEF ReactStep, ReactNext, ReactLoop, StreamEnds, NextCall, ToolAnswers, SumUp,
                  Route, Abort, planVars, vars
    <3>4. ~(\E i \in DOMAIN plan : GuardAnswers(i) \/ ToolEnds(i))
      BY <3>1 DEF GuardAnswers, ToolEnds
    <3>5. ~StartPlanning /\ ~Planned /\ ~Refreshed /\ ~StartLevel /\ ~Advance /\ ~Synthesize
      BY DEF StartPlanning, Planned, Refreshed, StartLevel, Advance, Synthesize
    <3> QED
      BY <1>1, <3>3, <3>4, <3>5 DEF Next, Turn, PlanNext
  <2>2. PICK p \in Plans : \E carried \in Preservations(p) : Adopt(p, DOMAIN carried, carried)
    BY <2>1 DEF Replanned, Downgrade, Throws
  <2>3. PICK carried \in Preservations(p) : Adopt(p, DOMAIN carried, carried)
    BY <2>2
  <2>4. /\ plan' = p
        /\ status' = [i \in DOMAIN p |-> IF i \in DOMAIN carried THEN "success" ELSE "pending"]
        /\ source' = [i \in DOMAIN p |-> IF i \in DOMAIN carried THEN carried[i] ELSE Unbound]
    BY <2>3 DEF Adopt
  <2>5. plan[j].id \in {plan[l].id : l \in Succeeded} /\ plan[j].id \in IdsOf(p)
    BY <2>4 DEF Succeeded
  <2>6. PICK i \in DOMAIN carried, k \in Succeeded :
          p[i].id = plan[j].id /\ plan[k].id = plan[j].id /\ carried[i] = source[k]
    BY <1>1, <2>5, Preserves DEF HybridInv
  <2>7. i \in DOMAIN p /\ k \in DOMAIN plan /\ status[k] = "success"
    BY <1>1, Preserves DEF HybridInv, Succeeded
  <2> QED
    BY <2>4, <2>6, <2>7
<1> QED
  BY <1>1, HybridSafe, PTL DEF Spec, CompletedWorkKept
==============================================================================

--------------------------- MODULE EgoLayer_proofs ---------------------------
(***************************************************************************)
(* Proofs about EgoLayer for any number of turns, any threshold and any    *)
(* configuration.                                                          *)
(***************************************************************************)
EXTENDS EgoLayer, TLAPS

-----------------------------------------------------------------------------
(* The breaker's methods keep its type *)

LEMMA AllowTypes ==
  ASSUME CBTypeOK, Allow \/ Reject \/ Cooldown
  PROVE  CBTypeOK'
BY DEF CBTypeOK, CircuitState, Allow, Reject, Cooldown, cbVars

LEMMA RecordTypes ==
  ASSUME CBTypeOK, RecordSuccess \/ RecordFailure
  PROVE  CBTypeOK'
<1>1. CASE RecordSuccess
  BY <1>1 DEF CBTypeOK, CircuitState, RecordSuccess
<1>2. CASE RecordFailure
  <2>1. cbState' \in CircuitState /\ cooled' \in BOOLEAN
    BY <1>2, Zenon DEF CBTypeOK, CircuitState, RecordFailure, Trip
  <2>2. failures' \in Nat
    BY <1>2 DEF CBTypeOK, RecordFailure
  <2>3. probeInFlight' \in BOOLEAN
    BY <1>2 DEF CBTypeOK, RecordFailure
  <2> QED
    BY <2>1, <2>2, <2>3 DEF CBTypeOK
<1> QED
  BY <1>1, <1>2

LEMMA CatchTypes ==
  ASSUME TypeOK, NEW t \in Turn, NEW audit, CatchBlock(t, audit)
  PROVE  /\ CBTypeOK'
         /\ call' \in [Turn -> {"idle", "waiting"}]
         /\ answer' \in [Turn -> Action \cup {"none", "error"}]
         /\ elders' \subseteq Turn
<1>1. CBTypeOK'
  BY RecordTypes DEF TypeOK, CatchBlock
<1>2. elders' \subseteq Turn
  BY DEF TypeOK, CatchBlock, Waiting
<1> QED
  BY <1>1, <1>2 DEF TypeOK, CatchBlock, Action

LEMMA TypeStep == TypeOK /\ [Next]_vars => TypeOK'
<1> SUFFICES ASSUME TypeOK, [Next]_vars PROVE TypeOK'
  OBVIOUS
<1> USE EgoAssumption
<1>1. ASSUME NEW t \in Turn, Admit(t) PROVE TypeOK'
  <2>1. CBTypeOK'
    BY <1>1, AllowTypes DEF TypeOK, Admit, FastExitOff, FastExit, DeepPathSkipped,
                            EnterDeepPath, CBTypeOK, cbVars
  <2> QED
    BY <1>1, <2>1 DEF TypeOK, Admit, FastExitOff, FastExit, DeepPathSkipped, EnterDeepPath,
                      AnswerWithoutDeepPath, egoVars, Action
<1>2. ASSUME NEW t \in Turn, Timeout(t) PROVE TypeOK'
  BY <1>2, CatchTypes DEF TypeOK, Timeout, egoVars
<1>3. ASSUME NEW t \in Turn, Gathered(t) PROVE TypeOK'
  BY <1>3 DEF TypeOK, Gathered, CBTypeOK, cbVars, egoVars
<1>4. ASSUME NEW t \in Turn, Redirected(t) PROVE TypeOK'
  BY <1>4 DEF TypeOK, Redirected, CBTypeOK, cbVars, egoVars
<1>5. ASSUME NEW t \in Turn, DeepPathThrows(t) PROVE TypeOK'
  <2>1. /\ deep' \in [Turn -> {"none", "gather", "think", "capped", "redirect", "audit"}]
        /\ chosen' \in [Turn -> Action \cup {"none"}]
    BY <1>5 DEF TypeOK, DeepPathThrows, Throw, Settle
  <2>2. CASE call[t] = "waiting"
    <3>1. PICK audit \in AuditResult : CatchBlock(t, audit)
      BY <1>5, <2>2 DEF DeepPathThrows, Throw
    <3> QED
      BY <1>5, <2>1, <3>1, CatchTypes DEF TypeOK, DeepPathThrows, egoVars
  <2>3. CASE call[t] # "waiting"
    BY <1>5, <2>1, <2>3 DEF TypeOK, DeepPathThrows, Throw, CBTypeOK, cbVars, egoVars
  <2> QED
    BY <2>2, <2>3
<1>6. ASSUME NEW t \in Turn, ThinkSucceeds(t) PROVE TypeOK'
  <2>1. CBTypeOK'
    BY <1>6, RecordTypes DEF TypeOK, ThinkSucceeds
  <2>2. ledger' \in Nat /\ egoState' \in EgoState
    BY <1>6 DEF TypeOK, ThinkSucceeds, CallCost, EgoState, Downgraded
  <2>3. \A judged \in Action : EffectiveAction(judged) \in Action
    BY DEF EffectiveAction, Action
  <2> QED
    BY <1>6, <2>1, <2>2, <2>3 DEF TypeOK, ThinkSucceeds
<1>7. ASSUME NEW t \in Turn, DeepPathReturns(t) PROVE TypeOK'
  BY <1>7 DEF TypeOK, DeepPathReturns, Settle, CBTypeOK, cbVars, egoVars
<1>8. ASSUME SetConfig PROVE TypeOK'
  BY <1>8 DEF TypeOK, SetConfig, CBTypeOK, cbVars, turnVars
<1>9. ASSUME CooldownEnds PROVE TypeOK'
  BY <1>9, AllowTypes DEF TypeOK, CooldownEnds, egoVars, turnVars
<1>10. ASSUME UNCHANGED vars PROVE TypeOK'
  BY <1>10 DEF TypeOK, CBTypeOK, vars, cbVars, egoVars, turnVars
<1>11. ASSUME Next PROVE TypeOK'
  BY <1>11, <1>1, <1>2, <1>3, <1>4, <1>5, <1>6, <1>7, <1>8, <1>9 DEF Next, DeepPath
<1> QED
  BY <1>10, <1>11

\* The variables keep their types (the type invariant of EgoLayer).
THEOREM Typed == Spec => []TypeOK
<1>1. Init => TypeOK
  <2> SUFFICES ASSUME Init PROVE TypeOK
    OBVIOUS
  <2>1. CBTypeOK
    BY DEF Init, CBInit, CBTypeOK, CircuitState
  <2> QED
    BY <2>1 DEF Init, TypeOK
<1> QED
  BY <1>1, TypeStep, PTL DEF Spec

-----------------------------------------------------------------------------
(* The counter of the breaker *)

LEMMA CountStep == TypeOK /\ ClosedIffBelowThreshold /\ [Next]_vars => ClosedIffBelowThreshold'
<1> SUFFICES ASSUME TypeOK, ClosedIffBelowThreshold, [Next]_vars
             PROVE  ClosedIffBelowThreshold'
  OBVIOUS
<1> USE ThresholdAssumption DEF ClosedIffBelowThreshold
<1>1. ASSUME UNCHANGED <<cbState, failures>> PROVE ClosedIffBelowThreshold'
  BY <1>1
<1>2. ASSUME Allow PROVE ClosedIffBelowThreshold'
  BY <1>2 DEF Allow, cbVars
<1>3. ASSUME RecordSuccess PROVE ClosedIffBelowThreshold'
  BY <1>3 DEF RecordSuccess
<1>4. ASSUME RecordFailure PROVE ClosedIffBelowThreshold'
  <2>1. CASE cbState = "half-open"
    BY <1>4, <2>1 DEF RecordFailure, Trip
  <2>2. CASE cbState # "half-open" /\ failures' >= Threshold
    BY <1>4, <2>2 DEF RecordFailure, Trip, TypeOK, CBTypeOK
  <2>3. CASE cbState # "half-open" /\ ~(failures' >= Threshold)
    BY <1>4, <2>3 DEF RecordFailure, TypeOK, CBTypeOK
  <2> QED
    BY <2>1, <2>2, <2>3
<1>5. ASSUME NEW t \in Turn, Admit(t) PROVE ClosedIffBelowThreshold'
  BY <1>5, <1>1, <1>2 DEF Admit, FastExitOff, FastExit, DeepPathSkipped, Reject, EnterDeepPath, cbVars
<1>6. ASSUME NEW t \in Turn, DeepPath(t) PROVE ClosedIffBelowThreshold'
  BY <1>6, <1>1, <1>3, <1>4 DEF DeepPath, Gathered, ThinkSucceeds, DeepPathThrows, Throw, CatchBlock,
                                Redirected, DeepPathReturns, cbVars
<1>7. ASSUME NEW t \in Turn, Timeout(t) PROVE ClosedIffBelowThreshold'
  BY <1>7, <1>4 DEF Timeout, CatchBlock
<1>8. ASSUME SetConfig \/ CooldownEnds \/ UNCHANGED vars PROVE ClosedIffBelowThreshold'
  BY <1>8, <1>1 DEF SetConfig, CooldownEnds, Cooldown, vars, cbVars
<1>9. ASSUME Next PROVE ClosedIffBelowThreshold'
  BY <1>9, <1>5, <1>6, <1>7, <1>8 DEF Next
<1> QED
  BY <1>8, <1>9

\* For every threshold and any number of turns: the breaker is out of "closed"
\* exactly when Threshold failures were counted without a success between them.
THEOREM CounterAgrees == Spec => []ClosedIffBelowThreshold
<1>1. Init => ClosedIffBelowThreshold
  BY ThresholdAssumption DEF Init, CBInit, ClosedIffBelowThreshold
<1> QED
  BY <1>1, CountStep, Typed, PTL DEF Spec

-----------------------------------------------------------------------------
(* The half-open probe *)

\* What a step does to the caller and the deep path of a turn it is not about.
LEMMA OthersUntouched ==
  ASSUME TypeOK, NEW t \in Turn, NEW u \in Turn \ {t},
         Admit(t) \/ DeepPath(t) \/ Timeout(t)
  PROVE  call'[u] = call[u] /\ deep'[u] = deep[u]
<1> USE DEF TypeOK
<1>1. CASE Admit(t)
  BY <1>1 DEF Admit, FastExitOff, FastExit, DeepPathSkipped, EnterDeepPath, AnswerWithoutDeepPath
<1>2. CASE Timeout(t)
  BY <1>2 DEF Timeout, CatchBlock
<1>3. CASE DeepPath(t)
  BY <1>3 DEF DeepPath, Gathered, ThinkSucceeds, DeepPathThrows, Throw, CatchBlock, Settle, Redirected,
              DeepPathReturns
<1> QED
  BY <1>1, <1>2, <1>3

\* Recording a failure never leaves the breaker half-open.
LEMMA FailureEndsProbe == ASSUME CBTypeOK, RecordFailure PROVE cbState' # "half-open"
BY DEF RecordFailure, Trip, CBTypeOK

LEMMA ProbeStep == TypeOK /\ ProbeOwned /\ [Next]_vars => ProbeOwned'
<1> SUFFICES ASSUME TypeOK, ProbeOwned, [Next]_vars, cbState' = "half-open"
             PROVE  probeInFlight' /\ \E t \in Turn : call'[t] = "waiting" /\ deep'[t] \in {"gather", "think"}
  BY DEF ProbeOwned, Waiting
<1> DEFINE Owner(t) == call[t] = "waiting" /\ deep[t] \in {"gather", "think"}
           Goal == probeInFlight' /\ \E t \in Turn : Owner(t)'
<1>1. ASSUME NEW t \in Turn, EnterDeepPath(t), cbState # "half-open" PROVE Goal
  BY <1>1 DEF EnterDeepPath, Allow, cbVars, TypeOK
<1> SUFFICES ASSUME ~\E t \in Turn : EnterDeepPath(t) /\ cbState # "half-open"
             PROVE  Goal
  BY <1>1
<1>2. cbState = "half-open" /\ UNCHANGED probeInFlight
  <2>1. ASSUME UNCHANGED cbVars \/ Cooldown PROVE UNCHANGED <<cbState, probeInFlight>>
    BY <2>1 DEF cbVars, Cooldown
  <2>2. ~RecordFailure /\ ~RecordSuccess
    BY FailureEndsProbe DEF TypeOK, RecordSuccess
  <2>3. ASSUME NEW t \in Turn, Admit(t) PROVE cbState = "half-open" /\ UNCHANGED probeInFlight
    BY <2>3, <2>1, ProbeOwned DEF Admit, FastExitOff, FastExit, DeepPathSkipped, Reject, EnterDeepPath, Allow,
                      cbVars, ProbeOwned
  <2>4. ASSUME NEW t \in Turn, DeepPath(t) \/ Timeout(t) PROVE UNCHANGED cbVars
    BY <2>4, <2>2 DEF DeepPath, Gathered, ThinkSucceeds, DeepPathThrows, Throw, CatchBlock,
                      Redirected, DeepPathReturns, Timeout
  <2>5. ASSUME Next PROVE cbState = "half-open" /\ UNCHANGED probeInFlight
    BY <2>5, <2>1, <2>3, <2>4 DEF Next, SetConfig, CooldownEnds
  <2> QED
    BY <2>5, <2>1 DEF vars
<1>3. PICK o \in Turn : Owner(o)
  BY <1>2 DEF ProbeOwned, Waiting
<1>4. probeInFlight'
  BY <1>2 DEF ProbeOwned
<1>5. ASSUME NEW t \in Turn, Admit(t) \/ DeepPath(t) \/ Timeout(t) PROVE Owner(o)'
  <2>1. CASE t # o
    BY <1>3, <1>5, <2>1, OthersUntouched
  <2>2. CASE t = o
    <3>1. ~RecordFailure /\ ~RecordSuccess
      BY FailureEndsProbe DEF TypeOK, RecordSuccess
    <3>2. Gathered(o)
      BY <1>3, <1>5, <2>2, <3>1 DEF Admit, FastExitOff, FastExit, DeepPathSkipped, EnterDeepPath, Arrives,
           DeepPath, ThinkSucceeds, DeepPathThrows, Throw, CatchBlock, Redirected, DeepPathReturns, Timeout
    <3> QED
      BY <1>3, <3>2 DEF Gathered, TypeOK
  <2> QED
    BY <2>1, <2>2
<1>6. ASSUME SetConfig \/ CooldownEnds \/ UNCHANGED vars PROVE Owner(o)'
  BY <1>3, <1>6 DEF SetConfig, CooldownEnds, vars, turnVars
<1> QED
  BY <1>4, <1>5, <1>6 DEF Next

\* For every configuration and any number of turns: a half-open breaker always has
\* a caller waiting for its probe, so the timer of that caller ends the period.
THEOREM ProbeNeverLeaks == Spec => []ProbeOwned
<1>1. Init => ProbeOwned
  BY DEF Init, CBInit, ProbeOwned
<1> QED
  BY <1>1, ProbeStep, Typed, PTL DEF Spec

-----------------------------------------------------------------------------
(* One probe at a time *)

\* The strengthening of OneProbe: the callers an open breaker has are those of
\* before the trip, none is left when the cooldown is over, and a half-open breaker
\* has its probe alone.
SoleProbe ==
  CooldownCoversBudget =>
    /\ cbState = "open" => Waiting \subseteq elders
    /\ cbState = "open" /\ cooled => Waiting = {}
    /\ cbState = "half-open" => \E t \in Turn : Waiting = {t} /\ deep[t] \in {"gather", "think"}

LEMMA CatchKeepsSoleProbe ==
  ASSUME TypeOK, ClosedIffBelowThreshold, NEW t \in Turn, call[t] = "waiting", NEW audit,
         CatchBlock(t, audit)
  PROVE  SoleProbe'
<1>1. Waiting' = Waiting \ {t}
  BY DEF CatchBlock, TypeOK, Waiting
<1>2. cbState' # "half-open"
  BY FailureEndsProbe DEF CatchBlock, TypeOK
<1>3. ASSUME cbState' = "open" PROVE ~cooled' /\ elders' = Waiting'
  <2>1. CASE cbState = "half-open"
    BY <1>1, <1>3, <2>1 DEF CatchBlock, RecordFailure, Trip
  <2>2. CASE cbState # "half-open" /\ failures' >= Threshold
    BY <1>1, <1>3, <2>2 DEF CatchBlock, RecordFailure, Trip
  <2>3. CASE cbState # "half-open" /\ ~(failures' >= Threshold)
    BY <1>3, <2>3, ThresholdAssumption
       DEF CatchBlock, RecordFailure, ClosedIffBelowThreshold, TypeOK, CBTypeOK
  <2> QED
    BY <2>1, <2>2, <2>3
<1> QED
  BY <1>2, <1>3 DEF SoleProbe

LEMMA SoleProbeStep ==
  TypeOK /\ ClosedIffBelowThreshold /\ ProbeOwned /\ SoleProbe /\ [Next]_vars => SoleProbe'
<1> SUFFICES ASSUME TypeOK, ClosedIffBelowThreshold, ProbeOwned, SoleProbe, [Next]_vars,
                    CooldownCoversBudget
             PROVE  SoleProbe'
  BY DEF SoleProbe
<1>1. ASSUME UNCHANGED <<cbVars, call, deep, elders>> PROVE SoleProbe'
  BY <1>1 DEF SoleProbe, Waiting, cbVars
<1>2. ASSUME NEW t \in Turn, EnterDeepPath(t) PROVE SoleProbe'
  <2>1. CASE cbState = "closed"
    BY <1>2, <2>1 DEF EnterDeepPath, Allow, cbVars, SoleProbe
  <2>2. CASE cbState # "closed"
    <3>1. cbState' = "half-open" /\ Waiting = {}
      BY <1>2, <2>2 DEF EnterDeepPath, Allow, SoleProbe, ProbeOwned
    <3>2. Waiting' = {t} /\ deep'[t] = "gather"
      BY <1>2, <3>1 DEF EnterDeepPath, Waiting, TypeOK
    <3> QED
      BY <3>1, <3>2 DEF SoleProbe
  <2> QED
    BY <2>1, <2>2
<1>3. ASSUME NEW t \in Turn, Admit(t) PROVE SoleProbe'
  BY <1>1, <1>2, <1>3 DEF Admit, FastExitOff, FastExit, DeepPathSkipped, Reject, AnswerWithoutDeepPath
<1>4. ASSUME NEW t \in Turn, Timeout(t) PROVE SoleProbe'
  BY <1>4, CatchKeepsSoleProbe DEF Timeout
<1>5. ASSUME NEW t \in Turn, ThinkSucceeds(t) PROVE SoleProbe'
  BY <1>5 DEF ThinkSucceeds, RecordSuccess, SoleProbe
<1>6. ASSUME NEW t \in Turn, Gathered(t) \/ Redirected(t) PROVE SoleProbe'
  BY <1>6 DEF Gathered, Redirected, SoleProbe, Waiting, TypeOK, cbVars
<1>7. ASSUME NEW t \in Turn, DeepPathThrows(t) PROVE SoleProbe'
  <2>1. CASE call[t] = "waiting"
    BY <1>7, <2>1, CatchKeepsSoleProbe DEF DeepPathThrows, Throw
  <2>2. CASE call[t] # "waiting"
    BY <1>7, <2>2 DEF DeepPathThrows, Throw, Settle, SoleProbe, Waiting, TypeOK, cbVars
  <2> QED
    BY <2>1, <2>2
<1>8. ASSUME NEW t \in Turn, DeepPathReturns(t) PROVE SoleProbe'
  <2>1. UNCHANGED <<cbState, cooled>> /\ Waiting' = Waiting \ {t} /\ elders' = elders \ {t}
    BY <1>8 DEF DeepPathReturns, Settle, Waiting, TypeOK, cbVars
  <2>2. ASSUME NEW o \in Turn, Waiting = {o}, deep[o] \in {"gather", "think"}
        PROVE  Waiting' = {o} /\ deep'[o] = deep[o]
    BY <1>8, <2>1, <2>2 DEF DeepPathReturns, Settle, TypeOK
  <2> QED
    BY <2>1, <2>2 DEF SoleProbe
<1>9. ASSUME CooldownEnds PROVE SoleProbe'
  BY <1>9 DEF CooldownEnds, Cooldown, SoleProbe, Waiting, turnVars
<1>10. ASSUME SetConfig \/ UNCHANGED vars PROVE SoleProbe'
  BY <1>1, <1>10 DEF SetConfig, vars, turnVars
<1>11. ASSUME Next PROVE SoleProbe'
  BY <1>11, <1>3, <1>4, <1>5, <1>6, <1>7, <1>8, <1>9, <1>10 DEF Next, DeepPath
<1> QED
  BY <1>10, <1>11

\* For every configuration whose cooldown outlasts the decision budget and any number
\* of turns: a half-open breaker has exactly one caller waiting (allow).
THEOREM ProbeIsAlone == Spec => []OneProbe
<1>1. Init => SoleProbe
  BY DEF Init, CBInit, SoleProbe
<1>2. SoleProbe => OneProbe
  BY DEF SoleProbe, OneProbe
<1> QED
  BY <1>1, <1>2, SoleProbeStep, Typed, CounterAgrees, ProbeNeverLeaks, PTL DEF Spec

-----------------------------------------------------------------------------
(* Failures *)

\* For every configuration and any number of turns: a failure is counted only in the
\* step that answers the caller that waited for it (the catch block).
THEOREM FailureChargedOnce == Spec => ChargedOnce
<1> DEFINE Charged == failures' > failures => \E t \in Waiting : Waiting' = Waiting \ {t}
<1>1. ASSUME TypeOK, [Next]_vars PROVE [Charged]_vars
  <2>1. ASSUME NEW t \in Turn, call[t] = "waiting", NEW audit, CatchBlock(t, audit) PROVE Charged
    BY <1>1, <2>1 DEF CatchBlock, Waiting, TypeOK
  <2>2. ASSUME failures' \in {0, failures} PROVE Charged
    BY <1>1, <2>2 DEF TypeOK, CBTypeOK
  <2>3. ASSUME NEW t \in Turn, Admit(t) PROVE Charged
    BY <2>2, <2>3 DEF Admit, FastExitOff, FastExit, DeepPathSkipped, Reject, EnterDeepPath, Allow, cbVars
  <2>4. ASSUME NEW t \in Turn, Timeout(t) PROVE Charged
    BY <2>1, <2>4 DEF Timeout
  <2>5. ASSUME NEW t \in Turn, DeepPath(t) PROVE Charged
    BY <2>1, <2>2, <2>5 DEF DeepPath, Gathered, ThinkSucceeds, RecordSuccess, DeepPathThrows, Throw,
                            Redirected, DeepPathReturns, cbVars
  <2>6. ASSUME SetConfig \/ CooldownEnds PROVE Charged
    BY <2>2, <2>6 DEF SetConfig, CooldownEnds, Cooldown, cbVars
  <2> QED
    BY <1>1, <2>3, <2>4, <2>5, <2>6 DEF Next
<1> QED
  BY <1>1, Typed, PTL DEF Spec, ChargedOnce
=============================================================================

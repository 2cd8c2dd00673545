------------------------------ MODULE EgoLayer ------------------------------
(***************************************************************************)
(* EgoLayer.processDetailed and runDeepPath (ego/src/layer.ts) for         *)
(* concurrent turns that share one breaker, one cost ledger and one        *)
(* config.  A turn has two halves:                                         *)
(*                                                                         *)
(*   call[t]   the caller's await of processDetailed.  It ends when the    *)
(*             deep path settles or when the maxDecisionTimeMs timer wins; *)
(*   deep[t]   the promise of runDeepPath.  withTimeout does not cancel    *)
(*             it, so it goes on after the caller has been answered.       *)
(*                                                                         *)
(* Code between two awaits is one action.  performRedirect is an await     *)
(* that may throw.                                                         *)
(***************************************************************************)
EXTENDS CircuitBreaker

CONSTANTS
  Turn,                 \* slots for the messages in flight, reused
  MaxFailures,          \* bound: no message is admitted beyond this count
  Judgement,            \* the actions the LLM may judge right
  MaxSwitches,          \* bound: setConfig calls that change the EGO state
  MaxCostUsdPerDay,     \* thresholds.maxCostUsdPerDay, in calls' worth
  FallbackOnError,      \* config.fallbackOnError
  AuditMayFail,         \* audit.record may reject (the store is SQLite)
  HasSessions,          \* deps.sessions is wired
  CooldownCoversBudget  \* cooldownMinutes is longer than maxDecisionTimeMs

ASSUME EgoAssumption ==
  /\ Judgement \subseteq {"passthrough", "enrich", "redirect", "direct_response"}
  /\ MaxFailures \in Nat
  /\ MaxSwitches \in Nat
  /\ MaxCostUsdPerDay \in Nat
  /\ {FallbackOnError, AuditMayFail, HasSessions, CooldownCoversBudget}
        \subseteq BOOLEAN

VARIABLES
  egoState,             \* config.state
  switches,             \* setConfig calls so far
  ledger,               \* DailyCostLedger.costUsd
  call, deep,
  answer,               \* what the caller got last
  chosen,               \* the action the deep path settled on
  elders                \* callers waiting since before the breaker last tripped

turnVars == <<call, deep, answer, chosen>>
egoVars == <<egoState, switches, ledger>>
vars == <<cbVars, egoVars, turnVars, elders>>

EgoState == {"off", "passive", "active"}

\* What materializeDecision makes of a judgement; one without its payload passes through.
Action == Judgement \cup {"passthrough"}

TypeOK ==
  /\ CBTypeOK
  /\ egoState \in EgoState
  /\ switches \in Nat
  /\ ledger \in Nat
  /\ call \in [Turn -> {"idle", "waiting"}]
  /\ deep \in [Turn -> {"none", "gather", "think", "capped", "redirect", "audit"}]
  /\ answer \in [Turn -> Action \cup {"none", "error"}]
  /\ chosen \in [Turn -> Action \cup {"none"}]
  /\ elders \subseteq Turn

Init ==
  /\ CBInit
  /\ egoState \in EgoState
  /\ switches = 0
  /\ ledger = 0
  /\ call = [t \in Turn |-> "idle"]
  /\ deep = [t \in Turn |-> "none"]
  /\ answer = [t \in Turn |-> "none"]
  /\ chosen = [t \in Turn |-> "none"]
  /\ elders = {}

Waiting == {t \in Turn : call[t] = "waiting"}

\* A message arrives in a slot whose last turn has run to its end.
Arrives(t) == call[t] = "idle" /\ deep[t] = "none"

-----------------------------------------------------------------------------
(* processDetailed up to its first long await *)

\* audit.record either succeeds or, when the store can fail, rejects.
AuditResult == IF AuditMayFail THEN {"ok", "throws"} ELSE {"ok"}

\* A turn that never enters the deep path is answered at once; its audit record
\* is awaited outside any try, so a rejecting store fails the turn.
AnswerWithoutDeepPath(t, audit) ==
  /\ answer' = [answer EXCEPT ![t] = IF audit = "ok" THEN "passthrough"
                                                       ELSE "error"]
  /\ UNCHANGED <<egoVars, call, deep, chosen, elders>>

\* state = off: no audit, plain passthrough.
FastExitOff(t) ==
  /\ Arrives(t)
  /\ egoState = "off"
  /\ AnswerWithoutDeepPath(t, "ok")
  /\ UNCHANGED cbVars

\* The fast-path rules match.
FastExit(t) ==
  /\ Arrives(t)
  /\ egoState # "off"
  /\ \E audit \in AuditResult : AnswerWithoutDeepPath(t, audit)
  /\ UNCHANGED cbVars

\* The breaker rejects the deep path.
DeepPathSkipped(t) ==
  /\ Arrives(t)
  /\ egoState # "off"
  /\ Reject
  /\ \E audit \in AuditResult : AnswerWithoutDeepPath(t, audit)

\* The breaker lets the turn through: the deep path starts and the timer is set.
EnterDeepPath(t) ==
  /\ Arrives(t)
  /\ egoState # "off"
  /\ failures < MaxFailures
  /\ Allow
  /\ call' = [call EXCEPT ![t] = "waiting"]
  /\ deep' = [deep EXCEPT ![t] = "gather"]
  /\ answer' = [answer EXCEPT ![t] = "none"]
  /\ UNCHANGED <<egoVars, chosen, elders>>

-----------------------------------------------------------------------------
(* The end of a turn *)

\* The catch block of processDetailed: recordFailure, the audit record (awaited
\* inside the catch, so its rejection replaces the fallback), then the fallback.
CatchBlock(t, audit) ==
  /\ RecordFailure
  /\ call' = [call EXCEPT ![t] = "idle"]
  /\ answer' = [answer EXCEPT ![t] =
                   IF FallbackOnError /\ audit = "ok" THEN "passthrough"
                                                      ELSE "error"]
  /\ elders' = IF cbState' = "open" THEN Waiting \ {t} ELSE {}

\* Variant: a timeout is answered without telling the breaker.
TimeoutNotCounted(t) ==
  /\ call[t] = "waiting"
  /\ call' = [call EXCEPT ![t] = "idle"]
  /\ answer' = [answer EXCEPT ![t] = "passthrough"]
  /\ UNCHANGED <<cbVars, egoVars, deep, chosen, elders>>

\* withTimeout's timer wins: the caller is answered, the deep path stays alive.
Timeout(t) ==
  /\ call[t] = "waiting"
  /\ \E audit \in AuditResult : CatchBlock(t, audit)
  /\ UNCHANGED <<egoVars, deep, chosen>>

\* The deep path is over and its slot holds nothing any more.
Settle(t) ==
  /\ deep' = [deep EXCEPT ![t] = "none"]
  /\ chosen' = [chosen EXCEPT ![t] = "none"]

\* Variant: the deep path reports its own failure, waited for or not.
ThrowAlwaysCounted(t) ==
  /\ Settle(t)
  /\ \E audit \in AuditResult : CatchBlock(t, audit)

\* The deep path throws.  Its caller runs the catch block if it still waits;
\* otherwise the race is over and the rejection is dropped.
Throw(t) ==
  /\ Settle(t)
  /\ \/ /\ call[t] = "waiting"
        /\ \E audit \in AuditResult : CatchBlock(t, audit)
     \/ /\ call[t] = "idle"
        /\ UNCHANGED <<cbVars, call, answer, elders>>

-----------------------------------------------------------------------------
(* runDeepPath *)

\* gatherContext, the persona snapshot and the system prompt are ready.
Gathered(t) ==
  /\ deep[t] = "gather"
  /\ deep' = [deep EXCEPT ![t] = "think"]
  /\ UNCHANGED <<cbVars, egoVars, call, answer, chosen, elders>>

\* A step of the deep path throws: the context is not to be had (memory.onTimeout
\* = abort, an unreadable prompt file), llm.think rejects or its answer does not
\* validate, the daily cap was exceeded, performRedirect finds the session gone
\* or its INSERT conflicts, or the audit record of the decision rejects.
DeepPathThrows(t) ==
  /\ \/ deep[t] \in {"gather", "think", "capped", "redirect"}
     \/ deep[t] = "audit" /\ AuditMayFail
  /\ Throw(t)
  /\ UNCHANGED egoVars

\* What the layer books for a call: the adapters report no token counts.
CallCost == 0

\* Variant: the state's name is taken for the action of a layer that only watches.
EffectiveActionConfused(judged) == IF egoState = "active" THEN judged ELSE egoState

\* The judged action takes effect only in the active state: config.state is read
\* here, after the awaits, so a setConfig during the deep path decides.
EffectiveAction(judged) == IF egoState = "active" THEN judged ELSE "passthrough"

\* downgradeState(config.state)
Downgraded == IF egoState = "active" THEN "passive" ELSE "off"

\* A valid answer arrives: recordSuccess, then the cost cap, then the decision,
\* all in one synchronous stretch.
ThinkSucceeds(t) ==
  /\ deep[t] = "think"
  /\ RecordSuccess
  /\ ledger' = ledger + CallCost
  /\ IF ledger' > MaxCostUsdPerDay
     THEN /\ egoState' = Downgraded
          /\ deep' = [deep EXCEPT ![t] = "capped"]
          /\ UNCHANGED chosen
     ELSE \E judged \in Action :     \* a low confidence makes it passthrough
            /\ chosen' = [chosen EXCEPT ![t] = EffectiveAction(judged)]
            /\ deep' = [deep EXCEPT ![t] =
                          IF chosen'[t] = "redirect" /\ HasSessions
                          THEN "redirect" ELSE "audit"]
            /\ UNCHANGED egoState
  /\ elders' = {}
  /\ UNCHANGED <<switches, call, answer>>

\* performRedirect resolves.
Redirected(t) ==
  /\ deep[t] = "redirect"
  /\ deep' = [deep EXCEPT ![t] = "audit"]
  /\ UNCHANGED <<cbVars, egoVars, call, answer, chosen, elders>>

\* The decision is audited and the deep path resolves.  The caller takes its
\* decision if it still waits.
DeepPathReturns(t) ==
  /\ deep[t] = "audit"
  /\ Settle(t)
  /\ \/ /\ call[t] = "waiting"
        /\ call' = [call EXCEPT ![t] = "idle"]
        /\ answer' = [answer EXCEPT ![t] = chosen[t]]
     \/ call[t] = "idle" /\ UNCHANGED <<call, answer>>
  /\ elders' = elders \ {t}
  /\ UNCHANGED <<cbVars, egoVars>>

-----------------------------------------------------------------------------
(* The operator and the clock *)

\* setConfig installs a config with another state.
SetConfig ==
  /\ switches < MaxSwitches
  /\ switches' = switches + 1
  /\ egoState' \in EgoState \ {egoState}
  /\ UNCHANGED <<cbVars, ledger, turnVars, elders>>

\* The cooldown ends.  When it is longer than the decision budget, the timers of
\* the turns that were waiting at the trip have fired by then.
CooldownEnds ==
  /\ Cooldown
  /\ CooldownCoversBudget => elders = {}
  /\ UNCHANGED <<egoVars, turnVars, elders>>

Admit(t) == FastExitOff(t) \/ FastExit(t) \/ DeepPathSkipped(t) \/ EnterDeepPath(t)

DeepPath(t) ==
  \/ Gathered(t) \/ ThinkSucceeds(t) \/ DeepPathThrows(t)
  \/ Redirected(t) \/ DeepPathReturns(t)

Next ==
  \/ \E t \in Turn : Admit(t) \/ DeepPath(t) \/ Timeout(t)
  \/ SetConfig
  \/ CooldownEnds

Spec == Init /\ [][Next]_vars

\* Only the timer is fair: the LLM and the stores behind the deep path may never
\* answer, a timer always fires.
FairSpec == Spec /\ \A t \in Turn : WF_vars(Timeout(t))

-----------------------------------------------------------------------------
(* Properties *)

\* The half-open slot is never leaked (allow, recordFailure and the race of
\* withTimeout): while the breaker is half-open some caller still waits for a
\* probe that has not succeeded, whatever late answers and failures of other
\* turns arrived in between.
ProbeOwned ==
  cbState = "half-open" =>
    probeInFlight /\ \E t \in Waiting : deep[t] \in {"gather", "think"}

\* "allow exactly one probe at a time" (allow), as the callers see it: when the
\* cooldown outlasts the decision budget, a half-open breaker has exactly one
\* caller waiting, and turns admitted before the trip are all answered.
OneProbe == CooldownCoversBudget /\ cbState = "half-open" => \E t \in Turn : Waiting = {t}

\* A turn is charged to the breaker at most once (the catch block of
\* processDetailed): every failure that is counted answers a caller that waited,
\* so a deep path that throws after its timeout is not counted again.
ChargedOnce ==
  [][failures' > failures => \E t \in Waiting : Waiting' = Waiting \ {t}]_vars

\* The circuit-breaker comment: an open breaker leaves "open" through half-open,
\* after its cooldown.
OpenOnlyToHalfOpen ==
  [][cbState = "open" => cbState' \in {"open", "half-open"}]_vars

\* Half-open is always left, even when the LLM never answers again: the timer of
\* the probe is enough (withTimeout around runDeepPath).
HalfOpenResolves == cbState = "half-open" ~> cbState # "half-open"
=============================================================================

--------------------------- MODULE CircuitBreaker ---------------------------
(***************************************************************************)
(* The consecutive-failure breaker in front of the EGO deep path           *)
(* (ego/src/circuit-breaker.ts).  Its methods are synchronous, so each is  *)
(* one action predicate over the breaker's own variables; EgoLayer calls   *)
(* them from the steps of its turns.                                       *)
(*                                                                         *)
(* The clock is abstracted to one bit: `cooled` says that cooldownMinutes  *)
(* have passed since openedAtMs.  Every trip restarts the cooldown.        *)
(***************************************************************************)
EXTENDS Naturals

CONSTANT Threshold      \* onConsecutiveFailures.threshold

ASSUME ThresholdAssumption == Threshold \in Nat \ {0}

VARIABLES
  cbState,              \* "closed" | "open" | "half-open"
  failures,             \* failures since the last success
  probeInFlight,        \* a half-open probe has been let through
  cooled                \* millisUntilHalfOpen() = 0

cbVars == <<cbState, failures, probeInFlight, cooled>>

CircuitState == {"closed", "open", "half-open"}

CBTypeOK ==
  /\ cbState \in CircuitState
  /\ failures \in Nat
  /\ probeInFlight \in BOOLEAN
  /\ cooled \in BOOLEAN

CBInit ==
  /\ cbState = "closed"
  /\ failures = 0
  /\ probeInFlight = FALSE
  /\ cooled = FALSE

\* Variant: the half-open period forgets to reserve its probe.
AllowWithoutReserving ==
  \/ cbState = "closed" /\ UNCHANGED cbVars
  \/ /\ \/ cbState = "open" /\ cooled
        \/ cbState = "half-open" /\ ~probeInFlight
     /\ cbState' = "half-open"
     /\ UNCHANGED <<failures, probeInFlight, cooled>>

\* Variant: a probe is let through whether or not one is out already.
AllowManyProbes ==
  \/ cbState = "closed" /\ UNCHANGED cbVars
  \/ /\ \/ cbState = "open" /\ cooled
        \/ cbState = "half-open"
     /\ cbState' = "half-open"
     /\ probeInFlight' = TRUE
     /\ UNCHANGED <<failures, cooled>>

\* allow() returns true: either the breaker is closed, or its cooldown is over
\* and no probe is out.  An open breaker becomes half-open in the same call,
\* which first forgets any probe of an earlier half-open period.
Allow ==
  \/ cbState = "closed" /\ UNCHANGED cbVars
  \/ /\ \/ cbState = "open" /\ cooled
        \/ cbState = "half-open" /\ ~probeInFlight
     /\ cbState' = "half-open"
     /\ probeInFlight' = TRUE
     /\ UNCHANGED <<failures, cooled>>

\* allow() returns false and changes nothing.
Reject ==
  /\ \/ cbState = "open" /\ ~cooled
     \/ cbState = "half-open" /\ probeInFlight
  /\ UNCHANGED cbVars

\* Variant: the failure count survives a success.
RecordSuccessKeepingCount ==
  /\ cbState' = "closed"
  /\ probeInFlight' = FALSE
  /\ UNCHANGED <<failures, cooled>>

\* recordSuccess() closes the breaker whatever state it is in.
RecordSuccess ==
  /\ cbState' = "closed"
  /\ failures' = 0
  /\ probeInFlight' = FALSE
  /\ UNCHANGED cooled

\* trip(): openedAtMs is now, so the whole cooldown lies ahead.
Trip == cbState' = "open" /\ cooled' = FALSE

\* recordFailure(): in half-open it ends the probe and trips again; otherwise
\* it counts, and trips (also when already open) once the count is reached.
RecordFailure ==
  \/ /\ cbState = "half-open"
     /\ probeInFlight' = FALSE
     /\ Trip
     /\ UNCHANGED failures
  \/ /\ cbState # "half-open"
     /\ failures' = failures + 1
     /\ IF failures' >= Threshold THEN Trip ELSE UNCHANGED <<cbState, cooled>>
     /\ UNCHANGED probeInFlight

\* The wall clock reaches openedAtMs + cooldownMinutes.
Cooldown ==
  /\ cbState = "open"
  /\ ~cooled
  /\ cooled' = TRUE
  /\ UNCHANGED <<cbState, failures, probeInFlight>>

\* The counter and the state never disagree (recordSuccess, recordFailure): only
\* Threshold failures without a success between them take the breaker out of
\* "closed", and nothing but a success brings it back.
ClosedIffBelowThreshold == cbState = "closed" <=> failures < Threshold
=============================================================================

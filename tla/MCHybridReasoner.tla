-------------------------- MODULE MCHybridReasoner --------------------------
EXTENDS HybridReasoner

CONSTANTS a, b, c

S(id, deps, tool) == [id |-> id, deps |-> deps, tool |-> tool]

\* Two free steps and one that needs both; a shorter plan that keeps two of the ids,
\* written in reverse; a repeated id, alone and around a step that needs it; a cycle
\* next to a step whose dependency does not exist.
MCPlans ==
  { <<S(a, {}, TRUE), S(b, {}, TRUE), S(c, {a, b}, TRUE)>>,
    <<S(c, {b}, TRUE), S(b, {}, FALSE)>>,
    <<S(a, {}, TRUE), S(a, {}, TRUE)>>,
    <<S(b, {}, TRUE), S(c, {b}, TRUE), S(b, {a}, TRUE), S(a, {}, FALSE)>>,
    <<S(a, {b}, TRUE), S(b, {a}, FALSE), S(c, {"none"}, FALSE)>> }
=============================================================================

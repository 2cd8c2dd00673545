--------------------------- MODULE ReactExecutor ---------------------------
(***************************************************************************)
(* One run of the ReAct loop (agent-worker/src/reasoning/react-executor.ts):*)
(* the model answers or asks for tools, the tools are called one by one,   *)
(* within a budget of steps and of tool calls.  A run that exhausts its    *)
(* budget is summed up by one more model call.                             *)
(*                                                                         *)
(* Messages, observations and the wording of retries are left out.         *)
(***************************************************************************)
EXTENDS Naturals

CONSTANTS
  MaxSteps,         \* budget.maxSteps
  MaxToolCalls,     \* budget.maxToolCalls
  CallsPerStep      \* bound: tool calls in one answer of the model

ASSUME ReactAssumption ==
  MaxSteps \in Nat \ {0} /\ MaxToolCalls \in Nat /\ CallsPerStep \in Nat \ {0}

VARIABLES
  react,        \* where the run is
  steps,        \* budget.spent.steps
  toolCalls,    \* budget.spent.toolCalls
  calls,        \* the calls of this step that are not made yet
  reason,       \* state.terminationReason of the run that answers
  spoken,       \* the final text comes from the model
  aborted       \* ctx.abortSignal.aborted

reactVars == <<react, steps, toolCalls, calls, reason, spoken>>

\* off: not started.  loop: about to test the loop's condition.  stream: awaiting
\* the model.  tool: awaiting a tool.  sum: awaiting synthesizeFromTrace.
ReactState == {"off", "loop", "stream", "tools", "tool", "sum", "final", "threw"}

Reason == {"none", "final_answer", "user_abort", "max_steps", "tool_exhaustion", "hard_error"}

ReactTypeOK ==
  /\ react \in ReactState
  /\ steps \in 0..MaxSteps
  /\ toolCalls \in 0..MaxToolCalls
  /\ calls \in 0..CallsPerStep
  /\ reason \in Reason
  /\ spoken \in BOOLEAN
  /\ aborted \in BOOLEAN

ReactInit ==
  /\ react = "off"
  /\ steps = 0
  /\ toolCalls = 0
  /\ calls = 0
  /\ reason = "none"
  /\ spoken = FALSE
  /\ aborted \in BOOLEAN

\* run(ctx) of a context without a spent budget.
StartReact == react' = "loop" /\ UNCHANGED <<steps, toolCalls, calls, reason, spoken>>

FinishReact(why, says) == react' = "final" /\ reason' = why /\ spoken' = says

\* The loop ended without an answer: the trace is summed up if a tool was called.
Exhausted(why) ==
  IF toolCalls > 0
  THEN react' = "sum" /\ reason' = why /\ UNCHANGED spoken
  ELSE FinishReact(why, FALSE)

\* The top of the loop.
ReactLoop ==
  /\ react = "loop"
  /\ \/ steps >= MaxSteps /\ Exhausted("max_steps") /\ UNCHANGED steps
     \/ steps < MaxSteps /\ aborted /\ FinishReact("user_abort", FALSE) /\ UNCHANGED steps
     \/ /\ steps < MaxSteps /\ ~aborted
        /\ steps' = steps + 1
        /\ react' = "stream"
        /\ UNCHANGED <<reason, spoken>>
  /\ UNCHANGED <<toolCalls, calls, aborted>>

\* The model's stream ends, is left at a chunk because of the signal, or throws.
StreamEnds ==
  /\ react = "stream"
  /\ \/ aborted /\ FinishReact("user_abort", FALSE) /\ UNCHANGED calls
     \/ FinishReact("final_answer", TRUE) /\ UNCHANGED calls
     \/ /\ calls' \in 1..CallsPerStep
        /\ react' = "tools"
        /\ UNCHANGED <<reason, spoken>>
     \/ react' = "threw" /\ UNCHANGED <<calls, reason, spoken>>
  /\ UNCHANGED <<steps, toolCalls, aborted>>

\* The next call of the step, or the next step.  An exhausted budget drops the
\* calls that are left.
NextCall ==
  /\ react = "tools"
  /\ \/ calls = 0 /\ react' = "loop" /\ UNCHANGED <<toolCalls, calls, reason, spoken>>
     \/ /\ calls > 0 /\ toolCalls >= MaxToolCalls
        /\ Exhausted("tool_exhaustion")
        /\ UNCHANGED <<toolCalls, calls>>
     \/ /\ calls > 0 /\ toolCalls < MaxToolCalls
        /\ toolCalls' = toolCalls + 1
        /\ calls' = calls - 1
        /\ react' = "tool"
        /\ UNCHANGED <<reason, spoken>>
  /\ UNCHANGED <<steps, aborted>>

\* executeTool: a refusal or an error is an observation like any other; the guard
\* and the sandbox may also throw.
ToolAnswers ==
  /\ react = "tool"
  /\ react' \in {"tools", "threw"}
  /\ UNCHANGED <<steps, toolCalls, calls, reason, spoken, aborted>>

\* Variant: the summary is given up, and the run ends with the empty text.
SumUpSilently ==
  /\ react = "sum"
  /\ react' \in {"final", "threw"}
  /\ UNCHANGED <<steps, toolCalls, calls, reason, spoken, aborted>>

\* synthesizeFromTrace
SumUp ==
  /\ react = "sum"
  /\ \/ react' = "final" /\ spoken' = TRUE
     \/ react' = "threw" /\ UNCHANGED spoken
  /\ UNCHANGED <<steps, toolCalls, calls, reason, aborted>>

ReactNext == ReactLoop \/ StreamEnds \/ NextCall \/ ToolAnswers \/ SumUp
=============================================================================

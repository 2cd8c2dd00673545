--------------------------- MODULE WorkflowEngine ---------------------------
(***************************************************************************)
(* The workflow interpreter (workflow/src/engine.ts).  All the activations *)
(* of runStep share one ExecState: the stack of variable frames, the       *)
(* failure, the pending return and the call depth.                         *)
(*                                                                         *)
(* A `parallel` step makes a strand for each child; a strand is a stack of *)
(* activations.  A strand runs synchronously into its steps (it is at the  *)
(* head of `now`) until it awaits a tool or a step ends; the step that     *)
(* awaits the one that ended goes on later, as a microtask, with any other *)
(* strand's work possibly in between.                                      *)
(*                                                                         *)
(* Values are left out: a frame is the strand that pushed it and the       *)
(* strands that wrote into it.  state.failed, error and failedAtStepId are *)
(* set and cleared together and are one variable, the step that failed.    *)
(***************************************************************************)
EXTENDS Naturals, Sequences, FiniteSets

CONSTANTS
  Workflow,         \* the workflows to run: records [entry, steps]
  None,
  MaxCallDepth,     \* options.maxCallDepth
  AbortOnToolError, \* options.abortOnToolError
  MaxStrands        \* bound: strands of a run

\* A workflow names its steps; only a try has handlers, and a try and a scope have a
\* body (schema.ts).
ASSUME WorkflowAssumption ==
  /\ MaxCallDepth \in Nat /\ MaxStrands \in Nat \ {0}
  /\ \A w \in Workflow : LET ids == DOMAIN w.steps IN
       /\ w.entry \in ids /\ None \notin ids
       /\ \A id \in ids :
            /\ w.steps[id].kids \in Seq(ids)
            /\ w.steps[id].kind \in {"try", "scope"} => w.steps[id].kids # <<>>
            /\ {w.steps[id].catch, w.steps[id].finally} \subseteq ids \cup {None}
            /\ w.steps[id].kind # "try" => w.steps[id].catch = None /\ w.steps[id].finally = None

VARIABLES
  wf,               \* the workflow that runs
  scopes,           \* state.scopes: records [owner, writers]
  failedAt,         \* state.failedAtStepId; None when state.failed is false
  returning,        \* state.returning
  callDepth,        \* state.callDepth
  now,              \* the strands that run synchronously, in order
  mode,             \* what a strand does
  stack,            \* its activations: records [step, at, i, kept]
  parent,           \* the strand whose parallel step it is a child of
  uncaught          \* a step failed that no enclosing try has a catch for

shared == <<scopes, failedAt, returning, callDepth>>
strands == <<now, mode, stack, parent>>
vars == <<wf, shared, strands, uncaught>>

Strand == 1..MaxStrands
Steps == DOMAIN wf.steps

\* unborn; run: in `now`; tool: awaiting a tool; resume: its top activation
\* awaits a promise that is settled; join: awaiting Promise.all; done.
Mode == {"unborn", "run", "tool", "resume", "join", "done"}
At == {"enter", "body", "catch", "finally"}

Frame == [owner : Strand, writers : SUBSET Strand]

TypeOK ==
  /\ wf \in Workflow
  /\ scopes \in Seq(Frame)
  /\ failedAt \in Steps \cup {None}
  /\ returning \in BOOLEAN
  /\ callDepth \in 0..MaxCallDepth
  /\ now \in Seq(Strand)
  /\ mode \in [Strand -> Mode]
  /\ parent \in [Strand -> Strand]
  /\ uncaught \in BOOLEAN
  /\ \A s \in Strand :
       \A i \in DOMAIN stack[s] : stack[s][i].step \in Steps /\ stack[s][i].at \in At

Activation(step) ==
  [step |-> step, at |-> "enter", i |-> 1,
   kept |-> [failedAt |-> None, returning |-> FALSE]]

Init ==
  /\ wf \in Workflow
  /\ scopes = <<[owner |-> 1, writers |-> {}]>>
  /\ failedAt = None
  /\ returning = FALSE
  /\ callDepth = 0
  /\ now = <<1>>
  /\ mode = [s \in Strand |-> IF s = 1 THEN "run" ELSE "unborn"]
  /\ stack = [s \in Strand |-> IF s = 1 THEN <<Activation(wf.entry)>> ELSE <<>>]
  /\ parent = [s \in Strand |-> 1]
  /\ uncaught = FALSE

failed == failedAt # None
Top(s) == stack[s][Len(stack[s])]
StepOf(s) == wf.steps[Top(s).step]

\* A strand goes on when its turn in `now` has come, or as a microtask when
\* nothing runs.
Running(s) == now # <<>> /\ Head(now) = s
Resumed(s) == now = <<>> /\ mode[s] = "resume"

-----------------------------------------------------------------------------
(* What a strand does next *)

\* s awaits runStep(child) and runs into it, leaving its own activation as `act`.
Await(s, act, child) ==
  /\ stack' = [stack EXCEPT ![s] = Append([@ EXCEPT ![Len(@)] = act], Activation(child))]
  /\ mode' = [mode EXCEPT ![s] = "run"]
  /\ now' = IF Running(s) THEN now ELSE <<s>>
  /\ UNCHANGED <<wf, parent>>

AwaitAt(s, at, child) == Await(s, [Top(s) EXCEPT !.at = at], child)

\* ... the i-th of its children.
AwaitKid(s, i) == Await(s, [Top(s) EXCEPT !.at = "body", !.i = i], StepOf(s).kids[i])

\* The top activation's promise is resolved.
Settle(s) ==
  /\ stack' = [stack EXCEPT ![s] = SubSeq(@, 1, Len(@) - 1)]
  /\ mode' = [mode EXCEPT ![s] = IF Len(stack[s]) = 1 THEN "done" ELSE "resume"]
  /\ now' = IF Running(s) THEN Tail(now) ELSE now
  /\ UNCHANGED <<wf, parent>>

\* The strands whose awaits enclose what s does: s and its parents up to the first.
Enclosing(s) ==
  {t \in Strand : \A up \in SUBSET Strand :
     s \in up /\ (\A u \in up \ {1} : parent[u] \in up) => t \in up}

\* Some enclosing try will catch a failure of what s does.
Catches(act) == act.at = "body" /\ wf.steps[act.step].catch # None
Caught(s) == \E a \in Enclosing(s) : \E i \in DOMAIN stack[a] : Catches(stack[a][i])

\* state.failed = true, with the step's id.
Fail(s) ==
  /\ failedAt' = Top(s).step
  /\ uncaught' = (uncaught \/ ~Caught(s))

NoFailure == UNCHANGED <<failedAt, uncaught>>

Push(stackOfFrames, s) == Append(stackOfFrames, [owner |-> s, writers |-> {}])
Pop(frames) == SubSeq(frames, 1, Len(frames) - 1)

\* writeVar: into the topmost frame, whoever pushed it.
Write(frames, s) == [frames EXCEPT ![Len(frames)].writers = @ \cup {s}]

-----------------------------------------------------------------------------
(* runStep up to its first await *)

Enters(s) == Running(s) /\ Top(s).at = "enter"
Begins(s, kind) == Enters(s) /\ ~failed /\ ~returning /\ StepOf(s).kind = kind

\* A failure or a pending return short-circuits.
SkipStep(s) ==
  /\ Enters(s)
  /\ failed \/ returning
  /\ Settle(s)
  /\ UNCHANGED <<shared, uncaught>>

BeginToolCall(s) ==
  /\ Begins(s, "tool_call")
  /\ stack' = [stack EXCEPT ![s][Len(stack[s])].at = "body"]
  /\ mode' = [mode EXCEPT ![s] = "tool"]
  /\ now' = Tail(now)
  /\ UNCHANGED <<wf, parent, shared, uncaught>>

SetVar(s) ==
  /\ Begins(s, "set_var")
  /\ scopes' = Write(scopes, s)
  /\ Settle(s)
  /\ UNCHANGED <<failedAt, returning, callDepth, uncaught>>

Return(s) ==
  /\ Begins(s, "return")
  /\ returning' = TRUE
  /\ Settle(s)
  /\ UNCHANGED <<scopes, callDepth, failedAt, uncaught>>

BeginSequence(s) ==
  /\ Begins(s, "sequence")
  /\ IF StepOf(s).kids = <<>> THEN Settle(s) ELSE AwaitKid(s, 1)
  /\ UNCHANGED <<shared, uncaught>>

\* The condition is data: it may hold or not.
BeginBranch(s) ==
  /\ Begins(s, "branch")
  /\ \E i \in 1..2 :
       IF i \in DOMAIN StepOf(s).kids THEN AwaitKid(s, i) ELSE Settle(s)
  /\ UNCHANGED <<shared, uncaught>>

\* steps.map starts the children one after the other, each up to its first await.
BeginParallel(s) ==
  LET kids == StepOf(s).kids
      born == Cardinality({t \in Strand : mode[t] # "unborn"})
      kid(i) == born + i
  IN
  /\ Begins(s, "parallel")
  /\ born + Len(kids) <= MaxStrands
  /\ now' = [i \in 1..Len(kids) |-> kid(i)] \o Tail(now)
  /\ mode' = [t \in Strand |->
       IF t = s THEN "join" ELSE IF t - born \in DOMAIN kids THEN "run" ELSE mode[t]]
  /\ stack' = [t \in Strand |->
       IF t = s THEN [stack[s] EXCEPT ![Len(stack[s])].at = "body"]
       ELSE IF t - born \in DOMAIN kids THEN <<Activation(kids[t - born])>> ELSE stack[t]]
  /\ parent' = [t \in Strand |-> IF t > born /\ t - born \in DOMAIN kids THEN s ELSE parent[t]]
  /\ UNCHANGED <<wf, shared, uncaught>>

BeginTry(s) ==
  /\ Begins(s, "try")
  /\ AwaitKid(s, 1)
  /\ UNCHANGED <<shared, uncaught>>

BeginScope(s) ==
  /\ Begins(s, "scope")
  /\ scopes' = Push(scopes, s)
  /\ AwaitKid(s, 1)
  /\ UNCHANGED <<failedAt, returning, callDepth, uncaught>>

\* Variant: one level more than maxCallDepth.
DepthAllowsOneMore == callDepth <= MaxCallDepth

DepthAllows == callDepth < MaxCallDepth

\* runCall: an unknown function and a call too deep fail the step.  runStep's guard
\* has just seen state.returning false, so saving the caller's has no effect.
BeginCall(s) ==
  /\ Begins(s, "call")
  /\ \/ /\ StepOf(s).kids # <<>> /\ DepthAllows
        /\ scopes' = Push(scopes, s)
        /\ callDepth' = callDepth + 1
        /\ AwaitKid(s, 1)
        /\ NoFailure
     \/ /\ StepOf(s).kids = <<>> \/ ~DepthAllows
        /\ Fail(s)
        /\ Settle(s)
        /\ UNCHANGED <<scopes, callDepth>>
  /\ UNCHANGED returning

-----------------------------------------------------------------------------
(* runStep after an await *)

GoesOn(s, kind) == Resumed(s) /\ StepOf(s).kind = kind

\* The tool adapter answers, reports a failure or throws.
ToolSettles(s) ==
  /\ now = <<>> /\ mode[s] = "tool"
  /\ \E outcome \in {"success", "failure", "throws"} :
       /\ scopes' = IF outcome # "throws" /\ StepOf(s).saves THEN Write(scopes, s) ELSE scopes
       /\ IF outcome = "throws" \/ (outcome = "failure" /\ AbortOnToolError)
          THEN Fail(s) ELSE NoFailure
  /\ Settle(s)
  /\ UNCHANGED <<returning, callDepth>>

GoOnSequence(s) ==
  /\ GoesOn(s, "sequence")
  /\ IF failed \/ returning \/ Top(s).i = Len(StepOf(s).kids)
     THEN Settle(s)
     ELSE AwaitKid(s, Top(s).i + 1)
  /\ UNCHANGED <<shared, uncaught>>

GoOnBranch(s) ==
  /\ GoesOn(s, "branch")
  /\ Settle(s)
  /\ UNCHANGED <<shared, uncaught>>

\* Variant: Promise.all rejects a failed parallel step and nobody goes on.
JoinOnlyClean(s) ==
  /\ now = <<>> /\ mode[s] = "join" /\ ~failed
  /\ \A t \in Strand : t # s /\ parent[t] = s => mode[t] \in {"unborn", "done"}
  /\ Settle(s)
  /\ UNCHANGED <<shared, uncaught>>

\* Promise.all: runStep never rejects, so all the children are awaited.
Join(s) ==
  /\ now = <<>> /\ mode[s] = "join"
  /\ \A t \in Strand : t # s /\ parent[t] = s => mode[t] \in {"unborn", "done"}
  /\ Settle(s)
  /\ UNCHANGED <<shared, uncaught>>

\* Variant: the frame is popped on the way of success only.
EndScopeOnSuccess(s) ==
  /\ GoesOn(s, "scope")
  /\ scopes' = IF failed THEN scopes ELSE Pop(scopes)
  /\ Settle(s)
  /\ UNCHANGED <<failedAt, returning, callDepth, uncaught>>

EndScope(s) ==
  /\ GoesOn(s, "scope")
  /\ scopes' = Pop(scopes)
  /\ Settle(s)
  /\ UNCHANGED <<failedAt, returning, callDepth, uncaught>>

EndCall(s) ==
  /\ GoesOn(s, "call")
  /\ scopes' = IF StepOf(s).saves /\ ~failed THEN Write(Pop(scopes), s) ELSE Pop(scopes)
  /\ callDepth' = callDepth - 1
  /\ returning' = FALSE
  /\ Settle(s)
  /\ UNCHANGED <<failedAt, uncaught>>

\* What runTry puts aside before finally.
Aside == [failedAt |-> failedAt, returning |-> returning]

\* Variant: the flags are kept, so that finally is short-circuited like any step.
FinallyKeepingFlags(s) ==
  IF StepOf(s).finally = None
  THEN Settle(s) /\ UNCHANGED <<failedAt, returning>>
  ELSE /\ Await(s, [Top(s) EXCEPT !.at = "finally", !.kept = Aside], StepOf(s).finally)
       /\ UNCHANGED <<failedAt, returning>>

\* finally runs with the failure and the pending return put aside.
Finally(s) ==
  IF StepOf(s).finally = None
  THEN Settle(s) /\ UNCHANGED <<failedAt, returning>>
  ELSE /\ Await(s, [Top(s) EXCEPT !.at = "finally", !.kept = Aside], StepOf(s).finally)
       /\ failedAt' = None
       /\ returning' = FALSE

\* The body of a try has ended.  A failure is cleared for the catch handler, which
\* gets a frame of its own; without a handler it stays.
EndBody(s) ==
  /\ GoesOn(s, "try") /\ Top(s).at = "body"
  /\ IF failed /\ StepOf(s).catch # None
     THEN /\ failedAt' = None
          /\ scopes' = Push(scopes, s)
          /\ AwaitAt(s, "catch", StepOf(s).catch)
          /\ UNCHANGED returning
     ELSE Finally(s) /\ UNCHANGED scopes
  /\ UNCHANGED <<callDepth, uncaught>>

EndCatch(s) ==
  /\ GoesOn(s, "try") /\ Top(s).at = "catch"
  /\ scopes' = Pop(scopes)
  /\ Finally(s)
  /\ UNCHANGED <<callDepth, uncaught>>

\* Variant: a clean finally wipes out the failure it was entered with.
EndFinallyRescuing(s) ==
  /\ GoesOn(s, "try") /\ Top(s).at = "finally"
  /\ returning' = IF failed THEN returning ELSE Top(s).kept.returning
  /\ Settle(s)
  /\ UNCHANGED <<scopes, callDepth, failedAt, uncaught>>

\* A clean finally restores what was put aside; a failed one wins.
EndFinally(s) ==
  /\ GoesOn(s, "try") /\ Top(s).at = "finally"
  /\ IF failed
     THEN UNCHANGED <<failedAt, returning>>
     ELSE failedAt' = Top(s).kept.failedAt /\ returning' = Top(s).kept.returning
  /\ Settle(s)
  /\ UNCHANGED <<scopes, callDepth, uncaught>>

-----------------------------------------------------------------------------

Begin(s) ==
  \/ SkipStep(s) \/ BeginToolCall(s) \/ SetVar(s) \/ Return(s) \/ BeginSequence(s)
  \/ BeginBranch(s) \/ BeginParallel(s) \/ BeginTry(s) \/ BeginScope(s) \/ BeginCall(s)

GoOn(s) ==
  \/ ToolSettles(s) \/ GoOnSequence(s) \/ GoOnBranch(s) \/ Join(s) \/ EndScope(s)
  \/ EndCall(s) \/ EndBody(s) \/ EndCatch(s) \/ EndFinally(s)

Next == \E s \in Strand : Begin(s) \/ GoOn(s)

Spec == Init /\ [][Next]_vars

\* The event loop runs every microtask, and every tool call settles.
FairSpec == Spec /\ WF_vars(Next)

-----------------------------------------------------------------------------
(* Properties *)

Ended == mode[1] = "done"
Activations == UNION {{s} \X DOMAIN stack[s] : s \in Strand}
ActivationOf(a) == stack[a[1]][a[2]]
KindOf(a) == wf.steps[ActivationOf(a).step].kind

\* The variable frames and the call depth are given back on every way out of a
\* step, also when parallel branches fail, return and catch in any order: there is
\* one frame for the root and one for each scope, call and catch handler under way
\* (the finally blocks of runStep, runCall and runTry).
FramesBalanced ==
  LET calls == {a \in Activations : KindOf(a) = "call" /\ ActivationOf(a).at = "body"}
      others == {a \in Activations :
                   \/ KindOf(a) = "scope" /\ ActivationOf(a).at = "body"
                   \/ KindOf(a) = "try" /\ ActivationOf(a).at = "catch"}
  IN /\ Len(scopes) = 1 + Cardinality(calls) + Cardinality(others)
     /\ callDepth = Cardinality(calls)

\* A failure that no enclosing try catches fails the workflow, and a caught one does
\* not, through any nesting of catch and finally (runTry); of workflows without
\* parallel steps.
Sequential == \A id \in Steps : wf.steps[id].kind # "parallel"
FailureAccounted == Sequential /\ Ended => (failed <=> uncaught)

\* finally runs regardless (runTry), of failures and returns of any branch: a try
\* is left from its finally step only, and that step is not short-circuited.
Leaves(s) == stack[s] # <<>> /\ Len(stack'[s]) < Len(stack[s])
FinallyRuns ==
  [][\A s \in Strand : Leaves(s) =>
       /\ StepOf(s).finally # None => Top(s).at \in {"enter", "finally"}
       /\ Len(stack[s]) > 1 /\ stack[s][Len(stack[s]) - 1].at = "finally"
            => ~(Top(s).at = "enter" /\ (failed \/ returning))]_vars

\* Every workflow ends, whatever its recursion (maxCallDepth).
Terminates == <>Ended

\* The comment of writeVar: outer frames are never mutated, which is what makes
\* `scope` and `call` isolating: only the strand that pushed a frame and the
\* branches it awaits write into it.
WriteIsolated ==
  \A i \in DOMAIN scopes : \A s \in scopes[i].writers : scopes[i].owner \in Enclosing(s)
=============================================================================

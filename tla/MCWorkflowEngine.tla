-------------------------- MODULE MCWorkflowEngine --------------------------
(* Workflows that nest what the engine treats specially. *)
EXTENDS WorkflowEngine, TLC

CONSTANTS none

Step(kind, kids) ==
  [kind |-> kind, kids |-> kids, catch |-> none, finally |-> none, saves |-> FALSE]
Tool == [Step("tool_call", <<>>) EXCEPT !.saves = TRUE]
Try(body, catch, finally) ==
  [Step("try", <<body>>) EXCEPT !.catch = catch, !.finally = finally]

\* A try around a call, whose function returns early out of a scope, with a catch
\* and a finally that may fail; it is the body of a try without a handler.
Nested ==
  [entry |-> "outer",
   steps |-> "outer" :> Try("inner", none, "last") @@ "inner" :> Try("two", "c", "f")
          @@ "two" :> Step("sequence", <<"call", "t">>) @@ "t" :> Tool
          @@ "call" :> [Step("call", <<"fn">>) EXCEPT !.saves = TRUE]
          @@ "fn" :> Step("scope", <<"early">>)
          @@ "early" :> Step("sequence", <<"u", "maybe", "v">>) @@ "u" :> Tool
          @@ "maybe" :> Step("branch", <<"ret">>) @@ "ret" :> Step("return", <<>>)
          @@ "v" :> Tool @@ "c" :> Tool @@ "f" :> Tool @@ "last" :> Tool]

\* A function that calls itself until the depth limit; the finally returns.
Recursive ==
  [entry |-> "try",
   steps |-> "try" :> Try("fn", "oops", "bye") @@ "fn" :> Step("sequence", <<"set", "if">>)
          @@ "set" :> Step("set_var", <<>>) @@ "if" :> Step("branch", <<"again", "missing">>)
          @@ "again" :> Step("call", <<"fn">>) @@ "missing" :> Step("call", <<>>)
          @@ "oops" :> Step("set_var", <<>>) @@ "bye" :> Step("return", <<>>)]

\* Branches that scope, call and catch next to each other.
Parallel ==
  [entry |-> "all",
   steps |-> "all" :> Step("parallel", <<"scope", "call", "try">>)
          @@ "scope" :> Step("scope", <<"t">>) @@ "t" :> Tool
          @@ "call" :> Step("call", <<"fn">>) @@ "fn" :> Step("sequence", <<"u", "ret">>)
          @@ "u" :> Tool @@ "ret" :> Step("return", <<>>)
          @@ "try" :> Try("v", "w", "x") @@ "v" :> Tool @@ "w" :> Tool @@ "x" :> Tool]

MCWorkflow == {Nested, Recursive, Parallel}
=============================================================================

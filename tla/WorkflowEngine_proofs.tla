------------------------ MODULE WorkflowEngine_proofs ------------------------
(***************************************************************************)
(* What the workflow engine promises for every workflow, every depth limit *)
(* and any number of strands.  The inductive invariant, EngineInv, says    *)
(*   - where each activation of a strand may be, by the kind of its step   *)
(*     and by what its strand does (Shape);                                *)
(*   - that a strand waits once in `now` and strands are born in order     *)
(*     (Scheduled): what `parallel` starts is new;                         *)
(*   - that the frames and the call depth are those of the scopes, calls   *)
(*     and catch handlers under way (Balanced), which needs Shape to know  *)
(*     what the activation that ends was holding;                          *)
(*   - that a step started by finally is next to run, with no failure and  *)
(*     no return pending (Clean).                                          *)
(* Without parallel steps a second one, AccountInv, says of a failure that *)
(* nobody catches where it is: current, or put aside in some finally.      *)
(***************************************************************************)
EXTENDS WorkflowEngine, SequenceTheorems, FiniteSetTheorems, TLAPS

Kept == [failedAt : Steps \cup {None}, returning : BOOLEAN]
Act == [step : Steps, at : At, i : Nat, kept : Kept]
StepOfAct(act) == wf.steps[act.step]

StrandsTyped ==
  /\ wf \in Workflow
  /\ now \in Seq(Strand)
  /\ mode \in [Strand -> Mode]
  /\ parent \in [Strand -> Strand]
  /\ stack \in [Strand -> Seq(Act)]

\* Where an activation may be, by the kind of its step.
ActOK(act) ==
  /\ act.at \in {"catch", "finally"} => StepOfAct(act).kind = "try"
  /\ StepOfAct(act).kind = "sequence" /\ act.at = "body" =>
       act.i \in 1..Len(StepOfAct(act).kids)

\* The activations below the top one await; the top one is where its mode says.
StrandOK(st, m) ==
  /\ Len(st) = 0 <=> m \in {"unborn", "done"}
  /\ \A i \in 1..Len(st) : ActOK(st[i]) /\ (i < Len(st) => st[i].at # "enter")
  /\ m = "run" => st[Len(st)].at = "enter"
  /\ m = "tool" => st[Len(st)].at = "body" /\ StepOfAct(st[Len(st)]).kind = "tool_call"
  /\ m = "join" => st[Len(st)].at = "body" /\ StepOfAct(st[Len(st)]).kind = "parallel"
  /\ m = "resume" => st[Len(st)].at # "enter"

Shape == \A s \in Strand : StrandOK(stack[s], mode[s])

\* A strand waits once in `now`, and strands are born in order.
Scheduled ==
  /\ \A i \in 1..Len(now) : mode[now[i]] = "run"
  /\ \A i, j \in 1..Len(now) : now[i] = now[j] => i = j
  /\ \E n \in 1..MaxStrands : \A t \in Strand : mode[t] = "unborn" <=> t > n

StrandInv == StrandsTyped /\ Shape /\ Scheduled

\* It is for s to go on: it is at the head of `now`, or nothing runs.
HasTurn(s) == Running(s) \/ now = <<>>

-----------------------------------------------------------------------------
(* What a strand does next *)

LEMMA Pops ==
  ASSUME NEW S, NEW q \in Seq(S), Len(q) \in Nat \ {0}
  PROVE  /\ SubSeq(q, 1, Len(q) - 1) \in Seq(S)
         /\ Len(SubSeq(q, 1, Len(q) - 1)) = Len(q) - 1
         /\ \A i \in 1..(Len(q) - 1) : SubSeq(q, 1, Len(q) - 1)[i] = q[i]
<1> DEFINE m == Len(q) - 1
<1>1. m \in Nat /\ m \in Int /\ 1 \in Int /\ m - 1 + 1 = m
  OBVIOUS
<1>2. \A i \in 1..m : q[i] \in S
  BY ElementOfSeq
<1>3. /\ SubSeq(q, 1, m) \in Seq(S)
      /\ Len(SubSeq(q, 1, m)) = IF 1 <= m THEN m - 1 + 1 ELSE 0
      /\ \A i \in 1..(m - 1 + 1) : SubSeq(q, 1, m)[i] = q[1 + i - 1]
  <2> HIDE DEF m
  <2> QED
    BY <1>1, <1>2, SubSeqProperties
<1>4. \A i \in 1..m : 1 + i - 1 = i
  BY <1>1
<1> QED
  BY <1>1, <1>3, <1>4

\* Steps keep the workflow, so what a strand must be is what it must be before.
LEMMA ShapeNext ==
  ASSUME wf' = wf PROVE Shape' <=> \A s \in Strand : StrandOK(stack'[s], mode'[s])
BY DEF Shape, StrandOK, ActOK, StepOfAct

LEMMA ActNext ==
  ASSUME wf' = wf PROVE Act' = Act
BY DEF Act, Kept, Steps

LEMMA TopTyped ==
  ASSUME StrandInv, NEW s \in Strand, mode[s] \notin {"unborn", "done"}
  PROVE  /\ stack[s] \in Seq(Act) /\ Len(stack[s]) \in Nat \ {0}
         /\ Top(s) \in Act /\ ActOK(Top(s))
<1>1. stack[s] \in Seq(Act) /\ Len(stack[s]) \in Nat /\ Len(stack[s]) # 0
  BY LenProperties DEF StrandInv, StrandsTyped, Shape, StrandOK
<1>2. Len(stack[s]) \in 1..Len(stack[s])
  BY <1>1
<1> QED
  BY <1>1, <1>2, ElementOfSeq DEF Top, StrandInv, Shape, StrandOK

\* A running strand has just entered a step; a resumed one has not.
LEMMA RunningRuns ==
  ASSUME StrandInv, NEW s \in Strand, Running(s)
  PROVE  mode[s] = "run" /\ now[1] = s /\ Len(now) \in Nat \ {0}
<1>1. now \in Seq(Strand) /\ now # <<>>
  BY DEF Running, StrandInv, StrandsTyped
<1>2. Len(now) \in Nat \ {0}
  BY <1>1, EmptySeq
<1>3. now[1] = s
  BY <1>1 DEF Running
<1> QED
  BY <1>2, <1>3 DEF StrandInv, Scheduled

\* The rest of `now` is scheduled still, whatever becomes of the head.
LEMMA TailScheduled ==
  ASSUME StrandInv, NEW s \in Strand, Running(s)
  PROVE  /\ Tail(now) \in Seq(Strand) /\ Len(Tail(now)) = Len(now) - 1
         /\ \A i \in 1..Len(Tail(now)) : Tail(now)[i] # s /\ mode[Tail(now)[i]] = "run"
         /\ \A i, j \in 1..Len(Tail(now)) : Tail(now)[i] = Tail(now)[j] => i = j
<1>1. now \in Seq(Strand) /\ now # <<>>
  BY DEF Running, StrandInv, StrandsTyped
<1>2. /\ Tail(now) \in Seq(Strand) /\ Len(Tail(now)) = Len(now) - 1
      /\ \A i \in 1..Len(Tail(now)) : Tail(now)[i] = now[i + 1]
  BY <1>1, HeadTailProperties
<1>3. now[1] = s /\ Len(now) \in Nat \ {0}
  BY RunningRuns
<1>4. \A i \in 1..Len(Tail(now)) : i + 1 \in 1..Len(now) /\ i + 1 # 1 /\ 1 \in 1..Len(now)
  BY <1>2, <1>3
<1> QED
  BY <1>2, <1>3, <1>4 DEF StrandInv, Scheduled

LEMMA SettleEffect ==
  ASSUME StrandInv, NEW s \in Strand, mode[s] \notin {"unborn", "done"}, HasTurn(s), Settle(s)
  PROVE  /\ StrandInv' /\ wf' = wf
         /\ \A t \in Strand \ {s} : stack'[t] = stack[t] /\ mode'[t] = mode[t]
         /\ Len(stack'[s]) = Len(stack[s]) - 1
         /\ \A i \in 1..(Len(stack[s]) - 1) : stack'[s][i] = stack[s][i]
         /\ mode'[s] # "run"
<1> DEFINE n == Len(stack[s])
<1>1. stack[s] \in Seq(Act) /\ n \in Nat \ {0}
  BY TopTyped
<1>2. wf' = wf /\ parent' = parent
  BY DEF Settle
<1>3. stack \in [Strand -> Seq(Act)] /\ mode \in [Strand -> Mode]
  BY DEF StrandInv, StrandsTyped
<1>4. /\ stack'[s] = SubSeq(stack[s], 1, n - 1)
      /\ mode'[s] = IF n = 1 THEN "done" ELSE "resume"
      /\ \A t \in Strand \ {s} : stack'[t] = stack[t] /\ mode'[t] = mode[t]
  BY <1>3 DEF Settle
<1>5. /\ stack'[s] \in Seq(Act)
      /\ Len(stack'[s]) = n - 1
      /\ \A i \in 1..(n - 1) : stack'[s][i] = stack[s][i]
  BY <1>1, <1>4, Pops
<1>6. /\ now' \in Seq(Strand)
      /\ \A i \in 1..Len(now') : now'[i] # s /\ mode[now'[i]] = "run"
      /\ \A i, j \in 1..Len(now') : now'[i] = now'[j] => i = j
  <2>1. CASE Running(s)
    BY <2>1, TailScheduled DEF Settle
  <2>2. CASE ~Running(s)
    BY <2>2, EmptySeq DEF Settle, HasTurn, StrandInv, StrandsTyped
  <2> QED
    BY <2>1, <2>2
<1>7. StrandsTyped'
  <2>1. stack' \in [Strand -> Seq(Act)] /\ mode' \in [Strand -> Mode]
    BY <1>3, <1>4, <1>5 DEF Settle, Mode
  <2> QED
    BY <1>2, <1>6, <2>1, ActNext DEF StrandInv, StrandsTyped
<1>8. StrandOK(stack'[s], mode'[s])
  <2>1. \A i \in 1..(n - 1) : i \in 1..n /\ i < n
    BY <1>1
  <2>2. \A i \in 1..(n - 1) : ActOK(stack'[s][i]) /\ stack'[s][i].at # "enter"
    BY <1>5, <2>1 DEF StrandInv, Shape, StrandOK
  <2>3. CASE n = 1
    BY <2>3, <2>2, <1>4, <1>5 DEF StrandOK
  <2>4. CASE n # 1
    <3>1. n - 1 \in 1..(n - 1) /\ n - 1 # 0
      <4> HIDE DEF n
      <4> QED
        BY <2>4, <1>1
    <3>2. mode'[s] = "resume"
      BY <2>4, <1>4
    <3> QED
      BY <3>1, <3>2, <2>2, <1>5 DEF StrandOK
  <2> QED
    BY <2>3, <2>4
<1>9. Shape'
  BY <1>2, <1>4, <1>8, ShapeNext DEF StrandInv, Shape
<1>10. Scheduled'
  <2>1. \A i \in 1..Len(now') : mode'[now'[i]] = "run"
    BY <1>4, <1>6, ElementOfSeq
  <2>2. PICK k \in 1..MaxStrands : \A t \in Strand : mode[t] = "unborn" <=> t > k
    BY DEF StrandInv, Scheduled
  <2>3. \A t \in Strand : mode'[t] = "unborn" <=> mode[t] = "unborn"
    BY <1>4
  <2> QED
    BY <1>6, <2>1, <2>2, <2>3 DEF Scheduled
<1>11. mode'[s] # "run"
  BY <1>4
<1> QED
  BY <1>2, <1>4, <1>5, <1>7, <1>9, <1>10, <1>11 DEF StrandInv

LEMMA AwaitEffect ==
  ASSUME StrandInv, NEW s \in Strand, mode[s] \notin {"unborn", "done"}, HasTurn(s),
         NEW act \in Act, ActOK(act), act.at # "enter", NEW child \in Steps,
         Await(s, act, child)
  PROVE  /\ StrandInv' /\ wf' = wf
         /\ \A t \in Strand \ {s} : stack'[t] = stack[t] /\ mode'[t] = mode[t]
         /\ Len(stack'[s]) = Len(stack[s]) + 1
         /\ \A i \in 1..(Len(stack[s]) - 1) : stack'[s][i] = stack[s][i]
         /\ stack'[s][Len(stack[s])] = act
         /\ stack'[s][Len(stack[s]) + 1] = Activation(child)
         /\ mode'[s] = "run" /\ now' # <<>> /\ Head(now') = s
         /\ ~Running(s) => now' = <<s>>
<1> DEFINE n == Len(stack[s])
           below == [stack[s] EXCEPT ![n] = act]
           top == Activation(child)
<1>1. stack[s] \in Seq(Act) /\ n \in Nat \ {0}
  BY TopTyped
<1>2. wf' = wf /\ parent' = parent /\ mode' = [mode EXCEPT ![s] = "run"]
      /\ now' = (IF Running(s) THEN now ELSE <<s>>)
      /\ stack' = [stack EXCEPT ![s] = Append(below, top)]
  BY DEF Await
<1>3. stack \in [Strand -> Seq(Act)] /\ mode \in [Strand -> Mode]
  BY DEF StrandInv, StrandsTyped
<1>4. /\ stack'[s] = Append(below, top)
      /\ mode'[s] = "run"
      /\ \A t \in Strand \ {s} : stack'[t] = stack[t] /\ mode'[t] = mode[t]
  BY <1>2, <1>3
<1>5. top \in Act /\ top.at = "enter" /\ top.step = child
  BY DEF Activation, Act, At, Kept
<1>6. /\ stack'[s] \in Seq(Act)
      /\ Len(stack'[s]) = n + 1
      /\ \A i \in 1..(n - 1) : stack'[s][i] = stack[s][i]
      /\ stack'[s][n] = act
      /\ stack'[s][n + 1] = top
  <2>1. n \in 1..n /\ \A i \in 1..(n - 1) : i \in 1..n /\ i # n
    <3> HIDE DEF n
    <3> QED
      BY <1>1
  <2>2. /\ below \in Seq(Act) /\ Len(below) = n
        /\ \A j \in 1..n : below[j] = IF j = n THEN act ELSE stack[s][j]
    BY <1>1, <2>1, ExceptSeq
  <2> HIDE DEF below, top
  <2>3. /\ Append(below, top) \in Seq(Act)
        /\ Len(Append(below, top)) = n + 1
        /\ \A i \in 1..n : Append(below, top)[i] = below[i]
        /\ Append(below, top)[n + 1] = top
    BY <1>5, <2>2, AppendProperties
  <2> QED
    BY <1>4, <2>1, <2>2, <2>3
<1> HIDE DEF below, top
<1>7. /\ now' \in Seq(Strand) /\ now' # <<>> /\ Head(now') = s
      /\ \A i \in 1..Len(now') : mode'[now'[i]] = "run"
      /\ \A i, j \in 1..Len(now') : now'[i] = now'[j] => i = j
  <2>1. CASE Running(s)
    <3>1. now' = now /\ \A i \in 1..Len(now) : now[i] \in Strand
      BY <2>1, <1>2, ElementOfSeq DEF StrandInv, StrandsTyped
    <3> QED
      BY <2>1, <3>1, <1>4 DEF Running, StrandInv, StrandsTyped, Scheduled
  <2>2. CASE ~Running(s)
    <3>1. now' = <<s>> /\ <<s>> \in Seq(Strand) /\ <<s>> # <<>> /\ Head(<<s>>) = s
      BY <2>2, <1>2
    <3>2. Len(<<s>>) = 1 /\ <<s>>[1] = s
      OBVIOUS
    <3>3. \A i \in 1..Len(<<s>>) : i = 1
      BY <3>2
    <3> QED
      BY <3>1, <3>2, <3>3, <1>4
  <2> QED
    BY <2>1, <2>2
<1>8. StrandsTyped'
  <2>1. stack' \in [Strand -> Seq(Act)] /\ mode' \in [Strand -> Mode]
    BY <1>2, <1>3, <1>4, <1>6 DEF Mode
  <2> QED
    BY <1>2, <1>7, <2>1, ActNext DEF StrandInv, StrandsTyped
<1>9. StrandOK(stack'[s], mode'[s])
  <2>1. ActOK(top)
    BY <1>5 DEF ActOK
  <2>2. \A i \in 1..(n + 1) : ActOK(stack'[s][i]) /\ (i < n + 1 => stack'[s][i].at # "enter")
    <3>1. \A i \in 1..(n - 1) : i \in 1..n /\ i < n
      <4> HIDE DEF n
      <4> QED
        BY <1>1
    <3>2. \A i \in 1..(n - 1) : ActOK(stack'[s][i]) /\ stack'[s][i].at # "enter"
      BY <1>6, <3>1 DEF StrandInv, Shape, StrandOK
    <3>3. \A i \in 1..(n + 1) : i \in 1..(n - 1) \/ i = n \/ i = n + 1
      <4> HIDE DEF n
      <4> QED
        BY <1>1
    <3>4. ~(n + 1 < n + 1)
      <4> HIDE DEF n
      <4> QED
        BY <1>1
    <3> QED
      BY <1>6, <2>1, <3>2, <3>3, <3>4
  <2>3. n + 1 # 0
    <3> HIDE DEF n
    <3> QED
      BY <1>1
  <2> QED
    BY <1>4, <1>5, <1>6, <2>2, <2>3 DEF StrandOK
<1>10. Shape'
  BY <1>2, <1>4, <1>9, ShapeNext DEF StrandInv, Shape
<1>11. Scheduled'
  <2>1. PICK k \in 1..MaxStrands : \A t \in Strand : mode[t] = "unborn" <=> t > k
    BY DEF StrandInv, Scheduled
  <2>2. \A t \in Strand : mode'[t] = "unborn" <=> mode[t] = "unborn"
    BY <1>4
  <2> QED
    BY <1>7, <2>1, <2>2 DEF Scheduled
<1> QED
  BY <1>2, <1>4, <1>6, <1>7, <1>8, <1>10, <1>11 DEF StrandInv, top

\* The top activation leaves its entry without awaiting a child of its own strand.
LEMMA Marks ==
  ASSUME StrandInv, NEW s \in Strand, mode[s] = "run",
         NEW marked, marked = [stack[s] EXCEPT ![Len(stack[s])].at = "body"]
  PROVE  /\ marked \in Seq(Act) /\ Len(marked) = Len(stack[s])
         /\ Len(stack[s]) \in Nat \ {0}
         /\ \A i \in 1..(Len(stack[s]) - 1) : marked[i] = stack[s][i]
         /\ marked[Len(stack[s])] = [Top(s) EXCEPT !.at = "body"]
         /\ marked[Len(stack[s])].at = "body"
         /\ StepOfAct(marked[Len(stack[s])]) = StepOf(s)
         /\ StepOf(s).kind # "sequence" =>
              \A i \in 1..Len(stack[s]) : ActOK(marked[i]) /\ marked[i].at # "enter"
<1> DEFINE n == Len(stack[s])
           act == [Top(s) EXCEPT !.at = "body"]
<1>1. stack[s] \in Seq(Act) /\ n \in Nat \ {0} /\ Top(s) \in Act
  BY TopTyped
<1>2. act \in Act /\ act.at = "body" /\ act.step = Top(s).step
  BY <1>1 DEF Act, At
<1>3. marked = [stack[s] EXCEPT ![n] = act]
  BY DEF Top
<1>4. n \in 1..n /\ \A i \in 1..(n - 1) : i \in 1..n /\ i # n /\ i < n
  <2> HIDE DEF n
  <2> QED
    BY <1>1
<1>5. /\ marked \in Seq(Act) /\ Len(marked) = n
      /\ \A j \in 1..n : marked[j] = IF j = n THEN act ELSE stack[s][j]
  <2> HIDE DEF act
  <2> QED
    BY <1>1, <1>2, <1>3, <1>4, ExceptSeq
<1>6. StepOfAct(act) = StepOf(s)
  BY <1>2 DEF StepOfAct, StepOf
<1>7. ASSUME StepOf(s).kind # "sequence", NEW i \in 1..n
      PROVE  ActOK(marked[i]) /\ marked[i].at # "enter"
  <2>1. CASE i = n
    BY <2>1, <1>2, <1>5, <1>6, <1>7 DEF ActOK
  <2>2. CASE i # n
    <3>1. i < n
      <4> HIDE DEF n
      <4> QED
        BY <2>2, <1>1, <1>7
    <3> QED
      BY <2>2, <3>1, <1>5 DEF StrandInv, Shape, StrandOK
  <2> QED
    BY <2>1, <2>2
<1> QED
  BY <1>1, <1>2, <1>4, <1>5, <1>6, <1>7

LEMMA ToolCallEffect ==
  ASSUME StrandInv, NEW s \in Strand, BeginToolCall(s)
  PROVE  /\ StrandInv' /\ wf' = wf
         /\ \A t \in Strand \ {s} : stack'[t] = stack[t] /\ mode'[t] = mode[t]
         /\ Len(stack'[s]) = Len(stack[s])
         /\ \A i \in 1..(Len(stack[s]) - 1) : stack'[s][i] = stack[s][i]
         /\ stack'[s][Len(stack[s])] = [Top(s) EXCEPT !.at = "body"]
         /\ mode'[s] # "run"
<1> DEFINE n == Len(stack[s])
           marked == [stack[s] EXCEPT ![n].at = "body"]
<1>1. Running(s) /\ StepOf(s).kind = "tool_call"
  BY DEF BeginToolCall, Begins, Enters
<1>2. mode[s] = "run"
  BY <1>1, RunningRuns
<1>3. stack \in [Strand -> Seq(Act)] /\ mode \in [Strand -> Mode]
  BY DEF StrandInv, StrandsTyped
<1>4. /\ stack'[s] = marked
      /\ mode' = [mode EXCEPT ![s] = "tool"] /\ now' = Tail(now) /\ wf' = wf /\ parent' = parent
      /\ mode'[s] = "tool"
      /\ \A t \in Strand \ {s} : stack'[t] = stack[t] /\ mode'[t] = mode[t]
      /\ stack' = [stack EXCEPT ![s] = marked]
  BY <1>3 DEF BeginToolCall
<1>5. /\ marked \in Seq(Act) /\ Len(marked) = n /\ n \in Nat \ {0}
      /\ \A i \in 1..(n - 1) : marked[i] = stack[s][i]
      /\ marked[n] = [Top(s) EXCEPT !.at = "body"] /\ marked[n].at = "body"
      /\ StepOfAct(marked[n]) = StepOf(s)
      /\ \A i \in 1..n : ActOK(marked[i]) /\ marked[i].at # "enter"
  BY <1>1, <1>2, Marks
<1> HIDE DEF marked
<1>6. StrandsTyped'
  <2>1. stack' \in [Strand -> Seq(Act)] /\ mode' \in [Strand -> Mode]
    BY <1>3, <1>4, <1>5 DEF Mode
  <2> QED
    BY <1>1, <1>4, <2>1, ActNext, TailScheduled DEF StrandInv, StrandsTyped
<1>7. StrandOK(stack'[s], mode'[s])
  BY <1>1, <1>4, <1>5 DEF StrandOK
<1>8. Shape'
  BY <1>4, <1>7, ShapeNext DEF StrandInv, Shape
<1>9. Scheduled'
  <2>1. \A i \in 1..Len(now') : mode'[now'[i]] = "run"
    BY <1>1, <1>4, TailScheduled, ElementOfSeq
  <2>2. PICK k \in 1..MaxStrands : \A t \in Strand : mode[t] = "unborn" <=> t > k
    BY DEF StrandInv, Scheduled
  <2>3. \A t \in Strand : mode'[t] = "unborn" <=> mode[t] = "unborn"
    BY <1>2, <1>4
  <2>4. \A i, j \in 1..Len(now') : now'[i] = now'[j] => i = j
    BY <1>1, <1>4, TailScheduled
  <2> QED
    BY <2>1, <2>2, <2>3, <2>4 DEF Scheduled
<1> QED
  BY <1>4, <1>5, <1>6, <1>8, <1>9 DEF StrandInv

\* The strands of a parallel step are born next to each other, each at its entry.
LEMMA ParallelEffect ==
  ASSUME StrandInv, NEW s \in Strand, BeginParallel(s)
  PROVE  /\ StrandInv' /\ wf' = wf
         /\ \A t \in Strand \ {s} : \/ stack'[t] = stack[t] /\ mode'[t] = mode[t]
                                    \/ /\ Len(stack[t]) = 0 /\ Len(stack'[t]) = 1
                                       /\ stack'[t][1].at = "enter"
         /\ Len(stack'[s]) = Len(stack[s])
         /\ \A i \in 1..(Len(stack[s]) - 1) : stack'[s][i] = stack[s][i]
         /\ stack'[s][Len(stack[s])] = [Top(s) EXCEPT !.at = "body"]
         /\ mode'[s] # "run"
<1> DEFINE n == Len(stack[s])
           marked == [stack[s] EXCEPT ![n].at = "body"]
           kids == StepOf(s).kids
           m == Len(kids)
           born == Cardinality({t \in Strand : mode[t] # "unborn"})
           new == [i \in 1..m |-> born + i]
<1>1. Running(s) /\ StepOf(s).kind = "parallel" /\ mode[s] = "run" /\ born + m <= MaxStrands
  BY RunningRuns DEF BeginParallel, Begins, Enters
<1>2. stack \in [Strand -> Seq(Act)] /\ mode \in [Strand -> Mode] /\ MaxStrands \in Nat \ {0}
      /\ parent \in [Strand -> Strand]
  BY WorkflowAssumption DEF StrandInv, StrandsTyped
<1>3. kids \in Seq(Steps) /\ m \in Nat /\ DOMAIN kids = 1..m /\ \A i \in 1..m : kids[i] \in Steps
  <2>1. Top(s).step \in Steps /\ wf \in Workflow
    BY <1>1, TopTyped DEF Act, StrandInv, StrandsTyped
  <2>2. kids \in Seq(Steps)
    BY <2>1, WorkflowAssumption DEF StepOf, Steps
  <2> QED
    BY <2>2, LenProperties, ElementOfSeq
<1>4. PICK k \in 1..MaxStrands : \A t \in Strand : mode[t] = "unborn" <=> t > k
  BY DEF StrandInv, Scheduled
<1>5. born = k /\ k \in Nat /\ s <= k
  <2>1. k \in Nat /\ 1 <= k /\ k <= MaxStrands
    BY <1>2, <1>4
  <2>2. {t \in Strand : mode[t] # "unborn"} = 1..k
    <3>1. \A t \in 1..k : t \in Strand /\ ~(t > k)
      BY <1>2, <2>1 DEF Strand
    <3>2. \A t \in Strand : ~(t > k) => t \in 1..k
      BY <1>2, <2>1 DEF Strand
    <3> QED
      BY <1>4, <3>1, <3>2
  <2>3. Cardinality(1..k) = k
    BY <2>1, FS_Interval
  <2>4. ~(s > k) /\ s \in Nat
    BY <1>1, <1>4 DEF Strand
  <2>5. s <= k
    BY <2>1, <2>4
  <2> QED
    BY <2>1, <2>2, <2>3, <2>5
<1>6. /\ now' = new \o Tail(now) /\ wf' = wf
      /\ mode' = [t \in Strand |->
           IF t = s THEN "join" ELSE IF t - born \in DOMAIN kids THEN "run" ELSE mode[t]]
      /\ stack' = [t \in Strand |->
           IF t = s THEN marked
           ELSE IF t - born \in DOMAIN kids THEN <<Activation(kids[t - born])>> ELSE stack[t]]
      /\ parent' = [t \in Strand |-> IF t > born /\ t - born \in DOMAIN kids THEN s ELSE parent[t]]
  BY DEF BeginParallel
<1> HIDE DEF born, kids, m, new
<1>7. /\ marked \in Seq(Act) /\ Len(marked) = n /\ n \in Nat \ {0}
      /\ \A i \in 1..(n - 1) : marked[i] = stack[s][i]
      /\ marked[n] = [Top(s) EXCEPT !.at = "body"] /\ marked[n].at = "body"
      /\ StepOfAct(marked[n]) = StepOf(s)
      /\ \A i \in 1..n : ActOK(marked[i]) /\ marked[i].at # "enter"
  BY <1>1, Marks
<1> HIDE DEF marked
<1>8. \A t \in Strand : t - born \in DOMAIN kids <=> t > k /\ t <= k + m
  <2> SUFFICES ASSUME NEW t \in Strand PROVE t - k \in 1..m <=> t > k /\ t <= k + m
    BY <1>3, <1>5
  <2>1. t \in Nat
    BY DEF Strand
  <2> QED
    BY <2>1, <1>3, <1>5
<1>9. /\ stack'[s] = marked /\ mode'[s] = "join"
      /\ \A t \in Strand \ {s} :
           IF t > k /\ t <= k + m
           THEN mode'[t] = "run" /\ stack'[t] = <<Activation(kids[t - k])>> /\ kids[t - k] \in Steps
           ELSE mode'[t] = mode[t] /\ stack'[t] = stack[t]
  BY <1>3, <1>5, <1>6, <1>8
<1>10. ASSUME NEW child \in Steps
       PROVE  /\ <<Activation(child)>> \in Seq(Act) /\ Len(<<Activation(child)>>) = 1
              /\ <<Activation(child)>>[1].at = "enter" /\ ActOK(<<Activation(child)>>[1])
  <2>1. Activation(child) \in Act /\ Activation(child).at = "enter"
    BY DEF Activation, Act, At, Kept
  <2>2. ActOK(Activation(child))
    BY <2>1 DEF ActOK
  <2> HIDE DEF Activation
  <2> QED
    BY <2>1, <2>2
<1>11. \A t \in Strand \ {s} : t > k /\ t <= k + m =>
         /\ Len(stack[t]) = 0 /\ Len(stack'[t]) = 1 /\ stack'[t][1].at = "enter"
         /\ ActOK(stack'[t][1]) /\ stack'[t] \in Seq(Act)
  <2> SUFFICES ASSUME NEW t \in Strand \ {s}, t > k, t <= k + m
               PROVE  /\ Len(stack[t]) = 0 /\ Len(stack'[t]) = 1 /\ stack'[t][1].at = "enter"
                      /\ ActOK(stack'[t][1]) /\ stack'[t] \in Seq(Act)
    OBVIOUS
  <2>1. Len(stack[t]) = 0
    BY <1>4 DEF StrandInv, Shape, StrandOK
  <2>2. stack'[t] = <<Activation(kids[t - k])>> /\ kids[t - k] \in Steps
    BY <1>9
  <2> QED
    BY <2>1, <2>2, <1>10
<1>12. /\ now' \in Seq(Strand)
       /\ \A i \in 1..Len(now') : mode'[now'[i]] = "run"
       /\ \A i, j \in 1..Len(now') : now'[i] = now'[j] => i = j
  <2> DEFINE rest == Tail(now)
             l == Len(rest)
  <2>1. new \in Seq(Strand) /\ Len(new) = m /\ \A i \in 1..m : new[i] = k + i
    <3>1. \A i \in 1..m : k + i \in Strand
      BY <1>1, <1>2, <1>3, <1>5 DEF Strand
    <3>2. new = [i \in 1..m |-> k + i]
      BY <1>5 DEF new
    <3> QED
      BY <3>1, <3>2, <1>3
  <2>2. /\ rest \in Seq(Strand) /\ l \in Nat
        /\ \A i \in 1..l : rest[i] # s /\ mode[rest[i]] = "run" /\ rest[i] \in Strand /\ rest[i] <= k
        /\ \A i, j \in 1..l : rest[i] = rest[j] => i = j
    <3>1. rest \in Seq(Strand) /\ (\A i \in 1..l : rest[i] # s /\ mode[rest[i]] = "run")
          /\ \A i, j \in 1..l : rest[i] = rest[j] => i = j
      BY <1>1, TailScheduled
    <3>2. l \in Nat /\ \A i \in 1..l : rest[i] \in Strand
      BY <3>1, LenProperties, ElementOfSeq
    <3>3. \A i \in 1..l : rest[i] <= k
      <4> SUFFICES ASSUME NEW i \in 1..l PROVE rest[i] <= k
        OBVIOUS
      <4>1. ~(rest[i] > k)
        BY <3>1, <3>2, <1>4
      <4>2. rest[i] \in Nat
        BY <3>2 DEF Strand
      <4> QED
        BY <4>1, <4>2, <1>5
    <3> QED
      BY <3>1, <3>2, <3>3
  <2> HIDE DEF rest
  <2>3. /\ now' \in Seq(Strand) /\ Len(now') = m + l
        /\ \A i \in 1..(m + l) : now'[i] = IF i <= m THEN new[i] ELSE rest[i - m]
    BY <1>6, <2>1, <2>2, ConcatProperties DEF rest
  <2> HIDE DEF l
  <2>4. \A i \in 1..(m + l) : /\ i <= m => i \in 1..m /\ now'[i] = k + i
                              /\ i > m => i - m \in 1..l /\ now'[i] = rest[i - m]
    BY <1>3, <2>1, <2>2, <2>3
  <2>5. ASSUME NEW i \in 1..(m + l) PROVE mode'[now'[i]] = "run"
    <3>1. CASE i <= m
      <4>1. k + i \in Strand /\ k + i > k /\ k + i <= k + m /\ k + i # s
        BY <3>1, <1>1, <1>2, <1>3, <1>5 DEF Strand
      <4> QED
        BY <3>1, <4>1, <2>4, <1>9
    <3>2. CASE i > m
      <4>1. i - m \in 1..l /\ now'[i] = rest[i - m]
        BY <3>2, <2>4
      <4>2. rest[i - m] \in Strand \ {s} /\ ~(rest[i - m] > k) /\ mode[rest[i - m]] = "run"
        BY <4>1, <2>2, <1>5 DEF Strand
      <4> QED
        BY <4>1, <4>2, <1>9
    <3> QED
      BY <3>1, <3>2, <1>3, <2>2
  <2>6. ASSUME NEW i \in 1..(m + l), NEW j \in 1..(m + l), now'[i] = now'[j] PROVE i = j
    <3>1. i \in Nat /\ j \in Nat /\ k \in Nat /\ m \in Nat
      BY <1>3, <1>5, <2>2
    <3>2. CASE i <= m /\ j <= m
      BY <3>1, <3>2, <2>4, <2>6
    <3>3. CASE i > m /\ j > m
      <4>1. i - m = j - m
        BY <3>3, <2>2, <2>4, <2>6
      <4> QED
        BY <4>1, <3>1
    <3>4. CASE i <= m /\ j > m
      <4>1. k + i <= k
        BY <3>4, <2>2, <2>4, <2>6
      <4> QED
        BY <4>1, <3>1
    <3>5. CASE i > m /\ j <= m
      <4>1. k + j <= k
        BY <3>5, <2>2, <2>4, <2>6
      <4> QED
        BY <4>1, <3>1
    <3> QED
      BY <3>1, <3>2, <3>3, <3>4, <3>5
  <2> QED
    BY <2>3, <2>5, <2>6
<1>13. StrandsTyped'
  <2>1. \A t \in Strand : stack'[t] \in Seq(Act) /\ mode'[t] \in Mode
    BY <1>2, <1>7, <1>9, <1>11 DEF Mode
  <2>2. stack' \in [Strand -> Seq(Act)] /\ mode' \in [Strand -> Mode]
    BY <1>6, <2>1
  <2>3. parent' \in [Strand -> Strand]
    BY <1>2, <1>6
  <2> QED
    BY <1>6, <1>12, <2>2, <2>3, ActNext DEF StrandInv, StrandsTyped
<1>14. Shape'
  <2>1. StrandOK(marked, "join")
    BY <1>1, <1>7 DEF StrandOK
  <2>2. ASSUME NEW t \in Strand \ {s} PROVE StrandOK(stack'[t], mode'[t])
    <3>1. CASE t > k /\ t <= k + m
      <4>1. mode'[t] = "run" /\ Len(stack'[t]) = 1 /\ stack'[t][1].at = "enter"
            /\ ActOK(stack'[t][1])
        BY <3>1, <1>9, <1>11
      <4>2. \A i \in 1..1 : i = 1
        OBVIOUS
      <4> QED
        BY <4>1, <4>2 DEF StrandOK
    <3>2. CASE ~(t > k /\ t <= k + m)
      BY <3>2, <1>9 DEF StrandInv, Shape
    <3> QED
      BY <3>1, <3>2
  <2> QED
    BY <1>6, <1>9, <2>1, <2>2, ShapeNext
<1>15. Scheduled'
  <2>1. k + m \in 1..MaxStrands
    BY <1>1, <1>2, <1>3, <1>4, <1>5
  <2>2. \A t \in Strand : mode'[t] = "unborn" <=> t > k + m
    <3> SUFFICES ASSUME NEW t \in Strand PROVE mode'[t] = "unborn" <=> t > k + m
      OBVIOUS
    <3>1. t \in Nat /\ k \in Nat /\ m \in Nat /\ s <= k
      BY <1>3, <1>5 DEF Strand
    <3>2. CASE t = s
      BY <3>1, <3>2, <1>9
    <3>3. CASE t # s
      BY <3>1, <3>3, <1>4, <1>9
    <3> QED
      BY <3>2, <3>3
  <2> QED
    BY <1>12, <2>1, <2>2 DEF Scheduled
<1> QED
  BY <1>6, <1>7, <1>9, <1>11, <1>13, <1>14, <1>15 DEF StrandInv

-----------------------------------------------------------------------------
(* Counting the activations that hold a frame *)

CallActs == {act \in Act : StepOfAct(act).kind = "call" /\ act.at = "body"}
FrameActs == {act \in Act : \/ StepOfAct(act).kind = "scope" /\ act.at = "body"
                            \/ StepOfAct(act).kind = "try" /\ act.at = "catch"}

Picked(st, C) == {a \in Strand \X Nat : a[2] \in 1..Len(st[a[1]]) /\ st[a[1]][a[2]] \in C}

Balanced ==
  /\ IsFiniteSet(Picked(stack, CallActs))
  /\ IsFiniteSet(Picked(stack, FrameActs))
  /\ callDepth = Cardinality(Picked(stack, CallActs))
  /\ Len(scopes) = 1 + Cardinality(Picked(stack, CallActs)) + Cardinality(Picked(stack, FrameActs))

Count(b) == IF b THEN 1 ELSE 0

\* A step that touches the top activation of one strand, and may put entries on top,
\* changes the count by what the activation was and by what it is.
LEMMA PickedNext ==
  ASSUME NEW old, NEW new, NEW C, \A c \in C : c.at # "enter",
         NEW s \in Strand, NEW n \in Nat \ {0}, Len(old[s]) = n,
         \A t \in Strand \ {s} : \/ new[t] = old[t]
                                 \/ /\ Len(old[t]) = 0 /\ Len(new[t]) = 1
                                    /\ new[t][1].at = "enter",
         \A i \in 1..(n - 1) : new[s][i] = old[s][i],
         Len(new[s]) \in {n - 1, n, n + 1},
         Len(new[s]) = n + 1 => new[s][n + 1].at = "enter",
         IsFiniteSet(Picked(old, C))
  PROVE  /\ IsFiniteSet(Picked(new, C))
         /\ Cardinality(Picked(new, C)) =
              Cardinality(Picked(old, C)) + Count(Len(new[s]) >= n /\ new[s][n] \in C)
                                          - Count(old[s][n] \in C)
<1> DEFINE P == Picked(old, C)
           Q == Picked(new, C)
           p == <<s, n>>
           R == P \ {p}
<1>1. p \in P <=> old[s][n] \in C
  BY DEF Picked
<1>2. p \in Q <=> Len(new[s]) >= n /\ new[s][n] \in C
  BY DEF Picked
<1>3. Q \ {p} = R
  <2>1. \A t \in Strand, i \in Nat : <<t, i>> # p =>
          (i \in 1..Len(new[t]) /\ new[t][i] \in C <=> i \in 1..Len(old[t]) /\ old[t][i] \in C)
    <3> SUFFICES ASSUME NEW t \in Strand, NEW i \in Nat, <<t, i>> # p
                 PROVE  i \in 1..Len(new[t]) /\ new[t][i] \in C
                          <=> i \in 1..Len(old[t]) /\ old[t][i] \in C
      OBVIOUS
    <3>1. CASE t # s
      <4>1. CASE new[t] = old[t]
        BY <4>1
      <4>2. CASE Len(old[t]) = 0 /\ Len(new[t]) = 1 /\ new[t][1].at = "enter"
        <5>1. i \notin 1..Len(old[t])
          BY <4>2
        <5>2. i \in 1..Len(new[t]) => i = 1
          BY <4>2
        <5>3. new[t][1] \notin C
          BY <4>2
        <5> QED
          BY <5>1, <5>2, <5>3
      <4> QED
        BY <3>1, <4>1, <4>2
    <3>2. CASE t = s
      <4>1. i # n
        BY <3>2
      <4>2. CASE i < n
        <5>1. (i \in 1..Len(new[s]) <=> i \in 1..(n - 1)) /\ (i \in 1..n <=> i \in 1..(n - 1))
          BY <4>2
        <5> QED
          BY <5>1, <3>2
      <4>3. CASE i > n
        <5>1. i \notin 1..n /\ (i \in 1..Len(new[s]) => i = n + 1 /\ Len(new[s]) = n + 1)
          BY <4>3
        <5> QED
          BY <5>1, <3>2
      <4> QED
        BY <4>1, <4>2, <4>3
    <3> QED
      BY <3>1, <3>2
  <2>2. \A a \in Strand \X Nat : a = <<a[1], a[2]>> /\ a[1] \in Strand /\ a[2] \in Nat
    OBVIOUS
  <2>3. \A a \in Strand \X Nat : a # p => (a \in Q <=> a \in P)
    BY <2>1, <2>2 DEF Picked
  <2>4. Q \subseteq Strand \X Nat /\ P \subseteq Strand \X Nat
    BY DEF Picked
  <2> HIDE DEF P, Q, p
  <2> QED
    BY <2>3, <2>4
<1> HIDE DEF P, Q, p
<1>4. IsFiniteSet(R) /\ Cardinality(R) \in Nat
  BY FS_RemoveElement, FS_CardinalityType DEF P
<1>5. p \notin R
  OBVIOUS
<1>6. Cardinality(R \cup {p}) = Cardinality(R) + 1 /\ IsFiniteSet(R \cup {p})
  BY <1>4, <1>5, FS_AddElement
<1>7. (p \in P => P = R \cup {p}) /\ (p \notin P => P = R)
  OBVIOUS
<1>8. (p \in Q => Q = R \cup {p}) /\ (p \notin Q => Q = R)
  BY <1>3
<1> HIDE DEF R
<1>9. Cardinality(P) = Cardinality(R) + Count(p \in P)
  <2>1. CASE p \in P
    BY <2>1, <1>6, <1>7 DEF Count
  <2>2. CASE p \notin P
    BY <2>2, <1>4, <1>7 DEF Count
  <2> QED
    BY <2>1, <2>2
<1>10. IsFiniteSet(Q) /\ Cardinality(Q) = Cardinality(R) + Count(p \in Q)
  <2>1. CASE p \in Q
    BY <2>1, <1>6, <1>8 DEF Count
  <2>2. CASE p \notin Q
    BY <2>2, <1>4, <1>8 DEF Count
  <2> QED
    BY <2>1, <2>2
<1>11. Cardinality(Q) = Cardinality(P) + Count(p \in Q) - Count(p \in P)
  BY <1>4, <1>9, <1>10 DEF Count
<1>12. Count(p \in P) = Count(old[s][n] \in C)
       /\ Count(p \in Q) = Count(Len(new[s]) >= n /\ new[s][n] \in C)
  BY <1>1, <1>2 DEF Count
<1> QED
  BY <1>10, <1>11, <1>12 DEF P, Q

\* The types of what the strands share.
SharedTyped ==
  /\ scopes \in Seq(Frame)
  /\ failedAt \in Steps \cup {None}
  /\ returning \in BOOLEAN
  /\ callDepth \in 0..MaxCallDepth
  /\ uncaught \in BOOLEAN

\* The step that finally awaits is alone at the head of `now`, and nothing is pending.
Clean ==
  \A s \in Strand :
    mode[s] = "run" /\ Len(stack[s]) > 1 /\ stack[s][Len(stack[s]) - 1].at = "finally" =>
      now = <<s>> /\ ~failed /\ ~returning

CountedInv == StrandInv /\ Balanced
EngineInv == CountedInv /\ SharedTyped /\ Clean

LEMMA Sums ==
  ASSUME NEW c \in Nat, NEW d \in Nat, NEW b \in Nat, NEW b1 \in Nat, NEW f \in Nat, NEW f1 \in Nat
  PROVE  (1 + c + d) + b1 - b + f1 - f = 1 + (c + b1 - b) + (d + f1 - f)
OBVIOUS

\* The general form of what every step does to the counts.
LEMMA BalancedNext ==
  ASSUME CountedInv, wf' = wf, NEW s \in Strand, NEW n \in Nat \ {0}, Len(stack[s]) = n,
         \A t \in Strand \ {s} : \/ stack'[t] = stack[t]
                                 \/ /\ Len(stack[t]) = 0 /\ Len(stack'[t]) = 1
                                    /\ stack'[t][1].at = "enter",
         \A i \in 1..(n - 1) : stack'[s][i] = stack[s][i],
         Len(stack'[s]) \in {n - 1, n, n + 1},
         Len(stack'[s]) = n + 1 => stack'[s][n + 1].at = "enter",
         callDepth \in Nat, Len(scopes) \in Nat,
         callDepth' = callDepth + Count(Len(stack'[s]) >= n /\ stack'[s][n] \in CallActs)
                                - Count(stack[s][n] \in CallActs),
         Len(scopes') = Len(scopes) + Count(Len(stack'[s]) >= n /\ stack'[s][n] \in CallActs)
                                    - Count(stack[s][n] \in CallActs)
                                    + Count(Len(stack'[s]) >= n /\ stack'[s][n] \in FrameActs)
                                    - Count(stack[s][n] \in FrameActs)
  PROVE  Balanced'
<1> DEFINE b == Count(stack[s][n] \in CallActs)
           b1 == Count(Len(stack'[s]) >= n /\ stack'[s][n] \in CallActs)
           f == Count(stack[s][n] \in FrameActs)
           f1 == Count(Len(stack'[s]) >= n /\ stack'[s][n] \in FrameActs)
           calls == Picked(stack, CallActs)
           frames == Picked(stack, FrameActs)
           calls1 == Picked(stack', CallActs)
           frames1 == Picked(stack', FrameActs)
<1>1. /\ IsFiniteSet(calls) /\ IsFiniteSet(frames) /\ callDepth = Cardinality(calls)
      /\ Len(scopes) = 1 + Cardinality(calls) + Cardinality(frames)
  BY DEF CountedInv, Balanced
<1>2. CallActs' = CallActs /\ FrameActs' = FrameActs
  BY ActNext DEF CallActs, FrameActs, StepOfAct
<1>3. (\A act \in CallActs : act.at # "enter") /\ (\A act \in FrameActs : act.at # "enter")
  BY DEF CallActs, FrameActs
<1>4. IsFiniteSet(calls1) /\ Cardinality(calls1) = Cardinality(calls) + b1 - b
  BY <1>1, <1>3, PickedNext
<1>5. IsFiniteSet(frames1) /\ Cardinality(frames1) = Cardinality(frames) + f1 - f
  BY <1>1, <1>3, PickedNext
<1>6. /\ Cardinality(calls) \in Nat /\ Cardinality(frames) \in Nat
      /\ Cardinality(calls1) \in Nat /\ Cardinality(frames1) \in Nat
  BY <1>1, <1>4, <1>5, FS_CardinalityType
<1>7. b \in Nat /\ b1 \in Nat /\ f \in Nat /\ f1 \in Nat
  BY DEF Count
<1>8. callDepth' = callDepth + b1 - b /\ Len(scopes') = Len(scopes) + b1 - b + f1 - f
  OBVIOUS
<1>9. callDepth' = Cardinality(calls1)
  <2> HIDE DEF b, b1, calls, calls1
  <2> QED
    BY <1>1, <1>4, <1>8
<1>10. Len(scopes') = 1 + Cardinality(calls1) + Cardinality(frames1)
  <2>1. Len(scopes') = (1 + Cardinality(calls) + Cardinality(frames)) + b1 - b + f1 - f
    <3> HIDE DEF b, b1, f, f1, calls, frames
    <3> QED
      BY <1>1, <1>8
  <2>2. (1 + Cardinality(calls) + Cardinality(frames)) + b1 - b + f1 - f
          = 1 + (Cardinality(calls) + b1 - b) + (Cardinality(frames) + f1 - f)
    <3> HIDE DEF b, b1, f, f1, calls, frames
    <3> QED
      BY <1>6, <1>7, Sums
  <2> HIDE DEF b, b1, f, f1, calls, frames, calls1, frames1
  <2> QED
    BY <1>4, <1>5, <2>1, <2>2
<1> QED
  BY <1>2, <1>4, <1>5, <1>9, <1>10 DEF Balanced

\* Nobody else goes on between Finally and the step it awaits.
LEMMA CleanNext ==
  ASSUME Clean, StrandInv, NEW s \in Strand, HasTurn(s),
         \A t \in Strand \ {s} : \/ stack'[t] = stack[t] /\ mode'[t] = mode[t]
                                 \/ Len(stack'[t]) = 1,
         mode'[s] = "run" /\ Len(stack'[s]) > 1 /\ stack'[s][Len(stack'[s]) - 1].at = "finally"
           => now' = <<s>> /\ ~failed' /\ ~returning'
  PROVE  Clean'
<1> SUFFICES ASSUME NEW t \in Strand \ {s}, mode'[t] = "run", Len(stack'[t]) > 1,
                    stack'[t][Len(stack'[t]) - 1].at = "finally"
             PROVE  FALSE
  BY DEF Clean
<1>1. ~(Len(stack'[t]) = 1)
  <2> SUFFICES ASSUME NEW l, l = 1, l > 1 PROVE FALSE
    OBVIOUS
  <2> QED
    OBVIOUS
<1>2. now = <<t>>
  BY <1>1 DEF Clean
<1>3. now # <<>> /\ Head(now) = t
  BY <1>2
<1> QED
  BY <1>3 DEF HasTurn, Running

LEMMA SettleKeeps ==
  ASSUME CountedInv, SharedTyped, Clean, NEW s \in Strand, mode[s] \notin {"unborn", "done"},
         HasTurn(s), Settle(s),
         callDepth' = callDepth - Count(Top(s) \in CallActs),
         Len(scopes') = Len(scopes) - Count(Top(s) \in CallActs) - Count(Top(s) \in FrameActs)
  PROVE  CountedInv' /\ Clean' /\ wf' = wf
<1> DEFINE n == Len(stack[s])
<1>1. /\ StrandInv' /\ wf' = wf
      /\ \A t \in Strand \ {s} : stack'[t] = stack[t] /\ mode'[t] = mode[t]
      /\ Len(stack'[s]) = n - 1
      /\ \A i \in 1..(n - 1) : stack'[s][i] = stack[s][i]
      /\ mode'[s] # "run"
  BY SettleEffect DEF CountedInv
<1>2. n \in Nat \ {0} /\ Top(s) = stack[s][n]
  BY TopTyped DEF CountedInv, Top
<1>3. callDepth \in Nat /\ Len(scopes) \in Nat
  BY WorkflowAssumption, LenProperties DEF SharedTyped
<1>4. ~(Len(stack'[s]) >= n) /\ ~(Len(stack'[s]) = n + 1) /\ Len(stack'[s]) \in {n - 1, n, n + 1}
  <2>1. Len(stack'[s]) = n - 1
    BY <1>1
  <2> HIDE DEF n
  <2> QED
    BY <2>1, <1>2
<1>5. Count(Len(stack'[s]) >= n /\ stack'[s][n] \in CallActs) = 0
      /\ Count(Len(stack'[s]) >= n /\ stack'[s][n] \in FrameActs) = 0
  BY <1>4 DEF Count
<1>6. Count(stack[s][n] \in CallActs) \in Nat /\ Count(stack[s][n] \in FrameActs) \in Nat
  BY DEF Count
<1>7. callDepth' = callDepth + 0 - Count(stack[s][n] \in CallActs)
  BY <1>2, <1>3, <1>6
<1>8. Len(scopes') = Len(scopes) + 0 - Count(stack[s][n] \in CallActs)
                                 + 0 - Count(stack[s][n] \in FrameActs)
  BY <1>2, <1>3, <1>6
<1>9. Balanced'
  BY <1>1, <1>2, <1>3, <1>4, <1>5, <1>7, <1>8, BalancedNext
<1>10. Clean'
  BY <1>1, CleanNext DEF CountedInv
<1> QED
  BY <1>1, <1>9, <1>10 DEF CountedInv

LEMMA AwaitKeeps ==
  ASSUME CountedInv, SharedTyped, Clean, NEW s \in Strand, mode[s] \notin {"unborn", "done"},
         HasTurn(s), NEW act \in Act, ActOK(act), act.at # "enter", NEW child \in Steps,
         Await(s, act, child),
         callDepth' = callDepth + Count(act \in CallActs) - Count(Top(s) \in CallActs),
         Len(scopes') = Len(scopes) + Count(act \in CallActs) - Count(Top(s) \in CallActs)
                                    + Count(act \in FrameActs) - Count(Top(s) \in FrameActs),
         act.at = "finally" => ~Running(s) /\ ~failed' /\ ~returning'
  PROVE  CountedInv' /\ Clean' /\ wf' = wf
<1> DEFINE n == Len(stack[s])
<1>1. /\ StrandInv' /\ wf' = wf
      /\ \A t \in Strand \ {s} : stack'[t] = stack[t] /\ mode'[t] = mode[t]
      /\ Len(stack'[s]) = n + 1
      /\ \A i \in 1..(n - 1) : stack'[s][i] = stack[s][i]
      /\ stack'[s][n] = act /\ stack'[s][n + 1] = Activation(child)
      /\ ~Running(s) => now' = <<s>>
  BY AwaitEffect DEF CountedInv
<1>2. n \in Nat \ {0} /\ Top(s) = stack[s][n]
  BY TopTyped DEF CountedInv, Top
<1>3. callDepth \in Nat /\ Len(scopes) \in Nat
  BY WorkflowAssumption, LenProperties DEF SharedTyped
<1>4. Len(stack'[s]) >= n /\ Len(stack'[s]) \in {n - 1, n, n + 1} /\ Len(stack'[s]) - 1 = n
  <2>1. Len(stack'[s]) = n + 1
    BY <1>1
  <2> HIDE DEF n
  <2> QED
    BY <2>1, <1>2
<1>5. Activation(child).at = "enter"
  BY DEF Activation
<1>6. Count(Len(stack'[s]) >= n /\ stack'[s][n] \in CallActs) = Count(act \in CallActs)
      /\ Count(Len(stack'[s]) >= n /\ stack'[s][n] \in FrameActs) = Count(act \in FrameActs)
  BY <1>1, <1>4 DEF Count
<1>7. Balanced'
  BY <1>1, <1>2, <1>3, <1>4, <1>5, <1>6, BalancedNext
<1>8. Clean'
  BY <1>1, <1>4, CleanNext DEF CountedInv
<1> QED
  BY <1>1, <1>7, <1>8 DEF CountedInv

\* Beginning a tool call or a parallel step holds no frame.
LEMMA MarkKeeps ==
  ASSUME EngineInv, NEW s \in Strand, BeginToolCall(s) \/ BeginParallel(s)
  PROVE  EngineInv'
<1> USE DEF EngineInv
<1> DEFINE n == Len(stack[s])
           marked == [Top(s) EXCEPT !.at = "body"]
<1>1. /\ StrandInv' /\ wf' = wf
      /\ \A t \in Strand \ {s} : /\ stack'[t] = stack[t] /\ mode'[t] = mode[t]
                                 \/ /\ Len(stack[t]) = 0 /\ Len(stack'[t]) = 1
                                    /\ stack'[t][1].at = "enter"
      /\ Len(stack'[s]) = n
      /\ \A i \in 1..(n - 1) : stack'[s][i] = stack[s][i]
      /\ stack'[s][n] = marked
      /\ mode'[s] # "run"
  BY ToolCallEffect, ParallelEffect DEF CountedInv
<1>2. Running(s) /\ Top(s).at = "enter" /\ StepOf(s).kind \in {"tool_call", "parallel"}
      /\ UNCHANGED <<scopes, failedAt, returning, callDepth, uncaught>>
  BY DEF BeginToolCall, BeginParallel, Begins, Enters, shared
<1>3. n \in Nat \ {0} /\ Top(s) = stack[s][n] /\ Top(s) \in Act
  BY <1>2, RunningRuns, TopTyped DEF CountedInv, Top
<1>4. callDepth \in Nat /\ Len(scopes) \in Nat
  BY WorkflowAssumption, LenProperties DEF SharedTyped
<1>5. marked \notin CallActs \cup FrameActs /\ Top(s) \notin CallActs \cup FrameActs
  <2>1. marked.step = Top(s).step /\ marked.at = "body"
    BY <1>3 DEF Act
  <2> HIDE DEF marked
  <2> QED
    BY <1>2, <2>1 DEF CallActs, FrameActs, StepOfAct, StepOf
<1> HIDE DEF marked
<1>6. /\ Count(stack[s][n] \in CallActs) = 0 /\ Count(stack[s][n] \in FrameActs) = 0
      /\ Count(Len(stack'[s]) >= n /\ stack'[s][n] \in CallActs) = 0
      /\ Count(Len(stack'[s]) >= n /\ stack'[s][n] \in FrameActs) = 0
  BY <1>1, <1>3, <1>5 DEF Count
<1>7. Len(stack'[s]) \in {n - 1, n, n + 1} /\ ~(Len(stack'[s]) = n + 1)
  <2>1. Len(stack'[s]) = n
    BY <1>1
  <2> HIDE DEF n
  <2> QED
    BY <2>1, <1>3
<1>8. callDepth' = callDepth + 0 - 0 /\ Len(scopes') = Len(scopes) + 0 - 0 + 0 - 0
  BY <1>2, <1>4
<1>9. Balanced'
  BY <1>1, <1>3, <1>4, <1>6, <1>7, <1>8, BalancedNext
<1>10. Clean'
  BY <1>1, <1>2, CleanNext DEF CountedInv, HasTurn
<1>11. SharedTyped'
  BY <1>1, <1>2 DEF SharedTyped, Steps
<1> QED
  BY <1>1, <1>9, <1>10, <1>11 DEF CountedInv

-----------------------------------------------------------------------------
(* What the actions have in common *)

LEMMA FrameOps ==
  ASSUME NEW fr \in Seq(Frame), NEW s \in Strand
  PROVE  /\ Push(fr, s) \in Seq(Frame) /\ Len(Push(fr, s)) = Len(fr) + 1
         /\ Len(fr) # 0 => /\ Write(fr, s) \in Seq(Frame) /\ Len(Write(fr, s)) = Len(fr)
                           /\ Pop(fr) \in Seq(Frame) /\ Len(Pop(fr)) = Len(fr) - 1
<1>1. [owner |-> s, writers |-> {}] \in Frame
  BY DEF Frame
<1>2. Push(fr, s) \in Seq(Frame) /\ Len(Push(fr, s)) = Len(fr) + 1
  BY <1>1, AppendProperties DEF Push
<1>3. ASSUME Len(fr) # 0
      PROVE  /\ Write(fr, s) \in Seq(Frame) /\ Len(Write(fr, s)) = Len(fr)
             /\ Pop(fr) \in Seq(Frame) /\ Len(Pop(fr)) = Len(fr) - 1
  <2> DEFINE n == Len(fr)
             top == [fr[n] EXCEPT !.writers = @ \cup {s}]
  <2>1. n \in Nat \ {0}
    BY <1>3, LenProperties
  <2>2. n \in 1..n
    <3> HIDE DEF n
    <3> QED
      BY <2>1
  <2>3. fr[n] \in Frame
    BY <2>2, ElementOfSeq
  <2>4. top \in Frame
    BY <2>3 DEF Frame
  <2>5. Write(fr, s) = [fr EXCEPT ![n] = top]
    BY DEF Write
  <2> HIDE DEF top
  <2>6. Write(fr, s) \in Seq(Frame) /\ Len(Write(fr, s)) = n
    BY <2>2, <2>4, <2>5, ExceptSeq
  <2>7. Pop(fr) \in Seq(Frame) /\ Len(Pop(fr)) = n - 1
    BY <2>1, Pops DEF Pop
  <2> QED
    BY <2>6, <2>7
<1> QED
  BY <1>2, <1>3

\* The top activation counts for what its step and its place are.
LEMMA TopCounts ==
  ASSUME StrandInv, NEW s \in Strand, mode[s] \notin {"unborn", "done"}
  PROVE  /\ Top(s) \in CallActs <=> StepOf(s).kind = "call" /\ Top(s).at = "body"
         /\ Top(s) \in FrameActs <=> \/ StepOf(s).kind = "scope" /\ Top(s).at = "body"
                                     \/ StepOf(s).kind = "try" /\ Top(s).at = "catch"
BY TopTyped DEF CallActs, FrameActs, StepOf, StepOfAct

\* There is a frame for the root and one for the top activation, if it holds one.
LEMMA FramesHeld ==
  ASSUME CountedInv, SharedTyped, NEW s \in Strand, mode[s] \notin {"unborn", "done"}
  PROVE  /\ Len(scopes) \in Nat \ {0} /\ callDepth \in Nat
         /\ Top(s) \in CallActs => callDepth # 0
         /\ Top(s) \in CallActs \cup FrameActs => Len(scopes) - 1 # 0
<1> DEFINE calls == Picked(stack, CallActs)
           frames == Picked(stack, FrameActs)
           n == Len(stack[s])
<1>1. n \in Nat \ {0} /\ Top(s) = stack[s][n]
  BY TopTyped DEF CountedInv, Top
<1>2. n \in 1..n
  <2> HIDE DEF n
  <2> QED
    BY <1>1
<1>3. (Top(s) \in CallActs => <<s, n>> \in calls) /\ (Top(s) \in FrameActs => <<s, n>> \in frames)
  BY <1>1, <1>2 DEF Picked
<1>4. /\ IsFiniteSet(calls) /\ IsFiniteSet(frames) /\ callDepth = Cardinality(calls)
      /\ Len(scopes) = 1 + Cardinality(calls) + Cardinality(frames)
  BY DEF CountedInv, Balanced
<1>5. Cardinality(calls) \in Nat /\ Cardinality(frames) \in Nat
  BY <1>4, FS_CardinalityType
<1> HIDE DEF calls, frames
<1>6. (Top(s) \in CallActs => Cardinality(calls) # 0) /\ (Top(s) \in FrameActs => Cardinality(frames) # 0)
  BY <1>3, <1>4, FS_EmptySet
<1> QED
  BY <1>4, <1>5, <1>6

LEMMA SharedNext ==
  ASSUME wf' = wf, scopes' \in Seq(Frame), failedAt' \in Steps \cup {None}, returning' \in BOOLEAN,
         callDepth' \in 0..MaxCallDepth, uncaught' \in BOOLEAN
  PROVE  SharedTyped'
BY DEF SharedTyped, Steps

\* A step that fails, or does not, leaves a failure of a step of the workflow.
LEMMA FailTyped ==
  ASSUME CountedInv, SharedTyped, NEW s \in Strand, mode[s] \notin {"unborn", "done"},
         Fail(s) \/ NoFailure
  PROVE  failedAt' \in Steps \cup {None} /\ uncaught' \in BOOLEAN
<1>1. Top(s).step \in Steps
  BY TopTyped DEF CountedInv, Act
<1> QED
  BY <1>1 DEF Fail, NoFailure, SharedTyped

\* An activation ends that holds no frame.
LEMMA SettleUncounted ==
  ASSUME CountedInv, SharedTyped, Clean, NEW s \in Strand, mode[s] \notin {"unborn", "done"},
         HasTurn(s), Settle(s), Top(s) \notin CallActs \cup FrameActs,
         callDepth' = callDepth, Len(scopes') = Len(scopes)
  PROVE  CountedInv' /\ Clean' /\ wf' = wf
<1>1. Count(Top(s) \in CallActs) = 0 /\ Count(Top(s) \in FrameActs) = 0
  BY DEF Count
<1>2. Len(scopes) \in Nat /\ callDepth \in Nat
  BY FramesHeld
<1>3. callDepth' = callDepth - 0 /\ Len(scopes') = Len(scopes) - 0 - 0
  BY <1>2
<1> QED
  BY <1>1, <1>3, SettleKeeps

\* An activation that held no frame awaits a child, and holds one now if its step does.
LEMMA KidAwaited ==
  ASSUME CountedInv, SharedTyped, Clean, NEW s \in Strand, mode[s] \notin {"unborn", "done"},
         HasTurn(s), NEW i \in 1..Len(StepOf(s).kids), AwaitKid(s, i),
         Top(s) \notin CallActs \cup FrameActs,
         callDepth' = callDepth + Count(StepOf(s).kind = "call"),
         Len(scopes') = Len(scopes) + Count(StepOf(s).kind = "call") + Count(StepOf(s).kind = "scope")
  PROVE  CountedInv' /\ Clean' /\ wf' = wf
<1> DEFINE act == [Top(s) EXCEPT !.at = "body", !.i = i]
<1>1. Top(s) \in Act /\ ActOK(Top(s))
  BY TopTyped DEF CountedInv
<1>2. StepOf(s).kids \in Seq(Steps)
  BY <1>1, WorkflowAssumption DEF Act, StepOf, Steps, CountedInv, StrandInv, StrandsTyped
<1>3. i \in Nat /\ StepOf(s).kids[i] \in Steps
  BY <1>2, LenProperties, ElementOfSeq
<1>4. act \in Act /\ act.at = "body" /\ act.i = i /\ StepOfAct(act) = StepOf(s)
  BY <1>1, <1>3 DEF Act, At, StepOfAct, StepOf
<1>5. ActOK(act) /\ act.at # "enter" /\ ~(act.at = "finally")
  BY <1>4 DEF ActOK
<1>6. Await(s, act, StepOf(s).kids[i])
  BY DEF AwaitKid
<1> HIDE DEF act
<1>7. Count(act \in CallActs) = Count(StepOf(s).kind = "call")
      /\ Count(act \in FrameActs) = Count(StepOf(s).kind = "scope")
  BY <1>4 DEF Count, CallActs, FrameActs
<1>8. Count(Top(s) \in CallActs) = 0 /\ Count(Top(s) \in FrameActs) = 0
  BY DEF Count
<1>9. Count(act \in CallActs) \in Nat /\ Count(act \in FrameActs) \in Nat
  BY DEF Count
<1>10. Len(scopes) \in Nat /\ callDepth \in Nat
  BY FramesHeld
<1>11. callDepth' = callDepth + Count(act \in CallActs) - 0
       /\ Len(scopes') = Len(scopes) + Count(act \in CallActs) - 0 + Count(act \in FrameActs) - 0
  BY <1>7, <1>9, <1>10
<1> QED
  BY <1>3, <1>4, <1>5, <1>6, <1>8, <1>11, AwaitKeeps

-----------------------------------------------------------------------------
(* runStep up to its first await *)

LEMMA EnterFacts ==
  ASSUME EngineInv, NEW s \in Strand, Enters(s)
  PROVE  /\ mode[s] \notin {"unborn", "done"} /\ HasTurn(s)
         /\ Top(s) \notin CallActs \cup FrameActs
         /\ Len(scopes) \in Nat \ {0} /\ callDepth \in Nat
         /\ wf \in Workflow /\ Top(s).step \in Steps
         /\ StepOf(s).kids \in Seq(Steps) /\ Len(StepOf(s).kids) \in Nat
         /\ DOMAIN StepOf(s).kids = 1..Len(StepOf(s).kids)
         /\ StepOf(s).kids # <<>> => 1 \in 1..Len(StepOf(s).kids)
<1> USE DEF EngineInv, CountedInv
<1>1. Running(s) /\ Top(s).at = "enter"
  BY DEF Enters
<1>2. mode[s] = "run"
  BY <1>1, RunningRuns
<1>3. Top(s) \notin CallActs \cup FrameActs
  BY <1>1 DEF CallActs, FrameActs
<1>4. Len(scopes) \in Nat \ {0} /\ callDepth \in Nat
  BY <1>2, FramesHeld
<1>5. wf \in Workflow /\ Top(s).step \in Steps
  BY <1>2, TopTyped DEF Act, StrandInv, StrandsTyped
<1>6. StepOf(s).kids \in Seq(Steps)
  BY <1>5, WorkflowAssumption DEF StepOf, Steps
<1>7. Len(StepOf(s).kids) \in Nat /\ DOMAIN StepOf(s).kids = 1..Len(StepOf(s).kids)
      /\ (StepOf(s).kids # <<>> => Len(StepOf(s).kids) \in Nat \ {0})
  BY <1>6, LenProperties, EmptySeq
<1>8. StepOf(s).kids # <<>> => 1 \in 1..Len(StepOf(s).kids)
  BY <1>7
<1> QED
  BY <1>1, <1>2, <1>3, <1>4, <1>5, <1>6, <1>7, <1>8 DEF HasTurn

LEMMA BeginKeeps ==
  ASSUME EngineInv, NEW s \in Strand, Begin(s) PROVE EngineInv'
<1> USE DEF EngineInv
<1>1. ASSUME Enters(s), Settle(s), callDepth' = callDepth, Len(scopes') = Len(scopes),
             scopes' \in Seq(Frame), failedAt' \in Steps \cup {None}, returning' \in BOOLEAN,
             uncaught' \in BOOLEAN
      PROVE  EngineInv'
  <2>1. CountedInv' /\ Clean' /\ wf' = wf
    BY <1>1, EnterFacts, SettleUncounted
  <2>2. callDepth' \in 0..MaxCallDepth
    BY <1>1 DEF SharedTyped
  <2> QED
    BY <1>1, <2>1, <2>2, SharedNext
<1>2. ASSUME Enters(s), NEW i \in 1..Len(StepOf(s).kids), AwaitKid(s, i),
             callDepth' = callDepth + Count(StepOf(s).kind = "call"),
             Len(scopes') = Len(scopes) + Count(StepOf(s).kind = "call")
                                        + Count(StepOf(s).kind = "scope"),
             callDepth' \in 0..MaxCallDepth, scopes' \in Seq(Frame),
             UNCHANGED <<failedAt, returning, uncaught>>
      PROVE  EngineInv'
  <2>1. CountedInv' /\ Clean' /\ wf' = wf
    BY <1>2, EnterFacts, KidAwaited
  <2>2. failedAt' \in Steps \cup {None} /\ returning' \in BOOLEAN /\ uncaught' \in BOOLEAN
    BY <1>2 DEF SharedTyped
  <2> QED
    BY <1>2, <2>1, <2>2, SharedNext
<1>3. ASSUME Enters(s), StepOf(s).kind \notin {"call", "scope"},
             NEW i \in 1..Len(StepOf(s).kids), AwaitKid(s, i), UNCHANGED <<shared, uncaught>>
      PROVE  EngineInv'
  <2>1. Count(StepOf(s).kind = "call") = 0 /\ Count(StepOf(s).kind = "scope") = 0
    BY <1>3 DEF Count
  <2>2. callDepth' = callDepth + 0 /\ Len(scopes') = Len(scopes) + 0 + 0
    BY <1>3, EnterFacts DEF shared
  <2>3. callDepth' \in 0..MaxCallDepth /\ scopes' \in Seq(Frame)
    BY <1>3 DEF SharedTyped, shared
  <2> QED
    BY <1>2, <1>3, <2>1, <2>2, <2>3 DEF shared
<1>4. CASE SkipStep(s)
  BY <1>1, <1>4 DEF SkipStep, shared, SharedTyped
<1>5. CASE BeginToolCall(s) \/ BeginParallel(s)
  BY <1>5, MarkKeeps
<1>6. CASE SetVar(s)
  <2>1. Enters(s) /\ Settle(s) /\ scopes' = Write(scopes, s)
        /\ UNCHANGED <<failedAt, returning, callDepth, uncaught>>
    BY <1>6 DEF SetVar, Begins
  <2>2. scopes' \in Seq(Frame) /\ Len(scopes') = Len(scopes)
    BY <2>1, EnterFacts, FrameOps DEF SharedTyped
  <2> QED
    BY <1>1, <2>1, <2>2 DEF SharedTyped
<1>7. CASE Return(s)
  BY <1>1, <1>7 DEF Return, Begins, SharedTyped
<1>8. CASE BeginSequence(s)
  <2>1. Enters(s) /\ StepOf(s).kind \notin {"call", "scope"} /\ UNCHANGED <<shared, uncaught>>
        /\ IF StepOf(s).kids = <<>> THEN Settle(s) ELSE AwaitKid(s, 1)
    BY <1>8 DEF BeginSequence, Begins
  <2>2. CASE StepOf(s).kids = <<>>
    BY <2>1, <2>2, <1>1 DEF shared, SharedTyped
  <2>3. CASE StepOf(s).kids # <<>>
    BY <2>1, <2>3, <1>3, EnterFacts
  <2> QED
    BY <2>2, <2>3
<1>9. CASE BeginBranch(s)
  <2>1. Enters(s) /\ StepOf(s).kind \notin {"call", "scope"} /\ UNCHANGED <<shared, uncaught>>
    BY <1>9 DEF BeginBranch, Begins
  <2>2. ASSUME NEW i \in DOMAIN StepOf(s).kids, AwaitKid(s, i) PROVE EngineInv'
    <3>1. i \in 1..Len(StepOf(s).kids)
      BY <2>1, <2>2, EnterFacts
    <3> QED
      BY <2>1, <2>2, <3>1, <1>3
  <2>3. ASSUME Settle(s) PROVE EngineInv'
    BY <2>1, <2>3, <1>1 DEF shared, SharedTyped
  <2> QED
    BY <1>9, <2>2, <2>3 DEF BeginBranch
<1>10. CASE BeginTry(s)
  <2>1. Enters(s) /\ StepOf(s).kind = "try" /\ UNCHANGED <<shared, uncaught>> /\ AwaitKid(s, 1)
    BY <1>10 DEF BeginTry, Begins
  <2>2. 1 \in 1..Len(StepOf(s).kids)
    BY <2>1, EnterFacts, WorkflowAssumption DEF StepOf, Steps
  <2> QED
    BY <2>1, <2>2, <1>3
<1>11. CASE BeginScope(s)
  <2>1. Enters(s) /\ StepOf(s).kind = "scope" /\ AwaitKid(s, 1) /\ scopes' = Push(scopes, s)
        /\ UNCHANGED <<failedAt, returning, callDepth, uncaught>>
    BY <1>11 DEF BeginScope, Begins
  <2>2. 1 \in 1..Len(StepOf(s).kids)
    BY <2>1, EnterFacts, WorkflowAssumption DEF StepOf, Steps
  <2>3. Count(StepOf(s).kind = "call") = 0 /\ Count(StepOf(s).kind = "scope") = 1
    BY <2>1 DEF Count
  <2>4. scopes' \in Seq(Frame) /\ Len(scopes') = Len(scopes) + 1
    BY <2>1, FrameOps DEF SharedTyped
  <2>5. callDepth' = callDepth + 0 /\ Len(scopes') = Len(scopes) + 0 + 1
        /\ callDepth' \in 0..MaxCallDepth
    BY <2>1, <2>4, EnterFacts DEF SharedTyped
  <2> QED
    BY <2>1, <2>2, <2>3, <2>4, <2>5, <1>2
<1>12. CASE BeginCall(s)
  <2>1. Enters(s) /\ StepOf(s).kind = "call" /\ returning' = returning
    BY <1>12 DEF BeginCall, Begins
  <2>2. CASE /\ StepOf(s).kids # <<>> /\ DepthAllows
             /\ scopes' = Push(scopes, s) /\ callDepth' = callDepth + 1
             /\ AwaitKid(s, 1) /\ NoFailure
    <3>1. 1 \in 1..Len(StepOf(s).kids)
      BY <2>1, <2>2, EnterFacts
    <3>2. Count(StepOf(s).kind = "call") = 1 /\ Count(StepOf(s).kind = "scope") = 0
      BY <2>1 DEF Count
    <3>3. scopes' \in Seq(Frame) /\ Len(scopes') = Len(scopes) + 1
      BY <2>2, FrameOps DEF SharedTyped
    <3>4. Len(scopes') = Len(scopes) + 1 + 0
      BY <3>3, <2>1, EnterFacts
    <3>5. callDepth' \in 0..MaxCallDepth
      BY <2>2, WorkflowAssumption DEF SharedTyped, DepthAllows
    <3> QED
      BY <2>1, <2>2, <3>1, <3>2, <3>3, <3>4, <3>5, <1>2 DEF NoFailure
  <2>3. CASE Fail(s) /\ Settle(s) /\ UNCHANGED <<scopes, callDepth>>
    <3>1. failedAt' \in Steps \cup {None} /\ uncaught' \in BOOLEAN
      BY <2>1, <2>3, EnterFacts, FailTyped
    <3> QED
      BY <2>1, <2>3, <3>1, <1>1 DEF SharedTyped
  <2> QED
    BY <1>12, <2>2, <2>3 DEF BeginCall
<1> QED
  BY <1>4, <1>5, <1>6, <1>7, <1>8, <1>9, <1>10, <1>11, <1>12 DEF Begin

-----------------------------------------------------------------------------
(* runStep after an await *)

LEMMA ResumedFacts ==
  ASSUME EngineInv, NEW s \in Strand, now = <<>>, mode[s] \in {"tool", "resume", "join"}
  PROVE  /\ mode[s] \notin {"unborn", "done"} /\ HasTurn(s) /\ ~Running(s)
         /\ Len(scopes) \in Nat \ {0} /\ callDepth \in Nat
         /\ wf \in Workflow /\ Top(s).step \in Steps /\ Top(s) \in Act /\ ActOK(Top(s))
         /\ Top(s).at # "enter"
         /\ mode[s] = "tool" => StepOf(s).kind = "tool_call"
         /\ mode[s] = "join" => StepOf(s).kind = "parallel"
         /\ StepOf(s).kind # "try" => Top(s).at = "body" /\ StepOf(s).finally = None
<1> USE DEF EngineInv, CountedInv
<1>1. mode[s] \notin {"unborn", "done"} /\ HasTurn(s) /\ ~Running(s)
  BY DEF HasTurn, Running
<1>2. Len(scopes) \in Nat \ {0} /\ callDepth \in Nat
  BY <1>1, FramesHeld
<1>3. Top(s) \in Act /\ ActOK(Top(s)) /\ wf \in Workflow
  BY <1>1, TopTyped DEF StrandInv, StrandsTyped
<1>4. Top(s).step \in Steps /\ Top(s).at \in At
  BY <1>3 DEF Act
<1>5. StrandOK(stack[s], mode[s])
  BY DEF StrandInv, Shape
<1>6. /\ Top(s).at # "enter"
      /\ mode[s] = "tool" => StepOf(s).kind = "tool_call"
      /\ mode[s] = "join" => StepOf(s).kind = "parallel"
  BY <1>5 DEF StrandOK, Top, StepOf, StepOfAct
<1>7. StepOf(s).kind # "try" => Top(s).at = "body"
  BY <1>3, <1>4, <1>6 DEF ActOK, At, StepOf, StepOfAct
<1>8. StepOf(s).kind # "try" => StepOf(s).finally = None
  BY <1>3, <1>4, WorkflowAssumption DEF StepOf, Steps
<1> QED
  BY <1>1, <1>2, <1>3, <1>4, <1>6, <1>7, <1>8

\* The end of a try, or the beginning of its finally.
LEMMA FinallyKeeps ==
  ASSUME EngineInv, NEW s \in Strand, Resumed(s), StepOf(s).kind = "try", Finally(s),
         callDepth' = callDepth, Len(scopes') = Len(scopes) - Count(Top(s) \in FrameActs),
         scopes' \in Seq(Frame), uncaught' = uncaught
  PROVE  EngineInv'
<1> USE DEF EngineInv
<1>1. now = <<>> /\ mode[s] = "resume"
  BY DEF Resumed
<1>2. Count(Top(s) \in CallActs) = 0
  BY <1>1, ResumedFacts, TopCounts DEF Count, CountedInv
<1>3. Count(Top(s) \in FrameActs) \in Nat /\ callDepth \in Nat /\ Len(scopes) \in Nat
  BY <1>1, ResumedFacts DEF Count
<1>4. CASE StepOf(s).finally = None
  <2>1. Settle(s) /\ UNCHANGED <<failedAt, returning>>
    BY <1>4 DEF Finally
  <2>2. callDepth' = callDepth - 0 /\ Len(scopes') = Len(scopes) - 0 - Count(Top(s) \in FrameActs)
    BY <1>3
  <2>3. CountedInv' /\ Clean' /\ wf' = wf
    BY <1>1, <1>2, <2>1, <2>2, ResumedFacts, SettleKeeps
  <2> QED
    BY <2>1, <2>3, SharedNext DEF SharedTyped
<1>5. CASE StepOf(s).finally # None
  <2> DEFINE act == [Top(s) EXCEPT !.at = "finally", !.kept = Aside]
  <2>1. Await(s, act, StepOf(s).finally) /\ failedAt' = None /\ returning' = FALSE
    BY <1>5 DEF Finally
  <2>2. StepOf(s).finally \in Steps
    BY <1>1, <1>5, ResumedFacts, WorkflowAssumption DEF StepOf, Steps
  <2>3. Aside \in Kept
    BY DEF Aside, Kept, SharedTyped
  <2>4. act \in Act /\ act.at = "finally" /\ StepOfAct(act) = StepOf(s)
    BY <1>1, <2>3, ResumedFacts DEF Act, At, StepOfAct, StepOf
  <2>5. ActOK(act)
    BY <2>4 DEF ActOK
  <2> HIDE DEF act
  <2>6. Count(act \in CallActs) = 0 /\ Count(act \in FrameActs) = 0
    BY <2>4 DEF Count, CallActs, FrameActs
  <2>7. callDepth' = callDepth + 0 - 0
        /\ Len(scopes') = Len(scopes) + 0 - 0 + 0 - Count(Top(s) \in FrameActs)
    BY <1>3
  <2>8. ~failed' /\ ~returning'
    BY <2>1 DEF failed
  <2>9. CountedInv' /\ Clean' /\ wf' = wf
    BY <1>1, <1>2, <2>1, <2>2, <2>4, <2>5, <2>6, <2>7, <2>8, ResumedFacts, AwaitKeeps
  <2> QED
    BY <2>1, <2>9, SharedNext DEF SharedTyped
<1> QED
  BY <1>4, <1>5

LEMMA GoOnKeeps ==
  ASSUME EngineInv, NEW s \in Strand, GoOn(s) PROVE EngineInv'
<1> USE DEF EngineInv
<1>1. ASSUME now = <<>>, mode[s] \in {"tool", "resume", "join"}, Settle(s),
             Top(s) \notin CallActs \cup FrameActs,
             callDepth' = callDepth, Len(scopes') = Len(scopes),
             scopes' \in Seq(Frame), failedAt' \in Steps \cup {None}, returning' \in BOOLEAN,
             uncaught' \in BOOLEAN
      PROVE  EngineInv'
  <2>1. CountedInv' /\ Clean' /\ wf' = wf
    BY <1>1, ResumedFacts, SettleUncounted
  <2>2. callDepth' \in 0..MaxCallDepth
    BY <1>1 DEF SharedTyped
  <2> QED
    BY <1>1, <2>1, <2>2, SharedNext
<1>2. ASSUME now = <<>>, mode[s] \in {"tool", "resume", "join"},
             StepOf(s).kind \notin {"call", "scope", "try"}
      PROVE  Top(s) \notin CallActs \cup FrameActs
  BY <1>2, ResumedFacts, TopCounts DEF CountedInv
<1>3. CASE ToolSettles(s)
  <2>1. now = <<>> /\ mode[s] = "tool" /\ Settle(s) /\ UNCHANGED <<returning, callDepth>>
        /\ scopes' \in {scopes, Write(scopes, s)} /\ (Fail(s) \/ NoFailure)
    BY <1>3 DEF ToolSettles
  <2>2. Top(s) \notin CallActs \cup FrameActs
    BY <2>1, <1>2, ResumedFacts
  <2>3. scopes' \in Seq(Frame) /\ Len(scopes') = Len(scopes)
    BY <2>1, ResumedFacts, FrameOps DEF SharedTyped
  <2>4. failedAt' \in Steps \cup {None} /\ uncaught' \in BOOLEAN
    BY <2>1, ResumedFacts, FailTyped
  <2> QED
    BY <2>1, <2>2, <2>3, <2>4, <1>1 DEF SharedTyped
<1>4. CASE GoOnBranch(s) \/ Join(s)
  <2>1. now = <<>> /\ mode[s] \in {"tool", "resume", "join"} /\ Settle(s)
        /\ UNCHANGED <<shared, uncaught>> /\ StepOf(s).kind \in {"branch", "parallel"}
    BY <1>4, ResumedFacts DEF GoOnBranch, Join, GoesOn, Resumed
  <2> QED
    BY <2>1, <1>1, <1>2 DEF shared, SharedTyped
<1>5. CASE GoOnSequence(s)
  <2>1. now = <<>> /\ mode[s] = "resume" /\ StepOf(s).kind = "sequence"
        /\ UNCHANGED <<shared, uncaught>>
    BY <1>5 DEF GoOnSequence, GoesOn, Resumed
  <2>2. Top(s) \notin CallActs \cup FrameActs
    BY <2>1, <1>2
  <2>3. CASE Settle(s)
    BY <2>1, <2>2, <2>3, <1>1 DEF shared, SharedTyped
  <2>4. CASE Top(s).i # Len(StepOf(s).kids) /\ AwaitKid(s, Top(s).i + 1)
    <3>1. Top(s).i \in 1..Len(StepOf(s).kids)
      BY <2>1, ResumedFacts DEF ActOK, StepOfAct, StepOf
    <3>2. StepOf(s).kids \in Seq(Steps)
      BY <2>1, ResumedFacts, WorkflowAssumption DEF StepOf, Steps
    <3>3. Top(s).i + 1 \in 1..Len(StepOf(s).kids)
      BY <2>4, <3>1, <3>2, LenProperties
    <3>4. Count(StepOf(s).kind = "call") = 0 /\ Count(StepOf(s).kind = "scope") = 0
      BY <2>1 DEF Count
    <3>5. callDepth' = callDepth + 0 /\ Len(scopes') = Len(scopes) + 0 + 0
      BY <2>1, ResumedFacts DEF shared
    <3>6. CountedInv' /\ Clean' /\ wf' = wf
      BY <2>1, <2>2, <2>4, <3>3, <3>4, <3>5, ResumedFacts, KidAwaited
    <3> QED
      BY <2>1, <3>6, SharedNext DEF shared, SharedTyped
  <2> QED
    BY <1>5, <2>3, <2>4 DEF GoOnSequence
<1>6. CASE EndScope(s)
  <2>1. now = <<>> /\ mode[s] = "resume" /\ StepOf(s).kind = "scope" /\ Settle(s)
        /\ scopes' = Pop(scopes) /\ UNCHANGED <<failedAt, returning, callDepth, uncaught>>
    BY <1>6 DEF EndScope, GoesOn, Resumed
  <2>2. Count(Top(s) \in CallActs) = 0 /\ Count(Top(s) \in FrameActs) = 1
    BY <2>1, ResumedFacts, TopCounts DEF CountedInv, Count
  <2>3. scopes' \in Seq(Frame) /\ Len(scopes') = Len(scopes) - 1
    BY <2>1, ResumedFacts, FrameOps DEF SharedTyped
  <2>4. callDepth' = callDepth - 0 /\ Len(scopes') = Len(scopes) - 0 - 1
    BY <2>1, <2>3, ResumedFacts
  <2>5. CountedInv' /\ Clean' /\ wf' = wf
    BY <2>1, <2>2, <2>4, ResumedFacts, SettleKeeps
  <2> QED
    BY <2>1, <2>3, <2>5, SharedNext DEF SharedTyped
<1>7. CASE EndCall(s)
  <2>1. now = <<>> /\ mode[s] = "resume" /\ StepOf(s).kind = "call" /\ Settle(s)
        /\ scopes' \in {Write(Pop(scopes), s), Pop(scopes)}
        /\ callDepth' = callDepth - 1 /\ returning' = FALSE /\ UNCHANGED <<failedAt, uncaught>>
    BY <1>7 DEF EndCall, GoesOn, Resumed
  <2>2. Top(s) \in CallActs /\ Top(s) \notin FrameActs
    BY <2>1, ResumedFacts, TopCounts DEF CountedInv
  <2>3. callDepth # 0 /\ Len(scopes) - 1 # 0 /\ Len(scopes) \in Nat \ {0}
    BY <2>1, <2>2, ResumedFacts, FramesHeld
  <2>4. Pop(scopes) \in Seq(Frame) /\ Len(Pop(scopes)) = Len(scopes) - 1
    BY <2>3, FrameOps DEF SharedTyped
  <2>5. Write(Pop(scopes), s) \in Seq(Frame) /\ Len(Write(Pop(scopes), s)) = Len(scopes) - 1
    BY <2>3, <2>4, FrameOps
  <2>6. scopes' \in Seq(Frame) /\ Len(scopes') = Len(scopes) - 1
    BY <2>1, <2>4, <2>5
  <2>7. Count(Top(s) \in CallActs) = 1 /\ Count(Top(s) \in FrameActs) = 0
    BY <2>2 DEF Count
  <2>8. callDepth' = callDepth - 1 /\ Len(scopes') = Len(scopes) - 1 - 0
    BY <2>1, <2>3, <2>6
  <2>9. CountedInv' /\ Clean' /\ wf' = wf
    BY <2>1, <2>7, <2>8, ResumedFacts, SettleKeeps
  <2>10. callDepth' \in 0..MaxCallDepth
    BY <2>1, <2>3, WorkflowAssumption DEF SharedTyped
  <2> QED
    BY <2>1, <2>6, <2>9, <2>10, SharedNext DEF SharedTyped
<1>8. CASE EndBody(s)
  <2>1. now = <<>> /\ mode[s] = "resume" /\ StepOf(s).kind = "try" /\ Top(s).at = "body"
        /\ UNCHANGED <<callDepth, uncaught>> /\ Resumed(s)
    BY <1>8 DEF EndBody, GoesOn, Resumed
  <2>2. Count(Top(s) \in CallActs) = 0 /\ Count(Top(s) \in FrameActs) = 0
    BY <2>1, ResumedFacts, TopCounts DEF CountedInv, Count
  <2>3. CASE failed /\ StepOf(s).catch # None
    <3> DEFINE act == [Top(s) EXCEPT !.at = "catch"]
    <3>1. failedAt' = None /\ scopes' = Push(scopes, s) /\ Await(s, act, StepOf(s).catch)
          /\ returning' = returning
      BY <1>8, <2>3 DEF EndBody, AwaitAt
    <3>2. StepOf(s).catch \in Steps
      BY <2>1, <2>3, ResumedFacts, WorkflowAssumption DEF StepOf, Steps
    <3>3. act \in Act /\ act.at = "catch" /\ StepOfAct(act) = StepOf(s)
      BY <2>1, ResumedFacts DEF Act, At, StepOfAct, StepOf
    <3>4. ActOK(act)
      BY <2>1, <3>3 DEF ActOK
    <3> HIDE DEF act
    <3>5. Count(act \in CallActs) = 0 /\ Count(act \in FrameActs) = 1
      BY <2>1, <3>3 DEF Count, CallActs, FrameActs
    <3>6. scopes' \in Seq(Frame) /\ Len(scopes') = Len(scopes) + 1
      BY <3>1, FrameOps DEF SharedTyped
    <3>7. callDepth' = callDepth + 0 - 0 /\ Len(scopes') = Len(scopes) + 0 - 0 + 1 - 0
      BY <2>1, <3>6, ResumedFacts
    <3>8. CountedInv' /\ Clean' /\ wf' = wf
      BY <2>1, <2>2, <3>1, <3>2, <3>3, <3>4, <3>5, <3>7, ResumedFacts, AwaitKeeps
    <3> QED
      BY <2>1, <3>1, <3>6, <3>8, SharedNext DEF SharedTyped
  <2>4. CASE ~(failed /\ StepOf(s).catch # None)
    <3>1. Finally(s) /\ UNCHANGED scopes
      BY <1>8, <2>4 DEF EndBody
    <3>2. Len(scopes') = Len(scopes) - 0 /\ scopes' \in Seq(Frame)
      BY <2>1, <3>1, ResumedFacts DEF SharedTyped
    <3> QED
      BY <2>1, <2>2, <3>1, <3>2, FinallyKeeps
  <2> QED
    BY <2>3, <2>4
<1>9. CASE EndCatch(s)
  <2>1. now = <<>> /\ mode[s] = "resume" /\ StepOf(s).kind = "try" /\ Top(s).at = "catch"
        /\ UNCHANGED <<callDepth, uncaught>> /\ Resumed(s) /\ scopes' = Pop(scopes) /\ Finally(s)
    BY <1>9 DEF EndCatch, GoesOn, Resumed
  <2>2. Count(Top(s) \in FrameActs) = 1
    BY <2>1, ResumedFacts, TopCounts DEF CountedInv, Count
  <2>3. scopes' \in Seq(Frame) /\ Len(scopes') = Len(scopes) - 1
    BY <2>1, ResumedFacts, FrameOps DEF SharedTyped
  <2> QED
    BY <2>1, <2>2, <2>3, FinallyKeeps
<1>10. CASE EndFinally(s)
  <2>1. now = <<>> /\ mode[s] = "resume" /\ StepOf(s).kind = "try" /\ Top(s).at = "finally"
        /\ UNCHANGED <<scopes, callDepth, uncaught>> /\ Settle(s)
        /\ \/ UNCHANGED <<failedAt, returning>>
           \/ (failedAt' = Top(s).kept.failedAt /\ returning' = Top(s).kept.returning)
    BY <1>10 DEF EndFinally, GoesOn, Resumed
  <2>2. Top(s) \notin CallActs \cup FrameActs
    BY <2>1, ResumedFacts, TopCounts DEF CountedInv
  <2>3. Top(s).kept \in Kept
    BY <2>1, ResumedFacts DEF Act
  <2>4. failedAt' \in Steps \cup {None} /\ returning' \in BOOLEAN
    BY <2>1, <2>3 DEF Kept, SharedTyped
  <2> QED
    BY <2>1, <2>2, <2>4, <1>1 DEF SharedTyped
<1> QED
  BY <1>3, <1>4, <1>5, <1>6, <1>7, <1>8, <1>9, <1>10 DEF GoOn

-----------------------------------------------------------------------------
(* The invariant of the engine *)

LEMMA NothingPicked ==
  ASSUME NEW C, \A c \in C : c.at # "enter",
         \A t \in Strand, i \in Nat : i \in 1..Len(stack[t]) => stack[t][i].at = "enter"
  PROVE  Picked(stack, C) = {}
<1> SUFFICES ASSUME NEW a \in Strand \X Nat, a[2] \in 1..Len(stack[a[1]]),
                    stack[a[1]][a[2]] \in C
             PROVE  FALSE
  BY DEF Picked
<1>1. a[1] \in Strand /\ a[2] \in Nat
  OBVIOUS
<1> QED
  BY <1>1

LEMMA EngineInit ==
  ASSUME Init PROVE EngineInv
<1> DEFINE root == Activation(wf.entry)
<1>1. wf \in Workflow /\ MaxStrands \in Nat \ {0} /\ MaxCallDepth \in Nat /\ 1 \in Strand
  BY WorkflowAssumption DEF Init, Strand
<1>2. wf.entry \in Steps /\ None \notin Steps
  BY <1>1, WorkflowAssumption DEF Steps
<1>3. root \in Act /\ root.at = "enter"
  BY <1>2 DEF Activation, Act, Kept, At
<1> HIDE DEF root
<1>4. /\ \A s \in Strand : stack[s] = IF s = 1 THEN <<root>> ELSE <<>>
      /\ \A s \in Strand : mode[s] = IF s = 1 THEN "run" ELSE "unborn"
      /\ now = <<1>>
  BY DEF Init, root
<1>5. /\ <<root>> \in Seq(Act) /\ Len(<<root>>) = 1 /\ <<root>>[1] = root
      /\ <<>> \in Seq(Act) /\ Len(<<>>) = 0
  BY <1>3
<1>6. \A s \in Strand : /\ s = 1 => Len(stack[s]) = 1 /\ stack[s][1].at = "enter"
                        /\ s # 1 => Len(stack[s]) = 0
  BY <1>3, <1>4, <1>5
<1>7. StrandsTyped
  <2>1. stack \in [Strand -> Seq(Act)]
    BY <1>5 DEF Init, root
  <2>2. mode \in [Strand -> Mode] /\ parent \in [Strand -> Strand]
    BY <1>1 DEF Init, Mode
  <2>3. now \in Seq(Strand)
    BY <1>1, <1>4
  <2> QED
    BY <1>1, <2>1, <2>2, <2>3 DEF StrandsTyped
<1>8. Shape
  <2> SUFFICES ASSUME NEW s \in Strand PROVE StrandOK(stack[s], mode[s])
    BY DEF Shape
  <2>1. CASE s = 1
    <3>1. stack[s] = <<root>> /\ mode[s] = "run"
      BY <2>1, <1>4
    <3>2. ActOK(root)
      BY <1>3 DEF ActOK
    <3>3. \A i \in 1..1 : i = 1
      OBVIOUS
    <3> QED
      BY <3>1, <3>2, <3>3, <1>3, <1>5 DEF StrandOK
  <2>2. CASE s # 1
    <3>1. stack[s] = <<>> /\ mode[s] = "unborn"
      BY <2>2, <1>4
    <3> QED
      BY <3>1 DEF StrandOK
  <2> QED
    BY <2>1, <2>2
<1>9. Scheduled
  <2>1. \A t \in Strand : mode[t] = "unborn" <=> t > 1
    BY <1>1, <1>4 DEF Strand
  <2>2. 1 \in 1..MaxStrands
    BY <1>1
  <2>3. Len(now) = 1 /\ now[1] = 1
    BY <1>4
  <2>4. \A i \in 1..Len(now) : i = 1
    BY <2>3
  <2>5. mode[now[1]] = "run"
    BY <2>3, <1>1, <1>4
  <2> QED
    BY <2>1, <2>2, <2>4, <2>5 DEF Scheduled
<1>10. Balanced
  <2>1. \A t \in Strand, i \in Nat : i \in 1..Len(stack[t]) => stack[t][i].at = "enter"
    BY <1>6
  <2>2. \A c \in CallActs \cup FrameActs : c.at # "enter"
    BY DEF CallActs, FrameActs
  <2>3. Picked(stack, CallActs) = {} /\ Picked(stack, FrameActs) = {}
    BY <2>1, <2>2, NothingPicked
  <2>4. IsFiniteSet({}) /\ Cardinality({}) = 0
    BY FS_EmptySet
  <2>5. callDepth = 0 /\ Len(scopes) = 1
    BY DEF Init
  <2> QED
    BY <2>3, <2>4, <2>5 DEF Balanced
<1>11. SharedTyped
  <2>1. [owner |-> 1, writers |-> {}] \in Frame
    BY <1>1 DEF Frame
  <2>2. scopes \in Seq(Frame)
    BY <2>1 DEF Init
  <2>3. callDepth = 0 /\ 0 \in 0..MaxCallDepth
    BY <1>1 DEF Init
  <2>4. failedAt = None /\ returning \in BOOLEAN /\ uncaught \in BOOLEAN
    BY Zenon DEF Init
  <2> QED
    BY <2>2, <2>3, <2>4 DEF SharedTyped
<1>12. Clean
  <2> SUFFICES ASSUME NEW s \in Strand, Len(stack[s]) > 1 PROVE FALSE
    BY DEF Clean
  <2>1. Len(stack[s]) \in {0, 1}
    BY <1>6
  <2> DEFINE n == Len(stack[s])
  <2>2. n \in {0, 1} /\ n > 1
    BY <2>1
  <2> HIDE DEF n
  <2> QED
    BY <2>2
<1> QED
  BY <1>7, <1>8, <1>9, <1>10, <1>11, <1>12 DEF EngineInv, CountedInv, StrandInv

LEMMA EngineStep ==
  ASSUME EngineInv, [Next]_vars PROVE EngineInv'
<1>1. CASE Next
  BY <1>1, BeginKeeps, GoOnKeeps DEF Next
<1>2. CASE UNCHANGED vars
  <2>1. wf' = wf /\ UNCHANGED shared /\ UNCHANGED strands /\ uncaught' = uncaught
    BY <1>2 DEF vars
  <2>2. StrandInv'
    <3>1. StrandsTyped'
      BY <2>1, ActNext DEF strands, EngineInv, CountedInv, StrandInv, StrandsTyped
    <3>2. Shape'
      BY <2>1, ShapeNext DEF strands, EngineInv, CountedInv, StrandInv, Shape
    <3>3. Scheduled'
      BY <2>1 DEF strands, EngineInv, CountedInv, StrandInv, Scheduled
    <3> QED
      BY <3>1, <3>2, <3>3 DEF StrandInv
  <2>3. Balanced'
    BY <2>1 DEF strands, shared, EngineInv, CountedInv, Balanced, Picked, CallActs, FrameActs,
                StepOfAct, Act, Kept, Steps
  <2>4. SharedTyped' /\ Clean'
    BY <2>1 DEF strands, shared, EngineInv, SharedTyped, Clean, Steps, failed
  <2> QED
    BY <2>2, <2>3, <2>4 DEF EngineInv, CountedInv
<1> QED
  BY <1>1, <1>2

LEMMA EngineInvariant == Spec => []EngineInv
<1>1. Init => EngineInv
  BY EngineInit
<1>2. EngineInv /\ [Next]_vars => EngineInv'
  BY EngineStep
<1> QED
  BY <1>1, <1>2, PTL DEF Spec

-----------------------------------------------------------------------------
(* What follows from it *)

\* The engine's state keeps its types: the call depth stays within maxCallDepth, and
\* what it remembers of a step is a step of the workflow that runs (ExecState).
THEOREM EngineTypeCorrect == Spec => []TypeOK
<1>1. EngineInv => TypeOK
  <2> SUFFICES ASSUME EngineInv PROVE TypeOK
    OBVIOUS
  <2> USE DEF EngineInv, CountedInv, StrandInv
  <2>1. ASSUME NEW s \in Strand, NEW i \in DOMAIN stack[s]
        PROVE  stack[s][i].step \in Steps /\ stack[s][i].at \in At
    <3>1. stack[s] \in Seq(Act)
      BY DEF StrandsTyped
    <3>2. stack[s][i] \in Act
      BY <3>1, <2>1
    <3> QED
      BY <3>2 DEF Act
  <2> QED
    BY <2>1 DEF TypeOK, StrandsTyped, SharedTyped
<1> QED
  BY <1>1, EngineInvariant, PTL

\* The activations of a sort are those picked by counting.
LEMMA PickedActivations ==
  ASSUME StrandInv, NEW C
  PROVE  Picked(stack, C) = {a \in Activations : ActivationOf(a) \in C}
<1>1. \A s \in Strand : stack[s] \in Seq(Act) /\ DOMAIN stack[s] = 1..Len(stack[s])
                        /\ Len(stack[s]) \in Nat
  BY LenProperties DEF StrandInv, StrandsTyped
<1>2. \A a : a \in Activations <=> a \in Strand \X Nat /\ a[2] \in 1..Len(stack[a[1]])
  <2>1. \A a : a \in Activations => a \in Strand \X Nat /\ a[2] \in 1..Len(stack[a[1]])
    <3> SUFFICES ASSUME NEW s \in Strand, NEW a \in {s} \X DOMAIN stack[s]
                 PROVE  a \in Strand \X Nat /\ a[2] \in 1..Len(stack[a[1]])
      BY DEF Activations
    <3>1. a = <<a[1], a[2]>> /\ a[1] = s /\ a[2] \in 1..Len(stack[s])
      BY <1>1
    <3>2. a[2] \in Nat
      BY <3>1, <1>1
    <3> QED
      BY <3>1, <3>2
  <2>2. \A a \in Strand \X Nat : a[2] \in 1..Len(stack[a[1]]) => a \in Activations
    <3> SUFFICES ASSUME NEW s \in Strand, NEW i \in Nat, i \in 1..Len(stack[s])
                 PROVE  <<s, i>> \in Activations
      OBVIOUS
    <3>1. <<s, i>> \in {s} \X DOMAIN stack[s]
      BY <1>1
    <3> QED
      BY <3>1 DEF Activations
  <2> QED
    BY <2>1, <2>2
<1> QED
  BY <1>2 DEF Picked, ActivationOf

\* Every frame and every level of the call depth is given back on every way out of a
\* step, whatever the parallel branches do and in whatever order (the finally blocks
\* of runStep, runCall and runTry).
THEOREM FramesAreBalanced == Spec => []FramesBalanced
<1>1. EngineInv => FramesBalanced
  <2> SUFFICES ASSUME EngineInv PROVE FramesBalanced
    OBVIOUS
  <2> USE DEF EngineInv, CountedInv
  <2> DEFINE calls == {a \in Activations : KindOf(a) = "call" /\ ActivationOf(a).at = "body"}
             others == {a \in Activations :
                          \/ KindOf(a) = "scope" /\ ActivationOf(a).at = "body"
                          \/ KindOf(a) = "try" /\ ActivationOf(a).at = "catch"}
  <2>1. \A a \in Activations : ActivationOf(a) \in Act
    <3> SUFFICES ASSUME NEW s \in Strand, NEW a \in {s} \X DOMAIN stack[s]
                 PROVE  stack[a[1]][a[2]] \in Act
      BY DEF Activations, ActivationOf
    <3>1. a[1] = s /\ a[2] \in DOMAIN stack[s] /\ stack[s] \in Seq(Act)
      BY DEF StrandInv, StrandsTyped
    <3> QED
      BY <3>1
  <2>2. Picked(stack, CallActs) = calls
    <3>1. \A a \in Activations :
            ActivationOf(a) \in CallActs <=> KindOf(a) = "call" /\ ActivationOf(a).at = "body"
      BY <2>1 DEF CallActs, KindOf, StepOfAct
    <3> QED
      BY <3>1, PickedActivations
  <2>3. Picked(stack, FrameActs) = others
    <3>1. \A a \in Activations :
            ActivationOf(a) \in FrameActs <=> \/ KindOf(a) = "scope" /\ ActivationOf(a).at = "body"
                                              \/ KindOf(a) = "try" /\ ActivationOf(a).at = "catch"
      BY <2>1 DEF FrameActs, KindOf, StepOfAct
    <3> QED
      BY <3>1, PickedActivations
  <2>4. callDepth = Cardinality(calls) /\ Len(scopes) = 1 + Cardinality(calls) + Cardinality(others)
    BY <2>2, <2>3 DEF Balanced
  <2> QED
    BY <2>4 DEF FramesBalanced
<1> QED
  BY <1>1, EngineInvariant, PTL

\* A step takes an activation away from the strand whose turn it is only.
LEMMA AwaitLeaves ==
  ASSUME StrandInv, NEW s \in Strand, mode[s] \notin {"unborn", "done"}, NEW act, NEW child,
         Await(s, act, child), NEW t \in Strand
  PROVE  ~Leaves(t)
<1>1. stack \in [Strand -> Seq(Act)] /\ stack[s] \in Seq(Act) /\ Len(stack[s]) \in Nat \ {0}
  BY TopTyped DEF StrandInv, StrandsTyped
<1> DEFINE q == [stack[s] EXCEPT ![Len(stack[s])] = act]
<1>2. stack'[t] = IF t = s THEN Append(q, Activation(child)) ELSE stack[t]
  BY <1>1 DEF Await
<1>3. Len(stack'[t]) = IF t = s THEN Len(stack[s]) + 1 ELSE Len(stack[t])
  <2>1. q \in Seq(Act \cup {act}) /\ Len(q) = Len(stack[s])
    BY <1>1
  <2>2. Len(Append(q, Activation(child))) = Len(q) + 1
    BY <2>1
  <2> QED
    BY <1>2, <2>1, <2>2
<1>4. Len(stack[t]) \in Nat
  BY <1>1, LenProperties
<1> QED
  BY <1>3, <1>4 DEF Leaves

\* How a strand may leave its top activation.
LeftInOrder(s) ==
  /\ StepOf(s).finally # None => Top(s).at \in {"enter", "finally"}
  /\ Len(stack[s]) > 1 /\ stack[s][Len(stack[s]) - 1].at = "finally"
       => ~(Top(s).at = "enter" /\ (failed \/ returning))

LEMMA SettleLeaves ==
  ASSUME EngineInv, NEW s \in Strand, mode[s] \notin {"unborn", "done"}, HasTurn(s), Settle(s),
         StepOf(s).finally # None => Top(s).at \in {"enter", "finally"},
         NEW t \in Strand, Leaves(t)
  PROVE  LeftInOrder(t)
<1> USE DEF EngineInv, CountedInv
<1>1. t = s
  <2> SUFFICES ASSUME t # s PROVE FALSE
    OBVIOUS
  <2>1. stack'[t] = stack[t]
    BY SettleEffect
  <2>2. Len(stack[t]) \in Nat
    BY LenProperties DEF StrandInv, StrandsTyped
  <2> DEFINE n == Len(stack[t])
  <2>3. n < n /\ n \in Nat
    BY <2>1, <2>2 DEF Leaves
  <2> HIDE DEF n
  <2> QED
    BY <2>3
<1>2. ASSUME Top(s).at = "enter" PROVE mode[s] = "run"
  <2>1. mode[s] \in Mode /\ StrandOK(stack[s], mode[s])
    BY DEF StrandInv, StrandsTyped, Shape
  <2> QED
    BY <1>2, <2>1 DEF StrandOK, Mode, Top
<1>3. Len(stack[s]) > 1 /\ stack[s][Len(stack[s]) - 1].at = "finally" /\ Top(s).at = "enter"
        => ~failed /\ ~returning
  BY <1>2 DEF Clean
<1> QED
  BY <1>1, <1>3 DEF LeftInOrder

LEMMA SameLength ==
  ASSUME StrandInv, NEW s \in Strand, BeginToolCall(s) \/ BeginParallel(s), NEW t \in Strand
  PROVE  ~Leaves(t)
<1>1. stack[t] \in Seq(Act) /\ Len(stack[t]) \in Nat
  BY LenProperties DEF StrandInv, StrandsTyped
<1>2. Len(stack'[t]) = Len(stack[t]) \/ stack[t] = <<>>
  BY <1>1, EmptySeq, ToolCallEffect, ParallelEffect
<1> QED
  BY <1>1, <1>2 DEF Leaves

LEMMA BeginLeaves ==
  ASSUME EngineInv, NEW s \in Strand, Begin(s), NEW t \in Strand, Leaves(t)
  PROVE  LeftInOrder(t)
<1> USE DEF EngineInv, CountedInv
<1>1. Enters(s)
  BY Zenon DEF Begin, Begins, SkipStep, BeginToolCall, SetVar, Return, BeginSequence, BeginBranch,
         BeginParallel, BeginTry, BeginScope, BeginCall
<1>2. mode[s] \notin {"unborn", "done"} /\ HasTurn(s) /\ Top(s).at = "enter"
  BY <1>1, EnterFacts DEF Enters
<1>3. ~(BeginToolCall(s) \/ BeginParallel(s))
  BY SameLength
<1>4. \A i : ~AwaitKid(s, i)
  BY <1>2, AwaitLeaves DEF AwaitKid
<1>5. Settle(s)
  BY <1>3, <1>4, Zenon DEF Begin, SkipStep, SetVar, Return, BeginSequence, BeginBranch, BeginTry,
         BeginScope, BeginCall
<1> QED
  BY <1>2, <1>5, SettleLeaves

LEMMA GoOnLeaves ==
  ASSUME EngineInv, NEW s \in Strand, GoOn(s), NEW t \in Strand, Leaves(t)
  PROVE  LeftInOrder(t)
<1> USE DEF EngineInv, CountedInv
<1>1. now = <<>> /\ mode[s] \in {"tool", "resume", "join"}
  BY Zenon DEF GoOn, ToolSettles, GoOnSequence, GoOnBranch, Join, EndScope, EndCall, EndBody, EndCatch,
         EndFinally, GoesOn, Resumed
<1>2. mode[s] \notin {"unborn", "done"} /\ HasTurn(s)
  BY <1>1, ResumedFacts
<1>3. \A act, child : ~Await(s, act, child)
  BY <1>2, AwaitLeaves
<1>4. /\ Settle(s)
      /\ \/ StepOf(s).kind # "try"
         \/ StepOf(s).finally = None
         \/ Top(s).at = "finally"
  <2>1. CASE EndBody(s) \/ EndCatch(s)
    <3>1. Finally(s)
      BY <2>1, <1>3 DEF EndBody, EndCatch, AwaitAt
    <3> QED
      BY <3>1, <1>3 DEF Finally
  <2>2. CASE EndFinally(s)
    BY <2>2 DEF EndFinally
  <2>3. CASE ToolSettles(s) \/ Join(s)
    <3>1. mode[s] \in {"tool", "join"} /\ Settle(s)
      BY <2>3 DEF ToolSettles, Join
    <3> QED
      BY <3>1, <1>1, ResumedFacts
  <2>4. CASE GoOnSequence(s)
    BY <2>4, <1>3 DEF GoOnSequence, GoesOn, AwaitKid
  <2>5. CASE GoOnBranch(s) \/ EndScope(s) \/ EndCall(s)
    BY <2>5 DEF GoOnBranch, EndScope, EndCall, GoesOn
  <2> QED
    BY <2>1, <2>2, <2>3, <2>4, <2>5 DEF GoOn
<1>5. StepOf(s).finally # None => Top(s).at = "finally"
  BY <1>1, <1>4, ResumedFacts
<1> QED
  BY <1>2, <1>4, <1>5, SettleLeaves

\* finally runs regardless of the failures and returns of any branch: a try that was
\* entered is left from its finally step, and that step is not short-circuited (runTry).
THEOREM FinallyAlwaysRuns == Spec => FinallyRuns
<1>1. EngineInv /\ [Next]_vars => [\A s \in Strand : Leaves(s) => LeftInOrder(s)]_vars
  BY BeginLeaves, GoOnLeaves DEF Next
<1>2. (\A s \in Strand : Leaves(s) => LeftInOrder(s))
        <=> \A s \in Strand : Leaves(s) =>
              /\ StepOf(s).finally # None => Top(s).at \in {"enter", "finally"}
              /\ Len(stack[s]) > 1 /\ stack[s][Len(stack[s]) - 1].at = "finally"
                   => ~(Top(s).at = "enter" /\ (failed \/ returning))
  BY DEF LeftInOrder
<1>3. EngineInv /\ [Next]_vars =>
        [\A s \in Strand : Leaves(s) =>
           /\ StepOf(s).finally # None => Top(s).at \in {"enter", "finally"}
           /\ Len(stack[s]) > 1 /\ stack[s][Len(stack[s]) - 1].at = "finally"
                => ~(Top(s).at = "enter" /\ (failed \/ returning))]_vars
  BY <1>1, <1>2
<1> QED
  BY <1>3, EngineInvariant, PTL DEF Spec, FinallyRuns

-----------------------------------------------------------------------------
(* Failures of a workflow without parallel steps *)

\* The first strand is the only one.
Alone == parent[1] = 1 /\ \A t \in Strand \ {1} : mode[t] = "unborn"

\* One of the first m activations catches; one of them has put a failure aside that no
\* activation below it catches.
Held(st, m) == \E i \in 1..m : Catches(st[i])
PutAside(act) == act.at = "finally" /\ act.kept.failedAt # None
Owed(st, m) == \E i \in 1..m : PutAside(st[i]) /\ ~Held(st, i - 1)

\* The failure that nobody catches is the current one or is put aside in some finally.
Accounted ==
  uncaught = ((failed /\ ~Held(stack[1], Len(stack[1]))) \/ Owed(stack[1], Len(stack[1])))

AccountInv == Sequential => Alone /\ Accounted

LEMMA AccountedNext ==
  ASSUME wf' = wf
  PROVE  Accounted' <=> uncaught' = ((failed' /\ ~Held(stack'[1], Len(stack'[1])))
                                       \/ Owed(stack'[1], Len(stack'[1])))
BY DEF Accounted, Held, Owed, PutAside, Catches

\* What the top activation adds.
LEMMA HeldParts ==
  ASSUME NEW st, NEW n \in Nat \ {0}
  PROVE  /\ Held(st, n) <=> Held(st, n - 1) \/ Catches(st[n])
         /\ Owed(st, n) <=> Owed(st, n - 1) \/ (PutAside(st[n]) /\ ~Held(st, n - 1))
<1>1. \A i : i \in 1..n <=> i \in 1..(n - 1) \/ i = n
  OBVIOUS
<1> QED
  BY <1>1 DEF Held, Owed

\* The activations below the top one count the same.
LEMMA HeldSame ==
  ASSUME NEW old, NEW new, NEW m \in Nat, \A i \in 1..m : new[i] = old[i]
  PROVE  (Held(new, m) <=> Held(old, m)) /\ (Owed(new, m) <=> Owed(old, m))
<1>1. \A l \in 0..m : Held(new, l) <=> Held(old, l)
  <2> SUFFICES ASSUME NEW l \in 0..m PROVE Held(new, l) <=> Held(old, l)
    OBVIOUS
  <2>1. \A i \in 1..l : new[i] = old[i]
    OBVIOUS
  <2> QED
    BY <2>1 DEF Held
<1>2. \A i \in 1..m : i - 1 \in 0..m
  OBVIOUS
<1> QED
  BY <1>1, <1>2 DEF Owed, PutAside

LEMMA AloneActs ==
  ASSUME EngineInv, Alone, NEW s \in Strand, mode[s] \notin {"unborn", "done"}
  PROVE  /\ s = 1 /\ Enclosing(1) = {1}
         /\ Caught(1) <=> Held(stack[1], Len(stack[1]))
         /\ Len(stack[1]) \in Nat \ {0}
<1>1. s = 1
  BY DEF Alone
<1>2. Enclosing(1) = {1}
  <2>1. \A t \in Enclosing(1) : t \in {1}
    <3> SUFFICES ASSUME NEW t \in Enclosing(1) PROVE t \in {1}
      OBVIOUS
    <3>1. {1} \in SUBSET Strand /\ 1 \in {1} /\ \A u \in {1} \ {1} : parent[u] \in {1}
      BY <1>1
    <3> QED
      BY <3>1 DEF Enclosing
  <2>2. 1 \in Enclosing(1)
    BY <1>1 DEF Enclosing
  <2> QED
    BY <2>1, <2>2
<1>3. stack[1] \in Seq(Act) /\ Len(stack[1]) \in Nat \ {0}
  BY <1>1, TopTyped DEF EngineInv, CountedInv
<1>4. DOMAIN stack[1] = 1..Len(stack[1])
  BY <1>3, LenProperties
<1>5. Caught(1) <=> Held(stack[1], Len(stack[1]))
  BY <1>2, <1>4 DEF Caught, Held
<1> QED
  BY <1>1, <1>2, <1>3, <1>5

\* What is accounted for before a step of the strand, by its top activation.
LEMMA AccountedBefore ==
  ASSUME EngineInv, Alone, Accounted, mode[1] \notin {"unborn", "done"}, 1 \in Strand,
         NEW n, n = Len(stack[1])
  PROVE  uncaught = (\/ failed /\ ~Held(stack[1], n - 1) /\ ~Catches(Top(1))
                     \/ Owed(stack[1], n - 1)
                     \/ PutAside(Top(1)) /\ ~Held(stack[1], n - 1))
<1>1. n \in Nat \ {0}
  BY AloneActs
<1> QED
  BY <1>1, HeldParts DEF Accounted, Top

LEMMA SettleAccounts ==
  ASSUME EngineInv, Alone, 1 \in Strand, mode[1] \notin {"unborn", "done"}, HasTurn(1), Settle(1),
         NEW n, n = Len(stack[1]),
         uncaught' = ((failed' /\ ~Held(stack[1], n - 1)) \/ Owed(stack[1], n - 1))
  PROVE  Alone' /\ Accounted'
<1>1. /\ wf' = wf
      /\ \A t \in Strand \ {1} : mode'[t] = mode[t]
      /\ Len(stack'[1]) = n - 1
      /\ \A i \in 1..(n - 1) : stack'[1][i] = stack[1][i]
  BY SettleEffect DEF EngineInv, CountedInv
<1>2. n - 1 \in Nat
  BY AloneActs
<1>3. /\ Held(stack'[1], n - 1) <=> Held(stack[1], n - 1)
      /\ Owed(stack'[1], n - 1) <=> Owed(stack[1], n - 1)
  BY <1>1, <1>2, HeldSame
<1>4. Accounted'
  BY <1>1, <1>3, AccountedNext
<1>5. parent' = parent
  BY DEF Settle
<1> QED
  BY <1>1, <1>4, <1>5 DEF Alone

LEMMA ChangeAccounts ==
  ASSUME EngineInv, Alone, 1 \in Strand, mode[1] \notin {"unborn", "done"},
         wf' = wf, parent' = parent, \A t \in Strand \ {1} : mode'[t] = mode[t],
         NEW n, n = Len(stack[1]), \A i \in 1..(n - 1) : stack'[1][i] = stack[1][i],
         \/ Len(stack'[1]) = n
         \/ Len(stack'[1]) = n + 1 /\ stack'[1][n + 1].at = "enter",
         NEW act, act = stack'[1][n],
         uncaught' = (\/ failed' /\ ~Held(stack[1], n - 1) /\ ~Catches(act)
                      \/ Owed(stack[1], n - 1)
                      \/ PutAside(act) /\ ~Held(stack[1], n - 1))
  PROVE  Alone' /\ Accounted'
<1>1. n \in Nat \ {0} /\ n - 1 \in Nat /\ n + 1 \in Nat \ {0} /\ n + 1 - 1 = n
  BY AloneActs
<1>2. /\ Held(stack'[1], n - 1) <=> Held(stack[1], n - 1)
      /\ Owed(stack'[1], n - 1) <=> Owed(stack[1], n - 1)
  BY <1>1, HeldSame
<1>3. /\ Held(stack'[1], n) <=> Held(stack[1], n - 1) \/ Catches(act)
      /\ Owed(stack'[1], n) <=> Owed(stack[1], n - 1) \/ (PutAside(act) /\ ~Held(stack[1], n - 1))
  BY <1>1, <1>2, HeldParts
<1>4. /\ Held(stack'[1], Len(stack'[1])) <=> Held(stack'[1], n)
      /\ Owed(stack'[1], Len(stack'[1])) <=> Owed(stack'[1], n)
  <2>1. CASE Len(stack'[1]) = n
    BY <2>1
  <2>2. CASE Len(stack'[1]) = n + 1 /\ stack'[1][n + 1].at = "enter"
    <3>1. ~Catches(stack'[1][n + 1]) /\ ~PutAside(stack'[1][n + 1])
      BY <2>2 DEF Catches, PutAside
    <3>2. /\ Held(stack'[1], n + 1) <=> Held(stack'[1], n + 1 - 1) \/ Catches(stack'[1][n + 1])
          /\ Owed(stack'[1], n + 1) <=> \/ Owed(stack'[1], n + 1 - 1)
                                        \/ PutAside(stack'[1][n + 1]) /\ ~Held(stack'[1], n + 1 - 1)
      BY <1>1, HeldParts
    <3> QED
      BY <1>1, <2>2, <3>1, <3>2
  <2> QED
    BY <2>1, <2>2
<1>5. Accounted'
  BY <1>3, <1>4, AccountedNext
<1> QED
  BY <1>5 DEF Alone

LEMMA AwaitAccounts ==
  ASSUME EngineInv, Alone, 1 \in Strand, mode[1] \notin {"unborn", "done"}, HasTurn(1),
         NEW act \in Act, ActOK(act), act.at # "enter", NEW child \in Steps, Await(1, act, child),
         NEW n, n = Len(stack[1]),
         uncaught' = (\/ failed' /\ ~Held(stack[1], n - 1) /\ ~Catches(act)
                      \/ Owed(stack[1], n - 1)
                      \/ PutAside(act) /\ ~Held(stack[1], n - 1))
  PROVE  Alone' /\ Accounted'
<1>1. /\ wf' = wf
      /\ \A t \in Strand \ {1} : mode'[t] = mode[t]
      /\ Len(stack'[1]) = n + 1
      /\ \A i \in 1..(n - 1) : stack'[1][i] = stack[1][i]
      /\ stack'[1][n] = act
      /\ stack'[1][n + 1] = Activation(child)
  BY AwaitEffect DEF EngineInv, CountedInv
<1>2. stack'[1][n + 1].at = "enter"
  BY <1>1 DEF Activation
<1>3. parent' = parent
  BY DEF Await
<1> QED
  BY <1>1, <1>2, <1>3, ChangeAccounts

\* Only a try catches, and only in its body.
LEMMA OnlyTryCatches ==
  ASSUME wf \in Workflow, NEW act, act.step \in Steps, wf.steps[act.step].kind # "try"
  PROVE  ~Catches(act)
<1>1. wf.steps[act.step].catch = None
  BY WorkflowAssumption DEF Steps
<1> QED
  BY <1>1 DEF Catches

LEMMA BeginAccounts ==
  ASSUME EngineInv, Sequential, Alone, Accounted, NEW s \in Strand, Begin(s)
  PROVE  Alone' /\ Accounted'
<1> USE DEF EngineInv, CountedInv
<1> DEFINE n == Len(stack[1])
           H == Held(stack[1], n - 1)
           O == Owed(stack[1], n - 1)
<1>1. Enters(s)
  BY Zenon DEF Begin, Begins, SkipStep, BeginToolCall, SetVar, Return, BeginSequence, BeginBranch,
         BeginParallel, BeginTry, BeginScope, BeginCall
<1>2. mode[s] \notin {"unborn", "done"} /\ HasTurn(s) /\ Top(s).at = "enter"
  BY <1>1, EnterFacts DEF Enters
<1>3. s = 1
  BY <1>2, AloneActs
<1>4. /\ 1 \in Strand /\ mode[1] \notin {"unborn", "done"} /\ HasTurn(1) /\ Enters(1)
      /\ Top(1).at = "enter"
  BY <1>1, <1>2, <1>3
<1>5. ~Catches(Top(1)) /\ ~PutAside(Top(1))
  BY <1>4 DEF Catches, PutAside
<1>6. uncaught = ((failed /\ ~H) \/ O)
  <2>1. uncaught = (\/ failed /\ ~H /\ ~Catches(Top(1))
                    \/ O
                    \/ PutAside(Top(1)) /\ ~H)
    BY <1>4, AccountedBefore
  <2> QED
    BY <1>5, <2>1
<1>7. ASSUME Settle(1), UNCHANGED <<failedAt, uncaught>> PROVE Alone' /\ Accounted'
  <2>1. uncaught' = ((failed' /\ ~H) \/ O)
    BY <1>6, <1>7 DEF failed
  <2> QED
    BY <1>4, <1>7, <2>1, SettleAccounts
<1>8. ASSUME ~failed, NEW i \in 1..Len(StepOf(1).kids), AwaitKid(1, i),
             UNCHANGED <<failedAt, uncaught>>
      PROVE  Alone' /\ Accounted'
  <2> DEFINE act == [Top(1) EXCEPT !.at = "body", !.i = i]
  <2>1. Await(1, act, StepOf(1).kids[i])
    BY <1>8 DEF AwaitKid
  <2>2. StepOf(1).kids \in Seq(Steps) /\ Top(1) \in Act
    BY <1>4, EnterFacts, TopTyped
  <2>3. StepOf(1).kids[i] \in Steps /\ i \in Nat
    BY <2>2, <1>8, LenProperties, ElementOfSeq
  <2>4. act \in Act /\ act.at = "body" /\ StepOfAct(act) = StepOf(1) /\ act.i = i
    BY <2>2, <2>3 DEF Act, At, StepOfAct, StepOf
  <2>5. ActOK(act)
    BY <2>4, <1>8 DEF ActOK
  <2> HIDE DEF act
  <2>6. ~PutAside(act) /\ ~failed'
    BY <2>4, <1>8 DEF PutAside, failed
  <2>7. uncaught' = (\/ failed' /\ ~H /\ ~Catches(act)
                     \/ O
                     \/ PutAside(act) /\ ~H)
    BY <1>6, <1>8, <2>6
  <2> QED
    BY <1>4, <2>1, <2>3, <2>4, <2>5, <2>7, AwaitAccounts
<1> HIDE DEF n, H, O
<1>9. CASE SkipStep(1) \/ SetVar(1) \/ Return(1)
  BY <1>7, <1>9, Zenon DEF SkipStep, SetVar, Return, shared
<1>10. CASE BeginToolCall(1)
  <2>1. /\ wf' = wf
        /\ \A t \in Strand \ {1} : mode'[t] = mode[t]
        /\ Len(stack'[1]) = n
        /\ \A i \in 1..(n - 1) : stack'[1][i] = stack[1][i]
        /\ stack'[1][n] = [Top(1) EXCEPT !.at = "body"]
    BY <1>4, <1>10, ToolCallEffect DEF n
  <2>2. parent' = parent /\ failedAt' = failedAt /\ uncaught' = uncaught /\ ~failed
    BY <1>10 DEF BeginToolCall, Begins, shared
  <2>3. ~PutAside(stack'[1][n])
    <3>1. Top(1) \in Act
      BY <1>4, TopTyped
    <3> QED
      BY <2>1, <3>1 DEF PutAside, Act
  <2>4. uncaught' = (\/ failed' /\ ~H /\ ~Catches(stack'[1][n])
                     \/ O
                     \/ PutAside(stack'[1][n]) /\ ~H)
    BY <1>6, <2>2, <2>3 DEF failed
  <2> QED
    BY <1>4, <2>1, <2>2, <2>4, ChangeAccounts DEF n, H, O
<1>11. CASE BeginSequence(1) \/ BeginBranch(1)
  <2>1. ~failed /\ UNCHANGED <<failedAt, uncaught>>
    BY <1>11, Zenon DEF BeginSequence, BeginBranch, Begins, shared
  <2>2. Settle(1) \/ \E i \in DOMAIN StepOf(1).kids : AwaitKid(1, i)
    <3>1. StepOf(1).kids # <<>> => 1 \in DOMAIN StepOf(1).kids
      BY <1>4, EnterFacts
    <3>2. CASE BeginSequence(1)
      BY <3>1, <3>2, Zenon DEF BeginSequence
    <3>3. CASE BeginBranch(1)
      BY <3>3, Zenon DEF BeginBranch
    <3> QED
      BY <1>11, <3>2, <3>3
  <2>3. DOMAIN StepOf(1).kids = 1..Len(StepOf(1).kids)
    BY <1>4, EnterFacts
  <2> QED
    BY <1>7, <1>8, <2>1, <2>2, <2>3
<1>12. CASE BeginParallel(1)
  <2>1. StepOf(1).kind = "parallel"
    BY <1>12 DEF BeginParallel, Begins
  <2>2. Top(1).step \in Steps
    BY <1>4, EnterFacts
  <2> QED
    BY <2>1, <2>2 DEF Sequential, StepOf
<1>13. CASE BeginTry(1) \/ BeginScope(1)
  <2>1. ~failed /\ UNCHANGED <<failedAt, uncaught>> /\ AwaitKid(1, 1) /\ StepOf(1).kind \in {"try", "scope"}
    BY <1>13 DEF BeginTry, BeginScope, Begins, shared
  <2>2. wf \in Workflow /\ Top(1).step \in Steps
    BY <1>4, EnterFacts
  <2>3. StepOf(1).kids # <<>>
    BY <2>1, <2>2, WorkflowAssumption DEF StepOf, Steps
  <2>4. 1 \in 1..Len(StepOf(1).kids)
    BY <1>4, <2>3, EnterFacts
  <2> QED
    BY <1>8, <2>1, <2>4
<1>14. CASE BeginCall(1)
  <2>1. ~failed
    BY <1>14 DEF BeginCall, Begins
  <2>2. CASE StepOf(1).kids # <<>> /\ AwaitKid(1, 1) /\ NoFailure
    <3>1. 1 \in 1..Len(StepOf(1).kids)
      BY <1>4, <2>2, EnterFacts
    <3> QED
      BY <1>8, <2>1, <2>2, <3>1 DEF NoFailure
  <2>3. CASE Fail(1) /\ Settle(1)
    <3>1. failedAt' = Top(1).step /\ uncaught' = (uncaught \/ ~Caught(1))
      BY <2>3 DEF Fail
    <3>2. failed'
      <4>1. wf \in Workflow /\ Top(1).step \in Steps
        BY <1>4, EnterFacts
      <4> QED
        BY <3>1, <4>1, WorkflowAssumption DEF failed, Steps
    <3>3. Caught(1) <=> H
      <4>1. n \in Nat \ {0} /\ (Caught(1) <=> Held(stack[1], n))
        BY <1>4, AloneActs DEF n
      <4>2. Held(stack[1], n) <=> H \/ Catches(stack[1][n])
        BY <4>1, HeldParts DEF H
      <4> QED
        BY <1>5, <4>1, <4>2 DEF Top, n
    <3>4. uncaught' = ((failed' /\ ~H) \/ O)
      BY <1>6, <3>1, <3>2, <3>3
    <3> QED
      BY <1>4, <2>3, <3>4, SettleAccounts DEF n, H, O
  <2> QED
    BY <1>14, <2>2, <2>3 DEF BeginCall
<1> QED
  BY <1>3, <1>9, <1>10, <1>11, <1>12, <1>13, <1>14 DEF Begin

LEMMA FinallyAccounts ==
  ASSUME EngineInv, Alone, 1 \in Strand, Resumed(1), StepOf(1).kind = "try", Finally(1),
         uncaught' = uncaught,
         NEW n, n = Len(stack[1]),
         uncaught = ((failed /\ ~Held(stack[1], n - 1)) \/ Owed(stack[1], n - 1))
  PROVE  Alone' /\ Accounted'
<1> USE DEF EngineInv, CountedInv
<1>1. now = <<>> /\ mode[1] = "resume"
  BY DEF Resumed
<1>2. mode[1] \notin {"unborn", "done"} /\ HasTurn(1)
  BY <1>1, ResumedFacts
<1>3. CASE StepOf(1).finally = None
  <2>1. Settle(1) /\ failedAt' = failedAt
    BY <1>3 DEF Finally
  <2>2. uncaught' = ((failed' /\ ~Held(stack[1], n - 1)) \/ Owed(stack[1], n - 1))
    BY <2>1 DEF failed
  <2> QED
    BY <1>2, <2>1, <2>2, SettleAccounts
<1>4. CASE StepOf(1).finally # None
  <2> DEFINE act == [Top(1) EXCEPT !.at = "finally", !.kept = Aside]
  <2>1. Await(1, act, StepOf(1).finally) /\ failedAt' = None
    BY <1>4 DEF Finally
  <2>2. StepOf(1).finally \in Steps
    BY <1>1, <1>4, ResumedFacts, WorkflowAssumption DEF StepOf, Steps
  <2>3. Aside \in Kept
    BY DEF Aside, Kept, SharedTyped
  <2>4. act \in Act /\ act.at = "finally" /\ StepOfAct(act) = StepOf(1) /\ act.kept = Aside
    BY <1>1, <2>3, ResumedFacts DEF Act, At, StepOfAct, StepOf
  <2>5. ActOK(act)
    BY <2>4 DEF ActOK
  <2> HIDE DEF act
  <2>6. (PutAside(act) <=> failed) /\ ~failed'
    BY <2>1, <2>4 DEF PutAside, Aside, failed
  <2>7. uncaught' = (\/ failed' /\ ~Held(stack[1], n - 1) /\ ~Catches(act)
                     \/ Owed(stack[1], n - 1)
                     \/ PutAside(act) /\ ~Held(stack[1], n - 1))
    BY <2>6
  <2> QED
    BY <1>2, <2>1, <2>2, <2>4, <2>5, <2>7, AwaitAccounts
<1> QED
  BY <1>3, <1>4

LEMMA GoOnAccounts ==
  ASSUME EngineInv, Alone, Accounted, NEW s \in Strand, GoOn(s)
  PROVE  Alone' /\ Accounted'
<1> USE DEF EngineInv, CountedInv
<1> DEFINE n == Len(stack[1])
           H == Held(stack[1], n - 1)
           O == Owed(stack[1], n - 1)
<1>1. now = <<>> /\ mode[s] \in {"tool", "resume", "join"}
  BY Zenon DEF GoOn, ToolSettles, GoOnSequence, GoOnBranch, Join, EndScope, EndCall, EndBody, EndCatch,
         EndFinally, GoesOn, Resumed
<1>2. s = 1
  BY <1>1, ResumedFacts, AloneActs
<1>3. /\ 1 \in Strand /\ mode[1] \notin {"unborn", "done"} /\ HasTurn(1)
      /\ mode[1] \in {"tool", "resume", "join"}
  BY <1>1, <1>2, ResumedFacts
<1>4. /\ wf \in Workflow /\ Top(1).step \in Steps /\ Top(1) \in Act /\ ActOK(Top(1))
      /\ mode[1] = "tool" => StepOf(1).kind = "tool_call"
      /\ mode[1] = "join" => StepOf(1).kind = "parallel"
      /\ StepOf(1).kind # "try" => Top(1).at = "body"
  BY <1>1, <1>3, ResumedFacts
<1>5. uncaught = (\/ failed /\ ~H /\ ~Catches(Top(1))
                  \/ O
                  \/ PutAside(Top(1)) /\ ~H)
  BY <1>3, AccountedBefore
<1>6. StepOf(1).kind # "try" => ~Catches(Top(1)) /\ ~PutAside(Top(1))
  BY <1>4, OnlyTryCatches DEF StepOf, PutAside
<1> HIDE DEF n, H, O
<1>7. ASSUME Settle(1), StepOf(1).kind # "try", UNCHANGED <<failedAt, uncaught>>
      PROVE  Alone' /\ Accounted'
  <2>1. uncaught' = ((failed' /\ ~H) \/ O)
    BY <1>5, <1>6, <1>7 DEF failed
  <2> QED
    BY <1>3, <1>7, <2>1, SettleAccounts DEF n, H, O
<1>8. CASE ToolSettles(1)
  <2>1. mode[1] = "tool" /\ Settle(1) /\ (Fail(1) \/ NoFailure)
    BY <1>8 DEF ToolSettles
  <2>2. StepOf(1).kind # "try"
    BY <1>4, <2>1
  <2>3. CASE NoFailure
    BY <1>7, <2>1, <2>2, <2>3 DEF NoFailure
  <2>4. CASE Fail(1)
    <3>1. failedAt' = Top(1).step /\ uncaught' = (uncaught \/ ~Caught(1))
      BY <2>4 DEF Fail
    <3>2. failed'
      BY <1>4, <3>1, WorkflowAssumption DEF failed, Steps
    <3>3. Caught(1) <=> H
      <4>1. n \in Nat \ {0} /\ (Caught(1) <=> Held(stack[1], n))
        BY <1>3, AloneActs DEF n
      <4>2. Held(stack[1], n) <=> H \/ Catches(stack[1][n])
        BY <4>1, HeldParts DEF H
      <4> QED
        BY <1>6, <2>2, <4>1, <4>2 DEF Top, n
    <3>4. uncaught' = ((failed' /\ ~H) \/ O)
      BY <1>5, <1>6, <2>2, <3>1, <3>2, <3>3
    <3> QED
      BY <1>3, <2>1, <3>4, SettleAccounts DEF n, H, O
  <2> QED
    BY <2>1, <2>3, <2>4
<1>9. CASE GoOnSequence(1)
  <2>1. StepOf(1).kind = "sequence" /\ UNCHANGED <<failedAt, uncaught>>
    BY <1>9 DEF GoOnSequence, GoesOn, shared
  <2>2. CASE Settle(1)
    BY <1>7, <2>1, <2>2
  <2>3. CASE AwaitKid(1, Top(1).i + 1) /\ ~Settle(1)
    <3> DEFINE i == Top(1).i + 1
               act == [Top(1) EXCEPT !.at = "body", !.i = i]
    <3>1. ~failed /\ Top(1).i # Len(StepOf(1).kids)
      BY <1>9, <2>3 DEF GoOnSequence
    <3>2. StepOf(1).kids \in Seq(Steps) /\ Len(StepOf(1).kids) \in Nat
      BY <1>4, WorkflowAssumption, LenProperties DEF StepOf, Steps
    <3>3. Top(1).i \in 1..Len(StepOf(1).kids)
      BY <1>4, <2>1 DEF ActOK, StepOf, StepOfAct
    <3>4. i \in 1..Len(StepOf(1).kids) /\ i \in Nat
      BY <3>1, <3>2, <3>3
    <3>5. StepOf(1).kids[i] \in Steps
      BY <3>2, <3>4, ElementOfSeq
    <3>6. Await(1, act, StepOf(1).kids[i])
      BY <2>3 DEF AwaitKid
    <3> HIDE DEF i
    <3>7. act \in Act /\ act.at = "body" /\ StepOfAct(act) = StepOf(1) /\ act.i = i
      BY <1>4, <3>4 DEF Act, At, StepOfAct, StepOf
    <3>8. ActOK(act)
      BY <3>7, <3>4 DEF ActOK
    <3> HIDE DEF act
    <3>9. ~PutAside(act) /\ ~failed'
      BY <2>1, <3>1, <3>7 DEF PutAside, failed
    <3>10. uncaught' = (\/ failed' /\ ~H /\ ~Catches(act)
                        \/ O
                        \/ PutAside(act) /\ ~H)
      BY <1>5, <1>6, <2>1, <3>1, <3>9
    <3> QED
      BY <1>3, <3>5, <3>6, <3>7, <3>8, <3>10, AwaitAccounts DEF n, H, O
  <2> QED
    BY <1>9, <2>2, <2>3 DEF GoOnSequence
<1>10. CASE GoOnBranch(1) \/ EndScope(1) \/ EndCall(1)
  <2>1. Settle(1) /\ StepOf(1).kind # "try" /\ UNCHANGED <<failedAt, uncaught>>
    BY <1>10 DEF GoOnBranch, EndScope, EndCall, GoesOn, shared
  <2> QED
    BY <1>7, <2>1
<1>11. CASE Join(1)
  <2>1. mode[1] = "join" /\ Settle(1) /\ UNCHANGED <<failedAt, uncaught>>
    BY <1>11 DEF Join, shared
  <2> QED
    BY <1>4, <1>7, <2>1
<1>12. CASE EndBody(1)
  <2>1. /\ Resumed(1) /\ StepOf(1).kind = "try" /\ Top(1).at = "body" /\ uncaught' = uncaught
    BY <1>12 DEF EndBody, GoesOn
  <2>2. ~PutAside(Top(1)) /\ (Catches(Top(1)) <=> StepOf(1).catch # None)
    BY <2>1 DEF PutAside, Catches, StepOf
  <2>3. CASE failed /\ StepOf(1).catch # None
    <3> DEFINE act == [Top(1) EXCEPT !.at = "catch"]
    <3>1. failedAt' = None /\ Await(1, act, StepOf(1).catch)
      BY <1>12, <2>3 DEF EndBody, AwaitAt
    <3>2. StepOf(1).catch \in Steps
      BY <1>4, <2>3, WorkflowAssumption DEF StepOf, Steps
    <3>3. act \in Act /\ act.at = "catch" /\ StepOfAct(act) = StepOf(1)
      BY <1>4 DEF Act, At, StepOfAct, StepOf
    <3>4. ActOK(act)
      BY <2>1, <3>3 DEF ActOK
    <3> HIDE DEF act
    <3>5. ~PutAside(act) /\ ~failed'
      BY <3>1, <3>3 DEF PutAside, failed
    <3>6. uncaught' = (\/ failed' /\ ~H /\ ~Catches(act)
                       \/ O
                       \/ PutAside(act) /\ ~H)
      BY <1>5, <2>1, <2>2, <2>3, <3>5
    <3> QED
      BY <1>3, <3>1, <3>2, <3>3, <3>4, <3>6, AwaitAccounts DEF n, H, O
  <2>4. CASE ~(failed /\ StepOf(1).catch # None)
    <3>1. Finally(1)
      BY <1>12, <2>4 DEF EndBody
    <3>2. uncaught = ((failed /\ ~H) \/ O)
      BY <1>5, <2>2, <2>4
    <3> QED
      BY <1>3, <2>1, <3>1, <3>2, FinallyAccounts DEF n, H, O
  <2> QED
    BY <2>3, <2>4
<1>13. CASE EndCatch(1)
  <2>1. /\ Resumed(1) /\ StepOf(1).kind = "try" /\ Top(1).at = "catch" /\ uncaught' = uncaught
        /\ Finally(1)
    BY <1>13 DEF EndCatch, GoesOn
  <2>2. ~PutAside(Top(1)) /\ ~Catches(Top(1))
    BY <2>1 DEF PutAside, Catches
  <2>3. uncaught = ((failed /\ ~H) \/ O)
    BY <1>5, <2>2
  <2> QED
    BY <1>3, <2>1, <2>3, FinallyAccounts DEF n, H, O
<1>14. CASE EndFinally(1)
  <2>1. /\ Settle(1) /\ Top(1).at = "finally" /\ uncaught' = uncaught
        /\ failed => failedAt' = failedAt
        /\ ~failed => failedAt' = Top(1).kept.failedAt
    BY <1>14 DEF EndFinally
  <2>2. ~Catches(Top(1)) /\ (PutAside(Top(1)) <=> Top(1).kept.failedAt # None)
    BY <2>1 DEF PutAside, Catches
  <2>3. failed' <=> failed \/ PutAside(Top(1))
    BY <2>1, <2>2 DEF failed
  <2>4. uncaught' = ((failed' /\ ~H) \/ O)
    BY <1>5, <2>1, <2>2, <2>3
  <2> QED
    BY <1>3, <2>1, <2>4, SettleAccounts DEF n, H, O
<1> QED
  BY <1>2, <1>8, <1>9, <1>10, <1>11, <1>12, <1>13, <1>14 DEF GoOn

\* Without parallel steps, a failure that no enclosing try catches fails the workflow and
\* a caught one does not, through any nesting of catch and finally (runTry).
THEOREM FailuresAccounted == Spec => []FailureAccounted
<1>1. Init => AccountInv
  <2> SUFFICES ASSUME Init PROVE Alone /\ Accounted
    BY DEF AccountInv
  <2>1. 1 \in Strand
    BY WorkflowAssumption DEF Strand
  <2>2. Alone
    BY <2>1 DEF Init, Alone
  <2>3. stack[1] = <<Activation(wf.entry)>> /\ failedAt = None /\ uncaught = FALSE
    BY <2>1, Zenon DEF Init
  <2>4. stack[1][1].at = "enter" /\ Len(stack[1]) = 1
    BY <2>3 DEF Activation
  <2>5. \A i \in 1..1 : i = 1
    OBVIOUS
  <2>6. ~Owed(stack[1], 1) /\ ~failed
    BY <2>3, <2>4, <2>5 DEF Owed, PutAside, failed
  <2> QED
    BY <2>2, <2>3, <2>4, <2>6 DEF Accounted
<1>2. AccountInv /\ EngineInv /\ [Next]_vars => AccountInv'
  <2> SUFFICES ASSUME AccountInv, EngineInv, [Next]_vars, Sequential' PROVE Alone' /\ Accounted'
    BY DEF AccountInv
  <2>1. wf' = wf
    <3>1. CASE UNCHANGED vars
      BY <3>1 DEF vars
    <3>2. CASE Next
      BY <3>2, Zenon DEF Next, Begin, GoOn, SkipStep, BeginToolCall, SetVar, Return, BeginSequence,
         BeginBranch, BeginParallel, BeginTry, BeginScope, BeginCall, ToolSettles, GoOnSequence,
         GoOnBranch, Join, EndScope, EndCall, EndBody, EndCatch, EndFinally, Finally, AwaitKid,
         AwaitAt, Await, Settle
    <3> QED
      BY <3>1, <3>2
  <2>2. Sequential
    BY <2>1 DEF Sequential, Steps
  <2>3. Alone /\ Accounted
    BY <2>2 DEF AccountInv
  <2>4. CASE Next
    BY <2>2, <2>3, <2>4, BeginAccounts, GoOnAccounts DEF Next
  <2>5. CASE UNCHANGED vars
    BY <2>3, <2>5 DEF vars, shared, strands, Alone, Accounted, Held, Owed, PutAside, Catches, failed
  <2> QED
    BY <2>4, <2>5
<1>3. AccountInv /\ EngineInv => FailureAccounted
  <2> SUFFICES ASSUME Accounted, EngineInv, Ended PROVE failed <=> uncaught
    BY DEF AccountInv, FailureAccounted
  <2>1. 1 \in Strand
    BY WorkflowAssumption DEF Strand
  <2>2. Len(stack[1]) = 0
    BY <2>1 DEF EngineInv, CountedInv, StrandInv, Shape, StrandOK, Ended
  <2>3. ~Held(stack[1], 0) /\ ~Owed(stack[1], 0)
    BY DEF Held, Owed
  <2> QED
    BY <2>2, <2>3 DEF Accounted
<1> QED
  BY <1>1, <1>2, <1>3, EngineInvariant, PTL DEF Spec
=============================================================================

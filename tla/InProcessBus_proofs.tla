------------------------- MODULE InProcessBus_proofs -------------------------
(***************************************************************************)
(* Proofs about InProcessBus, for every set of groups and subscriptions,   *)
(* every batch size and every number of entries: its type invariant, that  *)
(* no loop claims an entry of another and none sleeps on an entry, and     *)
(* that the bus implements ConsumerGroup.                                  *)
(***************************************************************************)
EXTENDS InProcessBus, TLAPS

-----------------------------------------------------------------------------
(* Types *)

LEMMA IterateTypes ==
  ASSUME TypeOK, NEW s \in Sub, Iterate(s)
  PROVE  /\ offsets' \in [Group -> 0..MaxEntries]
         /\ pending' \in [Group -> SUBSET Entry]
         /\ waiters' \subseteq Sub
         /\ loop' \in [Sub -> LoopState]
         /\ next' \in [Sub -> 0..MaxEntries]
         /\ last' \in [Sub -> 0..MaxEntries]
<1> USE BusAssumption
<1> DEFINE g == GroupOf[s]
<1>1. g \in Group
  BY DEF TypeOK
<1>2. CASE TakeBatch(s)
  <2>1. /\ offsets[g] \in 0..MaxEntries /\ entries \in 0..MaxEntries
        /\ offsets[g] < entries /\ CountOf[s] \in Nat \ {0}
    BY <1>1, <1>2 DEF TakeBatch, TypeOK
  <2>2. /\ Least(offsets[g] + CountOf[s], entries) \in 0..MaxEntries
        /\ offsets[g] + 1 \in Entry
    BY <2>1 DEF Least, Entry
  <2>3. last' = [last EXCEPT ![s] = Least(offsets[g] + CountOf[s], entries)]
    BY <1>2 DEF TakeBatch
  <2>4. last' \in [Sub -> 0..MaxEntries] /\ last'[s] \in 0..MaxEntries
    BY <2>2, <2>3 DEF TypeOK
  <2>5. offsets' \in [Group -> 0..MaxEntries]
    BY <2>4, <1>2 DEF TakeBatch, TypeOK
  <2>6. next' \in [Sub -> 0..MaxEntries] /\ waiters' \subseteq Sub
    BY <2>1, <1>2 DEF TakeBatch, TypeOK
  <2>7. pending' \in [Group -> SUBSET Entry]
    BY <2>2, <1>2 DEF TakeBatch, StartHandler, TypeOK
  <2>8. loop' \in [Sub -> LoopState]
    BY <1>2 DEF TakeBatch, TypeOK, LoopState
  <2> QED  BY <2>4, <2>5, <2>6, <2>7, <2>8
<1>3. CASE Sleep(s)
  BY <1>3 DEF Sleep, TypeOK, LoopState
<1> QED  BY <1>2, <1>3 DEF Iterate

LEMMA TestLoopTypes ==
  ASSUME TypeOK, NEW s \in Sub, TestLoop(s)
  PROVE  /\ offsets' \in [Group -> 0..MaxEntries]
         /\ pending' \in [Group -> SUBSET Entry]
         /\ waiters' \subseteq Sub
         /\ loop' \in [Sub -> LoopState]
         /\ next' \in [Sub -> 0..MaxEntries]
         /\ last' \in [Sub -> 0..MaxEntries]
<1>1. CASE End(s)
  BY <1>1 DEF End, TypeOK, LoopState
<1>2. CASE Iterate(s)
  BY <1>2, IterateTypes
<1> QED  BY <1>1, <1>2 DEF TestLoop

LEMMA TypeStep == TypeOK /\ [Next]_vars => TypeOK'
<1> USE BusAssumption
<1> SUFFICES ASSUME TypeOK, [Next]_vars PROVE TypeOK'
  OBVIOUS
<1>1. CASE Publish
  BY <1>1 DEF Publish, WakeAll, TypeOK, LoopState
<1>2. CASE Close
  BY <1>2 DEF Close, WakeAll, TypeOK, LoopState
<1>3. ASSUME NEW s \in Sub, Subscribe(s) PROVE TypeOK'
  BY <1>3, IterateTypes DEF Subscribe, TypeOK
<1>4. ASSUME NEW s \in Sub, Unsubscribe(s) PROVE TypeOK'
  BY <1>4 DEF Unsubscribe, loopVars, TypeOK
<1>5. ASSUME NEW s \in Sub, GoRound(s) PROVE TypeOK'
  BY <1>5, TestLoopTypes DEF GoRound, TypeOK
<1>6. ASSUME NEW s \in Sub, TimerFires(s) PROVE TypeOK'
  BY <1>6 DEF TimerFires, TypeOK, LoopState
<1>7. ASSUME NEW s \in Sub, HandlerSettles(s) PROVE TypeOK'
  <2>1. CASE TestLoop(s)
    BY <1>7, <2>1, TestLoopTypes DEF HandlerSettles, TypeOK
  <2>2. CASE /\ next[s] + 1 < last[s]
             /\ next' = [next EXCEPT ![s] = @ + 1]
             /\ StartHandler(s, next[s] + 2)
             /\ UNCHANGED <<loop, last, offsets, waiters>>
    <3>1. next[s] \in 0..MaxEntries /\ last[s] \in 0..MaxEntries
      BY DEF TypeOK
    <3>2. next[s] + 1 \in 0..MaxEntries /\ next[s] + 2 \in Entry
      BY <3>1, <2>2 DEF Entry
    <3>3. next' \in [Sub -> 0..MaxEntries]
      BY <3>2, <2>2 DEF TypeOK
    <3>4. pending' \in [Group -> SUBSET Entry]
      BY <3>2, <2>2 DEF StartHandler, TypeOK
    <3> QED  BY <3>3, <3>4, <2>2, <1>7 DEF HandlerSettles, TypeOK
  <2> QED  BY <1>7, <2>1, <2>2 DEF HandlerSettles
<1>8. ASSUME NEW g \in Group, NEW e \in Entry, Ack(g, e) PROVE TypeOK'
  BY <1>8 DEF Ack, TypeOK
<1>9. CASE UNCHANGED vars
  BY <1>9 DEF vars, loopVars, TypeOK
<1> QED
  BY <1>1, <1>2, <1>3, <1>4, <1>5, <1>6, <1>7, <1>8, <1>9 DEF Next, Step

\* TypeOK holds whatever interleaving of publishes, loops and acknowledgements:
\* in particular a batch never reaches past the entries that were published.
THEOREM Typed == Spec => []TypeOK
<1>1. Init => TypeOK
  <2> SUFFICES ASSUME Init PROVE TypeOK
    OBVIOUS
  <2>1. 0 \in 0..MaxEntries /\ {} \in SUBSET Entry
    BY BusAssumption
  <2> QED  BY <2>1 DEF Init, TypeOK, LoopState
<1> QED  BY <1>1, TypeStep, PTL DEF Spec

-----------------------------------------------------------------------------
(* Sleepers *)

\* The wait set holds sleepers only.
WaitersSleep == \A s \in waiters : loop[s] = "sleeping"

SleepInv == NoLostWakeup /\ WaitersSleep

LEMMA IterateKeepsSleepers ==
  ASSUME TypeOK, SleepInv, ~closed, NEW s \in Sub, loop[s] # "sleeping", Iterate(s),
         UNCHANGED <<entries, closed>>
  PROVE  SleepInv'
<1> USE BusAssumption DEF TypeOK
<1>1. CASE TakeBatch(s)
  <2>1. /\ loop' = [loop EXCEPT ![s] = "handling"]
        /\ waiters' = waiters
        /\ offsets' = [offsets EXCEPT ![GroupOf[s]] = last'[s]]
        /\ offsets[GroupOf[s]] < entries
    BY <1>1 DEF TakeBatch
  <2>2. s \notin waiters
    BY DEF SleepInv, WaitersSleep
  <2>3. \A r \in Sub : loop'[r] = "sleeping" =>
          r # s /\ loop[r] = "sleeping" /\ GroupOf[r] # GroupOf[s]
    BY <2>1 DEF SleepInv, NoLostWakeup
  <2> QED  BY <2>1, <2>2, <2>3 DEF SleepInv, NoLostWakeup, WaitersSleep
<1>2. CASE Sleep(s)
  BY <1>2 DEF Sleep, SleepInv, NoLostWakeup, WaitersSleep
<1> QED  BY <1>1, <1>2 DEF Iterate

LEMMA TestLoopKeepsSleepers ==
  ASSUME TypeOK, SleepInv, NEW s \in Sub, loop[s] # "sleeping", TestLoop(s),
         UNCHANGED <<entries, closed>>
  PROVE  SleepInv'
<1>1. CASE End(s)
  BY <1>1 DEF End, TypeOK, SleepInv, NoLostWakeup, WaitersSleep
<1>2. CASE ~closed /\ Iterate(s)
  BY <1>2, IterateKeepsSleepers
<1> QED  BY <1>1, <1>2 DEF TestLoop

LEMMA SleepStep == TypeOK /\ SleepInv /\ [Next]_vars => SleepInv'
<1> USE DEF SleepInv, NoLostWakeup, WaitersSleep, TypeOK
<1> SUFFICES ASSUME TypeOK, SleepInv, [Next]_vars PROVE SleepInv'
  OBVIOUS
<1>1. CASE WakeAll
  <2>1. \A s \in Sub : loop'[s] # "sleeping"
    BY <1>1 DEF WakeAll
  <2> QED  BY <1>1, <2>1 DEF WakeAll
<1>2. ASSUME NEW s \in Sub, Subscribe(s) PROVE SleepInv'
  <2>1. /\ ~closed /\ loop[s] # "sleeping" /\ Iterate(s)
        /\ UNCHANGED <<entries, closed>>
    BY <1>2 DEF Subscribe
  <2> QED  BY <2>1, IterateKeepsSleepers
<1>3. ASSUME NEW s \in Sub, Unsubscribe(s) PROVE SleepInv'
  BY <1>3 DEF Unsubscribe, loopVars
<1>4. ASSUME NEW s \in Sub, GoRound(s) PROVE SleepInv'
  <2>1. loop[s] # "sleeping" /\ TestLoop(s) /\ UNCHANGED <<entries, closed>>
    BY <1>4 DEF GoRound
  <2> QED  BY <2>1, TestLoopKeepsSleepers
<1>5. ASSUME NEW s \in Sub, TimerFires(s) PROVE SleepInv'
  BY <1>5 DEF TimerFires
<1>6. ASSUME NEW s \in Sub, HandlerSettles(s) PROVE SleepInv'
  <2>1. loop[s] # "sleeping" /\ UNCHANGED <<entries, closed>>
    BY <1>6 DEF HandlerSettles
  <2>2. CASE TestLoop(s)
    BY <2>1, <2>2, TestLoopKeepsSleepers
  <2>3. CASE UNCHANGED <<loop, last, offsets, waiters>>
    BY <2>1, <2>3
  <2> QED  BY <1>6, <2>2, <2>3 DEF HandlerSettles
<1>7. ASSUME NEW g \in Group, NEW e \in Entry, Ack(g, e) PROVE SleepInv'
  BY <1>7 DEF Ack
<1>8. CASE UNCHANGED vars
  BY <1>8 DEF vars, loopVars
<1> QED
  BY <1>1, <1>2, <1>3, <1>4, <1>5, <1>6, <1>7, <1>8 DEF Next, Step, Publish, Close

\* No subscription sleeps on an entry its group could claim, for any number of
\* subscriptions and whatever the timers do: a publish between the empty
\* nextBatch and the registration of `fire` is impossible, for no await lies between
\* them, and every other one wakes the sleeper.
THEOREM NoWakeupLost == Spec => []NoLostWakeup
<1>1. Init => SleepInv
  BY DEF Init, SleepInv, NoLostWakeup, WaitersSleep
<1>2. SleepInv => NoLostWakeup
  BY DEF SleepInv
<1> QED  BY <1>1, <1>2, SleepStep, Typed, PTL DEF Spec

-----------------------------------------------------------------------------
(* Claims *)

\* A loop in a batch has an entry in hand, and the batch ends below its group's
\* offset.
BatchWithin ==
  \A s \in Sub : loop[s] = "handling" =>
    next[s] < last[s] /\ last[s] <= offsets[GroupOf[s]]

OffsetsWithin == \A g \in Group : offsets[g] <= entries

PendingHanded == \A g \in Group : pending[g] \subseteq Handed[g]

ClaimInv == BatchWithin /\ OffsetsWithin /\ ClaimsDisjoint /\ PendingHanded

\* The steps, as the claims see them.  Steady: nothing is claimed or handed.
Steady ==
  /\ UNCHANGED offsets
  /\ entries \in Nat /\ entries' \in Nat /\ entries <= entries'
  /\ \A s \in Sub :
       /\ Claimed(s)' = Claimed(s)
       /\ loop'[s] = "handling" => /\ loop[s] = "handling"
                                   /\ next'[s] = next[s]
                                   /\ last'[s] = last[s]

\* A batch is claimed by s, with nothing left of its previous one.
Take(s) ==
  /\ Claimed(s) = {}
  /\ UNCHANGED entries
  /\ TakeBatch(s)

\* s goes on to the next entry of its batch.
Advance(s) ==
  /\ loop[s] = "handling"
  /\ next[s] + 1 < last[s]
  /\ next' = [next EXCEPT ![s] = @ + 1]
  /\ StartHandler(s, next[s] + 2)
  /\ UNCHANGED <<entries, loop, last, offsets>>

LEMMA NotHandlingNoClaim ==
  ASSUME NEW s \in Sub, loop[s] # "handling"
  PROVE  Claimed(s) = {}
BY DEF Claimed

LEMMA LastEntryNoClaim ==
  ASSUME TypeOK, NEW s \in Sub, next[s] + 1 >= last[s]
  PROVE  Claimed(s) = {}
BY DEF Claimed, TypeOK, Entry

LEMMA UntouchedClaim ==
  ASSUME NEW s \in Sub, loop'[s] = loop[s], next'[s] = next[s], last'[s] = last[s]
  PROVE  Claimed(s)' = Claimed(s)
BY DEF Claimed

LEMMA TestLoopKinds ==
  ASSUME TypeOK, NEW s \in Sub, Claimed(s) = {}, TestLoop(s), UNCHANGED entries
  PROVE  (Steady /\ UNCHANGED pending) \/ Take(s)
<1> USE DEF TypeOK
<1>1. ASSUME NEW st \in {"ended", "sleeping"},
             loop' = [loop EXCEPT ![s] = st],
             UNCHANGED <<next, last, offsets, pending>>
      PROVE  Steady /\ UNCHANGED pending
  <2>1. loop'[s] # "handling" /\ (\A r \in Sub \ {s} : loop'[r] = loop[r])
    BY <1>1
  <2>2. Claimed(s)' = {}
    BY <2>1 DEF Claimed
  <2>3. ASSUME NEW r \in Sub PROVE Claimed(r)' = Claimed(r)
    <3>1. CASE r = s
      BY <2>2, <3>1
    <3>2. CASE r # s
      BY <2>1, <1>1, <3>2, UntouchedClaim
    <3> QED  BY <3>1, <3>2
  <2>4. ASSUME NEW r \in Sub, loop'[r] = "handling" PROVE loop[r] = "handling"
    BY <2>1, <2>4
  <2>5. entries \in Nat
    BY BusAssumption
  <2> QED  BY <1>1, <2>3, <2>4, <2>5 DEF Steady
<1>2. CASE TakeBatch(s)
  BY <1>2 DEF Take
<1>3. CASE End(s)
  BY <1>3, <1>1 DEF End
<1>4. CASE Sleep(s)
  BY <1>4, <1>1 DEF Sleep
<1> QED  BY <1>2, <1>3, <1>4 DEF TestLoop, Iterate

\* Every step is one of four kinds.
LEMMA StepKinds ==
  ASSUME TypeOK, SleepInv, [Next]_vars
  PROVE  \/ Steady /\ UNCHANGED pending
         \/ \E s \in Sub : Take(s) \/ Advance(s)
         \/ \E g \in Group, e \in Entry : Ack(g, e)
<1> USE BusAssumption DEF TypeOK
<1>1. ASSUME WakeAll, UNCHANGED <<next, last, offsets, pending>>,
             entries' = entries \/ entries' = entries + 1
      PROVE  Steady /\ UNCHANGED pending
  <2>1. ASSUME NEW s \in Sub
        PROVE  \/ loop'[s] = loop[s]
               \/ loop[s] # "handling" /\ loop'[s] # "handling"
    BY <1>1 DEF WakeAll, SleepInv, WaitersSleep
  <2>2. ASSUME NEW s \in Sub PROVE Claimed(s)' = Claimed(s)
    BY <2>1, <1>1 DEF Claimed
  <2>3. entries \in Nat /\ entries' \in Nat /\ entries <= entries'
    BY <1>1
  <2> QED  BY <1>1, <2>1, <2>2, <2>3 DEF Steady
<1>2. ASSUME UNCHANGED <<entries, loop, next, last, offsets, pending>>
      PROVE  Steady /\ UNCHANGED pending
  BY <1>2, UntouchedClaim DEF Steady
<1>3. CASE Publish \/ Close
  BY <1>1, <1>3 DEF Publish, Close
<1>4. ASSUME NEW s \in Sub, Subscribe(s)
      PROVE  (Steady /\ UNCHANGED pending) \/ Take(s)
  <2>1. ~closed /\ Claimed(s) = {} /\ Iterate(s) /\ UNCHANGED entries
    BY <1>4, NotHandlingNoClaim DEF Subscribe
  <2>2. CASE TakeBatch(s)
    BY <2>1, <2>2 DEF Take
  <2>3. CASE Sleep(s)
    <3>1. /\ loop'[s] = "sleeping" /\ loop[s] = "off"
          /\ \A r \in Sub \ {s} : loop'[r] = loop[r]
      BY <1>4, <2>3 DEF Sleep, Subscribe
    <3>2. UNCHANGED <<next, last, offsets, pending>>
      BY <2>3 DEF Sleep
    <3>3. \A r \in Sub : Claimed(r)' = Claimed(r)
      BY <3>1, <3>2 DEF Claimed
    <3> QED  BY <2>1, <3>1, <3>2, <3>3 DEF Steady
  <2> QED  BY <2>1, <2>2, <2>3 DEF Iterate
<1>5. ASSUME NEW s \in Sub, Unsubscribe(s) PROVE Steady /\ UNCHANGED pending
  BY <1>5, <1>2 DEF Unsubscribe, loopVars
<1>6. ASSUME NEW s \in Sub, GoRound(s)
      PROVE  (Steady /\ UNCHANGED pending) \/ Take(s)
  <2>1. Claimed(s) = {} /\ TestLoop(s) /\ UNCHANGED entries
    BY <1>6, NotHandlingNoClaim DEF GoRound
  <2> QED  BY <2>1, TestLoopKinds
<1>7. ASSUME NEW s \in Sub, TimerFires(s) PROVE Steady /\ UNCHANGED pending
  <2>1. /\ loop'[s] = "top" /\ loop[s] = "sleeping"
        /\ \A r \in Sub \ {s} : loop'[r] = loop[r]
        /\ UNCHANGED <<entries, next, last, offsets, pending>>
    BY <1>7 DEF TimerFires
  <2>2. \A r \in Sub : Claimed(r)' = Claimed(r)
    BY <2>1 DEF Claimed
  <2> QED  BY <2>1, <2>2 DEF Steady
<1>8. ASSUME NEW s \in Sub, HandlerSettles(s)
      PROVE  (Steady /\ UNCHANGED pending) \/ Take(s) \/ Advance(s)
  <2>1. CASE next[s] + 1 >= last[s] /\ TestLoop(s)
    <3>1. Claimed(s) = {} /\ UNCHANGED entries
      BY <1>8, <2>1, LastEntryNoClaim DEF HandlerSettles
    <3> QED  BY <2>1, <3>1, TestLoopKinds
  <2> QED  BY <1>8, <2>1 DEF HandlerSettles, Advance
<1>9. CASE UNCHANGED vars
  BY <1>9, <1>2 DEF vars, loopVars
<1> QED
  BY <1>3, <1>4, <1>5, <1>6, <1>7, <1>8, <1>9 DEF Next, Step

\* The batch that s claims lies between the old and the new offset of its group;
\* the first entry of it goes to the handler.
LEMMA TakeEffect ==
  ASSUME TypeOK, ClaimInv, NEW s \in Sub, Take(s)
  PROVE  /\ GroupOf[s] \in Group
         /\ offsets[GroupOf[s]] \in Nat /\ last'[s] \in Nat /\ last'[s] <= entries
         /\ offsets[GroupOf[s]] < last'[s]
         /\ offsets' = [offsets EXCEPT ![GroupOf[s]] = last'[s]]
         /\ loop'[s] = "handling" /\ next'[s] = offsets[GroupOf[s]]
         /\ Claimed(s)' = {e \in Entry : offsets[GroupOf[s]] + 1 < e /\ e <= last'[s]}
         /\ \A r \in Sub \ {s} :
              /\ Claimed(r)' = Claimed(r)
              /\ loop'[r] = loop[r] /\ next'[r] = next[r] /\ last'[r] = last[r]
<1> USE BusAssumption DEF TypeOK
<1> DEFINE g == GroupOf[s]
<1>1. /\ g \in Group
      /\ offsets[g] \in Nat /\ entries \in Nat /\ CountOf[s] \in Nat \ {0}
      /\ offsets[g] < entries
  <2>1. g \in Group /\ entries \in Nat /\ CountOf[s] \in Nat \ {0}
    OBVIOUS
  <2>2. offsets[g] \in Nat
    BY <2>1
  <2> QED  BY <2>1, <2>2 DEF Take, TakeBatch
<1>2. /\ next' = [next EXCEPT ![s] = offsets[g]]
      /\ last' = [last EXCEPT ![s] = Least(offsets[g] + CountOf[s], entries)]
      /\ offsets' = [offsets EXCEPT ![g] = last'[s]]
      /\ loop' = [loop EXCEPT ![s] = "handling"]
  BY DEF Take, TakeBatch
<1>3. last'[s] = Least(offsets[g] + CountOf[s], entries)
  BY <1>2
<1>4. last'[s] \in Nat /\ last'[s] <= entries /\ offsets[g] < last'[s]
  BY <1>1, <1>3 DEF Least
<1>5. loop'[s] = "handling" /\ next'[s] = offsets[g]
  BY <1>2
<1>6. Claimed(s)' = {e \in Entry : offsets[g] + 1 < e /\ e <= last'[s]}
  BY <1>5 DEF Claimed
<1>7. ASSUME NEW r \in Sub \ {s}
      PROVE  /\ Claimed(r)' = Claimed(r)
             /\ loop'[r] = loop[r] /\ next'[r] = next[r] /\ last'[r] = last[r]
  BY <1>2, UntouchedClaim
<1> QED  BY <1>1, <1>2, <1>4, <1>5, <1>6, <1>7

\* Advancing, s gives up its claim on one entry, which goes to its handler.
LEMMA AdvanceEffect ==
  ASSUME TypeOK, NEW s \in Sub, Advance(s)
  PROVE  /\ GroupOf[s] \in Group
         /\ next[s] + 2 \in Claimed(s)
         /\ Claimed(s)' = Claimed(s) \ {next[s] + 2}
         /\ next'[s] = next[s] + 1
         /\ \A r \in Sub \ {s} : Claimed(r)' = Claimed(r) /\ next'[r] = next[r]
<1> USE BusAssumption DEF TypeOK
<1>1. /\ next[s] \in Nat /\ last[s] \in 0..MaxEntries /\ next[s] + 1 < last[s]
      /\ loop[s] = "handling" /\ loop'[s] = "handling" /\ last'[s] = last[s]
      /\ next' = [next EXCEPT ![s] = next[s] + 1]
  BY DEF Advance
<1>2. next'[s] = next[s] + 1
  BY <1>1
<1>3. next[s] + 2 \in Claimed(s)
  BY <1>1 DEF Claimed, Entry
<1>4. Claimed(s)' = Claimed(s) \ {next[s] + 2}
  <2>1. Claimed(s) = {e \in Entry : next[s] + 1 < e /\ e <= last[s]}
    BY <1>1 DEF Claimed
  <2>2. Claimed(s)' = {e \in Entry : next[s] + 1 + 1 < e /\ e <= last[s]}
    BY <1>1, <1>2 DEF Claimed
  <2> QED  BY <1>1, <2>1, <2>2 DEF Entry
<1>5. ASSUME NEW r \in Sub \ {s}
      PROVE  Claimed(r)' = Claimed(r) /\ next'[r] = next[r]
  BY <1>1, UntouchedClaim DEF Advance
<1> QED  BY <1>2, <1>3, <1>4, <1>5

\* What handing entry e to group g does, in the terms of the contract.
Hands(g, e) ==
  /\ e \in Entry /\ e <= entries /\ e \notin Handed[g]
  /\ Handed' = [Handed EXCEPT ![g] = @ \cup {e}]
  /\ pending' = [pending EXCEPT ![g] = @ \cup {e}]
  /\ UNCHANGED entries

LEMMA TakeHands ==
  ASSUME TypeOK, ClaimInv, NEW s \in Sub, Take(s)
  PROVE  Hands(GroupOf[s], offsets[GroupOf[s]] + 1)
<1> DEFINE g == GroupOf[s]
           e == offsets[g] + 1
<1>1. /\ g \in Group /\ offsets[g] \in Nat /\ last'[s] \in Nat
      /\ last'[s] <= entries /\ offsets[g] < last'[s]
      /\ entries \in Nat /\ entries <= MaxEntries /\ MaxEntries \in Nat
      /\ offsets' = [offsets EXCEPT ![g] = last'[s]]
  BY TakeEffect, BusAssumption DEF TypeOK
<1>2. e \in Entry /\ e <= entries /\ e \notin Handed[g]
  BY <1>1 DEF Entry, Handed
<1>3. \A r \in Sub : \A x \in Claimed(r) : x <= offsets[GroupOf[r]]
  BY DEF ClaimInv, ClaimsDisjoint
<1>4. Handed' = [Handed EXCEPT ![g] = @ \cup {e}]
  <2>1. ASSUME NEW h \in Group
        PROVE  Handed'[h] = IF h = g THEN Handed[g] \cup {e} ELSE Handed[h]
    <3>1. CASE h # g
      <4>1. offsets'[h] = offsets[h]
        BY <1>1, <3>1 DEF TypeOK
      <4>2. \A r \in Sub : GroupOf[r] = h => Claimed(r)' = Claimed(r)
        BY TakeEffect, <3>1
      <4> QED  BY <3>1, <4>1, <4>2 DEF Handed
    <3>2. CASE h = g
      <4>1. offsets'[g] = last'[s]
        BY <1>1 DEF TypeOK
      <4>2. Handed'[g] = {x \in Entry : /\ x <= last'[s]
                                        /\ \A r \in Sub : GroupOf[r] = g => x \notin Claimed(r)'}
        BY <1>1, <4>1 DEF Handed
      <4>3. Handed[g] = {x \in Entry : /\ x <= offsets[g]
                                       /\ \A r \in Sub : GroupOf[r] = g => x \notin Claimed(r)}
        BY <1>1 DEF Handed
      <4>4. Claimed(s) = {} /\ Claimed(s)' = {x \in Entry : e < x /\ x <= last'[s]}
        BY TakeEffect DEF Take
      <4>5. \A r \in Sub \ {s} : Claimed(r)' = Claimed(r)
        BY TakeEffect
      <4>6. ASSUME NEW x \in Entry PROVE x \in Handed'[g] <=> x \in Handed[g] \cup {e}
        <5>1. x \in Nat
          BY DEF Entry
        <5>2. CASE x <= offsets[g]
          <6>1. x \notin Claimed(s)' /\ x <= last'[s] /\ x # e
            BY <1>1, <4>4, <5>1, <5>2
          <6>2. \A r \in Sub : x \in Claimed(r)' <=> x \in Claimed(r)
            BY <4>4, <4>5, <6>1
          <6> QED  BY <4>2, <4>3, <5>2, <6>1, <6>2
        <5>3. CASE x = e
          <6>1. \A r \in Sub : GroupOf[r] = g => x \notin Claimed(r)
            BY <1>1, <1>3, <5>3
          <6>2. x \notin Claimed(s)' /\ x <= last'[s]
            BY <1>1, <4>4, <5>3
          <6> QED  BY <4>2, <4>5, <5>3, <6>1, <6>2
        <5>4. CASE e < x
          <6>1. x \notin Handed[g] /\ x # e
            BY <1>1, <4>3, <5>1, <5>4
          <6>2. x <= last'[s] => x \in Claimed(s)'
            BY <4>4, <5>4
          <6> QED  BY <4>2, <6>1, <6>2
        <5> QED  BY <1>1, <5>1, <5>2, <5>3, <5>4
      <4>7. Handed'[g] \subseteq Entry /\ Handed[g] \cup {e} \subseteq Entry
        BY <1>2, <4>2, <4>3
      <4> QED  BY <3>2, <4>6, <4>7
    <3> QED  BY <3>1, <3>2
  <2> QED  BY <1>1, <2>1 DEF Handed
<1>5. pending' = [pending EXCEPT ![g] = @ \cup {e}] /\ UNCHANGED entries
  BY DEF Take, TakeBatch, StartHandler
<1> QED  BY <1>2, <1>4, <1>5 DEF Hands

LEMMA AdvanceHands ==
  ASSUME TypeOK, ClaimInv, NEW s \in Sub, Advance(s)
  PROVE  Hands(GroupOf[s], next[s] + 2)
<1> DEFINE g == GroupOf[s]
           e == next[s] + 2
<1>1. /\ g \in Group /\ e \in Claimed(s)
      /\ Claimed(s)' = Claimed(s) \ {e}
      /\ \A r \in Sub \ {s} : Claimed(r)' = Claimed(r)
      /\ UNCHANGED <<entries, offsets>>
  BY AdvanceEffect DEF Advance
<1>2. /\ e \in Entry /\ e <= offsets[g] /\ e \notin Handed[g]
      /\ \A r \in Sub \ {s} : GroupOf[r] = g => e \notin Claimed(r)
  BY <1>1 DEF Claimed, Handed, ClaimInv, ClaimsDisjoint
<1>3. e <= entries
  <2>1. e \in Nat /\ offsets[g] \in Nat /\ entries \in Nat /\ offsets[g] <= entries
    BY <1>1, <1>2, BusAssumption DEF ClaimInv, OffsetsWithin, TypeOK, Entry
  <2> QED  BY <1>2, <2>1
<1>4. Handed' = [Handed EXCEPT ![g] = @ \cup {e}]
  <2>1. ASSUME NEW h \in Group
        PROVE  Handed'[h] = IF h = g THEN Handed[g] \cup {e} ELSE Handed[h]
    <3>1. CASE h # g
      <4>1. \A r \in Sub : GroupOf[r] = h => Claimed(r)' = Claimed(r)
        BY <1>1, <3>1
      <4> QED  BY <1>1, <3>1, <4>1 DEF Handed
    <3>2. CASE h = g
      <4>1. Handed'[g] = {x \in Entry : /\ x <= offsets[g]
                                        /\ \A r \in Sub : GroupOf[r] = g => x \notin Claimed(r)'}
        BY <1>1 DEF Handed
      <4>2. Handed[g] = {x \in Entry : /\ x <= offsets[g]
                                       /\ \A r \in Sub : GroupOf[r] = g => x \notin Claimed(r)}
        BY <1>1 DEF Handed
      <4>3. ASSUME NEW x \in Entry PROVE x \in Handed'[g] <=> x \in Handed[g] \cup {e}
        <5>1. CASE x = e
          BY <1>1, <1>2, <4>1, <5>1
        <5>2. CASE x # e
          <6>1. \A r \in Sub : x \in Claimed(r)' <=> x \in Claimed(r)
            BY <1>1, <5>2
          <6> QED  BY <4>1, <4>2, <5>2, <6>1
        <5> QED  BY <5>1, <5>2
      <4> QED  BY <1>2, <3>2, <4>1, <4>2, <4>3
    <3> QED  BY <3>1, <3>2
  <2> QED  BY <1>1, <2>1 DEF Handed
<1>5. pending' = [pending EXCEPT ![g] = @ \cup {e}] /\ UNCHANGED entries
  BY DEF Advance, StartHandler
<1> QED  BY <1>2, <1>3, <1>4, <1>5 DEF Hands

LEMMA SteadyHanded ==
  ASSUME Steady PROVE Handed' = Handed
BY DEF Steady, Handed

LEMMA AckSteady ==
  ASSUME TypeOK, NEW g \in Group, NEW e \in Entry, Ack(g, e) PROVE Steady
<1>1. UNCHANGED <<entries, offsets, loop, next, last>>
  BY DEF Ack
<1>2. entries \in Nat
  BY BusAssumption DEF TypeOK
<1> QED  BY <1>1, <1>2, UntouchedClaim DEF Steady

\* The parts of ClaimInv that say nothing of pending entries.
LEMMA SteadyClaims ==
  ASSUME TypeOK, ClaimInv, Steady
  PROVE  BatchWithin' /\ OffsetsWithin' /\ ClaimsDisjoint'
<1>1. BatchWithin'
  BY DEF Steady, ClaimInv, BatchWithin
<1>2. OffsetsWithin'
  BY BusAssumption DEF Steady, ClaimInv, OffsetsWithin, TypeOK
<1>3. ClaimsDisjoint'
  BY DEF Steady, ClaimInv, ClaimsDisjoint
<1> QED  BY <1>1, <1>2, <1>3

LEMMA TakeClaims ==
  ASSUME TypeOK, ClaimInv, NEW s \in Sub, Take(s)
  PROVE  BatchWithin' /\ OffsetsWithin' /\ ClaimsDisjoint'
<1> DEFINE g == GroupOf[s]
<1>1. /\ g \in Group /\ offsets[g] \in Nat /\ last'[s] \in Nat /\ last'[s] <= entries
      /\ offsets[g] < last'[s] /\ offsets' = [offsets EXCEPT ![g] = last'[s]]
      /\ next'[s] = offsets[g]
      /\ Claimed(s)' = {e \in Entry : offsets[g] + 1 < e /\ e <= last'[s]}
  BY TakeEffect
<1>2. ASSUME NEW r \in Sub \ {s}
      PROVE  /\ Claimed(r)' = Claimed(r) /\ loop'[r] = loop[r]
             /\ next'[r] = next[r] /\ last'[r] = last[r]
  BY TakeEffect
<1>3. offsets'[g] = last'[s] /\ \A h \in Group \ {g} : offsets'[h] = offsets[h]
  BY <1>1 DEF TypeOK
<1>4. \A r \in Sub : GroupOf[r] \in Group
  BY BusAssumption
<1>5. BatchWithin'
  <2> SUFFICES ASSUME NEW r \in Sub, loop'[r] = "handling"
               PROVE  next'[r] < last'[r] /\ last'[r] <= offsets'[GroupOf[r]]
    BY DEF BatchWithin
  <2>1. CASE r = s
    BY <1>1, <1>3, <2>1
  <2>2. CASE r # s
    <3>1. next[r] < last[r] /\ last[r] <= offsets[GroupOf[r]]
      BY <1>2, <2>2 DEF ClaimInv, BatchWithin
    <3>2. CASE GroupOf[r] = g
      <4>1. last[r] \in Nat
        BY BusAssumption DEF TypeOK
      <4>2. last[r] <= offsets'[g]
        BY <1>1, <1>3, <3>1, <3>2, <4>1
      <4> QED  BY <1>2, <2>2, <3>1, <3>2, <4>2
    <3>3. CASE GroupOf[r] # g
      BY <1>2, <1>3, <1>4, <2>2, <3>1, <3>3
    <3> QED  BY <3>2, <3>3
  <2> QED  BY <2>1, <2>2
<1>6. OffsetsWithin'
  <2>1. entries' = entries
    BY DEF Take
  <2> QED  BY <1>1, <1>3, <2>1 DEF ClaimInv, OffsetsWithin
<1>7. ASSUME NEW r \in Sub, NEW e \in Claimed(r)' PROVE e <= offsets'[GroupOf[r]]
  <2>1. CASE r = s
    BY <1>1, <1>3, <2>1
  <2>2. CASE r # s
    <3>1. e \in Claimed(r) /\ e <= offsets[GroupOf[r]]
      BY <1>2, <2>2 DEF ClaimInv, ClaimsDisjoint
    <3>2. e \in Nat
      BY <3>1, BusAssumption DEF Claimed, Entry
    <3>3. CASE GroupOf[r] = g
      BY <1>1, <1>3, <3>1, <3>2, <3>3
    <3>4. CASE GroupOf[r] # g
      BY <1>3, <1>4, <3>1, <3>4
    <3> QED  BY <3>3, <3>4
  <2> QED  BY <2>1, <2>2
<1>8. ASSUME NEW r \in Sub \ {s}, GroupOf[r] = g
      PROVE  Claimed(r)' \cap Claimed(s)' = {}
  <2> SUFFICES ASSUME NEW e, e \in Claimed(r), e \in Claimed(s)' PROVE FALSE
    BY <1>2
  <2>1. e <= offsets[g]
    BY <1>8 DEF ClaimInv, ClaimsDisjoint
  <2>2. e \in Nat /\ offsets[g] + 1 < e
    BY <1>1, BusAssumption DEF Entry
  <2> QED  BY <1>1, <2>1, <2>2
<1>9. ClaimsDisjoint'
  <2> SUFFICES ASSUME NEW r \in Sub, NEW q \in Sub \ {r}, GroupOf[q] = GroupOf[r]
               PROVE  Claimed(r)' \cap Claimed(q)' = {}
    BY <1>7 DEF ClaimsDisjoint
  <2>1. CASE r = s \/ q = s
    BY <1>8, <2>1
  <2>2. CASE r # s /\ q # s
    BY <1>2, <2>2 DEF ClaimInv, ClaimsDisjoint
  <2> QED  BY <2>1, <2>2
<1> QED  BY <1>5, <1>6, <1>9

LEMMA AdvanceClaims ==
  ASSUME TypeOK, ClaimInv, NEW s \in Sub, Advance(s)
  PROVE  BatchWithin' /\ OffsetsWithin' /\ ClaimsDisjoint'
<1>1. /\ next'[s] = next[s] + 1 /\ next[s] + 1 < last[s]
      /\ \A r \in Sub \ {s} : next'[r] = next[r]
      /\ \A r \in Sub : Claimed(r)' \subseteq Claimed(r)
      /\ UNCHANGED <<entries, loop, last, offsets>>
  BY AdvanceEffect DEF Advance
<1>2. BatchWithin'
  BY <1>1 DEF ClaimInv, BatchWithin
<1>3. OffsetsWithin'
  BY <1>1 DEF ClaimInv, OffsetsWithin
<1>4. ClaimsDisjoint'
  BY <1>1 DEF ClaimInv, ClaimsDisjoint
<1> QED  BY <1>2, <1>3, <1>4

LEMMA HandsKeepsPending ==
  ASSUME TypeOK, ClaimInv, NEW g \in Group, NEW e, Hands(g, e)
  PROVE  PendingHanded'
<1>1. /\ Handed' = [Handed EXCEPT ![g] = @ \cup {e}]
      /\ pending' = [pending EXCEPT ![g] = @ \cup {e}]
  BY DEF Hands
<1>2. \A h \in Group : pending[h] \subseteq Handed[h]
  BY DEF ClaimInv, PendingHanded
<1>3. /\ Handed = [h \in Group |-> Handed[h]]
      /\ pending = [h \in Group |-> pending[h]]
  BY DEF Handed, TypeOK
<1>4. ASSUME NEW h \in Group PROVE pending'[h] \subseteq Handed'[h]
  <2>1. CASE h = g
    BY <1>1, <1>2, <1>3, <2>1
  <2>2. CASE h # g
    BY <1>1, <1>2, <1>3, <2>2
  <2> QED  BY <2>1, <2>2
<1> QED  BY <1>4 DEF PendingHanded

LEMMA ClaimStep == TypeOK /\ SleepInv /\ ClaimInv /\ [Next]_vars => ClaimInv'
<1> SUFFICES ASSUME TypeOK, SleepInv, ClaimInv, [Next]_vars PROVE ClaimInv'
  OBVIOUS
<1>1. CASE Steady /\ UNCHANGED pending
  <2>1. PendingHanded'
    BY <1>1, SteadyHanded DEF ClaimInv, PendingHanded
  <2> QED  BY <1>1, <2>1, SteadyClaims DEF ClaimInv
<1>2. ASSUME NEW s \in Sub, Take(s) PROVE ClaimInv'
  <2>1. PendingHanded'
    BY <1>2, TakeHands, HandsKeepsPending, BusAssumption
  <2> QED  BY <1>2, <2>1, TakeClaims DEF ClaimInv
<1>3. ASSUME NEW s \in Sub, Advance(s) PROVE ClaimInv'
  <2>1. PendingHanded'
    BY <1>3, AdvanceHands, HandsKeepsPending, BusAssumption
  <2> QED  BY <1>3, <2>1, AdvanceClaims DEF ClaimInv
<1>4. ASSUME NEW g \in Group, NEW e \in Entry, Ack(g, e) PROVE ClaimInv'
  <2>1. Steady
    BY <1>4, AckSteady
  <2>2. pending' = [pending EXCEPT ![g] = @ \ {e}] /\ pending \in [Group -> SUBSET Entry]
    BY <1>4 DEF Ack, TypeOK
  <2>3. \A h \in Group : pending'[h] \subseteq pending[h]
    BY <2>2
  <2>4. PendingHanded'
    BY <2>1, <2>3, SteadyHanded DEF ClaimInv, PendingHanded
  <2> QED  BY <2>1, <2>4, SteadyClaims DEF ClaimInv
<1> QED  BY <1>1, <1>2, <1>3, <1>4, StepKinds

LEMMA InitClaims == Init => ClaimInv
<1> SUFFICES ASSUME Init PROVE ClaimInv
  OBVIOUS
<1>1. BatchWithin /\ (\A s \in Sub : Claimed(s) = {})
  BY DEF Init, BatchWithin, Claimed
<1>2. OffsetsWithin /\ PendingHanded
  BY DEF Init, OffsetsWithin, PendingHanded
<1> QED  BY <1>1, <1>2 DEF ClaimInv, ClaimsDisjoint

LEMMA Inv == Spec => [](TypeOK /\ SleepInv /\ ClaimInv)
<1>1. Init => SleepInv
  BY DEF Init, SleepInv, NoLostWakeup, WaitersSleep
<1> QED  BY <1>1, InitClaims, SleepStep, ClaimStep, Typed, PTL DEF Spec

\* No two loops of a group ever hold a claim on the same entry, and none holds
\* one beyond the offset: nextBatch moves the offset before anything is awaited.
THEOREM ClaimsNeverOverlap == Spec => []ClaimsDisjoint
<1>1. ClaimInv => ClaimsDisjoint
  BY DEF ClaimInv
<1> QED  BY <1>1, Inv, PTL

-----------------------------------------------------------------------------
(* The contract *)

LEMMA HandsImplements ==
  ASSUME TypeOK, ClaimInv, NEW g \in Group, NEW e, Hands(g, e)
  PROVE  Contract!Hand(g, e)
<1>1. /\ e \in Entry /\ e <= entries /\ e \notin Handed[g] /\ UNCHANGED entries
      /\ Handed' = [Handed EXCEPT ![g] = @ \cup {e}]
      /\ pending' = [pending EXCEPT ![g] = @ \cup {e}]
  BY DEF Hands
<1>2. e \in 1..entries \ Handed[g]
  BY <1>1, BusAssumption DEF Entry, TypeOK
<1>3. /\ Handed = [h \in Group |-> Handed[h]]
      /\ pending = [h \in Group |-> pending[h]]
  BY DEF Handed, TypeOK
<1>4. ASSUME NEW h \in Group PROVE Handed'[h] \ pending'[h] = Handed[h] \ pending[h]
  <2>1. CASE h = g
    <3>1. Handed'[h] = Handed[h] \cup {e} /\ pending'[h] = pending[h] \cup {e}
      BY <1>1, <1>3, <2>1
    <3> QED  BY <1>1, <2>1, <3>1
  <2>2. CASE h # g
    BY <1>1, <1>3, <2>2
  <2> QED  BY <2>1, <2>2
<1>5. UNCHANGED Acked
  BY <1>4 DEF Acked
<1> QED  BY <1>1, <1>2, <1>5 DEF Contract!Hand

LEMMA AckImplements ==
  ASSUME TypeOK, ClaimInv, NEW g \in Group, NEW e \in Entry, Ack(g, e)
  PROVE  Contract!Ack(g, e)
<1>1. /\ e \in pending[g] /\ pending' = [pending EXCEPT ![g] = @ \ {e}]
      /\ UNCHANGED entries
  BY DEF Ack
<1>2. e \in Handed[g] /\ Handed' = Handed
  BY <1>1, AckSteady, SteadyHanded DEF ClaimInv, PendingHanded
<1>3. pending \in [Group -> SUBSET Entry]
  BY DEF TypeOK
<1>4. ASSUME NEW h \in Group
      PROVE  Handed'[h] \ pending'[h]
               = IF h = g THEN (Handed[g] \ pending[g]) \cup {e} ELSE Handed[h] \ pending[h]
  BY <1>1, <1>2, <1>3
<1>5. Acked' = [Acked EXCEPT ![g] = @ \cup {e}]
  BY <1>4 DEF Acked
<1> QED  BY <1>1, <1>2, <1>5 DEF Contract!Ack

\* For every number of groups, consumers and entries, whatever the batch sizes:
\* the loops, offsets and pending lists of the bus do what the contract of
\* consumer groups says, so no entry is handed to a group twice.
THEOREM Implements == Spec => ImplementsContract
<1>1. Init => Contract!Init
  <2> SUFFICES ASSUME Init PROVE Contract!Init
    OBVIOUS
  <2>1. Handed = [g \in Group |-> {}]
    <3>1. \A g \in Group : \A e \in Entry : ~(e <= offsets[g])
      BY BusAssumption DEF Init, Entry
    <3> QED  BY <3>1 DEF Handed
  <2>2. Acked = [g \in Group |-> {}]
    BY <2>1 DEF Acked
  <2> QED  BY <2>1, <2>2 DEF Init, Contract!Init
<1>2. TypeOK /\ SleepInv /\ ClaimInv /\ [Next]_vars => [Contract!Next]_(Contract!cgVars)
  <2> SUFFICES ASSUME TypeOK, SleepInv, ClaimInv, [Next]_vars
               PROVE  [Contract!Next]_(Contract!cgVars)
    OBVIOUS
  <2>1. CASE Steady /\ UNCHANGED pending
    <3>1. Handed' = Handed /\ Acked' = Acked
      BY <2>1, SteadyHanded DEF Acked
    <3>2. entries' = entries \/ entries' = entries + 1
      <4>1. CASE Publish
        BY <4>1 DEF Publish
      <4>2. CASE ~Publish
        BY <4>2 DEF Next, Close, Step, Subscribe, Unsubscribe, GoRound, TimerFires,
                    HandlerSettles, Ack, vars
      <4> QED  BY <4>1, <4>2
    <3> QED  BY <3>1, <3>2 DEF Contract!Next, Contract!Publish, Contract!cgVars
  <2>2. ASSUME NEW s \in Sub, Take(s) \/ Advance(s) PROVE Contract!Next
    <3>1. PICK e : Hands(GroupOf[s], e)
      BY <2>2, TakeHands, AdvanceHands
    <3>2. GroupOf[s] \in Group
      BY BusAssumption
    <3>3. Contract!Hand(GroupOf[s], e)
      BY <3>1, <3>2, HandsImplements
    <3>4. e \in 1..entries
      BY <3>3 DEF Contract!Hand
    <3> QED  BY <3>2, <3>3, <3>4 DEF Contract!Next
  <2>3. ASSUME NEW g \in Group, NEW e \in Entry, Ack(g, e) PROVE Contract!Next
    <3>1. Contract!Ack(g, e)
      BY <2>3, AckImplements
    <3>2. e \in 1..entries
      <4>1. e \in Handed[g]
        BY <2>3 DEF Ack, ClaimInv, PendingHanded
      <4>2. e <= offsets[g] /\ offsets[g] <= entries
        BY <4>1 DEF Handed, ClaimInv, OffsetsWithin
      <4>3. e \in Nat \ {0} /\ offsets[g] \in Nat /\ entries \in Nat
        BY BusAssumption DEF TypeOK, Entry
      <4> QED  BY <4>2, <4>3
    <3> QED  BY <3>1, <3>2 DEF Contract!Next
  <2> QED  BY <2>1, <2>2, <2>3, StepKinds
<1> QED  BY <1>1, <1>2, Inv, PTL DEF Spec, ImplementsContract, Contract!Spec
=============================================================================

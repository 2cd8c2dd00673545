---------------------------- MODULE InProcessBus ----------------------------
(***************************************************************************)
(* InProcessBus (message-bus/src/in-process-bus.ts) on one subject; the    *)
(* subjects share nothing but `closed`.  Every subscription runs a loop    *)
(* that claims a batch by moving its group's offset, hands the entries to  *)
(* its handler one at a time, and sleeps until a publish or its timer.     *)
(*                                                                         *)
(* An entry is its index in buffer.entries.  Code between two awaits is    *)
(* one action.  A `fire` closure that outlived its timer stays in the wait *)
(* set and does nothing when called; only live ones are kept here.         *)
(***************************************************************************)
EXTENDS Naturals

CONSTANTS
  Group,
  Sub,              \* subscriptions; each is its own consumer id
  GroupOf,          \* options.group of a subscription
  BlockForever,     \* the subscriptions with blockMs = 0: no timer is armed
  CountOf,          \* options.count of a subscription, the size of its batches
  MaxEntries        \* bound: entries published in a behaviour

ASSUME BusAssumption ==
  /\ GroupOf \in [Sub -> Group]
  /\ BlockForever \subseteq Sub
  /\ CountOf \in [Sub -> Nat \ {0}]
  /\ MaxEntries \in Nat

VARIABLES
  entries,          \* buffer.entries.length
  offsets,          \* offsets[g]; 0 before the first subscription of g
  pending,          \* pending[g]: the entries handed to g and not acknowledged
  closed,
  waiters,          \* the subscriptions whose live `fire` is in the wait set
  loop,             \* where a subscription's loop is
  next,             \* the entry its handler is busy with is next[s] + 1, and
  last,             \* the batch ends with last[s]
  cancelled

loopVars == <<loop, next, last, offsets, pending, waiters>>
vars == <<entries, closed, cancelled, loopVars>>

\* off: not subscribed.  top: about to test the loop condition.  handling:
\* awaiting the handler.  sleeping: awaiting waitForPublish.  ended.
LoopState == {"off", "top", "handling", "sleeping", "ended"}

Entry == 1..MaxEntries

TypeOK ==
  /\ entries \in 0..MaxEntries
  /\ offsets \in [Group -> 0..MaxEntries]
  /\ pending \in [Group -> SUBSET Entry]
  /\ closed \in BOOLEAN
  /\ waiters \subseteq Sub
  /\ loop \in [Sub -> LoopState]
  /\ next \in [Sub -> 0..MaxEntries]
  /\ last \in [Sub -> 0..MaxEntries]
  /\ cancelled \in [Sub -> BOOLEAN]

Init ==
  /\ entries = 0
  /\ offsets = [g \in Group |-> 0]
  /\ pending = [g \in Group |-> {}]
  /\ closed = FALSE
  /\ waiters = {}
  /\ loop = [s \in Sub |-> "off"]
  /\ next = [s \in Sub |-> 0]
  /\ last = [s \in Sub |-> 0]
  /\ cancelled = [s \in Sub |-> FALSE]

-----------------------------------------------------------------------------
(* The loop *)

\* The entry is put into the pending list and the handler is called.
StartHandler(s, e) ==
  pending' = [pending EXCEPT ![GroupOf[s]] = @ \cup {e}]

Least(a, b) == IF a <= b THEN a ELSE b

\* Variant: a batch is as long as was asked for.
TakeBatchUnclipped(s) ==
  LET g == GroupOf[s] IN
  /\ offsets[g] < entries
  /\ next' = [next EXCEPT ![s] = offsets[g]]
  /\ last' = [last EXCEPT ![s] = offsets[g] + CountOf[s]]
  /\ offsets' = [offsets EXCEPT ![g] = last'[s]]
  /\ StartHandler(s, offsets[g] + 1)
  /\ loop' = [loop EXCEPT ![s] = "handling"]
  /\ UNCHANGED waiters

\* Variant: the slice ends one entry after the offset that is stored.
TakeBatchOffByOne(s) ==
  LET g == GroupOf[s] IN
  /\ offsets[g] < entries
  /\ next' = [next EXCEPT ![s] = offsets[g]]
  /\ last' = [last EXCEPT ![s] = Least(offsets[g] + CountOf[s] + 1, entries)]
  /\ offsets' = [offsets EXCEPT ![g] = Least(@ + CountOf[s], entries)]
  /\ StartHandler(s, offsets[g] + 1)
  /\ loop' = [loop EXCEPT ![s] = "handling"]
  /\ UNCHANGED waiters

\* nextBatch finds entries: the group's offset moves past all of them before the
\* first is handled.
TakeBatch(s) ==
  LET g == GroupOf[s] IN
  /\ offsets[g] < entries
  /\ next' = [next EXCEPT ![s] = offsets[g]]
  /\ last' = [last EXCEPT ![s] = Least(offsets[g] + CountOf[s], entries)]
  /\ offsets' = [offsets EXCEPT ![g] = last'[s]]
  /\ StartHandler(s, offsets[g] + 1)
  /\ loop' = [loop EXCEPT ![s] = "handling"]
  /\ UNCHANGED waiters

\* Variant: the sleeper relies on its timer and does not register.
SleepUnregistered(s) ==
  /\ offsets[GroupOf[s]] = entries
  /\ loop' = [loop EXCEPT ![s] = "sleeping"]
  /\ UNCHANGED <<next, last, offsets, pending, waiters>>

\* nextBatch finds nothing: waitForPublish registers a `fire`.
Sleep(s) ==
  /\ offsets[GroupOf[s]] = entries
  /\ waiters' = waiters \cup {s}
  /\ loop' = [loop EXCEPT ![s] = "sleeping"]
  /\ UNCHANGED <<next, last, offsets, pending>>

\* The body of the loop up to its first await.
Iterate(s) == TakeBatch(s) \/ Sleep(s)

End(s) ==
  /\ loop' = [loop EXCEPT ![s] = "ended"]
  /\ UNCHANGED <<next, last, offsets, pending, waiters>>

\* Variant: the loop looks only at its own flag.
TestLoopIgnoringClose(s) == IF cancelled[s] THEN End(s) ELSE Iterate(s)

\* while (!cancelled && !this.closed)
TestLoop(s) == IF cancelled[s] \/ closed THEN End(s) ELSE Iterate(s)

-----------------------------------------------------------------------------
(* The operations *)

\* Variant: only one sleeper is woken for an entry.
PublishWakingOne ==
  /\ ~closed
  /\ entries < MaxEntries
  /\ entries' = entries + 1
  /\ \/ waiters = {} /\ UNCHANGED <<loop, waiters>>
     \/ \E s \in waiters :
          /\ loop' = [loop EXCEPT ![s] = "top"]
          /\ waiters' = waiters \ {s}
  /\ UNCHANGED <<closed, cancelled, next, last, offsets, pending>>

\* The promises of all registered sleepers resolve and the wait set is cleared.
WakeAll ==
  /\ loop' = [s \in Sub |-> IF s \in waiters THEN "top" ELSE loop[s]]
  /\ waiters' = {}

Publish ==
  /\ ~closed
  /\ entries < MaxEntries
  /\ entries' = entries + 1
  /\ WakeAll
  /\ UNCHANGED <<closed, cancelled, next, last, offsets, pending>>

\* subscribe() runs the loop synchronously up to its first await.
Subscribe(s) ==
  /\ ~closed
  /\ loop[s] = "off"
  /\ Iterate(s)
  /\ UNCHANGED <<entries, closed, cancelled>>

\* A sleeper that was woken goes round.
GoRound(s) ==
  /\ loop[s] = "top"
  /\ TestLoop(s)
  /\ UNCHANGED <<entries, closed, cancelled>>

\* blockMs have passed.  The closure stays in the wait set, spent.
TimerFires(s) ==
  /\ loop[s] = "sleeping"
  /\ s \notin BlockForever
  /\ loop' = [loop EXCEPT ![s] = "top"]
  /\ waiters' = waiters \ {s}
  /\ UNCHANGED <<entries, closed, cancelled, next, last, offsets, pending>>

\* The handler settles; a rejection is swallowed and treated the same.  The rest
\* of the batch is handled whatever was cancelled or closed meanwhile; the loop
\* condition is tested after the last entry.
HandlerSettles(s) ==
  /\ loop[s] = "handling"
  /\ \/ /\ next[s] + 1 < last[s]
        /\ next' = [next EXCEPT ![s] = @ + 1]
        /\ StartHandler(s, next[s] + 2)
        /\ UNCHANGED <<loop, last, offsets, waiters>>
     \/ /\ next[s] + 1 >= last[s]
        /\ TestLoop(s)
  /\ UNCHANGED <<entries, closed, cancelled>>

\* Variant: an acknowledgement drops the entry for every group.
AckForAll(g, e) ==
  /\ e \in pending[g]
  /\ pending' = [h \in Group |-> pending[h] \ {e}]
  /\ UNCHANGED <<entries, closed, cancelled, loop, next, last, offsets, waiters>>

\* ack(subject, group, id) of an entry that is pending for the group.
Ack(g, e) ==
  /\ e \in pending[g]
  /\ pending' = [pending EXCEPT ![g] = @ \ {e}]
  /\ UNCHANGED <<entries, closed, cancelled, loop, next, last, offsets, waiters>>

\* unsubscribe() sets the flag and then awaits the end of the loop.
Unsubscribe(s) ==
  /\ loop[s] # "off"
  /\ ~cancelled[s]
  /\ cancelled' = [cancelled EXCEPT ![s] = TRUE]
  /\ UNCHANGED <<entries, closed, loopVars>>

Close ==
  /\ ~closed
  /\ closed' = TRUE
  /\ WakeAll
  /\ UNCHANGED <<entries, cancelled, next, last, offsets, pending>>

Step(s) == GoRound(s) \/ TimerFires(s) \/ HandlerSettles(s)

Next ==
  \/ Publish
  \/ Close
  \/ \E s \in Sub : Subscribe(s) \/ Unsubscribe(s) \/ Step(s)
  \/ \E g \in Group, e \in Entry : Ack(g, e)

Spec == Init /\ [][Next]_vars

\* The event loop runs every ready continuation and timer, and handlers settle.
\* Nobody is obliged to publish, acknowledge, cancel or close.
FairSpec == Spec /\ \A s \in Sub : WF_vars(Step(s))

-----------------------------------------------------------------------------
(* The abstract view *)

\* What s has claimed and not yet handed to its handler.
Claimed(s) ==
  IF loop[s] = "handling" THEN {e \in Entry : next[s] + 1 < e /\ e <= last[s]} ELSE {}

\* What was handed to g: all that is below its offset and not claimed ahead.
Handed ==
  [g \in Group |->
     {e \in Entry : e <= offsets[g] /\ \A s \in Sub : GroupOf[s] = g => e \notin Claimed(s)}]

Acked == [g \in Group |-> Handed[g] \ pending[g]]

Contract == INSTANCE ConsumerGroup WITH
              published <- entries, handed <- Handed, acked <- Acked

-----------------------------------------------------------------------------
(* Properties *)

\* Consumers of a group never hold the same entry, and never one beyond the
\* group's offset (nextBatch): no interleaving of loops claims an entry twice.
ClaimsDisjoint ==
  \A s \in Sub :
    /\ \A e \in Claimed(s) : e <= offsets[GroupOf[s]]
    /\ \A r \in Sub \ {s} : GroupOf[r] = GroupOf[s] => Claimed(s) \cap Claimed(r) = {}

\* A sleeper never sleeps on an entry (nextBatch, waitForPublish, publish): when
\* a subscription sleeps with its `fire` registered its group has claimed all
\* there is, and without a timer it is always registered.
NoLostWakeup ==
  \A s \in Sub : loop[s] = "sleeping" =>
    /\ offsets[GroupOf[s]] = entries
    /\ s \in waiters
    /\ ~closed

\* The bus implements the contract of consumer groups: handed at most once per
\* group, acknowledged after that.
ImplementsContract == Contract!Spec

\* Every published entry reaches each group that keeps a subscription.
EveryEntryHanded ==
  \A g \in Group, e \in Entry :
    e <= entries ~>
      \/ e \in Handed[g]
      \/ closed
      \/ \A s \in Sub : GroupOf[s] = g => cancelled[s] \/ loop[s] = "off"

\* close() ends every loop, also of a subscription without a timer; unsubscribe()
\* returns at least for the subscriptions with one.
LoopsEnd ==
  \A s \in Sub :
    loop[s] # "off" /\ (closed \/ (cancelled[s] /\ s \notin BlockForever))
      ~> loop[s] = "ended"

-----------------------------------------------------------------------------
(* The constants of the instance that TLC checks: two competing consumers  *)
(* of one group, one without a timer and with batches of two, and a single *)
(* consumer of another group.                                              *)

OneAuditor == [s \in Sub |-> IF s = "auditor" THEN "auditors" ELSE "workers"]
BatchOfForever == [s \in Sub |-> IF s \in BlockForever THEN 2 ELSE 1]
=============================================================================

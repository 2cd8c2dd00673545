--------------------------- MODULE ConsumerGroup ---------------------------
(***************************************************************************)
(* What the MessageBus contract (message-bus/src/bus.ts) promises to the   *)
(* consumer groups of one subject, without offsets, batches or loops: an   *)
(* entry is handed to each group at most once, and is acknowledged for a   *)
(* group only after it was handed to it.                                   *)
(***************************************************************************)
EXTENDS Naturals

CONSTANT Group

VARIABLES
  published,    \* how many entries the subject has; they are 1..published
  handed,       \* handed[g]: the entries a handler of group g was called with
  acked         \* acked[g]: the entries group g acknowledged

cgVars == <<published, handed, acked>>

Init ==
  /\ published = 0
  /\ handed = [g \in Group |-> {}]
  /\ acked = [g \in Group |-> {}]

Publish ==
  /\ published' = published + 1
  /\ UNCHANGED <<handed, acked>>

Hand(g, e) ==
  /\ e \in 1..published \ handed[g]
  /\ handed' = [handed EXCEPT ![g] = @ \cup {e}]
  /\ UNCHANGED <<published, acked>>

Ack(g, e) ==
  /\ e \in handed[g]
  /\ acked' = [acked EXCEPT ![g] = @ \cup {e}]
  /\ UNCHANGED <<published, handed>>

Next ==
  \/ Publish
  \/ \E g \in Group, e \in 1..published : Hand(g, e) \/ Ack(g, e)

Spec == Init /\ [][Next]_cgVars
=============================================================================

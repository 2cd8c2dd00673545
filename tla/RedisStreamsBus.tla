--------------------------- MODULE RedisStreamsBus ---------------------------
(***************************************************************************)
(* The bus over Redis Streams (message-bus/src/redis-streams-bus.ts): one  *)
(* stream and one consumer group of it.  Each subscription runs a loop     *)
(* that reads a batch, hands its entries to the handler one after the      *)
(* other, and acks what the handler asks it to.  The server keeps what was *)
(* delivered and not acked (its pending entries list); nothing here reads  *)
(* that list again.  Processes die and come back under another name.       *)
(***************************************************************************)
EXTENDS Naturals, Sequences, FiniteSets

CONSTANTS
  Consumer,     \* each subscribes at most once
  NoGroup,      \* the server does not know the group
  Batch,        \* options.count
  MaxEntries    \* bound: entries of the stream

\* Assumed of the constants; the modules that instantiate this one check it.
RedisAssumption == Batch \in Nat \ {0} /\ MaxEntries \in Nat /\ NoGroup \notin Nat

VARIABLES
  \* the server
  stream,       \* the entries: TRUE when parseEntry can read it
  group,        \* last delivered id of the group, or NoGroup
  pending,      \* pending[c]: the entries delivered to c and not acked
  acked,
  \* the process
  busClosed,
  known,        \* knownGroups has the group
  loop,         \* loop[c]: where the loop of the subscription is
  cancelled,
  batch,        \* batch[c]: entries read and not handed on yet
  \* history
  since,        \* the last entry when the group was created
  handed        \* handed[e]: how often a handler was given e

busVars == <<busClosed, known, loop, cancelled, batch>>
vars == <<stream, group, pending, acked, busClosed, known, loop, cancelled, batch, since, handed>>

Entry == 1..MaxEntries

TypeOK ==
  /\ group \in {NoGroup} \cup 0..Len(stream) /\ since \in 0..Len(stream)
  /\ \A c \in Consumer : /\ pending[c] \subseteq 1..Len(stream)
                         /\ Len(batch[c]) <= Batch
                         /\ loop[c] \notin {"handing", "handling"} => batch[c] = <<>>
  /\ known => group # NoGroup

Init ==
  /\ stream = <<>> /\ group = NoGroup /\ acked = {}
  /\ pending = [c \in Consumer |-> {}]
  /\ busClosed = FALSE /\ known = FALSE
  /\ loop = [c \in Consumer |-> "none"]
  /\ cancelled = [c \in Consumer |-> FALSE]
  /\ batch = [c \in Consumer |-> <<>>]
  /\ since = 0 /\ handed = [e \in Entry |-> 0]

To(c, state) == loop' = [loop EXCEPT ![c] = state]

\* xadd, of this process or of another one, which may write what this cannot read.
Publish(readable) ==
  /\ Len(stream) < MaxEntries
  /\ stream' = Append(stream, readable)
  /\ UNCHANGED <<group, pending, acked, busVars, since, handed>>

\* subscribe: the group is created at the end of the stream, unless it is there
\* (BUSYGROUP).  Or the server fails and subscribe throws.
Subscribe(c) ==
  /\ loop[c] = "none" /\ ~busClosed
  /\ \/ /\ To(c, "reading") /\ known' = TRUE
        /\ group' = IF group = NoGroup THEN Len(stream) ELSE group
        /\ since' = IF group = NoGroup THEN Len(stream) ELSE since
     \/ ~known /\ To(c, "ended") /\ UNCHANGED <<known, group, since>>
  /\ UNCHANGED <<stream, pending, acked, busClosed, cancelled, batch, handed>>

Leaves(c) == cancelled[c] \/ busClosed

\* The server's part of XREADGROUP >: the next entries of the group are this consumer's.
Deliver(c, n) ==
  /\ group' = group + n
  /\ pending' = [pending EXCEPT ![c] = @ \cup (group + 1)..(group + n)]

\* The reply arrives: an empty one after blockMs, or a batch.
Read(c) ==
  LET fresh == Len(stream) - group
      n == IF fresh < Batch THEN fresh ELSE Batch
  IN
  /\ loop[c] = "reading"
  /\ IF n = 0
     THEN To(c, "testing") /\ UNCHANGED <<group, pending, batch>>
     ELSE /\ Deliver(c, n) /\ To(c, "handing")
          /\ batch' = [batch EXCEPT ![c] = [i \in 1..n |-> group + i]]
  /\ UNCHANGED <<stream, acked, busClosed, known, cancelled, since, handed>>

\* The request fails, or its reply is lost after the server has delivered.  The loop
\* ends when it was told to, and tries again otherwise.
ReadFails(c) ==
  /\ loop[c] = "reading"
  /\ To(c, IF Leaves(c) THEN "ended" ELSE "testing")
  /\ \/ UNCHANGED <<group, pending>>
     \/ group < Len(stream) /\ Deliver(c, 1)
  /\ UNCHANGED <<stream, acked, busClosed, known, cancelled, batch, since, handed>>

\* The head of the loop.
Test(c) ==
  /\ loop[c] = "testing"
  /\ To(c, IF Leaves(c) THEN "ended" ELSE "reading")
  /\ UNCHANGED <<stream, group, pending, acked, busClosed, known, cancelled, batch, since, handed>>

\* Variant: an entry is handed on again when its handler has thrown.
HandRetrying(c) ==
  /\ loop[c] = "handing" /\ batch[c] # <<>> /\ stream[Head(batch[c])]
  /\ handed' = [handed EXCEPT ![Head(batch[c])] = @ + 1]
  /\ \/ batch' = [batch EXCEPT ![c] = Tail(@)] /\ To(c, "handling")
     \/ UNCHANGED <<batch, loop>>
  /\ handed[Head(batch[c])] < 2
  /\ UNCHANGED <<stream, group, pending, acked, busClosed, known, cancelled, since>>

\* The next entry goes to the handler; one that does not parse is passed over.
Hand(c) ==
  LET e == Head(batch[c]) IN
  /\ loop[c] = "handing" /\ batch[c] # <<>>
  /\ batch' = [batch EXCEPT ![c] = Tail(@)]
  /\ IF stream[e]
     THEN handed' = [handed EXCEPT ![e] = @ + 1] /\ To(c, "handling")
     ELSE UNCHANGED <<handed, loop>>
  /\ UNCHANGED <<stream, group, pending, acked, busClosed, known, cancelled, since>>

\* The handler acks an entry it was given and returns, or throws.
Handled(c) ==
  /\ loop[c] = "handling" /\ To(c, "handing")
  /\ \/ \E e \in pending[c] : /\ handed[e] > 0
                              /\ acked' = acked \cup {e}
                              /\ pending' = [pending EXCEPT ![c] = @ \ {e}]
     \/ UNCHANGED <<acked, pending>>
  /\ UNCHANGED <<stream, group, busClosed, known, cancelled, batch, since, handed>>

EndBatch(c) ==
  /\ loop[c] = "handing" /\ batch[c] = <<>> /\ To(c, "testing")
  /\ UNCHANGED <<stream, group, pending, acked, busClosed, known, cancelled, batch, since, handed>>

Unsubscribe(c) ==
  /\ loop[c] \notin {"none", "ended"} /\ ~cancelled[c]
  /\ cancelled' = [cancelled EXCEPT ![c] = TRUE]
  /\ UNCHANGED <<stream, group, pending, acked, busClosed, known, loop, batch, since, handed>>

Close ==
  /\ ~busClosed /\ busClosed' = TRUE
  /\ UNCHANGED <<stream, group, pending, acked, known, loop, cancelled, batch, since, handed>>

\* The process dies with what it has read, and another one starts.
Restart ==
  /\ \E c \in Consumer : loop[c] # "none"
  /\ loop' = [c \in Consumer |-> IF loop[c] = "none" THEN "none" ELSE "ended"]
  /\ batch' = [c \in Consumer |-> <<>>]
  /\ busClosed' = FALSE /\ known' = FALSE
  /\ UNCHANGED <<stream, group, pending, acked, cancelled, since, handed>>

Next ==
  \/ \E readable \in BOOLEAN : Publish(readable)
  \/ \E c \in Consumer :
       \/ Subscribe(c) \/ Read(c) \/ ReadFails(c) \/ Test(c)
       \/ Hand(c) \/ Handled(c) \/ EndBatch(c) \/ Unsubscribe(c)
  \/ Close \/ Restart

Spec == Init /\ [][Next]_vars

-----------------------------------------------------------------------------
(* Properties *)

\* Every entry since the group is there is one consumer's, in its pending list until it
\* is acked, whatever replies were lost and processes died; no handler sees it twice,
\* and what was read and not handed on yet is still pending.
EntriesAccounted ==
  /\ group # NoGroup => (since + 1)..group = acked \cup UNION {pending[c] : c \in Consumer}
  /\ \A c, d \in Consumer : c # d => pending[c] \cap pending[d] = {}
  /\ \A e \in Entry : handed[e] <= 1
  /\ \A c \in Consumer, i \in 1..MaxEntries : i <= Len(batch[c]) => batch[c][i] \in pending[c]
=============================================================================

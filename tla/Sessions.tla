------------------------------ MODULE Sessions ------------------------------
(***************************************************************************)
(* The table of sessions (control-plane/src/session/store.ts), which the   *)
(* gateway and a command of the terminal open at the same time: the        *)
(* messages that are routed to a session (router.ts), sessions that are    *)
(* put to sleep and woken, and redirects to another agent                  *)
(* (ego/src/redirect.ts).                                                  *)
(*                                                                         *)
(* Each SQL statement is a step.  A function of the store runs to its end  *)
(* before another one of its process starts, but not before one of the     *)
(* other process does; a redirect lets go at each of its awaits.           *)
(***************************************************************************)
EXTENDS Integers, Sequences

CONSTANTS
  Gateway, Cli,    \* the calls made in each of the two processes
  Agent,           
  DefaultAgent,    \* the agent of messages that no rule takes
  Conversation,    \* a channel's type and conversation
  Rule,            \* routing rules: records [id, priority, agent, conversations]
  Nil,
  MaxSessions      \* bound: ids of sessions

SessionsAssumption ==
  /\ DefaultAgent \in Agent /\ MaxSessions \in Nat /\ Gateway \cap Cli = {}
  /\ \A r \in Rule : r.agent \in Agent /\ r.priority \in Int

VARIABLES
  rules,       \* the router's rules, the first that matches is taken
  table,       \* rows, by id: [key, status, target], target in its metadata
  nextSession, \* generateId()
  visit,       \* visit[c]: what the call is at, see Fresh
  held,        \* held[p]: the call whose function of the store process p is in
  preambles,   \* sessions that were told of the one they were redirected from
  resolved,    \* history: what messages were resolved to, <<key, id>>
  marked,      \* history: sessions that were redirected
  overlapped   \* history: a row was written that had changed since it was read

vars == <<rules, table, nextSession, visit, held, preambles, resolved, marked, overlapped>>

Visit == Gateway \cup Cli
Process == {"gateway", "cli"}
ProcessOf(c) == IF c \in Gateway THEN "gateway" ELSE "cli"
Ids == 1..MaxSessions
Keys == Agent \X Conversation
Rows == DOMAIN table

Fresh == [state |-> "new", key |-> Nil, id |-> 0, status |-> Nil, target |-> 0, row |-> Nil]

TypeOK ==
  /\ \A i \in Rows : /\ i < nextSession
                     /\ table[i].key \in Keys /\ table[i].target \in 0..MaxSessions
                     /\ table[i].status \in {"active", "hibernated", "redirected"}
  /\ \A p \in Process : held[p] # Nil => ProcessOf(held[p]) = p
  /\ preambles \subseteq Rows
  /\ \A i, j \in DOMAIN rules : i < j => rules[i].priority >= rules[j].priority

Init ==
  /\ rules = <<>> /\ table = <<>> /\ nextSession = 1
  /\ visit = [c \in Visit |-> Fresh]
  /\ held = [p \in Process |-> Nil]
  /\ preambles = {} /\ resolved = {} /\ marked = {} /\ overlapped = FALSE

-----------------------------------------------------------------------------
(* The router's rules *)

\* addRule keeps ids apart, so at most one rule goes; the others keep their order.
Without(id) ==
  IF \E i \in DOMAIN rules : rules[i].id = id
  THEN LET i == CHOOSE i \in DOMAIN rules : rules[i].id = id
       IN SubSeq(rules, 1, i - 1) \o SubSeq(rules, i + 1, Len(rules))
  ELSE rules

\* The higher priority first, and of equals the older: the place k is the first whose
\* rule the new one goes before.
AddRule(r) ==
  LET others == Without(r.id)
  IN \E k \in 1..(Len(others) + 1) :
       /\ \A i \in 1..(k - 1) : others[i].priority >= r.priority
       /\ \A i \in k..Len(others) : others[i].priority < r.priority
       /\ rules' = SubSeq(others, 1, k - 1) \o <<r>> \o SubSeq(others, k, Len(others))
       /\ UNCHANGED <<table, nextSession, visit, held, preambles, resolved, marked, overlapped>>

RemoveRule(id) ==
  /\ \E i \in DOMAIN rules : rules[i].id = id
  /\ rules' = Without(id)
  /\ UNCHANGED <<table, nextSession, visit, held, preambles, resolved, marked, overlapped>>

\* Rule i is the first that matches a message of the conversation.
MatchesFirst(i, conversation) ==
  /\ conversation \in rules[i].conversations
  /\ \A j \in 1..(i - 1) : conversation \notin rules[j].conversations

\* The agent such a message goes to.
AgentOf(conversation) ==
  IF \E i \in DOMAIN rules : MatchesFirst(i, conversation)
  THEN rules[CHOOSE i \in DOMAIN rules : MatchesFirst(i, conversation)].agent
  ELSE DefaultAgent

-----------------------------------------------------------------------------
(* The functions of the store *)

CanEnter(c) == held[ProcessOf(c)] = Nil
Hold(c) == held' = [held EXCEPT ![ProcessOf(c)] = c]
LetGo(c) == held' = [held EXCEPT ![ProcessOf(c)] = Nil]
To(c, state) == visit' = [visit EXCEPT ![c].state = state]
End(c, state) == visit' = [visit EXCEPT ![c] = [Fresh EXCEPT !.state = state]]

HasKey(key) == \E i \in Rows : table[i].key = key
WithKey(key) == CHOOSE i \in Rows : table[i].key = key

\* The function returns: a redirect goes on with its next call, the others are over.
Return(c, next) == LetGo(c) /\ IF next = "done" THEN End(c, "done") ELSE To(c, next)

\* resolveSession: the SELECT.  A session that sleeps has to be woken.
Resolve(c, conversation) ==
  LET key == <<AgentOf(conversation), conversation>> IN
  /\ visit[c].state = "new" /\ CanEnter(c)
  /\ IF ~HasKey(key)
     THEN /\ visit' = [visit EXCEPT ![c].state = "inserting", ![c].key = key]
          /\ Hold(c) /\ UNCHANGED resolved
     ELSE LET id == WithKey(key) IN
          /\ resolved' = resolved \cup {<<key, id>>}
          /\ IF table[id].status = "hibernated"
             THEN /\ visit' = [visit EXCEPT ![c].state = "resuming", ![c].id = id,
                                            ![c].status = "active"]
                  /\ Hold(c)
             ELSE End(c, "done") /\ UNCHANGED held
  /\ UNCHANGED <<rules, table, nextSession, preambles, marked, overlapped>>

\* A session's row is added to those that are there.
With(others, key) ==
  [i \in DOMAIN others \cup {nextSession} |->
     IF i = nextSession THEN [key |-> key, status |-> "active", target |-> 0] ELSE others[i]]

\* Variant: an INSERT OR REPLACE.
InsertReplacing(c) ==
  LET key == visit[c].key IN
  /\ visit[c].state \in {"inserting", "creating"} /\ nextSession \in Ids
  /\ table' = With([i \in {j \in Rows : table[j].key # key} |-> table[i]], key)
  /\ nextSession' = nextSession + 1
  /\ resolved' = IF visit[c].state = "inserting" THEN resolved \cup {<<key, nextSession>>} ELSE resolved
  /\ Return(c, IF visit[c].state = "inserting" THEN "done" ELSE "greeting")
  /\ UNCHANGED <<rules, preambles, marked, overlapped>>

\* createSession: the INSERT, which throws when the conversation has a session by now.
Insert(c) ==
  LET key == visit[c].key IN
  /\ visit[c].state \in {"inserting", "creating"} /\ nextSession \in Ids
  /\ IF HasKey(key)
     THEN /\ End(c, "failed") /\ LetGo(c)
          /\ UNCHANGED <<table, nextSession, resolved>>
     ELSE /\ table' = With(table, key)
          /\ nextSession' = nextSession + 1
          /\ resolved' = IF visit[c].state = "inserting"
                         THEN resolved \cup {<<key, nextSession>>} ELSE resolved
          /\ Return(c, IF visit[c].state = "inserting" THEN "done" ELSE "greeting")
  /\ UNCHANGED <<rules, preambles, marked, overlapped>>

\* hibernateSession, of the gateway's endpoint.
Hibernate(c, id) ==
  /\ visit[c].state = "new" /\ CanEnter(c)
  /\ visit' = [visit EXCEPT ![c].state = "hibernating", ![c].id = id, ![c].status = "hibernated"]
  /\ Hold(c)
  /\ UNCHANGED <<rules, table, nextSession, preambles, resolved, marked, overlapped>>

Updating(c) == visit[c].state \in {"resuming", "hibernating", "redirecting"}

\* updateSession reads the row, or throws.
ReadRow(c) ==
  /\ Updating(c) /\ visit[c].row = Nil
  /\ IF visit[c].id \in Rows
     THEN visit' = [visit EXCEPT ![c].row = table[visit[c].id]] /\ UNCHANGED held
     ELSE End(c, "failed") /\ LetGo(c)
  /\ UNCHANGED <<rules, table, nextSession, preambles, resolved, marked, overlapped>>

\* Variant: the new metadata replaces the old.
MergedAfresh(c) == [visit[c].row EXCEPT !.status = visit[c].status, !.target = visit[c].target]

\* The new metadata is merged into what was read.
Merged(c) ==
  [visit[c].row EXCEPT !.status = visit[c].status,
                       !.target = IF visit[c].target # 0 THEN visit[c].target ELSE @]

\* ... and writes it: both columns, whatever has become of them meanwhile.
WriteRow(c) ==
  LET id == visit[c].id IN
  /\ Updating(c) /\ visit[c].row # Nil
  /\ table' = [table EXCEPT ![id] = Merged(c)]
  /\ overlapped' = (overlapped \/ table[id] # visit[c].row)
  /\ marked' = IF visit[c].state = "redirecting" THEN marked \cup {id} ELSE marked
  /\ Return(c, IF visit[c].state = "redirecting" THEN "looking" ELSE "done")
  /\ UNCHANGED <<rules, nextSession, preambles, resolved>>

-----------------------------------------------------------------------------
(* performRedirect *)

\* The original session is marked first.  Without a target's id one is drawn, which
\* is nobody's; createSession will draw another.
Redirect(c, id, agent, target) ==
  /\ visit[c].state = "new" /\ CanEnter(c)
  /\ id \in Rows
  /\ target \in Rows \/ (target = nextSession /\ nextSession < MaxSessions)
  /\ visit' = [visit EXCEPT ![c] = [@ EXCEPT !.state = "redirecting", !.id = id, !.target = target,
                 !.status = "redirected", !.key = <<agent, table[id].key[2]>>]]
  /\ nextSession' = IF target \in Rows THEN nextSession ELSE nextSession + 1
  /\ Hold(c)
  /\ UNCHANGED <<rules, table, preambles, resolved, marked, overlapped>>

\* getSession of the target.
Look(c) ==
  /\ visit[c].state = "looking" /\ CanEnter(c)
  /\ To(c, IF visit[c].target \in Rows THEN "greeting" ELSE "creating")
  /\ UNCHANGED <<rules, table, nextSession, held, preambles, resolved, marked, overlapped>>

\* sendToSession, which does nothing for a session that is not there.
Greet(c) ==
  /\ visit[c].state = "greeting" /\ CanEnter(c)
  /\ preambles' = IF visit[c].target \in Rows THEN preambles \cup {visit[c].target} ELSE preambles
  /\ End(c, "done")
  /\ UNCHANGED <<rules, table, nextSession, held, resolved, marked, overlapped>>

\* A process dies, and its calls with it.
Kill(p) ==
  /\ \E c \in Visit : ProcessOf(c) = p /\ visit[c].state \notin {"new", "done", "failed"}
  /\ visit' = [c \in Visit |-> IF ProcessOf(c) = p /\ visit[c].state \notin {"new", "done"}
                               THEN [Fresh EXCEPT !.state = "failed"] ELSE visit[c]]
  /\ held' = [held EXCEPT ![p] = Nil]
  /\ UNCHANGED <<rules, table, nextSession, preambles, resolved, marked, overlapped>>

Next ==
  \/ \E r \in Rule : AddRule(r) \/ RemoveRule(r.id)
  \/ \E c \in Visit :
       \/ \E conversation \in Conversation : Resolve(c, conversation)
       \/ Insert(c) \/ ReadRow(c) \/ WriteRow(c)
       \/ \E id \in Rows : Hibernate(c, id)
       \/ \E id \in Rows, agent \in Agent, target \in Ids : Redirect(c, id, agent, target)
       \/ Look(c) \/ Greet(c)
  \/ \E p \in Process : Kill(p)

Spec == Init /\ [][Next]_vars

-----------------------------------------------------------------------------
(* Properties *)

\* A conversation has one session for good, whichever process asks first or at the
\* same time: all its messages are resolved to it, asleep, woken or redirected.
OneSession ==
  /\ \A i, j \in Rows : table[i].key = table[j].key => i = j
  /\ \A r \in resolved : r[2] \in Rows /\ table[r[2]].key = r[1]

\* Whatever a redirected session goes through afterwards, asleep or woken, it tells
\* where it was redirected to, unless the two processes wrote its row over each other.
RedirectRemembered == overlapped \/ \A i \in marked : table[i].target # 0
=============================================================================

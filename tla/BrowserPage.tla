----------------------------- MODULE BrowserPage -----------------------------
(***************************************************************************)
(* The page's controllers over its RPC client (webapp/src/ui/controllers): *)
(* ChatController with PhaseController, which match what the server        *)
(* notifies to nothing but the turn that is streaming, and                 *)
(* PollingController, whose chain of ticks and timers is stopped, kicked   *)
(* and overtaken.                                                          *)
(***************************************************************************)
EXTENDS Naturals, FiniteSets

CONSTANTS
  Send,        \* the calls of chat.send
  NoTurn,
  MaxChains    \* bound: kicks that come while a poll is under way

PageAssumption == NoTurn \notin Send /\ MaxChains \in Nat

VARIABLES
  \* ChatController, PhaseController
  request,     \* request[r]: "new", "running", "timed out" (the server goes on),
               \* "forgotten" (and has ended), "over"
  busy,        \* the send that is under way, NoTurn for false
  streaming,   \* streamingId
  turns,       \* the assistant turns that are shown
  unfinished,  \* those of them that are marked as streaming
  knowsSession,
  phase,       \* the request whose phase is shown
  history,     \* loadHistory awaits its answer
  got,         \* history: got[r], the requests whose deltas became text of r's turn
  \* PollingController
  attached, visible, online,
  ticks,       \* polls under way
  tracked,     \* the timer that this.timer holds is armed
  strays,      \* armed timers that this.timer has forgotten
  overlaps     \* history: the kicks that came while a poll was under way

chatVars == <<request, busy, streaming, turns, unfinished, knowsSession, phase, history, got>>
pollVars == <<attached, visible, online, ticks, tracked, strays, overlaps>>
vars == <<chatVars, pollVars>>

TypeOK ==
  /\ busy \in Send \cup {NoTurn} /\ streaming \in {busy, NoTurn}
  /\ unfinished \subseteq turns /\ turns \subseteq Send
  /\ \A r \in Send : request[r] = "running" <=> busy = r
  /\ ticks + strays \in 0..MaxChains + 1 /\ overlaps \in 0..MaxChains

Init ==
  /\ request = [r \in Send |-> "new"] /\ busy = NoTurn /\ streaming = NoTurn
  /\ turns = {} /\ unfinished = {} /\ knowsSession = FALSE /\ phase = NoTurn /\ history = FALSE
  /\ got = [r \in Send |-> {}]
  /\ attached = FALSE /\ visible = TRUE /\ online = FALSE
  /\ ticks = 0 /\ tracked = FALSE /\ strays = 0 /\ overlaps = 0

-----------------------------------------------------------------------------
(* ChatController *)

\* A send while another one is under way does nothing at all.
SendText(r) ==
  /\ request[r] = "new" /\ busy = NoTurn
  /\ request' = [request EXCEPT ![r] = "running"]
  /\ busy' = r /\ streaming' = r
  /\ turns' = turns \cup {r} /\ unfinished' = unfinished \cup {r}
  /\ UNCHANGED <<knowsSession, phase, history, got, pollVars>>

AtServer(r) == request[r] \in {"running", "timed out"}

\* chat.accepted
Accepted(r) ==
  /\ AtServer(r) /\ attached /\ knowsSession' = TRUE
  /\ UNCHANGED <<request, busy, streaming, turns, unfinished, phase, history, got, pollVars>>

\* chat.delta goes to the turn that streams, whosever it is.
Delta(r) ==
  /\ AtServer(r) /\ attached /\ streaming \in turns
  /\ got' = [got EXCEPT ![streaming] = @ \cup {r}]
  /\ UNCHANGED <<request, busy, streaming, turns, unfinished, knowsSession, phase, history, pollVars>>

\* chat.phase; the streaming and the terminal ones clear the line.
Phase(r) ==
  /\ AtServer(r) /\ attached /\ phase' \in {r, NoTurn}
  /\ UNCHANGED <<request, busy, streaming, turns, unfinished, knowsSession, history, got, pollVars>>

\* Variant: the turn is finalised, and what streams is not reset.
FinishKeeping(r, state) ==
  /\ request' = [request EXCEPT ![r] = state]
  /\ unfinished' = unfinished \ {r}
  /\ busy' = NoTurn /\ UNCHANGED <<streaming, phase>>

\* The turn is finalised, if it is still shown; finally.
Finish(r, state) ==
  /\ request' = [request EXCEPT ![r] = state]
  /\ unfinished' = unfinished \ {r}
  /\ streaming' = NoTurn /\ busy' = NoTurn /\ phase' = NoTurn

Result(r) ==
  /\ request[r] = "running" /\ Finish(r, "over")
  /\ knowsSession' = TRUE
  /\ UNCHANGED <<turns, history, got, pollVars>>

\* The call fails with the server's error or its connection, or it times out and the
\* server does not know.
SendFails(r, state) ==
  /\ request[r] = "running" /\ Finish(r, state)
  /\ UNCHANGED <<turns, knowsSession, history, got, pollVars>>

\* The server is done with a request that had timed out.
Forgotten(r) ==
  /\ request[r] = "timed out" /\ request' = [request EXCEPT ![r] = "forgotten"]
  /\ UNCHANGED <<busy, streaming, turns, unfinished, knowsSession, phase, history, got, pollVars>>

\* It leaves a send that is under way alone: its result will bring the session back.
NewSession ==
  /\ turns' = {} /\ unfinished' = {} /\ knowsSession' = FALSE
  /\ streaming' = NoTurn /\ phase' = NoTurn
  /\ UNCHANGED <<request, busy, history, got, pollVars>>

LoadHistory ==
  /\ knowsSession /\ ~history /\ history' = TRUE
  /\ UNCHANGED <<request, busy, streaming, turns, unfinished, knowsSession, phase, got, pollVars>>

\* What the server has replaces what is shown, a turn under way included.
HistoryLoaded ==
  /\ history /\ history' = FALSE
  /\ \/ turns' = {} /\ unfinished' = {}
     \/ UNCHANGED <<turns, unfinished>>
  /\ UNCHANGED <<request, busy, streaming, knowsSession, phase, got, pollVars>>

-----------------------------------------------------------------------------
(* PollingController *)

Chains == ticks + strays + IF tracked THEN 1 ELSE 0

\* setTimeout; what this.timer held is no longer known.
Arm(timer, others) ==
  /\ tracked' = TRUE
  /\ strays' = IF timer THEN others + 1 ELSE others

\* The head of tick(): without a connection it only waits for the next one.
Tick(timer, others) ==
  IF online
  THEN ticks' = ticks + 1 /\ tracked' = timer /\ strays' = others
  ELSE Arm(timer, others) /\ UNCHANGED ticks

\* kick(): the timer is cleared, a poll under way is not.
StopAndTick ==
  /\ Tick(FALSE, strays)
  /\ IF ticks > 0 THEN overlaps < MaxChains /\ overlaps' = overlaps + 1 ELSE UNCHANGED overlaps

Stop == tracked' = FALSE /\ UNCHANGED <<ticks, strays, overlaps>>

\* After a user action.
Kick ==
  /\ attached /\ StopAndTick /\ UNCHANGED <<chatVars, attached, visible, online>>

HostConnected ==
  /\ ~attached /\ attached' = TRUE /\ StopAndTick
  /\ UNCHANGED <<chatVars, visible, online>>

HostDisconnected ==
  /\ attached /\ attached' = FALSE /\ Stop
  /\ UNCHANGED <<chatVars, visible, online>>

VisibilityChanges ==
  /\ visible' = ~visible
  /\ IF ~attached THEN UNCHANGED <<ticks, tracked, strays, overlaps>>
     ELSE IF visible THEN Stop ELSE StopAndTick
  /\ UNCHANGED <<chatVars, attached, online>>

ConnectionChanges ==
  /\ online' = ~online
  /\ UNCHANGED <<chatVars, attached, visible, ticks, tracked, strays, overlaps>>

TimerFires ==
  /\ \/ tracked /\ Tick(FALSE, strays)
     \/ strays > 0 /\ Tick(tracked, strays - 1)
  /\ UNCHANGED <<chatVars, attached, visible, online, overlaps>>

\* Variant: no timer after a poll that failed.
PollEndsForGood ==
  /\ ticks > 0 /\ ticks' = ticks - 1
  /\ \/ IF visible THEN Arm(tracked, strays) ELSE UNCHANGED <<tracked, strays>>
     \/ UNCHANGED <<tracked, strays>>
  /\ UNCHANGED <<chatVars, attached, visible, online, overlaps>>

\* The answers are there, or one of them failed.
PollEnds ==
  /\ ticks > 0 /\ ticks' = ticks - 1
  /\ IF visible THEN Arm(tracked, strays) ELSE UNCHANGED <<tracked, strays>>
  /\ UNCHANGED <<chatVars, attached, visible, online, overlaps>>

ChatStep ==
  \/ \E r \in Send :
       \/ SendText(r) \/ Accepted(r) \/ Delta(r) \/ Phase(r) \/ Result(r)
       \/ SendFails(r, "over") \/ SendFails(r, "timed out") \/ Forgotten(r)
  \/ NewSession \/ LoadHistory \/ HistoryLoaded

HostStep == HostConnected \/ HostDisconnected

PollStep == Kick \/ VisibilityChanges \/ ConnectionChanges \/ TimerFires \/ PollEnds

Next == ChatStep \/ HostStep \/ PollStep

Spec == Init /\ [][Next]_vars

-----------------------------------------------------------------------------
(* Properties *)

\* A turn's text is its own, and what is shown as streaming or as a phase belongs to
\* the send that is under way, but for what a send that timed out still brings.
TextIsOwn ==
  LET late == {q \in Send : request[q] \in {"timed out", "forgotten"}} IN
  /\ \A r \in Send : got[r] \subseteq {r} \cup late
  /\ unfinished \subseteq {busy}
  /\ phase \in {NoTurn, busy} \cup late

\* A visible page goes on polling, on one chain and one more for each kick that came
\* while a poll was under way (kick, stop, tick); to hide the page, to leave it and to
\* come back adds none otherwise.
PollingGoesOn ==
  /\ attached /\ visible => Chains >= 1
  /\ Chains <= 1 + overlaps
=============================================================================

-------------------------- MODULE TelegramPolling --------------------------
(***************************************************************************)
(* The long-polling loop of TelegramAdapter (channels/telegram/src/        *)
(* adapter.ts) and restarts of its process.  External, from the requests   *)
(* the loop makes: a getUpdates request confirms to Telegram every update  *)
(* below its offset, and an update that is not confirmed is sent again.    *)
(*                                                                         *)
(* nextOffset is modelled by the last update it covers, its value less 1.  *)
(***************************************************************************)
EXTENDS Naturals

CONSTANT MaxUpdates   \* bound: the updates Telegram has for the bot

\* Assumed of the constants; the modules that instantiate this one check it.
TelegramAssumption == MaxUpdates \in Nat

VARIABLES
  running,          \* between initialize and shutdown
  aborted,          \* pollAbortController's signal
  loop,             \* where pollForever is
  nextOffset,
  updates,          \* the updates there are
  confirmed,        \* the last one Telegram takes for delivered
  dispatched        \* the last one that was dispatched, in any life

vars == <<running, aborted, loop, nextOffset, updates, confirmed, dispatched>>

TypeOK ==
  /\ running \in BOOLEAN /\ aborted \in BOOLEAN
  /\ loop \in {"off", "top", "polling", "sleeping", "ended"}
  /\ nextOffset \in 0..MaxUpdates /\ updates \in 0..MaxUpdates
  /\ confirmed \in 0..MaxUpdates /\ dispatched \in 0..MaxUpdates

Init ==
  /\ running = FALSE /\ aborted = FALSE /\ loop = "off"
  /\ nextOffset = 0 /\ updates = 0 /\ confirmed = 0 /\ dispatched = 0

Larger(a, b) == IF a >= b THEN a ELSE b

\* An update arrives at Telegram.
Update ==
  /\ updates < MaxUpdates
  /\ updates' = updates + 1
  /\ UNCHANGED <<running, aborted, loop, nextOffset, confirmed, dispatched>>

\* initialize() of a fresh adapter.
Initialize ==
  /\ loop = "off"
  /\ running' = TRUE /\ aborted' = FALSE /\ loop' = "top" /\ nextOffset' = 0
  /\ UNCHANGED <<updates, confirmed, dispatched>>

\* The loop's condition, and the request.
Poll ==
  /\ loop = "top"
  /\ IF running /\ ~aborted
     THEN /\ loop' = "polling"
          /\ confirmed' = Larger(confirmed, nextOffset)
     ELSE /\ loop' = "ended"
          /\ UNCHANGED confirmed
  /\ UNCHANGED <<running, aborted, nextOffset, updates, dispatched>>

\* Variant: the offset passes the whole batch before its first update is handed on.
AnswerOffsetFirst ==
  /\ loop = "polling"
  /\ \E n \in Larger(confirmed, nextOffset)..updates :
       /\ nextOffset' = updates
       /\ dispatched' = Larger(dispatched, n)
       /\ loop' = IF n = updates THEN "top" ELSE "sleeping"
  /\ UNCHANGED <<running, aborted, updates, confirmed>>

\* The answer, of some of the updates that wait: they are dispatched one after the
\* other, each moving the offset first.  A handler that throws leaves the rest to
\* a later request; a loop that was aborted returns from its catch.
Answer ==
  LET covered == Larger(confirmed, nextOffset) IN
  /\ loop = "polling"
  /\ \E n \in covered..updates, throws \in BOOLEAN :
       /\ throws => n > covered
       /\ nextOffset' = IF n > covered THEN n ELSE nextOffset
       /\ dispatched' = IF n > covered THEN Larger(dispatched, n) ELSE dispatched
       /\ loop' = IF ~throws THEN "top" ELSE IF aborted THEN "ended" ELSE "sleeping"
  /\ UNCHANGED <<running, aborted, updates, confirmed>>

\* getUpdates rejects.
PollFails ==
  /\ loop = "polling"
  /\ loop' = IF aborted THEN "ended" ELSE "sleeping"
  /\ UNCHANGED <<running, aborted, nextOffset, updates, confirmed, dispatched>>

Wake ==
  /\ loop = "sleeping"
  /\ loop' = "top"
  /\ UNCHANGED <<running, aborted, nextOffset, updates, confirmed, dispatched>>

\* shutdown(), up to its await of the loop.
Shutdown ==
  /\ running
  /\ running' = FALSE /\ aborted' = TRUE
  /\ UNCHANGED <<loop, nextOffset, updates, confirmed, dispatched>>

\* The process is gone, by a crash or after shutdown; another may be started.
Exit ==
  /\ loop # "off"
  /\ loop' = "off" /\ running' = FALSE /\ nextOffset' = 0
  /\ UNCHANGED <<aborted, updates, confirmed, dispatched>>

Next ==
  \/ Update \/ Initialize \/ Poll \/ Answer \/ PollFails \/ Wake \/ Shutdown \/ Exit

Spec == Init /\ [][Next]_vars

-----------------------------------------------------------------------------
(* Properties *)

\* No update is lost by a failing handler, a failing request or a restart
\* (pollForever, dispatchUpdate): what Telegram takes for delivered was dispatched.
ConfirmedDispatched == confirmed <= dispatched
=============================================================================

-------------------------------- MODULE Webhook --------------------------------
(***************************************************************************)
(* Channels that are posted to: the HTTP mode of SlackAdapter (channels/   *)
(* slack/src/adapter.ts) and CloudApiWhatsAppClient with the adapter above *)
(* it (channels/whatsapp/src/cloud-api-client.ts, adapter.ts).  Both serve *)
(* a POST alike: read the body, verify its signature, dispatch what it     *)
(* carries, answer 200.                                                    *)
(*                                                                         *)
(* External: a provider posts a message again until it was answered 200,   *)
(* and http.Server.close() lets the requests under way come to their end.  *)
(* The handler is attached when initialize() resolves, before a request.   *)
(***************************************************************************)
EXTENDS Naturals

CONSTANTS
  Message,        \* messages of the provider
  Spoken,         \* those with a text and not of the bot itself
  Foreign,        \* messages in posts that the provider did not sign
  Post,           \* requests that may be under way at once
  MaxDispatches   \* bound: times one message is dispatched

\* Assumed of the constants; the modules that instantiate this one check it.
WebhookAssumption ==
  /\ Spoken \subseteq Message /\ Foreign \cap Message = {} /\ MaxDispatches \in Nat

VARIABLES
  server,         \* this.http: "off", "listening", "closing", "closed"
  running,        \* what the health check reports
  post,           \* where a request is, and what it carries
  answered,       \* messages whose 200 the provider has read
  dispatched      \* times the handler was called with a message

vars == <<server, running, post, answered, dispatched>>

Idle == [phase |-> "idle", carries |-> {}]

TypeOK ==
  /\ server \in {"off", "listening", "closing", "closed"} /\ running \in BOOLEAN
  /\ post \in [Post -> [phase : {"idle", "reading", "ok", "refused"},
                        carries : SUBSET (Message \cup Foreign)]]
  /\ answered \subseteq Message
  /\ dispatched \in [Message \cup Foreign -> 0..MaxDispatches]

Init ==
  /\ server = "off" /\ running = FALSE /\ post = [p \in Post |-> Idle]
  /\ answered = {} /\ dispatched = [m \in Message \cup Foreign |-> 0]

\* initialize(): createServer and listen.
Initialize ==
  /\ server = "off"
  /\ server' = "listening" /\ running' = TRUE
  /\ UNCHANGED <<post, answered, dispatched>>

\* A request comes in.  The provider posts what it has no answer for and is not posting;
\* WhatsApp several messages at once.
Posted(p, messages) ==
  /\ server = "listening" /\ post[p] = Idle
  /\ messages # {} /\ messages \cap answered = {}
  /\ \A q \in Post : post[q].carries \cap messages = {}
  /\ \A m \in messages : dispatched[m] < MaxDispatches
  /\ post' = [post EXCEPT ![p] = [phase |-> "reading", carries |-> messages]]
  /\ UNCHANGED <<server, running, answered, dispatched>>

\* verifySignature, verifySlackSignature: a post is of the provider.  requireSignature is
\* TRUE, its default.
Verified(messages) == messages \subseteq Message

\* What has a text and is of someone else, by translateCloudApiMessage, toStandardMessage
\* and the adapters.
Heard(messages) == messages \ (Message \ Spoken)

\* dispatchInbound, dispatchEvent: the handler starts the turn and returns.
Dispatch(messages) ==
  dispatched' = [m \in DOMAIN dispatched |->
                   dispatched[m] + IF m \in Heard(messages) THEN 1 ELSE 0]

\* Variant: the provider is told at once, and the turn starts after it.
HandleAnsweringFirst(p) ==
  /\ post[p].phase = "reading" /\ Verified(post[p].carries)
  /\ IF post[p].carries \subseteq answered
     THEN /\ Dispatch(post[p].carries)
          /\ post' = [post EXCEPT ![p] = Idle]
          /\ UNCHANGED answered
     ELSE /\ answered' = answered \cup post[p].carries
          /\ UNCHANGED <<post, dispatched>>
  /\ UNCHANGED <<server, running>>

\* The body is read: refused with 401 or 400, or dispatched and answered 200.
Handle(p) ==
  /\ post[p].phase = "reading"
  /\ IF Verified(post[p].carries)
     THEN /\ Dispatch(post[p].carries)
          /\ post' = [post EXCEPT ![p].phase = "ok"]
     ELSE /\ post' = [post EXCEPT ![p].phase = "refused"]
          /\ UNCHANGED dispatched
  /\ UNCHANGED <<server, running, answered>>

\* The answer reaches the one who posted, or its connection is gone.
Answer(p) ==
  /\ post[p].phase \in {"ok", "refused"}
  /\ post' = [post EXCEPT ![p] = Idle]
  /\ \/ answered' = IF post[p].phase = "ok" THEN answered \cup post[p].carries
                                             ELSE answered
     \/ UNCHANGED answered
  /\ UNCHANGED <<server, running, dispatched>>

\* The process ends.  A connection that breaks while its body is read is enough: readBody
\* rejects, and nobody handles the rejection of handleHttp.
Crash ==
  /\ server # "off"
  /\ server' = "off" /\ running' = FALSE /\ post' = [p \in Post |-> Idle]
  /\ UNCHANGED <<answered, dispatched>>

\* shutdown() and close(): no further connections; it resolves when none is left.
Shutdown ==
  /\ server = "listening"
  /\ server' = "closing" /\ running' = FALSE
  /\ UNCHANGED <<post, answered, dispatched>>

Closed ==
  /\ server = "closing" /\ \A p \in Post : post[p] = Idle
  /\ server' = "closed"
  /\ UNCHANGED <<running, post, answered, dispatched>>

Next ==
  \/ Initialize \/ Crash \/ Shutdown \/ Closed
  \/ \E p \in Post, ms \in (SUBSET Message) \cup {{m} : m \in Foreign} : Posted(p, ms)
  \/ \E p \in Post : Handle(p) \/ Answer(p)

Spec == Init /\ [][Next]_vars

-----------------------------------------------------------------------------
(* Properties *)

\* A message the provider will not post again, for it was answered, was dispatched,
\* whatever connection broke or process ended in between (Handle answers last).
AnsweredDispatched == \A m \in answered \cap Spoken : dispatched[m] > 0

\* What the provider did not sign reaches no handler (verifySignature before
\* dispatchInbound), and when shutdown is over no request is left that could start a
\* turn (close of the server).
OnlySigned ==
  /\ \A m \in Foreign : dispatched[m] = 0
  /\ server = "closed" => \A p \in Post : post[p] = Idle
=============================================================================

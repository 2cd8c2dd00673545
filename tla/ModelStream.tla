------------------------------ MODULE ModelStream ------------------------------
(***************************************************************************)
(* The streams of the model adapters and who reads them: AnthropicAdapter  *)
(* and OpenAIAdapter (agent-worker/src/model/anthropic.ts, openai.ts), the *)
(* names of tools on the wire (tool-name.ts), and the loop of the ReAct    *)
(* executor that collects the calls of a step and tells the model of their *)
(* results in the next one (reasoning/react-executor.ts).                  *)
(*                                                                         *)
(* An event of the provider is one step: a generator hands what it yields  *)
(* to its reader before it goes on.  The arguments of a call come in       *)
(* fragments, <<call, n>> being the n-th; what a text says is left out.    *)
(***************************************************************************)
EXTENDS Naturals, Sequences

CONSTANTS
  Wire,           \* names a provider takes for a tool, "fs_read"
  MaxRounds,      \* bound: completions of one turn
  MaxChunks       \* bound: chunks of one turn with a text or a part of a call

\* Assumed of the constants; the modules that instantiate this one check it.
StreamAssumption ==
  /\ MaxRounds \in Nat \ {0} /\ MaxChunks \in Nat \ {0}

\* A canonical name, by what sanitizeToolName makes of it and whether that is another
\* name ("fs.read") or itself ("fs_read").
Tool == [wire : Wire, dotted : BOOLEAN]

VARIABLES
  provider, tools, json,  \* the adapter, the request's tools, responseFormat = json_object
  phase,                  \* where stream() is
  round,                  \* the completion under way
  calls,                  \* what the model asked for: wire name and fragments sent
  chunks,                 \* chunks of the turn so far
  indexToId,              \* toolCallIndexToId of the OpenAI adapter
  pending,                \* pendingCalls of the executor, in the order of insertion
  text, prefillEmitted,   \* the text deltas yielded
  messages,               \* the executor's conversation
  sent                    \* the messages of the last request, as the provider reads them

request == <<provider, tools, json, round, messages, sent>>
answer == <<calls, chunks, indexToId, pending, text, prefillEmitted>>
vars == <<request, phase, answer>>

\* The id '' under which nothing was started.
NoId == <<>>
Id(i) == <<round, i>>
CallId == (1..MaxRounds) \X (1..MaxChunks)
Fragment == CallId \X (1..MaxChunks)

Phase == {"idle", "creating", "streaming", "usage", "done", "left", "threw"}

PendingCall == [id : CallId, name : Tool, args : Seq(Fragment)]

TypeOK ==
  /\ provider \in {"anthropic", "openai"} /\ tools \subseteq Tool /\ json \in BOOLEAN
  /\ phase \in Phase /\ round \in 1..MaxRounds
  /\ calls \in Seq([wire : Wire, fragments : 0..MaxChunks])
  /\ chunks \in 0..MaxChunks
  /\ DOMAIN indexToId \subseteq 1..MaxChunks
  /\ \A i \in DOMAIN indexToId : indexToId[i] \in CallId
  /\ pending \in Seq(PendingCall)
  /\ text \in Seq({"plain", "opened"}) /\ prefillEmitted \in BOOLEAN

User == [role |-> "user", calls |-> <<>>, answers |-> NoId]

\* ReAct asks with tools and for text, the planner without tools and for JSON.
Init ==
  /\ provider \in {"anthropic", "openai"} /\ tools \in SUBSET Tool /\ json \in BOOLEAN
  /\ json => tools = {}
  /\ phase = "idle" /\ round = 1 /\ calls = <<>> /\ chunks = 0 /\ indexToId = [i \in {} |-> NoId]
  /\ pending = <<>> /\ text = <<>> /\ prefillEmitted = TRUE
  /\ messages = <<User>> /\ sent = <<>>

-----------------------------------------------------------------------------
(* The request *)

\* Two tools of a request would have one name on the wire.
Collision == \E a, b \in tools : a # b /\ a.wire = b.wire

\* nameMap.wireToCanonical.get(name) ?? name
Canonical(wire) ==
  IF \E t \in tools : t.wire = wire THEN CHOOSE t \in tools : t.wire = wire
  ELSE [wire |-> wire, dotted |-> FALSE]

\* A message of the conversation as the provider reads it.  Names go as they
\* are on the wire, and Anthropic takes results for words of the user.
ToWire(m) ==
  [role |-> IF m.role = "tool" /\ provider = "anthropic" THEN "user" ELSE m.role,
   calls |-> [k \in DOMAIN m.calls |->
                [id |-> m.calls[k].id, name |-> m.calls[k].name.wire,
                 args |-> m.calls[k].args]],
   answers |-> m.answers]

Prefill == [role |-> "assistant", calls |-> <<>>, answers |-> NoId]
Prefilled == provider = "anthropic" /\ json

\* stream(): the map of names, which throws on a collision, and the messages.
Request ==
  /\ phase = "idle"
  /\ phase' = IF Collision THEN "threw" ELSE "creating"
  /\ sent' = IF Collision THEN sent
             ELSE [k \in DOMAIN messages |-> ToWire(messages[k])]
                    \o IF Prefilled THEN <<Prefill>> ELSE <<>>
  /\ prefillEmitted' = ~Prefilled
  /\ UNCHANGED <<provider, tools, json, round, messages, calls, chunks, indexToId, pending,
                  text>>

\* The provider accepts the request.
Create ==
  /\ phase = "creating" /\ phase' = "streaming"
  /\ UNCHANGED <<request, answer>>

\* It rejects it, breaks off the stream, or ends it without a final message.
Throw ==
  /\ phase \in {"creating", "streaming"} /\ phase' = "threw"
  /\ UNCHANGED <<request, answer>>

-----------------------------------------------------------------------------
(* The stream and its reader *)

\* tool_call_start: pending.set(id, ...)
Started(p, id, wire) ==
  LET entry == [id |-> id, name |-> Canonical(wire), args |-> <<>>]
  IN IF \E k \in DOMAIN p : p[k].id = id
       THEN [k \in DOMAIN p |-> IF p[k].id = id THEN entry ELSE p[k]]
       ELSE Append(p, entry)

\* tool_call_delta: the entry of that id, if there is one, takes the fragment.
Attached(p, id, fragment) ==
  [k \in DOMAIN p |-> IF p[k].id = id THEN [p[k] EXCEPT !.args = Append(@, fragment)]
                                      ELSE p[k]]

\* The executor looks at the abort signal before it takes a chunk.
Abandon ==
  /\ phase \in {"streaming", "usage"} /\ phase' = "left"
  /\ UNCHANGED <<request, answer>>

\* A chunk of the stream that the reader is handed.
Chunk == phase = "streaming" /\ chunks < MaxChunks /\ chunks' = chunks + 1

TextDelta ==
  /\ Chunk
  /\ text' = Append(text, IF prefillEmitted THEN "plain" ELSE "opened")
  /\ prefillEmitted' = TRUE
  /\ UNCHANGED <<request, phase, calls, indexToId, pending>>

Begun(wire) == Append(calls, [wire |-> wire, fragments |-> 0])

\* Anthropic's blocks follow each other: the start of a tool_use, then its arguments.
ToolUseStart(t) ==
  /\ provider = "anthropic" /\ Chunk
  /\ calls' = Begun(t.wire)
  /\ pending' = Started(pending, Id(Len(calls')), t.wire)
  /\ UNCHANGED <<request, phase, indexToId, text, prefillEmitted>>

InputJsonDelta ==
  LET i == Len(calls)
  IN /\ provider = "anthropic" /\ i > 0 /\ Chunk
     /\ calls' = [calls EXCEPT ![i].fragments = @ + 1]
     /\ pending' = Attached(pending, NoId, <<Id(i), calls'[i].fragments>>)
     /\ UNCHANGED <<request, phase, indexToId, text, prefillEmitted>>

\* toolCallIndexToId.set(index, id)
WithIndex(i, id) ==
  [j \in DOMAIN indexToId \cup {i} |-> IF j = i THEN id ELSE indexToId[j]]

\* Variant: a repeated id starts the call again.
EntryStartingAgain(i, id, wire, n) ==
  /\ indexToId' = IF id # NoId THEN WithIndex(i, id) ELSE indexToId
  /\ LET begun == IF id # NoId THEN Started(pending, id, wire) ELSE pending
     IN pending' = IF n > 0 THEN Attached(begun, indexToId'[i], <<Id(i), n>>) ELSE begun

\* One element of a chunk's delta.tool_calls: the call at an index, with the id when it
\* is the first of that index, and with the n-th fragment of arguments, or none (0).
Entry(i, id, wire, n) ==
  LET first == id # NoId /\ i \notin DOMAIN indexToId
      begun == IF first THEN Started(pending, id, wire) ELSE pending
  IN /\ indexToId' = IF first THEN WithIndex(i, id) ELSE indexToId
     /\ pending' = IF n > 0
          THEN Attached(begun, IF i \in DOMAIN indexToId' THEN indexToId'[i] ELSE NoId,
                        <<Id(i), n>>)
          ELSE begun

\* OpenAI numbers the calls of a completion; entries of several may alternate, and
\* a server that speaks its protocol may repeat the id.
ToolCallBegins(t, n) ==
  /\ provider = "openai" /\ Chunk
  /\ calls' = [Begun(t.wire) EXCEPT ![Len(calls) + 1].fragments = n]
  /\ Entry(Len(calls'), Id(Len(calls')), t.wire, n)
  /\ UNCHANGED <<request, phase, text, prefillEmitted>>

ToolCallGoesOn(i, id) ==
  /\ provider = "openai" /\ Chunk
  /\ calls' = [calls EXCEPT ![i].fragments = @ + 1]
  /\ Entry(i, id, calls[i].wire, calls'[i].fragments)
  /\ UNCHANGED <<request, phase, text, prefillEmitted>>

\* The stream is at its end: usage, then done, are what is left to yield.
StreamEnds ==
  /\ phase = "streaming" /\ phase' = "usage"
  /\ UNCHANGED <<request, answer>>

Done ==
  /\ phase = "usage" /\ phase' = "done"
  /\ UNCHANGED <<request, answer>>

-----------------------------------------------------------------------------
(* The next step of the executor *)

Result(call) == [role |-> "tool", calls |-> <<>>, answers |-> call.id]

\* Every call was executed: one message with all of them, one with the result of each,
\* and the next completion starts with a new map of pending calls.  The tools are looked
\* up anew (snapshotTools): a call may have registered or removed one.
NextRound ==
  /\ phase = "done" /\ pending # <<>> /\ round < MaxRounds
  /\ messages' = messages
       \o <<[role |-> "assistant", calls |-> pending, answers |-> NoId]>>
       \o [k \in DOMAIN pending |-> Result(pending[k])]
  /\ \/ UNCHANGED tools
     \/ \E t \in Tool : tools' = (tools \ {t}) \cup ({t} \ tools)
  /\ round' = round + 1 /\ phase' = "idle"
  /\ calls' = <<>> /\ indexToId' = [i \in {} |-> NoId]
  /\ pending' = <<>> /\ text' = <<>>
  /\ UNCHANGED <<provider, json, chunks, prefillEmitted, sent>>

Next ==
  \/ Request \/ Create \/ Throw \/ Abandon \/ TextDelta
  \/ \E t \in tools : ToolUseStart(t)
  \/ InputJsonDelta
  \/ \E t \in tools, n \in {0, 1} : ToolCallBegins(t, n)
  \/ \E i \in DOMAIN calls : \E id \in {NoId, Id(i)} : ToolCallGoesOn(i, id)
  \/ StreamEnds \/ Done \/ NextRound

Spec == Init /\ [][Next]_vars

-----------------------------------------------------------------------------
(* Properties *)

Fragments(i) == [n \in 1..calls[i].fragments |-> <<Id(i), n>>]

\* The executor holds the calls the model asked for, in their order, each under the
\* name of the one offered tool that has this name on the wire; and of the arguments
\* it holds, in their order, none of another call and, of OpenAI, all (Started,
\* Attached and Entry; two tools with one name on the wire are refused).
CallsAsAsked ==
  /\ Len(pending) = Len(calls)
  /\ \A i \in DOMAIN calls :
       /\ pending[i].id = Id(i)
       /\ \A t \in tools : t.wire = calls[i].wire <=> t = pending[i].name
       /\ IF provider = "openai" THEN pending[i].args = Fragments(i)
                                 ELSE pending[i].args \in {Fragments(i), <<>>}

\* Text in JSON mode begins with the brace Anthropic's answer was made to follow, once,
\* and no other text has one.
PrefillOnce ==
  \A k \in DOMAIN text : text[k] = "opened" <=> Prefilled /\ k = 1

\* In a request every message with calls is followed by the result of each of them, in
\* their order, and every result is one of those (NextRound, ToWire): a provider refuses
\* the conversation otherwise.
ResultsFollowCalls ==
  LET answered(k) == {<<k + n, sent[k].calls[n].id>> : n \in DOMAIN sent[k].calls}
  IN UNION {answered(k) : k \in DOMAIN sent}
       = {<<k, sent[k].answers>> : k \in {k \in DOMAIN sent : sent[k].answers # NoId}}

\* The comment of the adapter on the id of an Anthropic fragment: "will be associated
\* by caller" (anthropic.ts:161).  When the stream is done, a call has the arguments the
\* model gave it.
ArgumentsAssociated ==
  phase = "done" => \A i \in DOMAIN calls : pending[i].args = Fragments(i)
=============================================================================

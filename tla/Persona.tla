------------------------------- MODULE Persona -------------------------------
(***************************************************************************)
(* The persona (ego/src/persona-manager.ts) and how feedback moves it      *)
(* (persona-evolution.ts).  One object is cached and shared by all calls,  *)
(* one file holds it: loads race, a call keeps the object it loaded while  *)
(* import replaces it, writes of the file are not put in line, and the     *)
(* process may die in one.                                                 *)
(*                                                                         *)
(* Numbers in [0,1] are counted in steps of 1/400, which every product of  *)
(* the default rules is a multiple of.  A sum of floats that should equal  *)
(* a threshold may come out on either side of it.                          *)
(***************************************************************************)
EXTENDS Integers, Sequences, FiniteSets, SequencesExt

CONSTANTS
  Evolve, Decay, Snapshot, Import,   \* the calls, by what they do
  Missing, Torn,                     \* the file when there is none, or half of one
  Stored,                            \* personas that the file may hold at first
  Given,                             \* feedback that is given, some of Feedback
  MaxCalls                           \* bound: calls made in a behaviour

Calls == Evolve \cup Decay \cup Snapshot \cup Import

VARIABLES
  objects,     \* the personas loaded, created or imported in this process
  cached,      \* index of the cached one, 0 for null
  file,
  call,        \* call[c]: [state, object, payload, feedback]
  truncated,   \* snapshotTruncatedLastCall
  overlapped,  \* calls whose write has overlapped another one
  kept,        \* history: calls that were told their change is saved
  raced        \* history: a cached persona was replaced, or writes overlapped

vars == <<objects, cached, file, call, truncated, overlapped, kept, raced>>

-----------------------------------------------------------------------------
(* The rules of evolution *)

One == 400
MaxDelta == 40
ConfirmThreshold == 120
ConfirmWindow == 3
ReinforcementThreshold == 3
DecayRate == 20

Field == {"verbosity", "proactivity"}

DefaultValue == [f \in Field |-> 160]

\* Of a persona, `of` is history: the calls whose change it holds.
DefaultPersona == [value |-> DefaultValue, log |-> <<>>, total |-> 0, maturity |-> 0,
                   count |-> 0, behaviors |-> <<>>, of |-> {}]

Feedback ==
  [type : {"instruction"}, field : Field, direction : {-1, 1}]
    \cup [type : {"unclear", "praise", "criticism", "strong criticism", "lesson", "observation",
                 "exposure"}]

\* What the log makes of a field's first value, entry by entry.
Balance(log, f) ==
  LET sum[n \in 0..Len(log)] ==
        IF n = 0 THEN DefaultValue[f]
        ELSE sum[n - 1] + (IF log[n].field = f THEN log[n].delta ELSE 0)
  IN sum[Len(log)]

PersonaRecord ==
  [value : [Field -> Int], log : Seq([field : Field, delta : Int]), total : Nat, maturity : 0..2,
   count : Nat, behaviors : Seq([confidence : Int, old : BOOLEAN]), of : SUBSET Calls]

\* The log is the ledger of the numbers, which never leave their bounds.
Sound(p) ==
  /\ p \in PersonaRecord
  /\ \A f \in Field : p.value[f] \in 0..One /\ p.value[f] = Balance(p.log, f)
  /\ Len(p.log) + Len(p.behaviors) <= p.count

\* What the file holds at first was written by this program.
PersonaAssumption ==
  /\ Missing # Torn /\ Missing \notin PersonaRecord /\ Torn \notin PersonaRecord
  /\ MaxCalls \in Nat /\ Given \subseteq Feedback
  /\ \A p \in Stored : Sound(p)

Clamp(v) == IF v < 0 THEN 0 ELSE IF v > One THEN One ELSE v
Abs(n) == IF n < 0 THEN -n ELSE n
Sign(n) == IF n < 0 THEN -1 ELSE IF n > 0 THEN 1 ELSE 0
Least(m, n) == IF m < n THEN m ELSE n

\* new, developing, established
ComputeMaturity(total) == IF total < 30 THEN 0 ELSE IF total < 100 THEN 1 ELSE 2
Scaled(delta, maturity) ==
  CASE maturity = 0 -> delta \div 2
    [] maturity = 1 -> (delta * 4) \div 5
    [] OTHER -> delta

\* The last deltas of the field, the newest last.
Recent(p, f) ==
  LET all == SelectSeq(p.log, LAMBDA e : e.field = f) IN
  SubSeq(all, Len(all) - Least(Len(all), ConfirmWindow) + 1, Len(all))

Total(entries) == FoldSeq(LAMBDA e, n : n + e.delta, 0, entries)

\* The answers to "would it flip?".
WouldFlip(recent, raw) ==
  LET moved == Abs(Total(recent)) + Abs(raw) IN
  IF Len(recent) < 2 \/ \A i \in DOMAIN recent : Sign(recent[i].delta) = Sign(raw)
     \/ moved < ConfirmThreshold
  THEN {FALSE}
  ELSE IF moved = ConfirmThreshold THEN {TRUE, FALSE} ELSE {TRUE}

Cap(recent, raw) ==
  IF /\ Len(recent) >= ReinforcementThreshold
     /\ \A i \in DOMAIN recent : Sign(recent[i].delta) = Sign(raw)
  THEN (MaxDelta * 3) \div 2
  ELSE MaxDelta

\* Every feedback counts for the maturity, which only grows.
Interacted(p) ==
  LET derived == ComputeMaturity(p.total + 1) IN
  [p EXCEPT !.total = @ + 1, !.maturity = IF derived > @ THEN derived ELSE @]

\* Variant: the log is told what was asked for and not what the bound left of it.
MovedAsAsked(p, c, f, scaled) ==
  [p EXCEPT !.value[f] = Clamp(@ + scaled), !.count = @ + 1, !.of = @ \cup {c},
            !.log = Append(@, [field |-> f, delta |-> scaled])]

Moved(p, c, f, scaled) ==
  [p EXCEPT !.value[f] = Clamp(@ + scaled), !.count = @ + 1, !.of = @ \cup {c},
            !.log = Append(@, [field |-> f, delta |-> Clamp(p.value[f] + scaled) - p.value[f]])]

\* What applyDelta may leave of the persona; p itself when nothing has changed.
ApplyDelta(p, c, f, raw) ==
  LET recent == Recent(p, f)
      scaled == Scaled(Sign(raw) * Least(Abs(raw), Cap(recent, raw)), p.maturity)
      saturated == Clamp(p.value[f] + scaled) = p.value[f]
  IN {IF flips \/ saturated THEN p ELSE Moved(p, c, f, scaled) : flips \in WouldFlip(recent, raw)}

Learned(p, c, confidence) ==
  [p EXCEPT !.count = @ + 1, !.of = @ \cup {c},
            !.behaviors = Append(@, [confidence |-> confidence, old |-> FALSE])]

\* What an exposure says of a domain is left out.
Evolved(p0, c, feedback) ==
  LET p == Interacted(p0) IN
  CASE feedback.type = "instruction" ->
         ApplyDelta(p, c, feedback.field, feedback.direction * MaxDelta)
    [] feedback.type = "praise" -> ApplyDelta(p, c, "proactivity", MaxDelta \div 2)
    [] feedback.type = "criticism" -> ApplyDelta(p, c, "proactivity", -(MaxDelta \div 4))
    [] feedback.type = "strong criticism" -> ApplyDelta(p, c, "proactivity", -(MaxDelta \div 2))
    [] feedback.type = "lesson" -> {Learned(p, c, 240)}
    [] feedback.type = "observation" -> {Learned(p, c, 120)}
    [] feedback.type = "exposure" -> {[p EXCEPT !.count = @ + 1, !.of = @ \cup {c}]}
    [] OTHER -> {p}

Decayable(b) == b.old /\ b.confidence > 0

Faded(b) == IF b.old THEN [b EXCEPT !.confidence = Clamp(@ - DecayRate)] ELSE b
Decayed(p, c) ==
  [p EXCEPT !.of = @ \cup {c}, !.behaviors = [i \in DOMAIN @ |-> Faded(@[i])]]

-----------------------------------------------------------------------------
(* FilePersonaManager *)

Init ==
  /\ objects = <<>> /\ cached = 0
  /\ file \in {Missing} \cup Stored
  /\ call = [c \in Calls |-> [state |-> "new", object |-> 0, payload |-> Missing]]
  /\ truncated = FALSE /\ overlapped = {} /\ kept = {} /\ raced = FALSE

To(c, state) == call' = [call EXCEPT ![c].state = state]
End(c, state) == call' = [call EXCEPT ![c] = [state |-> state, object |-> 0, payload |-> Missing]]

New(c) == call[c].state = "new" /\ Cardinality({d \in Calls : call[d].state # "new"}) < MaxCalls

\* load() is answered at once, or has to read the file.
Begin(c) ==
  /\ c \notin Import /\ New(c)
  /\ call' = [call EXCEPT ![c].state = IF cached = 0 THEN "reading" ELSE "loaded",
                          ![c].object = cached]
  /\ UNCHANGED <<objects, cached, file, truncated, overlapped, kept, raced>>

Read(c) ==
  /\ call[c].state = "reading"
  /\ call' = [call EXCEPT ![c].state = "parsing", ![c].payload = file]
  /\ UNCHANGED <<objects, cached, file, truncated, overlapped, kept, raced>>

\* The cache is set whatever another load has put there, and what was done to it.
Cache(p) ==
  /\ objects' = Append(objects, p)
  /\ cached' = Len(objects) + 1
  /\ raced' = (raced \/ cached # 0)

Load(c) ==
  /\ call[c].state = "parsing"
  /\ CASE call[c].payload = Torn -> End(c, "failed") /\ UNCHANGED <<objects, cached, raced>>
       [] call[c].payload = Missing -> Cache(DefaultPersona) /\ To(c, "creating")
       [] OTHER ->
            /\ Cache(call[c].payload)
            /\ call' = [call EXCEPT ![c].state = "loaded", ![c].object = Len(objects) + 1]
  /\ UNCHANGED <<file, truncated, overlapped, kept>>

\* The rest of evolve, runDecay, snapshot and export, on the object that was loaded.
Change(c, p) == objects' = [objects EXCEPT ![call[c].object] = p]

\* Variant: the caller is answered without waiting for the file.
EvolveStepUnsaved(c, feedback) ==
  /\ c \in Evolve /\ call[c].state = "loaded"
  /\ \E p \in Evolved(objects[call[c].object], c, feedback) : Change(c, p)
  /\ End(c, "done")
  /\ kept' = kept \cup {c}
  /\ UNCHANGED <<cached, file, truncated, overlapped, raced>>

EvolveStep(c, feedback) ==
  /\ c \in Evolve /\ call[c].state = "loaded"
  /\ \E p \in Evolved(objects[call[c].object], c, feedback) :
       Change(c, p) /\ IF c \in p.of THEN To(c, "saving") ELSE End(c, "done")
  /\ UNCHANGED <<cached, file, truncated, overlapped, kept, raced>>

DecayStep(c) ==
  LET p == objects[call[c].object] IN
  /\ c \in Decay /\ call[c].state = "loaded"
  /\ IF \E i \in DOMAIN p.behaviors : Decayable(p.behaviors[i])
     THEN Change(c, Decayed(p, c)) /\ To(c, "saving")
     ELSE End(c, "done") /\ UNCHANGED objects
  /\ UNCHANGED <<cached, file, truncated, overlapped, kept, raced>>

SnapshotStep(c) ==
  /\ c \in Snapshot /\ call[c].state = "loaded"
  /\ truncated' \in BOOLEAN /\ End(c, "done")
  /\ UNCHANGED <<objects, cached, file, overlapped, kept, raced>>

Loaded(c) == call[c].state \in {"loaded", "creating", "saving", "writing"}

\* An imported persona starts its relationship anew; it need not have been loaded
\* what it replaces.  Changes that are not saved yet are lost with it.
ImportStep(c, p) ==
  /\ c \in Import /\ New(c)
  /\ objects' = Append(objects, [p EXCEPT !.maturity = 0, !.of = {c}])
  /\ cached' = Len(objects) + 1
  /\ raced' = (raced \/ \E d \in Calls : Loaded(d))
  /\ kept' = {}
  /\ To(c, "saving")
  /\ UNCHANGED <<file, truncated, overlapped>>

-----------------------------------------------------------------------------
(* persist() *)

Saving(c) == call[c].state \in {"saving", "creating"}
Writing(c) == call[c].state \in {"writing", "writing first"}

\* The directory is there: what is cached now is serialised, and the file truncated.
OpenFile(c) ==
  /\ Saving(c)
  /\ call' = [call EXCEPT ![c].payload = objects[cached],
                          ![c].state = IF @ = "saving" THEN "writing" ELSE "writing first"]
  /\ file' = Torn
  /\ LET others == {d \in Calls : Writing(d)} IN
     /\ overlapped' = IF others = {} THEN {} ELSE overlapped \cup others \cup {c}
     /\ raced' = (raced \/ others # {})
  /\ UNCHANGED <<objects, cached, truncated, kept>>

\* Of two writes that overlapped either may be in the file, or a mixture.
WriteFile(c) ==
  /\ Writing(c)
  /\ IF c \in overlapped THEN file' \in {call[c].payload, file, Torn} ELSE file' = call[c].payload
  /\ IF call[c].state = "writing"
     THEN End(c, "done") /\ kept' = kept \cup {c}
     ELSE /\ call' = [call EXCEPT ![c].state = "loaded", ![c].object = cached]
          /\ UNCHANGED kept
  /\ UNCHANGED <<objects, cached, truncated, overlapped, raced>>

\* The file system refuses: the caller gets the error, the cache keeps the change.
PersistFails(c) ==
  /\ Saving(c) \/ Writing(c)
  /\ End(c, "failed")
  /\ UNCHANGED <<objects, cached, file, truncated, overlapped, kept, raced>>

Under(state) == state \notin {"new", "done", "failed"}

\* The process dies and another one starts.
Restart ==
  /\ cached # 0
  /\ objects' = <<>> /\ cached' = 0
  /\ call' = [c \in Calls |-> IF Under(call[c].state)
                             THEN [state |-> "failed", object |-> 0, payload |-> Missing]
                             ELSE call[c]]
  /\ UNCHANGED <<file, truncated, overlapped, kept, raced>>

\* What was learned grows old.
Age ==
  /\ cached # 0
  /\ \E i \in DOMAIN objects[cached].behaviors :
       /\ ~objects[cached].behaviors[i].old
       /\ objects' = [objects EXCEPT ![cached].behaviors[i].old = TRUE]
  /\ UNCHANGED <<cached, file, call, truncated, overlapped, kept, raced>>

Next ==
  \/ \E c \in Calls :
       \/ Begin(c) \/ Read(c) \/ Load(c)
       \/ \E feedback \in Given : EvolveStep(c, feedback)
       \/ DecayStep(c) \/ SnapshotStep(c)
       \/ \E p \in Stored : ImportStep(c, p)
       \/ OpenFile(c) \/ WriteFile(c) \/ PersistFails(c)
  \/ Restart \/ Age

Spec == Init /\ [][Next]_vars

-----------------------------------------------------------------------------
(* Properties *)

TypeOK ==
  /\ cached \in 0..Len(objects)
  /\ \A c \in Calls : call[c].object \in 0..Len(objects)
  /\ truncated \in BOOLEAN /\ raced \in BOOLEAN
  /\ kept \subseteq Calls /\ overlapped \subseteq Calls

Personas == Range(objects) \cup ({file} \ {Missing, Torn})

\* In memory and on disk the log is the ledger of the numbers: each is its first value
\* and what the log says of it, over clamping, scaling and confirmation, and never
\* leaves its bounds.
Ledger == \A p \in Personas : Sound(p)

\* A change that a caller was told of is in the cached persona and in the file, as
\* long as no loads raced, no writes overlapped and no import came in between.
ChangesKept ==
  raced \/ /\ cached # 0 => kept \subseteq objects[cached].of
           /\ file \notin {Missing, Torn} => kept \subseteq file.of
=============================================================================

---------------------------- MODULE Edges_proofs ----------------------------
(***************************************************************************)
(* What stands at the edges of the system, for any number of sockets,      *)
(* calls, devices, keys, sessions, entries, files and chunks: one          *)
(* inductive invariant for each of the seventeen components of MCEdges,    *)
(* and from them what MCEdges promises of every behaviour. The invariants  *)
(* of fourteen are in EdgeTransports_proofs; here are persona and goals    *)
(* (what the calls that are under way hold of them) and the streams of     *)
(* models (which calls a stream's fragments belong to).                    *)
(*                                                                         *)
(* The balance of a persona's log is a recursive function of its length.   *)
(* What is needed of it is proved by the least length at which it fails,   *)
(* since < is well founded on the naturals.                                *)
(***************************************************************************)
EXTENDS EdgeTransports_proofs, WellFoundedInduction

-----------------------------------------------------------------------------
(* The persona                                                            *)

PersonaState == {"new", "reading", "parsing", "loaded", "creating", "saving", "writing",
                 "writing first", "done", "failed"}
SoundPersona == {p \in Persona!PersonaRecord : Persona!Sound(p)}
PersonaPayload == {None, Torn} \cup SoundPersona
PersonaCallRecord == [state : PersonaState, object : Nat, payload : PersonaPayload]

PersonaFlags == truncated \in BOOLEAN /\ raced \in BOOLEAN
PersonaTypes ==
  /\ objects \in Seq(SoundPersona) /\ cached \in 0..Len(objects)
  /\ personaFile \in PersonaPayload /\ personaCall \in [Persona!Calls -> PersonaCallRecord]
  /\ kept \subseteq Persona!Calls /\ writesOverlapped \subseteq Persona!Calls

\* Of n objects the one at, or none, is cached, and f is in the file; x has nothing of a
\* call before it began and after it is over.
PersonaCallOK(x, n, at, f) ==
  /\ x.object \in 0..n
  /\ x.state = "loaded" => x.object # 0
  /\ x.state \in {"new", "done", "failed"} => x.object = 0
  /\ x.state \in {"loaded", "creating", "saving", "writing", "writing first"} => at # 0
  /\ x.state \in {"writing", "writing first"} => x.payload \in SoundPersona
  /\ x.state = "parsing" /\ at = 0 => x.payload = f

PersonaCallsOK ==
  \A c \in Persona!Calls : PersonaCallOK(personaCall[c], Len(objects), cached, personaFile)

\* What of the calls k, whose change was saved, and of c itself is in what it is to write.
PersonaCallKept(x, c, at, cachedOf, k) ==
  /\ x.state = "loaded" => x.object = at
  /\ x.state \in {"saving", "writing"} => c \in cachedOf
  /\ x.state = "writing" => c \in x.payload.of
  /\ x.state \in {"writing", "writing first"} => k \subseteq x.payload.of

\* Without a race there is one object and one writer, and what was saved is in all of them.
PersonaKept ==
  ~raced =>
    /\ writesOverlapped = {}
    /\ cached # 0 => kept \subseteq objects[cached].of
    /\ personaFile = None => kept = {}
    /\ personaFile \in SoundPersona => kept \subseteq personaFile.of
    /\ \A c \in Persona!Calls : cached # 0 =>
         PersonaCallKept(personaCall[c], c, cached, objects[cached].of, kept)
    /\ \A c, d \in Persona!Calls :
         /\ personaCall[c].state \in {"writing", "writing first"}
         /\ personaCall[d].state \in {"writing", "writing first"}
         => c = d

PersonaInv == PersonaFlags /\ PersonaTypes /\ PersonaCallsOK /\ PersonaKept

-----------------------------------------------------------------------------
(* The balance of a log *)

LEMMA NatInduction1 ==
  ASSUME NEW T \in SUBSET Nat, 0 \in T, \A n \in T : n + 1 \in T PROVE T = Nat
<1> DEFINE others == Nat \ T
<1> SUFFICES ASSUME others # {} PROVE FALSE
  OBVIOUS
<1>0. others \subseteq Nat
  OBVIOUS
<1> HIDE DEF others
<1>1. PICK n \in others : \A m \in others : ~(<<m, n>> \in OpToRel(<, Nat))
  BY <1>0, NatLessThanWellFounded, WFMin
<1>2. \A m \in others : ~(m < n)
  BY <1>0, <1>1 DEF OpToRel
<1> QED
  BY <1>0, <1>2 DEF others

LogEntry == [field : Persona!Field, delta : Int]
Contribution(e, f) == IF e.field = f THEN e.delta ELSE 0

\* g is the balance of the field after each of the first n entries.
Runs(g, log, f, n) ==
  /\ g \in [0..n -> Int] /\ g[0] = Persona!DefaultValue[f]
  /\ \A m \in 1..n : g[m] = g[m - 1] + Contribution(log[m], f)

\* h adds up another log, over its first n entries.
AddsUp(h, other, f, n) ==
  /\ h[0] = Persona!DefaultValue[f]
  /\ \A m \in 1..n : h[m] = h[m - 1] + Contribution(other[m], f)

SameEntries(other, log, n) == \A m \in 1..n : other[m] = log[m]
SameSums(h, g, n) == \A m \in 0..n : h[m] = g[m]

LEMMA ContributionIs == ASSUME NEW e \in LogEntry, NEW f PROVE Contribution(e, f) \in Int
<1>1. e.delta \in Int
  BY DEF LogEntry
<1> QED BY <1>1 DEF Contribution

LEMMA FirstValue == ASSUME NEW f \in Persona!Field PROVE Persona!DefaultValue[f] = 160
  BY DEF Persona!DefaultValue

LEMMA RunExists ==
  ASSUME NEW log \in Seq(LogEntry), NEW f \in Persona!Field
  PROVE  \E g : Runs(g, log, f, Len(log))
<1> DEFINE T == {n \in Nat : n <= Len(log) => \E g : Runs(g, log, f, n)}
<1>0. Len(log) \in Nat
  OBVIOUS
<1>1. 0 \in T
  <2> DEFINE g == [m \in 0..0 |-> 160]
  <2>1. g \in [0..0 -> Int] /\ g[0] = 160
    OBVIOUS
  <2> HIDE DEF g
  <2>2. Runs(g, log, f, 0)
    BY <2>1, FirstValue DEF Runs
  <2> QED BY <2>2
<1>2. ASSUME NEW n \in T PROVE n + 1 \in T
  <2>0. n \in Nat
    OBVIOUS
  <2> SUFFICES ASSUME n + 1 <= Len(log) PROVE \E h : Runs(h, log, f, n + 1)
    BY <2>0
  <2>1. PICK g : Runs(g, log, f, n)
    BY <1>0, <2>0
  <2> DEFINE x == Contribution(log[n + 1], f)
             h == [m \in 0..(n + 1) |-> IF m = n + 1 THEN g[n] + x ELSE g[m]]
  <2>2. log[n + 1] \in LogEntry
    BY <1>0, <2>0
  <2>3. x \in Int
    BY <2>2, ContributionIs
  <2>4. g \in [0..n -> Int] /\ g[0] = Persona!DefaultValue[f]
        /\ \A m \in 1..n : g[m] = g[m - 1] + Contribution(log[m], f)
    BY <2>1 DEF Runs
  <2>5. \A m \in 0..n : m # n + 1 /\ m \in 0..(n + 1) /\ h[m] = g[m]
    BY <2>0
  <2>6. h[n + 1] = g[n] + x
    BY <2>0
  <2> HIDE DEF x
  <2>7. h \in [0..(n + 1) -> Int]
    BY <2>0, <2>3, <2>4
  <2> HIDE DEF h
  <2>8. ASSUME NEW m \in 1..(n + 1) PROVE h[m] = h[m - 1] + Contribution(log[m], f)
    <3>1. CASE m = n + 1
      <4>1. m - 1 = n /\ n \in 0..n
        BY <2>0, <3>1
      <4> QED BY <2>5, <2>6, <3>1, <4>1 DEF x
    <3>2. CASE m # n + 1
      <4>1. m \in 1..n /\ m \in 0..n /\ m - 1 \in 0..n
        BY <2>0, <3>2
      <4> QED BY <2>4, <2>5, <4>1
    <3> QED BY <3>1, <3>2
  <2>9. h[0] = g[0]
    BY <2>0, <2>5
  <2> QED BY <2>4, <2>7, <2>8, <2>9 DEF Runs
<1> HIDE DEF T
<1>3. T = Nat
  <2>1. T \in SUBSET Nat
    BY DEF T
  <2> QED BY <1>1, <1>2, <2>1, NatInduction1
<1> QED BY <1>0, <1>3 DEF T

\* Two that run over the same entries are the same.
LEMMA RunsAgree ==
  ASSUME NEW n \in Nat, NEW g, NEW h, NEW log, NEW other, NEW f, Runs(g, log, f, n),
         AddsUp(h, other, f, n), SameEntries(other, log, n)
  PROVE  SameSums(h, g, n)
<1> USE DEF AddsUp, SameEntries, SameSums
<1> DEFINE T == {m \in Nat : m <= n => h[m] = g[m]}
<1>1. 0 \in T
  BY DEF Runs
<1>2. ASSUME NEW m \in T PROVE m + 1 \in T
  <2>0. m \in Nat
    OBVIOUS
  <2> SUFFICES ASSUME m + 1 <= n PROVE h[m + 1] = g[m + 1]
    BY <2>0
  <2>1. m + 1 \in 1..n /\ (m + 1) - 1 = m /\ m <= n
    BY <2>0
  <2>2. h[m + 1] = h[m] + Contribution(other[m + 1], f)
    BY <2>1
  <2>3. g[m + 1] = g[m] + Contribution(log[m + 1], f)
    BY <2>1 DEF Runs
  <2>4. h[m] = g[m] /\ other[m + 1] = log[m + 1]
    BY <2>1
  <2> QED BY <2>2, <2>3, <2>4
<1>3. T \in SUBSET Nat
  OBVIOUS
<1> HIDE DEF T
<1>4. T = Nat
  BY <1>1, <1>2, <1>3, NatInduction1
<1> QED BY <1>4 DEF T

LEMMA BalanceRuns ==
  ASSUME NEW log \in Seq(LogEntry), NEW f \in Persona!Field
  PROVE  \E g : Runs(g, log, f, Len(log)) /\ Persona!Balance(log, f) = g[Len(log)]
<1> DEFINE N == Len(log)
           F(s) == [n \in 0..N |-> IF n = 0 THEN Persona!DefaultValue[f]
                                   ELSE s[n - 1] + (IF log[n].field = f THEN log[n].delta ELSE 0)]
           sum == CHOOSE s : s = F(s)
<1>0. N \in Nat
  OBVIOUS
<1>1. Persona!Balance(log, f) = sum[N]
  BY DEF Persona!Balance
<1>2. PICK g : Runs(g, log, f, N)
  BY RunExists
<1>3. g = F(g)
  <2>1. g \in [0..N -> Int] /\ g[0] = Persona!DefaultValue[f]
        /\ \A m \in 1..N : g[m] = g[m - 1] + (IF log[m].field = f THEN log[m].delta ELSE 0)
    BY <1>2 DEF Runs, Contribution
  <2>2. ASSUME NEW n \in 0..N PROVE g[n] = F(g)[n]
    <3>1. CASE n = 0
      BY <2>1, <3>1
    <3>2. CASE n # 0
      <4>1. n \in 1..N
        BY <1>0, <3>2
      <4> QED BY <2>1, <3>2, <4>1
    <3> QED BY <3>1, <3>2
  <2> QED BY <2>1, <2>2
<1>4. sum = F(sum)
  BY <1>3
<1> HIDE DEF sum
<1>5. sum[0] = Persona!DefaultValue[f]
  <2>1. 0 \in 0..N
    BY <1>0
  <2>2. F(sum)[0] = Persona!DefaultValue[f]
    BY <2>1
  <2> QED BY <1>4, <2>2
<1>6. \A m \in 1..N : sum[m] = sum[m - 1] + Contribution(log[m], f)
  <2> SUFFICES ASSUME NEW m \in 1..N PROVE sum[m] = sum[m - 1] + Contribution(log[m], f)
    OBVIOUS
  <2>1. m \in 0..N /\ m # 0
    BY <1>0
  <2>2. F(sum)[m] = sum[m - 1] + Contribution(log[m], f)
    BY <2>1 DEF Contribution
  <2> QED BY <1>4, <2>2
<1> HIDE DEF F
<1> HIDE DEF N
<1>7. \A m \in 0..N : sum[m] = g[m]
  <2>1. AddsUp(sum, log, f, N)
    BY <1>5, <1>6 DEF AddsUp
  <2>2. SameEntries(log, log, N)
    BY DEF SameEntries
  <2>3. SameSums(sum, g, N)
    BY <1>0, <1>2, <2>1, <2>2, RunsAgree
  <2> QED BY <2>3 DEF SameSums
<1>8. sum[N] = g[N]
  BY <1>0, <1>7
<1> QED BY <1>1, <1>2, <1>8 DEF N

LEMMA BalanceIsInt ==
  ASSUME NEW log \in Seq(LogEntry), NEW f \in Persona!Field PROVE Persona!Balance(log, f) \in Int
<1>1. PICK g : Runs(g, log, f, Len(log)) /\ Persona!Balance(log, f) = g[Len(log)]
  BY BalanceRuns
<1>2. Len(log) \in Nat /\ g \in [0..Len(log) -> Int]
  BY <1>1 DEF Runs
<1> QED BY <1>1, <1>2

LEMMA BalanceAppended ==
  ASSUME NEW log \in Seq(LogEntry), NEW f \in Persona!Field, NEW e \in LogEntry
  PROVE  Persona!Balance(Append(log, e), f) = Persona!Balance(log, f) + Contribution(e, f)
<1> DEFINE longer == Append(log, e)
           n == Len(log)
<1>1. /\ longer \in Seq(LogEntry) /\ Len(longer) = n + 1 /\ longer[n + 1] = e
      /\ n \in Nat /\ \A m \in 1..n : longer[m] = log[m]
  OBVIOUS
<1> HIDE DEF longer
<1>2. PICK g : Runs(g, log, f, n) /\ Persona!Balance(log, f) = g[n]
  BY BalanceRuns
<1>3. PICK h : Runs(h, longer, f, n + 1) /\ Persona!Balance(longer, f) = h[n + 1]
  BY <1>1, BalanceRuns
<1> HIDE DEF n
<1>4. /\ h[0] = Persona!DefaultValue[f]
      /\ \A m \in 1..(n + 1) : h[m] = h[m - 1] + Contribution(longer[m], f)
  BY <1>3 DEF Runs
<1>5. \A m \in 1..n : m \in 1..(n + 1)
  BY <1>1
<1>a. AddsUp(h, longer, f, n)
  BY <1>4, <1>5 DEF AddsUp
<1>b. SameEntries(longer, log, n)
  BY <1>1 DEF SameEntries
<1>c. SameSums(h, g, n)
  BY <1>1, <1>2, <1>a, <1>b, RunsAgree
<1>6. \A m \in 0..n : h[m] = g[m]
  BY <1>c DEF SameSums
<1>7. n + 1 \in 1..(n + 1) /\ (n + 1) - 1 = n /\ n \in 0..n
  BY <1>1
<1>8. h[n + 1] = g[n] + Contribution(e, f)
  BY <1>1, <1>4, <1>6, <1>7
<1> QED BY <1>2, <1>3, <1>8 DEF longer

LEMMA BalanceOfNone == ASSUME NEW f \in Persona!Field PROVE Persona!Balance(<<>>, f) = 160
<1>1. <<>> \in Seq(LogEntry) /\ Len(<<>>) = 0
  OBVIOUS
<1>2. PICK g : Runs(g, <<>>, f, 0) /\ Persona!Balance(<<>>, f) = g[0]
  BY <1>1, BalanceRuns
<1> QED BY <1>2, FirstValue DEF Runs

-----------------------------------------------------------------------------
(* What becomes of a persona *)

Behavior == [confidence : Int, old : BOOLEAN]

LEMMA PersonaFields ==
  ASSUME NEW p \in Persona!PersonaRecord
  PROVE  /\ p.value \in [Persona!Field -> Int] /\ p.log \in Seq(LogEntry) /\ p.total \in Nat
         /\ p.maturity \in 0..2 /\ p.count \in Nat /\ p.behaviors \in Seq(Behavior)
         /\ p.of \subseteq Persona!Calls
  BY DEF Persona!PersonaRecord, LogEntry, Behavior

LEMMA SoundIs ==
  ASSUME NEW p \in SoundPersona
  PROVE  /\ p \in Persona!PersonaRecord
         /\ \A f \in Persona!Field : p.value[f] \in 0..400 /\ p.value[f] = Persona!Balance(p.log, f)
         /\ Len(p.log) + Len(p.behaviors) <= p.count
  BY DEF SoundPersona, Persona!Sound, Persona!One

LEMMA IsSound ==
  ASSUME NEW p \in Persona!PersonaRecord,
         \A f \in Persona!Field : p.value[f] \in 0..400 /\ p.value[f] = Persona!Balance(p.log, f),
         Len(p.log) + Len(p.behaviors) <= p.count
  PROVE  p \in SoundPersona
  BY DEF SoundPersona, Persona!Sound, Persona!One

WithHistory(p, n, o) == [p EXCEPT !.count = n, !.of = o]
WithInteraction(p, t, m) == [p EXCEPT !.total = t, !.maturity = m]
WithValue(p, v, l) == [p EXCEPT !.value = v, !.log = l]
WithBehaviors(p, b) == [p EXCEPT !.behaviors = b]

LEMMA HistoryIs ==
  ASSUME NEW p \in Persona!PersonaRecord, NEW n \in Nat, NEW o \in SUBSET Persona!Calls
  PROVE  /\ WithHistory(p, n, o) \in Persona!PersonaRecord
         /\ WithHistory(p, n, o).value = p.value
         /\ WithHistory(p, n, o).log = p.log
         /\ WithHistory(p, n, o).count = n
         /\ WithHistory(p, n, o).behaviors = p.behaviors
         /\ WithHistory(p, n, o).of = o
  BY DEF Persona!PersonaRecord, WithHistory

LEMMA InteractionIs ==
  ASSUME NEW p \in Persona!PersonaRecord, NEW t \in Nat, NEW m \in 0..2
  PROVE  /\ WithInteraction(p, t, m) \in Persona!PersonaRecord
         /\ WithInteraction(p, t, m).value = p.value
         /\ WithInteraction(p, t, m).log = p.log
         /\ WithInteraction(p, t, m).count = p.count
         /\ WithInteraction(p, t, m).behaviors = p.behaviors
         /\ WithInteraction(p, t, m).of = p.of
  BY DEF Persona!PersonaRecord, WithInteraction

LEMMA ValueIs ==
  ASSUME NEW p \in Persona!PersonaRecord, NEW v \in [Persona!Field -> Int], NEW l \in Seq(LogEntry)
  PROVE  /\ WithValue(p, v, l) \in Persona!PersonaRecord
         /\ WithValue(p, v, l).value = v
         /\ WithValue(p, v, l).log = l
         /\ WithValue(p, v, l).count = p.count
         /\ WithValue(p, v, l).behaviors = p.behaviors
         /\ WithValue(p, v, l).of = p.of
  BY DEF Persona!PersonaRecord, WithValue, LogEntry

LEMMA BehaviorsAre ==
  ASSUME NEW p \in Persona!PersonaRecord, NEW b \in Seq(Behavior)
  PROVE  /\ WithBehaviors(p, b) \in Persona!PersonaRecord
         /\ WithBehaviors(p, b).value = p.value
         /\ WithBehaviors(p, b).log = p.log
         /\ WithBehaviors(p, b).count = p.count
         /\ WithBehaviors(p, b).behaviors = b
         /\ WithBehaviors(p, b).of = p.of
  BY DEF Persona!PersonaRecord, WithBehaviors, Behavior

LEMMA InteractedIs ==
  ASSUME NEW p \in SoundPersona
  PROVE  Persona!Interacted(p) \in SoundPersona /\ Persona!Interacted(p).of = p.of
<1> DEFINE d == Persona!ComputeMaturity(p.total + 1)
           m == IF d > p.maturity THEN d ELSE p.maturity
           q == WithInteraction(p, p.total + 1, m)
<1>1. p \in Persona!PersonaRecord
  BY SoundIs
<1>2. m \in 0..2 /\ p.total + 1 \in Nat
  BY <1>1, PersonaFields DEF Persona!ComputeMaturity
<1>3. Persona!Interacted(p) = q
  BY DEF Persona!Interacted, WithInteraction
<1> HIDE DEF m
<1>4. /\ q \in Persona!PersonaRecord /\ q.value = p.value /\ q.log = p.log /\ q.count = p.count
      /\ q.behaviors = p.behaviors /\ q.of = p.of
  BY <1>1, <1>2, InteractionIs
<1> HIDE DEF q
<1>5. q \in SoundPersona
  <2>1. ASSUME NEW f \in Persona!Field
        PROVE  q.value[f] \in 0..400 /\ q.value[f] = Persona!Balance(q.log, f)
    <3>1. p.value[f] \in 0..400 /\ p.value[f] = Persona!Balance(p.log, f)
      BY SoundIs
    <3> QED BY <1>4, <3>1
  <2>2. Len(q.log) + Len(q.behaviors) <= q.count
    BY <1>4, SoundIs
  <2> QED BY <1>4, <2>1, <2>2, IsSound
<1> QED BY <1>3, <1>4, <1>5

LEMMA ClampIs == ASSUME NEW v \in Int PROVE Persona!Clamp(v) \in 0..400 /\ Persona!Clamp(v) \in Int
  BY DEF Persona!Clamp, Persona!One

LEMMA ScaledIs ==
  ASSUME NEW recent, NEW raw \in Int, NEW m \in 0..2
  PROVE  Persona!Scaled(Persona!Sign(raw) * Persona!Least(Persona!Abs(raw), Persona!Cap(recent, raw)), m) \in Int
<1>1. Persona!Cap(recent, raw) \in Int
  BY DEF Persona!Cap, Persona!MaxDelta
<1>2. Persona!Abs(raw) \in Int
  BY DEF Persona!Abs
<1> DEFINE k == Persona!Least(Persona!Abs(raw), Persona!Cap(recent, raw))
           s == Persona!Sign(raw)
<1>3. k \in Int
  BY <1>1, <1>2 DEF Persona!Least
<1>4. s = -1 \/ s = 0 \/ s = 1
  BY DEF Persona!Sign
<1> HIDE DEF k, s
<1>5. s * k \in Int
  BY <1>3, <1>4
<1> DEFINE d == s * k
<1>6. d \in Int
  BY <1>5
<1> HIDE DEF d
<1>7. Persona!Scaled(d, m) \in Int
  <2>1. d \div 2 \in Int /\ (d * 4) \div 5 \in Int
    BY <1>6
  <2> QED BY <1>6, <2>1 DEF Persona!Scaled
<1> QED BY <1>7 DEF d, k, s

LEMMA SumGrows ==
  ASSUME NEW a \in Nat, NEW b \in Nat, NEW n \in Nat, NEW m \in Nat, a + b <= n, m >= n
  PROVE  (a + 1) + b <= n + 1 /\ a + (b + 1) <= n + 1 /\ a + b <= m
  OBVIOUS

LEMMA MovedIs ==
  ASSUME NEW p \in SoundPersona, NEW c \in Persona!Calls, NEW f \in Persona!Field, NEW scaled \in Int
  PROVE  /\ Persona!Moved(p, c, f, scaled) \in SoundPersona
         /\ Persona!Moved(p, c, f, scaled).of = p.of \cup {c}
<1> DEFINE w == Persona!Clamp(p.value[f] + scaled)
           e == [field |-> f, delta |-> w - p.value[f]]
           v == [p.value EXCEPT ![f] = w]
           l == Append(p.log, e)
           r == WithHistory(p, p.count + 1, p.of \cup {c})
           q == WithValue(r, v, l)
<1>1. p \in Persona!PersonaRecord
  BY SoundIs
<1>2. /\ p.value \in [Persona!Field -> Int] /\ p.log \in Seq(LogEntry) /\ p.total \in Nat
      /\ p.maturity \in 0..2 /\ p.count \in Nat /\ p.behaviors \in Seq(Behavior)
      /\ p.of \subseteq Persona!Calls
  BY <1>1, PersonaFields
<1>3. p.value[f] \in Int
  BY <1>2
<1>4. w \in 0..400 /\ w \in Int
  <2>1. p.value[f] + scaled \in Int
    BY <1>3
  <2> QED BY <2>1, ClampIs
<1>5. Persona!Moved(p, c, f, scaled) = q
  BY DEF Persona!Moved, WithHistory, WithValue
<1> HIDE DEF w
<1>6. e \in LogEntry /\ e.field = f /\ e.delta = w - p.value[f]
  BY <1>3, <1>4 DEF LogEntry
<1> HIDE DEF e
<1>7. l \in Seq(LogEntry) /\ Len(l) = Len(p.log) + 1 /\ Len(p.log) \in Nat /\ Len(p.behaviors) \in Nat
  BY <1>2, <1>6
<1>8. v \in [Persona!Field -> Int] /\ v[f] = w /\ \A g \in Persona!Field : g # f => v[g] = p.value[g]
  BY <1>2, <1>4
<1>9. ASSUME NEW g \in Persona!Field PROVE v[g] \in 0..400 /\ v[g] = Persona!Balance(l, g)
  <2>1. Persona!Balance(l, g) = Persona!Balance(p.log, g) + Contribution(e, g)
    BY <1>2, <1>6, BalanceAppended
  <2>2. p.value[g] \in 0..400 /\ p.value[g] = Persona!Balance(p.log, g)
    BY SoundIs
  <2>3. CASE g = f
    <3>1. Contribution(e, g) = w - p.value[f]
      BY <1>6, <2>3 DEF Contribution
    <3> QED BY <1>3, <1>4, <1>8, <2>1, <2>2, <2>3, <3>1
  <2>4. CASE g # f
    <3>1. Contribution(e, g) = 0
      BY <1>6, <2>4 DEF Contribution
    <3> QED BY <1>8, <2>1, <2>2, <2>4, <3>1
  <2> QED BY <2>3, <2>4
<1> HIDE DEF v, l
<1>10. p.of \cup {c} \subseteq Persona!Calls /\ p.count + 1 \in Nat
  BY <1>2
<1>11. /\ r \in Persona!PersonaRecord /\ r.count = p.count + 1 /\ r.behaviors = p.behaviors
       /\ r.of = p.of \cup {c}
  BY <1>1, <1>10, HistoryIs
<1> HIDE DEF r
<1>12. /\ q \in Persona!PersonaRecord /\ q.value = v /\ q.log = l /\ q.count = p.count + 1
       /\ q.behaviors = p.behaviors /\ q.of = p.of \cup {c}
  BY <1>7, <1>8, <1>11, ValueIs
<1> HIDE DEF q
<1>13. Len(p.log) + Len(p.behaviors) <= p.count
  BY SoundIs
<1>14. Len(q.log) + Len(q.behaviors) <= q.count
  <2>1. p.count >= p.count /\ Len(p.log) \in Nat /\ Len(p.behaviors) \in Nat /\ p.count \in Nat
    BY <1>2, <1>7
  <2>2. (Len(p.log) + 1) + Len(p.behaviors) <= p.count + 1
    BY <1>13, <2>1, SumGrows
  <2>3. Len(q.log) = Len(p.log) + 1 /\ q.behaviors = p.behaviors /\ q.count = p.count + 1
    BY <1>7, <1>12
  <2> QED BY <2>2, <2>3
<1>15. \A g \in Persona!Field : q.value[g] \in 0..400 /\ q.value[g] = Persona!Balance(q.log, g)
  BY <1>9, <1>12
<1>16. q \in SoundPersona
  BY <1>12, <1>14, <1>15, IsSound
<1> QED BY <1>5, <1>12, <1>16

LEMMA AppliedIs ==
  ASSUME NEW p \in SoundPersona, NEW c \in Persona!Calls, NEW f \in Persona!Field, NEW raw \in Int,
         NEW x \in Persona!ApplyDelta(p, c, f, raw)
  PROVE  x \in SoundPersona /\ (x.of = p.of \/ x.of = p.of \cup {c})
<1> DEFINE recent == Persona!Recent(p, f)
           scaled == Persona!Scaled(Persona!Sign(raw) * Persona!Least(Persona!Abs(raw),
                                                           Persona!Cap(recent, raw)), p.maturity)
<1>1. p.maturity \in 0..2
  BY SoundIs, PersonaFields
<1>2. scaled \in Int
  BY <1>1, ScaledIs
<1>3. x = p \/ x = Persona!Moved(p, c, f, scaled)
  BY DEF Persona!ApplyDelta
<1> HIDE DEF scaled
<1> QED BY <1>2, <1>3, MovedIs

LEMMA LearnedIs ==
  ASSUME NEW p \in SoundPersona, NEW c \in Persona!Calls, NEW confidence \in Int
  PROVE  /\ Persona!Learned(p, c, confidence) \in SoundPersona
         /\ Persona!Learned(p, c, confidence).of = p.of \cup {c}
<1> DEFINE x == [confidence |-> confidence, old |-> FALSE]
           b == Append(p.behaviors, x)
           r == WithHistory(p, p.count + 1, p.of \cup {c})
           q == WithBehaviors(r, b)
<1>1. p \in Persona!PersonaRecord
  BY SoundIs
<1>2. /\ p.value \in [Persona!Field -> Int] /\ p.log \in Seq(LogEntry) /\ p.total \in Nat
      /\ p.maturity \in 0..2 /\ p.count \in Nat /\ p.behaviors \in Seq(Behavior)
      /\ p.of \subseteq Persona!Calls
  BY <1>1, PersonaFields
<1>3. x \in Behavior
  <2>1. FALSE \in BOOLEAN
    OBVIOUS
  <2> QED BY <2>1 DEF Behavior
<1>4. Persona!Learned(p, c, confidence) = q
  BY DEF Persona!Learned, WithHistory, WithBehaviors
<1> HIDE DEF x
<1>5. b \in Seq(Behavior) /\ Len(b) = Len(p.behaviors) + 1 /\ Len(p.behaviors) \in Nat /\ Len(p.log) \in Nat
  BY <1>2, <1>3
<1> HIDE DEF b
<1>6. p.of \cup {c} \subseteq Persona!Calls /\ p.count + 1 \in Nat
  BY <1>2
<1>7. /\ r \in Persona!PersonaRecord /\ r.value = p.value /\ r.log = p.log /\ r.count = p.count + 1
      /\ r.of = p.of \cup {c}
  BY <1>1, <1>6, HistoryIs
<1> HIDE DEF r
<1>8. /\ q \in Persona!PersonaRecord /\ q.value = p.value /\ q.log = p.log /\ q.count = p.count + 1
      /\ q.behaviors = b /\ q.of = p.of \cup {c}
  BY <1>5, <1>7, BehaviorsAre
<1> HIDE DEF q
<1>9. Len(p.log) + Len(p.behaviors) <= p.count
  BY SoundIs
<1>10. Len(q.log) + Len(q.behaviors) <= q.count
  <2>1. p.count >= p.count /\ Len(p.log) \in Nat /\ Len(p.behaviors) \in Nat /\ p.count \in Nat
    BY <1>2, <1>5
  <2>2. Len(p.log) + (Len(p.behaviors) + 1) <= p.count + 1
    BY <1>9, <2>1, SumGrows
  <2>3. Len(q.behaviors) = Len(p.behaviors) + 1 /\ q.log = p.log /\ q.count = p.count + 1
    BY <1>5, <1>8
  <2> QED BY <2>2, <2>3
<1>11. ASSUME NEW g \in Persona!Field
       PROVE  q.value[g] \in 0..400 /\ q.value[g] = Persona!Balance(q.log, g)
  <2>1. p.value[g] \in 0..400 /\ p.value[g] = Persona!Balance(p.log, g)
    BY SoundIs
  <2> QED BY <1>8, <2>1
<1>12. q \in SoundPersona
  BY <1>8, <1>10, <1>11, IsSound
<1> QED BY <1>4, <1>8, <1>12

\* Only counters and the history change.
LEMMA CountedIs ==
  ASSUME NEW p \in SoundPersona, NEW n \in Nat, NEW o \in SUBSET Persona!Calls, n >= p.count
  PROVE  WithHistory(p, n, o) \in SoundPersona /\ WithHistory(p, n, o).of = o
<1> DEFINE q == WithHistory(p, n, o)
<1>1. /\ p \in Persona!PersonaRecord
      /\ \A f \in Persona!Field : p.value[f] \in 0..400 /\ p.value[f] = Persona!Balance(p.log, f)
      /\ Len(p.log) + Len(p.behaviors) <= p.count
  BY SoundIs
<1>2. Len(p.log) \in Nat /\ Len(p.behaviors) \in Nat /\ p.count \in Nat
  BY <1>1, PersonaFields
<1>3. /\ q \in Persona!PersonaRecord /\ q.value = p.value /\ q.log = p.log /\ q.count = n
      /\ q.behaviors = p.behaviors /\ q.of = o
  BY <1>1, HistoryIs
<1> HIDE DEF q
<1>4. Len(q.log) + Len(q.behaviors) <= q.count
  <2>1. Len(p.log) + Len(p.behaviors) <= p.count
    BY <1>1
  <2>2. Len(p.log) + Len(p.behaviors) <= n
    BY <1>2, <2>1, SumGrows
  <2> QED BY <1>3, <2>2
<1>5. \A f \in Persona!Field : q.value[f] \in 0..400 /\ q.value[f] = Persona!Balance(q.log, f)
  BY <1>1, <1>3
<1>6. q \in SoundPersona
  BY <1>3, <1>4, <1>5, IsSound
<1> QED BY <1>3, <1>6 DEF q

LEMMA ExposedIs ==
  ASSUME NEW p \in SoundPersona, NEW c \in Persona!Calls
  PROVE  LET q == [p EXCEPT !.count = @ + 1, !.of = @ \cup {c}]
         IN  q \in SoundPersona /\ q.of = p.of \cup {c}
<1>0. p \in Persona!PersonaRecord
  BY SoundIs
<1>1. p.of \cup {c} \in SUBSET Persona!Calls /\ p.count + 1 \in Nat /\ p.count + 1 >= p.count
  <2>1. p.of \subseteq Persona!Calls
    BY <1>0, PersonaFields
  <2>2. p.count \in Nat
    BY <1>0, PersonaFields
  <2> QED BY <2>1, <2>2
<1>2. WithHistory(p, p.count + 1, p.of \cup {c}) \in SoundPersona
      /\ WithHistory(p, p.count + 1, p.of \cup {c}).of = p.of \cup {c}
  BY <1>1, CountedIs
<1> QED BY <1>2 DEF WithHistory

LEMMA ImportedIs ==
  ASSUME NEW p \in SoundPersona, NEW c \in Persona!Calls
  PROVE  LET q == [p EXCEPT !.maturity = 0, !.of = {c}] IN  q \in SoundPersona /\ q.of = {c}
<1> DEFINE r == WithInteraction(p, p.total, 0)
           q == [p EXCEPT !.maturity = 0, !.of = {c}]
<1>1. /\ p \in Persona!PersonaRecord
      /\ \A f \in Persona!Field : p.value[f] \in 0..400 /\ p.value[f] = Persona!Balance(p.log, f)
      /\ Len(p.log) + Len(p.behaviors) <= p.count
  BY SoundIs
<1>2. p.total \in Nat /\ p.count \in Nat /\ 0 \in 0..2
  BY <1>1, PersonaFields
<1>3. /\ r \in Persona!PersonaRecord /\ r.value = p.value /\ r.log = p.log /\ r.count = p.count
      /\ r.behaviors = p.behaviors
  BY <1>1, <1>2, InteractionIs
<1>4. q = WithHistory(r, r.count, {c})
  <2>1. q = [p EXCEPT !.total = p.total, !.maturity = 0, !.count = p.count, !.of = {c}]
    BY <1>1 DEF Persona!PersonaRecord
  <2>2. q = WithHistory(r, p.count, {c})
    BY <2>1 DEF WithHistory, WithInteraction
  <2> QED BY <1>3, <2>2
<1> HIDE DEF r
<1>5. r \in SoundPersona
  <2>1. Len(r.log) + Len(r.behaviors) <= r.count
    BY <1>1, <1>3
  <2>2. \A f \in Persona!Field : r.value[f] \in 0..400 /\ r.value[f] = Persona!Balance(r.log, f)
    BY <1>1, <1>3
  <2> QED BY <1>3, <2>1, <2>2, IsSound
<1>6. r.count \in Nat /\ r.count >= r.count /\ {c} \in SUBSET Persona!Calls
  BY <1>2, <1>3
<1>7. WithHistory(r, r.count, {c}) \in SoundPersona /\ WithHistory(r, r.count, {c}).of = {c}
  BY <1>5, <1>6, CountedIs
<1> QED BY <1>4, <1>7

LEMMA FeedbackIs ==
  ASSUME NEW x \in Persona!Feedback, x.type = "instruction"
  PROVE  x.field \in Persona!Field /\ x.direction \in {-1, 1}
<1>1. x \in [type : {"instruction"}, field : Persona!Field, direction : {-1, 1}]
      \/ x \in [type : {"unclear", "praise", "criticism", "strong criticism", "lesson", "observation",
                        "exposure"}]
  BY DEF Persona!Feedback
<1>2. ~(x \in [type : {"unclear", "praise", "criticism", "strong criticism", "lesson", "observation",
                        "exposure"}])
  OBVIOUS
<1> QED BY <1>1, <1>2

LEMMA EvolvedIs ==
  ASSUME NEW p0 \in SoundPersona, NEW c \in Persona!Calls, NEW feedback \in Persona!Feedback,
         NEW x \in Persona!Evolved(p0, c, feedback)
  PROVE  x \in SoundPersona /\ (x.of = p0.of \/ x.of = p0.of \cup {c})
<1> DEFINE p == Persona!Interacted(p0)
           t == feedback.type
<1>1. p \in SoundPersona /\ p.of = p0.of
  BY InteractedIs
<1> HIDE DEF p
<1>2. 40 \div 2 \in Int /\ -(40 \div 4) \in Int /\ -(40 \div 2) \in Int /\ "proactivity" \in Persona!Field
      /\ Persona!MaxDelta = 40
  BY DEF Persona!Field, Persona!MaxDelta
<1>3. CASE t = "instruction"
  <2>1. x \in Persona!ApplyDelta(p, c, feedback.field, feedback.direction * Persona!MaxDelta)
    BY <1>3 DEF Persona!Evolved, p
  <2>2. feedback.field \in Persona!Field /\ feedback.direction \in {-1, 1}
    BY <1>3, FeedbackIs
  <2>3. feedback.direction * Persona!MaxDelta \in Int
    BY <1>2, <2>2
  <2> QED BY <1>1, <2>1, <2>2, <2>3, AppliedIs
<1>4. CASE t = "praise"
  <2>1. x \in Persona!ApplyDelta(p, c, "proactivity", Persona!MaxDelta \div 2)
    BY <1>4 DEF Persona!Evolved, p
  <2>2. Persona!MaxDelta \div 2 \in Int
    BY <1>2
  <2> QED BY <1>1, <1>2, <2>1, <2>2, AppliedIs
<1>5. CASE t = "criticism"
  <2>1. x \in Persona!ApplyDelta(p, c, "proactivity", -(Persona!MaxDelta \div 4))
    BY <1>5 DEF Persona!Evolved, p
  <2>2. -(Persona!MaxDelta \div 4) \in Int
    BY <1>2
  <2> QED BY <1>1, <1>2, <2>1, <2>2, AppliedIs
<1>6. CASE t = "strong criticism"
  <2>1. x \in Persona!ApplyDelta(p, c, "proactivity", -(Persona!MaxDelta \div 2))
    BY <1>6 DEF Persona!Evolved, p
  <2>2. -(Persona!MaxDelta \div 2) \in Int
    BY <1>2
  <2> QED BY <1>1, <1>2, <2>1, <2>2, AppliedIs
<1>7. CASE t = "lesson"
  <2>1. x = Persona!Learned(p, c, 240) /\ 240 \in Int
    BY <1>7 DEF Persona!Evolved, p
  <2> QED BY <1>1, <2>1, LearnedIs
<1>8. CASE t = "observation"
  <2>1. x = Persona!Learned(p, c, 120) /\ 120 \in Int
    BY <1>8 DEF Persona!Evolved, p
  <2> QED BY <1>1, <2>1, LearnedIs
<1>9. CASE t = "exposure"
  <2>1. x = [p EXCEPT !.count = @ + 1, !.of = @ \cup {c}]
    BY <1>9 DEF Persona!Evolved, p
  <2> QED BY <1>1, <2>1, ExposedIs
<1>10. CASE t \notin {"instruction", "praise", "criticism", "strong criticism", "lesson", "observation",
                      "exposure"}
  <2>1. x = p
    BY <1>10 DEF Persona!Evolved, p
  <2> QED BY <1>1, <2>1
<1> QED BY <1>3, <1>4, <1>5, <1>6, <1>7, <1>8, <1>9, <1>10

\* Other behaviors, as many as there were.
Behaved(p, b, o) == WithBehaviors(WithHistory(p, p.count, o), b)

LEMMA BehavedIs ==
  ASSUME NEW p \in SoundPersona, NEW b \in [1..Len(p.behaviors) -> Behavior], NEW o \in SUBSET Persona!Calls
  PROVE  Behaved(p, b, o) \in SoundPersona /\ Behaved(p, b, o).of = o
<1> DEFINE r == WithHistory(p, p.count, o)
           q == WithBehaviors(r, b)
<1>1. /\ p \in Persona!PersonaRecord
      /\ \A f \in Persona!Field : p.value[f] \in 0..400 /\ p.value[f] = Persona!Balance(p.log, f)
      /\ Len(p.log) + Len(p.behaviors) <= p.count
  BY SoundIs
<1>2. p.count \in Nat /\ p.behaviors \in Seq(Behavior) /\ Len(p.behaviors) \in Nat
  BY <1>1, PersonaFields
<1>3. b \in Seq(Behavior) /\ Len(b) = Len(p.behaviors)
  BY <1>2
<1>4. /\ r \in Persona!PersonaRecord /\ r.value = p.value /\ r.log = p.log /\ r.count = p.count
      /\ r.of = o
  BY <1>1, <1>2, HistoryIs
<1> HIDE DEF r
<1>5. /\ q \in Persona!PersonaRecord /\ q.value = p.value /\ q.log = p.log /\ q.count = p.count
      /\ q.behaviors = b /\ q.of = o
  BY <1>3, <1>4, BehaviorsAre
<1> HIDE DEF q
<1>6. Len(q.log) + Len(q.behaviors) <= q.count
  BY <1>1, <1>3, <1>5
<1>7. \A f \in Persona!Field : q.value[f] \in 0..400 /\ q.value[f] = Persona!Balance(q.log, f)
  BY <1>1, <1>5
<1>8. q \in SoundPersona
  BY <1>5, <1>6, <1>7, IsSound
<1> QED BY <1>5, <1>8 DEF q, r, Behaved

LEMMA BehaviorFields == ASSUME NEW x \in Behavior PROVE x.confidence \in Int /\ x.old \in BOOLEAN
  BY DEF Behavior

LEMMA DecayedIs ==
  ASSUME NEW p \in SoundPersona, NEW c \in Persona!Calls
  PROVE  Persona!Decayed(p, c) \in SoundPersona /\ Persona!Decayed(p, c).of = p.of \cup {c}
<1> DEFINE b == [i \in DOMAIN p.behaviors |-> Persona!Faded(p.behaviors[i])]
<1>1. p.behaviors \in Seq(Behavior) /\ p.of \subseteq Persona!Calls
  BY SoundIs, PersonaFields
<1>2. ASSUME NEW x \in Behavior PROVE Persona!Faded(x) \in Behavior
  <2>1. x.confidence \in Int
    BY BehaviorFields
  <2>2. x.confidence - 20 \in Int
    BY <2>1
  <2>3. Persona!Clamp(x.confidence - Persona!DecayRate) \in Int
    BY <2>2, ClampIs DEF Persona!DecayRate
  <2> DEFINE w == Persona!Clamp(x.confidence - Persona!DecayRate)
             y == [x EXCEPT !.confidence = w]
  <2> HIDE DEF w
  <2>4. y \in Behavior
    BY <2>3 DEF Behavior, w
  <2> QED BY <2>4 DEF w, Persona!Faded
<1>3. b \in [1..Len(p.behaviors) -> Behavior]
  <2>1. DOMAIN p.behaviors = 1..Len(p.behaviors) /\ \A i \in 1..Len(p.behaviors) : p.behaviors[i] \in Behavior
    BY <1>1
  <2>2. \A i \in 1..Len(p.behaviors) : Persona!Faded(p.behaviors[i]) \in Behavior
    BY <1>2, <2>1
  <2> QED BY <2>1, <2>2
<1>4. Persona!Decayed(p, c) = Behaved(p, b, p.of \cup {c})
  <2>1. p \in Persona!PersonaRecord
    BY SoundIs
  <2>2. Persona!Decayed(p, c) = [p EXCEPT !.of = p.of \cup {c}, !.behaviors = b]
    BY DEF Persona!Decayed
  <2> HIDE DEF b
  <2>3. [p EXCEPT !.of = p.of \cup {c}, !.behaviors = b]
          = [p EXCEPT !.count = p.count, !.of = p.of \cup {c}, !.behaviors = b]
    BY <2>1 DEF Persona!PersonaRecord
  <2> QED BY <2>2, <2>3 DEF WithHistory, WithBehaviors, Behaved
<1>5. p.of \cup {c} \in SUBSET Persona!Calls
  BY <1>1
<1> HIDE DEF b
<1> QED BY <1>3, <1>4, <1>5, BehavedIs

\* A behavior grows old.
LEMMA AgedIs ==
  ASSUME NEW p \in SoundPersona, NEW i \in DOMAIN p.behaviors
  PROVE  /\ [p EXCEPT !.behaviors[i].old = TRUE] \in SoundPersona
         /\ [p EXCEPT !.behaviors[i].old = TRUE].of = p.of
<1>1. p \in Persona!PersonaRecord /\ p.behaviors \in Seq(Behavior) /\ p.of \subseteq Persona!Calls
  BY SoundIs, PersonaFields
<1> DEFINE y == [p.behaviors[i] EXCEPT !.old = TRUE]
           b == [p.behaviors EXCEPT ![i] = y]
<1>2. p.behaviors[i] \in Behavior
  BY <1>1
<1>3. TRUE \in BOOLEAN
  OBVIOUS
<1>4. y \in Behavior
  BY <1>2, <1>3 DEF Behavior
<1>5. [p EXCEPT !.behaviors[i].old = TRUE] = [p EXCEPT !.behaviors = b]
  OBVIOUS
<1> HIDE DEF y
<1>6. b \in [1..Len(p.behaviors) -> Behavior]
  BY <1>1, <1>4
<1> HIDE DEF b
<1>7. [p EXCEPT !.behaviors = b] = Behaved(p, b, p.of)
  <2>1. [p EXCEPT !.behaviors = b] = [p EXCEPT !.count = p.count, !.of = p.of, !.behaviors = b]
    BY <1>1 DEF Persona!PersonaRecord
  <2> QED BY <2>1 DEF WithHistory, WithBehaviors, Behaved
<1>8. p.of \in SUBSET Persona!Calls
  BY <1>1
<1> QED BY <1>5, <1>6, <1>7, <1>8, BehavedIs

LEMMA DefaultIs == Persona!DefaultPersona \in SoundPersona /\ Persona!DefaultPersona.of = {}
<1> DEFINE q == Persona!DefaultPersona
<1>1. Persona!DefaultValue \in [Persona!Field -> Int]
  BY DEF Persona!DefaultValue
<1>2. /\ <<>> \in Seq([field : Persona!Field, delta : Int])
      /\ <<>> \in Seq([confidence : Int, old : BOOLEAN]) /\ 0 \in 0..2 /\ 0 \in Nat
      /\ {} \in SUBSET Persona!Calls /\ Len(<<>>) = 0
  OBVIOUS
<1>3. q \in Persona!PersonaRecord
  BY <1>1, <1>2 DEF Persona!PersonaRecord, Persona!DefaultPersona
<1>4. q.value = Persona!DefaultValue /\ q.log = <<>> /\ q.behaviors = <<>> /\ q.count = 0 /\ q.of = {}
  BY DEF Persona!DefaultPersona
<1> HIDE DEF q
<1>5. \A f \in Persona!Field : q.value[f] \in 0..400 /\ q.value[f] = Persona!Balance(q.log, f)
  BY <1>4, FirstValue, BalanceOfNone
<1>6. Len(q.log) + Len(q.behaviors) <= q.count
  BY <1>2, <1>4
<1>7. q \in SoundPersona
  BY <1>3, <1>5, <1>6, IsSound
<1> QED BY <1>4, <1>7 DEF q

-----------------------------------------------------------------------------
(* The calls *)

LEMMA PersonaConstants ==
  ASSUME EdgesAssumption
  PROVE  /\ None # Torn /\ None \notin SoundPersona /\ Torn \notin SoundPersona
         /\ Given \subseteq Persona!Feedback /\ Stored \subseteq SoundPersona
<1>1. Persona!PersonaAssumption
  BY DEF EdgesAssumption
<1>2. /\ None # Torn /\ None \notin Persona!PersonaRecord /\ Torn \notin Persona!PersonaRecord
      /\ Given \subseteq Persona!Feedback /\ \A p \in Stored : Persona!Sound(p)
  BY <1>1 DEF Persona!PersonaAssumption
<1>3. \A p : Persona!Sound(p) => p \in SoundPersona
  BY DEF Persona!Sound, SoundPersona
<1>4. \A p \in SoundPersona : p \in Persona!PersonaRecord
  BY DEF SoundPersona
<1> QED BY <1>2, <1>3, <1>4

LEMMA PersonaCallFields ==
  ASSUME NEW x \in PersonaCallRecord
  PROVE  x.state \in PersonaState /\ x.object \in Nat /\ x.payload \in PersonaPayload
  BY DEF PersonaCallRecord

LEMMA CachedIs ==
  ASSUME PersonaTypes
  PROVE  /\ Len(objects) \in Nat /\ cached \in 0..Len(objects) /\ cached \in Nat
         /\ 0 \in 0..Len(objects) /\ (cached # 0 => cached \in 1..Len(objects))
<1>1. objects \in Seq(SoundPersona) /\ cached \in 0..Len(objects)
  BY DEF PersonaTypes
<1> QED BY <1>1

LEMMA PersonaToIs ==
  ASSUME PersonaTypes, NEW c \in Persona!Calls, NEW s \in PersonaState,
         Persona!To(c, s)
  PROVE  \E x \in PersonaCallRecord :
           /\ x.state = s /\ x.object = personaCall[c].object /\ x.payload = personaCall[c].payload
           /\ personaCall' = [personaCall EXCEPT ![c] = x]
<1> DEFINE y == personaCall[c]
           x == [y EXCEPT !.state = s]
<1>1. y \in PersonaCallRecord
  BY DEF PersonaTypes
<1>2. personaCall' = [personaCall EXCEPT ![c] = x]
  BY DEF Persona!To
<1> HIDE DEF y
<1>3. x \in PersonaCallRecord /\ x.state = s /\ x.object = y.object /\ x.payload = y.payload
  BY <1>1 DEF PersonaCallRecord
<1> HIDE DEF x
<1> QED BY <1>2, <1>3 DEF y

LEMMA PersonaEndIs ==
  ASSUME NEW c \in Persona!Calls, NEW s \in PersonaState, Persona!End(c, s)
  PROVE  \E x \in PersonaCallRecord :
           /\ x.state = s /\ x.object = 0 /\ x.payload = None
           /\ personaCall' = [personaCall EXCEPT ![c] = x]
<1> DEFINE x == [state |-> s, object |-> 0, payload |-> None]
<1>1. personaCall' = [personaCall EXCEPT ![c] = x]
  BY DEF Persona!End
<1>2. x \in PersonaCallRecord /\ x.state = s /\ x.object = 0 /\ x.payload = None
  BY DEF PersonaCallRecord, PersonaPayload
<1> HIDE DEF x
<1> QED BY <1>1, <1>2

LEMMA PersonaCallSet ==
  ASSUME PersonaTypes, NEW c \in Persona!Calls, NEW x \in PersonaCallRecord,
         personaCall' = [personaCall EXCEPT ![c] = x]
  PROVE  /\ personaCall' \in [Persona!Calls -> PersonaCallRecord] /\ personaCall'[c] = x
         /\ \A d \in Persona!Calls : d # c => personaCall'[d] = personaCall[d]
  BY DEF PersonaTypes

\* A step that leaves what is cached and the file, and of which a persona may grow.
LEMMA PersonaStepOn ==
  ASSUME PersonaInv, UNCHANGED <<cached, personaFile, writesOverlapped, kept, raced>>,
         truncated' \in BOOLEAN,
         objects' \in Seq(SoundPersona), Len(objects') = Len(objects),
         \A i \in 1..Len(objects) : objects[i].of \subseteq objects'[i].of,
         personaCall' \in [Persona!Calls -> PersonaCallRecord],
         \A d \in Persona!Calls :
           \/ personaCall'[d] = personaCall[d]
           \/ /\ PersonaCallOK(personaCall'[d], Len(objects), cached, personaFile)
              /\ personaCall'[d].state \notin {"writing", "writing first"}
              /\ ~raced /\ cached # 0 =>
                   PersonaCallKept(personaCall'[d], d, cached, objects'[cached].of, kept)
  PROVE  PersonaInv'
<1>0. PersonaFlags /\ PersonaTypes /\ PersonaCallsOK /\ PersonaKept
  BY DEF PersonaInv
<1>1. PersonaFlags'
  BY <1>0 DEF PersonaFlags
<1>2. PersonaTypes'
  BY <1>0 DEF PersonaTypes
<1>3. PersonaCallsOK'
  BY <1>0 DEF PersonaCallsOK
<1>4. PersonaKept'
  <2> SUFFICES ASSUME ~raced PROVE PersonaKept'
    BY DEF PersonaKept
  <2>1. /\ writesOverlapped' = {} /\ (personaFile' = None => kept' = {})
        /\ (personaFile' \in SoundPersona => kept' \subseteq personaFile'.of)
    BY <1>0 DEF PersonaKept
  <2>2. ASSUME cached' # 0 PROVE kept' \subseteq objects'[cached'].of
    <3>1. cached \in 1..Len(objects)
      BY <1>0, <2>2, CachedIs
    <3>2. kept \subseteq objects[cached].of
      BY <1>0, <2>2 DEF PersonaKept
    <3> QED BY <3>1, <3>2
  <2>3. ASSUME NEW d \in Persona!Calls, cached' # 0
        PROVE  PersonaCallKept(personaCall[d], d, cached, objects'[cached].of, kept)
    <3>1. cached \in 1..Len(objects)
      BY <1>0, <2>3, CachedIs
    <3>2. PersonaCallKept(personaCall[d], d, cached, objects[cached].of, kept)
      BY <1>0, <2>3 DEF PersonaKept
    <3>3. objects[cached].of \subseteq objects'[cached].of
      BY <3>1
    <3> QED BY <3>2, <3>3 DEF PersonaCallKept
  <2>4. \A d \in Persona!Calls : cached' # 0 =>
          PersonaCallKept(personaCall'[d], d, cached', objects'[cached'].of, kept')
    BY <2>3
  <2>5. \A d \in Persona!Calls : personaCall'[d].state \in {"writing", "writing first"}
          => personaCall[d].state \in {"writing", "writing first"}
    OBVIOUS
  <2>6. \A c, d \in Persona!Calls :
          /\ personaCall'[c].state \in {"writing", "writing first"}
          /\ personaCall'[d].state \in {"writing", "writing first"}
          => c = d
    BY <1>0, <2>5 DEF PersonaKept
  <2> QED BY <2>1, <2>2, <2>4, <2>6 DEF PersonaKept
<1> QED BY <1>1, <1>2, <1>3, <1>4 DEF PersonaInv

\* The same, when nothing of the personas changes but one call.
LEMMA PersonaCallMoves ==
  ASSUME PersonaInv, UNCHANGED <<objects, cached, personaFile, writesOverlapped, kept, raced>>,
         truncated' \in BOOLEAN, NEW c \in Persona!Calls, NEW x \in PersonaCallRecord,
         personaCall' = [personaCall EXCEPT ![c] = x],
         PersonaCallOK(x, Len(objects), cached, personaFile),
         x.state \notin {"writing", "writing first", "saving"},
         x.state = "loaded" => x.object = cached
  PROVE  PersonaInv'
<1>0. PersonaTypes
  BY DEF PersonaInv
<1>1. /\ personaCall' \in [Persona!Calls -> PersonaCallRecord] /\ personaCall'[c] = x
      /\ \A d \in Persona!Calls : d # c => personaCall'[d] = personaCall[d]
  BY <1>0, PersonaCallSet
<1>2. objects' \in Seq(SoundPersona) /\ Len(objects') = Len(objects)
      /\ \A i \in 1..Len(objects) : objects[i].of \subseteq objects'[i].of
  BY <1>0 DEF PersonaTypes
<1>3. PersonaCallKept(x, c, cached, objects'[cached].of, kept)
  BY DEF PersonaCallKept
<1>4. \A d \in Persona!Calls :
        \/ personaCall'[d] = personaCall[d]
        \/ /\ PersonaCallOK(personaCall'[d], Len(objects), cached, personaFile)
           /\ personaCall'[d].state \notin {"writing", "writing first"}
           /\ ~raced /\ cached # 0 =>
                PersonaCallKept(personaCall'[d], d, cached, objects'[cached].of, kept)
  BY <1>1, <1>3
<1> QED BY <1>1, <1>2, <1>4, PersonaStepOn

LEMMA PersonaStarts == ASSUME EdgesAssumption, Persona!Init PROVE PersonaInv
<1>0. /\ None # Torn /\ None \notin SoundPersona /\ Torn \notin SoundPersona
      /\ Stored \subseteq SoundPersona
  BY PersonaConstants
<1>1. /\ objects = <<>> /\ cached = 0 /\ personaFile \in {None} \cup Stored
      /\ writesOverlapped = {} /\ kept = {} /\ truncated = FALSE /\ raced = FALSE
      /\ personaCall = [c \in Persona!Calls |-> [state |-> "new", object |-> 0, payload |-> None]]
  BY DEF Persona!Init
<1> DEFINE x == [state |-> "new", object |-> 0, payload |-> None]
<1>2. x \in PersonaCallRecord /\ x.state = "new" /\ x.object = 0 /\ x.payload = None
  BY DEF PersonaCallRecord, PersonaState, PersonaPayload
<1>3. personaCall = [c \in Persona!Calls |-> x]
  BY <1>1
<1> HIDE DEF x
<1>4. personaCall \in [Persona!Calls -> PersonaCallRecord] /\ \A c \in Persona!Calls : personaCall[c] = x
  BY <1>2, <1>3
<1>5. PersonaFlags
  BY <1>1 DEF PersonaFlags
<1>6. objects \in Seq(SoundPersona) /\ Len(objects) = 0 /\ cached \in 0..Len(objects)
  BY <1>1
<1>7. PersonaTypes
  BY <1>0, <1>1, <1>4, <1>6 DEF PersonaTypes, PersonaPayload
<1>8. PersonaCallsOK
  <2>1. x.object \in 0..Len(objects)
    BY <1>2, <1>7, CachedIs
  <2> QED BY <1>2, <1>4, <2>1 DEF PersonaCallsOK, PersonaCallOK
<1>9. PersonaKept
  BY <1>1, <1>2, <1>4 DEF PersonaKept
<1> QED BY <1>5, <1>7, <1>8, <1>9 DEF PersonaInv

LEMMA PersonaBegins == ASSUME PersonaInv, NEW c \in Persona!Calls, Persona!Begin(c) PROVE PersonaInv'
<1>0. PersonaFlags /\ PersonaTypes
  BY DEF PersonaInv
<1> DEFINE s == IF cached = 0 THEN "reading" ELSE "loaded"
           y == personaCall[c]
           x == [y EXCEPT !.state = s, !.object = cached]
<1>1. y \in PersonaCallRecord /\ cached \in 0..Len(objects) /\ Len(objects) \in Nat
  BY <1>0 DEF PersonaTypes
<1>2. personaCall' = [personaCall EXCEPT ![c] = x]
      /\ UNCHANGED <<objects, cached, personaFile, truncated, writesOverlapped, kept, raced>>
  BY DEF Persona!Begin
<1>3. s \in PersonaState /\ cached \in Nat
  BY <1>1 DEF PersonaState
<1>4. (s = "reading" /\ cached = 0) \/ (s = "loaded" /\ cached # 0)
  OBVIOUS
<1> HIDE DEF y, s
<1>5. x \in PersonaCallRecord /\ x.state = s /\ x.object = cached
  BY <1>1, <1>3 DEF PersonaCallRecord
<1> HIDE DEF x
<1>6. PersonaCallOK(x, Len(objects), cached, personaFile)
  BY <1>1, <1>4, <1>5 DEF PersonaCallOK
<1>7. truncated' \in BOOLEAN
  BY <1>0, <1>2 DEF PersonaFlags
<1>8. x.state \notin {"writing", "writing first", "saving"} /\ (x.state = "loaded" => x.object = cached)
  BY <1>4, <1>5
<1> QED BY <1>2, <1>5, <1>6, <1>7, <1>8, PersonaCallMoves

LEMMA PersonaReads == ASSUME PersonaInv, NEW c \in Persona!Calls, Persona!Read(c) PROVE PersonaInv'
<1>0. PersonaFlags /\ PersonaTypes /\ PersonaCallsOK
  BY DEF PersonaInv
<1> DEFINE y == personaCall[c]
           x == [y EXCEPT !.state = "parsing", !.payload = personaFile]
<1>1. y \in PersonaCallRecord /\ personaFile \in PersonaPayload /\ "parsing" \in PersonaState
  BY <1>0 DEF PersonaTypes, PersonaState
<1>2. personaCall' = [personaCall EXCEPT ![c] = x]
      /\ UNCHANGED <<objects, cached, personaFile, truncated, writesOverlapped, kept, raced>>
  BY DEF Persona!Read
<1>3. y.object \in 0..Len(objects)
  BY <1>0 DEF PersonaCallsOK, PersonaCallOK
<1> HIDE DEF y
<1>4. x \in PersonaCallRecord /\ x.state = "parsing" /\ x.object = y.object /\ x.payload = personaFile
  BY <1>1 DEF PersonaCallRecord
<1> HIDE DEF x
<1>5. PersonaCallOK(x, Len(objects), cached, personaFile)
  BY <1>3, <1>4 DEF PersonaCallOK
<1>6. truncated' \in BOOLEAN
  BY <1>0, <1>2 DEF PersonaFlags
<1> QED BY <1>2, <1>4, <1>5, <1>6, PersonaCallMoves

\* A call is over that has changed nothing.
LEMMA PersonaEnds ==
  ASSUME PersonaInv, NEW c \in Persona!Calls, NEW s \in {"done", "failed"}, Persona!End(c, s),
         UNCHANGED <<objects, cached, personaFile, writesOverlapped, kept, raced>>, truncated' \in BOOLEAN
  PROVE  PersonaInv'
<1>0. s \in PersonaState /\ PersonaTypes
  BY DEF PersonaState, PersonaInv
<1>1. PICK x \in PersonaCallRecord :
        /\ x.state = s /\ x.object = 0 /\ x.payload = None
        /\ personaCall' = [personaCall EXCEPT ![c] = x]
  BY <1>0, PersonaEndIs
<1>2. x.object \in 0..Len(objects)
  BY <1>0, <1>1, CachedIs
<1>3. PersonaCallOK(x, Len(objects), cached, personaFile)
  BY <1>1, <1>2 DEF PersonaCallOK
<1>4. x.state \notin {"writing", "writing first", "saving"} /\ x.state # "loaded"
  BY <1>1
<1> QED BY <1>1, <1>3, <1>4, PersonaCallMoves

LEMMA PersonaAppended ==
  ASSUME NEW s \in Seq(SoundPersona), NEW p \in SoundPersona, NEW t, t = Append(s, p),
         NEW at, at = Len(s) + 1
  PROVE  /\ t \in Seq(SoundPersona) /\ Len(t) = Len(s) + 1 /\ t[at] = p
         /\ at \in 0..Len(t) /\ at # 0 /\ \A i \in 0..(Len(s) + 1) : i \in 0..Len(t)
         /\ \A i \in 0..Len(s) : i \in 0..Len(t)
  OBVIOUS

\* A persona is added and cached, by a load or an import.
LEMMA PersonaAdded ==
  ASSUME PersonaInv, NEW c \in Persona!Calls, NEW p \in SoundPersona, NEW x \in PersonaCallRecord,
         objects' = Append(objects, p), cached' = Len(objects) + 1,
         personaCall' = [personaCall EXCEPT ![c] = x],
         UNCHANGED <<personaFile, truncated, writesOverlapped>>, PersonaFlags', ~raced' => ~raced,
         x.object \in 0..(Len(objects) + 1), x.state = "loaded" => x.object = Len(objects) + 1,
         x.state \notin {"writing", "writing first"}, x.state \in {"new", "done", "failed"} => x.object = 0,
         kept' \subseteq kept,
         ~raced' => /\ \A d \in Persona!Calls :
                         personaCall[d].state \notin {"loaded", "saving", "writing"}
                    /\ kept' \subseteq p.of
                    /\ kept' = {} \/ \A d \in Persona!Calls : personaCall[d].state # "writing first"
                    /\ x.state \in {"saving", "writing"} => c \in p.of
  PROVE  PersonaInv'
<1>0. PersonaFlags /\ PersonaTypes /\ PersonaCallsOK /\ PersonaKept
  BY DEF PersonaInv
<1>1. /\ personaCall' \in [Persona!Calls -> PersonaCallRecord] /\ personaCall'[c] = x
      /\ \A d \in Persona!Calls : d # c => personaCall'[d] = personaCall[d]
  BY <1>0, PersonaCallSet
<1>2. objects \in Seq(SoundPersona)
  BY <1>0 DEF PersonaTypes
<1>3. /\ objects' \in Seq(SoundPersona) /\ Len(objects') = Len(objects) + 1 /\ objects'[cached'] = p
      /\ cached' \in 0..Len(objects') /\ cached' # 0
      /\ \A i \in 0..(Len(objects) + 1) : i \in 0..Len(objects')
      /\ \A i \in 0..Len(objects) : i \in 0..Len(objects')
  BY ONLY <1>2, p \in SoundPersona, objects' = Append(objects, p), cached' = Len(objects) + 1,
     PersonaAppended
<1>4. cached' \in 0..Len(objects') /\ cached' # 0 /\ \A i \in 0..Len(objects) : i \in 0..Len(objects')
  BY <1>3
<1>6. PersonaTypes'
  BY <1>0, <1>1, <1>3, <1>4 DEF PersonaTypes
<1>7. PersonaCallsOK'
  <2>1. x.object \in 0..Len(objects') /\ (x.state = "loaded" => x.object # 0)
    BY <1>3
  <2>2. PersonaCallOK(x, Len(objects'), cached', personaFile')
    BY <1>4, <2>1 DEF PersonaCallOK
  <2>3. ASSUME NEW d \in Persona!Calls
        PROVE  PersonaCallOK(personaCall[d], Len(objects'), cached', personaFile')
    <3>1. PersonaCallOK(personaCall[d], Len(objects), cached, personaFile)
      BY <1>0 DEF PersonaCallsOK
    <3>2. personaCall[d].object \in 0..Len(objects')
      BY <1>4, <3>1 DEF PersonaCallOK
    <3> QED BY <1>4, <3>1, <3>2 DEF PersonaCallOK
  <2> QED BY <1>1, <2>2, <2>3 DEF PersonaCallsOK
<1>8. PersonaKept'
  <2> SUFFICES ASSUME ~raced' PROVE PersonaKept'
    BY DEF PersonaKept
  <2>1. /\ writesOverlapped' = {} /\ kept' \subseteq p.of
        /\ kept' = {} \/ \A d \in Persona!Calls : personaCall[d].state # "writing first"
        /\ \A d \in Persona!Calls : personaCall[d].state \notin {"loaded", "saving", "writing"}
        /\ x.state \in {"saving", "writing"} => c \in p.of
    BY <1>0 DEF PersonaKept
  <2>2. objects'[cached'] = p
    BY <1>3
  <2>3. PersonaCallKept(x, c, cached', objects'[cached'].of, kept')
    BY <2>1, <2>2 DEF PersonaCallKept
  <2>4. ASSUME NEW d \in Persona!Calls
        PROVE  PersonaCallKept(personaCall[d], d, cached', objects'[cached'].of, kept')
    BY <2>1 DEF PersonaCallKept
  <2>5. \A d \in Persona!Calls :
          PersonaCallKept(personaCall'[d], d, cached', objects'[cached'].of, kept')
    BY <1>1, <2>3, <2>4
  <2>6. \A d, e \in Persona!Calls :
          /\ personaCall'[d].state \in {"writing", "writing first"}
          /\ personaCall'[e].state \in {"writing", "writing first"}
          => d = e
    <3>1. \A d, e \in Persona!Calls :
            /\ personaCall[d].state \in {"writing", "writing first"}
            /\ personaCall[e].state \in {"writing", "writing first"}
            => d = e
      BY <1>0 DEF PersonaKept
    <3> QED BY <1>1, <3>1
  <2>7. kept' \subseteq objects'[cached'].of
    BY <2>1, <2>2
  <2>8. (personaFile' = None => kept' = {})
        /\ (personaFile' \in SoundPersona => kept' \subseteq personaFile'.of)
    BY <1>0 DEF PersonaKept
  <2> QED BY <2>1, <2>5, <2>6, <2>7, <2>8 DEF PersonaKept
<1> QED BY <1>6, <1>7, <1>8 DEF PersonaInv

LEMMA PersonaLoads ==
  ASSUME EdgesAssumption, PersonaInv, NEW c \in Persona!Calls, Persona!Load(c) PROVE PersonaInv'
<1>0. PersonaFlags /\ PersonaTypes /\ PersonaCallsOK /\ PersonaKept
  BY DEF PersonaInv
<1>1. personaCall[c].state = "parsing" /\ UNCHANGED <<personaFile, truncated, writesOverlapped, kept>>
  BY DEF Persona!Load
<1>2. None # Torn /\ None \notin SoundPersona /\ Torn \notin SoundPersona
  BY PersonaConstants
<1>3. personaCall[c] \in PersonaCallRecord
  BY <1>0 DEF PersonaTypes
<1>4. personaCall[c].payload \in {None, Torn} \cup SoundPersona
  BY <1>3, PersonaCallFields DEF PersonaPayload
<1>a. truncated \in BOOLEAN /\ raced \in BOOLEAN
  BY <1>0 DEF PersonaFlags
<1>5. CASE personaCall[c].payload = Torn
  <2>1. Persona!End(c, "failed") /\ UNCHANGED <<objects, cached, raced>>
    BY <1>2, <1>5 DEF Persona!Load
  <2> QED BY <1>1, <1>a, <2>1, PersonaEnds
<1>6. \A p : Persona!Cache(p) =>
         /\ objects' = Append(objects, p) /\ cached' = Len(objects) + 1
         /\ PersonaFlags' /\ (~raced' => ~raced /\ cached = 0)
  BY <1>1, <1>a DEF Persona!Cache, PersonaFlags
\* Nothing is cached: nobody has loaded, and what was read is what the file holds.
<1>7. ASSUME ~raced, cached = 0
      PROVE  /\ \A d \in Persona!Calls :
                  personaCall[d].state \notin {"loaded", "saving", "writing", "writing first"}
             /\ personaCall[c].payload = personaFile
             /\ (personaFile = None => kept = {})
             /\ (personaFile \in SoundPersona => kept \subseteq personaFile.of)
  BY <1>0, <1>1, <1>7 DEF PersonaCallsOK, PersonaCallOK, PersonaKept
<1>8. CASE personaCall[c].payload = None
  <2>1. Persona!Cache(Persona!DefaultPersona) /\ Persona!To(c, "creating")
    BY <1>2, <1>8 DEF Persona!Load
  <2>2. PICK x \in PersonaCallRecord :
          /\ x.state = "creating" /\ x.object = personaCall[c].object
          /\ personaCall' = [personaCall EXCEPT ![c] = x]
    <3>1. "creating" \in PersonaState
      BY DEF PersonaState
    <3> QED BY <1>0, <2>1, <3>1, PersonaToIs
  <2>3. Len(objects) \in Nat /\ personaCall[c].object \in 0..Len(objects)
    BY <1>0, CachedIs DEF PersonaCallsOK, PersonaCallOK
  <2>4. x.object \in 0..(Len(objects) + 1)
    BY <2>2, <2>3
  <2>5. Persona!DefaultPersona \in SoundPersona
    BY DefaultIs
  <2>6. /\ objects' = Append(objects, Persona!DefaultPersona) /\ cached' = Len(objects) + 1
        /\ PersonaFlags' /\ (~raced' => ~raced /\ cached = 0)
    BY <1>6, <2>1
  <2>7. ~raced' =>
          /\ \A d \in Persona!Calls : personaCall[d].state \notin {"loaded", "saving", "writing"}
          /\ kept' = {}
    BY <1>1, <1>2, <1>7, <1>8, <2>6
  <2> HIDE DEF Persona!DefaultPersona
  <2>8. ~raced' => /\ kept' \subseteq Persona!DefaultPersona.of
                   /\ kept' = {} \/ \A d \in Persona!Calls : personaCall[d].state # "writing first"
    BY <2>7
  <2>9. /\ x.state \notin {"writing", "writing first", "saving", "loaded", "new", "done", "failed"}
        /\ kept' \subseteq kept /\ (~raced' => ~raced)
    BY <1>1, <2>2, <2>6
  <2> QED BY <1>1, <2>2, <2>4, <2>5, <2>6, <2>7, <2>8, <2>9, PersonaAdded
<1>9. CASE personaCall[c].payload \in SoundPersona
  <2> DEFINE p == personaCall[c].payload
             y == personaCall[c]
             x == [y EXCEPT !.state = "loaded", !.object = Len(objects) + 1]
  <2>1. p # None /\ p # Torn
    BY <1>2, <1>9
  <2>2. Persona!Cache(p) /\ personaCall' = [personaCall EXCEPT ![c] = x]
    BY <2>1 DEF Persona!Load
  <2>3. /\ objects' = Append(objects, p) /\ cached' = Len(objects) + 1
        /\ PersonaFlags' /\ (~raced' => ~raced /\ cached = 0)
    BY <1>6, <2>2
  <2>4. ~raced' =>
          /\ \A d \in Persona!Calls :
               personaCall[d].state \notin {"loaded", "saving", "writing", "writing first"}
          /\ kept' \subseteq p.of
    BY <1>1, <1>7, <1>9, <2>3
  <2>5. Len(objects) \in Nat /\ Len(objects) + 1 \in Nat /\ "loaded" \in PersonaState
    BY <1>0, CachedIs DEF PersonaState
  <2>6. p \in SoundPersona /\ y \in PersonaCallRecord
    BY <1>3, <1>9
  <2> HIDE DEF p, y
  <2>7. x \in PersonaCallRecord /\ x.state = "loaded" /\ x.object = Len(objects) + 1
    BY <2>5, <2>6 DEF PersonaCallRecord
  <2> HIDE DEF x
  <2>8. x.object \in 0..(Len(objects) + 1)
    BY <2>5, <2>7
  <2>9. /\ x.state \notin {"writing", "writing first", "saving", "new", "done", "failed"}
        /\ kept' \subseteq kept /\ (~raced' => ~raced) /\ (x.state = "loaded" => x.object = Len(objects) + 1)
    BY <1>1, <2>3, <2>7
  <2>10. ~raced' =>
          /\ \A d \in Persona!Calls : personaCall[d].state \notin {"loaded", "saving", "writing"}
          /\ kept' \subseteq p.of
          /\ kept' = {} \/ \A d \in Persona!Calls : personaCall[d].state # "writing first"
    BY <2>4
  <2> QED BY <1>1, <2>2, <2>3, <2>6, <2>7, <2>8, <2>9, <2>10, PersonaAdded
<1> QED BY <1>4, <1>5, <1>8, <1>9

LEMMA PersonaImports ==
  ASSUME EdgesAssumption, PersonaInv, NEW c \in Persona!Calls, NEW q \in Stored, Persona!ImportStep(c, q)
  PROVE  PersonaInv'
<1>0. PersonaFlags /\ PersonaTypes /\ PersonaCallsOK
  BY DEF PersonaInv
<1> DEFINE p == [q EXCEPT !.maturity = 0, !.of = {c}]
<1>1. p \in SoundPersona /\ p.of = {c}
  BY PersonaConstants, ImportedIs
<1>2. /\ personaCall[c].state = "new" /\ objects' = Append(objects, p) /\ cached' = Len(objects) + 1
      /\ kept' = {} /\ UNCHANGED <<personaFile, truncated, writesOverlapped>>
  BY DEF Persona!ImportStep, Persona!New
<1> HIDE DEF p
<1>3. raced' = (raced \/ \E d \in Persona!Calls : Persona!Loaded(d))
  BY DEF Persona!ImportStep
<1>4. PersonaFlags'
  BY <1>0, <1>2, <1>3 DEF PersonaFlags
<1>5. ~raced' => ~raced /\ \A d \in Persona!Calls : personaCall[d].state \notin {"loaded", "saving", "writing"}
  BY <1>3 DEF Persona!Loaded
<1>6. PICK x \in PersonaCallRecord :
        /\ x.state = "saving" /\ x.object = personaCall[c].object
        /\ personaCall' = [personaCall EXCEPT ![c] = x]
  <2>1. "saving" \in PersonaState /\ Persona!To(c, "saving")
    BY DEF PersonaState, Persona!ImportStep
  <2> QED BY <1>0, <2>1, PersonaToIs
<1>7. x.object \in 0..(Len(objects) + 1)
  <2>1. Len(objects) \in Nat /\ personaCall[c].object \in 0..Len(objects)
    BY <1>0, CachedIs DEF PersonaCallsOK, PersonaCallOK
  <2> QED BY <1>6, <2>1
<1>8. /\ x.state \notin {"writing", "writing first", "loaded", "new", "done", "failed"}
      /\ kept' \subseteq kept /\ (~raced' => ~raced)
  BY <1>2, <1>5, <1>6
<1>9. ~raced' =>
        /\ \A d \in Persona!Calls : personaCall[d].state \notin {"loaded", "saving", "writing"}
        /\ kept' \subseteq p.of /\ kept' = {} /\ c \in p.of
  BY <1>1, <1>2, <1>5
<1> QED BY <1>1, <1>2, <1>4, <1>6, <1>7, <1>8, <1>9, PersonaAdded

\* The persona a call has loaded grows.
LEMMA PersonaGrows ==
  ASSUME PersonaInv, NEW k \in 1..Len(objects), NEW p \in SoundPersona, objects[k].of \subseteq p.of,
         objects' = [objects EXCEPT ![k] = p]
  PROVE  /\ objects' \in Seq(SoundPersona) /\ Len(objects') = Len(objects) /\ objects'[k] = p
         /\ \A i \in 1..Len(objects) : objects[i].of \subseteq objects'[i].of
<1>1. objects \in Seq(SoundPersona)
  BY DEF PersonaInv, PersonaTypes
<1>2. \A i \in 1..Len(objects) : i # k => objects'[i] = objects[i]
  BY <1>1
<1> QED BY <1>1, <1>2

LEMMA PersonaChanges ==
  ASSUME PersonaInv, NEW c \in Persona!Calls, personaCall[c].state = "loaded",
         NEW p \in SoundPersona, Persona!Change(c, p),
         p.of = objects[personaCall[c].object].of \/ p.of = objects[personaCall[c].object].of \cup {c},
         (c \in p.of /\ Persona!To(c, "saving")) \/ Persona!End(c, "done"),
         UNCHANGED <<cached, personaFile, truncated, writesOverlapped, kept, raced>>
  PROVE  PersonaInv'
<1>0. PersonaFlags /\ PersonaTypes /\ PersonaCallsOK /\ PersonaKept
  BY DEF PersonaInv
<1> DEFINE k == personaCall[c].object
<1>1. PersonaCallOK(personaCall[c], Len(objects), cached, personaFile)
  BY <1>0 DEF PersonaCallsOK
<1>2. k \in 0..Len(objects) /\ k # 0 /\ cached # 0
  BY <1>1 DEF PersonaCallOK
<1>3. k \in 1..Len(objects) /\ 0 \in 0..Len(objects)
  BY <1>0, <1>2, CachedIs
<1>4. objects' = [objects EXCEPT ![k] = p]
  BY DEF Persona!Change
<1>5. objects[k].of \subseteq p.of
  OBVIOUS
<1>6. ~raced => k = cached
  BY <1>0, <1>2 DEF PersonaKept, PersonaCallKept
<1> HIDE DEF k
<1>7. /\ objects' \in Seq(SoundPersona) /\ Len(objects') = Len(objects) /\ objects'[k] = p
      /\ \A i \in 1..Len(objects) : objects[i].of \subseteq objects'[i].of
  BY <1>3, <1>4, <1>5, PersonaGrows
<1>8. PICK x \in PersonaCallRecord :
        /\ personaCall' = [personaCall EXCEPT ![c] = x]
        /\ (x.state = "saving" /\ x.object = k /\ c \in p.of) \/ (x.state = "done" /\ x.object = 0)
  <2>1. CASE c \in p.of /\ Persona!To(c, "saving")
    <3>1. "saving" \in PersonaState
      BY DEF PersonaState
    <3> QED BY <1>0, <2>1, <3>1, PersonaToIs DEF k
  <2>2. CASE Persona!End(c, "done")
    <3>1. "done" \in PersonaState
      BY DEF PersonaState
    <3> QED BY <2>2, <3>1, PersonaEndIs
  <2> QED BY <2>1, <2>2
<1>9. x.object \in 0..Len(objects)
  BY <1>2, <1>3, <1>8 DEF k
<1>10. PersonaCallOK(x, Len(objects), cached, personaFile)
  BY <1>2, <1>8, <1>9 DEF PersonaCallOK
<1>11. ~raced => PersonaCallKept(x, c, cached, objects'[cached].of, kept)
  BY <1>6, <1>7, <1>8 DEF PersonaCallKept
<1>12. /\ personaCall' \in [Persona!Calls -> PersonaCallRecord] /\ personaCall'[c] = x
       /\ \A d \in Persona!Calls : d # c => personaCall'[d] = personaCall[d]
  BY <1>0, <1>8, PersonaCallSet
<1>13. x.state \notin {"writing", "writing first"}
  BY <1>8
<1>14. \A d \in Persona!Calls :
         \/ personaCall'[d] = personaCall[d]
         \/ /\ PersonaCallOK(personaCall'[d], Len(objects), cached, personaFile)
            /\ personaCall'[d].state \notin {"writing", "writing first"}
            /\ ~raced /\ cached # 0 =>
                 PersonaCallKept(personaCall'[d], d, cached, objects'[cached].of, kept)
  BY <1>10, <1>11, <1>12, <1>13
<1>15. truncated' \in BOOLEAN
  BY <1>0 DEF PersonaFlags
<1> QED BY <1>7, <1>12, <1>14, <1>15, PersonaStepOn

LEMMA PersonaLoadedIs ==
  ASSUME PersonaInv, NEW c \in Persona!Calls, personaCall[c].state = "loaded"
  PROVE  objects[personaCall[c].object] \in SoundPersona
<1>0. PersonaTypes /\ PersonaCallsOK
  BY DEF PersonaInv
<1>1. PersonaCallOK(personaCall[c], Len(objects), cached, personaFile)
  BY <1>0 DEF PersonaCallsOK
<1>2. personaCall[c].object \in 0..Len(objects) /\ personaCall[c].object # 0
  BY <1>1 DEF PersonaCallOK
<1>3. objects \in Seq(SoundPersona)
  BY <1>0 DEF PersonaTypes
<1> QED BY <1>2, <1>3

LEMMA PersonaEvolves ==
  ASSUME EdgesAssumption, PersonaInv, NEW c \in Persona!Calls, NEW feedback \in Given,
         Persona!EvolveStep(c, feedback)
  PROVE  PersonaInv'
<1>1. personaCall[c].state = "loaded"
      /\ UNCHANGED <<cached, personaFile, truncated, writesOverlapped, kept, raced>>
  BY DEF Persona!EvolveStep
<1>2. feedback \in Persona!Feedback
  BY PersonaConstants
<1>3. PICK p \in Persona!Evolved(objects[personaCall[c].object], c, feedback) :
        Persona!Change(c, p) /\ IF c \in p.of THEN Persona!To(c, "saving") ELSE Persona!End(c, "done")
  BY DEF Persona!EvolveStep
<1>4. objects[personaCall[c].object] \in SoundPersona
  BY <1>1, PersonaLoadedIs
<1>5. p \in SoundPersona /\ (p.of = objects[personaCall[c].object].of
                             \/ p.of = objects[personaCall[c].object].of \cup {c})
  BY <1>2, <1>4, EvolvedIs
<1>6. (c \in p.of /\ Persona!To(c, "saving")) \/ Persona!End(c, "done")
  BY <1>3
<1> QED BY <1>1, <1>3, <1>5, <1>6, PersonaChanges

LEMMA PersonaDecays ==
  ASSUME PersonaInv, NEW c \in Persona!Calls, Persona!DecayStep(c) PROVE PersonaInv'
<1> DEFINE p == objects[personaCall[c].object]
<1>1. personaCall[c].state = "loaded"
      /\ UNCHANGED <<cached, personaFile, truncated, writesOverlapped, kept, raced>>
  BY DEF Persona!DecayStep
<1>2. p \in SoundPersona
  BY <1>1, PersonaLoadedIs
<1>3. \/ Persona!Change(c, Persona!Decayed(p, c)) /\ Persona!To(c, "saving")
      \/ Persona!End(c, "done") /\ UNCHANGED objects
  BY DEF Persona!DecayStep
<1>4. CASE Persona!Change(c, Persona!Decayed(p, c)) /\ Persona!To(c, "saving")
  <2>1. Persona!Decayed(p, c) \in SoundPersona /\ Persona!Decayed(p, c).of = p.of \cup {c}
    BY <1>2, DecayedIs
  <2> DEFINE q == Persona!Decayed(p, c)
  <2>2. q \in SoundPersona /\ q.of = p.of \cup {c} /\ c \in q.of /\ Persona!Change(c, q)
    BY <1>4, <2>1
  <2> HIDE DEF q
  <2> QED BY <1>1, <1>4, <2>2, PersonaChanges
<1>5. CASE Persona!End(c, "done") /\ UNCHANGED objects
  <2>1. truncated' \in BOOLEAN
    BY <1>1 DEF PersonaInv, PersonaFlags
  <2> QED BY <1>1, <1>5, <2>1, PersonaEnds
<1> QED BY <1>3, <1>4, <1>5

LEMMA PersonaAges == ASSUME PersonaInv, Persona!Age PROVE PersonaInv'
<1>0. PersonaFlags /\ PersonaTypes
  BY DEF PersonaInv
<1>1. cached # 0 /\ UNCHANGED <<cached, personaFile, personaCall, truncated, writesOverlapped, kept, raced>>
  BY DEF Persona!Age
<1>2. PICK i \in DOMAIN objects[cached].behaviors :
        objects' = [objects EXCEPT ![cached].behaviors[i].old = TRUE]
  BY DEF Persona!Age
<1>3. cached \in 1..Len(objects)
  BY <1>0, <1>1, CachedIs
<1>4. objects[cached] \in SoundPersona
  BY <1>0, <1>3 DEF PersonaTypes
<1> DEFINE q == objects[cached]
           p == [q EXCEPT !.behaviors[i].old = TRUE]
<1>5. objects' = [objects EXCEPT ![cached] = p]
  BY <1>2
<1>6. p \in SoundPersona /\ p.of = q.of
  BY <1>4, AgedIs
<1> HIDE DEF p
<1>7. objects' \in Seq(SoundPersona) /\ Len(objects') = Len(objects)
      /\ \A j \in 1..Len(objects) : objects[j].of \subseteq objects'[j].of
  BY <1>3, <1>5, <1>6, PersonaGrows
<1>8. personaCall' \in [Persona!Calls -> PersonaCallRecord]
      /\ \A d \in Persona!Calls : personaCall'[d] = personaCall[d]
  BY <1>0, <1>1 DEF PersonaTypes
<1>9. truncated' \in BOOLEAN
  BY <1>0, <1>1 DEF PersonaFlags
<1> QED BY <1>1, <1>7, <1>8, <1>9, PersonaStepOn

LEMMA PersonaOpens ==
  ASSUME EdgesAssumption, PersonaInv, NEW c \in Persona!Calls, Persona!OpenFile(c) PROVE PersonaInv'
<1>0. PersonaFlags /\ PersonaTypes /\ PersonaCallsOK /\ PersonaKept
  BY DEF PersonaInv
<1>1. None # Torn /\ Torn \notin SoundPersona
  BY PersonaConstants
<1> DEFINE y == personaCall[c]
           s == IF y.state = "saving" THEN "writing" ELSE "writing first"
           p == objects[cached]
           x == [y EXCEPT !.payload = p, !.state = s]
           others == {d \in Persona!Calls : Persona!Writing(d)}
<1>2. personaCall' = [personaCall EXCEPT ![c] = x]
  BY DEF Persona!OpenFile
<1>3. y.state \in {"saving", "creating"} /\ personaFile' = Torn
      /\ UNCHANGED <<objects, cached, truncated, kept>>
  BY DEF Persona!OpenFile, Persona!Saving
<1>4. writesOverlapped' = (IF others = {} THEN {} ELSE writesOverlapped \cup others \cup {c})
  BY DEF Persona!OpenFile
<1>5. raced' = (raced \/ others # {})
  BY DEF Persona!OpenFile
<1>6. \A d \in Persona!Calls : personaCall[d].state \in {"writing", "writing first"} => d \in others
  BY DEF Persona!Writing
<1>7. others \subseteq Persona!Calls
  OBVIOUS
<1> HIDE DEF others
<1>8. PersonaCallOK(y, Len(objects), cached, personaFile) /\ y \in PersonaCallRecord
  BY <1>0 DEF PersonaCallsOK, PersonaTypes
<1>9. cached # 0
  BY <1>3, <1>8 DEF PersonaCallOK
<1>10. cached \in 1..Len(objects)
  BY <1>0, <1>9, CachedIs
<1>11. p \in SoundPersona
  BY <1>0, <1>10 DEF PersonaTypes
<1>12. s \in {"writing", "writing first"} /\ (s = "writing" => y.state = "saving") /\ s \in PersonaState
  BY DEF PersonaState
<1> HIDE DEF y, s, p
<1>13. x \in PersonaCallRecord /\ x.state = s /\ x.payload = p /\ x.object = y.object
  BY <1>8, <1>11, <1>12 DEF PersonaCallRecord, PersonaPayload
<1> HIDE DEF x
<1>14. /\ personaCall' \in [Persona!Calls -> PersonaCallRecord] /\ personaCall'[c] = x
       /\ \A d \in Persona!Calls : d # c => personaCall'[d] = personaCall[d]
  BY <1>0, <1>2, <1>13, PersonaCallSet
<1>15. PersonaFlags'
  BY <1>0, <1>3, <1>5 DEF PersonaFlags
<1>16. PersonaTypes'
  <2>1. writesOverlapped' \subseteq Persona!Calls
    BY <1>0, <1>4, <1>7 DEF PersonaTypes
  <2> QED BY <1>0, <1>3, <1>14, <2>1 DEF PersonaTypes, PersonaPayload
<1>17. PersonaCallsOK'
  <2>1. PersonaCallOK(x, Len(objects), cached, Torn)
    BY <1>8, <1>9, <1>11, <1>12, <1>13 DEF PersonaCallOK
  <2>2. \A d \in Persona!Calls : PersonaCallOK(personaCall[d], Len(objects), cached, Torn)
    BY <1>0, <1>9 DEF PersonaCallsOK, PersonaCallOK
  <2> QED BY <1>3, <1>14, <2>1, <2>2 DEF PersonaCallsOK
<1>18. PersonaKept'
  <2> SUFFICES ASSUME ~raced' PROVE PersonaKept'
    BY DEF PersonaKept
  <2>1. ~raced /\ others = {}
    BY <1>5
  <2>2. writesOverlapped' = {}
    BY <1>4, <2>1
  <2>3. kept' \subseteq objects'[cached'].of
    BY <1>0, <1>3, <1>9, <2>1 DEF PersonaKept
  <2>4. personaFile' # None /\ personaFile' \notin SoundPersona
    BY <1>1, <1>3
  <2>5. \A d \in Persona!Calls : PersonaCallKept(personaCall[d], d, cached, objects[cached].of, kept)
    BY <1>0, <1>9, <2>1 DEF PersonaKept
  <2>6. y.state = "saving" => c \in objects[cached].of
    BY <2>5 DEF PersonaCallKept, y
  <2>7. kept \subseteq p.of
    BY <1>3, <2>3 DEF p
  <2>8. PersonaCallKept(x, c, cached, objects[cached].of, kept)
    BY <1>12, <1>13, <2>6, <2>7 DEF PersonaCallKept, p
  <2>9. \A d \in Persona!Calls :
          PersonaCallKept(personaCall'[d], d, cached', objects'[cached'].of, kept')
    BY <1>3, <1>14, <2>5, <2>8
  <2>10. \A d \in Persona!Calls : personaCall'[d].state \in {"writing", "writing first"} => d = c
    BY <1>6, <1>14, <2>1
  <2>11. \A d, e \in Persona!Calls :
           /\ personaCall'[d].state \in {"writing", "writing first"}
           /\ personaCall'[e].state \in {"writing", "writing first"}
           => d = e
    BY <2>10
  <2> QED BY <2>2, <2>3, <2>4, <2>9, <2>11 DEF PersonaKept
<1> QED BY <1>15, <1>16, <1>17, <1>18 DEF PersonaInv

LEMMA PersonaWrites ==
  ASSUME EdgesAssumption, PersonaInv, NEW c \in Persona!Calls, Persona!WriteFile(c) PROVE PersonaInv'
<1>0. PersonaFlags /\ PersonaTypes /\ PersonaCallsOK /\ PersonaKept
  BY DEF PersonaInv
<1>1. None # Torn /\ None \notin SoundPersona /\ Torn \notin SoundPersona
  BY PersonaConstants
<1> DEFINE y == personaCall[c]
<1>2. /\ y.state \in {"writing", "writing first"}
      /\ UNCHANGED <<objects, cached, truncated, writesOverlapped, raced>>
      /\ personaFile' \in {y.payload, personaFile, Torn}
      /\ c \notin writesOverlapped => personaFile' = y.payload
  BY DEF Persona!WriteFile, Persona!Writing
<1>3. PersonaCallOK(y, Len(objects), cached, personaFile) /\ y \in PersonaCallRecord
  BY <1>0 DEF PersonaCallsOK, PersonaTypes
<1>4. cached # 0 /\ y.payload \in SoundPersona
  BY <1>2, <1>3 DEF PersonaCallOK
<1>5. cached \in 0..Len(objects) /\ cached \in Nat /\ 0 \in 0..Len(objects)
  BY <1>0, CachedIs
<1>6. PICK x \in PersonaCallRecord :
        /\ personaCall' = [personaCall EXCEPT ![c] = x]
        /\ \/ y.state = "writing" /\ x.state = "done" /\ x.object = 0 /\ kept' = kept \cup {c}
           \/ x.state = "loaded" /\ x.object = cached /\ kept' = kept
  <2>1. CASE y.state = "writing"
    <3>1. Persona!End(c, "done") /\ kept' = kept \cup {c}
      BY <2>1 DEF Persona!WriteFile
    <3>2. "done" \in PersonaState
      BY DEF PersonaState
    <3> QED BY <2>1, <3>1, <3>2, PersonaEndIs
  <2>2. CASE y.state # "writing"
    <3> DEFINE x == [y EXCEPT !.state = "loaded", !.object = cached]
    <3>1. personaCall' = [personaCall EXCEPT ![c] = x] /\ kept' = kept
      BY <2>2 DEF Persona!WriteFile
    <3>2. "loaded" \in PersonaState
      BY DEF PersonaState
    <3> HIDE DEF y
    <3>3. x \in PersonaCallRecord /\ x.state = "loaded" /\ x.object = cached
      BY <1>3, <1>5, <3>2 DEF PersonaCallRecord
    <3> HIDE DEF x
    <3> QED BY <3>1, <3>3
  <2> QED BY <2>1, <2>2
<1>7. /\ personaCall' \in [Persona!Calls -> PersonaCallRecord] /\ personaCall'[c] = x
      /\ \A d \in Persona!Calls : d # c => personaCall'[d] = personaCall[d]
  BY <1>0, <1>6, PersonaCallSet
<1>8. PersonaFlags'
  BY <1>0, <1>2 DEF PersonaFlags
<1>9. PersonaTypes'
  <2>1. personaFile' \in PersonaPayload
    BY <1>0, <1>2, <1>4 DEF PersonaTypes, PersonaPayload
  <2>2. kept' \subseteq Persona!Calls
    BY <1>0, <1>6 DEF PersonaTypes
  <2> QED BY <1>0, <1>2, <1>7, <2>1, <2>2 DEF PersonaTypes
<1>10. PersonaCallsOK'
  <2>1. PersonaCallOK(x, Len(objects), cached, personaFile')
    BY <1>4, <1>5, <1>6 DEF PersonaCallOK
  <2>2. \A d \in Persona!Calls : PersonaCallOK(personaCall[d], Len(objects), cached, personaFile')
    BY <1>0, <1>4 DEF PersonaCallsOK, PersonaCallOK
  <2> QED BY <1>2, <1>7, <2>1, <2>2 DEF PersonaCallsOK
<1>11. PersonaKept'
  <2> SUFFICES ASSUME ~raced' PROVE PersonaKept'
    BY DEF PersonaKept
  <2>1. ~raced
    BY <1>2
  <2>2. writesOverlapped = {} /\ kept \subseteq objects[cached].of
    BY <1>0, <1>4, <2>1 DEF PersonaKept
  <2>3. personaFile' = y.payload
    BY <1>2, <2>2
  <2>4. \A d \in Persona!Calls : PersonaCallKept(personaCall[d], d, cached, objects[cached].of, kept)
    BY <1>0, <1>4, <2>1 DEF PersonaKept
  <2>5. kept \subseteq y.payload.of
        /\ (y.state = "writing" => c \in objects[cached].of /\ c \in y.payload.of)
    BY <1>2, <2>4 DEF PersonaCallKept
  <2>6. kept' \subseteq y.payload.of /\ kept' \subseteq objects[cached].of
    BY <1>6, <2>2, <2>5
  <2>7. \A d, e \in Persona!Calls :
          /\ personaCall[d].state \in {"writing", "writing first"}
          /\ personaCall[e].state \in {"writing", "writing first"}
          => d = e
    BY <1>0, <2>1 DEF PersonaKept
  <2>8. \A d \in Persona!Calls : d # c => personaCall[d].state \notin {"writing", "writing first"}
    BY <1>2, <2>7
  <2>9. \A d \in Persona!Calls : personaCall'[d].state \notin {"writing", "writing first"}
    BY <1>6, <1>7, <2>8
  <2>10. ASSUME NEW d \in Persona!Calls
         PROVE  PersonaCallKept(personaCall'[d], d, cached, objects[cached].of, kept')
    <3>1. CASE d = c
      BY <1>6, <1>7, <3>1 DEF PersonaCallKept
    <3>2. CASE d # c
      <4>1. PersonaCallKept(personaCall[d], d, cached, objects[cached].of, kept)
        BY <2>4
      <4>2. personaCall[d].state \notin {"writing", "writing first"} /\ personaCall'[d] = personaCall[d]
        BY <1>7, <2>8, <3>2
      <4> QED BY <4>1, <4>2 DEF PersonaCallKept
    <3> QED BY <3>1, <3>2
  <2>11. personaFile' # None /\ (personaFile' \in SoundPersona => kept' \subseteq personaFile'.of)
    BY <1>1, <1>4, <2>3, <2>6
  <2> HIDE DEF y
  <2> QED BY <1>2, <2>2, <2>6, <2>9, <2>10, <2>11 DEF PersonaKept
<1> QED BY <1>8, <1>9, <1>10, <1>11 DEF PersonaInv

LEMMA PersonaRestarts == ASSUME EdgesAssumption, PersonaInv, Persona!Restart PROVE PersonaInv'
<1>0. PersonaFlags /\ PersonaTypes /\ PersonaCallsOK /\ PersonaKept
  BY DEF PersonaInv
<1> DEFINE x == [state |-> "failed", object |-> 0, payload |-> None]
<1>1. /\ objects' = <<>> /\ cached' = 0
      /\ UNCHANGED <<personaFile, truncated, writesOverlapped, kept, raced>>
      /\ personaCall' = [c \in Persona!Calls |-> IF Persona!Under(personaCall[c].state) THEN x
                                                ELSE personaCall[c]]
  BY DEF Persona!Restart
<1>2. x \in PersonaCallRecord /\ x.state = "failed" /\ x.object = 0
  BY DEF PersonaCallRecord, PersonaState, PersonaPayload
<1> HIDE DEF x
<1>3. /\ objects' \in Seq(SoundPersona) /\ Len(objects') = 0 /\ cached' \in 0..Len(objects')
      /\ 0 \in 0..Len(objects')
  BY <1>1
<1>4. \A c \in Persona!Calls :
        \/ personaCall'[c] = x
        \/ /\ personaCall'[c] = personaCall[c]
           /\ personaCall[c].state \in {"new", "done", "failed"}
  BY <1>1 DEF Persona!Under
<1>5. personaCall' \in [Persona!Calls -> PersonaCallRecord]
  BY <1>0, <1>1, <1>2 DEF PersonaTypes
<1>6. PersonaFlags'
  BY <1>0, <1>1 DEF PersonaFlags
<1>7. PersonaTypes'
  BY <1>0, <1>1, <1>3, <1>5 DEF PersonaTypes
<1>8. PersonaCallsOK'
  <2>1. ASSUME NEW c \in Persona!Calls
        PROVE  personaCall'[c].object = 0 /\ personaCall'[c].state \in {"new", "done", "failed"}
    <3>1. PersonaCallOK(personaCall[c], Len(objects), cached, personaFile)
      BY <1>0 DEF PersonaCallsOK
    <3>2. personaCall[c].state \in {"new", "done", "failed"} => personaCall[c].object = 0
      BY <3>1 DEF PersonaCallOK
    <3> QED BY <1>2, <1>4, <3>2
  <2>2. ASSUME NEW c \in Persona!Calls
        PROVE  PersonaCallOK(personaCall'[c], Len(objects'), cached', personaFile')
    BY <1>3, <2>1 DEF PersonaCallOK
  <2> QED BY <2>2 DEF PersonaCallsOK
<1>9. PersonaKept'
  <2> SUFFICES ASSUME ~raced' PROVE PersonaKept'
    BY DEF PersonaKept
  <2>1. \A c \in Persona!Calls : personaCall'[c].state \notin {"writing", "writing first"}
    BY <1>2, <1>4
  <2>2. /\ writesOverlapped' = {} /\ (personaFile' = None => kept' = {})
        /\ (personaFile' \in SoundPersona => kept' \subseteq personaFile'.of)
    BY <1>0, <1>1 DEF PersonaKept
  <2> QED BY <1>1, <2>1, <2>2 DEF PersonaKept
<1> QED BY <1>6, <1>7, <1>8, <1>9 DEF PersonaInv

LEMMA PersonaGoesOn == ASSUME EdgesAssumption, PersonaInv, Persona!Next PROVE PersonaInv'
<1>0. truncated \in BOOLEAN
  BY DEF PersonaInv, PersonaFlags
<1>1. ASSUME NEW c \in Persona!Calls, Persona!SnapshotStep(c) PROVE PersonaInv'
  <2>1. truncated' \in BOOLEAN /\ Persona!End(c, "done")
        /\ UNCHANGED <<objects, cached, personaFile, writesOverlapped, kept, raced>>
    BY <1>1 DEF Persona!SnapshotStep
  <2> QED BY <2>1, PersonaEnds
<1>2. ASSUME NEW c \in Persona!Calls, Persona!PersistFails(c) PROVE PersonaInv'
  <2>1. truncated' = truncated /\ Persona!End(c, "failed")
        /\ UNCHANGED <<objects, cached, personaFile, writesOverlapped, kept, raced>>
    BY <1>2 DEF Persona!PersistFails
  <2>2. truncated' \in BOOLEAN
    BY <1>0, <2>1
  <2> QED BY <2>1, <2>2, PersonaEnds
<1>3. ASSUME NEW c \in Persona!Calls,
             \/ Persona!Begin(c) \/ Persona!Read(c) \/ Persona!Load(c)
             \/ \E feedback \in Given : Persona!EvolveStep(c, feedback)
             \/ Persona!DecayStep(c) \/ Persona!SnapshotStep(c)
             \/ \E p \in Stored : Persona!ImportStep(c, p)
             \/ Persona!OpenFile(c) \/ Persona!WriteFile(c) \/ Persona!PersistFails(c)
      PROVE  PersonaInv'
  BY <1>1, <1>2, <1>3, PersonaBegins, PersonaReads, PersonaLoads, PersonaEvolves, PersonaDecays,
     PersonaImports, PersonaOpens, PersonaWrites
<1>4. CASE Persona!Restart
  BY <1>4, PersonaRestarts
<1>5. CASE Persona!Age
  BY <1>5, PersonaAges
<1> QED BY <1>3, <1>4, <1>5 DEF Persona!Next

LEMMA PersonaRests == ASSUME PersonaInv, UNCHANGED personaVars PROVE PersonaInv'
<1>0. PersonaFlags /\ PersonaTypes /\ PersonaCallsOK /\ PersonaKept
  BY DEF PersonaInv
<1>1. UNCHANGED <<objects, cached, personaFile, personaCall, truncated, writesOverlapped, kept, raced>>
  BY DEF personaVars
<1>2. PersonaFlags'
  BY <1>0, <1>1 DEF PersonaFlags
<1>3. PersonaTypes'
  BY <1>0, <1>1 DEF PersonaTypes
<1>4. PersonaCallsOK'
  BY <1>0, <1>1 DEF PersonaCallsOK
<1>5. PersonaKept'
  BY <1>0, <1>1 DEF PersonaKept
<1> QED BY <1>2, <1>3, <1>4, <1>5 DEF PersonaInv

LEMMA PersonaIsSafe ==
  ASSUME EdgesAssumption, PersonaInv
  PROVE  Persona!TypeOK /\ Persona!Ledger /\ Persona!ChangesKept
<1>0. PersonaFlags /\ PersonaTypes /\ PersonaCallsOK /\ PersonaKept
  BY DEF PersonaInv
<1>1. None # Torn /\ None \notin SoundPersona /\ Torn \notin SoundPersona
  BY PersonaConstants
<1>2. Persona!TypeOK
  <2>1. \A c \in Persona!Calls : personaCall[c].object \in 0..Len(objects)
    BY <1>0 DEF PersonaCallsOK, PersonaCallOK
  <2>2. cached \in 0..Len(objects) /\ kept \subseteq Persona!Calls /\ writesOverlapped \subseteq Persona!Calls
    BY <1>0 DEF PersonaTypes
  <2>3. truncated \in BOOLEAN /\ raced \in BOOLEAN
    BY <1>0 DEF PersonaFlags
  <2> QED BY <2>1, <2>2, <2>3 DEF Persona!TypeOK
<1>3. personaFile \in {None, Torn} \cup SoundPersona
  BY <1>0 DEF PersonaTypes, PersonaPayload
<1>4. Persona!Ledger
  <2>1. objects \in Seq(SoundPersona)
    BY <1>0 DEF PersonaTypes
  <2>2. \A i \in DOMAIN objects : objects[i] \in SoundPersona
    BY <2>1
  <2>3. \A p \in Persona!Range(objects) : p \in SoundPersona
    BY <2>2 DEF Persona!Range
  <2>4. \A p \in {personaFile} \ {None, Torn} : p \in SoundPersona
    BY <1>3
  <2>5. \A p \in Persona!Personas : p \in SoundPersona
    BY <2>3, <2>4 DEF Persona!Personas
  <2> QED BY <2>5 DEF Persona!Ledger, SoundPersona
<1>5. Persona!ChangesKept
  BY <1>0, <1>1, <1>3 DEF PersonaKept, Persona!ChangesKept
<1> QED BY <1>2, <1>4, <1>5

-----------------------------------------------------------------------------
(* The goals                                                              *)

GoalState == {"new", "reading", "parsing", "loaded", "queued", "mkdir", "writing", "done", "failed"}
InLine == {"queued", "mkdir", "writing"}
GoalList == SUBSET (CreateCall \cup UpdateCall)

GoalTypes ==
  /\ goals \in GoalList \cup {None} /\ goalFile \in GoalList \cup {Torn}
  /\ goalCall \in [Goals!GoalCall -> [state : GoalState, read : GoalList \cup {None, Torn},
                                      goal : Goals!GoalCall]]
  /\ chain \in Seq(CreateCall \cup UpdateCall) /\ told \subseteq Goals!GoalCall /\ clobbered \in BOOLEAN
  /\ \A c \in Goals!GoalCall :
       /\ goalCall[c].state = "parsing" => goalCall[c].read \in GoalList \cup {Torn}
       /\ goalCall[c].state \in {"loaded", "queued", "mkdir", "writing"} => goals # None
       /\ goalCall[c].state = "writing" => goalCall[c].read \in GoalList

\* Those who stand in line are the ones with a flush to come, each once, and only the
\* first has its turn.
GoalLine ==
  /\ \A i, j \in DOMAIN chain : chain[i] = chain[j] => i = j
  /\ \A i \in DOMAIN chain : goalCall[chain[i]].state \in InLine
  /\ \A c \in Goals!GoalCall : goalCall[c].state \in InLine =>
       /\ \E i \in DOMAIN chain : chain[i] = c
       /\ goalCall[c].state # "queued" => chain[1] = c

\* As long as no first load replaced a list: GoalsKept, and what it rests on, that a
\* flush takes its own change along and that nothing was told since a first load read.
GoalsHeld ==
  /\ goals # None => told \cap Goals!Change \subseteq goals
  /\ goalFile # Torn => told \cap Goals!Change \subseteq goalFile
  /\ \A c \in Goals!GoalCall :
       /\ goalCall[c].state \in InLine => c \in goals
       /\ goalCall[c].state = "writing" =>
            told \cap Goals!Change \subseteq goalCall[c].read /\ c \in goalCall[c].read
       /\ goalCall[c].state = "parsing" /\ goals = None /\ goalCall[c].read # Torn =>
            told \cap Goals!Change \subseteq goalCall[c].read

GoalsInv == GoalTypes /\ GoalLine /\ (clobbered \/ GoalsHeld)

LEMMA GoalsAre == ASSUME EdgesAssumption
  PROVE  /\ \A S \in GoalList : S # None /\ S # Torn
         /\ List \cap Goals!Change = {} /\ Goals!Change = CreateCall \cup UpdateCall
         /\ Goals!GoalCall = Goals!Change \cup List /\ {} \in GoalList
  BY DEF EdgesAssumption, Goals!GoalAssumption, GoalList, Goals!Change, Goals!GoalCall

LEMMA GoalsStart == ASSUME EdgesAssumption, Goals!Init PROVE GoalsInv
<1>1. clobbered \in BOOLEAN
  BY DEF Goals!Init
<1>2. chain \in Seq(CreateCall \cup UpdateCall) /\ DOMAIN chain = {}
  BY DEF Goals!Init
<1>3. goalCall \in [Goals!GoalCall -> [state : GoalState, read : GoalList \cup {None, Torn},
                                      goal : Goals!GoalCall]]
  BY GoalsAre DEF Goals!Init, GoalState
<1>4. \A c \in Goals!GoalCall : goalCall[c].state = "new"
  BY DEF Goals!Init
<1> QED
  BY <1>1, <1>2, <1>3, <1>4, GoalsAre DEF Goals!Init, GoalsInv, GoalTypes, GoalLine, GoalsHeld,
    InLine, GoalState

LEMMA GoalCallIs ==
  ASSUME GoalTypes, NEW c \in Goals!GoalCall
  PROVE  /\ goalCall[c].state \in GoalState /\ goalCall[c].read \in GoalList \cup {None, Torn}
         /\ goalCall[c].goal \in Goals!GoalCall
         /\ goalCall[c] = [state |-> goalCall[c].state, read |-> goalCall[c].read,
                           goal |-> goalCall[c].goal]
<1>1. goalCall[c] \in [state : GoalState, read : GoalList \cup {None, Torn}, goal : Goals!GoalCall]
  BY DEF GoalTypes
<1> QED
  BY <1>1

\* What every step gives the call it is a step of.
GoalCallNow(c, s, r, g) ==
  /\ goalCall' \in [Goals!GoalCall -> [state : GoalState, read : GoalList \cup {None, Torn},
                                      goal : Goals!GoalCall]]
  /\ goalCall'[c].state = s /\ goalCall'[c].read = r /\ goalCall'[c].goal = g
  /\ \A d \in Goals!GoalCall : d # c => goalCall'[d] = goalCall[d]

LEMMA GoalCallSet ==
  ASSUME GoalTypes, NEW c \in Goals!GoalCall, NEW x,
         x \in [state : GoalState, read : GoalList \cup {None, Torn}, goal : Goals!GoalCall],
         goalCall' = [goalCall EXCEPT ![c] = x]
  PROVE  GoalCallNow(c, x.state, x.read, x.goal)
BY DEF GoalTypes, GoalCallNow

LEMMA GoalCallChanges ==
  ASSUME EdgesAssumption, GoalsInv, NEW c \in Goals!GoalCall
  PROVE
    /\ \A g \in CreateCall \cup {c} : Goals!Begin(c, g) =>
         GoalCallNow(c, IF goals = None THEN "reading" ELSE "loaded", goalCall[c].read, g)
    /\ Goals!Read(c) => GoalCallNow(c, "parsing", goalFile, goalCall[c].goal)
    /\ Goals!Load(c) /\ goalCall[c].read = Torn => GoalCallNow(c, "failed", {}, c)
    /\ Goals!Load(c) /\ goalCall[c].read # Torn => GoalCallNow(c, "loaded", {}, goalCall[c].goal)
    /\ Goals!ListGoals(c) => GoalCallNow(c, "done", {}, c)
    /\ Goals!Enqueue(c) => GoalCallNow(c, "queued", goalCall[c].read, goalCall[c].goal)
    /\ Goals!NotFound(c) => GoalCallNow(c, "failed", {}, c)
    /\ Goals!MakeDir(c) => GoalCallNow(c, "mkdir", goalCall[c].read, goalCall[c].goal)
    /\ Goals!Truncate(c) => GoalCallNow(c, "writing", goals, goalCall[c].goal)
    /\ Goals!Write(c) => GoalCallNow(c, "done", {}, c)
    /\ Goals!FlushFails(c) => GoalCallNow(c, "failed", {}, c)
<1> GoalTypes
  BY DEF GoalsInv
<1>0. goals \in GoalList \cup {None, Torn} /\ goalFile \in GoalList \cup {None, Torn}
  BY DEF GoalTypes
<1>y. goalCall[c] \in [state : GoalState, read : GoalList \cup {None, Torn}, goal : Goals!GoalCall]
  BY DEF GoalTypes
<1>1. ASSUME NEW g \in CreateCall \cup {c}, Goals!Begin(c, g)
      PROVE GoalCallNow(c, IF goals = None THEN "reading" ELSE "loaded", goalCall[c].read, g)
  <2> DEFINE next == IF goals = None THEN "reading" ELSE "loaded"
  <2>1. next \in GoalState
    BY DEF GoalState
  <2>2. g \in Goals!GoalCall
    BY GoalsAre
  <2> DEFINE x == [goalCall[c] EXCEPT !.state = next, !.goal = g]
  <2>3. goalCall' = [goalCall EXCEPT ![c] = x]
    BY <1>1 DEF Goals!Begin
  <2> HIDE DEF next
  <2>4. /\ x \in [state : GoalState, read : GoalList \cup {None, Torn}, goal : Goals!GoalCall]
        /\ x.state = next /\ x.read = goalCall[c].read /\ x.goal = g
    BY <2>1, <2>2, <1>y
  <2> HIDE DEF x
  <2>5. GoalCallNow(c, next, goalCall[c].read, g)
    BY <2>3, <2>4, GoalCallSet
  <2> QED BY <2>5 DEF next
<1>2. ASSUME Goals!Read(c) PROVE GoalCallNow(c, "parsing", goalFile, goalCall[c].goal)
  <2> DEFINE x == [goalCall[c] EXCEPT !.state = "parsing", !.read = goalFile]
  <2>1. goalCall' = [goalCall EXCEPT ![c] = x]
    BY <1>2 DEF Goals!Read, Goals!To, Goals!End
  <2>2. "parsing" \in GoalState /\ goalFile \in GoalList \cup {None, Torn} /\ goalCall[c].goal \in Goals!GoalCall
    BY <1>0, GoalsAre, GoalCallIs DEF GoalState
  <2>3. /\ x \in [state : GoalState, read : GoalList \cup {None, Torn}, goal : Goals!GoalCall]
        /\ x.state = "parsing" /\ x.read = goalFile /\ x.goal = goalCall[c].goal
    BY <2>2, <1>y
  <2> HIDE DEF x
  <2> QED BY <2>1, <2>3, GoalCallSet
<1>3. ASSUME Goals!Load(c) /\ goalCall[c].read = Torn PROVE GoalCallNow(c, "failed", {}, c)
  <2> DEFINE x == [state |-> "failed", read |-> {}, goal |-> c]
  <2>1. goalCall' = [goalCall EXCEPT ![c] = x]
    BY <1>3 DEF Goals!Load, Goals!To, Goals!End
  <2>2. "failed" \in GoalState /\ {} \in GoalList \cup {None, Torn} /\ c \in Goals!GoalCall
    BY <1>0, GoalsAre, GoalCallIs DEF GoalState
  <2>3. /\ x \in [state : GoalState, read : GoalList \cup {None, Torn}, goal : Goals!GoalCall]
        /\ x.state = "failed" /\ x.read = {} /\ x.goal = c
    BY <2>2, <1>y
  <2> HIDE DEF x
  <2> QED BY <2>1, <2>3, GoalCallSet
<1>4. ASSUME Goals!Load(c) /\ goalCall[c].read # Torn PROVE GoalCallNow(c, "loaded", {}, goalCall[c].goal)
  <2> DEFINE x == [goalCall[c] EXCEPT !.state = "loaded", !.read = {}]
  <2>1. goalCall' = [goalCall EXCEPT ![c] = x]
    BY <1>4 DEF Goals!Load, Goals!To, Goals!End
  <2>2. "loaded" \in GoalState /\ {} \in GoalList \cup {None, Torn} /\ goalCall[c].goal \in Goals!GoalCall
    BY <1>0, GoalsAre, GoalCallIs DEF GoalState
  <2>3. /\ x \in [state : GoalState, read : GoalList \cup {None, Torn}, goal : Goals!GoalCall]
        /\ x.state = "loaded" /\ x.read = {} /\ x.goal = goalCall[c].goal
    BY <2>2, <1>y
  <2> HIDE DEF x
  <2> QED BY <2>1, <2>3, GoalCallSet
<1>5. ASSUME Goals!ListGoals(c) PROVE GoalCallNow(c, "done", {}, c)
  <2> DEFINE x == [state |-> "done", read |-> {}, goal |-> c]
  <2>1. goalCall' = [goalCall EXCEPT ![c] = x]
    BY <1>5 DEF Goals!ListGoals, Goals!To, Goals!End
  <2>2. "done" \in GoalState /\ {} \in GoalList \cup {None, Torn} /\ c \in Goals!GoalCall
    BY <1>0, GoalsAre, GoalCallIs DEF GoalState
  <2>3. /\ x \in [state : GoalState, read : GoalList \cup {None, Torn}, goal : Goals!GoalCall]
        /\ x.state = "done" /\ x.read = {} /\ x.goal = c
    BY <2>2, <1>y
  <2> HIDE DEF x
  <2> QED BY <2>1, <2>3, GoalCallSet
<1>6. ASSUME Goals!Enqueue(c) PROVE GoalCallNow(c, "queued", goalCall[c].read, goalCall[c].goal)
  <2> DEFINE x == [goalCall[c] EXCEPT !.state = "queued"]
  <2>1. goalCall' = [goalCall EXCEPT ![c] = x]
    BY <1>6 DEF Goals!Enqueue, Goals!To, Goals!End
  <2>2. "queued" \in GoalState /\ goalCall[c].read \in GoalList \cup {None, Torn} /\ goalCall[c].goal \in Goals!GoalCall
    BY <1>0, GoalsAre, GoalCallIs DEF GoalState
  <2>3. /\ x \in [state : GoalState, read : GoalList \cup {None, Torn}, goal : Goals!GoalCall]
        /\ x.state = "queued" /\ x.read = goalCall[c].read /\ x.goal = goalCall[c].goal
    BY <2>2, <1>y
  <2> HIDE DEF x
  <2> QED BY <2>1, <2>3, GoalCallSet
<1>7. ASSUME Goals!NotFound(c) PROVE GoalCallNow(c, "failed", {}, c)
  <2> DEFINE x == [state |-> "failed", read |-> {}, goal |-> c]
  <2>1. goalCall' = [goalCall EXCEPT ![c] = x]
    BY <1>7 DEF Goals!NotFound, Goals!To, Goals!End
  <2>2. "failed" \in GoalState /\ {} \in GoalList \cup {None, Torn} /\ c \in Goals!GoalCall
    BY <1>0, GoalsAre, GoalCallIs DEF GoalState
  <2>3. /\ x \in [state : GoalState, read : GoalList \cup {None, Torn}, goal : Goals!GoalCall]
        /\ x.state = "failed" /\ x.read = {} /\ x.goal = c
    BY <2>2, <1>y
  <2> HIDE DEF x
  <2> QED BY <2>1, <2>3, GoalCallSet
<1>8. ASSUME Goals!MakeDir(c) PROVE GoalCallNow(c, "mkdir", goalCall[c].read, goalCall[c].goal)
  <2> DEFINE x == [goalCall[c] EXCEPT !.state = "mkdir"]
  <2>1. goalCall' = [goalCall EXCEPT ![c] = x]
    BY <1>8 DEF Goals!MakeDir, Goals!To, Goals!End
  <2>2. "mkdir" \in GoalState /\ goalCall[c].read \in GoalList \cup {None, Torn} /\ goalCall[c].goal \in Goals!GoalCall
    BY <1>0, GoalsAre, GoalCallIs DEF GoalState
  <2>3. /\ x \in [state : GoalState, read : GoalList \cup {None, Torn}, goal : Goals!GoalCall]
        /\ x.state = "mkdir" /\ x.read = goalCall[c].read /\ x.goal = goalCall[c].goal
    BY <2>2, <1>y
  <2> HIDE DEF x
  <2> QED BY <2>1, <2>3, GoalCallSet
<1>9. ASSUME Goals!Truncate(c) PROVE GoalCallNow(c, "writing", goals, goalCall[c].goal)
  <2> DEFINE x == [goalCall[c] EXCEPT !.state = "writing", !.read = goals]
  <2>1. goalCall' = [goalCall EXCEPT ![c] = x]
    BY <1>9 DEF Goals!Truncate, Goals!To, Goals!End
  <2>2. "writing" \in GoalState /\ goals \in GoalList \cup {None, Torn} /\ goalCall[c].goal \in Goals!GoalCall
    BY <1>0, GoalsAre, GoalCallIs DEF GoalState
  <2>3. /\ x \in [state : GoalState, read : GoalList \cup {None, Torn}, goal : Goals!GoalCall]
        /\ x.state = "writing" /\ x.read = goals /\ x.goal = goalCall[c].goal
    BY <2>2, <1>y
  <2> HIDE DEF x
  <2> QED BY <2>1, <2>3, GoalCallSet
<1>10. ASSUME Goals!Write(c) PROVE GoalCallNow(c, "done", {}, c)
  <2> DEFINE x == [state |-> "done", read |-> {}, goal |-> c]
  <2>1. goalCall' = [goalCall EXCEPT ![c] = x]
    BY <1>10 DEF Goals!Write, Goals!To, Goals!End
  <2>2. "done" \in GoalState /\ {} \in GoalList \cup {None, Torn} /\ c \in Goals!GoalCall
    BY <1>0, GoalsAre, GoalCallIs DEF GoalState
  <2>3. /\ x \in [state : GoalState, read : GoalList \cup {None, Torn}, goal : Goals!GoalCall]
        /\ x.state = "done" /\ x.read = {} /\ x.goal = c
    BY <2>2, <1>y
  <2> HIDE DEF x
  <2> QED BY <2>1, <2>3, GoalCallSet
<1>11. ASSUME Goals!FlushFails(c) PROVE GoalCallNow(c, "failed", {}, c)
  <2> DEFINE x == [state |-> "failed", read |-> {}, goal |-> c]
  <2>1. goalCall' = [goalCall EXCEPT ![c] = x]
    BY <1>11 DEF Goals!FlushFails, Goals!To, Goals!End
  <2>2. "failed" \in GoalState /\ {} \in GoalList \cup {None, Torn} /\ c \in Goals!GoalCall
    BY <1>0, GoalsAre, GoalCallIs DEF GoalState
  <2>3. /\ x \in [state : GoalState, read : GoalList \cup {None, Torn}, goal : Goals!GoalCall]
        /\ x.state = "failed" /\ x.read = {} /\ x.goal = c
    BY <2>2, <1>y
  <2> HIDE DEF x
  <2> QED BY <2>1, <2>3, GoalCallSet
<1> QED BY <1>1, <1>2, <1>3, <1>4, <1>5, <1>6, <1>7, <1>8, <1>9, <1>10, <1>11
\* The flush that had its turn leaves the line.
LEMMA LineMoves ==
  ASSUME GoalLine, NEW c \in Goals!GoalCall, chain \in Seq(Goals!Change), chain[1] = c,
         Len(chain) > 0, chain' \in Seq(Goals!Change), Len(chain') = Len(chain) - 1,
         \A i \in 1..Len(chain') : chain'[i] = chain[i + 1],
         goalCall'[c].state \notin InLine,
         \A d \in Goals!GoalCall : d # c => goalCall'[d] = goalCall[d]
  PROVE  GoalLine'
<1>1. DOMAIN chain = 1..Len(chain) /\ DOMAIN chain' = 1..Len(chain')
  OBVIOUS
<1>2. ASSUME NEW i \in DOMAIN chain', NEW j \in DOMAIN chain', chain'[i] = chain'[j] PROVE i = j
  <2>1. i + 1 \in DOMAIN chain /\ j + 1 \in DOMAIN chain /\ chain[i + 1] = chain[j + 1]
    BY <1>1, <1>2
  <2>2. i + 1 = j + 1
    BY <2>1 DEF GoalLine
  <2> QED BY <1>1, <2>2
<1>3. ASSUME NEW i \in DOMAIN chain' PROVE chain'[i] # c /\ chain'[i] \in Goals!GoalCall
  <2>1. i + 1 \in DOMAIN chain /\ 1 \in DOMAIN chain /\ i + 1 # 1 /\ chain'[i] = chain[i + 1]
    BY <1>1
  <2>2. chain'[i] # c
    BY <2>1 DEF GoalLine
  <2>3. chain'[i] \in Goals!Change
    OBVIOUS
  <2> QED BY <2>2, <2>3 DEF Goals!GoalCall, Goals!Change
<1>4. \A i \in DOMAIN chain' : goalCall'[chain'[i]].state \in InLine
  <2> TAKE i \in DOMAIN chain'
  <2>1. i + 1 \in DOMAIN chain /\ chain'[i] = chain[i + 1]
    BY <1>1
  <2>2. goalCall[chain[i + 1]].state \in InLine
    BY <2>1 DEF GoalLine
  <2> QED BY <1>3, <2>1, <2>2
<1>5. ASSUME NEW d \in Goals!GoalCall, goalCall'[d].state \in InLine
      PROVE  (\E i \in DOMAIN chain' : chain'[i] = d) /\ goalCall'[d].state = "queued"
  <2>1. d # c /\ goalCall'[d] = goalCall[d]
    BY <1>5
  <2>2. PICK i \in DOMAIN chain : chain[i] = d
    BY <1>5, <2>1 DEF GoalLine
  <2>3. i - 1 \in DOMAIN chain' /\ chain'[i - 1] = d
    BY <1>1, <2>1, <2>2
  <2>4. goalCall[d].state = "queued"
    BY <1>5, <2>1 DEF GoalLine
  <2> QED BY <2>1, <2>3, <2>4
<1> QED BY <1>2, <1>4, <1>5 DEF GoalLine

LEMMA LineStays ==
  ASSUME GoalLine, NEW c \in Goals!GoalCall, chain' = chain, chain \in Seq(Goals!Change),
         goalCall[c].state \in InLine, goalCall'[c].state \in InLine, chain[1] = c,
         \A d \in Goals!GoalCall : d # c => goalCall'[d] = goalCall[d]
  PROVE  GoalLine'
<1>1. \A i \in DOMAIN chain : chain[i] \in Goals!GoalCall
  BY DEF Goals!GoalCall, Goals!Change
<1>2. \A i \in DOMAIN chain : goalCall'[chain[i]].state \in InLine
  BY <1>1 DEF GoalLine
<1> QED BY <1>1, <1>2 DEF GoalLine

LEMMA LineGrows ==
  ASSUME GoalLine, NEW c \in Goals!Change, chain \in Seq(Goals!Change),
         goalCall[c].state \notin InLine, goalCall'[c].state = "queued",
         chain' \in Seq(Goals!Change), Len(chain') = Len(chain) + 1,
         chain'[Len(chain) + 1] = c, \A i \in 1..Len(chain) : chain'[i] = chain[i],
         \A d \in Goals!GoalCall : d # c => goalCall'[d] = goalCall[d]
  PROVE  GoalLine'
<1>1. DOMAIN chain = 1..Len(chain) /\ DOMAIN chain' = 1..(Len(chain) + 1) /\ Len(chain) \in Nat
  OBVIOUS
<1>2. \A i \in DOMAIN chain : chain[i] # c /\ chain[i] \in Goals!GoalCall
  BY DEF GoalLine, Goals!GoalCall, Goals!Change
<1>3. \A i, j \in DOMAIN chain' : chain'[i] = chain'[j] => i = j
  BY <1>1, <1>2 DEF GoalLine
<1>4. \A i \in DOMAIN chain' : goalCall'[chain'[i]].state \in InLine
  BY <1>1, <1>2 DEF GoalLine, InLine
<1>5. ASSUME NEW d \in Goals!GoalCall, goalCall'[d].state \in InLine
      PROVE  /\ \E i \in DOMAIN chain' : chain'[i] = d
             /\ goalCall'[d].state # "queued" => chain'[1] = d
  <2>1. CASE d = c
    BY <1>1, <2>1
  <2>2. CASE d # c
    <3>1. goalCall'[d] = goalCall[d]
      BY <2>2
    <3>2. PICK i \in DOMAIN chain : chain[i] = d
      BY <1>5, <3>1 DEF GoalLine
    <3>3. i \in DOMAIN chain' /\ chain'[i] = d /\ chain'[1] = chain[1]
      BY <1>1, <3>2
    <3> QED BY <1>5, <3>1, <3>3 DEF GoalLine
  <2> QED BY <2>1, <2>2
<1> QED BY <1>3, <1>4, <1>5 DEF GoalLine

LEMMA GoalsKeep ==
  ASSUME EdgesAssumption, GoalsInv, NEW c \in Goals!GoalCall,
         \/ \E g \in CreateCall \cup {c} : Goals!Begin(c, g)
         \/ Goals!Read(c) \/ Goals!Load(c) \/ Goals!ListGoals(c) \/ Goals!Enqueue(c)
         \/ Goals!NotFound(c) \/ Goals!MakeDir(c) \/ Goals!Truncate(c) \/ Goals!Write(c)
         \/ Goals!FlushFails(c)
  PROVE  GoalsInv'
<1> USE GoalsAre, GoalCallIs DEF GoalState, InLine
<1>0. GoalTypes /\ GoalLine /\ (clobbered \/ GoalsHeld)
  BY DEF GoalsInv
<1>n. chain \in Seq(Goals!Change) /\ clobbered \in BOOLEAN
  BY <1>0 DEF GoalTypes
<1>1. CASE \E g \in CreateCall \cup {c} : Goals!Begin(c, g)
  <2> PICK g \in CreateCall \cup {c} : Goals!Begin(c, g)
    BY <1>1
  <2>1. GoalCallNow(c, IF goals = None THEN "reading" ELSE "loaded", goalCall[c].read, g)
    BY GoalCallChanges
  <2>2. goalCall[c].state = "new" /\ UNCHANGED <<goals, goalFile, chain, told, clobbered>>
    BY DEF Goals!Begin
  <2>3. GoalTypes'
    BY <1>0, <2>1, <2>2 DEF GoalTypes, GoalCallNow
  <2>4. GoalLine'
    BY <1>0, <1>n, <2>1, <2>2 DEF GoalTypes, GoalLine, GoalCallNow
  <2>5. (clobbered \/ GoalsHeld)'
    BY <1>0, <1>n, <2>1, <2>2 DEF GoalTypes, GoalsHeld, GoalCallNow
  <2> QED BY <2>3, <2>4, <2>5 DEF GoalsInv
<1>2. CASE Goals!Read(c)
  <2>1. GoalCallNow(c, "parsing", goalFile, goalCall[c].goal)
    BY <1>2, GoalCallChanges
  <2>2. goalCall[c].state = "reading" /\ UNCHANGED <<goals, goalFile, chain, told, clobbered>>
    BY <1>2 DEF Goals!Read
  <2>3. GoalTypes'
    BY <1>0, <2>1, <2>2 DEF GoalTypes, GoalCallNow
  <2>4. GoalLine'
    BY <1>0, <1>n, <2>1, <2>2 DEF GoalTypes, GoalLine, GoalCallNow
  <2>5. (clobbered \/ GoalsHeld)'
    <3>1. CASE clobbered
      BY <2>2, <3>1
    <3>2. CASE GoalsHeld
      BY <1>0, <1>n, <2>1, <2>2, <3>2 DEF GoalTypes, GoalsHeld, GoalCallNow
    <3> QED BY <1>0, <3>1, <3>2
  <2> QED BY <2>3, <2>4, <2>5 DEF GoalsInv
<1>3. CASE Goals!ListGoals(c)
  <2>1. GoalCallNow(c, "done", {}, c)
    BY <1>3, GoalCallChanges
  <2>2. /\ goalCall[c].state = "loaded" /\ c \in List
        /\ told' = told \cup {c} /\ UNCHANGED <<goals, goalFile, chain, clobbered>>
    BY <1>3 DEF Goals!ListGoals
  <2>3. GoalTypes'
    BY <1>0, <2>1, <2>2 DEF GoalTypes, GoalCallNow
  <2>4. GoalLine'
    BY <1>0, <1>n, <2>1, <2>2 DEF GoalTypes, GoalLine, GoalCallNow
  <2>5. (clobbered \/ GoalsHeld)'
    BY <1>0, <1>n, <2>1, <2>2 DEF GoalTypes, GoalLine, GoalsHeld, GoalCallNow
  <2> QED BY <2>3, <2>4, <2>5 DEF GoalsInv
<1>4. CASE Goals!Enqueue(c)
  <2>1. GoalCallNow(c, "queued", goalCall[c].read, goalCall[c].goal)
    BY <1>4, GoalCallChanges
  <2>2. /\ goalCall[c].state = "loaded" /\ c \in Goals!Change /\ goals' = goals \cup {c}
        /\ chain' = Append(chain, c) /\ UNCHANGED <<goalFile, told, clobbered>>
    BY <1>4 DEF Goals!Enqueue
  <2>y. /\ chain' \in Seq(Goals!Change) /\ Len(chain') = Len(chain) + 1
        /\ chain'[Len(chain) + 1] = c /\ \A i \in 1..Len(chain) : chain'[i] = chain[i]
    BY <1>n, <2>2
  <2>z. goals \in GoalList /\ goals' \in GoalList
    BY <1>0, <2>2 DEF GoalTypes, GoalList
  <2>3. GoalTypes'
    <3>1. goals' # None
      BY <2>z
    <3>2. \A d \in Goals!GoalCall : goalCall'[d].state = "parsing" => goalCall'[d].read \in GoalList \cup {Torn}
      BY <1>0, <2>1 DEF GoalTypes, GoalCallNow
    <3>3. \A d \in Goals!GoalCall : goalCall'[d].state = "writing" => goalCall'[d].read \in GoalList
      BY <1>0, <2>1 DEF GoalTypes, GoalCallNow
    <3> QED BY <1>0, <2>1, <2>2, <2>y, <2>z, <3>1, <3>2, <3>3 DEF GoalTypes, GoalCallNow
  <2>4. GoalLine'
    BY <1>0, <1>n, <2>1, <2>2, <2>y, LineGrows DEF GoalCallNow
  <2>5. (clobbered \/ GoalsHeld)'
    <3>1. goals # None /\ goals' # None /\ c \in goals'
      BY <2>2, <2>z
    <3>2. \A d \in Goals!GoalCall : d # c => goalCall'[d] = goalCall[d]
      BY <2>1 DEF GoalCallNow
    <3>3. goalCall'[c].state = "queued"
      BY <2>1 DEF GoalCallNow
    <3> QED BY <1>0, <2>2, <3>1, <3>2, <3>3 DEF GoalsHeld
  <2> QED BY <2>3, <2>4, <2>5 DEF GoalsInv
<1>5. CASE Goals!NotFound(c)
  <2>1. GoalCallNow(c, "failed", {}, c)
    BY <1>5, GoalCallChanges
  <2>2. goalCall[c].state = "loaded" /\ UNCHANGED <<goals, goalFile, chain, told, clobbered>>
    BY <1>5 DEF Goals!NotFound
  <2>3. GoalTypes'
    BY <1>0, <2>1, <2>2 DEF GoalTypes, GoalCallNow
  <2>4. GoalLine'
    <3>1. \A d \in Goals!GoalCall : d # c => goalCall'[d] = goalCall[d]
      BY <2>1 DEF GoalCallNow
    <3>2. goalCall'[c].state = "failed"
      BY <2>1 DEF GoalCallNow
    <3>3. \A i \in DOMAIN chain : chain[i] # c /\ chain[i] \in Goals!GoalCall
      BY <1>0, <1>n, <2>2 DEF GoalLine
    <3> QED BY <1>0, <2>2, <3>1, <3>2, <3>3 DEF GoalLine
  <2>5. (clobbered \/ GoalsHeld)'
    BY <1>0, <1>n, <2>1, <2>2 DEF GoalTypes, GoalLine, GoalsHeld, GoalCallNow
  <2> QED BY <2>3, <2>4, <2>5 DEF GoalsInv
<1>6. CASE Goals!MakeDir(c)
  <2>1. GoalCallNow(c, "mkdir", goalCall[c].read, goalCall[c].goal)
    BY <1>6, GoalCallChanges
  <2>2. /\ goalCall[c].state = "queued" /\ Head(chain) = c
        /\ UNCHANGED <<goals, goalFile, chain, told, clobbered>>
    BY <1>6 DEF Goals!MakeDir
  <2>x. Len(chain) > 0 /\ chain[1] = c
    BY <1>0, <1>n, <2>2 DEF GoalLine
  <2>3. GoalTypes'
    BY <1>0, <2>1, <2>2, <2>x DEF GoalTypes, GoalCallNow
  <2>4. GoalLine'
    BY <1>0, <1>n, <2>1, <2>2, <2>x, LineStays DEF GoalCallNow
  <2>5. (clobbered \/ GoalsHeld)'
    BY <1>0, <1>n, <2>1, <2>2, <2>x DEF GoalTypes, GoalLine, GoalsHeld, GoalCallNow
  <2> QED BY <2>3, <2>4, <2>5 DEF GoalsInv
<1>7. CASE Goals!Truncate(c)
  <2>1. GoalCallNow(c, "writing", goals, goalCall[c].goal)
    BY <1>7, GoalCallChanges
  <2>2. /\ goalCall[c].state = "mkdir" /\ goalFile' = Torn
        /\ UNCHANGED <<goals, chain, told, clobbered>>
    BY <1>7 DEF Goals!Truncate
  <2>3. GoalTypes'
    BY <1>0, <2>1, <2>2 DEF GoalTypes, GoalCallNow
  <2>x. chain[1] = c
    BY <1>0, <2>2 DEF GoalLine
  <2>4. GoalLine'
    BY <1>0, <1>n, <2>1, <2>2, <2>x, LineStays DEF GoalCallNow
  <2>5. (clobbered \/ GoalsHeld)'
    BY <1>0, <1>n, <2>1, <2>2 DEF GoalTypes, GoalLine, GoalsHeld, GoalCallNow
  <2> QED BY <2>3, <2>4, <2>5 DEF GoalsInv
<1>8. CASE Goals!Write(c)
  <2>1. GoalCallNow(c, "done", {}, c)
    BY <1>8, GoalCallChanges
  <2>2. /\ goalCall[c].state = "writing" /\ goalFile' = goalCall[c].read
        /\ chain' = Tail(chain) /\ told' = told \cup {c} /\ UNCHANGED <<goals, clobbered>>
    BY <1>8 DEF Goals!Write, Goals!Leave
  <2>x. Len(chain) > 0 /\ chain[1] = c
    BY <1>0, <1>n, <2>2 DEF GoalLine
  <2>y. /\ chain' \in Seq(Goals!Change) /\ Len(chain') = Len(chain) - 1
        /\ \A i \in 1..Len(chain') : chain'[i] = chain[i + 1]
    BY <1>n, <2>2, <2>x
  <2>3. GoalTypes'
    BY <1>0, <2>1, <2>2, <2>x, <2>y DEF GoalTypes, GoalCallNow
  <2>4. GoalLine'
    BY <1>0, <1>n, <2>1, <2>2, <2>x, <2>y, LineMoves DEF GoalCallNow
  <2>5. (clobbered \/ GoalsHeld)'
    BY <1>0, <1>n, <2>1, <2>2, <2>x, <2>y DEF GoalTypes, GoalLine, GoalsHeld, GoalCallNow
  <2> QED BY <2>3, <2>4, <2>5 DEF GoalsInv
<1>9. CASE Goals!FlushFails(c)
  <2>1. GoalCallNow(c, "failed", {}, c)
    BY <1>9, GoalCallChanges
  <2>2. /\ goalCall[c].state \in {"mkdir", "writing"} /\ chain' = Tail(chain)
        /\ UNCHANGED <<goals, goalFile, told, clobbered>>
    BY <1>9 DEF Goals!FlushFails, Goals!Leave
  <2>x. Len(chain) > 0 /\ chain[1] = c
    BY <1>0, <1>n, <2>2 DEF GoalLine
  <2>y. /\ chain' \in Seq(Goals!Change) /\ Len(chain') = Len(chain) - 1
        /\ \A i \in 1..Len(chain') : chain'[i] = chain[i + 1]
    BY <1>n, <2>2, <2>x
  <2>3. GoalTypes'
    BY <1>0, <2>1, <2>2, <2>x, <2>y DEF GoalTypes, GoalCallNow
  <2>4. GoalLine'
    BY <1>0, <1>n, <2>1, <2>2, <2>x, <2>y, LineMoves DEF GoalCallNow
  <2>5. (clobbered \/ GoalsHeld)'
    BY <1>0, <1>n, <2>1, <2>2, <2>x, <2>y DEF GoalTypes, GoalLine, GoalsHeld, GoalCallNow
  <2> QED BY <2>3, <2>4, <2>5 DEF GoalsInv
<1>10. CASE Goals!Load(c) /\ goalCall[c].read = Torn
  <2>1. GoalCallNow(c, "failed", {}, c)
    BY <1>10, GoalCallChanges
  <2>2. goalCall[c].state = "parsing" /\ UNCHANGED <<goals, goalFile, chain, told, clobbered>>
    BY <1>10 DEF Goals!Load
  <2>3. GoalTypes'
    BY <1>0, <2>1, <2>2 DEF GoalTypes, GoalCallNow
  <2>4. GoalLine'
    BY <1>0, <1>n, <2>1, <2>2 DEF GoalTypes, GoalLine, GoalCallNow
  <2>5. (clobbered \/ GoalsHeld)'
    BY <1>0, <1>n, <2>1, <2>2 DEF GoalTypes, GoalsHeld, GoalCallNow
  <2> QED BY <2>3, <2>4, <2>5 DEF GoalsInv
<1>11. CASE Goals!Load(c) /\ goalCall[c].read # Torn
  <2>1. GoalCallNow(c, "loaded", {}, goalCall[c].goal)
    BY <1>11, GoalCallChanges
  <2>2. /\ goalCall[c].state = "parsing" /\ goals' = goalCall[c].read
        /\ UNCHANGED <<goalFile, chain, told>>
    BY <1>11 DEF Goals!Load
  <2>x. clobbered' = (clobbered \/ goals # None)
    BY <1>11 DEF Goals!Load
  <2>y. clobbered' \in BOOLEAN /\ goalCall[c].read \in GoalList
    BY <1>0, <1>11, <2>2, <2>x DEF GoalTypes
  <2>3. GoalTypes'
    BY <1>0, <2>1, <2>2, <2>y DEF GoalTypes, GoalCallNow
  <2>4. GoalLine'
    <3>1. \A d \in Goals!GoalCall : d # c => goalCall'[d] = goalCall[d]
      BY <2>1 DEF GoalCallNow
    <3>2. goalCall'[c].state = "loaded"
      BY <2>1 DEF GoalCallNow
    <3>3. \A i \in DOMAIN chain : chain[i] # c /\ chain[i] \in Goals!GoalCall
      BY <1>0, <1>n, <2>2 DEF GoalLine
    <3> QED BY <1>0, <2>2, <3>1, <3>2, <3>3 DEF GoalLine
  <2>5. ASSUME ~clobbered' PROVE GoalsHeld'
    <3>1. goals = None /\ GoalsHeld
      BY <1>0, <2>5, <2>x
    <3>2. \A d \in Goals!GoalCall : goalCall[d].state \notin {"loaded", "queued", "mkdir", "writing"}
      BY <1>0, <3>1 DEF GoalTypes
    <3> QED BY <1>0, <1>11, <2>1, <2>2, <2>y, <3>1, <3>2 DEF GoalsHeld, GoalCallNow
  <2> QED BY <2>3, <2>4, <2>5 DEF GoalsInv
<1> QED BY <1>1, <1>2, <1>3, <1>4, <1>5, <1>6, <1>7, <1>8, <1>9, <1>10, <1>11

LEMMA GoalsRestart == ASSUME EdgesAssumption, GoalsInv, Goals!Restart PROVE GoalsInv'
<1> USE GoalsAre, GoalCallIs DEF GoalState, InLine
<1>0. GoalTypes /\ GoalLine /\ (clobbered \/ GoalsHeld)
  BY DEF GoalsInv
<1>1. goals' = None /\ chain' = <<>> /\ UNCHANGED <<goalFile, told, clobbered>>
  BY DEF Goals!Restart
<1>2. \A c \in Goals!GoalCall :
        /\ goalCall'[c] = goalCall[c] \/ goalCall'[c] = [state |-> "failed", read |-> {}, goal |-> c]
        /\ goalCall'[c].state \in {"new", "done", "failed"}
  BY <1>0 DEF Goals!Restart, GoalTypes
<1>3. goalCall' \in [Goals!GoalCall -> [state : GoalState, read : GoalList \cup {None, Torn},
                                      goal : Goals!GoalCall]]
  BY <1>0 DEF Goals!Restart, GoalTypes
<1>4. chain' \in Seq(CreateCall \cup UpdateCall) /\ DOMAIN chain' = {}
  BY <1>1
<1>5. GoalTypes'
  BY <1>0, <1>1, <1>2, <1>3, <1>4 DEF GoalTypes
<1>6. GoalLine'
  BY <1>1, <1>2, <1>4 DEF GoalLine
<1>7. (clobbered \/ GoalsHeld)'
  BY <1>0, <1>1, <1>2 DEF GoalsHeld
<1> QED BY <1>5, <1>6, <1>7 DEF GoalsInv

LEMMA GoalsGoOn == ASSUME EdgesAssumption, GoalsInv, Goals!Next PROVE GoalsInv'
  BY GoalsKeep, GoalsRestart DEF Goals!Next

LEMMA GoalsRest == ASSUME GoalsInv, UNCHANGED goalsVars PROVE GoalsInv'
  BY DEF GoalsInv, GoalTypes, GoalLine, GoalsHeld, goalsVars

LEMMA GoalsAreSafe == ASSUME EdgesAssumption, GoalsInv PROVE Goals!TypeOK /\ Goals!GoalsKept
<1>0. GoalTypes /\ GoalLine /\ (clobbered \/ GoalsHeld)
  BY DEF GoalsInv
<1>1. chain \in Seq(Goals!Change) /\ clobbered \in BOOLEAN
  BY <1>0, GoalsAre DEF GoalTypes
<1>2. Goals!TypeOK
  BY <1>0, <1>1, GoalsAre DEF Goals!TypeOK, GoalTypes, GoalLine, InLine, GoalList
<1>3. Goals!GoalsKept
  BY <1>0, GoalsAre DEF Goals!GoalsKept, GoalsHeld
<1> QED BY <1>2, <1>3

-----------------------------------------------------------------------------
(* The streams of models                                                  *)

CallRecord == [wire : Wire, fragments : 0..MaxChunks]
Role == {"user", "assistant", "tool"}
Answers == Model!CallId \cup {Model!NoId}
ConversationMessage == [role : Role, calls : Seq(Model!PendingCall), answers : Answers]
WireCall == [id : Model!CallId, name : Wire, args : Seq(Model!Fragment)]
WireMessage == [role : Role, calls : Seq(WireCall), answers : Answers]

\* The tool of ts with the name w on the wire, and what was sent of a call's arguments.
ToolNamed(ts, w) ==
  IF \E t \in ts : t.wire = w THEN CHOOSE t \in ts : t.wire = w ELSE [wire |-> w, dotted |-> FALSE]
FragmentsOf(r, i, n) == [m \in 1..n |-> <<<<r, i>>, m>>]

\* What the executor holds of the i-th call c of round r.
HeldFor(adapter, ts, r, i, c) ==
  [id |-> <<r, i>>, name |-> ToolNamed(ts, c.wire),
   args |-> IF adapter = "openai" THEN FragmentsOf(r, i, c.fragments) ELSE <<>>]

\* Types; the flags apart, since arithmetic and Booleans are different provers' business.
ModelFlags == json \in BOOLEAN /\ prefillEmitted \in BOOLEAN
ModelTypes ==
  /\ provider \in {"anthropic", "openai"} /\ tools \subseteq Model!Tool
  /\ streamPhase \in Model!Phase /\ round \in 1..MaxRounds /\ chunks \in 0..MaxChunks
  /\ text \in Seq({"plain", "opened"})

\* The calls of the round: each is of an offered tool, of which none shares its name.
CallsMade ==
  /\ calls \in Seq(CallRecord) /\ Len(calls) <= chunks
  /\ \A i \in 1..Len(calls) : /\ calls[i].fragments <= chunks
                              /\ \E t \in tools : t.wire = calls[i].wire
  /\ streamPhase \in {"idle", "creating"} => calls = <<>>
  /\ streamPhase \notin {"idle", "threw"} \/ calls # <<>> => ~Model!Collision

\* The executor's calls are those of the round, in order; indexToId knows OpenAI's.
CallsHeld ==
  /\ pendingCalls \in Seq(Model!PendingCall) /\ Len(pendingCalls) = Len(calls)
  /\ \A i \in 1..Len(calls) : pendingCalls[i] = HeldFor(provider, tools, round, i, calls[i])
  /\ DOMAIN indexToId = IF provider = "openai" THEN 1..Len(calls) ELSE {}
  /\ \A i \in DOMAIN indexToId : indexToId[i] = <<round, i>>

\* The text so far, of which the first piece opens it in JSON mode.
TextOpened ==
  /\ \A k \in 1..Len(text) : text[k] = IF Model!Prefilled /\ k = 1 THEN "opened" ELSE "plain"
  /\ streamPhase \in {"idle", "creating"} => text = <<>>
  /\ text # <<>> => prefillEmitted
  /\ text = <<>> /\ streamPhase \notin {"idle", "threw"} => (prefillEmitted <=> ~Model!Prefilled)

\* Every call of a conversation is answered at its place, and nothing else is.
Follows(m) ==
  /\ \A k \in 1..Len(m) : \A n \in 1..Len(m[k].calls) :
       k + n \in 1..Len(m) /\ m[k + n].answers = m[k].calls[n].id
  /\ \A k \in 1..Len(m) : m[k].answers # Model!NoId =>
       \E j \in 1..Len(m) : \E n \in 1..Len(m[j].calls) :
         k = j + n /\ m[j].calls[n].id = m[k].answers

ConversationOK ==
  /\ messages \in Seq(ConversationMessage) /\ Follows(messages)
  /\ sent \in Seq(WireMessage) /\ Follows(sent)

ModelInv == ModelFlags /\ ModelTypes /\ CallsMade /\ CallsHeld /\ TextOpened /\ ConversationOK

LEMMA ModelNumbers == ASSUME EdgesAssumption
  PROVE MaxRounds \in Nat /\ MaxRounds >= 1 /\ MaxChunks \in Nat /\ MaxChunks >= 1
<1>1. MaxRounds \in Nat \ {0} /\ MaxChunks \in Nat \ {0}
  BY DEF EdgesAssumption, Model!StreamAssumption
<1> QED BY <1>1

LEMMA ModelAsItIs == ASSUME ModelInv
  PROVE ModelFlags /\ ModelTypes /\ CallsMade /\ CallsHeld /\ TextOpened /\ ConversationOK
  BY DEF ModelInv

\* What is a sequence, of its elements.
LEMMA SequenceOf ==
  ASSUME NEW S, NEW n \in Nat, NEW s \in [1..n -> S] PROVE s \in Seq(S) /\ Len(s) = n
  OBVIOUS

LEMMA SequenceIs == ASSUME NEW S, NEW s \in Seq(S) PROVE s = [i \in 1..Len(s) |-> s[i]]
  OBVIOUS

LEMMA CallFields ==
  ASSUME EdgesAssumption, NEW c \in CallRecord
  PROVE  c.wire \in Wire /\ c.fragments \in 0..MaxChunks /\ c.fragments \in Nat
<1>1. c.wire \in Wire /\ c.fragments \in 0..MaxChunks
  BY DEF CallRecord
<1> QED BY <1>1, ModelNumbers

LEMMA CanonicalIs == \A w : Model!Canonical(w) = ToolNamed(tools, w)
  BY DEF Model!Canonical, ToolNamed

LEMMA IdIs == \A i : Model!Id(i) = <<round, i>>
  BY DEF Model!Id

LEMMA NoIdIsNone == \A r, i : <<r, i>> # Model!NoId
  BY DEF Model!NoId

\* One fragment more.
LEMMA FragmentAdded ==
  ASSUME NEW r, NEW i, NEW n \in Nat
  PROVE  Append(FragmentsOf(r, i, n), <<<<r, i>>, n + 1>>) = FragmentsOf(r, i, n + 1)
<1> DEFINE f == FragmentsOf(r, i, n)
           g == FragmentsOf(r, i, n + 1)
           x == <<<<r, i>>, n + 1>>
<1>1. f = [m \in 1..n |-> f[m]] /\ \A m \in 1..n : f[m] = <<<<r, i>>, m>>
  BY DEF FragmentsOf
<1>2. g = [m \in 1..(n + 1) |-> g[m]] /\ \A m \in 1..(n + 1) : g[m] = <<<<r, i>>, m>>
  BY DEF FragmentsOf
<1> DEFINE S == {<<<<r, i>>, m>> : m \in 1..(n + 1)}
<1>3. \A m \in 1..(n + 1) : <<<<r, i>>, m>> \in S
  OBVIOUS
<1> HIDE DEF f, g, x, S
<1>4. f \in Seq(S) /\ Len(f) = n
  <2>1. \A m \in 1..n : f[m] \in S
    BY <1>1, <1>3
  <2>2. f \in [1..n -> S]
    BY <1>1, <2>1
  <2> QED BY <2>2, SequenceOf
<1>5. g \in Seq(S) /\ Len(g) = n + 1
  <2>1. g \in [1..(n + 1) -> S]
    BY <1>2, <1>3
  <2> QED BY <2>1, SequenceOf
<1>6. x \in S /\ g[n + 1] = x
  BY <1>2, <1>3 DEF x
<1>7. Len(Append(f, x)) = n + 1 /\ Append(f, x) \in Seq(S)
  BY <1>4, <1>6
<1>8. ASSUME NEW m \in 1..(n + 1) PROVE Append(f, x)[m] = g[m]
  <2>1. CASE m = n + 1
    BY <1>4, <1>6, <2>1
  <2>2. CASE m # n + 1
    <3>1. m \in 1..n
      BY <2>2
    <3>2. f[m] = <<<<r, i>>, m>> /\ g[m] = <<<<r, i>>, m>>
      BY <1>1, <1>2, <3>1
    <3> QED BY <1>4, <1>6, <3>1, <3>2
  <2> QED BY <2>1, <2>2
<1>9. Append(f, x) = g
  BY <1>5, <1>7, <1>8
<1> QED BY <1>9 DEF f, g, x

LEMMA NoFragments == \A r, i : FragmentsOf(r, i, 0) = <<>>
<1> SUFFICES ASSUME NEW r, NEW i PROVE FragmentsOf(r, i, 0) = <<>>
  OBVIOUS
<1> DEFINE f == FragmentsOf(r, i, 0)
<1>1. f = [m \in 1..0 |-> f[m]]
  BY DEF FragmentsOf
<1> HIDE DEF f
<1>a. f \in [1..0 -> {}]
  BY <1>1
<1>2. f \in Seq({}) /\ Len(f) = 0
  BY <1>a, SequenceOf
<1> QED BY <1>2 DEF f

LEMMA NameIsTool ==
  ASSUME NEW ts, ts \subseteq Model!Tool, NEW w \in Wire PROVE ToolNamed(ts, w) \in Model!Tool
<1>1. CASE \E t \in ts : t.wire = w
  BY <1>1 DEF ToolNamed
<1>2. CASE ~\E t \in ts : t.wire = w
  BY <1>2 DEF ToolNamed, Model!Tool
<1> QED BY <1>1, <1>2

LEMMA HeldIsCall ==
  ASSUME EdgesAssumption, NEW adapter, NEW ts, ts \subseteq Model!Tool, NEW r \in 1..MaxRounds,
         NEW i \in 1..MaxChunks, NEW c \in CallRecord
  PROVE  HeldFor(adapter, ts, r, i, c) \in Model!PendingCall
<1>1. <<r, i>> \in Model!CallId
  BY DEF Model!CallId
<1>2. c.wire \in Wire /\ c.fragments \in 0..MaxChunks
  BY DEF CallRecord
<1>3. ToolNamed(ts, c.wire) \in Model!Tool
  BY <1>2, NameIsTool
<1> DEFINE f == FragmentsOf(r, i, c.fragments)
<1>4. f \in Seq(Model!Fragment)
  <2>1. f = [m \in 1..c.fragments |-> f[m]] /\ \A m \in 1..c.fragments : f[m] = <<<<r, i>>, m>>
    BY DEF FragmentsOf
  <2>2. c.fragments \in Nat /\ \A m \in 1..c.fragments : m \in 1..MaxChunks
    BY <1>2, ModelNumbers
  <2>3. \A m \in 1..c.fragments : <<<<r, i>>, m>> \in Model!Fragment
    BY <1>1, <2>2 DEF Model!Fragment
  <2> HIDE DEF f
  <2>4. f \in [1..c.fragments -> Model!Fragment]
    BY <2>1, <2>3
  <2> QED BY <2>2, <2>4, SequenceOf
<1> DEFINE args == IF adapter = "openai" THEN f ELSE <<>>
<1>5. args \in Seq(Model!Fragment)
  BY <1>4
<1>6. HeldFor(adapter, ts, r, i, c) = [id |-> <<r, i>>, name |-> ToolNamed(ts, c.wire), args |-> args]
  BY DEF HeldFor
<1> HIDE DEF f, args
<1> QED BY <1>1, <1>3, <1>5, <1>6 DEF Model!PendingCall

LEMMA ModelStart == ASSUME EdgesAssumption, Model!Init PROVE ModelInv
<1>1. /\ calls = <<>> /\ text = <<>> /\ pendingCalls = <<>> /\ streamPhase = "idle"
      /\ DOMAIN indexToId = {} /\ round = 1 /\ chunks = 0
  BY DEF Model!Init
<1>2. ModelFlags
  BY DEF Model!Init, ModelFlags
<1>3. ModelTypes
  BY <1>1, <1>2, ModelNumbers DEF Model!Init, ModelTypes, Model!Phase
<1>4. CallsMade /\ CallsHeld
  BY <1>1 DEF CallsMade, CallsHeld
<1>5. TextOpened
  BY <1>1 DEF TextOpened
<1>6. ConversationOK
  <2> DEFINE u == [role |-> "user", calls |-> <<>>, answers |-> Model!NoId]
  <2>1. messages = <<u>> /\ sent = <<>>
    BY DEF Model!Init, Model!User
  <2>2. u \in ConversationMessage
    BY DEF ConversationMessage, Role, Answers
  <2>3. u.answers = Model!NoId /\ Len(u.calls) = 0
    OBVIOUS
  <2> HIDE DEF u
  <2>4. messages \in Seq(ConversationMessage) /\ Len(messages) = 1 /\ messages[1] = u
    BY <2>1, <2>2
  <2>5. sent \in Seq(WireMessage) /\ Len(sent) = 0
    BY <2>1
  <2>6. Follows(messages)
    BY <2>3, <2>4 DEF Follows
  <2>7. Follows(sent)
    BY <2>5 DEF Follows
  <2> QED BY <2>4, <2>5, <2>6, <2>7 DEF ConversationOK
<1> QED BY <1>2, <1>3, <1>4, <1>5, <1>6 DEF ModelInv

\* The facts of a call that is heard of.
LEMMA CallsAreSo == ASSUME EdgesAssumption, ModelInv
  PROVE  /\ calls \in Seq(CallRecord) /\ Len(calls) \in Nat
         /\ pendingCalls \in Seq(Model!PendingCall) /\ Len(pendingCalls) = Len(calls)
         /\ chunks \in Nat /\ Len(calls) <= chunks /\ chunks <= MaxChunks
         /\ \A i \in 1..Len(calls) :
              /\ calls[i] \in CallRecord /\ calls[i].fragments \in Nat /\ calls[i].fragments <= chunks
              /\ \E t \in tools : t.wire = calls[i].wire
              /\ pendingCalls[i] = HeldFor(provider, tools, round, i, calls[i])
<1>0. ModelTypes /\ CallsMade /\ CallsHeld
  BY ModelAsItIs
<1>1. calls \in Seq(CallRecord) /\ Len(calls) \in Nat /\ Len(calls) <= chunks
  BY <1>0 DEF CallsMade
<1>2. chunks \in Nat /\ chunks <= MaxChunks
  BY <1>0, ModelNumbers DEF ModelTypes
<1>3. \A i \in 1..Len(calls) : calls[i] \in CallRecord
  BY <1>1
<1>4. \A i \in 1..Len(calls) : calls[i].fragments \in Nat
  BY <1>3, CallFields
<1> QED BY <1>0, <1>1, <1>2, <1>3, <1>4 DEF CallsMade, CallsHeld

\* The i-th call is heard of, as the first or once more.
LEMMA CallHeard ==
  ASSUME EdgesAssumption, ModelInv, streamPhase = "streaming", Model!Chunk,
         UNCHANGED <<provider, tools, json, streamPhase, round, text, prefillEmitted, messages, sent>>,
         NEW i \in 1..(Len(calls) + 1), NEW c \in CallRecord, c.fragments <= chunks + 1,
         \E t \in tools : t.wire = c.wire, NEW n \in Nat, n = IF i > Len(calls) THEN i ELSE Len(calls),
         calls' = [j \in 1..n |-> IF j = i THEN c ELSE calls[j]],
         pendingCalls' = [j \in 1..n |-> IF j = i THEN HeldFor(provider, tools, round, i, c)
                                                  ELSE pendingCalls[j]],
         DOMAIN indexToId' = IF provider = "openai" THEN 1..n ELSE {},
         \A j \in DOMAIN indexToId' : indexToId'[j] = <<round, j>>
  PROVE  ModelInv'
<1>0. ModelTypes /\ CallsMade /\ CallsHeld /\ TextOpened /\ ConversationOK
  BY ModelAsItIs
<1>a. chunks < MaxChunks /\ chunks' = chunks + 1
  BY DEF Model!Chunk
<1>1. /\ chunks \in Nat /\ chunks' = chunks + 1 /\ chunks' \in 0..MaxChunks
      /\ Len(calls) \in Nat /\ Len(calls) <= chunks /\ i \in Nat
  BY <1>a, CallsAreSo, ModelNumbers
<1>2. n <= chunks' /\ n >= 1 /\ i \in 1..n /\ \A j \in 1..n : j # i => j \in 1..Len(calls)
  BY <1>1
<1>3. ModelTypes' /\ ModelFlags'
  BY <1>0, <1>1, ModelAsItIs DEF ModelTypes, ModelFlags
<1>4. ASSUME NEW j \in 1..n
      PROVE /\ calls'[j] \in CallRecord /\ calls'[j].fragments <= chunks'
            /\ \E t \in tools : t.wire = calls'[j].wire
  <2>1. CASE j = i
    BY <1>1, <2>1
  <2>2. CASE j # i
    <3>1. j \in 1..Len(calls) /\ calls'[j] = calls[j]
      BY <1>2, <2>2
    <3>2. calls[j] \in CallRecord /\ calls[j].fragments <= chunks
          /\ \E t \in tools : t.wire = calls[j].wire
      BY <1>0, <3>1 DEF CallsMade
    <3>3. calls[j].fragments \in Nat
      BY <3>1, CallsAreSo
    <3> QED BY <1>1, <3>1, <3>2, <3>3
  <2> QED BY <2>1, <2>2
<1>5. calls' \in [1..n -> CallRecord]
  BY <1>4
<1>6. calls' \in Seq(CallRecord) /\ Len(calls') = n
  BY <1>5, SequenceOf
<1>7. ~Model!Collision
  BY <1>0 DEF CallsMade
<1>8. CallsMade'
  BY <1>1, <1>2, <1>4, <1>6, <1>7 DEF CallsMade, Model!Collision
<1>9. ASSUME NEW j \in 1..n PROVE pendingCalls'[j] = HeldFor(provider, tools, round, j, calls'[j])
  <2>1. CASE j = i
    BY <2>1
  <2>2. CASE j # i
    BY <1>0, <1>2, <2>2 DEF CallsHeld
  <2> QED BY <2>1, <2>2
<1>10. ASSUME NEW j \in 1..n PROVE pendingCalls'[j] \in Model!PendingCall
  <2>1. j \in 1..MaxChunks
    BY <1>1, <1>2, ModelNumbers
  <2>2. tools \subseteq Model!Tool /\ round \in 1..MaxRounds
    BY <1>0 DEF ModelTypes
  <2>3. calls'[j] \in CallRecord /\ pendingCalls'[j] = HeldFor(provider, tools, round, j, calls'[j])
    BY <1>4, <1>9
  <2>4. HeldFor(provider, tools, round, j, calls'[j]) \in Model!PendingCall
    BY <2>1, <2>2, <2>3, HeldIsCall
  <2> QED BY <2>3, <2>4
<1>11. pendingCalls' \in [1..n -> Model!PendingCall]
  BY <1>10
<1>12. pendingCalls' \in Seq(Model!PendingCall) /\ Len(pendingCalls') = n
  BY <1>11, SequenceOf
<1>13. CallsHeld'
  BY <1>6, <1>9, <1>12 DEF CallsHeld
<1>14. TextOpened'
  BY <1>0 DEF TextOpened, Model!Prefilled
<1>15. ConversationOK'
  BY <1>0 DEF ConversationOK
<1> QED BY <1>3, <1>8, <1>13, <1>14, <1>15 DEF ModelInv

LEMMA HeldIds == ASSUME EdgesAssumption, ModelInv
  PROVE \A k \in 1..Len(calls) : pendingCalls[k].id = <<round, k>>
<1> SUFFICES ASSUME NEW k \in 1..Len(calls) PROVE pendingCalls[k].id = <<round, k>>
  OBVIOUS
<1>1. pendingCalls[k] = HeldFor(provider, tools, round, k, calls[k])
  BY CallsAreSo
<1> QED BY <1>1 DEF HeldFor

NewCall(t, f) == [wire |-> t.wire, fragments |-> f]
NewEntry(ts, r, m, t) == [id |-> <<r, m>>, name |-> ToolNamed(ts, t.wire), args |-> <<>>]

LEMMA CallAppended ==
  ASSUME EdgesAssumption, ModelInv, NEW c \in CallRecord, NEW m, m = Len(calls) + 1
  PROVE  Append(calls, c) = [j \in 1..m |-> IF j = m THEN c ELSE calls[j]]
<1>1. Len(Append(calls, c)) = m /\ Append(calls, c) \in Seq(CallRecord)
      /\ \A j \in 1..m : Append(calls, c)[j] = IF j = m THEN c ELSE calls[j]
  BY CallsAreSo
<1> DEFINE g == Append(calls, c)
<1>2. g = [j \in 1..m |-> g[j]]
  BY <1>1, SequenceIs
<1>3. \A j \in 1..m : g[j] = IF j = m THEN c ELSE calls[j]
  BY <1>1
<1> HIDE DEF g
<1>4. g = [j \in 1..m |-> IF j = m THEN c ELSE calls[j]]
  BY <1>2, <1>3
<1> QED BY <1>4 DEF g

WithFragment(e, x) == [e EXCEPT !.args = Append(@, x)]

LEMMA CallBegins ==
  ASSUME EdgesAssumption, ModelInv, NEW t \in tools, NEW f \in {0, 1}, chunks < MaxChunks,
         NEW m, m = Len(calls) + 1
  PROVE  /\ NewCall(t, f) \in CallRecord /\ NewCall(t, f).wire = t.wire
         /\ NewCall(t, f).fragments = f /\ f <= chunks + 1
         /\ Append(pendingCalls, NewEntry(tools, round, m, t))
              = [j \in 1..m |-> IF j = m THEN NewEntry(tools, round, m, t) ELSE pendingCalls[j]]
         /\ Model!Started(pendingCalls, <<round, m>>, t.wire)
              = Append(pendingCalls, NewEntry(tools, round, m, t))
         /\ f = 0 => HeldFor(provider, tools, round, m, NewCall(t, f)) = NewEntry(tools, round, m, t)
         /\ provider = "openai" /\ f = 1 =>
              HeldFor(provider, tools, round, m, NewCall(t, f))
                = WithFragment(NewEntry(tools, round, m, t), <<<<round, m>>, 1>>)
<1> DEFINE c == NewCall(t, f)
           e == NewEntry(tools, round, m, t)
<1>0. f \in Nat /\ (f = 0 \/ f = 1)
  OBVIOUS
<1>1. t.wire \in Wire
  BY ModelAsItIs DEF ModelTypes, Model!Tool
<1>2. f \in 0..MaxChunks /\ f <= chunks + 1
  BY <1>0, ModelNumbers, CallsAreSo
<1>3. c \in CallRecord /\ c.fragments = f /\ c.wire = t.wire
  BY <1>1, <1>2 DEF CallRecord, NewCall
<1>a. e.id = <<round, m>> /\ e \in Model!PendingCall
  <2>1. m \in 1..MaxChunks
    BY CallsAreSo, ModelNumbers
  <2>2. round \in 1..MaxRounds /\ tools \subseteq Model!Tool
    BY ModelAsItIs DEF ModelTypes
  <2>3. <<round, m>> \in Model!CallId
    BY <2>1, <2>2 DEF Model!CallId
  <2>4. ToolNamed(tools, t.wire) \in Model!Tool
    BY <1>1, <2>2, NameIsTool
  <2>5. <<>> \in Seq(Model!Fragment)
    OBVIOUS
  <2> QED BY <2>3, <2>4, <2>5 DEF NewEntry, Model!PendingCall
<1> HIDE DEF c, e
<1>5. Append(pendingCalls, e) = [j \in 1..m |-> IF j = m THEN e ELSE pendingCalls[j]]
  <2>1. Len(Append(pendingCalls, e)) = m /\ Append(pendingCalls, e) \in Seq(Model!PendingCall)
        /\ \A j \in 1..m : Append(pendingCalls, e)[j] = IF j = m THEN e ELSE pendingCalls[j]
    BY <1>a, CallsAreSo
  <2> DEFINE g == Append(pendingCalls, e)
  <2>a. g = [j \in 1..m |-> g[j]]
    BY <2>1, SequenceIs
  <2>2. g = [j \in 1..m |-> g[j]] /\ \A j \in 1..m : g[j] = IF j = m THEN e ELSE pendingCalls[j]
    BY <2>1, <2>a
  <2> HIDE DEF g
  <2>3. g = [j \in 1..m |-> IF j = m THEN e ELSE pendingCalls[j]]
    BY <2>2
  <2> QED BY <2>3 DEF g
<1>6. \A k \in DOMAIN pendingCalls : pendingCalls[k].id # <<round, m>>
  <2>1. \A k \in 1..Len(calls) : pendingCalls[k].id = <<round, k>> /\ k # m
    BY CallsAreSo, HeldIds
  <2>2. DOMAIN pendingCalls = 1..Len(calls)
    BY CallsAreSo
  <2> QED BY <2>1, <2>2
<1>7. Model!Started(pendingCalls, <<round, m>>, t.wire) = Append(pendingCalls, e)
  BY <1>6, CanonicalIs DEF Model!Started, NewEntry, e
<1>8. f = 0 => HeldFor(provider, tools, round, m, c) = e
  BY <1>3, NoFragments DEF HeldFor, NewEntry, e
<1>9. ASSUME provider = "openai", f = 1
      PROVE HeldFor(provider, tools, round, m, c) = WithFragment(e, <<<<round, m>>, 1>>)
  <2>1. Append(FragmentsOf(round, m, 0), <<<<round, m>>, 0 + 1>>) = FragmentsOf(round, m, 0 + 1)
    BY FragmentAdded
  <2>a. 0 + 1 = 1
    OBVIOUS
  <2>2. Append(<<>>, <<<<round, m>>, 1>>) = FragmentsOf(round, m, 1)
    BY <2>1, <2>a, NoFragments
  <2> QED BY <1>3, <1>9, <2>2 DEF HeldFor, NewEntry, WithFragment, e
<1> QED BY <1>2, <1>3, <1>5, <1>7, <1>8, <1>9 DEF c, e

LEMMA ModelToolUse ==
  ASSUME EdgesAssumption, ModelInv, NEW t \in tools, Model!ToolUseStart(t) PROVE ModelInv'
<1> DEFINE m == Len(calls) + 1
           c == NewCall(t, 0)
           e == NewEntry(tools, round, m, t)
<1>1. /\ provider = "anthropic" /\ Model!Chunk /\ streamPhase = "streaming" /\ chunks < MaxChunks
      /\ calls' = Append(calls, c) /\ pendingCalls' = Model!Started(pendingCalls, <<round, Len(calls')>>, t.wire)
      /\ UNCHANGED <<provider, tools, json, streamPhase, round, text, prefillEmitted, messages, sent>>
      /\ UNCHANGED indexToId
  BY IdIs DEF Model!ToolUseStart, Model!Chunk, Model!Begun, Model!request, NewCall
<1>2. /\ c \in CallRecord /\ c.fragments = 0 /\ 0 <= chunks + 1 /\ c.wire = t.wire
      /\ Append(calls, c) = [j \in 1..m |-> IF j = m THEN c ELSE calls[j]]
      /\ Append(pendingCalls, e) = [j \in 1..m |-> IF j = m THEN e ELSE pendingCalls[j]]
      /\ Model!Started(pendingCalls, <<round, m>>, t.wire) = Append(pendingCalls, e)
      /\ HeldFor(provider, tools, round, m, c) = e
  <2>1. 0 \in {0, 1} /\ m = Len(calls) + 1
    OBVIOUS
  <2> HIDE DEF m
  <2>2. /\ c \in CallRecord /\ c.fragments = 0 /\ 0 <= chunks + 1 /\ c.wire = t.wire
        /\ Append(pendingCalls, e) = [j \in 1..m |-> IF j = m THEN e ELSE pendingCalls[j]]
        /\ Model!Started(pendingCalls, <<round, m>>, t.wire) = Append(pendingCalls, e)
        /\ HeldFor(provider, tools, round, m, c) = e
    BY <1>1, <2>1, CallBegins
  <2> HIDE DEF c
  <2>3. Append(calls, c) = [j \in 1..m |-> IF j = m THEN c ELSE calls[j]]
    BY <2>1, <2>2, CallAppended
  <2> QED BY <2>2, <2>3
<1>4. m \in 1..(Len(calls) + 1) /\ m \in Nat /\ m = IF m > Len(calls) THEN m ELSE Len(calls)
  BY CallsAreSo
<1>3. Len(calls') = m
  <2> HIDE DEF c
  <2> QED BY <1>1, <1>2, CallsAreSo
<1>5. DOMAIN indexToId' = (IF provider = "openai" THEN 1..m ELSE {})
      /\ \A j \in DOMAIN indexToId' : indexToId'[j] = <<round, j>>
  BY <1>1, ModelAsItIs DEF CallsHeld
<1>6. (\E tt \in tools : tt.wire = c.wire) /\ c.fragments <= chunks + 1
  BY <1>2
<1> HIDE DEF m, c, e
<1>7. /\ calls' = [j \in 1..m |-> IF j = m THEN c ELSE calls[j]]
      /\ pendingCalls' = [j \in 1..m |-> IF j = m THEN HeldFor(provider, tools, round, m, c) ELSE pendingCalls[j]]
  BY <1>1, <1>2, <1>3
<1>8. /\ streamPhase = "streaming" /\ Model!Chunk
      /\ UNCHANGED <<provider, tools, json, streamPhase, round, text, prefillEmitted, messages, sent>>
  BY <1>1
<1>9. c \in CallRecord
  BY <1>2
<1> QED BY <1>4, <1>5, <1>6, <1>7, <1>8, <1>9, CallHeard

LEMMA ModelBegins ==
  ASSUME EdgesAssumption, ModelInv, NEW t \in tools, NEW n \in {0, 1}, Model!ToolCallBegins(t, n)
  PROVE  ModelInv'
<1> DEFINE m == Len(calls) + 1
           c == NewCall(t, n)
           c0 == NewCall(t, 0)
           e == NewEntry(tools, round, m, t)
<1>1. /\ provider = "openai" /\ Model!Chunk /\ streamPhase = "streaming" /\ chunks < MaxChunks
      /\ calls' = [Append(calls, c0) EXCEPT ![m].fragments = n]
      /\ Model!Entry(Len(calls'), <<round, Len(calls')>>, t.wire, n)
      /\ UNCHANGED <<provider, tools, json, streamPhase, round, text, prefillEmitted, messages, sent>>
  BY IdIs DEF Model!ToolCallBegins, Model!Chunk, Model!Begun, Model!request, NewCall
<1>a. m \in Nat /\ m \in 1..m /\ m \in 1..(Len(calls) + 1) /\ m = IF m > Len(calls) THEN m ELSE Len(calls)
  BY CallsAreSo
<1>b. m = Len(calls) + 1
  OBVIOUS
<1>c. 0 \in {0, 1} /\ n \in Nat /\ (n = 0 \/ n = 1)
  OBVIOUS
<1> HIDE DEF m
<1>2. /\ c \in CallRecord /\ c.fragments = n /\ n <= chunks + 1 /\ c.wire = t.wire
      /\ Append(calls, c) = [j \in 1..m |-> IF j = m THEN c ELSE calls[j]]
      /\ Append(pendingCalls, e) = [j \in 1..m |-> IF j = m THEN e ELSE pendingCalls[j]]
      /\ Model!Started(pendingCalls, <<round, m>>, t.wire) = Append(pendingCalls, e)
      /\ n = 0 => HeldFor(provider, tools, round, m, c) = e
      /\ n = 1 => HeldFor(provider, tools, round, m, c) = WithFragment(e, <<<<round, m>>, 1>>)
  <2>1. provider = "openai" /\ chunks < MaxChunks
    BY <1>1
  <2>2. /\ c \in CallRecord /\ c.fragments = n /\ n <= chunks + 1 /\ c.wire = t.wire
    BY <2>1, <1>b, CallBegins
  <2>5. Append(calls, c) = [j \in 1..m |-> IF j = m THEN c ELSE calls[j]]
    <3> HIDE DEF c
    <3> QED BY <2>2, <1>b, CallAppended
  <2>6. /\ Append(pendingCalls, e) = [j \in 1..m |-> IF j = m THEN e ELSE pendingCalls[j]]
        /\ Model!Started(pendingCalls, <<round, m>>, t.wire) = Append(pendingCalls, e)
    BY <2>1, <1>b, CallBegins
  <2>3. n = 0 => HeldFor(provider, tools, round, m, c) = e
    BY <2>1, <1>b, CallBegins
  <2>4. n = 1 => HeldFor(provider, tools, round, m, c) = WithFragment(e, <<<<round, m>>, 1>>)
    BY <2>1, <1>b, CallBegins
  <2> QED BY <2>2, <2>3, <2>4, <2>5, <2>6
<1>3. Append(calls, c0) = [j \in 1..m |-> IF j = m THEN c0 ELSE calls[j]]
  <2>1. c0 \in CallRecord
    BY <1>1, <1>b, <1>c, CallBegins
  <2> HIDE DEF c0
  <2> QED BY <2>1, <1>b, CallAppended
<1>4. calls' = [j \in 1..m |-> IF j = m THEN c ELSE calls[j]]
  <2>1. [c0 EXCEPT !.fragments = n] = c
    BY DEF NewCall
  <2> DEFINE g == Append(calls, c0)
  <2>2. g = [j \in 1..m |-> IF j = m THEN c0 ELSE calls[j]] /\ calls' = [g EXCEPT ![m].fragments = n]
    BY <1>1, <1>3
  <2> HIDE DEF c, c0, g
  <2>3. g[m] = c0 /\ DOMAIN g = 1..m /\ \A j \in 1..m : j # m => g[j] = calls[j]
    BY <1>a, <2>2
  <2>4. calls' = [g EXCEPT ![m] = c]
    BY <2>1, <2>2, <2>3
  <2> QED BY <2>2, <2>3, <2>4
<1> HIDE DEF c, c0, e
<1>5. Len(calls') = m
  <2>1. calls' = Append(calls, c)
    BY <1>2, <1>4
  <2> QED BY <1>2, <1>b, <2>1, CallsAreSo
<1>6. m \notin DOMAIN indexToId /\ DOMAIN indexToId = 1..Len(calls)
      /\ \A j \in DOMAIN indexToId : indexToId[j] = <<round, j>>
  <2>1. DOMAIN indexToId = 1..Len(calls) /\ \A j \in DOMAIN indexToId : indexToId[j] = <<round, j>>
    BY <1>1, ModelAsItIs DEF CallsHeld
  <2> QED BY <1>b, <2>1, CallsAreSo
<1>7. /\ indexToId' = Model!WithIndex(m, <<round, m>>)
      /\ n = 0 => pendingCalls' = Model!Started(pendingCalls, <<round, m>>, t.wire)
      /\ n = 1 => pendingCalls' = Model!Attached(Model!Started(pendingCalls, <<round, m>>, t.wire),
                                    IF m \in DOMAIN indexToId' THEN indexToId'[m] ELSE Model!NoId,
                                    <<<<round, m>>, 1>>)
  BY <1>1, <1>5, <1>6, IdIs, NoIdIsNone DEF Model!Entry
<1>8. DOMAIN indexToId' = 1..m /\ \A j \in 1..m : indexToId'[j] = <<round, j>>
  <2>1. DOMAIN indexToId' = 1..Len(calls) \cup {m}
        /\ \A j \in 1..Len(calls) \cup {m} : indexToId'[j] = IF j = m THEN <<round, m>> ELSE indexToId[j]
    BY <1>6, <1>7 DEF Model!WithIndex
  <2>2. 1..Len(calls) \cup {m} = 1..m
    BY <1>b, CallsAreSo
  <2> QED BY <1>6, <1>a, <2>1, <2>2
<1> DEFINE h == HeldFor(provider, tools, round, m, c)
           x == <<<<round, m>>, 1>>
<1>9. pendingCalls' = [j \in 1..m |-> IF j = m THEN h ELSE pendingCalls[j]]
  <2>1. CASE n = 0
    BY <1>2, <1>7, <2>1
  <2>2. CASE n = 1
    <3> DEFINE p == Append(pendingCalls, e)
    <3>a. m \in DOMAIN indexToId' /\ indexToId'[m] = <<round, m>>
      BY <1>8, <1>a
    <3>1. pendingCalls' = Model!Attached(p, <<round, m>>, x)
      BY <1>2, <1>7, <3>a, <2>2
    <3>2. p = [j \in 1..m |-> IF j = m THEN e ELSE pendingCalls[j]]
      BY <1>2
    <3>3. e.id = <<round, m>> /\ h = [e EXCEPT !.args = Append(@, x)]
      BY <1>2, <2>2 DEF NewEntry, WithFragment, e
    <3>4. \A j \in 1..m : j # m => j \in 1..Len(calls) /\ pendingCalls[j].id = <<round, j>>
      BY <1>b, CallsAreSo, HeldIds
    <3> HIDE DEF p, h, x
    <3>b. DOMAIN p = 1..m /\ p[m] = e /\ \A j \in 1..m : j # m => p[j] = pendingCalls[j]
      BY <3>2, <1>a
    <3>5. pendingCalls' = [j \in 1..m |-> IF p[j].id = <<round, m>>
                                          THEN [p[j] EXCEPT !.args = Append(@, x)] ELSE p[j]]
      BY <3>1, <3>b DEF Model!Attached
    <3>6. ASSUME NEW j \in 1..m
          PROVE pendingCalls'[j] = IF j = m THEN h ELSE pendingCalls[j]
      <4>1. CASE j = m
        BY <3>3, <3>5, <3>b, <4>1
      <4>2. CASE j # m
        <5>1. p[j] = pendingCalls[j] /\ p[j].id = <<round, j>>
          BY <3>4, <3>b, <4>2
        <5>2. p[j].id # <<round, m>>
          BY <5>1, <4>2
        <5> QED BY <3>5, <4>2, <5>1, <5>2
      <4> QED BY <4>1, <4>2
    <3> QED BY <3>5, <3>6
  <2> QED BY <1>c, <2>1, <2>2
<1>10. (\E tt \in tools : tt.wire = c.wire) /\ c.fragments <= chunks + 1
  BY <1>2
<1>11. DOMAIN indexToId' = (IF provider = "openai" THEN 1..m ELSE {})
       /\ \A j \in DOMAIN indexToId' : indexToId'[j] = <<round, j>>
  BY <1>1, <1>8
<1>12. /\ streamPhase = "streaming" /\ Model!Chunk
       /\ UNCHANGED <<provider, tools, json, streamPhase, round, text, prefillEmitted, messages, sent>>
  BY <1>1
<1>13. c \in CallRecord
  BY <1>2
<1> QED BY <1>4, <1>9, <1>10, <1>11, <1>12, <1>13, <1>a, CallHeard DEF h

\* One more fragment of the i-th call.
LEMMA CallWithMore ==
  ASSUME EdgesAssumption, ModelInv, chunks < MaxChunks, NEW i \in 1..Len(calls)
  PROVE  LET c == [calls[i] EXCEPT !.fragments = @ + 1]
         IN /\ c \in CallRecord /\ c.fragments = calls[i].fragments + 1 /\ c.wire = calls[i].wire
            /\ c.fragments <= chunks + 1 /\ c.fragments \in Nat /\ c.fragments > 0
            /\ [calls EXCEPT ![i].fragments = @ + 1]
                 = [j \in 1..Len(calls) |-> IF j = i THEN c ELSE calls[j]]
            /\ provider = "openai" =>
                 HeldFor(provider, tools, round, i, c)
                   = [pendingCalls[i] EXCEPT !.args = Append(@, <<<<round, i>>, c.fragments>>)]
            /\ provider # "openai" => HeldFor(provider, tools, round, i, c) = pendingCalls[i]
<1> DEFINE c == [calls[i] EXCEPT !.fragments = @ + 1]
<1>1. calls[i] \in CallRecord /\ calls[i].fragments \in Nat /\ calls[i].fragments <= chunks /\ chunks \in Nat
      /\ pendingCalls[i] = HeldFor(provider, tools, round, i, calls[i])
  BY CallsAreSo
<1>2. calls[i].fragments + 1 \in 0..MaxChunks
  BY <1>1, ModelNumbers
<1>3. c.fragments = calls[i].fragments + 1 /\ c.wire = calls[i].wire /\ c \in CallRecord
  BY <1>1, <1>2 DEF CallRecord
<1>4. c.fragments <= chunks + 1 /\ c.fragments \in Nat /\ c.fragments > 0
  BY <1>1, <1>3
<1>5. [calls EXCEPT ![i].fragments = @ + 1] = [j \in 1..Len(calls) |-> IF j = i THEN c ELSE calls[j]]
  <2>1. DOMAIN calls = 1..Len(calls) /\ calls = [j \in 1..Len(calls) |-> calls[j]]
    BY CallsAreSo
  <2>2. [calls EXCEPT ![i].fragments = @ + 1] = [calls EXCEPT ![i] = c]
    BY <2>1
  <2> HIDE DEF c
  <2> QED BY <2>1, <2>2
<1> HIDE DEF c
<1>6. ASSUME provider = "openai"
      PROVE  HeldFor(provider, tools, round, i, c)
               = [pendingCalls[i] EXCEPT !.args = Append(@, <<<<round, i>>, c.fragments>>)]
  <2>1. Append(FragmentsOf(round, i, calls[i].fragments), <<<<round, i>>, c.fragments>>)
          = FragmentsOf(round, i, c.fragments)
    BY <1>1, <1>3, FragmentAdded
  <2> DEFINE x == <<<<round, i>>, c.fragments>>
             y == FragmentsOf(round, i, calls[i].fragments)
             z == FragmentsOf(round, i, c.fragments)
             w == ToolNamed(tools, calls[i].wire)
  <2>2. Append(y, x) = z
    BY <2>1
  <2>3. pendingCalls[i] = [id |-> <<round, i>>, name |-> w, args |-> y]
    BY <1>1, <1>6 DEF HeldFor
  <2>4. HeldFor(provider, tools, round, i, c) = [id |-> <<round, i>>, name |-> w, args |-> z]
    BY <1>3, <1>6 DEF HeldFor
  <2> HIDE DEF x, y, z, w
  <2>6. pendingCalls[i].args = y
    BY <2>3
  <2>7. [pendingCalls[i] EXCEPT !.args = z] = [id |-> <<round, i>>, name |-> w, args |-> z]
    BY <2>3
  <2>5. [pendingCalls[i] EXCEPT !.args = Append(@, x)] = [id |-> <<round, i>>, name |-> w, args |-> z]
    BY <2>2, <2>6, <2>7
  <2> QED BY <2>4, <2>5 DEF x
<1>7. provider # "openai" => HeldFor(provider, tools, round, i, c) = pendingCalls[i]
  BY <1>1, <1>3 DEF HeldFor
<1> QED BY <1>3, <1>4, <1>5, <1>6, <1>7 DEF c

LEMMA ModelInput ==
  ASSUME EdgesAssumption, ModelInv, Model!InputJsonDelta PROVE ModelInv'
<1> DEFINE i == Len(calls)
           c == [calls[i] EXCEPT !.fragments = @ + 1]
<1>1. /\ provider = "anthropic" /\ Model!Chunk /\ streamPhase = "streaming" /\ chunks < MaxChunks /\ i > 0
      /\ calls' = [calls EXCEPT ![i].fragments = @ + 1]
      /\ pendingCalls' = Model!Attached(pendingCalls, Model!NoId, <<<<round, i>>, calls'[i].fragments>>)
      /\ UNCHANGED <<provider, tools, json, streamPhase, round, text, prefillEmitted, messages, sent>>
      /\ UNCHANGED indexToId
  BY IdIs DEF Model!InputJsonDelta, Model!Chunk, Model!request
<1>2. i \in 1..i /\ i \in Nat /\ i \in 1..(Len(calls) + 1) /\ i = IF i > Len(calls) THEN i ELSE Len(calls)
  BY <1>1, CallsAreSo
<1>3. /\ c \in CallRecord /\ c.wire = calls[i].wire /\ c.fragments <= chunks + 1
      /\ calls' = [j \in 1..i |-> IF j = i THEN c ELSE calls[j]]
      /\ HeldFor(provider, tools, round, i, c) = pendingCalls[i]
  BY <1>1, <1>2, CallWithMore
<1>4. pendingCalls' = pendingCalls
  <2>1. \A k \in 1..i : pendingCalls[k].id # Model!NoId
    BY HeldIds, NoIdIsNone
  <2>2. DOMAIN pendingCalls = 1..i /\ pendingCalls = [k \in 1..i |-> pendingCalls[k]]
    BY CallsAreSo
  <2> HIDE DEF i
  <2> QED BY <1>1, <2>1, <2>2 DEF Model!Attached
<1>5. pendingCalls' = [j \in 1..i |-> IF j = i THEN HeldFor(provider, tools, round, i, c) ELSE pendingCalls[j]]
  <2>1. pendingCalls = [k \in 1..i |-> pendingCalls[k]]
    BY CallsAreSo
  <2> HIDE DEF i, c
  <2> QED BY <1>2, <1>3, <1>4, <2>1
<1>6. \E t \in tools : t.wire = c.wire
  BY <1>2, <1>3, CallsAreSo
<1>7. DOMAIN indexToId' = (IF provider = "openai" THEN 1..i ELSE {})
      /\ \A j \in DOMAIN indexToId' : indexToId'[j] = <<round, j>>
  BY <1>1, ModelAsItIs DEF CallsHeld
<1> HIDE DEF c, i
<1>8. i \in 1..(Len(calls) + 1) /\ i \in Nat
  BY <1>2
<1>9. /\ streamPhase = "streaming" /\ Model!Chunk
      /\ UNCHANGED <<provider, tools, json, streamPhase, round, text, prefillEmitted, messages, sent>>
  BY <1>1
<1>10. /\ c \in CallRecord /\ c.fragments <= chunks + 1
       /\ calls' = [j \in 1..i |-> IF j = i THEN c ELSE calls[j]]
       /\ i = IF i > Len(calls) THEN i ELSE Len(calls)
  BY <1>2, <1>3
<1> QED BY <1>5, <1>6, <1>7, <1>8, <1>9, <1>10, CallHeard

LEMMA ModelGoesOnCall ==
  ASSUME EdgesAssumption, ModelInv, NEW i \in 1..Len(calls), NEW id \in {Model!NoId, Model!Id(i)},
         Model!ToolCallGoesOn(i, id)
  PROVE  ModelInv'
<1> DEFINE c == [calls[i] EXCEPT !.fragments = @ + 1]
           n == Len(calls)
<1>1. /\ provider = "openai" /\ Model!Chunk /\ streamPhase = "streaming" /\ chunks < MaxChunks
      /\ calls' = [calls EXCEPT ![i].fragments = @ + 1]
      /\ Model!Entry(i, id, calls[i].wire, calls'[i].fragments)
      /\ UNCHANGED <<provider, tools, json, streamPhase, round, text, prefillEmitted, messages, sent>>
  BY DEF Model!ToolCallGoesOn, Model!Chunk, Model!request
<1>2. n \in Nat /\ i \in 1..(Len(calls) + 1) /\ n = IF i > Len(calls) THEN i ELSE Len(calls)
  BY CallsAreSo
<1>3. /\ c \in CallRecord /\ c.wire = calls[i].wire /\ c.fragments <= chunks + 1
      /\ c.fragments \in Nat /\ c.fragments > 0
      /\ calls' = [j \in 1..n |-> IF j = i THEN c ELSE calls[j]]
      /\ HeldFor(provider, tools, round, i, c)
           = [pendingCalls[i] EXCEPT !.args = Append(@, <<<<round, i>>, c.fragments>>)]
  BY <1>1, CallWithMore
<1> HIDE DEF c
<1>4. DOMAIN indexToId = 1..n /\ \A j \in DOMAIN indexToId : indexToId[j] = <<round, j>>
  BY <1>1, ModelAsItIs DEF CallsHeld
<1>5. i \in DOMAIN indexToId /\ calls'[i].fragments = c.fragments
  BY <1>3, <1>4
<1>6. indexToId' = indexToId
      /\ pendingCalls' = Model!Attached(pendingCalls, indexToId'[i], <<<<round, i>>, c.fragments>>)
  BY <1>1, <1>3, <1>5, IdIs DEF Model!Entry
<1>7. pendingCalls' = [k \in 1..n |-> IF pendingCalls[k].id = <<round, i>>
                        THEN [pendingCalls[k] EXCEPT !.args = Append(@, <<<<round, i>>, c.fragments>>)]
                        ELSE pendingCalls[k]]
  <2>1. DOMAIN pendingCalls = 1..n
    BY CallsAreSo
  <2> QED BY <1>4, <1>5, <1>6, <2>1 DEF Model!Attached
<1>8. \A k \in 1..n : pendingCalls[k].id = <<round, k>>
  BY HeldIds
<1>9. pendingCalls' = [j \in 1..n |-> IF j = i THEN HeldFor(provider, tools, round, i, c) ELSE pendingCalls[j]]
  <2> HIDE DEF n
  <2>1. \A k \in 1..n : pendingCalls[k].id = <<round, i>> <=> k = i
    BY <1>8
  <2> QED BY <1>3, <1>7, <2>1
<1>10. \E t \in tools : t.wire = c.wire
  BY <1>3, CallsAreSo
<1>11. DOMAIN indexToId' = (IF provider = "openai" THEN 1..n ELSE {})
       /\ \A j \in DOMAIN indexToId' : indexToId'[j] = <<round, j>>
  BY <1>1, <1>4, <1>6
<1> QED BY <1>1, <1>2, <1>3, <1>9, <1>10, <1>11, CallHeard

\* A step that only goes on to another phase.
LEMMA PhaseOnly ==
  ASSUME ModelInv, UNCHANGED <<Model!request, Model!answer>>, streamPhase' \in Model!Phase,
         streamPhase' \in {"idle", "creating"} => streamPhase' = streamPhase,
         streamPhase' # "threw" => streamPhase \notin {"idle", "threw"}
  PROVE  ModelInv'
<1>0. ModelTypes /\ CallsMade /\ CallsHeld /\ TextOpened /\ ConversationOK
  BY ModelAsItIs
<1>1. UNCHANGED <<provider, tools, json, round, messages, sent, calls, chunks, indexToId, pendingCalls,
                  text, prefillEmitted>>
  BY DEF Model!request, Model!answer
<1>2. ModelTypes' /\ ModelFlags'
  BY <1>0, <1>1, ModelAsItIs DEF ModelTypes, ModelFlags
<1>3. CallsMade' /\ CallsHeld' /\ ConversationOK'
  BY <1>0, <1>1 DEF CallsMade, CallsHeld, ConversationOK, Model!Collision
<1>4. TextOpened'
  BY <1>0, <1>1 DEF TextOpened, Model!Prefilled
<1> QED BY <1>2, <1>3, <1>4 DEF ModelInv

LEMMA ModelText ==
  ASSUME EdgesAssumption, ModelInv, Model!TextDelta PROVE ModelInv'
<1>0. ModelTypes /\ CallsMade /\ CallsHeld /\ TextOpened /\ ConversationOK
  BY ModelAsItIs
<1> DEFINE x == IF prefillEmitted THEN "plain" ELSE "opened"
<1>1. /\ streamPhase = "streaming" /\ chunks < MaxChunks /\ chunks' = chunks + 1
      /\ text' = Append(text, x) /\ prefillEmitted' = TRUE
      /\ UNCHANGED <<provider, tools, json, streamPhase, round, messages, sent, calls, indexToId, pendingCalls>>
  BY DEF Model!TextDelta, Model!Chunk, Model!request
<1>2. chunks' \in 0..MaxChunks /\ chunks \in Nat
  BY <1>1, CallsAreSo, ModelNumbers
<1>3. x \in {"plain", "opened"}
  OBVIOUS
<1>a. text \in Seq({"plain", "opened"})
  BY <1>0 DEF ModelTypes
<1>4. ModelFlags'
  BY <1>1, ModelAsItIs DEF ModelFlags
<1>b. text = <<>> => (prefillEmitted <=> ~Model!Prefilled)
  BY <1>0, <1>1 DEF TextOpened
<1>c. text # <<>> => prefillEmitted
  BY <1>0 DEF TextOpened
<1>d. \A k \in 1..Len(text) : text[k] = IF Model!Prefilled /\ k = 1 THEN "opened" ELSE "plain"
  BY <1>0 DEF TextOpened
<1> DEFINE n == Len(text)
<1>e. n \in Nat /\ (n = 0 <=> text = <<>>)
  BY <1>a
<1>f. x = IF Model!Prefilled /\ n + 1 = 1 THEN "opened" ELSE "plain"
  <2>1. CASE n = 0
    BY <1>b, <1>e, <2>1
  <2>2. CASE n # 0
    <3>1. n + 1 # 1 /\ prefillEmitted
      BY <1>c, <1>e, <2>2
    <3> QED BY <3>1
  <2> QED BY <2>1, <2>2
<1> HIDE DEF x
<1>5. /\ n \in Nat /\ text' \in Seq({"plain", "opened"}) /\ Len(text') = n + 1
      /\ text'[n + 1] = x /\ \A k \in 1..n : text'[k] = text[k]
  BY <1>a, <1>1, <1>3
<1> HIDE DEF n
<1>6. ModelTypes'
  BY <1>0, <1>1, <1>2, <1>5 DEF ModelTypes
<1>7. CallsMade'
  <2>1. \A i \in 1..Len(calls) : calls[i].fragments \in Nat /\ calls[i].fragments <= chunks
    BY CallsAreSo
  <2>2. \A i \in 1..Len(calls) : calls[i].fragments <= chunks'
    BY <1>1, <1>2, <2>1
  <2>3. Len(calls) <= chunks'
    BY <1>1, CallsAreSo
  <2> QED BY <1>0, <1>1, <2>2, <2>3 DEF CallsMade, Model!Collision
<1>8. CallsHeld' /\ ConversationOK'
  BY <1>0, <1>1 DEF CallsHeld, ConversationOK
<1>9. Model!Prefilled' <=> Model!Prefilled
  BY <1>1 DEF Model!Prefilled
<1>10. ASSUME NEW k \in 1..Len(text')
       PROVE text'[k] = IF Model!Prefilled /\ k = 1 THEN "opened" ELSE "plain"
  <2>1. k \in 1..n \/ k = n + 1
    BY <1>5, <1>e
  <2>2. CASE k \in 1..n
    BY <1>5, <1>d, <2>2 DEF n
  <2>3. CASE k = n + 1
    BY <1>5, <1>f, <2>3
  <2> QED BY <2>1, <2>2, <2>3
<1>12. text' # <<>>
  <2>1. Len(text') # 0
    BY <1>5, <1>e
  <2> QED BY <2>1
<1>13. TextOpened'
  BY <1>1, <1>9, <1>10, <1>12 DEF TextOpened
<1> QED BY <1>4, <1>6, <1>7, <1>8, <1>13 DEF ModelInv

-----------------------------------------------------------------------------
(* The conversation *)

LEMMA RequestRecords ==
  ASSUME NEW m \in ConversationMessage
  PROVE  /\ m.role \in Role /\ m.calls \in Seq(Model!PendingCall) /\ m.answers \in Answers
         /\ Len(m.calls) \in Nat /\ DOMAIN m.calls = 1..Len(m.calls)
         /\ \A n \in 1..Len(m.calls) : m.calls[n] \in Model!PendingCall
<1>1. m.role \in Role /\ m.calls \in Seq(Model!PendingCall) /\ m.answers \in Answers
  BY DEF ConversationMessage
<1> QED BY <1>1

LEMMA WireCallIs ==
  ASSUME NEW x \in Model!PendingCall
  PROVE  [id |-> x.id, name |-> x.name.wire, args |-> x.args] \in WireCall
<1>1. x.id \in Model!CallId /\ x.name \in Model!Tool /\ x.args \in Seq(Model!Fragment)
  BY DEF Model!PendingCall
<1>2. x.name.wire \in Wire
  BY <1>1 DEF Model!Tool
<1> QED BY <1>1, <1>2 DEF WireCall

\* A message on the wire has the calls and the answer of the message.
LEMMA ToWireKeeps ==
  ASSUME NEW m \in ConversationMessage
  PROVE  /\ Model!ToWire(m) \in WireMessage /\ Model!ToWire(m).answers = m.answers
         /\ Len(Model!ToWire(m).calls) = Len(m.calls)
         /\ \A n \in 1..Len(m.calls) : Model!ToWire(m).calls[n].id = m.calls[n].id
<1> DEFINE W(x) == [id |-> x.id, name |-> x.name.wire, args |-> x.args]
           cs == [n \in DOMAIN m.calls |-> W(m.calls[n])]
           role == IF m.role = "tool" /\ provider = "anthropic" THEN "user" ELSE m.role
<1>1. Model!ToWire(m) = [role |-> role, calls |-> cs, answers |-> m.answers]
  BY DEF Model!ToWire
<1>2. role \in Role
  BY RequestRecords DEF Role
<1>3. /\ DOMAIN m.calls = 1..Len(m.calls) /\ Len(m.calls) \in Nat
      /\ \A n \in 1..Len(m.calls) : m.calls[n] \in Model!PendingCall
  BY RequestRecords
<1>4. \A n \in 1..Len(m.calls) : cs[n] \in WireCall /\ cs[n].id = m.calls[n].id
  <2> SUFFICES ASSUME NEW n \in 1..Len(m.calls) PROVE cs[n] \in WireCall /\ cs[n].id = m.calls[n].id
    OBVIOUS
  <2>1. cs[n] = W(m.calls[n])
    BY <1>3
  <2>2. W(m.calls[n]) \in WireCall
    BY <1>3, WireCallIs
  <2> QED BY <2>1, <2>2
<1>5. cs = [n \in 1..Len(m.calls) |-> cs[n]]
  BY <1>3
<1> HIDE DEF cs, role
<1>6. cs \in [1..Len(m.calls) -> WireCall]
  BY <1>4, <1>5
<1>7. cs \in Seq(WireCall) /\ Len(cs) = Len(m.calls)
  BY <1>3, <1>6, SequenceOf
<1>8. [role |-> role, calls |-> cs, answers |-> m.answers] \in WireMessage
  BY <1>2, <1>7, RequestRecords DEF WireMessage
<1> QED BY <1>1, <1>4, <1>7, <1>8

\* What follows goes on following, in other words and before messages without a call.
LEMMA FollowsStill ==
  ASSUME NEW m, NEW w, Follows(m), Len(m) \in Nat, Len(w) \in Nat, Len(w) >= Len(m),
         \A k \in 1..Len(m) :
           /\ w[k].answers = m[k].answers /\ Len(w[k].calls) = Len(m[k].calls)
           /\ \A n \in 1..Len(m[k].calls) : w[k].calls[n].id = m[k].calls[n].id,
         \A k \in 1..Len(w) : k \notin 1..Len(m) => w[k].answers = Model!NoId /\ Len(w[k].calls) = 0
  PROVE  Follows(w)
<1>1. ASSUME NEW k \in 1..Len(w), NEW n \in 1..Len(w[k].calls)
      PROVE k + n \in 1..Len(w) /\ w[k + n].answers = w[k].calls[n].id
  <2>1. k \in 1..Len(m) /\ n \in 1..Len(m[k].calls)
    BY <1>1
  <2>2. k + n \in 1..Len(m) /\ m[k + n].answers = m[k].calls[n].id
    BY <2>1 DEF Follows
  <2>3. w[k + n].answers = m[k + n].answers
    BY <2>2
  <2>4. w[k].calls[n].id = m[k].calls[n].id
    BY <2>1
  <2>5. k + n \in 1..Len(w)
    BY <2>2
  <2> QED BY <2>2, <2>3, <2>4, <2>5
<1>2. ASSUME NEW k \in 1..Len(w), w[k].answers # Model!NoId
      PROVE \E j \in 1..Len(w) : \E n \in 1..Len(w[j].calls) : k = j + n /\ w[j].calls[n].id = w[k].answers
  <2>1. k \in 1..Len(m) /\ m[k].answers # Model!NoId
    BY <1>2
  <2>2. PICK j \in 1..Len(m) : \E n \in 1..Len(m[j].calls) : k = j + n /\ m[j].calls[n].id = m[k].answers
    BY <2>1 DEF Follows
  <2>3. PICK n \in 1..Len(m[j].calls) : k = j + n /\ m[j].calls[n].id = m[k].answers
    BY <2>2
  <2>4. j \in 1..Len(w)
    OBVIOUS
  <2>5. w[k].answers = m[k].answers
    BY <2>1
  <2>6. Len(w[j].calls) = Len(m[j].calls) /\ w[j].calls[n].id = m[j].calls[n].id
    OBVIOUS
  <2>7. n \in 1..Len(w[j].calls)
    BY <2>6
  <2> QED BY <2>3, <2>4, <2>5, <2>6, <2>7
<1> QED BY <1>1, <1>2 DEF Follows

LEMMA ModelRequest ==
  ASSUME EdgesAssumption, ModelInv, Model!Request PROVE ModelInv'
<1>0. ModelTypes /\ CallsMade /\ CallsHeld /\ TextOpened /\ ConversationOK /\ ModelFlags
  BY ModelAsItIs
<1>1. /\ streamPhase = "idle" /\ streamPhase' = IF Model!Collision THEN "threw" ELSE "creating"
      /\ prefillEmitted' = ~Model!Prefilled
      /\ UNCHANGED <<provider, tools, json, round, messages, calls, chunks, indexToId, pendingCalls, text>>
  BY DEF Model!Request
<1>2. ModelFlags'
  BY <1>0, <1>1 DEF ModelFlags, Model!Prefilled
<1>3. ModelTypes'
  BY <1>0, <1>1 DEF ModelTypes, Model!Phase
<1>4. calls = <<>> /\ text = <<>>
  BY <1>0, <1>1 DEF CallsMade, TextOpened
<1>5. CallsMade' /\ CallsHeld'
  BY <1>0, <1>1, <1>4 DEF CallsMade, CallsHeld, Model!Collision
<1>6. TextOpened'
  BY <1>0, <1>1, <1>4 DEF TextOpened, Model!Prefilled
<1>7. ConversationOK'
  <2>0. messages \in Seq(ConversationMessage) /\ Follows(messages) /\ sent \in Seq(WireMessage) /\ Follows(sent)
    BY <1>0 DEF ConversationOK
  <2>1. CASE Model!Collision
    <3>1. sent' = sent
      BY <2>1 DEF Model!Request
    <3> QED BY <1>1, <2>0, <3>1 DEF ConversationOK
  <2>2. CASE ~Model!Collision
    <3> DEFINE n == Len(messages)
               w == [k \in DOMAIN messages |-> Model!ToWire(messages[k])]
               last == IF Model!Prefilled THEN <<Model!Prefill>> ELSE <<>>
    <3>1. sent' = w \o last
      BY <2>2 DEF Model!Request
    <3>2. n \in Nat /\ DOMAIN messages = 1..n /\ \A k \in 1..n : messages[k] \in ConversationMessage
      BY <2>0
    <3>3. \A k \in 1..n : w[k] = Model!ToWire(messages[k])
      BY <3>2
    <3>4. w = [k \in 1..n |-> w[k]]
      BY <3>2
    <3> HIDE DEF w
    <3>5. w \in Seq(WireMessage) /\ Len(w) = n
      <4>1. \A k \in 1..n : w[k] \in WireMessage
        BY <3>2, <3>3, ToWireKeeps
      <4>2. w \in [1..n -> WireMessage]
        BY <3>4, <4>1
      <4> QED BY <3>2, <4>2, SequenceOf
    <3>6. /\ last \in Seq(WireMessage) /\ Len(last) \in Nat
          /\ \A k \in 1..Len(last) : last[k].answers = Model!NoId /\ Len(last[k].calls) = 0
      <4> DEFINE p == [role |-> "assistant", calls |-> <<>>, answers |-> Model!NoId]
      <4>1. Model!Prefill = p
        BY DEF Model!Prefill
      <4>2. <<>> \in Seq(WireCall) /\ Len(<<>>) = 0 /\ "assistant" \in Role /\ Model!NoId \in Answers
        BY DEF Role, Answers
      <4>3. p \in WireMessage /\ p.answers = Model!NoId /\ Len(p.calls) = 0
        BY <4>2 DEF WireMessage
      <4>a. last = IF Model!Prefilled THEN <<p>> ELSE <<>>
        BY <4>1
      <4> HIDE DEF p, last
      <4>4. CASE Model!Prefilled
        <5>1. last = <<p>>
          BY <4>4, <4>a
        <5> QED BY <4>3, <5>1
      <4>5. CASE ~Model!Prefilled
        <5>1. last = <<>>
          BY <4>5, <4>a
        <5> QED BY <5>1
      <4> QED BY <4>4, <4>5
    <3> HIDE DEF last, n
    <3>7. sent' \in Seq(WireMessage) /\ Len(sent') = n + Len(last)
      BY <3>1, <3>2, <3>5, <3>6
    <3>8. \A k \in 1..n : sent'[k] = w[k]
      BY <3>1, <3>2, <3>5, <3>6
    <3>9. ASSUME NEW k \in 1..Len(sent'), k \notin 1..n
          PROVE sent'[k].answers = Model!NoId /\ Len(sent'[k].calls) = 0
      <4>1. k - n \in 1..Len(last) /\ sent'[k] = last[k - n]
        BY <3>1, <3>2, <3>5, <3>6, <3>7, <3>9
      <4> QED BY <3>6, <4>1
    <3>10. Follows(sent')
      <4>1. \A k \in 1..n :
              /\ sent'[k].answers = messages[k].answers /\ Len(sent'[k].calls) = Len(messages[k].calls)
              /\ \A i \in 1..Len(messages[k].calls) : sent'[k].calls[i].id = messages[k].calls[i].id
        BY <3>2, <3>3, <3>8, ToWireKeeps
      <4>2. Len(messages) = n /\ Len(sent') \in Nat /\ Len(sent') >= n
        BY <3>2, <3>6, <3>7 DEF n
      <4> QED BY <2>0, <3>2, <3>9, <4>1, <4>2, FollowsStill
    <3> QED BY <1>1, <2>0, <3>7, <3>10 DEF ConversationOK
  <2> QED BY <2>1, <2>2
<1> QED BY <1>2, <1>3, <1>5, <1>6, <1>7 DEF ModelInv

LEMMA ModelNextRound ==
  ASSUME EdgesAssumption, ModelInv, Model!NextRound PROVE ModelInv'
<1>0. ModelTypes /\ CallsMade /\ CallsHeld /\ TextOpened /\ ConversationOK /\ ModelFlags
  BY ModelAsItIs
<1>1. /\ round < MaxRounds /\ round' = round + 1 /\ streamPhase' = "idle" /\ calls' = <<>>
      /\ indexToId' = [i \in {} |-> Model!NoId] /\ pendingCalls' = <<>> /\ text' = <<>>
      /\ UNCHANGED <<provider, json, chunks, prefillEmitted, sent>>
  BY DEF Model!NextRound
<1>2. ModelFlags'
  BY <1>0, <1>1 DEF ModelFlags
<1>3. ModelTypes'
  <2>1. tools' \subseteq Model!Tool
    BY <1>0 DEF Model!NextRound, ModelTypes
  <2>2. round' \in 1..MaxRounds
    BY <1>0, <1>1, ModelNumbers DEF ModelTypes
  <2>3. text' \in Seq({"plain", "opened"})
    BY <1>1
  <2>4. streamPhase' \in Model!Phase
    BY <1>1 DEF Model!Phase
  <2> QED BY <1>0, <1>1, <2>1, <2>2, <2>3, <2>4 DEF ModelTypes
<1>4. CallsMade'
  <2>1. calls' \in Seq(CallRecord) /\ Len(calls') = 0 /\ 0 <= chunks
    BY <1>1, CallsAreSo
  <2> QED BY <1>1, <2>1 DEF CallsMade
<1>5. CallsHeld'
  <2>1. DOMAIN indexToId' = {} /\ pendingCalls' \in Seq(Model!PendingCall)
        /\ Len(pendingCalls') = 0 /\ Len(calls') = 0
    BY <1>1
  <2> QED BY <2>1 DEF CallsHeld
<1>6. TextOpened'
  BY <1>1 DEF TextOpened
<1>7. ConversationOK'
  <2>0. messages \in Seq(ConversationMessage) /\ Follows(messages) /\ sent \in Seq(WireMessage) /\ Follows(sent)
    BY <1>0 DEF ConversationOK
  <2> DEFINE L == Len(messages)
             P == Len(pendingCalls)
             a == [role |-> "assistant", calls |-> pendingCalls, answers |-> Model!NoId]
             r == [k \in DOMAIN pendingCalls |-> Model!Result(pendingCalls[k])]
  <2>1. messages' = messages \o <<a>> \o r
    BY DEF Model!NextRound
  <2>2. P \in Nat /\ DOMAIN pendingCalls = 1..P /\ pendingCalls \in Seq(Model!PendingCall)
        /\ \A k \in 1..P : pendingCalls[k] \in Model!PendingCall
    BY <1>0 DEF CallsHeld
  <2>3. a \in ConversationMessage /\ a.calls = pendingCalls /\ a.answers = Model!NoId
    BY <2>2 DEF ConversationMessage, Role, Answers
  <2>4. ASSUME NEW k \in 1..P
        PROVE r[k] \in ConversationMessage /\ Len(r[k].calls) = 0 /\ r[k].answers = pendingCalls[k].id
    <3>1. r[k] = [role |-> "tool", calls |-> <<>>, answers |-> pendingCalls[k].id]
      BY <2>2 DEF Model!Result
    <3>2. pendingCalls[k].id \in Answers
      BY <2>2 DEF Model!PendingCall, Answers
    <3>3. <<>> \in Seq(Model!PendingCall) /\ Len(<<>>) = 0 /\ "tool" \in Role
      BY DEF Role
    <3> HIDE DEF r
    <3> QED BY <3>1, <3>2, <3>3 DEF ConversationMessage
  <2>5. r = [k \in 1..P |-> r[k]]
    BY <2>2
  <2> HIDE DEF r, a
  <2>6. r \in Seq(ConversationMessage) /\ Len(r) = P
    <3>1. r \in [1..P -> ConversationMessage]
      BY <2>4, <2>5
    <3> QED BY <2>2, <3>1, SequenceOf
  <2>7. L \in Nat /\ Len(messages) = L
    BY <2>0
  <2> HIDE DEF L, P
  <2> DEFINE f == messages \o <<a>>
  <2>8. f \in Seq(ConversationMessage) /\ Len(f) = L + 1 /\ f[L + 1] = a /\ \A k \in 1..L : f[k] = messages[k]
    BY <2>0, <2>3, <2>7
  <2>9. messages' = f \o r
    BY <2>1
  <2> HIDE DEF f
  <2>10. messages' \in Seq(ConversationMessage) /\ Len(messages') = L + 1 + P
    BY <2>2, <2>6, <2>7, <2>8, <2>9
  <2>11. \A k \in 1..(L + 1) : messages'[k] = f[k]
    BY <2>2, <2>6, <2>7, <2>8, <2>9
  <2>12. \A k \in 1..P : messages'[L + 1 + k] = r[k]
    BY <2>2, <2>6, <2>7, <2>8, <2>9
  <2>13. /\ \A k \in 1..L : messages'[k] = messages[k]
         /\ messages'[L + 1] = a
    BY <2>7, <2>8, <2>11
  <2>14. ASSUME NEW k \in 1..Len(messages'), NEW n \in 1..Len(messages'[k].calls)
         PROVE k + n \in 1..Len(messages') /\ messages'[k + n].answers = messages'[k].calls[n].id
    <3>1. CASE k \in 1..L
      <4>1. k + n \in 1..L /\ messages[k + n].answers = messages[k].calls[n].id
        BY <2>0, <2>7, <2>13, <2>14, <3>1 DEF Follows
      <4> QED BY <2>2, <2>7, <2>10, <2>13, <3>1, <4>1
    <3>2. CASE k = L + 1
      <4>1. n \in 1..P
        BY <2>3, <2>13, <2>14, <3>2 DEF P
      <4>2. messages'[L + 1 + n].answers = pendingCalls[n].id /\ messages'[k].calls = pendingCalls
        BY <2>3, <2>4, <2>12, <2>13, <3>2, <4>1
      <4>3. L + 1 + n \in 1..Len(messages')
        BY <2>2, <2>7, <2>10, <4>1
      <4> QED BY <3>2, <4>2, <4>3
    <3>3. CASE k \notin 1..L /\ k # L + 1
      <4>1. k - (L + 1) \in 1..P /\ k = L + 1 + (k - (L + 1))
        BY <2>2, <2>7, <2>10, <3>3
      <4>2. Len(messages'[k].calls) = 0
        BY <2>4, <2>12, <4>1
      <4> QED BY <2>14, <4>2
    <3> QED BY <3>1, <3>2, <3>3
  <2>15. ASSUME NEW k \in 1..Len(messages'), messages'[k].answers # Model!NoId
         PROVE \E j \in 1..Len(messages') : \E n \in 1..Len(messages'[j].calls) :
                 k = j + n /\ messages'[j].calls[n].id = messages'[k].answers
    <3>1. CASE k \in 1..L
      <4>1. messages[k].answers # Model!NoId
        BY <2>13, <2>15, <3>1
      <4>2. PICK j \in 1..L : \E n \in 1..Len(messages[j].calls) : k = j + n /\ messages[j].calls[n].id = messages[k].answers
        BY <2>0, <2>7, <3>1, <4>1 DEF Follows
      <4>3. j \in 1..Len(messages') /\ messages'[j] = messages[j] /\ messages'[k] = messages[k]
        BY <2>2, <2>7, <2>10, <2>13, <3>1
      <4> QED BY <4>2, <4>3
    <3>2. CASE k \notin 1..L
      <4>1. k # L + 1
        BY <2>3, <2>13, <2>15
      <4> DEFINE n == k - (L + 1)
      <4>2. n \in 1..P /\ k = L + 1 + n
        BY <2>2, <2>7, <2>10, <3>2, <4>1
      <4> HIDE DEF n
      <4>3. messages'[k].answers = pendingCalls[n].id /\ messages'[L + 1].calls = pendingCalls
        BY <2>3, <2>4, <2>12, <2>13, <4>2
      <4>4. L + 1 \in 1..Len(messages') /\ n \in 1..Len(messages'[L + 1].calls)
        BY <2>2, <2>7, <2>10, <4>2, <4>3 DEF P
      <4> QED BY <4>2, <4>3, <4>4
    <3> QED BY <3>1, <3>2
  <2>16. Follows(messages')
    BY <2>14, <2>15 DEF Follows
  <2> QED BY <1>1, <2>0, <2>10, <2>16 DEF ConversationOK
<1> QED BY <1>2, <1>3, <1>4, <1>5, <1>6, <1>7 DEF ModelInv

LEMMA ModelGoesOn == ASSUME EdgesAssumption, ModelInv, Model!Next PROVE ModelInv'
<1>1. CASE Model!Create
  BY <1>1, PhaseOnly DEF Model!Create, Model!Phase
<1>2. CASE Model!Throw
  BY <1>2, PhaseOnly DEF Model!Throw, Model!Phase
<1>3. CASE Model!Abandon
  BY <1>3, PhaseOnly DEF Model!Abandon, Model!Phase
<1>4. CASE Model!StreamEnds
  BY <1>4, PhaseOnly DEF Model!StreamEnds, Model!Phase
<1>5. CASE Model!Done
  BY <1>5, PhaseOnly DEF Model!Done, Model!Phase
<1>6. ASSUME NEW i \in DOMAIN calls, NEW id \in {Model!NoId, Model!Id(i)}, Model!ToolCallGoesOn(i, id)
      PROVE ModelInv'
  <2>1. i \in 1..Len(calls)
    BY CallsAreSo
  <2> QED BY <1>6, <2>1, ModelGoesOnCall
<1> QED
  BY <1>1, <1>2, <1>3, <1>4, <1>5, <1>6, ModelRequest, ModelText, ModelToolUse, ModelInput, ModelBegins,
     ModelNextRound DEF Model!Next

LEMMA ModelRests == ASSUME ModelInv, UNCHANGED modelVars PROVE ModelInv'
<1>0. UNCHANGED <<provider, tools, json, streamPhase, round, messages, sent, calls, chunks, indexToId,
                  pendingCalls, text, prefillEmitted>>
  BY DEF modelVars
<1>1. ModelFlags' /\ ModelTypes'
  BY <1>0, ModelAsItIs DEF ModelFlags, ModelTypes
<1>2. CallsMade' /\ CallsHeld' /\ ConversationOK'
  BY <1>0, ModelAsItIs DEF CallsMade, CallsHeld, ConversationOK, Model!Collision
<1>3. TextOpened'
  BY <1>0, ModelAsItIs DEF TextOpened, Model!Prefilled
<1> QED BY <1>1, <1>2, <1>3 DEF ModelInv

LEMMA ModelIsSafe == ASSUME EdgesAssumption, ModelInv
  PROVE Model!TypeOK /\ Model!PrefillOnce /\ Model!CallsAsAsked /\ Model!ResultsFollowCalls
<1>0. ModelTypes /\ CallsMade /\ CallsHeld /\ TextOpened /\ ConversationOK /\ ModelFlags
  BY ModelAsItIs
<1>1. Model!TypeOK
  <2>1. \A i \in DOMAIN indexToId : i \in 1..MaxChunks /\ indexToId[i] \in Model!CallId
    <3> SUFFICES ASSUME NEW i \in DOMAIN indexToId PROVE i \in 1..MaxChunks /\ indexToId[i] \in Model!CallId
      OBVIOUS
    <3>1. i \in 1..Len(calls) /\ indexToId[i] = <<round, i>>
      BY <1>0 DEF CallsHeld
    <3>2. i \in 1..MaxChunks
      BY <3>1, CallsAreSo, ModelNumbers
    <3>3. round \in 1..MaxRounds
      BY <1>0 DEF ModelTypes
    <3> QED BY <3>1, <3>2, <3>3 DEF Model!CallId
  <2>2. calls \in Seq([wire : Wire, fragments : 0..MaxChunks])
    BY <1>0 DEF CallsMade, CallRecord
  <2>3. pendingCalls \in Seq(Model!PendingCall)
    BY <1>0 DEF CallsHeld
  <2>4. /\ provider \in {"anthropic", "openai"} /\ tools \subseteq Model!Tool
        /\ streamPhase \in Model!Phase /\ round \in 1..MaxRounds /\ chunks \in 0..MaxChunks
        /\ text \in Seq({"plain", "opened"})
    BY <1>0 DEF ModelTypes
  <2>5. json \in BOOLEAN /\ prefillEmitted \in BOOLEAN
    BY <1>0 DEF ModelFlags
  <2>6. DOMAIN indexToId \subseteq 1..MaxChunks /\ \A i \in DOMAIN indexToId : indexToId[i] \in Model!CallId
    BY <2>1
  <2> QED BY <2>2, <2>3, <2>4, <2>5, <2>6 DEF Model!TypeOK
<1>2. Model!PrefillOnce
  <2>1. DOMAIN text = 1..Len(text)
    BY <1>0 DEF ModelTypes
  <2>2. \A k \in 1..Len(text) : text[k] = IF Model!Prefilled /\ k = 1 THEN "opened" ELSE "plain"
    BY <1>0 DEF TextOpened
  <2> QED BY <2>1, <2>2 DEF Model!PrefillOnce
<1>3. Model!CallsAsAsked
  <2>1. Len(pendingCalls) = Len(calls) /\ DOMAIN calls = 1..Len(calls)
    BY CallsAreSo
  <2>2. ASSUME NEW i \in 1..Len(calls)
        PROVE /\ pendingCalls[i].id = Model!Id(i)
              /\ \A t \in tools : t.wire = calls[i].wire <=> t = pendingCalls[i].name
              /\ provider = "openai" => pendingCalls[i].args = Model!Fragments(i)
              /\ provider # "openai" => pendingCalls[i].args = <<>>
    <3>1. pendingCalls[i] = HeldFor(provider, tools, round, i, calls[i])
          /\ \E t \in tools : t.wire = calls[i].wire
      BY CallsAreSo
    <3>2. pendingCalls[i].id = Model!Id(i)
      BY <3>1, IdIs DEF HeldFor
    <3>3. ~Model!Collision
      <4>1. Len(calls) # 0
        BY <2>2, CallsAreSo
      <4>2. calls # <<>>
        BY <4>1
      <4> QED BY <1>0, <4>2 DEF CallsMade
    <3>4. pendingCalls[i].name \in tools /\ pendingCalls[i].name.wire = calls[i].wire
      <4>1. pendingCalls[i].name = CHOOSE t \in tools : t.wire = calls[i].wire
        BY <3>1 DEF HeldFor, ToolNamed
      <4> QED BY <3>1, <4>1
    <3>5. \A t \in tools : t.wire = calls[i].wire <=> t = pendingCalls[i].name
      BY <3>3, <3>4 DEF Model!Collision
    <3>6. provider = "openai" => pendingCalls[i].args = Model!Fragments(i)
      BY <3>1, IdIs DEF HeldFor, FragmentsOf, Model!Fragments
    <3>7. provider # "openai" => pendingCalls[i].args = <<>>
      BY <3>1 DEF HeldFor
    <3> QED BY <3>2, <3>5, <3>6, <3>7
  <2>3. \A i \in 1..Len(calls) : IF provider = "openai" THEN pendingCalls[i].args = Model!Fragments(i)
                                 ELSE pendingCalls[i].args \in {Model!Fragments(i), <<>>}
    BY <2>2
  <2> QED BY <2>1, <2>2, <2>3 DEF Model!CallsAsAsked
<1>4. Model!ResultsFollowCalls
  <2>0. sent \in Seq(WireMessage) /\ Follows(sent) /\ DOMAIN sent = 1..Len(sent)
    BY <1>0 DEF ConversationOK
  <2>1. \A k \in 1..Len(sent) : DOMAIN sent[k].calls = 1..Len(sent[k].calls)
        /\ \A n \in 1..Len(sent[k].calls) : sent[k].calls[n].id # Model!NoId
    <3> SUFFICES ASSUME NEW k \in 1..Len(sent)
                 PROVE DOMAIN sent[k].calls = 1..Len(sent[k].calls)
                       /\ \A n \in 1..Len(sent[k].calls) : sent[k].calls[n].id # Model!NoId
      OBVIOUS
    <3>1. sent[k] \in WireMessage
      BY <2>0
    <3>2. sent[k].calls \in Seq(WireCall)
      BY <3>1 DEF WireMessage
    <3>3. DOMAIN sent[k].calls = 1..Len(sent[k].calls)
          /\ \A n \in 1..Len(sent[k].calls) : sent[k].calls[n] \in WireCall
      BY <3>2
    <3>4. \A x \in WireCall : x.id \in Model!CallId
      BY DEF WireCall
    <3>5. Model!NoId \notin Model!CallId
      BY NoIdIsNone DEF Model!CallId
    <3> QED BY <3>3, <3>4, <3>5
  <2> DEFINE repliesTo(k) == {<<k + n, sent[k].calls[n].id>> : n \in DOMAIN sent[k].calls}
             owed == UNION {repliesTo(k) : k \in DOMAIN sent}
             givenBack == {<<k, sent[k].answers>> : k \in {j \in DOMAIN sent : sent[j].answers # Model!NoId}}
  <2>2. ASSUME NEW x \in owed PROVE x \in givenBack
    <3>1. PICK k \in 1..Len(sent) : x \in repliesTo(k)
      BY <2>0
    <3>2. PICK n \in 1..Len(sent[k].calls) : x = <<k + n, sent[k].calls[n].id>>
      BY <2>1, <3>1
    <3>3. k + n \in 1..Len(sent) /\ sent[k + n].answers = sent[k].calls[n].id
      BY <2>0, <3>2 DEF Follows
    <3>4. sent[k + n].answers # Model!NoId
      BY <2>1, <3>2, <3>3
    <3> QED BY <2>0, <3>2, <3>3, <3>4
  <2>3. ASSUME NEW x \in givenBack PROVE x \in owed
    <3>1. PICK k \in 1..Len(sent) : x = <<k, sent[k].answers>> /\ sent[k].answers # Model!NoId
      BY <2>0
    <3>2. PICK j \in 1..Len(sent) : \E n \in 1..Len(sent[j].calls) : k = j + n /\ sent[j].calls[n].id = sent[k].answers
      BY <2>0, <3>1 DEF Follows
    <3>3. PICK n \in 1..Len(sent[j].calls) : k = j + n /\ sent[j].calls[n].id = sent[k].answers
      BY <3>2
    <3>4. x \in repliesTo(j)
      BY <2>1, <3>1, <3>3
    <3> QED BY <2>0, <3>4
  <2> QED BY <2>2, <2>3 DEF Model!ResultsFollowCalls
<1> QED BY <1>1, <1>2, <1>3, <1>4

-----------------------------------------------------------------------------
(* All of them                                                            *)

\* Every component keeps its invariant, whichever of them moves.
EdgesInv ==
  /\ DiscordInv /\ SlackInv /\ TelegramInv /\ NodeInv /\ AuthInv /\ LimiterInv
  /\ BrowserInv /\ PageInv /\ IdentityInv /\ WebInv /\ SessionsInv /\ RedisInv
  /\ MemoryInv /\ PersonaInv /\ GoalsInv /\ ModelInv /\ HooksInv

\* The invariant holds at the start.
LEMMA EdgesStart ==
  ASSUME EdgesAssumption, Init
  PROVE  EdgesInv
  BY DiscordStarts, SlackStarts, TelegramStarts, NodeStarts, AuthStarts, LimiterStarts,
     BrowserStarts, PageStarts, IdentityStarts, WebStarts, SessionsStart, RedisStarts, MemoryStarts,
     PersonaStarts, GoalsStart, ModelStart, HooksStarts DEF Init, EdgesInv

\* Every step is one of one component, or stutters.
LEMMA EdgesGoOn ==
  ASSUME EdgesAssumption, EdgesInv, [Next]_vars
  PROVE  EdgesInv'
<1>1. CASE DiscordStep
  BY <1>1, DiscordKeeps, SlackRests, TelegramRests, NodeRests, AuthRests, LimiterRests,
     BrowserRests, PageRests, IdentityRests, WebRests, SessionsRest, RedisRests, MemoryRests,
     PersonaRests, GoalsRest, ModelRests, HooksRests DEF DiscordStep, EdgesInv
<1>2. CASE SlackStep
  BY <1>2, SlackKeeps, DiscordRests, TelegramRests, NodeRests, AuthRests, LimiterRests,
     BrowserRests, PageRests, IdentityRests, WebRests, SessionsRest, RedisRests, MemoryRests,
     PersonaRests, GoalsRest, ModelRests, HooksRests DEF SlackStep, EdgesInv
<1>3. CASE TelegramStep
  BY <1>3, TelegramKeeps, DiscordRests, SlackRests, NodeRests, AuthRests, LimiterRests,
     BrowserRests, PageRests, IdentityRests, WebRests, SessionsRest, RedisRests, MemoryRests,
     PersonaRests, GoalsRest, ModelRests, HooksRests DEF TelegramStep, EdgesInv
<1>4. CASE NodeStep
  BY <1>4, NodeKeeps, DiscordRests, SlackRests, TelegramRests, AuthRests, LimiterRests,
     BrowserRests, PageRests, IdentityRests, WebRests, SessionsRest, RedisRests, MemoryRests,
     PersonaRests, GoalsRest, ModelRests, HooksRests DEF NodeStep, EdgesInv
<1>5. CASE AuthStep
  BY <1>5, AuthKeeps, DiscordRests, SlackRests, TelegramRests, NodeRests, LimiterRests,
     BrowserRests, PageRests, IdentityRests, WebRests, SessionsRest, RedisRests, MemoryRests,
     PersonaRests, GoalsRest, ModelRests, HooksRests DEF AuthStep, EdgesInv
<1>6. CASE LimiterStep
  BY <1>6, LimiterKeeps, DiscordRests, SlackRests, TelegramRests, NodeRests, AuthRests,
     BrowserRests, PageRests, IdentityRests, WebRests, SessionsRest, RedisRests, MemoryRests,
     PersonaRests, GoalsRest, ModelRests, HooksRests DEF LimiterStep, EdgesInv
<1>7. CASE BrowserStep
  BY <1>7, BrowserKeeps, DiscordRests, SlackRests, TelegramRests, NodeRests, AuthRests,
     LimiterRests, PageRests, IdentityRests, WebRests, SessionsRest, RedisRests, MemoryRests,
     PersonaRests, GoalsRest, ModelRests, HooksRests DEF BrowserStep, EdgesInv
<1>8. CASE PageStep
  BY <1>8, PageKeeps, DiscordRests, SlackRests, TelegramRests, NodeRests, AuthRests, LimiterRests,
     BrowserRests, IdentityRests, WebRests, SessionsRest, RedisRests, MemoryRests, PersonaRests,
     GoalsRest, ModelRests, HooksRests DEF PageStep, EdgesInv
<1>9. CASE IdentityStep
  BY <1>9, IdentityKeeps, DiscordRests, SlackRests, TelegramRests, NodeRests, AuthRests,
     LimiterRests, BrowserRests, PageRests, WebRests, SessionsRest, RedisRests, MemoryRests,
     PersonaRests, GoalsRest, ModelRests, HooksRests DEF IdentityStep, EdgesInv
<1>10. CASE WebStep
  BY <1>10, WebKeeps, DiscordRests, SlackRests, TelegramRests, NodeRests, AuthRests, LimiterRests,
     BrowserRests, PageRests, IdentityRests, SessionsRest, RedisRests, MemoryRests, PersonaRests,
     GoalsRest, ModelRests, HooksRests DEF WebStep, EdgesInv
<1>11. CASE SessionsStep
  BY <1>11, SessionsGoOn, DiscordRests, SlackRests, TelegramRests, NodeRests, AuthRests,
     LimiterRests, BrowserRests, PageRests, IdentityRests, WebRests, RedisRests, MemoryRests,
     PersonaRests, GoalsRest, ModelRests, HooksRests DEF SessionsStep, EdgesInv
<1>12. CASE RedisStep
  BY <1>12, RedisGoesOn, DiscordRests, SlackRests, TelegramRests, NodeRests, AuthRests,
     LimiterRests, BrowserRests, PageRests, IdentityRests, WebRests, SessionsRest, MemoryRests,
     PersonaRests, GoalsRest, ModelRests, HooksRests DEF RedisStep, EdgesInv
<1>13. CASE MemoryStep
  BY <1>13, MemoryGoesOn, DiscordRests, SlackRests, TelegramRests, NodeRests, AuthRests,
     LimiterRests, BrowserRests, PageRests, IdentityRests, WebRests, SessionsRest, RedisRests,
     PersonaRests, GoalsRest, ModelRests, HooksRests DEF MemoryStep, EdgesInv
<1>14. CASE PersonaStep
  BY <1>14, PersonaGoesOn, DiscordRests, SlackRests, TelegramRests, NodeRests, AuthRests,
     LimiterRests, BrowserRests, PageRests, IdentityRests, WebRests, SessionsRest, RedisRests,
     MemoryRests, GoalsRest, ModelRests, HooksRests DEF PersonaStep, EdgesInv
<1>15. CASE GoalsStep
  BY <1>15, GoalsGoOn, DiscordRests, SlackRests, TelegramRests, NodeRests, AuthRests, LimiterRests,
     BrowserRests, PageRests, IdentityRests, WebRests, SessionsRest, RedisRests, MemoryRests,
     PersonaRests, ModelRests, HooksRests DEF GoalsStep, EdgesInv
<1>16. CASE ModelStep
  BY <1>16, ModelGoesOn, DiscordRests, SlackRests, TelegramRests, NodeRests, AuthRests,
     LimiterRests, BrowserRests, PageRests, IdentityRests, WebRests, SessionsRest, RedisRests,
     MemoryRests, PersonaRests, GoalsRest, HooksRests DEF ModelStep, EdgesInv
<1>17. CASE WebhookStep
  BY <1>17, HooksKeeps, DiscordRests, SlackRests, TelegramRests, NodeRests, AuthRests, LimiterRests,
     BrowserRests, PageRests, IdentityRests, WebRests, SessionsRest, RedisRests, MemoryRests,
     PersonaRests, GoalsRest, ModelRests DEF WebhookStep, EdgesInv
<1>18. CASE UNCHANGED vars
  BY <1>18, DiscordRests, SlackRests, TelegramRests, NodeRests, AuthRests, LimiterRests,
     BrowserRests, PageRests, IdentityRests, WebRests, SessionsRest, RedisRests, MemoryRests,
     PersonaRests, GoalsRest, ModelRests, HooksRests DEF vars, EdgesInv
<1> QED
  BY <1>1, <1>2, <1>3, <1>4, <1>5, <1>6, <1>7, <1>8, <1>9, <1>10, <1>11, <1>12, <1>13, <1>14, <1>15,
     <1>16, <1>17, <1>18 DEF Next

\* Hence it holds of every behaviour.
LEMMA EdgesAreKept == Spec => []EdgesInv
<1>1. Init => EdgesInv
  BY EdgesAssumption, EdgesStart
<1>2. EdgesInv /\ [Next]_vars => EdgesInv'
  BY EdgesAssumption, EdgesGoOn
<1> QED BY <1>1, <1>2, PTL DEF Spec

\* Each part of the seventeen components keeps its range; among them a browser has no
\* more reconnect timers than sockets that closed, and a page no more chains of polls
\* than one and what timers left behind.
THEOREM EdgesTypeCorrect == Spec => []TypeOK
<1>1. EdgesInv => TypeOK
  BY EdgesAssumption, PageIsSafe, WebIsSafe, SessionsAreSafe, RedisIsSafe, MemoryIsSafe,
     PersonaIsSafe, GoalsAreSafe, ModelIsSafe
  DEF EdgesInv, TypeOK, DiscordInv, SlackInv, TelegramInv, NodeInv, AuthInv, LimiterInv, BrowserInv,
      IdentityInv, HooksInv
<1> QED BY <1>1, EdgesAreKept, PTL

\* However sockets close, timers fire and stop races with both, a transport of Discord
\* or Slack has one socket or one timer, a browser that says it reconnects does, a
\* visible page polls, on one chain and one more for each kick that overtook a poll, a
\* web chat hears one end of a turn, and a stream in JSON mode opens its text once
\* (scheduleReconnect, tick, finish, prefillEmitted).
THEOREM OneChainEach == Spec => []SingleChain
<1>1. EdgesInv => SingleChain
  BY EdgesAssumption, SlackIsSafe, BrowserIsSafe, WebIsSafe, ModelIsSafe
  DEF EdgesInv, SingleChain, DiscordInv, PageInv
<1> QED BY <1>1, EdgesAreKept, PTL

\* Over crashes, races and failures what was promised is still there: the next event of
\* Discord's, the messages of Slack, Telegram and webhooks, a browser's answers, the
\* entries of a stream, the indexed memories, the changes of persona and goals, finished
\* turns, redirections, and the calls a model asked for.
THEOREM NothingIsLost == Spec => []NothingLost
<1>1. EdgesInv => NothingLost
  BY EdgesAssumption, BrowserIsSafe, RedisIsSafe, MemoryIsSafe, PersonaIsSafe, GoalsAreSafe,
     WebIsSafe, SessionsAreSafe, ModelIsSafe
  DEF EdgesInv, NothingLost, DiscordInv, SlackInv, TelegramInv, NodeInv, HooksInv
<1> QED BY <1>1, EdgesAreKept, PTL

\* Everyone is who they are taken for: only verified devices are spoken to, a challenge
\* earns one session and it survives a restart, no key is let through beyond its budget
\* however the clock is set (handleHello, verify, take), a browser holds the key of its
\* device, a turn its own text, a conversation one session, a result the call it answers,
\* and what nobody signed reaches no channel.
THEOREM OnlyTheAdmitted == Spec => []Admission
<1>1. EdgesInv => Admission
  BY EdgesAssumption, NodeIsSafe, AuthIsSafe, IdentityIsSafe, SessionsAreSafe, ModelIsSafe
  DEF EdgesInv, Admission, AuthInv, LimiterInv, PageInv, HooksInv
<1> QED BY <1>1, EdgesAreKept, PTL

\* take() never lets a key through more often than its burst and what the highest time
\* seen has refilled, for every capacity, rate, cost and clock: tokens and grants are
\* conserved, so a clock that steps back earns nothing twice.
THEOREM RateIsBounded == Spec => []Limiter!RateBounded
<1>1. EdgesInv => Limiter!RateBounded
  BY DEF EdgesInv, LimiterInv
<1> QED BY <1>1, EdgesAreKept, PTL

\* For any number of devices, challenges and restarts, a challenge earns at most one
\* session, in its time and for its device, and a session that is accepted would be
\* after a restart too, unless another process wrote the file (consumeChallenge,
\* handleDeviceAssert, persist, verifySessionToken).
THEOREM SessionsAreEarned == Spec => [](Auth!SessionEarned /\ Auth!SessionSurvivesRestart)
<1>1. EdgesInv => Auth!SessionEarned /\ Auth!SessionSurvivesRestart
  BY AuthIsSafe DEF EdgesInv, AuthInv
<1> QED BY <1>1, EdgesAreKept, PTL

\* For any number of consumers and entries, every entry since the group is there is in
\* one consumer's pending list until it is acked, and no handler sees it twice, over
\* lost replies and restarts (RedisStreamsBus.subscribe, its loop, and ack).
THEOREM EntriesStayAccounted == Spec => []Redis!EntriesAccounted
<1>1. EdgesInv => Redis!EntriesAccounted
  BY EdgesAssumption, RedisIsSafe DEF EdgesInv
<1> QED BY <1>1, EdgesAreKept, PTL

\* Every number of every persona, in memory and on disk, is its default and what the log
\* of changes adds to it, and within its bounds, whatever calls overlap (evolvePersona,
\* applyDelta, applyDecay; load, persist and import of FilePersonaManager).
THEOREM LogExplainsPersona == Spec => []Persona!Ledger
<1>1. EdgesInv => Persona!Ledger
  BY EdgesAssumption, PersonaIsSafe DEF EdgesInv
<1> QED BY <1>1, EdgesAreKept, PTL
=============================================================================

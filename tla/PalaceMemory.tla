---------------------------- MODULE PalaceMemory ----------------------------
(***************************************************************************)
(* One wing of the memory (memory/src/palace-memory.ts): turns are         *)
(* ingested piece by piece, each first into the wing's file and then, once *)
(* its embedding is there, into the index (ingest/pipeline.ts,             *)
(* db/store.ts); compactions roll old rows up into a summary               *)
(* (llm-compactor.ts); searches read rows, wait for the embedding of their *)
(* query and log the access (search/hybrid.ts).  All of them overlap at    *)
(* their awaits, and the process may stop or die at each.                  *)
(*                                                                         *)
(* Contents are the set of pieces a row tells of; scores are left open.    *)
(***************************************************************************)
EXTENDS Naturals, FiniteSets

CONSTANTS
  Turn,
  Parts,         \* pieces that chunkText makes of a turn
  Compaction,
  Search,
  MaxVariables,  \* parameters that a statement of SQLite may have
  MaxTime,       \* bound: distinct times of a behaviour
  MaxRows        \* bound: rows ever inserted

PalaceAssumption ==
  /\ Parts \in Nat \ {0} /\ MaxVariables \in Nat \ {0}
  /\ MaxTime \in Nat /\ MaxRows \in Nat

VARIABLES
  ready,        \* the store is open
  clock,
  rows,         \* memory_chunks: records [id, of, at]
  nextId,       \* generateId()
  accessLog,    \* memory_access_log.chunk_id, which REFERENCES memory_chunks(id)
  files,        \* pieces in the wing's markdown files
  ingest,       \* ingest[t]: [state, next], next the piece it is at
  compaction,   \* compaction[c]: [state, stale], stale the rows it read
  search,       \* search[s]: [state, hits], hits the rows it read
  indexed,      \* history: pieces that were inserted
  blanked       \* history: pieces whose summary the model left empty

vars == <<ready, clock, rows, nextId, accessLog, files, ingest, compaction, search,
          indexed, blanked>>

Piece == Turn \X (1..Parts)
Row == [id : 1..MaxRows, of : SUBSET Piece, at : 0..MaxTime]
Ids(rs) == {r.id : r \in rs}

TypeOK ==
  /\ ready \in BOOLEAN /\ clock \in 0..MaxTime
  /\ rows \subseteq Row /\ nextId \in 1..(MaxRows + 1)
  /\ accessLog \subseteq Ids(rows)
  /\ files \subseteq Piece /\ indexed \subseteq Piece /\ blanked \subseteq Piece
  /\ \A t \in Turn : ingest[t].next \in 1..(Parts + 1)

Init ==
  /\ ready = TRUE /\ clock = 0
  /\ rows = {} /\ nextId = 1 /\ accessLog = {} /\ files = {}
  /\ ingest = [t \in Turn |-> [state |-> "new", next |-> 1]]
  /\ compaction = [c \in Compaction |-> [state |-> "new", stale |-> {}]]
  /\ search = [s \in Search |-> [state |-> "new", hits |-> {}]]
  /\ indexed = {} /\ blanked = {}

Room == nextId <= MaxRows
NewRow(of) == [id |-> nextId, of |-> of, at |-> clock]

\* INSERT; the store throws when it is closed.
Insert(of) == Room /\ rows' = rows \cup {NewRow(of)} /\ nextId' = nextId + 1

-----------------------------------------------------------------------------
(* ingestTurn *)

IngestTo(t, state, next) == ingest' = [ingest EXCEPT ![t] = [state |-> state, next |-> next]]

\* chunkText, and how many lines the file has.
BeginIngest(t) ==
  /\ ingest[t].state = "new"
  /\ IngestTo(t, IF ready THEN "appending" ELSE "failed", 1)
  /\ UNCHANGED <<ready, clock, rows, nextId, accessLog, files, compaction, search, indexed, blanked>>

\* appendWingEntry, or it throws.
Append(t) ==
  /\ ingest[t].state = "appending"
  /\ \/ files' = files \cup {<<t, ingest[t].next>>} /\ IngestTo(t, "embedding", ingest[t].next)
     \/ IngestTo(t, "failed", ingest[t].next) /\ UNCHANGED files
  /\ UNCHANGED <<ready, clock, rows, nextId, accessLog, compaction, search, indexed, blanked>>

\* The embedding is there: the row is inserted.  Or embed or the closed store throws.
Index(t) ==
  LET k == ingest[t].next IN
  /\ ingest[t].state = "embedding"
  /\ \/ /\ ready /\ Insert({<<t, k>>})
        /\ indexed' = indexed \cup {<<t, k>>}
        /\ IngestTo(t, IF k = Parts THEN "done" ELSE "appending", k + 1)
     \/ /\ IngestTo(t, "failed", k)
        /\ UNCHANGED <<rows, nextId, indexed>>
  /\ UNCHANGED <<ready, clock, accessLog, files, compaction, search, blanked>>

-----------------------------------------------------------------------------
(* compact *)

CompactionTo(c, state) == compaction' = [compaction EXCEPT ![c].state = state]

\* listByWing(wing, cutoff)
BeginCompact(c, cutoff) ==
  LET stale == {r \in rows : r.at < cutoff} IN
  /\ compaction[c].state = "new"
  /\ compaction' = [compaction EXCEPT ![c] =
       [state |-> IF ~ready THEN "failed" ELSE IF stale = {} THEN "done" ELSE "summarising",
        stale |-> IF ready THEN stale ELSE {}]]
  /\ UNCHANGED <<ready, clock, rows, nextId, accessLog, files, ingest, search, indexed, blanked>>

\* summarize: the model answers, with nothing but blanks as it may be, or throws.
Summarise(c) ==
  /\ compaction[c].state = "summarising"
  /\ \/ CompactionTo(c, "appending")
     \/ CompactionTo(c, "appending blank")
     \/ CompactionTo(c, "failed")
  /\ UNCHANGED <<ready, clock, rows, nextId, accessLog, files, ingest, search, indexed, blanked>>

\* appendWingEntry for compacted.md.
AppendSummary(c) ==
  /\ \/ compaction[c].state = "appending" /\ CompactionTo(c, "embedding")
     \/ compaction[c].state = "appending blank" /\ CompactionTo(c, "embedding blank")
     \/ compaction[c].state \in {"appending", "appending blank"} /\ CompactionTo(c, "failed")
  /\ UNCHANGED <<ready, clock, rows, nextId, accessLog, files, ingest, search, indexed, blanked>>

Pieces(rs) == UNION {r.of : r \in rs}

Told(c) == IF compaction[c].state = "embedding" THEN Pieces(compaction[c].stale) ELSE {}

\* A DELETE that binds one parameter for each id.
Deletable(ids) == Cardinality(ids) <= MaxVariables

Embedded(c) == compaction[c].state \in {"embedding", "embedding blank"}

Blank(c) ==
  blanked' = IF compaction[c].state = "embedding" THEN blanked
             ELSE blanked \cup Pieces(compaction[c].stale)

\* The summary is inserted, then the rows it was made of are deleted, and with them
\* what the access log says of them (ON DELETE CASCADE).
Replace(c) ==
  LET stale == Ids(compaction[c].stale) IN
  /\ Embedded(c) /\ ready /\ Room
  /\ nextId' = nextId + 1
  /\ IF Deletable(stale)
     THEN /\ rows' = {r \in rows : r.id \notin stale} \cup {NewRow(Told(c))}
          /\ accessLog' = accessLog \ stale
          /\ CompactionTo(c, "done")
     ELSE /\ rows' = rows \cup {NewRow(Told(c))}
          /\ CompactionTo(c, "failed")
          /\ UNCHANGED accessLog
  /\ Blank(c)
  /\ UNCHANGED <<ready, clock, files, ingest, search, indexed>>

\* embed throws, or the insert into the closed store does.
ReplaceFails(c) ==
  /\ Embedded(c)
  /\ CompactionTo(c, "failed")
  /\ UNCHANGED <<ready, clock, rows, nextId, accessLog, files, ingest, search, indexed, blanked>>

-----------------------------------------------------------------------------
(* search *)

SearchTo(s, state, hits) == search' = [search EXCEPT ![s] = [state |-> state, hits |-> hits]]

\* The candidates are read before the query's embedding is awaited.
BeginSearch(s) ==
  /\ search[s].state = "new"
  /\ \/ ~ready /\ SearchTo(s, "failed", {})
     \/ ready /\ rows = {} /\ SearchTo(s, "done", {})
     \/ ready /\ rows # {} /\ \E hits \in SUBSET rows : SearchTo(s, "embedding", hits)
  /\ UNCHANGED <<ready, clock, rows, nextId, accessLog, files, ingest, compaction, indexed, blanked>>

\* recordAccess for one hit after the other: the INSERT for a row that is gone breaks
\* the foreign key, and the search throws after some of them.
RecordAccesses(s) ==
  LET hits == Ids(search[s].hits) IN
  /\ search[s].state = "embedding"
  /\ \/ /\ ready /\ hits \subseteq Ids(rows)
        /\ accessLog' = accessLog \cup hits
        /\ SearchTo(s, "done", search[s].hits)
     \/ /\ ready /\ ~(hits \subseteq Ids(rows))
        /\ \E logged \in SUBSET (hits \cap Ids(rows)) : accessLog' = accessLog \cup logged
        /\ SearchTo(s, "failed", {})
     \/ SearchTo(s, "failed", {}) /\ UNCHANGED accessLog
  /\ UNCHANGED <<ready, clock, rows, nextId, files, ingest, compaction, indexed, blanked>>

-----------------------------------------------------------------------------
(* The process *)

\* close(): what is under way finds the store closed.
Close ==
  /\ ready /\ ready' = FALSE
  /\ UNCHANGED <<clock, rows, nextId, accessLog, files, ingest, compaction, search, indexed, blanked>>

Busy(state) == state \notin {"new", "done", "failed"}

Lose ==
  /\ ingest' = [t \in Turn |-> IF Busy(ingest[t].state) THEN [ingest[t] EXCEPT !.state = "failed"]
                               ELSE ingest[t]]
  /\ compaction' = [c \in Compaction |-> IF Busy(compaction[c].state)
                                         THEN [state |-> "failed", stale |-> {}] ELSE compaction[c]]
  /\ search' = [s \in Search |-> IF Busy(search[s].state) THEN [state |-> "failed", hits |-> {}]
                                 ELSE search[s]]

\* The process dies and is started again: init() opens what is on disk.
Restart ==
  /\ ready' = TRUE /\ Lose
  /\ UNCHANGED <<clock, rows, nextId, accessLog, files, indexed, blanked>>

\* Variant: the rows are deleted before their summary is inserted.
CrashInReplaceEmpty(c) ==
  LET stale == Ids(compaction[c].stale) IN
  /\ Embedded(c) /\ ready
  /\ rows' = {r \in rows : r.id \notin stale}
  /\ accessLog' = accessLog \ stale
  /\ Blank(c) /\ Lose
  /\ UNCHANGED <<ready, clock, nextId, files, indexed>>

\* It dies between the INSERT of a summary and the DELETE.
CrashInReplace(c) ==
  /\ Embedded(c) /\ ready /\ Insert(Told(c))
  /\ Blank(c) /\ Lose
  /\ UNCHANGED <<ready, clock, accessLog, files, indexed>>

Tick ==
  /\ clock < MaxTime /\ clock' = clock + 1
  /\ UNCHANGED <<ready, rows, nextId, accessLog, files, ingest, compaction, search, indexed, blanked>>

Next ==
  \/ \E t \in Turn : BeginIngest(t) \/ Append(t) \/ Index(t)
  \/ \E c \in Compaction :
       \/ \E cutoff \in 1..clock : BeginCompact(c, cutoff)
       \/ Summarise(c) \/ AppendSummary(c) \/ Replace(c) \/ ReplaceFails(c) \/ CrashInReplace(c)
  \/ \E s \in Search : BeginSearch(s) \/ RecordAccesses(s)
  \/ Close \/ Restart \/ Tick

Spec == Init /\ [][Next]_vars

-----------------------------------------------------------------------------
(* Properties *)

\* compact rolls up what it deletes: a piece that was indexed is in a row or in the
\* summary of one, whatever compactions overlapped, failed or died, unless the model
\* answered with an empty summary; and whatever is indexed is in the wing's files.
NothingForgotten ==
  /\ indexed \subseteq Pieces(rows) \cup blanked
  /\ Pieces(rows) \subseteq files
=============================================================================

--------------------------------- MODULE Journal ---------------------------------
(***************************************************************************)
(* A table of the journal (`decisions`, or `llm_calls`) and those who work  *)
(* on it at the same time: the services that write lines, the technician    *)
(* who annotates one, the purge, and the export, which reads the table page *)
(* by page while the client downloads it (persistence/journal.py,           *)
(* services/retention.py, api/routes/export.py and decisions.py).           *)
(*                                                                          *)
(* A line is dated when it is built, numbered when it is inserted and seen  *)
(* when it is committed, so that the three orders differ.  Each page is a   *)
(* SELECT of its own, which sees the commits made so far.                   *)
(***************************************************************************)
EXTENDS Naturals, Sequences, FiniteSets

CONSTANTS
  Writers,     \* the cycle, the sandbox, the provider's test
  Exports,     \* downloads at a time
  Notes,       \* annotations
  Blank,       \* no annotation
  NoLine,
  Batch,       \* _CSV_BATCH
  Retentions,  \* days of retention that may be set; 0 stands for no purge
  MaxLines,    \* bound on the lines
  LastDay      \* bound on the clock

ASSUME NoteAssumption == Blank \notin Notes
ASSUME BatchAssumption == Batch \in Nat \ {0}
ASSUME BoundsAssumption == Retentions \subseteq Nat /\ {MaxLines, LastDay} \subseteq Nat \ {0}

VARIABLES
  now,
  lines,      \* the lines committed
  nextId,     \* the sequence of the primary key
  writing,    \* the lines being written
  annotating, \* the line a technician's request has loaded
  kept,       \* days of retention in force
  purging,    \* those the purge under way has read
  export,     \* the exports under way
  deleted     \* history: the ids of the lines purged

journalVars == <<now, lines, nextId, writing, annotating, kept, purging, export, deleted>>

--------------------------------------------------------------------------------
(* Types *)

Ids == 1..MaxLines

Times == 1..LastDay

Lines == [id : Ids, ts : Times, note : Notes \cup {Blank}]

ASSUME NoLineAssumption == NoLine \notin Lines

Drafts == [at : {"idle", "built", "inserted"}, ts : Times, id : Ids]

NoDraft == [at |-> "idle", ts |-> 1, id |-> 1]

\* `cursor` is the last line of the last page, `file` what was sent, `due` (history) the
\* lines that were there at the first page and have not been purged since.
Downloads == [at     : {"idle", "reading", "done"},
              cursor : Lines \cup {NoLine},
              file   : Seq(Lines),
              due    : SUBSET Ids]

NoExport == [at |-> "idle", cursor |-> NoLine, file |-> <<>>, due |-> {}]

JournalInit ==
  /\ now = 1
  /\ lines = {} /\ nextId = 1
  /\ writing = [w \in Writers |-> NoDraft]
  /\ annotating = NoLine
  /\ kept \in Retentions
  /\ purging = 0
  /\ export = [e \in Exports |-> NoExport]
  /\ deleted = {}

Draft(w, draft) == writing' = [writing EXCEPT ![w] = draft]

--------------------------------------------------------------------------------
(* Writing *)

\* record_decision, record_llm_call: `ts` is taken as the object is built,
Build(w) ==
  /\ writing[w].at = "idle"
  /\ Draft(w, [NoDraft EXCEPT !.at = "built", !.ts = now])
  /\ UNCHANGED <<now, lines, nextId, annotating, kept, purging, export, deleted>>

\* `id` by the INSERT,
Insert(w) ==
  /\ writing[w].at = "built"
  /\ nextId <= MaxLines
  /\ nextId' = nextId + 1
  /\ Draft(w, [writing[w] EXCEPT !.at = "inserted", !.id = nextId])
  /\ UNCHANGED <<now, lines, annotating, kept, purging, export, deleted>>

\* and the COMMIT shows the line to the others.
Commit(w) ==
  /\ writing[w].at = "inserted"
  /\ lines' = lines \cup {[id |-> writing[w].id, ts |-> writing[w].ts, note |-> Blank]}
  /\ Draft(w, NoDraft)
  /\ UNCHANGED <<now, nextId, annotating, kept, purging, export, deleted>>

\* The database fails: the line is lost, its number is not given again.
WriteFails(w) ==
  /\ writing[w].at # "idle"
  /\ Draft(w, NoDraft)
  /\ UNCHANGED <<now, lines, nextId, annotating, kept, purging, export, deleted>>

--------------------------------------------------------------------------------
(* Annotating *)

\* set_annotation loads the line, or answers 404.
AnnotationLoads ==
  /\ annotating = NoLine
  /\ \E l \in lines : annotating' = l
  /\ UNCHANGED <<now, lines, nextId, writing, kept, purging, export, deleted>>

\* Mutant: the line is merged into the table.
AnnotationMerges ==
  /\ annotating # NoLine
  /\ \E note \in Notes :
       lines' = {l \in lines : l.id # annotating.id} \cup {[annotating EXCEPT !.note = note]}
  /\ annotating' = NoLine
  /\ UNCHANGED <<now, nextId, writing, kept, purging, export, deleted>>

\* The UPDATE of the column; of a line purged meanwhile it finds no row, and fails.
AnnotationCommits ==
  /\ annotating # NoLine
  /\ \E note \in Notes :
       lines' = {IF l.id = annotating.id THEN [l EXCEPT !.note = note] ELSE l : l \in lines}
  /\ annotating' = NoLine
  /\ UNCHANGED <<now, nextId, writing, kept, purging, export, deleted>>

--------------------------------------------------------------------------------
(* Purging *)

\* The job reads the retention in a session of its own; without one there is no purge.
PurgeStarts ==
  /\ purging = 0 /\ kept > 0
  /\ purging' = kept
  /\ UNCHANGED <<now, lines, nextId, writing, annotating, kept, export, deleted>>

Expired == {l \in lines : l.ts + purging < now}

\* purge_decisions_before, purge_llm_calls_before: one DELETE.
PurgeDeletes ==
  /\ purging > 0
  /\ lines' = lines \ Expired
  /\ deleted' = deleted \cup {l.id : l \in Expired}
  /\ export' = [e \in Exports |-> [export[e] EXCEPT !.due = @ \ {l.id : l \in Expired}]]
  /\ purging' = 0
  /\ UNCHANGED <<now, nextId, writing, annotating, kept>>

\* PATCH /automations/retention.
SaveRetention ==
  /\ kept' \in Retentions
  /\ UNCHANGED <<now, lines, nextId, writing, annotating, purging, export, deleted>>

DayPasses ==
  /\ now < LastDay
  /\ now' = now + 1
  /\ UNCHANGED <<lines, nextId, writing, annotating, kept, purging, export, deleted>>

--------------------------------------------------------------------------------
(* Exporting *)

\* ORDER BY ts DESC, id DESC.
Precedes(l, m) == l.ts > m.ts \/ (l.ts = m.ts /\ l.id > m.id)

\* Mutant: the cursor is a date only.
RestByDate(cursor) == {l \in lines : cursor = NoLine \/ cursor.ts > l.ts}

\* The lines after the cursor.
Rest(cursor) == {l \in lines : cursor = NoLine \/ Precedes(cursor, l)}

\* The i-th of them, in that order.
Ranked(rest, i) == CHOOSE l \in rest : Cardinality({m \in rest : Precedes(m, l)}) = i - 1

\* LIMIT.
Page(rest) ==
  [i \in 1..(IF Cardinality(rest) > Batch THEN Batch ELSE Cardinality(rest)) |-> Ranked(rest, i)]

ExportStarts(e) ==
  /\ export[e].at \in {"idle", "done"}
  /\ export' = [export EXCEPT ![e] = [NoExport EXCEPT !.at = "reading"]]
  /\ UNCHANGED <<now, lines, nextId, writing, annotating, kept, purging, deleted>>

\* One turn of _pages_antechronologiques: a page, sent as it is read, or the end.
ExportReads(e) ==
  /\ export[e].at = "reading"
  /\ LET page == Page(Rest(export[e].cursor))
         due == IF export[e].cursor = NoLine THEN {l.id : l \in lines} ELSE export[e].due
     IN export' = [export EXCEPT ![e] =
          IF page = <<>> THEN [export[e] EXCEPT !.at = "done", !.due = due]
          ELSE [export[e] EXCEPT !.cursor = page[Len(page)], !.file = @ \o page, !.due = due]]
  /\ UNCHANGED <<now, lines, nextId, writing, annotating, kept, purging, deleted>>

\* The client leaves, or the database fails: the download is cut off.
ExportStops(e) ==
  /\ export[e].at = "reading"
  /\ export' = [export EXCEPT ![e] = NoExport]
  /\ UNCHANGED <<now, lines, nextId, writing, annotating, kept, purging, deleted>>

JournalNext ==
  \/ \E w \in Writers : Build(w) \/ Insert(w) \/ Commit(w) \/ WriteFails(w)
  \/ AnnotationLoads \/ AnnotationCommits
  \/ PurgeStarts \/ PurgeDeletes \/ SaveRetention \/ DayPasses
  \/ \E e \in Exports : ExportStarts(e) \/ ExportReads(e) \/ ExportStops(e)

JournalSpec == JournalInit /\ [][JournalNext]_journalVars

--------------------------------------------------------------------------------
(* Properties *)

\* Type correctness; a number names one line.
JournalTypeOK ==
  /\ now \in Times /\ nextId \in 1..(MaxLines + 1)
  /\ lines \subseteq Lines /\ \A l, m \in lines : l.id = m.id => l = m
  /\ writing \in [Writers -> Drafts]
  /\ annotating \in Lines \cup {NoLine}
  /\ kept \in Retentions /\ purging \in Retentions \cup {0}
  /\ export \in [Exports -> Downloads]
  /\ deleted \subseteq Ids

\* "Aucune troncature" (journal.py:318): whatever is written and purged between two pages,
\* an export that ends holds every line that was there all along, and it holds no line
\* twice, lines of the same date included (journal.py:270-273).
ExportIsComplete ==
  \A e \in Exports :
    LET file == export[e].file IN
    /\ export[e].at = "done" => \A id \in export[e].due : \E i \in DOMAIN file : file[i].id = id
    /\ \A i, j \in DOMAIN file : i < j => file[i].id # file[j].id

\* What the purge has erased does not come back, though a technician's request may hold
\* the line it loaded before (set_annotation): erasure is what the DPO is promised.
PurgedStaysPurged == \A l \in lines : l.id \notin deleted
================================================================================

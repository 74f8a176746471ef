---------------------------- MODULE ReferentialSync ----------------------------
(***************************************************************************)
(* The scope of the engine: the scan of GLPI, the choices of the            *)
(* administrator, the absences, and what a cycle reads of them              *)
(* (services/referentials.py, services/absences.py, their routes, and       *)
(* get_referentials of the GLPI connectors).                                *)
(*                                                                          *)
(* A scan and a cycle run on the event loop, the console's saves in threads *)
(* of their own: between the SELECT and the COMMIT of one, the others may   *)
(* COMMIT.  SQLAlchemy writes the columns whose value differs from the one  *)
(* that was loaded and leaves the others alone.                             *)
(***************************************************************************)
EXTENDS Naturals, FiniteSets

CONSTANTS
  Categories, Entities, Technicians, Groups,   \* GLPI objects, by kind
  Sheets,         \* actors who have domains or a description of their own
  Modes,          \* execution modes an entity may be given
  None,           \* NULL
  AbsenceLists,   \* lists of absences the console may submit
  ModeChoices,    \* settings it may submit for an entity
  SavedKinds,     \* kinds whose choice it may submit
  Savers,         \* slots for concurrent saves
  Page,           \* rows of one kind that a scan reads at most
  Today,          \* bound on the day
  Keep,           \* days an ended absence is kept
  MaxSaves, MaxScans, MaxChanges   \* bounds on saves, scans and edits of GLPI

Objects == Categories \cup Entities \cup Technicians \cup Groups
Actors == Technicians \cup Groups
Kinds == {"category", "technician", "group", "entity"}

OfKind(kind) ==
  CASE kind = "category" -> Categories
    [] kind = "technician" -> Technicians
    [] kind = "group" -> Groups
    [] kind = "entity" -> Entities

\* What the administrator decides for one entity.
Settings == [mode : Modes \cup {None}, group : Groups \cup {None},
             technician : Technicians \cup {None}]

Default == [mode |-> None, group |-> None, technician |-> None]

Days == 1..Today

AbsenceItems == [technician : Technicians, from : Days, to : Days,
                 replacement : Technicians \cup {None}]

ASSUME ReferentialAssumption ==
  /\ None \notin Objects \cup Modes
  /\ Sheets \subseteq Actors /\ Technicians \cap Groups = {}
  /\ AbsenceLists \subseteq SUBSET AbsenceItems
  /\ ModeChoices \subseteq Settings
  /\ SavedKinds \subseteq Kinds
  /\ Page \in Nat \ {0}
  /\ Today \in Nat \ {0} /\ {Keep, MaxSaves, MaxScans, MaxChanges} \subseteq Nat

VARIABLES
  glpi,       \* objects GLPI knows
  open,       \* GLPI holds the session of the current scan open
  scan,       \* the scan under way
  dated,      \* updated_at of each row of the cache, as a rank; 0: no such row
  chosen,     \* rows selected (categories, entities) or eligible (actors)
  settings,   \* the columns of the entities' rows
  absences,   \* rows of technician_absence; `save` stands for their ids
  save,       \* the saves under way
  traced,     \* values of each entity's settings that the audit log names
  cycle,      \* what the cycle under way has read
  today,
  saves, scans, changes,   \* used so far
  cut,        \* history: entities whose save died before its audit line
  raced,      \* history: entities of which two saves overlapped
  leaked      \* history: the session in `open` could not be closed, or was never known

glpiSide == <<glpi, open, changes>>
base == <<dated, chosen, settings, absences, traced>>
history == <<cut, raced, leaked>>
vars == <<glpiSide, scan, base, save, cycle, today, saves, scans, history>>

--------------------------------------------------------------------------------
(* The cache *)

Known == {o \in Objects : dated[o] > 0}

NoScan == [at |-> "idle", seen |-> {}, there |-> {}, chosen |-> {},
           settings |-> [e \in Entities |-> Default]]

NoSave == [at |-> "idle", op |-> "none", kind |-> "none", on |-> {}, loaded |-> {},
           settings |-> [e \in Entities |-> Default], before |-> [e \in Entities |-> Default],
           todo |-> {}]

NoCycle == [at |-> "idle", day |-> 1, absents |-> {}, away |-> {}, interims |-> {},
            described |-> {}, actors |-> {}, moved |-> {}]

Init ==
  /\ glpi = Objects /\ open = FALSE
  /\ scan = NoScan
  /\ dated = [o \in Objects |-> 0] /\ chosen = {}
  /\ settings = [e \in Entities |-> Default]
  /\ absences = {}
  /\ save = [s \in Savers |-> NoSave]
  /\ traced = [e \in Entities |-> {}]
  /\ cycle = NoCycle
  /\ today = 1
  /\ saves = 0 /\ scans = 0 /\ changes = 0
  /\ cut = {} /\ raced = {} /\ leaked = FALSE

(* Absences *)

Items == {a.item : a \in absences}

\* active_on: the bounds are included.
Active(day) == {i \in Items : i.from <= day /\ day <= i.to}

Absent(day) == {i.technician : i \in Active(day)}

\* interim_context: one hop, a replacement who is absent replaces nobody.
Interims(day, absents) ==
  {<<i.replacement, i.technician>> :
     i \in {j \in Active(day) : j.replacement # None /\ j.replacement \notin absents}}

\* All that a cycle may read of an actor.
Naming(o, items) == {i \in items : o \in {i.technician, i.replacement}}

Status(o) == <<o \in chosen, Naming(o, Items), Naming(o, Active(today))>>

\* History: the actors of whom something has changed since the cycle under way began.
Moves ==
  cycle' = IF cycle.at = "idle" THEN cycle
           ELSE [cycle EXCEPT !.moved = @ \cup {o \in Actors : Status(o)' # Status(o)}]

--------------------------------------------------------------------------------
(* The scan *)

\* build_connector, then init_session; when GLPI refuses there is nothing to close.
ScanStarts ==
  /\ scan.at = "idle" /\ scans < MaxScans
  /\ scans' = scans + 1
  /\ open' = TRUE /\ leaked' = FALSE
  /\ scan' = [NoScan EXCEPT !.at = "category", !.there = glpi]
  /\ UNCHANGED <<glpi, changes, base, save, cycle, today, saves, cut, raced>>

\* The answer to init_session is lost or carries no token: GLPI holds a session that the
\* program does not know, and the scan ends there.
ScanStartLost ==
  /\ scan.at = "idle" /\ scans < MaxScans
  /\ scans' = scans + 1
  /\ open' = TRUE /\ leaked' = TRUE
  /\ UNCHANGED <<glpi, changes, scan, base, save, cycle, today, saves, cut, raced>>

\* The requests of get_referentials, one after the other.
Following == [category |-> "technician", technician |-> "group",
              group |-> "entity", entity |-> "close"]

\* A kind with more rows than the page comes back truncated, with a warning only.
Pages(kind) ==
  LET all == glpi \cap OfKind(kind)
  IN  {read \in SUBSET all : Cardinality(read) = (IF Cardinality(all) > Page THEN Page ELSE Cardinality(all))}

ScanReads ==
  /\ scan.at \in Kinds
  /\ \E read \in Pages(scan.at) :
       scan' = [scan EXCEPT !.at = Following[scan.at], !.seen = @ \cup read]
  /\ UNCHANGED <<glpiSide, base, save, cycle, today, saves, scans, history>>

\* Any error of a request ends the scan; leaving the client closes the session.
ScanFails ==
  /\ scan.at \in Kinds
  /\ scan' = [scan EXCEPT !.at = "abort"]
  /\ UNCHANGED <<glpiSide, base, save, cycle, today, saves, scans, history>>

Closed == IF scan.at = "close" THEN [scan EXCEPT !.at = "select"] ELSE NoScan

\* Mutant: the session is closed only when the scan went well.
ScanClosesIfDone ==
  /\ scan.at \in {"close", "abort"}
  /\ open' = (scan.at = "abort")
  /\ scan' = Closed
  /\ UNCHANGED <<glpi, changes, base, save, cycle, today, saves, scans, history>>

\* kill_session.
ScanCloses ==
  /\ scan.at \in {"close", "abort"}
  /\ open' = FALSE
  /\ scan' = Closed
  /\ UNCHANGED <<glpi, changes, base, save, cycle, today, saves, scans, history>>

\* The request that closes the session is lost, which is ignored, or the process dies.
ScanLeaks ==
  /\ \/ scan.at \in {"close", "abort"} /\ scan' = Closed
     \/ scan.at \in Kinds /\ scan' = NoScan
  /\ leaked' = TRUE
  /\ UNCHANGED <<glpiSide, base, save, cycle, today, saves, scans, cut, raced>>

\* cache_size and the one SELECT of sync.
ScanSelects ==
  /\ scan.at = "select"
  /\ scan' = [scan EXCEPT !.at = "commit", !.chosen = chosen, !.settings = settings]
  /\ UNCHANGED <<glpiSide, base, save, cycle, today, saves, scans, history>>

Dates == [o \in Objects |-> IF o \in scan.seen THEN scans ELSE dated[o]]

\* Mutant: the rows are written whole, as they were read.
ScanCommitsRows ==
  /\ scan.at = "commit"
  /\ dated' = Dates
  /\ chosen' = (chosen \ scan.seen) \cup (scan.seen \cap scan.chosen)
  /\ settings' = [e \in Entities |-> IF e \in scan.seen THEN scan.settings[e] ELSE settings[e]]
  /\ scan' = NoScan
  /\ UNCHANGED <<glpiSide, absences, save, traced, cycle, today, saves, scans, history>>

\* sync: new objects are inserted, those seen are dated, those gone are kept as they are.
\* A scan that saw nothing writes nothing, and is reported as failed over a known cache.
ScanCommits ==
  /\ scan.at = "commit"
  /\ dated' = Dates
  /\ scan' = NoScan
  /\ UNCHANGED <<glpiSide, chosen, settings, absences, save, traced, cycle, today, saves, scans, history>>

--------------------------------------------------------------------------------
(* Saves of the console *)

SaveMoves(s, to) == save' = [save EXCEPT ![s] = to]

Begins(s, body) ==
  /\ save[s].at = "idle" /\ saves < MaxSaves
  /\ saves' = saves + 1
  /\ SaveMoves(s, body)
  /\ UNCHANGED <<glpiSide, scan, base, cycle, today, scans, history>>

\* set_eligibility and set_scope load the rows of the kind...
ChoiceBegins(s) ==
  \E kind \in SavedKinds : \E on \in SUBSET (Known \cap OfKind(kind)) :
    /\ Known \cap OfKind(kind) # {}
    /\ Begins(s, [NoSave EXCEPT !.at = "commit", !.op = "choice", !.kind = kind, !.on = on,
                                !.loaded = chosen \cap OfKind(kind)])

\* ... and write those whose value differs from the one loaded.
ChoiceCommits(s) ==
  /\ save[s].at = "commit" /\ save[s].op = "choice"
  /\ chosen' = (chosen \ (save[s].loaded \ save[s].on)) \cup (save[s].on \ save[s].loaded)
  /\ SaveMoves(s, NoSave)
  /\ UNCHANGED <<glpiSide, scan, dated, settings, absences, traced, today, saves, scans, history>>
  /\ Moves

\* save_modes: a fallback out of the scope is refused; the rows are then kept as `avant`.
EligibleTargets(setting) ==
  /\ setting.group # None => setting.group \in chosen
  /\ setting.technician # None => setting.technician \in chosen

ModesBegin(s) ==
  \E e \in Entities \cap Known, setting \in ModeChoices :
    /\ \A f \in Known \cap Entities : EligibleTargets([settings EXCEPT ![e] = setting][f])
    /\ Begins(s, [NoSave EXCEPT !.at = "commit", !.op = "modes", !.todo = Known \cap Entities,
                                !.settings = [settings EXCEPT ![e] = setting],
                                !.before = settings])

\* Mutant: both targets of the body are written.
FallbackBoth(setting) == setting

\* A fallback group erases the fallback technician.
Fallback(setting) == IF setting.group # None THEN [setting EXCEPT !.technician = None] ELSE setting

\* Only the columns that differ from what was loaded are written.
Merge(body, loaded, now) ==
  [f \in DOMAIN now |-> IF body[f] # loaded[f] THEN body[f] ELSE now[f]]

ModesCommit(s) ==
  /\ save[s].at = "commit" /\ save[s].op = "modes"
  /\ settings' = [e \in Entities |->
       IF e \in save[s].todo
       THEN Merge(Fallback(save[s].settings[e]), save[s].before[e], settings[e])
       ELSE settings[e]]
  /\ raced' = raced \cup {e \in save[s].todo : settings[e] # save[s].before[e]}
  /\ SaveMoves(s, [save[s] EXCEPT !.at = "audit"])
  /\ UNCHANGED <<glpiSide, scan, dated, chosen, absences, traced, cycle, today, saves, scans, cut, leaked>>

\* Mutant: only the mode is compared.
ChangedMode(before, now) == before.mode # now.mode

\* One record_action, hence one COMMIT, for each entity whose row is no longer `avant`.
Changed(before, now) == before # now

\* _mode_repr: what a line says of a row names one target, the group first.
Repr(setting) == IF setting.group # None THEN [setting EXCEPT !.technician = None] ELSE setting

ModesAudit(s) ==
  /\ save[s].at = "audit"
  /\ \E e \in save[s].todo :
       /\ traced' = IF Changed(save[s].before[e], settings[e])
                    THEN [traced EXCEPT ![e] = @ \cup {Repr(settings[e])}] ELSE traced
       /\ SaveMoves(s, IF save[s].todo = {e} THEN NoSave ELSE [save[s] EXCEPT !.todo = @ \ {e}])
  /\ UNCHANGED <<glpiSide, scan, dated, chosen, settings, absences, cycle, today, saves, scans, history>>

\* _valide: periods, an eligible replacement who is not the absent one and, within the
\* list submitted, not absent at the same time.
Overlap(a, b) == a.from <= b.to /\ b.from <= a.to

Valid(list) ==
  \A a \in list :
    /\ a.from <= a.to
    /\ a.replacement # None =>
         /\ a.replacement \in chosen /\ a.replacement # a.technician
         /\ \A b \in list : b.technician = a.replacement => ~Overlap(a, b)

\* Rows are told apart by their ids: those of one save share its number.
AbsencesBegin(s) ==
  \E list \in AbsenceLists :
    /\ Valid(list)
    /\ Begins(s, [NoSave EXCEPT !.at = "commit", !.op = "absences", !.loaded = absences,
                                !.on = {[item |-> a, id |-> saves + 1] : a \in list}])

\* replace_all deletes the rows it has loaded; a row deleted meanwhile is only a warning.
AbsencesCommit(s) ==
  /\ save[s].at = "commit" /\ save[s].op = "absences"
  /\ absences' = (absences \ save[s].loaded) \cup save[s].on
  /\ SaveMoves(s, NoSave)
  /\ UNCHANGED <<glpiSide, scan, dated, chosen, settings, traced, today, saves, scans, history>>
  /\ Moves

\* The request dies: an error of the database, or the process is killed.
SaveDies(s) ==
  /\ save[s].at # "idle"
  /\ cut' = IF save[s].at = "audit" THEN cut \cup save[s].todo ELSE cut
  /\ SaveMoves(s, NoSave)
  /\ UNCHANGED <<glpiSide, scan, base, cycle, today, saves, scans, raced, leaked>>

--------------------------------------------------------------------------------
(* The cycle *)

\* What a cycle has read and no longer needs is forgotten.
CycleReads(from, to) ==
  /\ cycle.at = from
  /\ cycle' = to
  /\ UNCHANGED <<glpiSide, scan, base, save, today, saves, scans, history>>

\* The triage service is built first, and the prose with it: a SELECT at a time, all of
\* them for the day it was when it began.
CycleBegins == CycleReads("idle", [NoCycle EXCEPT !.at = "absents", !.day = today])

ProseReadsAbsents ==
  CycleReads("absents", [cycle EXCEPT !.at = "away", !.absents = Absent(cycle.day)])

\* interim_context reads the absent again, then the absences.
ProseReadsAway ==
  CycleReads("away", [cycle EXCEPT !.at = "interims", !.away = Absent(cycle.day)])

ProseReadsInterims ==
  CycleReads("interims", [cycle EXCEPT !.at = "technicians", !.away = {}, !.day = 1,
                                       !.interims = Interims(cycle.day, cycle.away)])

\* _fiche: who has no domain, no description and stands in for nobody is not described.
Described(eligible, interims) ==
  {o \in eligible : o \in Sheets \/ \E p \in interims : p[1] = o}

TellsOf(present) ==
  CycleReads("technicians", [cycle EXCEPT !.at = "groups", !.absents = {},
                                          !.described = Described(present, cycle.interims),
                                          !.interims = {p \in @ : p[1] \in present}])

\* Mutant: the absent are described as well.
ProseReadsAllTechnicians == TellsOf(Technicians \cap chosen)

ProseReadsTechnicians == TellsOf((Technicians \cap chosen) \ cycle.absents)

ProseReadsGroups ==
  CycleReads("groups", [cycle EXCEPT !.at = "scope",
                                     !.described = @ \cup Described(Groups \cap chosen, {})])

\* effective_referentials: the whitelist comes next, in a session of its own and for the
\* day it is by then.
ScopeBegins == CycleReads("scope", [cycle EXCEPT !.at = "leave", !.day = today])

ScopeReadsAbsents ==
  CycleReads("leave", [cycle EXCEPT !.at = "members", !.absents = Absent(cycle.day), !.day = 1])

ScopeReadsTechnicians ==
  CycleReads("members", [cycle EXCEPT !.at = "teams", !.absents = {},
                                      !.actors = (Technicians \cap chosen) \ cycle.absents])

ScopeReadsGroups ==
  CycleReads("teams", [cycle EXCEPT !.at = "triage", !.actors = @ \cup (Groups \cap chosen)])

\* The cycle is over, or one of its reads failed.
CycleEnds == cycle.at # "idle" /\ CycleReads(cycle.at, NoCycle)

--------------------------------------------------------------------------------
(* Time, and GLPI *)

DayPasses ==
  /\ today < Today
  /\ today' = today + 1
  /\ UNCHANGED <<glpiSide, scan, base, save, saves, scans, history>>
  /\ Moves

\* purge_ended_before, in its own transaction.
Purge ==
  /\ \E a \in absences : a.item.to + Keep < today
  /\ absences' = {a \in absences : a.item.to + Keep >= today}
  /\ UNCHANGED <<glpiSide, scan, dated, chosen, settings, traced, save, today, saves, scans, history>>
  /\ Moves

\* Somebody creates or deletes an object in GLPI.
GlpiChanges ==
  /\ changes < MaxChanges
  /\ changes' = changes + 1
  /\ \E o \in Objects :
       /\ glpi' = IF o \in glpi THEN glpi \ {o} ELSE glpi \cup {o}
       /\ scan' = IF scan.at = "idle" THEN scan ELSE [scan EXCEPT !.there = @ \cup {o}]
  /\ UNCHANGED <<open, base, save, cycle, today, saves, scans, history>>

CycleStep ==
  \/ CycleBegins \/ ProseReadsAbsents \/ ProseReadsAway \/ ProseReadsInterims
  \/ ProseReadsTechnicians \/ ProseReadsGroups
  \/ ScopeBegins \/ ScopeReadsAbsents \/ ScopeReadsTechnicians \/ ScopeReadsGroups
  \/ CycleEnds

SaveStep(s) ==
  \/ ChoiceBegins(s) \/ ChoiceCommits(s)
  \/ ModesBegin(s) \/ ModesCommit(s) \/ ModesAudit(s)
  \/ AbsencesBegin(s) \/ AbsencesCommit(s)
  \/ SaveDies(s)

ScanStep ==
  \/ ScanStarts \/ ScanStartLost \/ ScanReads \/ ScanFails \/ ScanCloses \/ ScanLeaks \/ ScanSelects \/ ScanCommits

Next ==
  \/ ScanStep
  \/ \E s \in Savers : SaveStep(s)
  \/ CycleStep
  \/ DayPasses \/ Purge \/ GlpiChanges

Spec == Init /\ [][Next]_vars
--------------------------------------------------------------------------------
(* Properties *)

Scans == [at : Kinds \cup {"idle", "close", "abort", "select", "commit"},
          seen : SUBSET Objects, there : SUBSET Objects, chosen : SUBSET Objects,
          settings : [Entities -> Settings]]

Rows == [item : AbsenceItems, id : 1..MaxSaves]

Saves == [at : {"idle", "commit", "audit"}, op : {"none", "choice", "modes", "absences"},
          kind : Kinds \cup {"none"}, on : SUBSET (Objects \cup Rows),
          loaded : SUBSET (Objects \cup Rows), settings : [Entities -> Settings],
          before : [Entities -> Settings], todo : SUBSET Entities]

Cycles == [at : {"idle", "absents", "away", "interims", "technicians", "groups", "scope",
                 "leave", "members", "teams", "triage"},
           day : Days, absents : SUBSET Technicians, away : SUBSET Technicians,
           interims : SUBSET (Technicians \X Technicians), described : SUBSET Actors,
           actors : SUBSET Actors, moved : SUBSET Actors]

\* Type correctness of the cache, of the absences and of what is under way: only known
\* rows are chosen, the save of a kind writes rows of the cache, that of the absences rows
\* of its own.
TypeOK ==
  /\ glpi \subseteq Objects /\ open \in BOOLEAN
  /\ scan \in Scans /\ (scan.at # "idle" => scans > 0)
  /\ dated \in [Objects -> 0..MaxScans] /\ chosen \subseteq Known
  /\ settings \in [Entities -> Settings] /\ traced \in [Entities -> SUBSET Settings]
  /\ absences \subseteq Rows
  /\ save \in [Savers -> Saves]
  /\ \A s \in Savers : /\ save[s].op = "choice" => save[s].on \subseteq Known
                       /\ save[s].op = "absences" => save[s].on \subseteq Rows
  /\ cycle \in Cycles
  /\ today \in Days
  /\ saves \in 0..MaxSaves /\ scans \in 0..MaxScans /\ changes \in 0..MaxChanges
  /\ cut \subseteq Entities /\ raced \subseteq Entities /\ leaked \in BOOLEAN

\* Whatever saves overlap, what is in force for an entity (its mode, which may let the
\* LLM answer users, and its fallback) is named by a line of the audit log, as far as a
\* line goes: of two fallback targets, which overlapping saves may leave (OneFallback), it
\* names the group.  The save that owes the line may still be under way, or have died
\* before it (save_modes, _mode_repr).
ModesAreTraced ==
  \A e \in Entities :
    settings[e] # Default =>
      \/ Repr(settings[e]) \in traced[e]
      \/ e \in cut
      \/ \E s \in Savers : save[s].at = "audit" /\ e \in save[s].todo

\* An entity has one fallback target at most (set_modes); the columns being written one
\* by one, two saves that overlap are the only way to both targets.
OneFallback ==
  \A e \in Entities :
    settings[e].group # None /\ settings[e].technician # None => e \in raced

\* Whatever is saved, purged or begins between the SELECTs of a cycle, of an actor who is
\* not concerned it describes to the LLM only one it may propose, and all it should: who
\* stands in for somebody is told so, may be proposed, and is never told of a technician
\* who may be proposed as well (routing_prose, effective_referentials).
RoutingFollowsWhitelist ==
  cycle.at = "triage" =>
    \A o \in Actors \ cycle.moved :
      /\ o \in cycle.described <=>
           o \in cycle.actors /\ (o \in Sheets \/ \E p \in cycle.interims : p[1] = o)
      /\ o \in cycle.actors =>
           \A i \in Active(today) : i.replacement = o => <<o, i.technician>> \in cycle.interims
      /\ \A p \in cycle.interims : /\ p[1] = o => o \in cycle.actors
                                   /\ p[2] = o => o \notin cycle.actors

\* A scan that is over, whatever became of it, leaves no session open at GLPI unless the
\* request that opens it or the one that closes it was lost, or the process died
\* (GlpiClient.__aenter__, __aexit__).
SessionsAreClosed ==
  open /\ scan.at \in {"idle", "select", "commit"} => leaked

\* A scan certifies only objects that GLPI knew at some time of it, one that has gone
\* keeps its old date, and no choice the administrator saves meanwhile is undone (sync).
ScanOnlyConfirms ==
  [][dated' # dated =>
       /\ \A o \in Objects : dated'[o] # dated[o] => o \in scan.there
       /\ chosen' = chosen /\ settings' = settings]_vars
================================================================================

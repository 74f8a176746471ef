----------------------- MODULE ReferentialSyncProofs -----------------------
(***************************************************************************)
(* Proofs about ReferentialSync, for any objects of GLPI, any number of    *)
(* saves, scans and absences: types, the audit of the entities' settings,  *)
(* their fallbacks, what the LLM is told against what it may propose, the  *)
(* sessions of GLPI, and what a scan certifies.                            *)
(***************************************************************************)
EXTENDS ReferentialSync, TLAPS

LEMMA Blank ==
  /\ Default \in Settings /\ [e \in Entities |-> Default] \in [Entities -> Settings]
  /\ NoScan \in Scans /\ NoScan.at = "idle"
  /\ NoSave \in Saves /\ NoSave.at = "idle" /\ NoSave.op = "none"
  /\ NoCycle \in Cycles /\ NoCycle.at = "idle"
<1>1. Default \in Settings
  BY DEF Default, Settings
<1>2. NoScan \in Scans /\ NoScan.at = "idle"
  BY <1>1 DEF NoScan, Scans
<1>3. NoSave \in Saves /\ NoSave.at = "idle" /\ NoSave.op = "none"
  BY <1>1 DEF NoSave, Saves
<1>4. NoCycle \in Cycles /\ NoCycle.at = "idle"
  BY ReferentialAssumption DEF NoCycle, Cycles, Days
<1> QED
  BY <1>1, <1>2, <1>3, <1>4

\* A save writes the columns that differ from those it has loaded, and cannot write back
\* what it has loaded.
LEMMA MergeType ==
  ASSUME NEW body \in Settings, NEW loaded \in Settings, NEW now \in Settings
  PROVE  /\ Merge(body, loaded, now) \in Settings
         /\ Merge(body, loaded, now) # now => Merge(body, loaded, now) # loaded
         /\ now = loaded => Merge(body, loaded, now) = body
<1>1. DOMAIN now = {"mode", "group", "technician"}
  BY DEF Settings
<1> DEFINE m == Merge(body, loaded, now)
<1>2. m = [mode |-> IF body.mode # loaded.mode THEN body.mode ELSE now.mode,
           group |-> IF body.group # loaded.group THEN body.group ELSE now.group,
           technician |-> IF body.technician # loaded.technician THEN body.technician
                          ELSE now.technician]
  BY <1>1 DEF Merge
<1>3. \A s \in Settings : s = [mode |-> s.mode, group |-> s.group, technician |-> s.technician]
  BY DEF Settings
<1> HIDE DEF m
<1>4. m \in Settings
  BY <1>2 DEF Settings
<1>5. now = loaded => m = body
  BY <1>2, <1>3
<1>6. m # now => m # loaded
  BY <1>2, <1>3
<1> QED
  BY <1>4, <1>5, <1>6 DEF m

\* What a line says of a row is a setting in its turn.
LEMMA ReprType ==
  ASSUME NEW setting \in Settings
  PROVE  Repr(setting) \in Settings
BY DEF Repr, Settings

LEMMA FallbackType ==
  ASSUME NEW setting \in Settings
  PROVE  /\ Fallback(setting) \in Settings
         /\ Fallback(setting).group = None \/ Fallback(setting).technician = None
BY DEF Fallback, Settings

\* A column is never forgotten by the cache.
LEMMA KnownGrows ==
  ASSUME TypeOK, UNCHANGED dated \/ ScanCommits
  PROVE  Known \subseteq Known' /\ dated' \in [Objects -> 0..MaxScans]
<1>1. CASE UNCHANGED dated
  BY <1>1 DEF Known, TypeOK
<1>2. CASE ScanCommits
  <2>1. scans \in 0..MaxScans /\ scans > 0
    BY <1>2 DEF TypeOK, ScanCommits
  <2>2. dated' = [o \in Objects |-> IF o \in scan.seen THEN scans ELSE dated[o]]
    BY <1>2 DEF ScanCommits, Dates
  <2> QED
    BY <2>1, <2>2 DEF Known, TypeOK
<1> QED
  BY <1>1, <1>2

\* What a step makes of the scan, of the cache's dates and of the session.
LEMMA ScanType ==
  ASSUME TypeOK, ScanStep \/ GlpiChanges
  PROVE  /\ scan' \in Scans /\ (scan'.at # "idle" => scans' > 0)
         /\ scans' \in 0..MaxScans /\ open' \in BOOLEAN /\ leaked' \in BOOLEAN
         /\ dated' \in [Objects -> 0..MaxScans] /\ Known \subseteq Known'
         /\ glpi' \subseteq Objects
<1> USE ReferentialAssumption, Blank DEF TypeOK, glpiSide, base, history
<1>1. scans \in Nat /\ MaxScans \in Nat
  OBVIOUS
<1>2. CASE ScanStarts
  <2>1. [NoScan EXCEPT !.at = "category", !.there = glpi] \in Scans
    BY DEF Scans, Kinds
  <2>2. scans' \in 0..MaxScans /\ scans' > 0
    BY <1>1, <1>2 DEF ScanStarts
  <2>3. UNCHANGED <<dated, glpi>> /\ open' \in BOOLEAN /\ leaked' \in BOOLEAN /\ scan' \in Scans
    BY <1>2, <2>1 DEF ScanStarts
  <2> QED
    BY <2>2, <2>3, KnownGrows
<1>9. CASE ScanStartLost
  <2>1. scans' \in 0..MaxScans /\ scans' > 0
    BY <1>1, <1>9 DEF ScanStartLost
  <2>2. UNCHANGED <<dated, glpi, scan>> /\ open' \in BOOLEAN /\ leaked' \in BOOLEAN
    BY <1>9 DEF ScanStartLost
  <2> QED
    BY <2>1, <2>2, KnownGrows
<1>3. CASE ScanReads
  <2>1. PICK read \in Pages(scan.at) :
          scan' = [scan EXCEPT !.at = Following[scan.at], !.seen = @ \cup read]
    BY <1>3 DEF ScanReads
  <2>2. read \subseteq Objects /\ scan.at \in Kinds
    BY <1>3, <2>1 DEF Pages, ScanReads
  <2>3. Following[scan.at] \in {"technician", "group", "entity", "close"}
    BY <2>2 DEF Following, Kinds
  <2>4. scan' \in Scans
    BY <2>1, <2>2, <2>3 DEF Scans, Kinds
  <2> QED
    BY <1>3, <2>2, <2>4, KnownGrows DEF ScanReads, Kinds
<1>4. CASE ScanFails
  <2>1. scan' \in Scans
    BY <1>4 DEF ScanFails, Scans
  <2> QED
    BY <1>4, <2>1, KnownGrows DEF ScanFails, Kinds
<1>5. CASE ScanCloses \/ ScanLeaks
  <2>1. Closed \in Scans
    BY DEF Closed, Scans
  <2>2. scan' \in Scans /\ scan.at # "idle"
    BY <1>5, <2>1 DEF ScanCloses, ScanLeaks, Kinds
  <2> QED
    BY <1>5, <2>2, KnownGrows DEF ScanCloses, ScanLeaks
<1>6. CASE ScanSelects
  <2>1. chosen \subseteq Objects
    BY DEF Known
  <2>2. scan' \in Scans
    BY <1>6, <2>1 DEF ScanSelects, Scans
  <2> QED
    BY <1>6, <2>2, KnownGrows DEF ScanSelects
<1>7. CASE ScanCommits
  BY <1>7, KnownGrows DEF ScanCommits
<1>8. CASE GlpiChanges
  <2>1. PICK o \in Objects :
          /\ glpi' = IF o \in glpi THEN glpi \ {o} ELSE glpi \cup {o}
          /\ scan' = IF scan.at = "idle" THEN scan ELSE [scan EXCEPT !.there = @ \cup {o}]
    BY <1>8 DEF GlpiChanges
  <2>2. scan' \in Scans /\ scan'.at = scan.at
    BY <2>1 DEF Scans
  <2> QED
    BY <1>8, <2>1, <2>2, KnownGrows DEF GlpiChanges
<1> QED
  BY <1>2, <1>3, <1>4, <1>5, <1>6, <1>7, <1>8, <1>9 DEF ScanStep

\* What a step makes of the saves under way.
SavesTyped ==
  /\ save \in [Savers -> Saves]
  /\ \A s \in Savers : /\ save[s].op = "choice" => save[s].on \subseteq Known
                       /\ save[s].op = "absences" => save[s].on \subseteq Rows

LEMMA SaveMovesType ==
  ASSUME TypeOK, NEW s \in Savers, NEW to \in Saves, SaveMoves(s, to), UNCHANGED dated,
         to.op = "choice" => to.on \subseteq Known,
         to.op = "absences" => to.on \subseteq Rows
  PROVE  SavesTyped'
<1>1. save'[s] = to /\ \A r \in Savers \ {s} : save'[r] = save[r]
  BY DEF SaveMoves, TypeOK
<1>2. save' \in [Savers -> Saves] /\ Known' = Known
  BY DEF SaveMoves, TypeOK, Known
<1> QED
  BY <1>1, <1>2 DEF SavesTyped, TypeOK

LEMMA SavesType ==
  ASSUME TypeOK, NEW s \in Savers, SaveStep(s)
  PROVE  SavesTyped' /\ saves' \in 0..MaxSaves
<1> USE ReferentialAssumption, Blank DEF base, history, glpiSide
<1>1. /\ save[s] \in Saves /\ save \in [Savers -> Saves] /\ saves \in 0..MaxSaves
      /\ save[s].op = "choice" => save[s].on \subseteq Known
      /\ save[s].op = "absences" => save[s].on \subseteq Rows
      /\ settings \in [Entities -> Settings] /\ absences \subseteq Rows
  BY DEF TypeOK
<1>2. ASSUME NEW to \in Saves, Begins(s, to), to.op = "choice" => to.on \subseteq Known,
             to.op = "absences" => to.on \subseteq Rows
      PROVE  SavesTyped' /\ saves' \in 0..MaxSaves
  <2>1. saves' \in 0..MaxSaves
    BY <1>1, <1>2 DEF Begins
  <2> QED
    BY <1>2, <2>1, SaveMovesType DEF Begins
<1>3. CASE ChoiceBegins(s)
  <2>1. PICK kind \in SavedKinds, on \in SUBSET Known :
          Begins(s, [NoSave EXCEPT !.at = "commit", !.op = "choice", !.kind = kind, !.on = on,
                                   !.loaded = chosen \cap OfKind(kind)])
    BY <1>3 DEF ChoiceBegins
  <2> DEFINE to == [NoSave EXCEPT !.at = "commit", !.op = "choice", !.kind = kind, !.on = on,
                                  !.loaded = chosen \cap OfKind(kind)]
  <2>2. on \subseteq Objects /\ chosen \subseteq Objects /\ kind \in Kinds
    BY DEF Known, TypeOK
  <2>3. to \in Saves /\ to.op = "choice" /\ to.on = on
    BY <2>2 DEF Saves
  <2> HIDE DEF to
  <2> QED
    BY <1>2, <2>1, <2>3 DEF to
<1>4. CASE ModesBegin(s)
  <2>1. PICK e \in Entities, setting \in ModeChoices :
          Begins(s, [NoSave EXCEPT !.at = "commit", !.op = "modes", !.todo = Known \cap Entities,
                                   !.settings = [settings EXCEPT ![e] = setting],
                                   !.before = settings])
    BY <1>4 DEF ModesBegin
  <2> DEFINE to == [NoSave EXCEPT !.at = "commit", !.op = "modes", !.todo = Known \cap Entities,
                                  !.settings = [settings EXCEPT ![e] = setting],
                                  !.before = settings]
  <2>2. [settings EXCEPT ![e] = setting] \in [Entities -> Settings]
    BY <1>1
  <2>3. to \in Saves /\ to.op = "modes"
    BY <1>1, <2>2 DEF Saves
  <2> HIDE DEF to
  <2> QED
    BY <1>2, <2>1, <2>3 DEF to
<1>5. CASE AbsencesBegin(s)
  <2>1. PICK list \in AbsenceLists :
          Begins(s, [NoSave EXCEPT !.at = "commit", !.op = "absences", !.loaded = absences,
                                   !.on = {[item |-> a, id |-> saves + 1] : a \in list}])
    BY <1>5 DEF AbsencesBegin
  <2> DEFINE new == {[item |-> a, id |-> saves + 1] : a \in list}
             to == [NoSave EXCEPT !.at = "commit", !.op = "absences", !.loaded = absences, !.on = new]
  <2>2. saves + 1 \in 1..MaxSaves
    BY <1>1, <2>1 DEF Begins
  <2>3. new \subseteq Rows
    BY <2>2 DEF Rows
  <2> HIDE DEF new
  <2>4. to \in Saves /\ to.op = "absences" /\ to.on = new
    BY <1>1, <2>3 DEF Saves
  <2> HIDE DEF to
  <2> QED
    BY <1>2, <2>1, <2>3, <2>4 DEF to, new
<1>6. CASE ChoiceCommits(s) \/ AbsencesCommit(s) \/ SaveDies(s)
  <2>1. SaveMoves(s, NoSave) /\ UNCHANGED <<dated, saves>>
    BY <1>6 DEF ChoiceCommits, AbsencesCommit, SaveDies
  <2> QED
    BY <1>1, <2>1, SaveMovesType
<1>7. CASE ModesCommit(s)
  <2>1. [save[s] EXCEPT !.at = "audit"] \in Saves /\ [save[s] EXCEPT !.at = "audit"].op = "modes"
    BY <1>1, <1>7 DEF Saves, ModesCommit
  <2> QED
    BY <1>1, <1>7, <2>1, SaveMovesType DEF ModesCommit
<1>8. CASE ModesAudit(s)
  <2>1. PICK e \in save[s].todo :
          SaveMoves(s, IF save[s].todo = {e} THEN NoSave ELSE [save[s] EXCEPT !.todo = @ \ {e}])
    BY <1>8 DEF ModesAudit
  <2>2. /\ [save[s] EXCEPT !.todo = @ \ {e}] \in Saves
        /\ [save[s] EXCEPT !.todo = @ \ {e}].op = save[s].op
        /\ [save[s] EXCEPT !.todo = @ \ {e}].on = save[s].on
    BY <1>1 DEF Saves
  <2>3. UNCHANGED <<dated, saves>>
    BY <1>8 DEF ModesAudit
  <2> DEFINE left == [save[s] EXCEPT !.todo = @ \ {e}]
  <2>4. SaveMoves(s, NoSave) \/ SaveMoves(s, left)
    BY <2>1
  <2> HIDE DEF left
  <2>5. left \in Saves /\ left.op = save[s].op /\ left.on = save[s].on
    BY <2>2 DEF left
  <2> QED
    BY <1>1, <2>3, <2>4, <2>5, SaveMovesType
<1> QED
  BY <1>3, <1>4, <1>5, <1>6, <1>7, <1>8 DEF SaveStep

LEMMA MovesType ==
  ASSUME TypeOK, Moves
  PROVE  cycle' \in Cycles
BY DEF Moves, TypeOK, Cycles

\* What a cycle reads is about technicians and groups.
LEMMA ReadsType ==
  ASSUME TypeOK
  PROVE  /\ Items \subseteq AbsenceItems
         /\ \A day : Active(day) \subseteq AbsenceItems /\ Absent(day) \subseteq Technicians
         /\ \A day, absents : Interims(day, absents) \subseteq Technicians \X Technicians
<1>1. Items \subseteq AbsenceItems
  BY DEF Items, TypeOK, Rows
<1>2. ASSUME NEW day
      PROVE  Active(day) \subseteq AbsenceItems /\ Absent(day) \subseteq Technicians
  BY <1>1 DEF Active, Absent, AbsenceItems
<1>3. ASSUME NEW day, NEW absents
      PROVE  Interims(day, absents) \subseteq Technicians \X Technicians
  BY <1>2 DEF Interims, AbsenceItems
<1> QED
  BY <1>1, <1>2, <1>3

LEMMA CycleType ==
  ASSUME TypeOK, CycleStep
  PROVE  /\ cycle' \in Cycles
         /\ UNCHANGED <<glpiSide, scan, base, save, today, saves, scans, history>>
<1>1. UNCHANGED <<glpiSide, scan, base, save, today, saves, scans, history>>
  BY DEF CycleStep, CycleReads, CycleBegins, ProseReadsAbsents, ProseReadsAway, ProseReadsInterims,
     ProseReadsTechnicians, TellsOf, ProseReadsGroups, ScopeBegins, ScopeReadsAbsents,
     ScopeReadsTechnicians, ScopeReadsGroups, CycleEnds
<1>2. cycle \in Cycles /\ today \in Days /\ 1 \in Days
  BY ReferentialAssumption DEF TypeOK, Days
<1>3. CASE CycleBegins \/ CycleEnds
  BY <1>2, <1>3, Blank DEF CycleBegins, CycleEnds, CycleReads, Cycles
<1>4. CASE ProseReadsAbsents
  BY <1>2, <1>4, ReadsType DEF ProseReadsAbsents, CycleReads, Cycles
<1>5. CASE ProseReadsAway
  BY <1>2, <1>5, ReadsType DEF ProseReadsAway, CycleReads, Cycles
<1>6. CASE ProseReadsInterims
  BY <1>2, <1>6, ReadsType DEF ProseReadsInterims, CycleReads, Cycles
<1>7. CASE ProseReadsTechnicians
  <2> DEFINE present == (Technicians \cap chosen) \ cycle.absents
  <2>1. Described(present, cycle.interims) \subseteq Actors
    BY DEF Described, Actors
  <2>2. {p \in cycle.interims : p[1] \in present} \subseteq Technicians \X Technicians
    BY <1>2 DEF Cycles
  <2> HIDE DEF present
  <2> QED
    BY <1>2, <1>7, <2>1, <2>2 DEF ProseReadsTechnicians, TellsOf, CycleReads, Cycles, present
<1>8. CASE ProseReadsGroups
  <2>1. Described(Groups \cap chosen, {}) \subseteq Actors
    BY DEF Described, Actors
  <2> QED
    BY <1>2, <1>8, <2>1 DEF ProseReadsGroups, CycleReads, Cycles
<1>9. CASE ScopeBegins
  BY <1>2, <1>9 DEF ScopeBegins, CycleReads, Cycles
<1>10. CASE ScopeReadsAbsents
  BY <1>2, <1>10, ReadsType DEF ScopeReadsAbsents, CycleReads, Cycles
<1>11. CASE ScopeReadsTechnicians
  BY <1>2, <1>11 DEF ScopeReadsTechnicians, CycleReads, Cycles, Actors
<1>12. CASE ScopeReadsGroups
  BY <1>2, <1>12 DEF ScopeReadsGroups, CycleReads, Cycles, Actors
<1> QED
  BY <1>1, <1>3, <1>4, <1>5, <1>6, <1>7, <1>8, <1>9, <1>10, <1>11, <1>12 DEF CycleStep

\* Whatever the scans, the administrators, the cycles and GLPI do, the cache, the saves
\* and what a cycle has read keep their types, and no row is chosen that the cache does
\* not know.
THEOREM TypeCorrect == Spec => []TypeOK
<1> USE ReferentialAssumption, Blank
<1>1. Init => TypeOK
  <2> SUFFICES ASSUME Init PROVE TypeOK
    OBVIOUS
  <2>1. glpi \subseteq Objects /\ open \in BOOLEAN /\ scan \in Scans /\ scan.at = "idle"
    BY DEF Init
  <2>2. 0 \in 0..MaxScans /\ 0 \in 0..MaxSaves /\ 0 \in 0..MaxChanges /\ 1 \in Days
    BY DEF Days
  <2>3. dated \in [Objects -> 0..MaxScans] /\ chosen \subseteq Known /\ absences \subseteq Rows
    BY <2>2 DEF Init
  <2>4. settings \in [Entities -> Settings] /\ traced \in [Entities -> SUBSET Settings]
    BY DEF Init
  <2>5. save \in [Savers -> Saves] /\ \A s \in Savers : save[s].op = "none"
    BY DEF Init
  <2>6. cycle \in Cycles /\ cut \subseteq Entities /\ raced \subseteq Entities /\ leaked \in BOOLEAN
    BY DEF Init
  <2>7. today \in Days /\ saves \in 0..MaxSaves /\ scans \in 0..MaxScans /\ changes \in 0..MaxChanges
    BY <2>2 DEF Init
  <2> QED
    BY <2>1, <2>3, <2>4, <2>5, <2>6, <2>7 DEF TypeOK
<1>2. TypeOK /\ [Next]_vars => TypeOK'
  <2> SUFFICES ASSUME TypeOK, [Next]_vars PROVE TypeOK'
    OBVIOUS
  <2> USE DEF glpiSide, base, history
  <2>1. ASSUME /\ scan' \in Scans /\ (scan'.at # "idle" => scans' > 0)
               /\ scans' \in 0..MaxScans /\ open' \in BOOLEAN /\ leaked' \in BOOLEAN
               /\ dated' \in [Objects -> 0..MaxScans] /\ Known \subseteq Known'
               /\ glpi' \subseteq Objects, changes' \in 0..MaxChanges,
               UNCHANGED <<chosen, settings, absences, traced, save, today, saves, cut, raced>>,
               cycle' \in Cycles
        PROVE  TypeOK'
    BY <2>1 DEF TypeOK
  <2>2. CASE ScanStep
    <3>1. UNCHANGED <<chosen, settings, absences, traced, save, today, saves, cut, raced, changes>>
      BY <2>2 DEF ScanStep, ScanStarts, ScanStartLost, ScanReads, ScanFails, ScanCloses, ScanLeaks, ScanSelects,
         ScanCommits
    <3>2. cycle' \in Cycles
      BY <2>2 DEF ScanStep, ScanStarts, ScanStartLost, ScanReads, ScanFails, ScanCloses, ScanLeaks,
         ScanSelects, ScanCommits, TypeOK
    <3>3. changes \in 0..MaxChanges
      BY DEF TypeOK
    <3> QED
      BY <2>1, <2>2, <3>1, <3>2, <3>3, ScanType
  <2>3. CASE GlpiChanges
    <3>1. UNCHANGED <<chosen, settings, absences, traced, save, cycle, today, saves, cut, raced>>
      BY <2>3 DEF GlpiChanges
    <3>2. changes' \in 0..MaxChanges /\ cycle \in Cycles
      BY <2>3 DEF GlpiChanges, TypeOK
    <3> QED
      BY <2>1, <2>3, <3>1, <3>2, ScanType
  <2>4. ASSUME SavesTyped', saves' \in 0..MaxSaves,
               UNCHANGED <<glpiSide, scan, dated, today, scans, leaked>>,
               chosen' \subseteq Known, settings' \in [Entities -> Settings],
               traced' \in [Entities -> SUBSET Settings], absences' \subseteq Rows,
               cycle' \in Cycles, cut' \subseteq Entities, raced' \subseteq Entities
        PROVE  TypeOK'
    <3>1. Known' = Known
      BY <2>4 DEF Known
    <3> QED
      BY <2>4, <3>1 DEF TypeOK, SavesTyped
  <2>5. ASSUME NEW s \in Savers, SaveStep(s)
        PROVE  TypeOK'
    <3>1. /\ save[s] \in Saves /\ chosen \subseteq Known /\ settings \in [Entities -> Settings]
          /\ traced \in [Entities -> SUBSET Settings] /\ absences \subseteq Rows /\ cycle \in Cycles
          /\ cut \subseteq Entities /\ raced \subseteq Entities
          /\ save[s].op = "choice" => save[s].on \subseteq Known
          /\ save[s].op = "absences" => save[s].on \subseteq Rows
      BY DEF TypeOK
    <3>2. SavesTyped' /\ saves' \in 0..MaxSaves
      BY <2>5, SavesType
    <3>3. CASE ChoiceBegins(s) \/ ModesBegin(s) \/ AbsencesBegin(s)
      <4>1. UNCHANGED <<glpiSide, scan, base, cycle, today, scans, history>>
        BY <3>3 DEF ChoiceBegins, ModesBegin, AbsencesBegin, Begins
      <4> QED
        BY <2>4, <3>1, <3>2, <4>1
    <3>4. CASE ChoiceCommits(s)
      BY <2>4, <3>1, <3>2, <3>4, MovesType DEF ChoiceCommits
    <3>5. CASE AbsencesCommit(s)
      BY <2>4, <3>1, <3>2, <3>5, MovesType DEF AbsencesCommit
    <3>6. CASE ModesCommit(s)
      <4>1. ASSUME NEW e \in Entities
            PROVE  Merge(Fallback(save[s].settings[e]), save[s].before[e], settings[e]) \in Settings
        <5>1. save[s].settings[e] \in Settings /\ save[s].before[e] \in Settings /\ settings[e] \in Settings
          BY <3>1 DEF Saves
        <5> QED
          BY <5>1, FallbackType, MergeType
      <4>2. settings' \in [Entities -> Settings]
        BY <3>1, <3>6, <4>1 DEF ModesCommit
      <4>3. raced' \subseteq Entities
        BY <3>1, <3>6 DEF ModesCommit, Saves
      <4> QED
        BY <2>4, <3>1, <3>2, <3>6, <4>2, <4>3 DEF ModesCommit
    <3>7. CASE ModesAudit(s)
      <4>1. \A e \in Entities : Repr(settings[e]) \in Settings
        BY <3>1, ReprType
      <4>2. traced' \in [Entities -> SUBSET Settings]
        BY <3>1, <3>7, <4>1 DEF ModesAudit, Saves
      <4> QED
        BY <2>4, <3>1, <3>2, <3>7, <4>2 DEF ModesAudit
    <3>8. CASE SaveDies(s)
      <4>1. cut' \subseteq Entities
        BY <3>1, <3>8 DEF SaveDies, Saves
      <4> QED
        BY <2>4, <3>1, <3>2, <3>8, <4>1 DEF SaveDies
    <3> QED
      BY <2>5, <3>3, <3>4, <3>5, <3>6, <3>7, <3>8 DEF SaveStep
  <2>6. ASSUME UNCHANGED <<glpiSide, scan, dated, chosen, settings, traced, save, saves, scans, history>>,
               today' \in Days, absences' \subseteq Rows, cycle' \in Cycles
        PROVE  TypeOK'
    BY <2>6 DEF TypeOK, Known
  <2>7. cycle \in Cycles /\ today \in Days /\ absences \subseteq Rows
    BY DEF TypeOK
  <2>8. CASE CycleStep
    BY <2>6, <2>7, <2>8, CycleType
  <2>9. CASE DayPasses
    BY <2>6, <2>7, <2>9, MovesType DEF DayPasses, Days
  <2>10. CASE Purge
    BY <2>6, <2>7, <2>10, MovesType DEF Purge
  <2>11. CASE UNCHANGED vars
    BY <2>6, <2>7, <2>11 DEF vars
  <2> QED
    BY <2>2, <2>3, <2>5, <2>8, <2>9, <2>10, <2>11 DEF Next
<1> QED
  BY <1>1, <1>2, PTL DEF Spec

--------------------------------------------------------------------------------
(* The settings of the entities *)

\* What makes ModesAreTraced inductive: whoever owes the line has loaded another value
\* than the one in force, so it will find that the row has changed.
TraceIsOwed ==
  \A e \in Entities :
    settings[e] # Default =>
      \/ Repr(settings[e]) \in traced[e]
      \/ e \in cut
      \/ \E s \in Savers : /\ save[s].at = "audit" /\ e \in save[s].todo
                           /\ save[s].before[e] # settings[e]

\* A save that does not audit leaves the lines that others owe.
LEMMA OthersStillOwe ==
  ASSUME TypeOK, TraceIsOwed, UNCHANGED <<settings, traced, cut>>,
         \A s \in Savers : save[s].at = "audit" => save'[s] = save[s]
  PROVE  TraceIsOwed'
BY DEF TraceIsOwed

LEMMA TraceStep ==
  ASSUME TypeOK, TraceIsOwed, [Next]_vars
  PROVE  TraceIsOwed'
<1> USE DEF glpiSide, base, history
<1>1. /\ save \in [Savers -> Saves] /\ settings \in [Entities -> Settings]
      /\ traced \in [Entities -> SUBSET Settings]
  BY DEF TypeOK
<1>2. ASSUME NEW s \in Savers, NEW to, SaveMoves(s, to)
      PROVE  save'[s] = to /\ \A r \in Savers \ {s} : save'[r] = save[r]
  BY <1>1, <1>2 DEF SaveMoves
<1>3. ASSUME NEW s \in Savers,
             ChoiceBegins(s) \/ ModesBegin(s) \/ AbsencesBegin(s) \/ ChoiceCommits(s)
               \/ AbsencesCommit(s)
      PROVE  TraceIsOwed'
  <2>1. /\ save[s].at \in {"idle", "commit"} /\ UNCHANGED <<settings, traced, cut>>
        /\ \E to : SaveMoves(s, to)
    BY <1>3 DEF ChoiceBegins, ModesBegin, AbsencesBegin, Begins, ChoiceCommits, AbsencesCommit
  <2> QED
    BY <1>2, <2>1, OthersStillOwe
<1>4. ASSUME NEW s \in Savers, ModesCommit(s)
      PROVE  TraceIsOwed'
  <2>1. save[s].at = "commit" /\ UNCHANGED <<traced, cut>>
    BY <1>4 DEF ModesCommit
  <2>2. save'[s] = [save[s] EXCEPT !.at = "audit"] /\ \A r \in Savers \ {s} : save'[r] = save[r]
    BY <1>2, <1>4 DEF ModesCommit
  <2>3. save'[s].at = "audit" /\ save'[s].todo = save[s].todo /\ save'[s].before = save[s].before
    BY <1>1, <2>2 DEF Saves
  <2>4. ASSUME NEW e \in Entities, settings'[e] # settings[e]
        PROVE  e \in save[s].todo /\ save[s].before[e] # settings'[e]
    <3>1. /\ e \in save[s].todo
          /\ settings'[e] = Merge(Fallback(save[s].settings[e]), save[s].before[e], settings[e])
      BY <1>4, <2>4 DEF ModesCommit
    <3>2. save[s].settings[e] \in Settings /\ save[s].before[e] \in Settings /\ settings[e] \in Settings
      BY <1>1 DEF Saves
    <3> QED
      BY <2>4, <3>1, <3>2, FallbackType, MergeType
  <2>5. ASSUME NEW e \in Entities, settings'[e] # Default
        PROVE  \/ Repr(settings'[e]) \in traced'[e] \/ e \in cut'
               \/ \E r \in Savers : /\ save'[r].at = "audit" /\ e \in save'[r].todo
                                    /\ save'[r].before[e] # settings'[e]
    <3>1. CASE settings'[e] # settings[e]
      BY <2>3, <2>4, <3>1
    <3>2. CASE settings'[e] = settings[e]
      <4>1. \A r \in Savers : save[r].at = "audit" => save'[r] = save[r]
        BY <2>1, <2>2
      <4> QED
        BY <2>1, <2>5, <3>2, <4>1 DEF TraceIsOwed
    <3> QED
      BY <3>1, <3>2
  <2> QED
    BY <2>5 DEF TraceIsOwed
<1>5. ASSUME NEW s \in Savers, ModesAudit(s)
      PROVE  TraceIsOwed'
  <2>1. PICK e \in save[s].todo :
          /\ traced' = IF Changed(save[s].before[e], settings[e])
                       THEN [traced EXCEPT ![e] = @ \cup {Repr(settings[e])}] ELSE traced
          /\ SaveMoves(s, IF save[s].todo = {e} THEN NoSave ELSE [save[s] EXCEPT !.todo = @ \ {e}])
    BY <1>5 DEF ModesAudit
  <2>2. /\ e \in Entities /\ save[s].at = "audit" /\ UNCHANGED <<settings, cut>>
        /\ \A f \in Entities : traced[f] \subseteq traced'[f]
        /\ save[s].before[e] # settings[e] => Repr(settings[e]) \in traced'[e]
    BY <1>1, <1>5, <2>1 DEF ModesAudit, Saves, Changed
  <2>3. ASSUME NEW f \in Entities \ {e}, f \in save[s].todo
        PROVE  save'[s].at = "audit" /\ f \in save'[s].todo /\ save'[s].before = save[s].before
    <3>1. save'[s] = [save[s] EXCEPT !.todo = @ \ {e}]
      BY <1>2, <2>1, <2>3
    <3> QED
      BY <1>1, <2>2, <2>3, <3>1 DEF Saves
  <2>4. \A r \in Savers \ {s} : save'[r] = save[r]
    BY <1>2, <2>1
  <2>5. ASSUME NEW f \in Entities, settings'[f] # Default
        PROVE  \/ Repr(settings'[f]) \in traced'[f] \/ f \in cut'
               \/ \E r \in Savers : /\ save'[r].at = "audit" /\ f \in save'[r].todo
                                    /\ save'[r].before[f] # settings'[f]
    <3>1. CASE Repr(settings[f]) \in traced[f] \/ f \in cut
      BY <2>2, <3>1
    <3>2. ASSUME NEW r \in Savers, save[r].at = "audit", f \in save[r].todo,
                 save[r].before[f] # settings[f]
          PROVE  \/ Repr(settings'[f]) \in traced'[f]
                 \/ /\ save'[r].at = "audit" /\ f \in save'[r].todo
                    /\ save'[r].before[f] # settings'[f]
      <4>1. CASE r # s
        BY <2>2, <2>4, <3>2, <4>1
      <4>2. CASE r = s /\ f = e
        BY <2>2, <3>2, <4>2
      <4>3. CASE r = s /\ f # e
        BY <2>2, <2>3, <3>2, <4>3
      <4> QED
        BY <4>1, <4>2, <4>3
    <3> QED
      BY <2>2, <2>5, <3>1, <3>2 DEF TraceIsOwed
  <2> QED
    BY <2>5 DEF TraceIsOwed
<1>6. ASSUME NEW s \in Savers, SaveDies(s)
      PROVE  TraceIsOwed'
  <2>1. /\ UNCHANGED <<settings, traced>> /\ cut \subseteq cut'
        /\ save[s].at = "audit" => save[s].todo \subseteq cut'
        /\ \A r \in Savers \ {s} : save'[r] = save[r]
    BY <1>2, <1>6 DEF SaveDies
  <2> QED
    BY <2>1 DEF TraceIsOwed
<1>7. CASE ~ \E s \in Savers : SaveStep(s)
  <2>1. UNCHANGED <<settings, traced, cut, save>>
    BY <1>7, CycleType DEF Next, ScanStep, ScanStarts, ScanStartLost, ScanReads, ScanFails, ScanCloses, ScanLeaks, ScanSelects,
       ScanCommits, DayPasses, Purge, GlpiChanges, vars
  <2> QED
    BY <2>1, OthersStillOwe
<1> QED
  BY <1>3, <1>4, <1>5, <1>6, <1>7 DEF SaveStep

\* Whatever saves of the entities' settings overlap, what is in force is named by a line
\* of the audit log, as far as a line goes (_mode_repr), unless the save that owes it is
\* under way or died before it (save_modes, record_action).
THEOREM ModesTraced == Spec => []ModesAreTraced
<1>1. Init => TraceIsOwed
  BY DEF Init, TraceIsOwed
<1>2. TypeOK /\ TraceIsOwed /\ [Next]_vars => TraceIsOwed'
  BY TraceStep
<1>3. TraceIsOwed => ModesAreTraced
  BY DEF TraceIsOwed, ModesAreTraced
<1> QED
  BY <1>1, <1>2, <1>3, TypeCorrect, PTL DEF Spec

LEMMA FallbackStep ==
  ASSUME TypeOK, OneFallback, [Next]_vars
  PROVE  OneFallback'
<1> USE DEF glpiSide, base, history
<1>1. ASSUME NEW s \in Savers, ModesCommit(s)
      PROVE  OneFallback'
  <2>1. ASSUME NEW e \in Entities
        PROVE  settings'[e].group # None /\ settings'[e].technician # None => e \in raced'
    <3>1. CASE e \in save[s].todo /\ settings[e] = save[s].before[e]
      <4>1. save[s].settings[e] \in Settings /\ settings[e] \in Settings
        BY DEF TypeOK, Saves
      <4>2. settings'[e] = Fallback(save[s].settings[e])
        BY <1>1, <3>1, <4>1, FallbackType, MergeType DEF ModesCommit
      <4> QED
        BY <4>1, <4>2, FallbackType
    <3>2. CASE e \in save[s].todo /\ settings[e] # save[s].before[e]
      BY <1>1, <3>2 DEF ModesCommit
    <3>3. CASE e \notin save[s].todo
      BY <1>1, <3>3 DEF ModesCommit, OneFallback
    <3> QED
      BY <3>1, <3>2, <3>3
  <2> QED
    BY <2>1 DEF OneFallback
<1>2. CASE ~ \E s \in Savers : ModesCommit(s)
  <2>1. UNCHANGED <<settings, raced>>
    BY <1>2, CycleType DEF Next, ScanStep, ScanStarts, ScanStartLost, ScanReads, ScanFails, ScanCloses, ScanLeaks, ScanSelects,
       ScanCommits, DayPasses, Purge, GlpiChanges, vars,
       SaveStep, ChoiceBegins, ModesBegin, AbsencesBegin, Begins, ChoiceCommits, AbsencesCommit,
       ModesAudit, SaveDies
  <2> QED
    BY <2>1 DEF OneFallback
<1> QED
  BY <1>1, <1>2

\* An entity never has a fallback group and a fallback technician (set_modes), unless two
\* saves that overlapped wrote one each.
THEOREM OneFallbackHolds == Spec => []OneFallback
<1>1. Init => OneFallback
  BY DEF Init, OneFallback, Default
<1> QED
  BY <1>1, FallbackStep, TypeCorrect, PTL DEF Spec

--------------------------------------------------------------------------------
(* What a cycle reads *)

\* What the tables say of an actor today.
Effective(o) == o \in chosen /\ o \notin Absent(today)

\* What the cycle has read for it.
Stood(o) == \A i \in Active(today) : i.replacement = o => <<o, i.technician>> \in cycle.interims

Worth(o) == o \in Sheets \/ \E p \in cycle.interims : p[1] = o

Told == {"groups", "scope", "leave", "members", "teams", "triage"}

\* Of an actor who is not concerned by anything that changed, each thing the cycle still
\* holds is what the tables say today.
UpToDate(o) ==
  /\ cycle.at \in {"absents", "away", "interims", "leave"} =>
       Naming(o, Active(cycle.day)) = Naming(o, Active(today))
  /\ cycle.at \in {"away", "interims", "technicians", "members"} =>
       (o \in cycle.absents <=> o \in Absent(today))
  /\ cycle.at = "interims" => (o \in cycle.away <=> o \in Absent(today))
  /\ cycle.at = "technicians" => (o \notin Absent(today) => Stood(o))
  /\ cycle.at \in Told \cup {"technicians"} =>
       \A p \in cycle.interims : p[2] = o => o \in Absent(today)
  /\ cycle.at \in Told =>
       /\ Effective(o) => Stood(o)
       /\ \A p \in cycle.interims : p[1] = o => Effective(o)
       /\ o \in Technicians \/ cycle.at # "groups" =>
            (o \in cycle.described <=> Effective(o) /\ Worth(o))
  /\ (cycle.at = "teams" /\ o \in Technicians) \/ cycle.at = "triage" =>
       (o \in cycle.actors <=> Effective(o))

RoutingInv ==
  /\ \A o \in Actors \ cycle.moved : UpToDate(o)
  /\ cycle.at = "groups" => cycle.described \subseteq Technicians
  /\ cycle.at = "teams" => cycle.actors \subseteq Technicians

\* Who is absent on a day, and whom an actor stands in for, is said by the rows naming him.
LEMMA SaidByRows ==
  ASSUME NEW o
  PROVE  /\ \A day : o \in Absent(day) <=> \E i \in Naming(o, Active(day)) : i.technician = o
         /\ \A day : \A i : i.replacement = o =>
              (i \in Active(day) <=> i \in Naming(o, Active(day)))
BY DEF Absent, Naming

\* An actor whose status has not changed is, for any day, where he was.
LEMMA SameStatus ==
  ASSUME NEW o, Status(o)' = Status(o), UNCHANGED cycle.day
  PROVE  /\ (o \in chosen)' = (o \in chosen)
         /\ Naming(o, Active(cycle.day))' = Naming(o, Active(cycle.day))
         /\ Naming(o, Active(today))' = Naming(o, Active(today))
<1>1. /\ (o \in chosen)' = (o \in chosen) /\ Naming(o, Items)' = Naming(o, Items)
      /\ Naming(o, Active(today))' = Naming(o, Active(today))
  BY DEF Status
<1>2. Naming(o, Active(cycle.day)) =
        {i \in Naming(o, Items) : i.from <= cycle.day /\ cycle.day <= i.to}
  BY DEF Naming, Active
<1>3. Naming(o, Active(cycle.day))' =
        {i \in Naming(o, Items)' : i.from <= cycle.day /\ cycle.day <= i.to}
  BY DEF Naming, Active
<1> QED
  BY <1>1, <1>2, <1>3

\* What the cycle holds of him is then as true as it was.
LEMMA StillUpToDate ==
  ASSUME TypeOK, NEW o \in Actors, UpToDate(o), Status(o)' = Status(o),
         UNCHANGED <<cycle.at, cycle.day, cycle.absents, cycle.away, cycle.interims,
                     cycle.described, cycle.actors>>
  PROVE  UpToDate(o)'
<1>1. /\ (o \in chosen)' = (o \in chosen)
      /\ Naming(o, Active(cycle.day))' = Naming(o, Active(cycle.day))
      /\ Naming(o, Active(today))' = Naming(o, Active(today))
  BY SameStatus
<1>2. (o \in Absent(today))' <=> o \in Absent(today)
  BY <1>1 DEF Absent, Naming
<1>3. \A i : i.replacement = o => ((i \in Active(today))' <=> i \in Active(today))
  BY <1>1 DEF Naming
<1>4. Stood(o)' <=> Stood(o)
  BY <1>3 DEF Stood
<1>5. (Effective(o)' <=> Effective(o)) /\ (Worth(o)' <=> Worth(o))
  BY <1>1, <1>2 DEF Effective, Worth
<1> QED
  BY <1>1, <1>2, <1>4, <1>5 DEF UpToDate, Told

\* A read of the cycle changes nothing of what it reads.
LEMMA ReadsKeep ==
  ASSUME TypeOK, CycleStep
  PROVE  /\ \A day : Active(day)' = Active(day) /\ Absent(day)' = Absent(day)
         /\ Active(today)' = Active(today) /\ Absent(today)' = Absent(today)
         /\ \A o : Effective(o)' = Effective(o)
         /\ \A o : Naming(o, Active(today))' = Naming(o, Active(today))
         /\ UNCHANGED <<chosen, today>>
BY CycleType DEF base, Items, Active, Absent, Effective, Naming

LEMMA ReadsHold ==
  ASSUME TypeOK, RoutingInv, CycleStep, NEW o \in Actors, o \notin cycle'.moved
  PROVE  UpToDate(o)'
<1> USE DEF Told
<1>1. /\ cycle \in Cycles /\ o # None /\ Technicians \cap Groups = {}
      /\ Absent(today) \subseteq Technicians
  BY ReferentialAssumption, ReadsType DEF TypeOK, Objects, Actors
<1>2. /\ Active(today)' = Active(today) /\ Absent(today)' = Absent(today)
      /\ Effective(o)' = Effective(o)
      /\ Naming(o, Active(today))' = Naming(o, Active(today)) /\ UNCHANGED <<chosen, today>>
  BY ReadsKeep
<1>3. \A day : /\ Naming(o, Active(day)) = Naming(o, Active(today)) =>
                   /\ o \in Absent(day) <=> o \in Absent(today)
                   /\ \A i \in Active(today) : i.replacement = o => i \in Active(day)
  BY SaidByRows
<1>4. CASE CycleBegins
  <2>1. cycle'.at = "absents" /\ cycle'.day = today
    BY <1>4, Blank DEF CycleBegins, CycleReads, Cycles
  <2>2. Naming(o, Active(cycle.day))' = Naming(o, Active(today))'
    BY <1>2, <2>1, ReadsKeep DEF Naming
  <2> QED
    BY <2>1, <2>2 DEF UpToDate
<1>5. CASE CycleEnds
  BY <1>5, Blank DEF CycleEnds, CycleReads, UpToDate
<1>6. CASE ~CycleBegins /\ ~CycleEnds
  <2>1. cycle'.moved = cycle.moved /\ UpToDate(o)
    BY <1>1, <1>6 DEF CycleStep, CycleReads, ProseReadsAbsents, ProseReadsAway, ProseReadsInterims,
       ProseReadsTechnicians, TellsOf, ProseReadsGroups, ScopeBegins, ScopeReadsAbsents,
       ScopeReadsTechnicians, ScopeReadsGroups, RoutingInv, Cycles
  <2>2. CASE ProseReadsAbsents
    <3>1. /\ cycle.at = "absents" /\ cycle'.at = "away" /\ cycle'.absents = Absent(cycle.day)
          /\ cycle'.day = cycle.day
      BY <1>1, <2>2 DEF ProseReadsAbsents, CycleReads, Cycles
    <3>2. Naming(o, Active(cycle.day))' = Naming(o, Active(cycle.day))
      BY <3>1, ReadsKeep DEF Naming
    <3> QED
      BY <1>2, <1>3, <2>1, <3>1, <3>2 DEF UpToDate
  <2>3. CASE ProseReadsAway
    <3>1. /\ cycle.at = "away" /\ cycle'.at = "interims" /\ cycle'.away = Absent(cycle.day)
          /\ cycle'.day = cycle.day /\ cycle'.absents = cycle.absents
      BY <1>1, <2>3 DEF ProseReadsAway, CycleReads, Cycles
    <3>2. Naming(o, Active(cycle.day))' = Naming(o, Active(cycle.day))
      BY <3>1, ReadsKeep DEF Naming
    <3> QED
      BY <1>2, <1>3, <2>1, <3>1, <3>2 DEF UpToDate
  <2>4. CASE ProseReadsInterims
    <3>1. /\ cycle.at = "interims" /\ cycle'.at = "technicians" /\ cycle'.absents = cycle.absents
          /\ cycle'.interims = Interims(cycle.day, cycle.away)
      BY <1>1, <2>4 DEF ProseReadsInterims, CycleReads, Cycles
    <3>2. Naming(o, Active(cycle.day)) = Naming(o, Active(today))
      BY <2>1, <3>1 DEF UpToDate
    <3>3. ASSUME o \notin Absent(today), NEW i \in Active(today), i.replacement = o
          PROVE  <<o, i.technician>> \in cycle'.interims
      <4>1. i \in Active(cycle.day) /\ i.replacement # None /\ i.replacement \notin cycle.away
        BY <1>1, <1>3, <2>1, <3>1, <3>2, <3>3 DEF UpToDate
      <4> QED
        BY <3>1, <3>3, <4>1 DEF Interims
    <3>4. ASSUME NEW p \in cycle'.interims, p[2] = o
          PROVE  o \in Absent(today)
      <4>1. o \in Absent(cycle.day)
        BY <3>1, <3>4 DEF Interims, Absent
      <4> QED
        BY <1>3, <3>2, <4>1
    <3>5. Stood(o)' <=> \A i \in Active(today) : i.replacement = o => <<o, i.technician>> \in cycle'.interims
      BY <1>2 DEF Stood
    <3> QED
      BY <1>2, <2>1, <3>1, <3>3, <3>4, <3>5 DEF UpToDate
  <2>5. CASE ProseReadsTechnicians
    <3> DEFINE present == (Technicians \cap chosen) \ cycle.absents
    <3>1. /\ cycle.at = "technicians" /\ cycle'.at = "groups"
          /\ cycle'.described = Described(present, cycle.interims)
          /\ cycle'.interims = {p \in cycle.interims : p[1] \in present}
      BY <1>1, <2>5 DEF ProseReadsTechnicians, TellsOf, CycleReads, Cycles
    <3>2. o \in present <=> o \in Technicians /\ Effective(o)
      BY <2>1, <3>1 DEF UpToDate, Effective
    <3> HIDE DEF present
    <3>3. ASSUME Effective(o), NEW i \in Active(today), i.replacement = o
          PROVE  <<o, i.technician>> \in cycle'.interims
      <4>1. o \in Technicians
        BY <1>1, <3>3, ReadsType DEF AbsenceItems
      <4>2. <<o, i.technician>> \in cycle.interims
        BY <2>1, <3>1, <3>3 DEF UpToDate, Effective, Stood
      <4> QED
        BY <3>1, <3>2, <3>3, <4>1, <4>2
    <3>4. \A p \in cycle'.interims : p[1] = o => Effective(o)
      BY <3>1, <3>2
    <3>5. \A p \in cycle'.interims : p[2] = o => o \in Absent(today)
      BY <2>1, <3>1 DEF UpToDate
    <3>6. o \in Technicians => (o \in cycle'.described <=> Effective(o) /\ Worth(o)')
      BY <3>1, <3>2 DEF Described, Worth
    <3>7. Stood(o)' <=> \A i \in Active(today) : i.replacement = o => <<o, i.technician>> \in cycle'.interims
      BY <1>2 DEF Stood
    <3> QED
      BY <1>2, <3>1, <3>3, <3>4, <3>5, <3>6, <3>7 DEF UpToDate
  <2>6. CASE ProseReadsGroups
    <3>1. /\ cycle.at = "groups" /\ cycle'.at = "scope" /\ cycle'.interims = cycle.interims
          /\ cycle'.described = cycle.described \cup Described(Groups \cap chosen, {})
      BY <1>1, <2>6 DEF ProseReadsGroups, CycleReads, Cycles
    <3>2. (Stood(o)' <=> Stood(o)) /\ (Worth(o)' <=> Worth(o))
      BY <1>2, <3>1 DEF Stood, Worth
    <3>3. CASE o \in Technicians
      <4>1. o \in cycle'.described <=> o \in cycle.described
        BY <1>1, <3>1, <3>3 DEF Described
      <4> QED
        BY <1>2, <2>1, <3>1, <3>2, <3>3, <4>1 DEF UpToDate
    <3>4. CASE o \notin Technicians
      <4>1. o \in Groups /\ o \notin cycle.described /\ (Effective(o) <=> o \in chosen)
        BY <1>1, <3>1, <3>4 DEF RoutingInv, Actors, Effective
      <4>2. ~ \E p \in cycle.interims : p[1] = o
        BY <1>1, <3>4 DEF Cycles
      <4>3. o \in cycle'.described <=> Effective(o) /\ Worth(o)'
        BY <3>1, <3>2, <4>1, <4>2 DEF Described, Worth
      <4> QED
        BY <1>2, <2>1, <3>1, <3>2, <4>3 DEF UpToDate
    <3> QED
      BY <3>3, <3>4
  <2>7. ASSUME cycle.at \in Told \ {"groups"}, cycle'.at \in Told \ {"groups"},
               cycle'.interims = cycle.interims, cycle'.described = cycle.described
        PROVE  /\ (Stood(o)' <=> Stood(o)) /\ (Worth(o)' <=> Worth(o))
               /\ \A p \in cycle'.interims : p[2] = o => o \in Absent(today)
               /\ Effective(o) => Stood(o)'
               /\ \A p \in cycle'.interims : p[1] = o => Effective(o)
               /\ o \in cycle'.described <=> Effective(o) /\ Worth(o)'
    <3>1. (Stood(o)' <=> Stood(o)) /\ (Worth(o)' <=> Worth(o))
      BY <1>2, <2>7 DEF Stood, Worth
    <3> QED
      BY <2>1, <2>7, <3>1 DEF UpToDate
  <2>8. CASE ScopeBegins
    <3>1. /\ cycle.at = "scope" /\ cycle'.at = "leave" /\ cycle'.day = today
          /\ cycle'.interims = cycle.interims /\ cycle'.described = cycle.described
      BY <1>1, <2>8 DEF ScopeBegins, CycleReads, Cycles
    <3>2. Naming(o, Active(cycle.day))' = Naming(o, Active(today))'
      BY <1>2, <3>1, ReadsKeep DEF Naming
    <3> QED
      BY <1>2, <2>7, <3>1, <3>2 DEF UpToDate
  <2>9. CASE ScopeReadsAbsents
    <3>1. /\ cycle.at = "leave" /\ cycle'.at = "members" /\ cycle'.absents = Absent(cycle.day)
          /\ cycle'.interims = cycle.interims /\ cycle'.described = cycle.described
      BY <1>1, <2>9 DEF ScopeReadsAbsents, CycleReads, Cycles
    <3>2. o \in cycle'.absents <=> o \in Absent(today)
      BY <1>3, <2>1, <3>1 DEF UpToDate
    <3> QED
      BY <1>2, <2>7, <3>1, <3>2 DEF UpToDate
  <2>10. CASE ScopeReadsTechnicians
    <3>1. /\ cycle.at = "members" /\ cycle'.at = "teams"
          /\ cycle'.actors = (Technicians \cap chosen) \ cycle.absents
          /\ cycle'.interims = cycle.interims /\ cycle'.described = cycle.described
      BY <1>1, <2>10 DEF ScopeReadsTechnicians, CycleReads, Cycles
    <3>2. o \in Technicians => (o \in cycle'.actors <=> Effective(o))
      BY <2>1, <3>1 DEF UpToDate, Effective
    <3> QED
      BY <1>2, <2>7, <3>1, <3>2 DEF UpToDate
  <2>11. CASE ScopeReadsGroups
    <3>1. /\ cycle.at = "teams" /\ cycle'.at = "triage"
          /\ cycle'.actors = cycle.actors \cup (Groups \cap chosen)
          /\ cycle'.interims = cycle.interims /\ cycle'.described = cycle.described
      BY <1>1, <2>11 DEF ScopeReadsGroups, CycleReads, Cycles
    <3>2. CASE o \in Technicians
      <4>1. o \in cycle'.actors <=> Effective(o)
        BY <1>1, <2>1, <3>1, <3>2 DEF UpToDate
      <4> QED
        BY <1>2, <2>7, <3>1, <4>1 DEF UpToDate
    <3>3. CASE o \notin Technicians
      <4>1. o \in cycle'.actors <=> Effective(o)
        BY <1>1, <3>1, <3>3 DEF RoutingInv, Actors, Effective
      <4> QED
        BY <1>2, <2>7, <3>1, <4>1 DEF UpToDate
    <3> QED
      BY <3>2, <3>3
  <2> QED
    BY <1>6, <2>2, <2>3, <2>4, <2>5, <2>6, <2>8, <2>9, <2>10, <2>11 DEF CycleStep
<1> QED
  BY <1>4, <1>5, <1>6

LEMMA RoutingStep ==
  ASSUME TypeOK, RoutingInv, [Next]_vars
  PROVE  RoutingInv'
<1> USE DEF glpiSide, base, history
<1>1. cycle \in Cycles
  BY DEF TypeOK
<1>2. CASE CycleStep
  <2>1. cycle'.at = "groups" => cycle'.described \subseteq Technicians
    BY <1>1, <1>2, Blank DEF CycleStep, CycleReads, CycleBegins, ProseReadsAbsents, ProseReadsAway,
       ProseReadsInterims, ProseReadsTechnicians, TellsOf, Described, ProseReadsGroups, ScopeBegins,
       ScopeReadsAbsents, ScopeReadsTechnicians, ScopeReadsGroups, CycleEnds, Cycles, NoCycle
  <2>2. cycle'.at = "teams" => cycle'.actors \subseteq Technicians
    BY <1>1, <1>2, Blank DEF CycleStep, CycleReads, CycleBegins, ProseReadsAbsents, ProseReadsAway,
       ProseReadsInterims, ProseReadsTechnicians, TellsOf, ProseReadsGroups, ScopeBegins,
       ScopeReadsAbsents, ScopeReadsTechnicians, ScopeReadsGroups, CycleEnds, Cycles, NoCycle
  <2> QED
    BY <1>2, <2>1, <2>2, ReadsHold DEF RoutingInv
<1>3. ASSUME UNCHANGED <<cycle.at, cycle.day, cycle.absents, cycle.away, cycle.interims,
                         cycle.described, cycle.actors>>,
             \A o \in Actors \ cycle'.moved : UpToDate(o) /\ Status(o)' = Status(o)
      PROVE  RoutingInv'
  <2>1. \A o \in Actors \ cycle'.moved : UpToDate(o)'
    BY <1>3, StillUpToDate
  <2> QED
    BY <1>3, <2>1 DEF RoutingInv
<1>4. CASE Moves
  <2>1. CASE cycle.at = "idle"
    <3>1. cycle'.at = "idle"
      BY <1>4, <2>1 DEF Moves
    <3> QED
      BY <3>1 DEF RoutingInv, UpToDate, Told
  <2>2. CASE cycle.at # "idle"
    <3>1. cycle' = [cycle EXCEPT !.moved = @ \cup {o \in Actors : Status(o)' # Status(o)}]
      BY <1>4, <2>2 DEF Moves
    <3>2. UNCHANGED <<cycle.at, cycle.day, cycle.absents, cycle.away, cycle.interims,
                      cycle.described, cycle.actors>>
      BY <1>1, <3>1 DEF Cycles
    <3>3. cycle'.moved = cycle.moved \cup {o \in Actors : Status(o)' # Status(o)}
      BY <1>1, <3>1 DEF Cycles
    <3>4. \A o \in Actors \ cycle'.moved : UpToDate(o) /\ Status(o)' = Status(o)
      BY <3>3 DEF RoutingInv
    <3> QED
      BY <1>3, <3>2, <3>4
  <2> QED
    BY <2>1, <2>2
<1>5. CASE UNCHANGED <<chosen, absences, today, cycle>>
  <2>1. \A o : Status(o)' = Status(o)
    BY <1>5 DEF Status, Naming, Items, Active
  <2> QED
    BY <1>3, <1>5, <2>1 DEF RoutingInv
<1>6. CycleStep \/ Moves \/ UNCHANGED <<chosen, absences, today, cycle>>
  BY DEF Next, ScanStep, ScanStarts, ScanStartLost, ScanReads, ScanFails, ScanCloses, ScanLeaks,
     ScanSelects, ScanCommits, DayPasses, Purge, GlpiChanges, vars, SaveStep, ChoiceBegins,
     ModesBegin, AbsencesBegin, Begins, ChoiceCommits, AbsencesCommit, ModesCommit, ModesAudit, SaveDies
<1> QED
  BY <1>2, <1>4, <1>5, <1>6

\* Whatever is saved, purged or begins between the SELECTs of a cycle, of an actor who is
\* not concerned it tells the LLM what the whitelist will accept: who is described may be
\* proposed, who stands in for somebody is told so, and the absent one may not be
\* proposed (routing_prose, effective_referentials).
THEOREM RoutingHolds == Spec => []RoutingFollowsWhitelist
<1>1. Init => RoutingInv
  BY Blank DEF Init, RoutingInv, UpToDate, Told
<1>2. TypeOK /\ RoutingInv /\ [Next]_vars => RoutingInv'
  BY RoutingStep
<1>3. RoutingInv => RoutingFollowsWhitelist
  <2> SUFFICES ASSUME RoutingInv, cycle.at = "triage", NEW o \in Actors \ cycle.moved
               PROVE  /\ o \in cycle.described <=>
                           o \in cycle.actors /\ (o \in Sheets \/ \E p \in cycle.interims : p[1] = o)
                      /\ o \in cycle.actors =>
                           \A i \in Active(today) : i.replacement = o => <<o, i.technician>> \in cycle.interims
                      /\ \A p \in cycle.interims : /\ p[1] = o => o \in cycle.actors
                                                   /\ p[2] = o => o \notin cycle.actors
    BY DEF RoutingFollowsWhitelist
  <2>1. UpToDate(o)
    BY DEF RoutingInv
  <2> QED
    BY <2>1 DEF UpToDate, Told, Stood, Worth, Effective
<1> QED
  BY <1>1, <1>2, <1>3, TypeCorrect, PTL DEF Spec

--------------------------------------------------------------------------------
(* The scan *)

LEMMA SessionStep ==
  ASSUME TypeOK, SessionsAreClosed, [Next]_vars
  PROVE  SessionsAreClosed'
<1> USE DEF glpiSide, base, history, SessionsAreClosed
<1>1. scan \in Scans
  BY DEF TypeOK
<1>2. CASE ScanStarts
  <2>1. scan'.at = "category"
    BY <1>2, Blank DEF ScanStarts, Scans
  <2> QED
    BY <2>1
<1>9. CASE ScanStartLost
  BY <1>9 DEF ScanStartLost
<1>3. CASE ScanReads
  <2>1. scan'.at = Following[scan.at] /\ scan.at \in Kinds
    BY <1>1, <1>3 DEF ScanReads, Scans
  <2>2. scan'.at \in {"technician", "group", "entity", "close"}
    BY <2>1 DEF Following, Kinds
  <2> QED
    BY <2>2
<1>4. CASE ScanFails
  <2>1. scan'.at = "abort"
    BY <1>1, <1>4 DEF ScanFails, Scans
  <2> QED
    BY <2>1
<1>5. CASE ScanCloses \/ ScanLeaks
  BY <1>5 DEF ScanCloses, ScanLeaks
<1>6. CASE ScanSelects \/ ScanCommits
  <2>1. scan.at \in {"select", "commit"} /\ UNCHANGED <<open, leaked>>
    BY <1>6 DEF ScanSelects, ScanCommits
  <2> QED
    BY <2>1
<1>7. CASE GlpiChanges
  <2>1. scan'.at = scan.at /\ UNCHANGED <<open, leaked>>
    BY <1>1, <1>7 DEF GlpiChanges, Scans
  <2> QED
    BY <2>1
<1>8. CASE ~ScanStep /\ ~GlpiChanges
  BY <1>8, CycleType DEF Next, DayPasses, Purge, vars, SaveStep, ChoiceBegins, ModesBegin, AbsencesBegin, Begins,
     ChoiceCommits, AbsencesCommit, ModesCommit, ModesAudit, SaveDies
<1> QED
  BY <1>2, <1>3, <1>4, <1>5, <1>6, <1>7, <1>8, <1>9 DEF ScanStep

\* A scan that is over, however it ended, leaves no session open at GLPI, unless the
\* request that opens it or the one that closes it was lost, or the process died
\* (GlpiClient.__aenter__, __aexit__).
THEOREM SessionsClosed == Spec => []SessionsAreClosed
<1>1. Init => SessionsAreClosed
  BY DEF Init, SessionsAreClosed
<1> QED
  BY <1>1, SessionStep, TypeCorrect, PTL DEF Spec

\* Whatever a scan has seen, GLPI knew at some time of it.
SeenWasThere ==
  /\ scan.seen \subseteq scan.there
  /\ scan.at \in Kinds => glpi \subseteq scan.there

LEMMA SeenStep ==
  ASSUME TypeOK, SeenWasThere, [Next]_vars
  PROVE  SeenWasThere'
<1> USE DEF glpiSide, base, history, SeenWasThere
<1>1. scan \in Scans
  BY DEF TypeOK
<1>2. NoScan.seen \subseteq NoScan.there /\ NoScan.at \notin Kinds
  BY DEF NoScan, Kinds
<1>3. CASE ScanStarts
  <2>1. scan'.seen = {} /\ scan'.there = glpi /\ glpi' = glpi
    BY <1>3 DEF ScanStarts, NoScan
  <2> QED
    BY <2>1
<1>9. CASE ScanStartLost
  BY <1>9 DEF ScanStartLost
<1>4. CASE ScanReads
  <2>1. PICK read \in Pages(scan.at) :
          scan' = [scan EXCEPT !.at = Following[scan.at], !.seen = @ \cup read]
    BY <1>4 DEF ScanReads
  <2>2. read \subseteq glpi /\ scan.at \in Kinds /\ glpi' = glpi
    BY <1>4, <2>1 DEF Pages, ScanReads
  <2>3. scan'.seen = scan.seen \cup read /\ scan'.there = scan.there
    BY <1>1, <2>1 DEF Scans
  <2> QED
    BY <2>2, <2>3
<1>5. CASE ScanFails \/ ScanSelects
  <2>1. scan'.seen = scan.seen /\ scan'.there = scan.there /\ scan'.at \notin Kinds
    BY <1>1, <1>5 DEF ScanFails, ScanSelects, Scans, Kinds
  <2> QED
    BY <2>1
<1>6. CASE ScanCloses \/ ScanLeaks \/ ScanCommits
  <2>1. scan' = NoScan \/ scan' = [scan EXCEPT !.at = "select"]
    BY <1>6 DEF ScanCloses, ScanLeaks, ScanCommits, Closed
  <2>2. CASE scan' = NoScan
    BY <1>2, <2>2
  <2>3. CASE scan' = [scan EXCEPT !.at = "select"]
    <3>1. scan'.seen = scan.seen /\ scan'.there = scan.there /\ scan'.at \notin Kinds
      BY <1>1, <2>3 DEF Scans, Kinds
    <3> QED
      BY <3>1
  <2> QED
    BY <2>1, <2>2, <2>3
<1>7. CASE GlpiChanges
  <2>1. PICK o \in Objects :
          /\ glpi' \subseteq glpi \cup {o}
          /\ scan' = IF scan.at = "idle" THEN scan ELSE [scan EXCEPT !.there = @ \cup {o}]
    BY <1>7 DEF GlpiChanges
  <2>2. CASE scan.at = "idle"
    BY <2>1, <2>2 DEF Kinds
  <2>3. CASE scan.at # "idle"
    <3>1. scan'.seen = scan.seen /\ scan'.there = scan.there \cup {o} /\ scan'.at = scan.at
      BY <1>1, <2>1, <2>3 DEF Scans
    <3> QED
      BY <2>1, <3>1
  <2> QED
    BY <2>2, <2>3
<1>8. CASE ~ScanStep /\ ~GlpiChanges
  BY <1>8, CycleType DEF Next, DayPasses, Purge, vars, SaveStep, ChoiceBegins, ModesBegin, AbsencesBegin, Begins,
     ChoiceCommits, AbsencesCommit, ModesCommit, ModesAudit, SaveDies
<1> QED
  BY <1>3, <1>4, <1>5, <1>6, <1>7, <1>8, <1>9 DEF ScanStep

\* A scan certifies only objects that GLPI knew at some time of it, and undoes no choice
\* the administrator saved while it ran (sync).
THEOREM ScanConfirms == Spec => ScanOnlyConfirms
<1> DEFINE Confirms == dated' # dated =>
             /\ \A o \in Objects : dated'[o] # dated[o] => o \in scan.there
             /\ chosen' = chosen /\ settings' = settings
<1>1. Init => SeenWasThere
  BY DEF Init, SeenWasThere, NoScan, Kinds
<1>2. TypeOK /\ SeenWasThere /\ [Next]_vars => SeenWasThere'
  BY SeenStep
<1>3. TypeOK /\ SeenWasThere /\ [Next]_vars => [Confirms]_vars
  <2> SUFFICES ASSUME TypeOK, SeenWasThere, Next PROVE Confirms
    BY DEF vars, base
  <2>1. CASE ScanCommits
    BY <2>1 DEF ScanCommits, Dates, SeenWasThere, TypeOK
  <2>2. CASE ~ScanCommits
    <3>1. dated' = dated
      BY <2>2, CycleType DEF Next, ScanStep, ScanStarts, ScanStartLost, ScanReads, ScanFails, ScanCloses, ScanLeaks, ScanSelects,
         DayPasses, Purge, GlpiChanges, base, SaveStep, ChoiceBegins, ModesBegin, AbsencesBegin,
         Begins, ChoiceCommits, AbsencesCommit, ModesCommit, ModesAudit, SaveDies
    <3> QED
      BY <3>1
  <2> QED
    BY <2>1, <2>2
<1> QED
  BY <1>1, <1>2, <1>3, TypeCorrect, PTL DEF Spec, ScanOnlyConfirms
=============================================================================

--------------------------------- MODULE Backup ---------------------------------
(***************************************************************************)
(* The hot backup (backup.py): a command counts the rows of a database in   *)
(* use, dumps it, reads the dump again and compares, and copies the key     *)
(* file beside it.  The engine keeps writing meanwhile, a second backup may *)
(* run, tools fail and leave half an archive, and the command may be killed.*)
(***************************************************************************)
EXTENDS Naturals, FiniteSets

CONSTANTS
  Tables,      \* the tables of the schema
  Secrets,     \* the one that holds encrypted values
  Runs,        \* backups that may run at a time
  NoRun,       \* owner of a folder whose command has ended
  Horizon,     \* bound on the seconds of the clock
  MaxFaults    \* bound on tools that fail, commands that are killed, files that are lost

ASSUME SecretsAssumption == Secrets \in Tables
ASSUME NoRunAssumption == NoRun \notin Runs
ASSUME BoundsAssumption == {Horizon, MaxFaults} \subseteq Nat

VARIABLES
  second,    \* the clock, to the second
  live,      \* the tables that hold rows at present
  envKey,    \* MASTER_KEY is set in the container
  keyFile,   \* data/master.key
  engineKey, \* has the process of the engine its key
  folders,   \* destination/: what is in each folder, by its timestamp
  run,       \* the commands under way
  reported,  \* timestamps of the backups that ended with exit code 0
  faults

keys == <<envKey, keyFile, engineKey>>

engine == <<second, live, keys>>

vars == <<engine, folders, run, reported, faults>>

--------------------------------------------------------------------------------
(* Types *)

\* The file: never made, emptied and not yet written, written, lost since; or the key of an
\* earlier setting, which is not the one of MASTER_KEY.
KeyStates == {"absent", "torn", "written", "lost", "other"}

\* What a command did of it: nothing, or it copied the file, or, where the file was missing,
\* it announced that the key is not in the backup.
KeyCopies == KeyStates \cup {"none"}

EngineKeys == {"none", "writing", "held"}

\* An archive is one snapshot: the tables it lists, those of them with rows, and whether
\* pg_restore can read it to its end.
Archives == [listed : SUBSET Tables, rows : SUBSET Tables, sound : BOOLEAN]

NoArchive == [listed |-> {}, rows |-> {}, sound |-> FALSE]

\* `kept` is history: the tables that held rows all the time from the count to the dump.
Folders == [owner : Runs \cup {NoRun}, archive : Archives, key : KeyCopies, kept : SUBSET Tables]

Points == {"idle", "count", "mkdir", "dump", "verify", "copy", "remove"}

Dumped == {"verify", "copy", "remove"}

Commands == [at : Points, expected : SUBSET Tables, counted : SUBSET Tables, kept : SUBSET Tables,
             stamp : 0..Horizon]

Idle == [at |-> "idle", expected |-> {}, counted |-> {}, kept |-> {}, stamp |-> 0]

Init ==
  /\ second = 0
  /\ live \in SUBSET (Tables \ {Secrets})
  /\ envKey \in BOOLEAN
  /\ \/ ~envKey /\ keyFile = "absent" /\ engineKey = "none"
     \/ envKey /\ keyFile \in {"absent", "other", "written"} /\ engineKey = "held"
  /\ folders = [s \in {} |-> NoArchive]
  /\ run = [b \in Runs |-> Idle]
  /\ reported = {}
  /\ faults = 0

\* What was expected is read no more once the archive is verified.
Goto(b, point) ==
  run' = [run EXCEPT ![b].at = point, ![b].expected = IF point = "verify" THEN @ ELSE {}]

Fault == faults < MaxFaults /\ faults' = faults + 1

--------------------------------------------------------------------------------
(* The engine beside the backup *)

Tick ==
  /\ second < Horizon
  /\ second' = second + 1
  /\ UNCHANGED <<live, keys, folders, run, reported, faults>>

\* The first row of a table; a secret is written by a process that has its key in memory,
\* whatever has become of the file.
Insert ==
  \E t \in Tables \ live :
    /\ t = Secrets => engineKey = "held"
    /\ live' = live \cup {t}
    /\ UNCHANGED <<second, keys, folders, run, reported, faults>>

\* The last row of a table is deleted, by a purge or by the console.
Delete ==
  \E t \in live :
    /\ t = Secrets => engineKey = "held"
    /\ live' = live \ {t}
    /\ run' = [b \in Runs |-> IF run[b].at \in Dumped THEN run[b]
                               ELSE [run[b] EXCEPT !.kept = @ \ {t}]]
    /\ UNCHANGED <<second, keys, folders, reported, faults>>

\* An engine that starts with neither makes its key, in two steps, if no secret is in the
\* database.
GenerateKey ==
  /\ \/ /\ engineKey = "none" /\ keyFile \in {"absent", "lost"} /\ Secrets \notin live
        /\ keyFile' = "torn" /\ engineKey' = "writing"
     \/ /\ engineKey = "writing"
        /\ keyFile' = IF keyFile = "torn" THEN "written" ELSE keyFile
        /\ engineKey' = "held"
  /\ UNCHANGED <<second, live, envKey, folders, run, reported, faults>>

\* The volume is remounted or cleaned under a running engine.
LoseKeyFile ==
  /\ keyFile \in {"torn", "written", "other"}
  /\ Fault
  /\ keyFile' = "lost"
  /\ UNCHANGED <<second, live, envKey, engineKey, folders, run, reported>>

\* The container stops, with the commands that run in it, and starts: the engine takes its
\* key from the environment or the file.
Restart ==
  /\ Fault
  /\ engineKey' = IF envKey \/ keyFile = "written" THEN "held" ELSE "none"
  /\ folders' = [s \in DOMAIN folders |-> [folders[s] EXCEPT !.owner = NoRun]]
  /\ run' = [b \in Runs |-> Idle]
  /\ UNCHANGED <<second, live, envKey, keyFile, reported>>

--------------------------------------------------------------------------------
(* The command *)

Start(b) ==
  /\ run[b].at = "idle"
  /\ run' = [run EXCEPT ![b] = [Idle EXCEPT !.at = "count"]]
  /\ UNCHANGED <<engine, folders, reported, faults>>

\* compte_les_lignes: one SELECT per table, each sees the commits made so far.
CountTable(b) ==
  /\ run[b].at = "count"
  /\ \E t \in Tables \ run[b].counted :
       run' = [run EXCEPT ![b].counted = @ \cup {t},
                          ![b].expected = @ \cup (live \cap {t}),
                          ![b].kept = @ \cup (live \cap {t}),
                          ![b].at = IF run[b].counted \cup {t} = Tables THEN "mkdir" ELSE "count"]
  /\ UNCHANGED <<engine, folders, reported, faults>>

\* Mutant: mkdir(exist_ok=True).
MakeFolderOrReuse(b) ==
  /\ run[b].at = "mkdir"
  /\ folders' = [s \in DOMAIN folders \cup {second} |->
                   IF s = second THEN [owner |-> b, archive |-> NoArchive, key |-> "none", kept |-> {}]
                   ELSE folders[s]]
  /\ run' = [run EXCEPT ![b].at = "dump", ![b].stamp = second]
  /\ UNCHANGED <<engine, reported, faults>>

\* The folder of this second is made, or belongs to another backup: the command fails there,
\* outside the `try`, and removes nothing.
MakeFolder(b) ==
  /\ run[b].at = "mkdir"
  /\ \/ /\ second \notin DOMAIN folders
        /\ folders' = [s \in DOMAIN folders \cup {second} |->
                         IF s = second THEN [owner |-> b, archive |-> NoArchive, key |-> "none", kept |-> {}]
                         ELSE folders[s]]
        /\ run' = [run EXCEPT ![b].at = "dump", ![b].stamp = second]
     \/ /\ second \in DOMAIN folders
        /\ run' = [run EXCEPT ![b] = Idle]
        /\ UNCHANGED folders
  /\ UNCHANGED <<engine, reported, faults>>

Store(b, archive) == folders' = [folders EXCEPT ![run[b].stamp].archive = archive]

Snapshot == [listed |-> Tables, rows |-> live, sound |-> TRUE]

\* pg_dump writes one consistent snapshot,
Dump(b) ==
  /\ run[b].at = "dump"
  /\ Store(b, Snapshot)
  /\ Goto(b, "verify")
  /\ UNCHANGED <<engine, reported, faults>>

\* or it fails, or says it succeeded and left an archive that is cut short, lacks a table
\* or has one without its rows.
DumpBadly(b) ==
  /\ run[b].at = "dump"
  /\ Fault
  /\ \/ Goto(b, "remove") /\ UNCHANGED folders
     \/ /\ \/ Store(b, [Snapshot EXCEPT !.sound = FALSE])
           \/ \E t \in Tables : Store(b, [Snapshot EXCEPT !.listed = @ \ {t}, !.rows = @ \ {t}])
           \/ \E t \in live : Store(b, [Snapshot EXCEPT !.rows = @ \ {t}])
        /\ Goto(b, "verify")
  /\ UNCHANGED <<engine, reported>>

\* Mutant: the structure of the archive is checked, not its rows.
PassesByStructure(archive, expected) == archive.sound /\ Tables \subseteq archive.listed

\* verifie: readable to the end, no table missing, no table empty that was counted with rows.
Passes(archive, expected) ==
  archive.sound /\ Tables \subseteq archive.listed /\ expected \subseteq archive.rows

Verify(b) ==
  /\ run[b].at = "verify"
  /\ Goto(b, IF Passes(folders[run[b].stamp].archive, run[b].expected) THEN "copy" ELSE "remove")
  /\ UNCHANGED <<engine, folders, reported, faults>>

\* Mutant: a key that cannot be copied is passed over.
CopyKeyIfPossible(b) ==
  /\ run[b].at = "copy"
  /\ \E copy \in {keyFile, "none"} :
       folders' = [folders EXCEPT ![run[b].stamp].key = copy, ![run[b].stamp].kept = run[b].kept,
                                  ![run[b].stamp].owner = NoRun]
  /\ reported' = reported \cup {run[b].stamp}
  /\ run' = [run EXCEPT ![b] = Idle]
  /\ UNCHANGED <<engine, faults>>

\* The key file is copied as it is, or it is announced that there is none and that the key
\* is to be saved apart; the command ends with 0 either way.
CopyKey(b) ==
  /\ run[b].at = "copy"
  /\ folders' = [folders EXCEPT ![run[b].stamp].key = keyFile, ![run[b].stamp].kept = run[b].kept,
                                ![run[b].stamp].owner = NoRun]
  /\ reported' = reported \cup {run[b].stamp}
  /\ run' = [run EXCEPT ![b] = Idle]
  /\ UNCHANGED <<engine, faults>>

CopyFails(b) ==
  /\ run[b].at = "copy"
  /\ Fault
  /\ Goto(b, "remove")
  /\ UNCHANGED <<engine, folders, reported>>

\* rmtree(ignore_errors=True), then the error goes up: the folder is gone, or part of it is
\* left if it could not be removed.
RemoveFolder(b) ==
  LET mine == run[b].stamp IN
  /\ run[b].at = "remove"
  /\ \/ /\ folders' = [s \in DOMAIN folders \ {mine} |-> folders[s]]
        /\ UNCHANGED faults
     \/ /\ Fault
        /\ folders' = [folders EXCEPT ![mine].owner = NoRun]
  /\ run' = [run EXCEPT ![b] = Idle]
  /\ UNCHANGED <<engine, reported>>

\* The command is killed, or interrupted: no `except Exception` catches that.
Kill(b) ==
  /\ run[b].at # "idle"
  /\ Fault
  /\ folders' = [s \in DOMAIN folders |->
                   IF folders[s].owner = b THEN [folders[s] EXCEPT !.owner = NoRun] ELSE folders[s]]
  /\ run' = [run EXCEPT ![b] = Idle]
  /\ UNCHANGED <<engine, reported>>

Next ==
  \/ Tick
  \/ Insert
  \/ Delete
  \/ GenerateKey
  \/ LoseKeyFile
  \/ Restart
  \/ \E b \in Runs :
       \/ Start(b)
       \/ CountTable(b)
       \/ MakeFolder(b)
       \/ Dump(b)
       \/ DumpBadly(b)
       \/ Verify(b)
       \/ CopyKey(b)
       \/ CopyFails(b)
       \/ RemoveFolder(b)
       \/ Kill(b)

Spec == Init /\ [][Next]_vars

--------------------------------------------------------------------------------
(* Properties *)

\* A command past its mkdir works in a folder of its own.
TypeOK ==
  /\ second \in 0..Horizon /\ faults \in 0..MaxFaults
  /\ live \in SUBSET Tables
  /\ envKey \in BOOLEAN /\ keyFile \in KeyStates /\ engineKey \in EngineKeys
  /\ DOMAIN folders \subseteq 0..Horizon /\ folders \in [DOMAIN folders -> Folders]
  /\ run \in [Runs -> Commands]
  /\ reported \subseteq 0..Horizon
  /\ \A b \in Runs : run[b].at \in {"dump", "verify", "copy", "remove"}
       => run[b].stamp \in DOMAIN folders /\ folders[run[b].stamp].owner = b

\* A backup that was announced is there for good, whatever another one of the same second
\* does or fails at: it can be read to its end and holds every table, with rows in each one
\* that held some throughout (backup.py:22-37, 241-245).
ReportedIsRestorable ==
  \A s \in reported :
    /\ s \in DOMAIN folders
    /\ folders[s].archive.sound /\ folders[s].archive.listed = Tables
    /\ folders[s].kept \subseteq folders[s].archive.rows

\* The secrets of an announced backup are readable with the key beside them, although dump and
\* copy are taken at two instants of an engine that runs, restarts and makes its key.  If they
\* are not, the file had been lost and the command said that it is missing, or the key is
\* in the environment (backup.py:276-289): never is it left out in silence, or half copied.
ReportedHasItsKey ==
  \A s \in reported \cap DOMAIN folders :
    Secrets \in folders[s].archive.rows =>
      folders[s].key \in {"written", "lost"} \cup (IF envKey THEN {"absent", "other"} ELSE {})

\* A folder changes, or goes, only by a step of the command that made it: a backup that
\* fails removes what is its own, and what an ended command left is touched by none.
FoldersAreOwned ==
  [][\A s \in DOMAIN folders :
       ~(s \in DOMAIN folders' /\ folders'[s] = folders[s])
         => folders[s].owner \in Runs /\ run'[folders[s].owner].at # run[folders[s].owner].at]_vars

================================================================================

------------------------------ MODULE BackupProofs ------------------------------
(***************************************************************************)
(* What module Backup guarantees for any schema, any number of backups at a *)
(* time and of faults.                                                      *)
(***************************************************************************)
EXTENDS Backup, TLAPS

--------------------------------------------------------------------------------
(* Types *)

\* The points at which a command has a folder.
Working == {"dump", "verify", "copy", "remove"}

Fresh(b) == [owner |-> b, archive |-> NoArchive, key |-> "none", kept |-> {}]

LEMMA RecordTypes ==
  /\ Idle \in Commands /\ Idle.at = "idle" /\ Idle.kept = {} /\ Idle.expected = {}
  /\ NoArchive \in Archives /\ NoArchive.rows = {}
  /\ \A b \in Runs : Fresh(b) \in Folders
  /\ NoRun \in Runs \cup {NoRun}
BY BoundsAssumption DEF Idle, Commands, Points, NoArchive, Archives, Fresh, Folders, KeyCopies

\* A command that moves on is still one, and works in its folder.
LEMMA GotoTypes ==
  ASSUME TypeOK, NEW b \in Runs, NEW point \in Points, Goto(b, point),
         point \in Working => run[b].at \in Working
  PROVE  /\ run' \in [Runs -> Commands]
         /\ \A c \in Runs : /\ run'[c].stamp = run[c].stamp /\ run'[c].kept = run[c].kept
                            /\ c # b => run'[c] = run[c]
                            /\ run'[c].at \in Working => run[c].at \in Working
         /\ run'[b].at = point
         /\ point = "verify" => run'[b].expected = run[b].expected
<1>1. run \in [Runs -> Commands] /\ run[b] \in Commands
  BY DEF TypeOK
<1>2. PICK e \in SUBSET Tables :
        /\ run' = [run EXCEPT ![b] = [run[b] EXCEPT !.at = point, !.expected = e]]
        /\ point = "verify" => e = run[b].expected
  <2>1. (IF point = "verify" THEN run[b].expected ELSE {}) \in SUBSET Tables
    BY <1>1 DEF Commands
  <2> QED
    BY <1>1, <2>1 DEF Goto
<1>3. [run[b] EXCEPT !.at = point, !.expected = e] \in Commands
  BY <1>1 DEF Commands
<1> QED
  BY <1>1, <1>2, <1>3 DEF Commands

\* A command that has ended.
LEMMA EndTypes ==
  ASSUME TypeOK, NEW b \in Runs, run' = [run EXCEPT ![b] = Idle]
  PROVE  /\ run' \in [Runs -> Commands]
         /\ run'[b] = Idle
         /\ \A c \in Runs \ {b} : run'[c] = run[c]
BY RecordTypes DEF TypeOK

\* Changing a field of the folder of a command at work keeps the others as they are.
LEMMA FolderTypes ==
  ASSUME TypeOK, NEW b \in Runs, run[b].at \in Working, NEW f \in Folders,
         folders' = [folders EXCEPT ![run[b].stamp] = f]
  PROVE  /\ DOMAIN folders' = DOMAIN folders
         /\ folders' \in [DOMAIN folders' -> Folders]
         /\ folders'[run[b].stamp] = f
         /\ \A s \in DOMAIN folders : s # run[b].stamp => folders'[s] = folders[s]
         /\ \A c \in Runs \ {b} : run[c].at \in Working
              => run[c].stamp # run[b].stamp /\ folders'[run[c].stamp] = folders[run[c].stamp]
<1>1. run[b].stamp \in DOMAIN folders /\ folders[run[b].stamp].owner = b
  BY DEF TypeOK, Working
<1>2. folders \in [DOMAIN folders -> Folders]
  BY DEF TypeOK
<1>3. /\ DOMAIN folders' = DOMAIN folders
      /\ \A s \in DOMAIN folders : folders'[s] = IF s = run[b].stamp THEN f ELSE folders[s]
      /\ folders' \in [DOMAIN folders -> Folders]
  BY <1>1, <1>2
<1>4. \A c \in Runs \ {b} : run[c].at \in Working
        => run[c].stamp \in DOMAIN folders /\ run[c].stamp # run[b].stamp
  BY <1>1 DEF TypeOK, Working
<1> QED
  BY <1>1, <1>3, <1>4

LEMMA SnapshotType == TypeOK => Snapshot \in Archives
BY DEF TypeOK, Snapshot, Archives

LEMMA DumpTypes ==
  ASSUME TypeOK, NEW b \in Runs, run[b].at \in Working, NEW a \in Archives, Store(b, a)
  PROVE  /\ folders' = [folders EXCEPT ![run[b].stamp] =
                          [folders[run[b].stamp] EXCEPT !.archive = a]]
         /\ [folders[run[b].stamp] EXCEPT !.archive = a] \in Folders
<1> DEFINE mine == run[b].stamp
<1>1. mine \in DOMAIN folders /\ folders[mine] \in Folders
  BY DEF TypeOK, Working
<1>2. folders = [s \in DOMAIN folders |-> folders[s]]
  BY DEF TypeOK
<1>3. folders' = [folders EXCEPT ![mine] = [folders[mine] EXCEPT !.archive = a]]
  BY <1>1, <1>2 DEF Store
<1>4. [folders[mine] EXCEPT !.archive = a] \in Folders
  BY <1>1 DEF Folders
<1> QED
  BY <1>3, <1>4

\* What a command may find in its archive after pg_dump.
LEMMA BadArchives ==
  ASSUME TypeOK, NEW t \in Tables
  PROVE  /\ [Snapshot EXCEPT !.sound = FALSE] \in Archives
         /\ [Snapshot EXCEPT !.listed = @ \ {t}, !.rows = @ \ {t}] \in Archives
         /\ [Snapshot EXCEPT !.rows = @ \ {t}] \in Archives
BY DEF TypeOK, Snapshot, Archives

LEMMA BadDumpStores ==
  ASSUME TypeOK, NEW b \in Runs, DumpBadly(b)
  PROVE  \/ Goto(b, "remove") /\ folders' = folders
         \/ \E a \in Archives : /\ a.rows \subseteq live /\ Store(b, a) /\ Goto(b, "verify")
<1>1. CASE Goto(b, "remove") /\ UNCHANGED folders
  BY <1>1
<1>2. CASE Store(b, [Snapshot EXCEPT !.sound = FALSE]) /\ Goto(b, "verify")
  <2>1. [Snapshot EXCEPT !.sound = FALSE].rows \subseteq live
    BY DEF Snapshot
  <2> QED
    BY <1>2, <2>1, SecretsAssumption, BadArchives
<1>3. ASSUME NEW t \in Tables, Goto(b, "verify"),
             Store(b, [Snapshot EXCEPT !.listed = @ \ {t}, !.rows = @ \ {t}])
      PROVE  \E a \in Archives : /\ a.rows \subseteq live /\ Store(b, a) /\ Goto(b, "verify")
  <2>1. [Snapshot EXCEPT !.listed = @ \ {t}, !.rows = @ \ {t}].rows \subseteq live
    BY DEF Snapshot
  <2> QED
    BY <1>3, <2>1, BadArchives
<1>4. ASSUME NEW t \in live, Goto(b, "verify"), Store(b, [Snapshot EXCEPT !.rows = @ \ {t}])
      PROVE  \E a \in Archives : /\ a.rows \subseteq live /\ Store(b, a) /\ Goto(b, "verify")
  <2>1. [Snapshot EXCEPT !.rows = @ \ {t}].rows \subseteq live /\ t \in Tables
    BY DEF Snapshot, TypeOK
  <2> QED
    BY <1>4, <2>1, BadArchives
<1> QED
  BY <1>1, <1>2, <1>3, <1>4 DEF DumpBadly

\* A command that has counted one more table.
Counted(b, t) ==
  [run[b] EXCEPT !.counted = @ \cup {t}, !.expected = @ \cup (live \cap {t}),
                 !.kept = @ \cup (live \cap {t}),
                 !.at = IF run[b].counted \cup {t} = Tables THEN "mkdir" ELSE "count"]

LEMMA CountTypes ==
  ASSUME TypeOK, NEW b \in Runs
  PROVE  /\ \A t \in Tables : /\ Counted(b, t) \in Commands /\ Counted(b, t).at \in {"mkdir", "count"}
                              /\ Counted(b, t).kept = run[b].kept \cup (live \cap {t})
                              /\ Counted(b, t).expected = run[b].expected \cup (live \cap {t})
         /\ CountTable(b) => \E t \in Tables : run' = [run EXCEPT ![b] = Counted(b, t)]
<1>1. run[b] \in Commands /\ live \in SUBSET Tables
  BY DEF TypeOK
<1>2. ASSUME NEW t \in Tables
      PROVE  /\ Counted(b, t) \in Commands /\ Counted(b, t).at \in {"mkdir", "count"}
             /\ Counted(b, t).kept = run[b].kept \cup (live \cap {t})
             /\ Counted(b, t).expected = run[b].expected \cup (live \cap {t})
  BY <1>1 DEF Counted, Commands, Points
<1>3. CountTable(b) => \E t \in Tables : run' = [run EXCEPT ![b] = Counted(b, t)]
  BY DEF CountTable, Counted, TypeOK
<1> QED
  BY <1>2, <1>3

\* A folder is made for a command that had none.
LEMMA MakeTypes ==
  ASSUME TypeOK, NEW b \in Runs, MakeFolder(b), second \notin DOMAIN folders
  PROVE  /\ DOMAIN folders' = DOMAIN folders \cup {second}
         /\ folders' \in [DOMAIN folders' -> Folders]
         /\ folders'[second] = Fresh(b)
         /\ \A s \in DOMAIN folders : folders'[s] = folders[s]
         /\ run' = [run EXCEPT ![b] = [run[b] EXCEPT !.at = "dump", !.stamp = second]]
         /\ run'[b] = [run[b] EXCEPT !.at = "dump", !.stamp = second]
         /\ run'[b].stamp = second
         /\ run' \in [Runs -> Commands]
<1>1. folders' = [s \in DOMAIN folders \cup {second} |-> IF s = second THEN Fresh(b) ELSE folders[s]]
  BY DEF MakeFolder, Fresh
<1>2. folders' \in [DOMAIN folders \cup {second} -> Folders]
  BY <1>1, RecordTypes DEF TypeOK
<1> DEFINE call == [run[b] EXCEPT !.at = "dump", !.stamp = second]
<1>3. run' = [run EXCEPT ![b] = call]
  BY DEF MakeFolder, TypeOK
<1>4. call.stamp = second /\ run'[b] = call /\ run' \in [Runs -> Commands]
  <2>1. run[b] \in Commands /\ second \in 0..Horizon
    BY DEF TypeOK
  <2>2. call \in Commands /\ call.stamp = second
    BY <2>1 DEF Commands, Points
  <2> QED
    BY <2>2, <1>3 DEF TypeOK
<1> QED
  BY <1>1, <1>2, <1>3, <1>4

\* The end of a command that was killed leaves its folder to nobody.
LEMMA KillTypes ==
  ASSUME TypeOK, NEW b \in Runs, Kill(b)
  PROVE  /\ DOMAIN folders' = DOMAIN folders
         /\ folders' \in [DOMAIN folders' -> Folders]
         /\ \A s \in DOMAIN folders :
              folders'[s] = IF folders[s].owner = b THEN [folders[s] EXCEPT !.owner = NoRun] ELSE folders[s]
BY DEF TypeOK, Kill, Folders

\* Owning: the last conjunct of TypeOK.
Owns(b) == run[b].at \in Working => run[b].stamp \in DOMAIN folders /\ folders[run[b].stamp].owner = b

LEMMA OwnsFolder ==
  ASSUME TypeOK, NEW b \in Runs
  PROVE  Owns(b)
BY DEF TypeOK, Owns, Working

\* A step that leaves the folders alone and starts no work in one.
LEMMA KeepsOwners ==
  ASSUME TypeOK, folders' = folders,
         \A b \in Runs : run'[b].at \in Working => run[b].at \in Working /\ run'[b].stamp = run[b].stamp
  PROVE  \A b \in Runs : Owns(b)'
BY OwnsFolder DEF Owns

LEMMA DumpKeepsOwners ==
  ASSUME TypeOK, NEW b \in Runs, run[b].at = "dump", NEW a \in Archives, Store(b, a), Goto(b, "verify")
  PROVE  /\ DOMAIN folders' = DOMAIN folders
         /\ folders' \in [DOMAIN folders' -> Folders]
         /\ run' \in [Runs -> Commands]
         /\ \A c \in Runs : Owns(c)'
<1> DEFINE f == [folders[run[b].stamp] EXCEPT !.archive = a]
<1>1. run[b].at \in Working /\ "verify" \in Working /\ "verify" \in Points
  BY DEF Working, Points
<1>2. f \in Folders /\ folders' = [folders EXCEPT ![run[b].stamp] = f]
  BY <1>1, DumpTypes
<1>3. f.owner = b
  <2>1. folders[run[b].stamp] \in Folders /\ folders[run[b].stamp].owner = b
    BY <1>1, OwnsFolder DEF Owns, TypeOK
  <2> QED
    BY <2>1 DEF Folders
<1> HIDE DEF f
<1>4. ASSUME NEW c \in Runs PROVE Owns(c)'
  BY <1>1, <1>2, <1>3, FolderTypes, GotoTypes, OwnsFolder DEF Owns
<1> QED
  BY <1>1, <1>2, <1>4, FolderTypes, GotoTypes

\* What the deletion of the last row of a table makes of a command.
Losing(b, t) == IF run[b].at \in Dumped THEN run[b] ELSE [run[b] EXCEPT !.kept = @ \ {t}]

LEMMA LosingTypes ==
  ASSUME TypeOK, NEW b \in Runs, NEW t
  PROVE  /\ Losing(b, t) \in Commands
         /\ Losing(b, t).at = run[b].at /\ Losing(b, t).stamp = run[b].stamp
         /\ Losing(b, t).expected = run[b].expected /\ Losing(b, t).kept \subseteq run[b].kept
<1>1. run[b] \in Commands
  BY DEF TypeOK
<1> QED
  BY <1>1 DEF Losing, Commands

LEMMA NextTypes ==
  ASSUME TypeOK, [Next]_vars
  PROVE  TypeOK'
<1> USE DEF Fault
<1>1. ASSUME run' \in [Runs -> Commands],
             DOMAIN folders' \subseteq 0..Horizon, folders' \in [DOMAIN folders' -> Folders],
             \A b \in Runs : Owns(b)',
             second' \in 0..Horizon, faults' \in 0..MaxFaults, live' \in SUBSET Tables,
             envKey' \in BOOLEAN, keyFile' \in KeyStates, engineKey' \in EngineKeys,
             reported' \subseteq 0..Horizon
      PROVE  TypeOK'
  BY <1>1 DEF TypeOK, Owns, Working
<1>2. CASE Tick \/ Insert \/ GenerateKey \/ LoseKeyFile \/ UNCHANGED vars
  <2>1. folders' = folders /\ run' = run /\ reported' = reported
    BY <1>2 DEF Tick, Insert, GenerateKey, LoseKeyFile, vars
  <2>2. second' \in 0..Horizon /\ faults' \in 0..MaxFaults
    BY <1>2, BoundsAssumption DEF Tick, Insert, GenerateKey, LoseKeyFile, vars, engine, TypeOK
  <2>3. /\ live' \in SUBSET Tables
        /\ envKey' \in BOOLEAN /\ keyFile' \in KeyStates /\ engineKey' \in EngineKeys
    BY <1>2
    DEF Tick, Insert, GenerateKey, LoseKeyFile, vars, engine, keys, TypeOK, KeyStates, EngineKeys
  <2>4. \A b \in Runs : Owns(b)'
    BY <2>1, KeepsOwners
  <2> QED
    BY <1>1, <2>1, <2>2, <2>3, <2>4 DEF TypeOK
<1>3. CASE Delete
  <2>1. PICK t \in live : live' = live \ {t} /\ run' = [b \in Runs |-> Losing(b, t)]
    BY <1>3 DEF Delete, Losing
  <2>2. run' \in [Runs -> Commands] /\ \A b \in Runs : run'[b].at = run[b].at /\ run'[b].stamp = run[b].stamp
    BY <2>1, LosingTypes
  <2>3. \A b \in Runs : Owns(b)'
    BY <1>3, <2>2, KeepsOwners DEF Delete
  <2>4. UNCHANGED <<second, keys, folders, reported, faults>>
    BY <1>3 DEF Delete
  <2> QED
    BY <1>1, <2>1, <2>2, <2>3, <2>4 DEF keys, TypeOK
<1>13. CASE Restart
  <2>1. /\ UNCHANGED <<second, live, envKey, keyFile, reported>>
        /\ faults' \in 0..MaxFaults /\ engineKey' \in EngineKeys
    BY <1>13, BoundsAssumption DEF Restart, EngineKeys, TypeOK
  <2>2. DOMAIN folders' = DOMAIN folders /\ folders' \in [DOMAIN folders' -> Folders]
    BY <1>13 DEF Restart, TypeOK, Folders
  <2>3. run' \in [Runs -> Commands] /\ \A b \in Runs : run'[b].at \notin Working
    BY <1>13, RecordTypes DEF Restart, Working
  <2>4. \A b \in Runs : Owns(b)'
    BY <2>3 DEF Owns
  <2> QED
    BY <1>1, <2>1, <2>2, <2>3, <2>4 DEF TypeOK
<1> SUFFICES ASSUME NEW b \in Runs,
                    \/ Start(b) \/ CountTable(b) \/ MakeFolder(b) \/ Dump(b) \/ DumpBadly(b) \/ Verify(b)
                    \/ CopyKey(b) \/ CopyFails(b) \/ RemoveFolder(b) \/ Kill(b)
             PROVE  TypeOK'
  BY <1>2, <1>3, <1>13 DEF Next
<1>4. CASE Start(b)
  <2>1. run' \in [Runs -> Commands] /\ \A c \in Runs : run'[c].at \in Working => run'[c] = run[c]
    BY <1>4, RecordTypes DEF Start, TypeOK, Commands, Points, Idle, Working
  <2>2. \A c \in Runs : Owns(c)'
    BY <1>4, <2>1, KeepsOwners DEF Start
  <2> QED
    BY <1>1, <1>4, <2>1, <2>2 DEF Start, engine, keys, TypeOK
<1>5. CASE CountTable(b)
  <2>1. PICK t \in Tables : run' = [run EXCEPT ![b] = Counted(b, t)]
    BY <1>5, CountTypes
  <2>2. /\ run' \in [Runs -> Commands]
        /\ \A c \in Runs : run'[c].at \in Working => run'[c] = run[c]
    BY <1>5, <2>1, CountTypes DEF TypeOK, Working, CountTable
  <2>3. \A c \in Runs : Owns(c)'
    BY <1>5, <2>2, KeepsOwners DEF CountTable
  <2> QED
    BY <1>1, <1>5, <2>2, <2>3 DEF CountTable, engine, keys, TypeOK
<1>6. CASE MakeFolder(b)
  <2>1. CASE second \in DOMAIN folders
    <3>1. run' = [run EXCEPT ![b] = Idle] /\ folders' = folders
      BY <1>6, <2>1 DEF MakeFolder
    <3>2. \A c \in Runs : run'[c].at \in Working => run'[c] = run[c]
      BY <3>1, RecordTypes, EndTypes DEF Working
    <3>3. \A c \in Runs : Owns(c)'
      BY <3>1, <3>2, KeepsOwners
    <3>4. UNCHANGED <<engine, reported, faults>>
      BY <1>6 DEF MakeFolder, engine
    <3> QED
      BY <1>1, <3>1, <3>3, <3>4, EndTypes DEF engine, keys, TypeOK
  <2>2. CASE second \notin DOMAIN folders
    <3>1. \A c \in Runs \ {b} : run'[c] = run[c]
      BY <1>6, <2>2, MakeTypes DEF TypeOK
    <3>2. /\ DOMAIN folders' = DOMAIN folders \cup {second} /\ folders'[second].owner = b
          /\ \A s \in DOMAIN folders : folders'[s] = folders[s]
          /\ run'[b].stamp = second
      <4>1. Fresh(b).owner = b
        BY DEF Fresh
      <4> QED
        BY <1>6, <2>2, <4>1, MakeTypes
    <3>3. \A c \in Runs : Owns(c)'
      BY <3>1, <3>2, OwnsFolder DEF Owns
    <3>4. UNCHANGED <<engine, reported, faults>>
      BY <1>6 DEF MakeFolder, engine
    <3>5. DOMAIN folders' \subseteq 0..Horizon
      BY <3>2 DEF TypeOK
    <3>6. folders' \in [DOMAIN folders' -> Folders] /\ run' \in [Runs -> Commands]
      BY <1>6, <2>2, MakeTypes
    <3> QED
      BY <1>1, <3>3, <3>4, <3>5, <3>6 DEF engine, keys, TypeOK
  <2> QED
    BY <2>1, <2>2
<1>7. CASE Dump(b)
  <2>1. Store(b, Snapshot) /\ Goto(b, "verify") /\ run[b].at = "dump" /\ Snapshot \in Archives
    BY <1>7, SnapshotType DEF Dump
  <2> QED
    BY <1>1, <1>7, <2>1, DumpKeepsOwners DEF Dump, engine, keys, TypeOK
<1>8. CASE DumpBadly(b)
  <2>0. faults < MaxFaults /\ faults' = faults + 1 /\ run[b].at = "dump" /\ UNCHANGED <<engine, reported>>
    BY <1>8 DEF DumpBadly
  <2>1. run[b].at = "dump" /\ faults' \in 0..MaxFaults /\ UNCHANGED <<engine, reported>>
    BY <2>0, BoundsAssumption DEF TypeOK
  <2>2. CASE Goto(b, "remove") /\ folders' = folders
    <3>1. \A c \in Runs : Owns(c)'
      BY <2>1, <2>2, GotoTypes, KeepsOwners DEF Working, Points
    <3> QED
      BY <1>1, <2>1, <2>2, <3>1, GotoTypes DEF engine, keys, TypeOK, Working, Points
  <2>3. CASE \E a \in Archives : a.rows \subseteq live /\ Store(b, a) /\ Goto(b, "verify")
    BY <1>1, <2>1, <2>3, DumpKeepsOwners DEF engine, keys, TypeOK
  <2> QED
    BY <1>8, <2>2, <2>3, BadDumpStores
<1>9. CASE Verify(b) \/ CopyFails(b)
  <2>1. folders' = folders /\ UNCHANGED <<engine, reported>> /\ run[b].at \in Working
    BY <1>9 DEF Verify, CopyFails, Working
  <2>2. \E point \in Working \cap Points : Goto(b, point)
    BY <1>9 DEF Verify, CopyFails, Working, Points
  <2>3. faults' \in 0..MaxFaults
    BY <1>9, BoundsAssumption DEF Verify, CopyFails, TypeOK
  <2>4. \A c \in Runs : Owns(c)'
    BY <2>1, <2>2, GotoTypes, KeepsOwners
  <2> QED
    BY <1>1, <2>1, <2>2, <2>3, <2>4, GotoTypes DEF engine, keys, TypeOK
<1>10. CASE CopyKey(b)
  <2> DEFINE f == [folders[run[b].stamp] EXCEPT !.key = keyFile, !.kept = run[b].kept, !.owner = NoRun]
  <2>1. run[b].at \in Working /\ run[b].stamp \in DOMAIN folders
    BY <1>10, OwnsFolder DEF CopyKey, Working, Owns
  <2>2. f \in Folders
    <3>1. folders[run[b].stamp] \in Folders /\ keyFile \in KeyStates /\ run[b].kept \in SUBSET Tables
      BY <2>1 DEF TypeOK, Commands
    <3> QED
      BY <3>1 DEF Folders, KeyCopies
  <2>3. folders' = [folders EXCEPT ![run[b].stamp] = f]
    BY <1>10, <2>1 DEF CopyKey, TypeOK
  <2> HIDE DEF f
  <2>4. \A c \in Runs : Owns(c)'
    <3>1. run'[b].at = "idle" /\ \A c \in Runs \ {b} : run'[c] = run[c]
      BY <1>10, EndTypes, RecordTypes DEF CopyKey
    <3>2. Owns(b)'
      BY <3>1 DEF Owns, Working
    <3>3. ASSUME NEW c \in Runs \ {b} PROVE Owns(c)'
      BY <2>1, <2>2, <2>3, <3>1, FolderTypes, OwnsFolder DEF Owns
    <3> QED
      BY <3>2, <3>3
  <2>5. reported' \subseteq 0..Horizon
    BY <1>10, <2>1 DEF CopyKey, TypeOK
  <2>6. DOMAIN folders' = DOMAIN folders /\ folders' \in [DOMAIN folders' -> Folders]
    BY <2>1, <2>2, <2>3, FolderTypes
  <2>7. run' \in [Runs -> Commands]
    BY <1>10, EndTypes DEF CopyKey
  <2> QED
    BY <1>1, <1>10, <2>4, <2>5, <2>6, <2>7 DEF CopyKey, engine, keys, TypeOK
<1>11. CASE RemoveFolder(b)
  <2> DEFINE mine == run[b].stamp
  <2>1. run[b].at \in Working /\ mine \in DOMAIN folders /\ run' = [run EXCEPT ![b] = Idle]
    BY <1>11, OwnsFolder DEF RemoveFolder, Working, Owns
  <2>2. UNCHANGED <<engine, reported>> /\ faults' \in 0..MaxFaults
    BY <1>11, BoundsAssumption DEF RemoveFolder, TypeOK
  <2>3. CASE folders' = [s \in DOMAIN folders \ {mine} |-> folders[s]]
    <3>1. DOMAIN folders' = DOMAIN folders \ {mine} /\ folders' \in [DOMAIN folders' -> Folders]
      BY <2>3 DEF TypeOK
    <3>2. \A c \in Runs \ {b} : run[c].at \in Working => run[c].stamp # mine
      BY <2>1, OwnsFolder DEF Owns
    <3>3. \A c \in Runs : Owns(c)'
      BY <2>1, <2>3, <3>1, <3>2, EndTypes, RecordTypes, OwnsFolder DEF Owns, Working
    <3> QED
      BY <1>1, <2>1, <2>2, <3>1, <3>3, EndTypes DEF engine, keys, TypeOK
  <2>4. CASE folders' = [folders EXCEPT ![mine].owner = NoRun]
    <3> DEFINE f == [folders[mine] EXCEPT !.owner = NoRun]
    <3>1. f \in Folders /\ folders' = [folders EXCEPT ![mine] = f]
      BY <2>1, <2>4 DEF TypeOK, Folders
    <3> HIDE DEF f
    <3>2. \A c \in Runs : Owns(c)'
      BY <2>1, <3>1, FolderTypes, EndTypes, RecordTypes, OwnsFolder DEF Owns, Working
    <3> QED
      BY <1>1, <2>1, <2>2, <3>1, <3>2, FolderTypes, EndTypes DEF engine, keys, TypeOK
  <2> QED
    BY <1>11, <2>3, <2>4 DEF RemoveFolder
<1>12. CASE Kill(b)
  <2>1. run' = [run EXCEPT ![b] = Idle] /\ UNCHANGED <<engine, reported>> /\ faults' \in 0..MaxFaults
    BY <1>12, BoundsAssumption DEF Kill, TypeOK
  <2>2. \A c \in Runs : Owns(c)'
    <3>1. run'[b].at = "idle" /\ \A c \in Runs \ {b} : run'[c] = run[c]
      BY <2>1, EndTypes, RecordTypes
    <3>2. Owns(b)'
      BY <3>1 DEF Owns, Working
    <3>3. ASSUME NEW c \in Runs \ {b} PROVE Owns(c)'
      <4>1. CASE run[c].at \in Working
        <5>1. run[c].stamp \in DOMAIN folders /\ folders[run[c].stamp].owner = c
          BY <4>1, OwnsFolder DEF Owns
        <5>2. DOMAIN folders' = DOMAIN folders /\ folders'[run[c].stamp] = folders[run[c].stamp]
          BY <1>12, <5>1, KillTypes
        <5> QED
          BY <3>1, <5>1, <5>2 DEF Owns
      <4>2. CASE run[c].at \notin Working
        BY <3>1, <4>2 DEF Owns
      <4> QED
        BY <4>1, <4>2
    <3> QED
      BY <3>2, <3>3
  <2> QED
    BY <1>1, <1>12, <2>1, <2>2, KillTypes, EndTypes DEF engine, keys, TypeOK
<1> QED
  BY <1>4, <1>5, <1>6, <1>7, <1>8, <1>9, <1>10, <1>11, <1>12

LEMMA InitTypes == Init => TypeOK
BY RecordTypes, BoundsAssumption DEF Init, TypeOK, KeyStates, EngineKeys

\* Types of the engine and of the commands; a command past its mkdir works in a folder of
\* its own, which nobody else removed (backup.py:240-294).
THEOREM TypeCorrect == Spec => []TypeOK
<1>1. TypeOK /\ [Next]_vars => TypeOK'
  BY NextTypes
<1> QED
  BY InitTypes, <1>1, PTL DEF Spec

--------------------------------------------------------------------------------
(* Every folder is touched by its owner alone *)

\* The steps of a command.
Step(b) ==
  \/ Start(b) \/ CountTable(b) \/ MakeFolder(b) \/ Dump(b) \/ DumpBadly(b) \/ Verify(b)
  \/ CopyKey(b) \/ CopyFails(b) \/ RemoveFolder(b) \/ Kill(b)

\* What one command does leaves the folders and the progress of all others as they are.
LEMMA OthersUntouched ==
  ASSUME TypeOK, NEW b \in Runs, Step(b)
  PROVE  /\ \A s \in DOMAIN folders : folders[s].owner # b => s \in DOMAIN folders' /\ folders'[s] = folders[s]
         /\ \A c \in Runs \ {b} : run'[c] = run[c]
         /\ UNCHANGED engine
<1>1. UNCHANGED engine
  BY DEF Step, Start, CountTable, MakeFolder, Dump, DumpBadly, Verify, CopyKey, CopyFails, RemoveFolder, Kill
<1>2. \A c \in Runs \ {b} : run'[c] = run[c]
  BY DEF Step, Start, CountTable, MakeFolder, Dump, DumpBadly, Verify, CopyKey, CopyFails, RemoveFolder,
         Kill, Goto, TypeOK
<1> SUFFICES ASSUME NEW s \in DOMAIN folders, folders[s].owner # b
             PROVE  s \in DOMAIN folders' /\ folders'[s] = folders[s]
  BY <1>1, <1>2
<1>3. folders = [z \in DOMAIN folders |-> folders[z]]
  BY DEF TypeOK
<1>4. CASE Start(b) \/ CountTable(b) \/ Verify(b) \/ CopyFails(b)
  BY <1>4 DEF Start, CountTable, Verify, CopyFails
<1>5. CASE MakeFolder(b)
  BY <1>5 DEF MakeFolder
<1>6. CASE Dump(b) \/ DumpBadly(b) \/ CopyKey(b) \/ RemoveFolder(b)
  <2>1. s # run[b].stamp
    BY <1>6, OwnsFolder DEF Dump, DumpBadly, CopyKey, RemoveFolder, Working, Owns
  <2> QED
    BY <1>3, <1>6, <2>1 DEF Dump, DumpBadly, CopyKey, RemoveFolder, Store
<1>7. CASE Kill(b)
  BY <1>7, KillTypes
<1> QED
  BY <1>4, <1>5, <1>6, <1>7 DEF Step

\* A command that touches a folder of its own moves on.
LEMMA OwnerMoves ==
  ASSUME TypeOK, NEW b \in Runs, Step(b)
  PROVE  folders' = folders \/ run'[b].at # run[b].at
         \/ \A s \in DOMAIN folders : s \in DOMAIN folders' /\ folders'[s] = folders[s]
<1>1. CASE Start(b) \/ CountTable(b) \/ Verify(b) \/ CopyFails(b)
  BY <1>1 DEF Start, CountTable, Verify, CopyFails
<1>2. CASE MakeFolder(b)
  BY <1>2 DEF MakeFolder
<1>3. CASE Dump(b) \/ DumpBadly(b)
  <2>1. run[b].at = "dump"
    BY <1>3 DEF Dump, DumpBadly
  <2>2. \E point \in {"verify", "remove"} : Goto(b, point)
    BY <1>3, BadDumpStores DEF Dump
  <2> QED
    BY <2>1, <2>2, GotoTypes DEF Working, Points
<1>4. CASE CopyKey(b) \/ RemoveFolder(b) \/ Kill(b)
  BY <1>4, RecordTypes, EndTypes DEF CopyKey, RemoveFolder, Kill
<1> QED
  BY <1>1, <1>2, <1>3, <1>4 DEF Step

\* A folder with an owner is the one its command works in.
Owned == \A s \in DOMAIN folders : \A b \in Runs :
           folders[s].owner = b => run[b].at \in Working /\ run[b].stamp = s

LEMMA OwnedStep ==
  ASSUME TypeOK, Owned, [Next]_vars
  PROVE  Owned'
<1>1. CASE Tick \/ Insert \/ GenerateKey \/ LoseKeyFile \/ UNCHANGED vars
  BY <1>1 DEF Owned, Tick, Insert, GenerateKey, LoseKeyFile, vars
<1>2. CASE Delete
  <2>1. PICK t : run' = [b \in Runs |-> Losing(b, t)]
    BY <1>2 DEF Delete, Losing
  <2>2. \A b \in Runs : run'[b].at = run[b].at /\ run'[b].stamp = run[b].stamp
    BY <2>1, LosingTypes
  <2> QED
    BY <1>2, <2>2 DEF Owned, Delete
<1>3. CASE Restart
  <2>1. /\ DOMAIN folders' = DOMAIN folders
        /\ \A s \in DOMAIN folders : folders'[s].owner = NoRun
    BY <1>3 DEF Restart, TypeOK, Folders
  <2> QED
    BY <2>1, NoRunAssumption DEF Owned
<1>4. ASSUME NEW b \in Runs, Step(b), NEW s \in DOMAIN folders', NEW c \in Runs, folders'[s].owner = c
      PROVE  run'[c].at \in Working /\ run'[c].stamp = s
  <2>1. CASE s \in DOMAIN folders /\ folders[s].owner # b
    BY <1>4, <2>1, OthersUntouched DEF Owned
  <2>2. CASE s \in DOMAIN folders /\ folders[s].owner = b
    <3>1. run[b].at \in Working /\ run[b].stamp = s /\ folders[s] \in Folders
      BY <2>2 DEF Owned, TypeOK
    <3>2. CASE Dump(b) \/ DumpBadly(b) \/ Verify(b) \/ CopyFails(b)
      <4>1. PICK point \in Working \cap Points : Goto(b, point)
        BY <3>2, BadDumpStores DEF Dump, Verify, CopyFails, Working, Points
      <4>2. run'[b].at \in Working /\ run'[b].stamp = s
        BY <3>1, <4>1, GotoTypes
      <4>3. folders'[s].owner = b
        <5>1. CASE folders' = folders
          BY <2>2, <5>1
        <5>2. ASSUME NEW a \in Archives, Store(b, a) PROVE folders'[s].owner = b
          <6> DEFINE f == [folders[s] EXCEPT !.archive = a]
          <6>1. f \in Folders /\ folders' = [folders EXCEPT ![run[b].stamp] = f]
            BY <3>1, <5>2, DumpTypes
          <6>2. f.owner = b
            BY <2>2, <3>1 DEF Folders
          <6> HIDE DEF f
          <6> QED
            BY <2>2, <3>1, <6>1, <6>2 DEF TypeOK
        <5> QED
          BY <3>2, <5>1, <5>2, BadDumpStores, SnapshotType DEF Dump, Verify, CopyFails
      <4> QED
        BY <1>4, <4>2, <4>3
    <3>3. CASE CopyKey(b) \/ RemoveFolder(b) \/ Kill(b)
      <4>1. folders'[s].owner = NoRun
        <5>1. CASE CopyKey(b)
          BY <3>1, <5>1, <2>2 DEF CopyKey, Folders, TypeOK
        <5>2. CASE RemoveFolder(b)
          BY <1>4, <3>1, <5>2, <2>2 DEF RemoveFolder, Folders, TypeOK
        <5>3. CASE Kill(b)
          BY <2>2, <3>1, <5>3, KillTypes DEF Folders
        <5> QED
          BY <3>3, <5>1, <5>2, <5>3
      <4> QED
        BY <1>4, <4>1, NoRunAssumption
    <3>4. ~(Start(b) \/ CountTable(b) \/ MakeFolder(b))
      BY <3>1 DEF Start, CountTable, MakeFolder, Working
    <3> QED
      BY <1>4, <3>2, <3>3, <3>4 DEF Step
  <2>3. CASE s \notin DOMAIN folders
    <3>1. MakeFolder(b) /\ second \notin DOMAIN folders
      <4>1. CASE Start(b) \/ CountTable(b) \/ Verify(b) \/ CopyFails(b)
        BY <1>4, <2>3, <4>1 DEF Start, CountTable, Verify, CopyFails
      <4>2. CASE Dump(b) \/ DumpBadly(b) \/ CopyKey(b) \/ RemoveFolder(b)
        BY <1>4, <2>3, <4>2 DEF Dump, DumpBadly, Store, CopyKey, RemoveFolder
      <4>3. CASE Kill(b)
        BY <1>4, <2>3, <4>3 DEF Kill
      <4>4. CASE MakeFolder(b) /\ second \in DOMAIN folders
        BY <1>4, <2>3, <4>4 DEF MakeFolder
      <4> QED
        BY <1>4, <4>1, <4>2, <4>3, <4>4 DEF Step
    <3>2. s = second /\ folders'[second].owner = b
      <4>1. Fresh(b).owner = b
        BY DEF Fresh
      <4>2. DOMAIN folders' = DOMAIN folders \cup {second} /\ folders'[second] = Fresh(b)
        BY <3>1, MakeTypes
      <4>3. s \in DOMAIN folders'
        BY <1>4
      <4> QED
        BY <2>3, <4>1, <4>2, <4>3
    <3>3. run'[b].at = "dump" /\ run'[b].stamp = second
      <4>1. run[b] \in Commands
        BY DEF TypeOK
      <4>2. run'[b] = [run[b] EXCEPT !.at = "dump", !.stamp = second]
        BY <3>1, MakeTypes
      <4> QED
        BY <4>1, <4>2 DEF Commands
    <3> QED
      BY <1>4, <3>2, <3>3 DEF Working
  <2> QED
    BY <2>1, <2>2, <2>3
<1> QED
  BY <1>1, <1>2, <1>3, <1>4 DEF Next, Step, Owned

\* The folders as they were, and the owner of one that is not.
LEMMA StepIsOwned ==
  ASSUME TypeOK, Owned, [Next]_vars, NEW s \in DOMAIN folders,
         ~(s \in DOMAIN folders' /\ folders'[s] = folders[s])
  PROVE  folders[s].owner \in Runs /\ run'[folders[s].owner].at # run[folders[s].owner].at
<1>1. folders' # folders
  OBVIOUS
<1>2. CASE Restart
  <2>1. folders[s] \in Folders /\ folders'[s] = [folders[s] EXCEPT !.owner = NoRun] /\ s \in DOMAIN folders'
    BY <1>2 DEF Restart, TypeOK
  <2>2. folders[s].owner \in Runs
    BY <2>1 DEF Folders
  <2> QED
    BY <1>2, <2>2, RecordTypes DEF Restart, Owned, Working
<1>3. CASE ~Restart
  <2>1. PICK b \in Runs : Step(b)
    BY <1>1, <1>3 DEF Next, Tick, Insert, Delete, GenerateKey, LoseKeyFile, vars, Step
  <2>2. folders[s].owner = b
    BY <2>1, OthersUntouched
  <2> QED
    BY <1>1, <2>1, <2>2, OwnerMoves
<1> QED
  BY <1>2, <1>3

\* A failed backup removes its own folder only, and two of the same second do not meet in
\* one: nobody touches what an ended command left (backup.py:240-245, 284-291).
THEOREM OwnFoldersOnly == Spec => FoldersAreOwned
<1>1. Init => Owned
  BY DEF Init, Owned
<1>2. TypeOK /\ Owned /\ [Next]_vars => Owned'
  BY OwnedStep
<1>3. TypeOK /\ Owned /\ [Next]_vars
      => [\A s \in DOMAIN folders :
            ~(s \in DOMAIN folders' /\ folders'[s] = folders[s])
              => folders[s].owner \in Runs /\ run'[folders[s].owner].at # run[folders[s].owner].at]_vars
  BY StepIsOwned
<1> QED
  BY TypeCorrect, <1>1, <1>2, <1>3, PTL DEF Spec, FoldersAreOwned

--------------------------------------------------------------------------------
(* What an announced backup is worth *)

Complete(archive, kept) == archive.sound /\ archive.listed = Tables /\ kept \subseteq archive.rows

\* The key file an announced backup may have found once the engine has its key.
Accounted == {"written", "lost"} \cup (IF envKey THEN {"absent", "other"} ELSE {})

\* Secrets were in the archive of a command: the key they are encrypted with is the one the
\* engine has, or they are still there for the guard of the next start to see.
Keyed(b) ==
  run[b].at \in {"verify", "copy"} /\ Secrets \in folders[run[b].stamp].archive.rows =>
    keyFile \in Accounted /\ (engineKey = "held" \/ Secrets \in live)

KeyInv ==
  /\ envKey => engineKey = "held"
  /\ engineKey = "held" => keyFile \in Accounted
  /\ engineKey = "writing" => keyFile \in {"torn", "lost"}
  /\ Secrets \in live => keyFile \in Accounted /\ engineKey # "writing"

\* A command expects rows in every table that held some since it was counted, until it has
\* verified that the archive lost none of them.
Judges(b) ==
  /\ run[b].at \notin {"copy", "remove"} => run[b].kept \subseteq run[b].expected
  /\ run[b].at = "copy" => Complete(folders[run[b].stamp].archive, run[b].kept)
  /\ Keyed(b)

Announced(s) ==
  /\ s \in DOMAIN folders
  /\ folders[s].owner = NoRun
  /\ Complete(folders[s].archive, folders[s].kept)
  /\ Secrets \in folders[s].archive.rows => folders[s].key \in Accounted

\* ReportedIsRestorable and ReportedHasItsKey speak of the end of a command; what makes them
\* hold is known at each point before it.
Inv ==
  /\ TypeOK
  /\ KeyInv
  /\ \A b \in Runs : Judges(b)
  /\ \A s \in reported : Announced(s)

LEMMA InvMeans == Inv => ReportedIsRestorable /\ ReportedHasItsKey
BY DEF Inv, Announced, Complete, Accounted, ReportedIsRestorable, ReportedHasItsKey

LEMMA InitInv == Init => Inv
<1> SUFFICES ASSUME Init PROVE Inv
  OBVIOUS
<1>1. KeyInv
  BY DEF Init, KeyInv, Accounted
<1>2. \A b \in Runs : Judges(b)
  BY RecordTypes DEF Init, Judges, Keyed
<1> QED
  BY <1>1, <1>2, InitTypes DEF Init, Inv

\* The engine and the clock.
LEMMA EngineKeepsInv ==
  ASSUME Inv, Tick \/ Insert \/ Delete \/ GenerateKey \/ LoseKeyFile \/ UNCHANGED vars
  PROVE  Inv'
<1>1. TypeOK /\ TypeOK'
  BY NextTypes DEF Next, Inv
<1>2. folders' = folders /\ reported' = reported /\ envKey' = envKey
  BY DEF Tick, Insert, Delete, GenerateKey, LoseKeyFile, vars, engine, keys
<1>3. KeyInv'
  BY DEF Inv, KeyInv, Accounted, Tick, Insert, Delete, GenerateKey, LoseKeyFile, vars, engine, keys
<1>4. ASSUME keyFile \in Accounted, engineKey = "held" \/ Secrets \in live
      PROVE  keyFile' \in Accounted' /\ (engineKey' = "held" \/ Secrets \in live')
  BY <1>4 DEF Inv, KeyInv, Accounted, Tick, Insert, Delete, GenerateKey, LoseKeyFile, vars, engine, keys
<1>5. ASSUME NEW b \in Runs PROVE Judges(b)'
  <2>1. /\ run'[b].at = run[b].at /\ run'[b].stamp = run[b].stamp
        /\ run'[b].expected = run[b].expected /\ run'[b].kept \subseteq run[b].kept
    <3>1. CASE Delete
      BY <1>1, <3>1, LosingTypes DEF Delete, Losing
    <3>2. CASE ~Delete
      BY <3>2 DEF Tick, Insert, GenerateKey, LoseKeyFile, vars
    <3> QED
      BY <3>1, <3>2
  <2>2. Keyed(b)'
    BY <1>2, <1>4, <2>1 DEF Inv, Judges, Keyed
  <2> QED
    BY <1>2, <2>1, <2>2 DEF Inv, Judges, Complete
<1>6. Accounted' = Accounted
  BY <1>2 DEF Accounted
<1> QED
  BY <1>1, <1>2, <1>3, <1>5, <1>6 DEF Inv, Announced, Complete

\* A restart ends the commands: what they had read of the database goes with them.
LEMMA RestartKeepsInv ==
  ASSUME Inv, Restart
  PROVE  Inv'
<1>1. TypeOK /\ TypeOK'
  BY NextTypes DEF Next, Inv
<1>2. UNCHANGED <<live, envKey, keyFile, reported>> /\ Accounted' = Accounted
  BY DEF Restart, Accounted
<1>3. KeyInv'
  BY <1>2 DEF Inv, KeyInv, Accounted, Restart
<1>4. ASSUME NEW b \in Runs PROVE Judges(b)'
  BY RecordTypes DEF Restart, Judges, Keyed
<1>5. ASSUME NEW s \in reported PROVE Announced(s)'
  <2>1. s \in DOMAIN folders /\ folders[s] \in Folders
    BY <1>1 DEF Inv, Announced, TypeOK
  <2>2. s \in DOMAIN folders' /\ folders'[s] = [folders[s] EXCEPT !.owner = NoRun]
    BY <2>1 DEF Restart
  <2>3. /\ folders'[s].archive = folders[s].archive /\ folders'[s].kept = folders[s].kept
        /\ folders'[s].key = folders[s].key /\ folders'[s].owner = NoRun
    BY <2>1, <2>2 DEF Folders
  <2> QED
    BY <1>2, <2>2, <2>3 DEF Inv, Announced, Complete
<1> QED
  BY <1>1, <1>2, <1>3, <1>4, <1>5 DEF Inv

\* For the step of a command, it is enough to look at the command and at its folder.
LEMMA OwnStepKeepsInv ==
  ASSUME Inv, NEW b \in Runs, Step(b),
         Judges(b)',
         \A s \in reported' : s \in reported \/ Announced(s)'
  PROVE  Inv'
<1>1. TypeOK' /\ TypeOK
  BY NextTypes DEF Inv, Next, Step
<1>2. UNCHANGED <<live, keyFile, envKey, engineKey>> /\ Accounted' = Accounted /\ KeyInv'
  <2>1. UNCHANGED <<live, keyFile, envKey, engineKey>>
    BY <1>1, OthersUntouched DEF engine, keys
  <2> QED
    BY <2>1 DEF Inv, KeyInv, Accounted
<1>3. ASSUME NEW c \in Runs PROVE Judges(c)'
  <2>1. CASE c = b
    BY <2>1
  <2>2. CASE c # b
    <3>1. run'[c] = run[c]
      BY <1>1, <2>2, OthersUntouched
    <3>2. CASE run[c].at \in Working
      <4>1. run[c].stamp \in DOMAIN folders /\ folders[run[c].stamp].owner # b
        BY <1>1, <2>2, <3>2, OwnsFolder DEF Owns
      <4>2. folders'[run[c].stamp] = folders[run[c].stamp]
        BY <1>1, <4>1, OthersUntouched
      <4> QED
        BY <1>2, <3>1, <4>2 DEF Inv, Judges, Keyed, Complete
    <3>3. CASE run[c].at \notin Working
      BY <3>1, <3>3 DEF Inv, Judges, Keyed, Working
    <3> QED
      BY <3>2, <3>3
  <2> QED
    BY <2>1, <2>2
<1>5. ASSUME NEW s \in reported' PROVE Announced(s)'
  <2>1. CASE s \in reported
    <3>1. s \in DOMAIN folders /\ folders[s].owner # b
      BY <2>1, NoRunAssumption DEF Inv, Announced
    <3>2. s \in DOMAIN folders' /\ folders'[s] = folders[s]
      BY <1>1, <3>1, OthersUntouched
    <3> QED
      BY <1>2, <2>1, <3>2 DEF Inv, Announced, Complete
  <2> QED
    BY <2>1
<1> QED
  BY <1>1, <1>2, <1>3, <1>5 DEF Inv

\* What pg_dump has stored for a command, good or bad.
LEMMA DumpKeepsInv ==
  ASSUME Inv, NEW b \in Runs, Step(b), run[b].at = "dump", reported' = reported,
         NEW a \in Archives, a.rows \subseteq live, Store(b, a), Goto(b, "verify")
  PROVE  Inv'
<1> DEFINE f == [folders[run[b].stamp] EXCEPT !.archive = a]
<1>1. TypeOK /\ run[b].at \in Working /\ "verify" \in Working /\ "verify" \in Points
  BY DEF Inv, Working, Points
<1>2. f \in Folders /\ folders' = [folders EXCEPT ![run[b].stamp] = f]
  BY <1>1, DumpTypes
<1>3. f.archive = a
  <2>1. folders[run[b].stamp] \in Folders
    BY <1>1, OwnsFolder DEF Owns, TypeOK
  <2> QED
    BY <2>1 DEF Folders
<1> HIDE DEF f
<1>4. /\ DOMAIN folders' = DOMAIN folders /\ folders'[run[b].stamp] = f
      /\ \A s \in DOMAIN folders : s # run[b].stamp => folders'[s] = folders[s]
  BY <1>1, <1>2, FolderTypes
<1>5. /\ run'[b].at = "verify" /\ run'[b].stamp = run[b].stamp
      /\ run'[b].kept = run[b].kept /\ run'[b].expected = run[b].expected
  BY <1>1, GotoTypes
<1>6. UNCHANGED <<live, keyFile, envKey, engineKey>>
  BY <1>1, OthersUntouched DEF engine, keys
<1>7. Keyed(b)'
  BY <1>3, <1>4, <1>5, <1>6 DEF Inv, KeyInv, Keyed, Accounted
<1>8. Judges(b)'
  BY <1>5, <1>7 DEF Inv, Judges
<1> QED
  BY <1>8, OwnStepKeepsInv

LEMMA NextInv ==
  ASSUME Inv, [Next]_vars
  PROVE  Inv'
<1>1. CASE Tick \/ Insert \/ Delete \/ GenerateKey \/ LoseKeyFile \/ UNCHANGED vars
  BY <1>1, EngineKeepsInv
<1> SUFFICES ASSUME NEW b \in Runs, Step(b)
             PROVE  Inv'
  BY <1>1, RestartKeepsInv DEF Next, Step
<1>2. /\ TypeOK /\ run[b] \in Commands /\ Judges(b)
      /\ UNCHANGED <<live, keyFile, envKey, engineKey>> /\ Accounted' = Accounted
  <2>1. UNCHANGED <<live, keyFile, envKey, engineKey>>
    BY OthersUntouched DEF Inv, engine, keys
  <2> QED
    BY <2>1 DEF Inv, TypeOK, Accounted
\* A command that is no more, or has not begun, promises nothing.
<1>3. ASSUME run' = [run EXCEPT ![b] = Idle] PROVE Judges(b)'
  BY <1>2, <1>3, EndTypes, RecordTypes DEF Judges, Keyed
<1>4. CASE Start(b)
  <2>1. Judges(b)'
    BY <1>2, <1>4, RecordTypes DEF Start, Judges, Keyed, Idle, TypeOK
  <2> QED
    BY <1>4, <2>1, OwnStepKeepsInv DEF Start
<1>5. CASE CountTable(b)
  <2>1. PICK t \in Tables : run' = [run EXCEPT ![b] = Counted(b, t)]
    BY <1>2, <1>5, CountTypes
  <2>2. run'[b] = Counted(b, t)
    BY <1>2, <2>1 DEF TypeOK
  <2>3. /\ run'[b].at \notin {"verify", "copy", "remove"}
        /\ run'[b].kept = run[b].kept \cup (live \cap {t})
        /\ run'[b].expected = run[b].expected \cup (live \cap {t})
    BY <1>2, <2>2, CountTypes
  <2>4. run[b].kept \subseteq run[b].expected
    BY <1>2, <1>5 DEF CountTable, Judges
  <2>5. Judges(b)'
    BY <2>3, <2>4 DEF Judges, Keyed
  <2> QED
    BY <1>5, <2>5, OwnStepKeepsInv DEF CountTable
<1>6. CASE MakeFolder(b)
  <2>1. reported' = reported
    BY <1>6 DEF MakeFolder
  <2>2. CASE second \in DOMAIN folders
    BY <1>3, <1>6, <2>1, <2>2, OwnStepKeepsInv DEF MakeFolder
  <2>3. CASE second \notin DOMAIN folders
    <3>2. /\ DOMAIN folders' = DOMAIN folders \cup {second} /\ folders'[second] = Fresh(b)
          /\ \A s \in DOMAIN folders : folders'[s] = folders[s]
          /\ run'[b] = [run[b] EXCEPT !.at = "dump", !.stamp = second]
      BY <1>2, <1>6, <2>3, MakeTypes
    <3>3. Judges(b)'
      BY <1>2, <1>6, <3>2 DEF MakeFolder, Judges, Keyed, Commands
    <3> QED
      BY <2>1, <3>3, OwnStepKeepsInv
  <2> QED
    BY <2>2, <2>3
<1>7. CASE Dump(b)
  BY <1>2, <1>7, SnapshotType, DumpKeepsInv DEF Dump, Snapshot
<1>8. CASE DumpBadly(b)
  <2>1. run[b].at = "dump" /\ reported' = reported
    BY <1>8 DEF DumpBadly
  <2>2. CASE Goto(b, "remove") /\ folders' = folders
    <3>1. Judges(b)'
      BY <1>2, <2>1, <2>2, GotoTypes DEF Judges, Keyed, Working, Points
    <3> QED
      BY <2>1, <2>2, <3>1, OwnStepKeepsInv
  <2> QED
    BY <1>2, <1>8, <2>1, <2>2, BadDumpStores, DumpKeepsInv
<1>9. CASE Verify(b)
  <2> DEFINE archive == folders[run[b].stamp].archive
  <2>1. /\ run[b].at = "verify" /\ folders' = folders /\ reported' = reported
        /\ Goto(b, IF Passes(archive, run[b].expected) THEN "copy" ELSE "remove")
    BY <1>9 DEF Verify
  <2>2. CASE Passes(archive, run[b].expected)
    <3>1. folders[run[b].stamp] \in Folders
      BY <1>2, <2>1, OwnsFolder DEF Owns, Working, TypeOK
    <3>2. Complete(archive, run[b].kept)
      BY <1>2, <2>1, <2>2, <3>1 DEF Judges, Complete, Passes, Folders, Archives
    <3>3. Goto(b, "copy") /\ run[b].at \in Working /\ "copy" \in Points
      BY <2>1, <2>2 DEF Working, Points
    <3>4. /\ run'[b].at = "copy" /\ run'[b].stamp = run[b].stamp
          /\ run'[b].kept = run[b].kept
      BY <1>2, <3>3, GotoTypes
    <3>5. Judges(b)'
      BY <1>2, <2>1, <3>2, <3>4 DEF Judges, Keyed, Complete
    <3> QED
      BY <2>1, <3>5, OwnStepKeepsInv
  <2>3. CASE ~Passes(archive, run[b].expected)
    <3>1. Goto(b, "remove") /\ run[b].at \in Working /\ "remove" \in Points
      BY <2>1, <2>3 DEF Working, Points
    <3>2. Judges(b)'
      BY <1>2, <3>1, GotoTypes DEF Judges, Keyed
    <3> QED
      BY <2>1, <3>2, OwnStepKeepsInv
  <2> QED
    BY <2>2, <2>3
<1>10. CASE CopyKey(b)
  <2> DEFINE mine == run[b].stamp
             f == [folders[mine] EXCEPT !.key = keyFile, !.kept = run[b].kept, !.owner = NoRun]
  <2>1. /\ run[b].at = "copy" /\ reported' = reported \cup {mine}
        /\ run' = [run EXCEPT ![b] = Idle]
    BY <1>10 DEF CopyKey
  <2>2. run[b].at \in Working /\ mine \in DOMAIN folders /\ folders[mine] \in Folders
    BY <1>2, <2>1, OwnsFolder DEF Owns, Working, TypeOK
  <2>3. folders' = [folders EXCEPT ![mine] = f]
    BY <1>2, <1>10, <2>2 DEF CopyKey, TypeOK
  <2>4. /\ f \in Folders /\ f.key = keyFile /\ f.owner = NoRun
        /\ f.archive = folders[mine].archive /\ f.kept = run[b].kept
    <3>1. keyFile \in KeyStates /\ run[b].kept \in SUBSET Tables
      BY <1>2 DEF TypeOK, Commands
    <3> QED
      BY <2>2, <3>1 DEF Folders, KeyCopies
  <2> HIDE DEF f
  <2>5. /\ DOMAIN folders' = DOMAIN folders /\ folders'[mine] = f
        /\ \A s \in DOMAIN folders : s # mine => folders'[s] = folders[s]
    BY <1>2, <2>2, <2>3, <2>4, FolderTypes
  <2>6. /\ Complete(folders[mine].archive, run[b].kept)
        /\ Secrets \in folders[mine].archive.rows => keyFile \in Accounted
    BY <1>2, <2>1 DEF Judges, Keyed
  <2>7. ASSUME NEW s \in {mine} PROVE Announced(s)'
    BY <1>2, <2>2, <2>4, <2>5, <2>6 DEF Announced, Complete
  <2>8. Judges(b)'
    BY <1>3, <2>1
  <2> QED
    BY <2>1, <2>7, <2>8, OwnStepKeepsInv
<1>11. CASE CopyFails(b)
  <2>1. Goto(b, "remove") /\ run[b].at \in Working /\ "remove" \in Points
    BY <1>11 DEF CopyFails, Working, Points
  <2>2. Judges(b)'
    BY <1>2, <2>1, GotoTypes DEF Judges, Keyed
  <2> QED
    BY <1>11, <2>2, OwnStepKeepsInv DEF CopyFails
<1>12. CASE RemoveFolder(b) \/ Kill(b)
  <2>1. run' = [run EXCEPT ![b] = Idle] /\ reported' = reported
    BY <1>12 DEF RemoveFolder, Kill
  <2> QED
    BY <1>3, <2>1, OwnStepKeepsInv
<1> QED
  BY <1>4, <1>5, <1>6, <1>7, <1>8, <1>9, <1>10, <1>11, <1>12 DEF Step

\* The verification of the archive against a count made before it, and the copy of the key
\* after it, are enough although the engine writes throughout: what was announced can be
\* restored (backup.py:205-238) ...
THEOREM AnnouncedIsRestorable == Spec => []ReportedIsRestorable
<1>1. Inv /\ [Next]_vars => Inv'
  BY NextInv
<1>2. Inv => ReportedIsRestorable
  BY InvMeans
<1> QED
  BY InitInv, <1>1, <1>2, PTL DEF Spec

\* ... and read: a row of secrets is committed by an engine that has its key, and the start
\* that might make another one ends the commands that saw such a row (backup.py:276-289).
THEOREM AnnouncedHasItsKey == Spec => []ReportedHasItsKey
<1>1. Inv /\ [Next]_vars => Inv'
  BY NextInv
<1>2. Inv => ReportedHasItsKey
  BY InvMeans
<1> QED
  BY InitInv, <1>1, <1>2, PTL DEF Spec

================================================================================

--------------------------- MODULE MasterKeyProofs ---------------------------
(***************************************************************************)
(* Proofs about MasterKey: its types, and that a running process reads     *)
(* every secret as long as nobody has waived the guard.                    *)
(***************************************************************************)
EXTENDS MasterKey, TLAPS

Generates(p) == pc[p] \in {"ask", "write", "flush"}

\* A process that has built its box, and still works with it.
Holds(p) == pc[p] \in {"create", "config", "up"} /\ box[p] # NoKey

\* What the steps of a start imply, waived or not.
Places ==
  /\ pc[Engine] = "off" => pc[Cli] = "off"
  /\ \A p \in Procs : Generates(p) => envKey = NoKey
  /\ \A p \in Procs : pc[p] \in {"flush", "config", "up"} => box[p] \in Keys
  /\ pc[Engine] = "create" => stage = 1
  /\ pc[Engine] \in {"config", "up"} => stage = 2

\* Generating a key: nothing is there to be overwritten, and one process does it.
OneGenerates ==
  /\ \A p \in Procs : pc[p] \in {"ask", "write"} => keyFile = NoKey
  /\ pc[Engine] = "write" /\ ~allow => ~HasSecrets
  /\ \A p \in Procs : pc[p] = "flush" => keyFile = Torn /\ ~HasSecrets
  /\ ~(pc[Engine] = "flush" /\ pc[Cli] = "flush")

(***************************************************************************)
(* The key of a running process is the one a start would take, or the lost *)
(* one; while the engine starts, nothing is lost.                          *)
(***************************************************************************)
HeldIsSource ==
  /\ \A p \in Procs : Holds(p) =>
       \/ Source = box[p]
       \/ Source = NoKey /\ saved = box[p]
  /\ Holds(Cli) /\ pc[Engine] # "up" => Source = box[Cli]

HeldReadsAll ==
  \A p \in Procs : Holds(p) => \A s \in Secrets : rows[s] \in {NoKey, box[p]}

\* The session secret, from the first box of the engine to the second one.
SessionIsSource ==
  /\ pc[Engine] = "create" \/ (pc[Engine] = "resolve" /\ stage = 2) => sess \in {NoKey, Source}
  /\ Generates(Engine) /\ stage = 2 => sess = NoKey
  /\ pc[Engine] \in {"config", "up"} => sess \in {NoKey, box[Engine]}

Sound == OneGenerates /\ HeldIsSource /\ HeldReadsAll /\ ~Disagrees /\ SessionIsSource

IInv == TypeOK /\ Places /\ (~waived => Sound)

-----------------------------------------------------------------------------
(* What the helpers of the actions do *)

LEMMA TwoProcs == Procs = {Engine, Cli} /\ Engine # Cli
BY DEF Procs, Engine, Cli

\* A process is at its end, or where it was with the box it had.
LEMMA ExitEffect ==
  ASSUME TypeOK, NEW p \in Procs, Exit(p)
  PROVE  /\ pc' \in [Procs -> PCs] /\ box' \in [Procs -> Keys \cup {NoKey}]
         /\ asked' \in [Procs -> 0..(Attempts - 1)]
         /\ stage' = stage /\ sess' = sess
         /\ pc'[p] = "off"
         /\ p = Engine => pc'[Cli] = "off"
         /\ p = Cli => pc'[Engine] = pc[Engine] /\ (pc[Engine] # "off" => box'[Engine] = box[Engine])
         /\ \A q \in Procs : pc'[q] = "off" \/ (pc'[q] = pc[q] /\ box'[q] = box[q])
<1>1. /\ pc' = Ended(p)
      /\ box' = [q \in Procs |-> IF Ended(p)[q] = "off" THEN NoKey ELSE box[q]]
      /\ asked' = [q \in Procs |-> IF Ended(p)[q] = "off" THEN 0 ELSE asked[q]]
      /\ stage' = stage /\ sess' = sess
  BY DEF Exit
<1>2. \A q \in Procs : Ended(p)[q] = IF p \in {q, Engine} THEN "off" ELSE pc[q]
  BY DEF Ended
<1>3. pc' \in [Procs -> PCs]
  BY <1>1 DEF Ended, TypeOK, PCs
<1>4. box' \in [Procs -> Keys \cup {NoKey}]
  BY <1>1 DEF TypeOK
<1>5. asked' \in [Procs -> 0..(Attempts - 1)]
  BY <1>1, MasterKeyAssumption DEF TypeOK
<1>6. /\ pc'[p] = "off"
      /\ p = Engine => pc'[Cli] = "off"
  BY <1>1, <1>2, TwoProcs
<1>7. p = Cli => pc'[Engine] = pc[Engine] /\ (pc[Engine] # "off" => box'[Engine] = box[Engine])
  BY <1>1, <1>2, TwoProcs
<1> QED BY <1>1, <1>2, <1>3, <1>4, <1>5, <1>6, <1>7, TwoProcs

\* A process that got a key goes on with it.
LEMMA GotKeyEffect ==
  ASSUME TypeOK, NEW p \in Procs, NEW k \in Keys \cup {NoKey}, GotKey(p, k)
  PROVE  /\ pc' \in [Procs -> PCs] /\ box' \in [Procs -> Keys \cup {NoKey}]
         /\ asked' \in [Procs -> 0..(Attempts - 1)] /\ sess' \in Keys \cup {NoKey}
         /\ stage' = stage /\ box'[p] = k
         /\ p = Cli => pc'[Cli] = "up" /\ sess' = sess
         /\ p = Engine /\ stage = 1 => pc'[Engine] = "create" /\ sess' = k
         /\ p = Engine /\ stage = 2 => pc'[Engine] = "config" /\ sess' = sess
         /\ \A q \in Procs \ {p} : pc'[q] = pc[q] /\ box'[q] = box[q]
<1>1. AfterBox(p) = IF p = Cli THEN "up" ELSE IF stage = 1 THEN "create" ELSE "config"
  BY TwoProcs DEF AfterBox, TypeOK
<1>2. AfterBox(p) \in PCs
  BY <1>1 DEF PCs
<1>3. /\ pc' = [pc EXCEPT ![p] = AfterBox(p)] /\ box' = [box EXCEPT ![p] = k]
      /\ asked' = [asked EXCEPT ![p] = 0] /\ stage' = stage
      /\ sess' = IF p = Engine /\ stage = 1 THEN k ELSE sess
  BY DEF GotKey, Goto
<1> QED BY <1>1, <1>2, <1>3, TwoProcs, MasterKeyAssumption DEF TypeOK

\* A box that cannot be built ends a process, or leaves it without one.
LEMMA BoxFailsEffect ==
  ASSUME TypeOK, NEW p \in Procs, BoxFails(p)
  PROVE  /\ pc' \in [Procs -> PCs] /\ box' \in [Procs -> Keys \cup {NoKey}]
         /\ asked' \in [Procs -> 0..(Attempts - 1)]
         /\ stage' = stage /\ sess' \in {NoKey, sess}
         /\ p = Cli => sess' = sess
         /\ \/ pc'[p] = "off" /\ (p = Engine => pc'[Cli] = "off")
            \/ /\ p = Engine /\ stage = 1 /\ sess' = NoKey
               /\ pc'[p] = "create" /\ box'[p] = NoKey
         /\ p = Cli => pc'[Engine] = pc[Engine] /\ (pc[Engine] # "off" => box'[Engine] = box[Engine])
         /\ \A q \in Procs \ {p} : pc'[q] = "off" \/ (pc'[q] = pc[q] /\ box'[q] = box[q])
<1>1. CASE Exit(p)
  <2>1. sess' = sess
    BY <1>1, ExitEffect
  <2> QED BY <1>1, <2>1, ExitEffect
<1>2. CASE ~Exit(p)
  <2>1. /\ p = Engine /\ stage = 1
        /\ pc' = [pc EXCEPT ![p] = "create"] /\ box' = [box EXCEPT ![p] = NoKey]
        /\ asked' = [asked EXCEPT ![p] = 0]
        /\ sess' = NoKey /\ stage' = stage
    BY <1>2 DEF BoxFails, Goto
  <2> QED BY <2>1, TwoProcs, MasterKeyAssumption DEF TypeOK, PCs
<1> QED BY <1>1, <1>2

-----------------------------------------------------------------------------
(* Types *)

LEMMA InitTypes == Init => TypeOK
<1> SUFFICES ASSUME Init PROVE TypeOK
  OBVIOUS
<1>1. pc \in [Procs -> PCs] /\ pc[Cli] \notin {"create", "config"}
  BY TwoProcs DEF Init, PCs
<1>2. 0 \in 0..(Attempts - 1) /\ 0 \in 0..MaxFaults
  BY MasterKeyAssumption
<1>3. asked \in [Procs -> 0..(Attempts - 1)]
  BY <1>2 DEF Init
<1> QED BY <1>1, <1>2, <1>3 DEF Init, TypeOK

\* What is left of the types once those of the processes are known.
ProcTypes ==
  /\ pc \in [Procs -> PCs] /\ pc[Cli] \notin {"create", "config"}
  /\ box \in [Procs -> Keys \cup {NoKey}]
  /\ asked \in [Procs -> 0..(Attempts - 1)]
  /\ stage \in {1, 2}
  /\ sess \in Keys \cup {NoKey}

WorldTypes ==
  /\ envKey \in Keys \cup {NoKey}
  /\ allow \in BOOLEAN
  /\ keyFile \in Keys \cup {NoKey, Torn}
  /\ saved \in Keys \cup {NoKey}
  /\ rows \in [Secrets -> Keys \cup {NoKey}]
  /\ dbUp \in BOOLEAN
  /\ faults \in 0..MaxFaults
  /\ waived \in BOOLEAN

LEMMA TypesAre == /\ TypeOK <=> ProcTypes /\ WorldTypes
                  /\ TypeOK' <=> ProcTypes' /\ WorldTypes'
BY DEF TypeOK, ProcTypes, WorldTypes

LEMMA FaultType ==
  ASSUME TypeOK, Fault
  PROVE  faults' \in 0..MaxFaults
BY MasterKeyAssumption DEF TypeOK, Fault

LEMMA ExitTypes ==
  ASSUME TypeOK, NEW p \in Procs, Exit(p)
  PROVE  ProcTypes'
<1>1. pc'[Cli] \notin {"create", "config"}
  BY ExitEffect, TwoProcs DEF TypeOK
<1> QED BY <1>1, ExitEffect DEF TypeOK, ProcTypes

LEMMA GotKeyTypes ==
  ASSUME TypeOK, NEW p \in Procs, NEW k \in Keys \cup {NoKey}, GotKey(p, k)
  PROVE  ProcTypes'
<1>1. pc'[Cli] \notin {"create", "config"}
  BY GotKeyEffect, TwoProcs DEF TypeOK
<1> QED BY <1>1, GotKeyEffect DEF TypeOK, ProcTypes

LEMMA BoxFailsTypes ==
  ASSUME TypeOK, NEW p \in Procs, BoxFails(p)
  PROVE  ProcTypes'
<1>1. pc'[Cli] \notin {"create", "config"}
  BY BoxFailsEffect, TwoProcs DEF TypeOK
<1> QED BY <1>1, BoxFailsEffect DEF TypeOK, ProcTypes

LEMMA GotoTypes ==
  ASSUME TypeOK, NEW p \in Procs, NEW place \in PCs \ {"create", "config"}, Goto(p, place)
  PROVE  /\ pc' \in [Procs -> PCs] /\ pc'[Cli] \notin {"create", "config"}
         /\ pc'[p] = place /\ \A q \in Procs \ {p} : pc'[q] = pc[q]
BY TwoProcs DEF TypeOK, Goto

LEMMA ResolveTypes ==
  ASSUME TypeOK, NEW p \in Procs, Resolve(p)
  PROVE  TypeOK'
<1>1. CASE FindKey(p)
  <2>1. ProcTypes'
    BY <1>1, GotKeyTypes DEF FindKey
  <2> QED BY <1>1, <2>1, TypesAre DEF FindKey, WorldTypes, settings, files
<1>2. CASE FindTornKey(p)
  <2>1. ProcTypes'
    BY <1>2, BoxFailsTypes DEF FindTornKey
  <2> QED BY <1>2, <2>1, TypesAre DEF FindTornKey, WorldTypes, settings, files
<1>3. CASE FindNoKey(p)
  <2>1. (IF allow THEN "write" ELSE "ask") \in PCs \ {"create", "config"}
    BY DEF PCs
  <2>2. pc' \in [Procs -> PCs] /\ pc'[Cli] \notin {"create", "config"}
    BY <1>3, <2>1, GotoTypes DEF FindNoKey
  <2> QED BY <1>3, <2>2, TypesAre DEF FindNoKey, ProcTypes, WorldTypes, settings, files
<1>4. CASE GuardRefuses(p)
  <2>1. ProcTypes'
    BY <1>4, ExitTypes DEF GuardRefuses
  <2> QED BY <1>4, <2>1, TypesAre DEF GuardRefuses, WorldTypes, settings, files
<1>5. CASE GuardAgrees(p)
  <2>1. pc' \in [Procs -> PCs] /\ pc'[Cli] \notin {"create", "config"}
    BY <1>5, GotoTypes DEF GuardAgrees, PCs
  <2> QED BY <1>5, <2>1, TypesAre DEF GuardAgrees, ProcTypes, WorldTypes, settings, files
<1>6. CASE GuardIsMisled(p)
  <2>1. pc' \in [Procs -> PCs] /\ pc'[Cli] \notin {"create", "config"}
    BY <1>6, GotoTypes DEF GuardIsMisled, PCs
  <2>2. faults' \in 0..MaxFaults
    BY <1>6, FaultType DEF GuardIsMisled
  <2>3. waived' \in BOOLEAN
    BY <1>6 DEF GuardIsMisled, HasSecrets, TypeOK
  <2> QED BY <1>6, <2>1, <2>2, <2>3, TypesAre
          DEF GuardIsMisled, ProcTypes, WorldTypes, settings, files
<1>7. CASE GuardGetsNoAnswer(p)
  <2>1. ASSUME asked[p] + 1 < Attempts, asked' = [asked EXCEPT ![p] = @ + 1],
               UNCHANGED <<pc, box, stage, sess>>
        PROVE  ProcTypes'
    <3>1. asked[p] + 1 \in 0..(Attempts - 1)
      BY <2>1, MasterKeyAssumption DEF TypeOK
    <3>2. asked' \in [Procs -> 0..(Attempts - 1)]
      BY <2>1, <3>1 DEF TypeOK
    <3> QED BY <2>1, <3>2 DEF TypeOK, ProcTypes
  <2>2. ProcTypes'
    BY <1>7, <2>1, ExitTypes DEF GuardGetsNoAnswer
  <2> QED BY <1>7, <2>2, TypesAre DEF GuardGetsNoAnswer, WorldTypes, settings, files
<1>8. CASE OpenKeyFile(p)
  <2>1. pc' \in [Procs -> PCs] /\ pc'[Cli] \notin {"create", "config"}
    BY <1>8, GotoTypes DEF OpenKeyFile, PCs
  <2>2. box' \in [Procs -> Keys \cup {NoKey}]
    BY <1>8 DEF OpenKeyFile, Fresh, TypeOK
  <2>3. waived' \in BOOLEAN
    BY <1>8 DEF OpenKeyFile
  <2> QED BY <1>8, <2>1, <2>2, <2>3, TypesAre
          DEF OpenKeyFile, ProcTypes, WorldTypes, settings
<1>9. CASE OpenFails(p)
  <2>1. ProcTypes'
    BY <1>9, BoxFailsTypes DEF OpenFails
  <2>2. faults' \in 0..MaxFaults
    BY <1>9, FaultType DEF OpenFails
  <2> QED BY <1>9, <2>1, <2>2, TypesAre DEF OpenFails, WorldTypes, settings, files
<1>10. CASE FlushKeyFile(p)
  <2>1. box[p] \in Keys \cup {NoKey}
    BY DEF TypeOK
  <2>2. ProcTypes'
    BY <1>10, <2>1, GotKeyTypes DEF FlushKeyFile
  <2> QED BY <1>10, <2>1, <2>2, TypesAre DEF FlushKeyFile, WorldTypes, settings
<1>11. CASE KeyFileFails(p)
  <2>1. ProcTypes'
    BY <1>11, BoxFailsTypes DEF KeyFileFails
  <2>2. faults' \in 0..MaxFaults
    BY <1>11, FaultType DEF KeyFileFails
  <2>3. keyFile' \in Keys \cup {NoKey, Torn}
    BY <1>11 DEF KeyFileFails, TypeOK
  <2> QED BY <1>11, <2>1, <2>2, <2>3, TypesAre DEF KeyFileFails, WorldTypes, settings
<1> QED BY <1>1, <1>2, <1>3, <1>4, <1>5, <1>6, <1>7, <1>8, <1>9, <1>10, <1>11 DEF Resolve

\* The rest of the steps.
LEMMA OtherTypes ==
  ASSUME TypeOK, Next, \A p \in Procs : ~Resolve(p)
  PROVE  TypeOK'
<1> USE DEF settings, files
<1>1. CASE Boot
  <2>1. pc' \in [Procs -> PCs] /\ pc'[Cli] \notin {"create", "config"}
    BY <1>1, GotoTypes, TwoProcs DEF Boot, PCs
  <2> QED BY <1>1, <2>1, TypesAre DEF Boot, ProcTypes, WorldTypes
<1>2. CASE CreateTables
  <2>1. pc' \in [Procs -> PCs] /\ pc'[Cli] \notin {"create", "config"}
    BY <1>2, GotoTypes, TwoProcs DEF CreateTables, PCs
  <2> QED BY <1>2, <2>1, TypesAre DEF CreateTables, ProcTypes, WorldTypes
<1>3. CASE ReadConfig
  <2>1. pc' \in [Procs -> PCs] /\ pc'[Cli] \notin {"create", "config"}
    BY <1>3, GotoTypes, TwoProcs DEF ReadConfig, PCs
  <2> QED BY <1>3, <2>1, TypesAre DEF ReadConfig, ProcTypes, WorldTypes
<1>4. CASE StartFails
  <2>1. ProcTypes'
    BY <1>4, ExitTypes, TwoProcs DEF StartFails
  <2> QED BY <1>4, <2>1, TypesAre DEF StartFails, WorldTypes
<1>5. CASE StartCli
  <2>1. pc' \in [Procs -> PCs] /\ pc'[Cli] \notin {"create", "config"}
    BY <1>5, GotoTypes, TwoProcs DEF StartCli, PCs
  <2> QED BY <1>5, <2>1, TypesAre DEF StartCli, ProcTypes, WorldTypes
<1>6. CASE CliSetsPassword
  <2>1. ProcTypes'
    BY <1>6, ExitTypes, TwoProcs DEF CliSetsPassword
  <2>2. rows' \in [Secrets -> Keys \cup {NoKey}]
    BY <1>6, TwoProcs DEF CliSetsPassword, TypeOK
  <2> QED BY <1>6, <2>1, <2>2, TypesAre DEF CliSetsPassword, WorldTypes
<1>7. CASE CliGivesUp
  <2>1. ProcTypes'
    BY <1>7, ExitTypes, TwoProcs DEF CliGivesUp
  <2> QED BY <1>7, <2>1, TypesAre DEF CliGivesUp, WorldTypes
<1>8. ASSUME NEW s \in Secrets, SetSecret(s)
      PROVE  TypeOK'
  <2>1. rows' \in [Secrets -> Keys \cup {NoKey}]
    BY <1>8, TwoProcs DEF SetSecret, TypeOK
  <2> QED BY <1>8, <2>1, TypesAre DEF SetSecret, ProcTypes, WorldTypes, procs
<1>9. ASSUME NEW s \in Secrets, ClearSecret(s)
      PROVE  TypeOK'
  <2>1. rows' \in [Secrets -> Keys \cup {NoKey}]
    BY <1>9 DEF ClearSecret, TypeOK
  <2> QED BY <1>9, <2>1, TypesAre DEF ClearSecret, ProcTypes, WorldTypes, procs
<1>10. CASE Stop
  <2>1. ProcTypes'
    BY <1>10, ExitTypes, TwoProcs DEF Stop
  <2>2. faults' \in 0..MaxFaults
    BY <1>10, FaultType DEF Stop
  <2> QED BY <1>10, <2>1, <2>2, TypesAre DEF Stop, WorldTypes
<1>11. CASE DbStops
  <2>1. faults' \in 0..MaxFaults
    BY <1>11, FaultType DEF DbStops
  <2> QED BY <1>11, <2>1, TypesAre DEF DbStops, ProcTypes, WorldTypes, procs
<1>12. CASE DbReturns
  BY <1>12, TypesAre DEF DbReturns, ProcTypes, WorldTypes, procs
<1>13. CASE LoseKeyFile
  <2>1. faults' \in 0..MaxFaults
    BY <1>13, FaultType DEF LoseKeyFile
  <2> QED BY <1>13, <2>1, TypesAre DEF LoseKeyFile, ProcTypes, WorldTypes, procs
<1>14. CASE RestoreKeyFile
  <2>1. waived' \in BOOLEAN
    BY <1>14 DEF RestoreKeyFile, Disagrees
  <2> QED BY <1>14, <2>1, TypesAre DEF RestoreKeyFile, ProcTypes, WorldTypes, procs
<1>15. CASE EditEnv
  <2>1. faults' \in 0..MaxFaults
    BY <1>15, FaultType DEF EditEnv
  <2>2. waived' \in BOOLEAN
    BY <1>15 DEF EditEnv, Disagrees
  <2> QED BY <1>15, <2>1, <2>2, TypesAre DEF EditEnv, ProcTypes, WorldTypes, procs
<1> QED BY <1>1, <1>2, <1>3, <1>4, <1>5, <1>6, <1>7, <1>8, <1>9, <1>10, <1>11, <1>12,
           <1>13, <1>14, <1>15, TwoProcs DEF Next, EngineStarts

\* The values of every variable stay of their types.
THEOREM TypesHold == Spec => []TypeOK
<1>1. Init => TypeOK
  BY InitTypes
<1>2. TypeOK /\ [Next]_vars => TypeOK'
  <2> SUFFICES ASSUME TypeOK, [Next]_vars PROVE TypeOK'
    OBVIOUS
  <2>1. CASE \E p \in Procs : Resolve(p)
    BY <2>1, ResolveTypes
  <2>2. CASE Next /\ \A p \in Procs : ~Resolve(p)
    BY <2>2, OtherTypes
  <2>3. CASE UNCHANGED vars
    BY <2>3 DEF vars, settings, files, procs, TypeOK
  <2> QED BY <2>1, <2>2, <2>3
<1> QED BY <1>1, <1>2, PTL DEF Spec

-----------------------------------------------------------------------------
(* Places *)

\* An end of a process takes nothing from the places of the others.
LEMMA ExitPlaces ==
  ASSUME TypeOK, Places, NEW p \in Procs, Exit(p), envKey' = envKey
  PROVE  Places'
BY ExitEffect, TwoProcs DEF Places, Generates

LEMMA BoxFailsPlaces ==
  ASSUME TypeOK, Places, NEW p \in Procs, BoxFails(p), envKey' = envKey,
         pc[p] # "off", pc[Engine] # "off"
  PROVE  Places'
BY BoxFailsEffect, TwoProcs DEF Places, Generates

LEMMA GotKeyPlaces ==
  ASSUME TypeOK, Places, NEW p \in Procs, NEW k \in Keys, GotKey(p, k), envKey' = envKey,
         pc[p] # "off"
  PROVE  Places'
<1>1. stage \in {1, 2} /\ pc[Engine] # "off"
  BY TwoProcs DEF TypeOK, Places
<1> QED BY <1>1, GotKeyEffect, TwoProcs DEF Places, Generates

LEMMA ResolvePlaces ==
  ASSUME TypeOK, Places, NEW p \in Procs, Resolve(p)
  PROVE  Places'
<1> USE DEF settings, files
<1>0. pc[p] # "off" => pc[Engine] # "off"
  BY TwoProcs DEF Places
<1>1. CASE FindKey(p)
  BY <1>1, GotKeyPlaces DEF FindKey
<1>2. CASE FindTornKey(p)
  BY <1>2, <1>0, BoxFailsPlaces DEF FindTornKey
<1>3. CASE FindNoKey(p)
  <2>1. envKey = NoKey
    BY <1>3, MasterKeyAssumption DEF FindNoKey, Source, TypeOK
  <2> QED BY <1>3, <2>1, TwoProcs DEF FindNoKey, Goto, Places, Generates, TypeOK
<1>4. CASE GuardRefuses(p)
  BY <1>4, ExitPlaces DEF GuardRefuses
<1>5. CASE GuardAgrees(p)
  BY <1>5, TwoProcs DEF GuardAgrees, Goto, Places, Generates, TypeOK
<1>6. CASE GuardIsMisled(p)
  BY <1>6, TwoProcs DEF GuardIsMisled, Goto, Places, Generates, TypeOK
<1>7. CASE GuardGetsNoAnswer(p)
  <2>1. CASE Exit(p)
    BY <1>7, <2>1, ExitPlaces DEF GuardGetsNoAnswer
  <2>2. CASE UNCHANGED <<pc, box, stage, sess>>
    BY <1>7, <2>2 DEF GuardGetsNoAnswer, Places, Generates
  <2> QED BY <1>7, <2>1, <2>2 DEF GuardGetsNoAnswer
<1>8. CASE OpenKeyFile(p)
  <2>1. PICK k \in Keys : box' = [box EXCEPT ![p] = k]
    BY <1>8 DEF OpenKeyFile, Fresh
  <2> QED BY <1>8, <2>1, TwoProcs DEF OpenKeyFile, Goto, Places, Generates, TypeOK
<1>9. CASE OpenFails(p)
  BY <1>9, <1>0, BoxFailsPlaces DEF OpenFails
<1>10. CASE FlushKeyFile(p)
  <2>1. box[p] \in Keys
    BY <1>10 DEF FlushKeyFile, Places
  <2> QED BY <1>10, <2>1, GotKeyPlaces DEF FlushKeyFile
<1>11. CASE KeyFileFails(p)
  BY <1>11, <1>0, BoxFailsPlaces DEF KeyFileFails
<1> QED BY <1>1, <1>2, <1>3, <1>4, <1>5, <1>6, <1>7, <1>8, <1>9, <1>10, <1>11 DEF Resolve

LEMMA OtherPlaces ==
  ASSUME TypeOK, Places, Next, \A p \in Procs : ~Resolve(p)
  PROVE  Places'
<1> USE DEF settings, files
<1>1. CASE Boot
  BY <1>1, TwoProcs DEF Boot, Goto, Places, Generates, TypeOK
<1>2. CASE CreateTables
  BY <1>2, TwoProcs DEF CreateTables, Goto, Places, Generates, TypeOK
<1>3. CASE ReadConfig
  BY <1>3, TwoProcs DEF ReadConfig, Goto, Places, Generates, TypeOK
<1>4. CASE StartFails
  BY <1>4, ExitPlaces, TwoProcs DEF StartFails
<1>5. CASE StartCli
  BY <1>5, TwoProcs DEF StartCli, Goto, Places, Generates, TypeOK
<1>6. CASE CliSetsPassword
  BY <1>6, ExitPlaces, TwoProcs DEF CliSetsPassword
<1>7. CASE CliGivesUp
  BY <1>7, ExitPlaces, TwoProcs DEF CliGivesUp
<1>8. ASSUME NEW s \in Secrets, SetSecret(s) \/ ClearSecret(s)
      PROVE  Places'
  BY <1>8 DEF SetSecret, ClearSecret, procs, Places, Generates
<1>9. CASE Stop
  BY <1>9, ExitPlaces, TwoProcs DEF Stop
<1>10. CASE DbStops \/ DbReturns \/ LoseKeyFile \/ RestoreKeyFile
  BY <1>10 DEF DbStops, DbReturns, LoseKeyFile, RestoreKeyFile, procs, Places, Generates
<1>11. CASE EditEnv
  <2>1. \A p \in Procs : pc[p] = "off"
    BY <1>11, TwoProcs DEF EditEnv, Places
  <2> QED BY <1>11, <2>1, TwoProcs DEF EditEnv, procs, Places, Generates
<1> QED BY <1>1, <1>2, <1>3, <1>4, <1>5, <1>6, <1>7, <1>8, <1>9, <1>10, <1>11, TwoProcs
        DEF Next, EngineStarts

-----------------------------------------------------------------------------
(* Steps that move neither a key nor a row *)

LEMMA SessionFrame ==
  ASSUME SessionIsSource, Source' = Source, stage' = stage, sess' = sess,
         \/ pc'[Engine] = "off"
         \/ pc'[Engine] = pc[Engine] /\ box'[Engine] = box[Engine]
  PROVE  SessionIsSource'
BY DEF SessionIsSource, Generates

LEMMA FrameSound ==
  ASSUME Sound, UNCHANGED <<envKey, allow, keyFile, saved, rows>>,
         \A q \in Procs : pc'[q] \in {"create", "config", "up"} /\ box'[q] # NoKey =>
                           Holds(q) /\ box'[q] = box[q],
         \A q \in Procs : pc'[q] \in {"ask", "write"} => keyFile = NoKey,
         pc'[Engine] = "write" => pc[Engine] = "write" \/ allow \/ ~HasSecrets,
         \A q \in Procs : pc'[q] = "flush" => pc[q] = "flush",
         pc[Engine] = "up" /\ pc'[Cli] \in {"create", "config", "up"} => pc'[Engine] = "up",
         SessionIsSource'
  PROVE  Sound'
<1>1. Source' = Source /\ (Disagrees' <=> Disagrees) /\ (HasSecrets' <=> HasSecrets)
  BY DEF Source, Disagrees, HasSecrets
<1>2. OneGenerates'
  BY <1>1, TwoProcs DEF Sound, OneGenerates
<1>3. HeldIsSource'
  BY <1>1, TwoProcs DEF Sound, HeldIsSource, Holds
<1>4. HeldReadsAll'
  BY DEF Sound, HeldReadsAll, Holds
<1> QED BY <1>1, <1>2, <1>3, <1>4 DEF Sound

LEMMA SourceFrame ==
  ASSUME UNCHANGED <<envKey, keyFile>>
  PROVE  Source' = Source
BY DEF Source

\* The end of a process.
LEMMA ExitSound ==
  ASSUME TypeOK, Places, Sound, NEW p \in Procs, Exit(p),
         UNCHANGED <<envKey, allow, keyFile, saved, rows>>
  PROVE  Sound'
<1>1. SessionIsSource'
  BY ExitEffect, SourceFrame, SessionFrame, TwoProcs DEF Sound
<1>2. \A q \in Procs : pc'[q] = "off" \/ (pc'[q] = pc[q] /\ box'[q] = box[q])
  BY ExitEffect
<1>3. pc[Engine] = "up" /\ pc'[Cli] \in {"create", "config", "up"} => pc'[Engine] = "up"
  BY ExitEffect, TwoProcs
<1>4. \A q \in Procs : pc'[q] \in {"ask", "write"} => keyFile = NoKey
  BY <1>2 DEF Sound, OneGenerates
<1>5. /\ pc'[Engine] = "write" => pc[Engine] = "write"
      /\ \A q \in Procs : pc'[q] = "flush" => pc[q] = "flush"
  BY <1>2, TwoProcs
<1>6. \A q \in Procs : pc'[q] \in {"create", "config", "up"} /\ box'[q] # NoKey =>
                       Holds(q) /\ box'[q] = box[q]
  BY <1>2 DEF Holds
<1> QED BY <1>1, <1>3, <1>4, <1>5, <1>6, FrameSound

LEMMA BoxFailsSound ==
  ASSUME TypeOK, Places, Sound, NEW p \in Procs, BoxFails(p), pc[p] # "off",
         UNCHANGED <<envKey, allow, keyFile, saved, rows>>
  PROVE  Sound'
<1>4. pc[Engine] = "up" => stage = 2
  BY DEF Places
<1>1. CASE p = Engine /\ stage = 1 /\ pc'[Engine] = "create" /\ sess' = NoKey /\ stage' = 1
           /\ box'[Engine] = NoKey
  <2>1. SessionIsSource'
    BY <1>1 DEF SessionIsSource, Generates
  <2>2. \A q \in Procs : q = Engine \/ pc'[q] = "off" \/ (pc'[q] = pc[q] /\ box'[q] = box[q])
    BY <1>1, BoxFailsEffect, TwoProcs
  <2>3. pc'[Cli] = "off" \/ (pc'[Cli] = pc[Cli] /\ box'[Cli] = box[Cli])
    BY <2>2, TwoProcs
  <2>4. \A q \in Procs : pc'[q] \in {"ask", "write"} => keyFile = NoKey
    BY <1>1, <2>2 DEF Sound, OneGenerates
  <2>5. /\ pc'[Engine] = "write" => pc[Engine] = "write"
        /\ \A q \in Procs : pc'[q] = "flush" => pc[q] = "flush"
    BY <1>1, <2>2
  <2>6. \A q \in Procs : pc'[q] \in {"create", "config", "up"} /\ box'[q] # NoKey =>
                         Holds(q) /\ box'[q] = box[q]
    BY <1>1, <2>2 DEF Holds
  <2>7. pc[Engine] # "up"
    BY <1>1, <1>4 DEF Places
  <2> QED BY <2>1, <2>4, <2>5, <2>6, <2>7, FrameSound
<1>2. CASE pc'[p] = "off" /\ Exit(p)
  BY <1>2, ExitSound
<1>3. Exit(p) \/ (p = Engine /\ stage = 1 /\ Goto(p, "create") /\ sess' = NoKey
                  /\ box' = [box EXCEPT ![p] = NoKey] /\ UNCHANGED stage)
  BY DEF BoxFails
<1> QED BY <1>1, <1>2, <1>3, ExitEffect, TwoProcs DEF Goto, TypeOK

\* A process moves on without a box.
LEMMA GotoSound ==
  ASSUME TypeOK, Places, Sound, NEW p \in Procs, NEW place \in {"resolve", "ask", "write"},
         Goto(p, place), UNCHANGED <<envKey, allow, keyFile, saved, rows, box, sess>>,
         pc[p] # "up",
         place = "write" => allow \/ ~HasSecrets,
         place # "resolve" => keyFile = NoKey,
         p = Engine /\ place # "resolve" /\ stage = 2 => sess = NoKey,
         p = Engine /\ place = "resolve" /\ stage' = 2 => sess \in {NoKey, Source},
         place # "resolve" \/ p = Cli => UNCHANGED stage
  PROVE  Sound'
<1>1. pc'[p] = place /\ \A q \in Procs \ {p} : pc'[q] = pc[q]
  BY DEF Goto, TypeOK
<1>3. \A q \in Procs : pc'[q] \in {"ask", "write"} => keyFile = NoKey
  BY <1>1 DEF Sound, OneGenerates
<1>4. pc'[Engine] = "write" => pc[Engine] = "write" \/ allow \/ ~HasSecrets
  BY <1>1, TwoProcs
<1>5. /\ \A q \in Procs : pc'[q] = "flush" => pc[q] = "flush"
      /\ pc[Engine] = "up" => pc'[Engine] = "up"
  BY <1>1, TwoProcs
<1>6. \A q \in Procs : pc'[q] \in {"create", "config", "up"} /\ box'[q] # NoKey =>
                       Holds(q) /\ box'[q] = box[q]
  BY <1>1 DEF Holds
<1>2. SessionIsSource'
  <2>1. CASE p = Cli
    BY <1>1, <2>1, SourceFrame, SessionFrame, TwoProcs DEF Sound
  <2>2. CASE p = Engine
    BY <1>1, <2>2, SourceFrame DEF SessionIsSource, Generates
  <2> QED BY <2>1, <2>2, TwoProcs
<1> QED BY <1>2, <1>3, <1>4, <1>5, <1>6, FrameSound

-----------------------------------------------------------------------------
(* Steps that take, write or lose a key *)

\* A key that a start finds is the key of the rows and of the other process.
LEMMA FindKeySound ==
  ASSUME TypeOK, Places, Sound, NEW p \in Procs, FindKey(p)
  PROVE  Sound'
<1>1. /\ pc[p] = "resolve" /\ Source \in Keys /\ GotKey(p, Source)
      /\ UNCHANGED <<envKey, allow, keyFile, saved, rows>>
  BY DEF FindKey, settings, files
<1>2. Source' = Source /\ (Disagrees' <=> Disagrees) /\ (HasSecrets' <=> HasSecrets)
  BY <1>1 DEF Source, Disagrees, HasSecrets
<1>3. /\ pc'[p] \in {"up", "create", "config"} /\ box'[p] = Source
      /\ \A q \in Procs \ {p} : pc'[q] = pc[q] /\ box'[q] = box[q]
      /\ stage' = stage
  BY <1>1, GotKeyEffect, TwoProcs DEF TypeOK
<1>4. OneGenerates'
  BY <1>1, <1>2, <1>3, TwoProcs DEF Sound, OneGenerates
<1>5. HeldIsSource'
  BY <1>1, <1>2, <1>3, TwoProcs DEF Sound, HeldIsSource, Holds
<1>6. \A s \in Secrets : rows[s] \in {NoKey, Source}
  BY <1>1 DEF Sound, Disagrees
<1>7. HeldReadsAll'
  BY <1>1, <1>3, <1>6 DEF Sound, HeldReadsAll, Holds
<1>8. SessionIsSource'
  <2>1. CASE p = Cli
    BY <1>1, <1>2, <1>3, <2>1, GotKeyEffect, SessionFrame, TwoProcs DEF Sound
  <2>2. CASE p = Engine
    BY <1>1, <1>2, <1>3, <2>2, GotKeyEffect, TwoProcs
    DEF Sound, SessionIsSource, Generates, TypeOK
  <2> QED BY <2>1, <2>2, TwoProcs
<1> QED BY <1>2, <1>4, <1>5, <1>7, <1>8 DEF Sound

\* The file is emptied: by the engine alone, with nothing to lose.
LEMMA OpenKeyFileSound ==
  ASSUME TypeOK, Places, Sound, NEW p \in Procs, OpenKeyFile(p), ~waived'
  PROVE  Sound'
<1>1. /\ pc[p] = "write" /\ keyFile' = Torn
      /\ Goto(p, "flush") /\ UNCHANGED <<envKey, allow, saved, rows, stage, sess>>
  BY DEF OpenKeyFile, settings
<1>2. ~(allow /\ HasSecrets) /\ \A q \in Procs \ {p} : pc[q] = "off"
  BY DEF OpenKeyFile
<1>3. p = Engine /\ pc[Cli] = "off"
  BY <1>1, <1>2, TwoProcs DEF Places
<1>4. ~HasSecrets /\ ~HasSecrets'
  BY <1>1, <1>2, <1>3 DEF Sound, OneGenerates, HasSecrets
<1>5. pc'[Engine] = "flush" /\ pc'[Cli] = "off"
  BY <1>1, <1>3, TwoProcs DEF Goto, TypeOK
<1>6. OneGenerates'
  BY <1>1, <1>4, <1>5, TwoProcs DEF OneGenerates
<1>7. HeldIsSource' /\ HeldReadsAll'
  BY <1>5, TwoProcs DEF HeldIsSource, HeldReadsAll, Holds
<1>8. ~Disagrees'
  BY <1>4 DEF Disagrees, HasSecrets
<1>9. SessionIsSource'
  BY <1>1, <1>3, <1>5 DEF Sound, SessionIsSource, Generates
<1> QED BY <1>6, <1>7, <1>8, <1>9 DEF Sound

\* While one process writes the file, no other one has a key.
LEMMA FlushAlone ==
  ASSUME TypeOK, Places, Sound, NEW p \in Procs, pc[p] = "flush"
  PROVE  /\ envKey = NoKey /\ keyFile = Torn /\ Source = Torn /\ ~HasSecrets
         /\ box[p] \in Keys
         /\ \A q \in Procs \ {p} : ~Holds(q) /\ pc[q] \in {"off", "resolve", "create"}
<1>1. envKey = NoKey /\ keyFile = Torn /\ ~HasSecrets /\ box[p] \in Keys
  BY DEF Places, Generates, Sound, OneGenerates
<1>2. Source = Torn
  BY <1>1 DEF Source
<1>3. ASSUME NEW q \in Procs \ {p}
      PROVE  ~Holds(q) /\ pc[q] \in {"off", "resolve", "create"}
  <2>1. ~Holds(q)
    BY <1>2, MasterKeyAssumption DEF Sound, HeldIsSource, Holds, TypeOK
  <2>2. pc[q] \notin {"config", "up"}
    BY <2>1, MasterKeyAssumption DEF Places, Holds
  <2>3. pc[q] \notin {"ask", "write"}
    BY <1>1, MasterKeyAssumption DEF Sound, OneGenerates
  <2>4. pc[q] # "flush"
    BY TwoProcs DEF Sound, OneGenerates
  <2> QED BY <2>1, <2>2, <2>3, <2>4 DEF TypeOK, PCs
<1> QED BY <1>1, <1>2, <1>3

LEMMA FlushKeyFileSound ==
  ASSUME TypeOK, Places, Sound, NEW p \in Procs, FlushKeyFile(p)
  PROVE  Sound'
<1>1. /\ pc[p] = "flush" /\ keyFile' = box[p] /\ GotKey(p, box[p])
      /\ UNCHANGED <<envKey, allow, saved, rows>>
  BY DEF FlushKeyFile, settings
<1>2. /\ envKey = NoKey /\ Source = Torn /\ ~HasSecrets /\ box[p] \in Keys
      /\ \A q \in Procs \ {p} : ~Holds(q) /\ pc[q] \in {"off", "resolve", "create"}
  BY <1>1, FlushAlone
<1>3. Source' = box[p] /\ ~HasSecrets'
  BY <1>1, <1>2 DEF Source, HasSecrets
<1>4. /\ pc'[p] \in {"up", "create", "config"} /\ box'[p] = box[p]
      /\ \A q \in Procs \ {p} : pc'[q] = pc[q] /\ box'[q] = box[q]
      /\ stage' = stage
  BY <1>1, <1>2, GotKeyEffect, TwoProcs DEF TypeOK
<1>5. OneGenerates'
  BY <1>2, <1>4, TwoProcs DEF OneGenerates
<1>6. HeldIsSource'
  BY <1>2, <1>3, <1>4, TwoProcs DEF HeldIsSource, Holds
<1>7. \A s \in Secrets : rows'[s] = NoKey
  BY <1>3 DEF HasSecrets
<1>8. HeldReadsAll' /\ ~Disagrees'
  BY <1>7 DEF HeldReadsAll, Disagrees
<1>9. SessionIsSource'
  <2>1. CASE p = Engine
    BY <1>1, <1>2, <1>3, <1>4, <2>1, GotKeyEffect DEF Sound, SessionIsSource, Generates, TypeOK
  <2>2. CASE p = Cli
    <3>1. sess' = sess /\ pc'[Engine] = pc[Engine] /\ pc[Engine] \in {"off", "resolve", "create"}
      BY <1>1, <1>2, <1>4, <2>2, GotKeyEffect, TwoProcs
    <3>2. pc[Engine] = "create" \/ (pc[Engine] = "resolve" /\ stage = 2) => sess = NoKey
      BY <1>2, MasterKeyAssumption DEF Sound, SessionIsSource, TypeOK
    <3> QED BY <1>4, <3>1, <3>2 DEF SessionIsSource, Generates
  <2> QED BY <2>1, <2>2, TwoProcs
<1> QED BY <1>5, <1>6, <1>8, <1>9 DEF Sound

LEMMA KeyFileFailsSound ==
  ASSUME TypeOK, Places, Sound, NEW p \in Procs, KeyFileFails(p)
  PROVE  Sound'
<1>1. /\ pc[p] = "flush" /\ BoxFails(p)
      /\ UNCHANGED <<envKey, allow, saved, rows>>
  BY DEF KeyFileFails, settings
<1>2. /\ ~HasSecrets
      /\ \A q \in Procs \ {p} : ~Holds(q) /\ pc[q] \in {"off", "resolve", "create"}
      /\ Source = Torn
  BY <1>1, FlushAlone
<1>3. \A s \in Secrets : rows'[s] = NoKey
  BY <1>1, <1>2 DEF HasSecrets
<1>4. \A q \in Procs : pc'[q] \in {"off", "resolve", "create"}
                       /\ (pc'[q] = "create" => box'[q] = NoKey)
  BY <1>1, <1>2, BoxFailsEffect, TwoProcs DEF Holds
<1>5. OneGenerates' /\ HeldIsSource'
  BY <1>4, TwoProcs DEF OneGenerates, HeldIsSource, Holds
<1>6. HeldReadsAll' /\ ~Disagrees'
  BY <1>3 DEF HeldReadsAll, Disagrees
<1>7. SessionIsSource'
  <2>1. CASE p = Engine
    BY <1>1, <2>1, BoxFailsEffect DEF SessionIsSource, Generates
  <2>2. CASE p = Cli
    <3>1. sess' = sess /\ stage' = stage /\ pc'[Engine] \in {"off", pc[Engine]}
          /\ pc[Engine] \in {"off", "resolve", "create"}
      BY <1>1, <1>2, <2>2, BoxFailsEffect, TwoProcs
    <3>2. pc[Engine] = "create" \/ (pc[Engine] = "resolve" /\ stage = 2) => sess = NoKey
      BY <1>2, MasterKeyAssumption DEF Sound, SessionIsSource, TypeOK
    <3> QED BY <3>1, <3>2 DEF SessionIsSource, Generates
  <2> QED BY <2>1, <2>2, TwoProcs
<1> QED BY <1>5, <1>6, <1>7 DEF Sound

LEMMA ResolveSound ==
  ASSUME TypeOK, Places, ~waived => Sound, NEW p \in Procs, Resolve(p), ~waived'
  PROVE  Sound'
<1> USE DEF settings, files
<1>1. ~waived
  BY DEF Resolve, FindKey, FindTornKey, FindNoKey, GuardRefuses, GuardAgrees, GuardIsMisled,
         GuardGetsNoAnswer, OpenKeyFile, OpenFails, FlushKeyFile, KeyFileFails
<1>2. Sound
  BY <1>1
<1>3. CASE FindKey(p)
  BY <1>2, <1>3, FindKeySound
<1>4. CASE FindTornKey(p)
  BY <1>2, <1>4, BoxFailsSound DEF FindTornKey
<1>5. CASE FindNoKey(p)
  <2>1. keyFile = NoKey
    BY <1>5, MasterKeyAssumption DEF FindNoKey, Source, TypeOK
  <2>2. p = Engine /\ stage = 2 => sess = NoKey
    BY <1>2, <1>5 DEF Sound, SessionIsSource, FindNoKey
  <2> DEFINE place == IF allow THEN "write" ELSE "ask"
  <2>3. place \in {"resolve", "ask", "write"} /\ place # "resolve" /\ (place = "write" => allow)
    OBVIOUS
  <2>4. Goto(p, place) /\ pc[p] # "up" /\ UNCHANGED <<envKey, allow, keyFile, saved, rows, box, sess, stage>>
    BY <1>5 DEF FindNoKey
  <2> HIDE DEF place
  <2> QED BY <1>2, <2>1, <2>2, <2>3, <2>4, GotoSound
<1>6. CASE GuardRefuses(p)
  BY <1>2, <1>6, ExitSound DEF GuardRefuses
<1>7. CASE GuardAgrees(p) \/ GuardIsMisled(p)
  <2>1. pc[p] = "ask" /\ Goto(p, "write") /\ ~HasSecrets
        /\ UNCHANGED <<envKey, allow, keyFile, saved, rows, box, sess, stage>>
    BY <1>7 DEF GuardAgrees, GuardIsMisled
  <2>2. keyFile = NoKey /\ (p = Engine /\ stage = 2 => sess = NoKey)
    BY <1>2, <2>1 DEF Sound, OneGenerates, SessionIsSource, Generates
  <2> QED BY <1>2, <2>1, <2>2, GotoSound
<1>8. CASE GuardGetsNoAnswer(p)
  <2>1. CASE Exit(p)
    BY <1>2, <1>8, <2>1, ExitSound DEF GuardGetsNoAnswer
  <2>2. CASE UNCHANGED <<pc, box, stage, sess>>
    BY <1>2, <1>8, <2>2
    DEF GuardGetsNoAnswer, Sound, OneGenerates, HeldIsSource, HeldReadsAll, Disagrees,
        SessionIsSource, Holds, Generates, Source, HasSecrets
  <2> QED BY <1>8, <2>1, <2>2 DEF GuardGetsNoAnswer
<1>9. CASE OpenKeyFile(p)
  BY <1>2, <1>9, OpenKeyFileSound
<1>10. CASE OpenFails(p)
  BY <1>2, <1>10, BoxFailsSound DEF OpenFails
<1>11. CASE FlushKeyFile(p)
  BY <1>2, <1>11, FlushKeyFileSound
<1>12. CASE KeyFileFails(p)
  BY <1>2, <1>12, KeyFileFailsSound
<1> QED BY <1>3, <1>4, <1>5, <1>6, <1>7, <1>8, <1>9, <1>10, <1>11, <1>12 DEF Resolve

\* A row written by a running process, which may end with it.
LEMMA WriteRowSound ==
  ASSUME TypeOK, Places, Sound, NEW p \in Procs, pc[p] = "up",
         NEW s \in Secrets, NEW k \in {NoKey, box[p]}, rows' = [rows EXCEPT ![s] = k],
         UNCHANGED <<envKey, allow, keyFile, saved, stage, sess>>,
         pc'[Engine] = pc[Engine],
         \A q \in Procs : pc'[q] = "off" \/ (pc'[q] = pc[q] /\ box'[q] = box[q])
  PROVE  Sound'
<1>1. Holds(p) /\ box[p] \in Keys
  BY MasterKeyAssumption DEF Places, Holds
<1>2. Source' = Source
  BY DEF Source
<1>3. \A q \in Procs : pc[q] # "flush"
  BY <1>1, FlushAlone
<1>4. pc[Engine] # "write" \/ allow \/ k = NoKey
  <2>1. CASE pc[Engine] = "write"
    <3>1. p = Cli /\ Source = box[Cli]
      BY <1>1, <2>1, TwoProcs DEF Sound, HeldIsSource
    <3>2. Source = NoKey
      BY <2>1, TwoProcs DEF Places, Generates, Sound, OneGenerates, Source
    <3> QED BY <1>1, <3>1, <3>2, MasterKeyAssumption
  <2> QED BY <2>1
<1>5. OneGenerates'
  BY <1>3, <1>4, TwoProcs DEF Sound, OneGenerates, HasSecrets, TypeOK
<1>6. HeldIsSource'
  BY <1>2, TwoProcs DEF Sound, HeldIsSource, Holds
<1>7. \A q \in Procs : Holds(q) => box[q] = box[p]
  BY <1>1, MasterKeyAssumption DEF Sound, HeldIsSource, Holds
<1>8. HeldReadsAll'
  BY <1>7 DEF Sound, HeldReadsAll, Holds, TypeOK
<1>9. ~Disagrees'
  BY <1>1, <1>2, MasterKeyAssumption DEF Sound, HeldIsSource, Disagrees, TypeOK
<1>10. SessionIsSource'
  BY <1>2, SessionFrame, TwoProcs DEF Sound
<1> QED BY <1>5, <1>6, <1>8, <1>9, <1>10 DEF Sound

\* Between the starts the file is lost, or comes back.
LEMMA MoveKeyFileSound ==
  ASSUME TypeOK, Places, Sound, LoseKeyFile \/ (RestoreKeyFile /\ ~waived')
  PROVE  Sound'
<1>1. /\ \A p \in Procs : pc[p] \in {"off", "up"}
      /\ UNCHANGED <<envKey, allow, rows, pc, box, stage, sess>>
  BY DEF LoseKeyFile, RestoreKeyFile, Quiet, settings, procs
<1>2. OneGenerates'
  BY <1>1, TwoProcs DEF OneGenerates
<1>3. \A p \in Procs : pc[p] = "up" => pc[Engine] = "up"
  BY <1>1, TwoProcs DEF Places
<1>4. HeldIsSource'
  <2>1. ASSUME NEW p \in Procs, Holds(p)'
        PROVE  \/ Source' = box'[p]
               \/ Source' = NoKey /\ saved' = box'[p]
    <3>1. Holds(p) /\ box[p] \in Keys /\ box'[p] = box[p]
      BY <1>1, <2>1 DEF Holds, TypeOK
    <3>2. Source = box[p] \/ (Source = NoKey /\ saved = box[p])
      BY <3>1 DEF Sound, HeldIsSource
    <3>3. CASE envKey # NoKey
      BY <1>1, <3>1, <3>2, <3>3 DEF Source
    <3>4. CASE envKey = NoKey /\ LoseKeyFile
      BY <1>1, <3>1, <3>2, <3>4, MasterKeyAssumption DEF Source, LoseKeyFile
    <3>5. CASE envKey = NoKey /\ RestoreKeyFile
      BY <1>1, <3>1, <3>2, <3>5, MasterKeyAssumption DEF Source, RestoreKeyFile
    <3> QED BY <3>3, <3>4, <3>5
  <2>2. Holds(Cli)' => pc'[Engine] = "up"
    BY <1>1, <1>3, TwoProcs DEF Holds
  <2> QED BY <2>1, <2>2 DEF HeldIsSource, Holds
<1>5. HeldReadsAll'
  BY <1>1 DEF Sound, HeldReadsAll, Holds
<1>6. ~Disagrees'
  <2>1. CASE LoseKeyFile
    BY <1>1, <2>1, MasterKeyAssumption DEF LoseKeyFile, Sound, Disagrees, Source
  <2>2. CASE RestoreKeyFile /\ ~waived'
    BY <2>2 DEF RestoreKeyFile
  <2> QED BY <2>1, <2>2
<1>7. SessionIsSource'
  BY <1>1, TwoProcs DEF Sound, SessionIsSource, Generates
<1> QED BY <1>2, <1>4, <1>5, <1>6, <1>7 DEF Sound

LEMMA OtherSound ==
  ASSUME TypeOK, Places, ~waived => Sound, Next, \A p \in Procs : ~Resolve(p), ~waived'
  PROVE  Sound'
<1> USE DEF settings, files
<1>1. ~waived
  BY DEF Next, EngineStarts, Boot, CreateTables, ReadConfig, StartFails, StartCli,
         CliSetsPassword, CliGivesUp, SetSecret, ClearSecret, Stop, DbStops, DbReturns,
         LoseKeyFile, RestoreKeyFile, EditEnv, Procs
<1>2. Sound
  BY <1>1
<1>3. CASE Boot
  <2>1. /\ pc'[Engine] = "resolve" /\ pc'[Cli] = "off" /\ stage' = 1 /\ sess' = NoKey
        /\ UNCHANGED <<envKey, allow, keyFile, saved, rows, box>>
    BY <1>3, TwoProcs DEF Boot, Goto, Places, TypeOK
  <2>2. SessionIsSource'
    BY <2>1 DEF SessionIsSource, Generates
  <2>3. \A q \in Procs : pc'[q] \in {"resolve", "off"}
    BY <2>1, TwoProcs
  <2> QED BY <1>2, <2>1, <2>2, <2>3, FrameSound DEF Holds
<1>4. CASE CreateTables
  <2>1. /\ pc[Engine] = "create" /\ pc'[Engine] = "resolve"
        /\ stage' = 2 /\ pc'[Cli] = pc[Cli] /\ box'[Cli] = box[Cli]
        /\ UNCHANGED <<envKey, allow, keyFile, saved, rows, sess>>
    BY <1>4, TwoProcs DEF CreateTables, Goto, TypeOK
  <2>2. SessionIsSource'
    BY <1>2, <2>1, SourceFrame DEF Sound, SessionIsSource, Generates
  <2>3. \A q \in Procs : pc'[q] = "resolve" \/ (pc'[q] = pc[q] /\ box'[q] = box[q])
    BY <2>1, TwoProcs
  <2>4. \A q \in Procs : pc'[q] \in {"ask", "write"} => keyFile = NoKey
    BY <1>2, <2>3 DEF Sound, OneGenerates
  <2>5. \A q \in Procs : pc'[q] \in {"create", "config", "up"} /\ box'[q] # NoKey =>
                         Holds(q) /\ box'[q] = box[q]
    BY <2>3 DEF Holds
  <2>6. \A q \in Procs : pc'[q] = "flush" => pc[q] = "flush"
    BY <2>3
  <2> QED BY <1>2, <2>1, <2>2, <2>4, <2>5, <2>6, FrameSound
<1>5. CASE ReadConfig
  <2>1. /\ pc[Engine] = "config" /\ pc'[Engine] = "up" /\ pc'[Cli] = pc[Cli]
        /\ UNCHANGED <<envKey, allow, keyFile, saved, rows, sess, box, stage>>
    BY <1>5, TwoProcs DEF ReadConfig, Goto, TypeOK
  <2>2. SessionIsSource'
    BY <1>2, <2>1 DEF Sound, SessionIsSource, Generates
  <2>3. \A q \in Procs : pc'[q] \in {"ask", "write"} => keyFile = NoKey
    BY <1>2, <2>1, TwoProcs DEF Sound, OneGenerates
  <2>4. \A q \in Procs : pc'[q] \in {"create", "config", "up"} /\ box'[q] # NoKey =>
                         Holds(q) /\ box'[q] = box[q]
    BY <2>1, TwoProcs DEF Holds
  <2>5. \A q \in Procs : pc'[q] = "flush" => pc[q] = "flush"
    BY <2>1, TwoProcs
  <2> QED BY <1>2, <2>1, <2>2, <2>3, <2>4, <2>5, FrameSound
<1>6. CASE StartFails \/ Stop
  BY <1>2, <1>6, ExitSound, TwoProcs DEF StartFails, Stop
<1>7. CASE StartCli
  BY <1>2, <1>7, GotoSound, TwoProcs DEF StartCli
<1>8. CASE CliSetsPassword
  <2>1. /\ pc[Cli] = "up" /\ Exit(Cli) /\ rows' = [rows EXCEPT ![AdminHash] = box[Cli]]
        /\ UNCHANGED <<envKey, allow, keyFile, saved>>
    BY <1>8 DEF CliSetsPassword
  <2>2. AdminHash \in Secrets
    BY MasterKeyAssumption
  <2>3. /\ pc'[Engine] = pc[Engine] /\ UNCHANGED <<stage, sess>>
        /\ \A q \in Procs : pc'[q] = "off" \/ (pc'[q] = pc[q] /\ box'[q] = box[q])
    BY <2>1, ExitEffect, TwoProcs
  <2> QED BY <1>2, <2>1, <2>2, <2>3, WriteRowSound, TwoProcs
<1>9. CASE CliGivesUp
  BY <1>2, <1>9, ExitSound, TwoProcs DEF CliGivesUp
<1>10. ASSUME NEW s \in Secrets, SetSecret(s)
       PROVE  Sound'
  BY <1>2, <1>10, WriteRowSound, TwoProcs DEF SetSecret, procs
<1>11. ASSUME NEW s \in Secrets, ClearSecret(s)
       PROVE  Sound'
  BY <1>2, <1>11, WriteRowSound, TwoProcs DEF ClearSecret, procs
<1>12. CASE DbStops \/ DbReturns
  BY <1>2, <1>12
  DEF DbStops, DbReturns, procs, Sound, OneGenerates, HeldIsSource, HeldReadsAll, Disagrees,
      SessionIsSource, Holds, Generates, Source, HasSecrets
<1>13. CASE LoseKeyFile \/ RestoreKeyFile
  BY <1>2, <1>13, MoveKeyFileSound
<1>14. CASE EditEnv
  <2>1. \A p \in Procs : pc'[p] = "off"
    BY <1>14, TwoProcs DEF EditEnv, procs, Places
  <2>2. ~Disagrees'
    BY <1>14 DEF EditEnv
  <2> QED BY <2>1, <2>2, TwoProcs
          DEF Sound, OneGenerates, HeldIsSource, HeldReadsAll, SessionIsSource, Holds, Generates
<1> QED BY <1>3, <1>4, <1>5, <1>6, <1>7, <1>8, <1>9, <1>10, <1>11, <1>12, <1>13, <1>14, TwoProcs
        DEF Next, EngineStarts

-----------------------------------------------------------------------------
(* The theorems *)

LEMMA InitIInv == Init => IInv
<1> SUFFICES ASSUME Init PROVE IInv
  OBVIOUS
<1>1. TypeOK
  BY InitTypes
<1>2. \A p \in Procs : pc[p] = "off"
  BY DEF Init
<1>3. ~HasSecrets
  BY DEF Init, HasSecrets
<1>4. Places
  BY <1>2, TwoProcs DEF Places, Generates
<1>5. Sound
  BY <1>2, <1>3, TwoProcs
  DEF Sound, OneGenerates, HeldIsSource, HeldReadsAll, Disagrees, SessionIsSource, Holds,
      Generates, HasSecrets
<1> QED BY <1>1, <1>4, <1>5 DEF IInv

LEMMA NextIInv ==
  ASSUME IInv, [Next]_vars
  PROVE  IInv'
<1>1. CASE \E p \in Procs : Resolve(p)
  BY <1>1, ResolveTypes, ResolvePlaces, ResolveSound DEF IInv
<1>2. CASE Next /\ \A p \in Procs : ~Resolve(p)
  BY <1>2, OtherTypes, OtherPlaces, OtherSound DEF IInv
<1>3. CASE UNCHANGED vars
  <2>1. TypeOK' /\ Places'
    BY <1>3 DEF IInv, vars, settings, files, procs, TypeOK, Places, Generates
  <2>2. ~waived' => Sound'
    BY <1>3 DEF IInv, vars, settings, files, procs, Sound, OneGenerates, HeldIsSource,
                HeldReadsAll, Disagrees, SessionIsSource, Holds, Generates, Source, HasSecrets
  <2> QED BY <2>1, <2>2 DEF IInv
<1> QED BY <1>1, <1>2, <1>3

\* The inductive invariant holds of every behaviour.
THEOREM InvariantHolds == Spec => []IInv
<1>1. Init => IInv
  BY InitIInv
<1>2. IInv /\ [Next]_vars => IInv'
  BY NextIInv
<1> QED BY <1>1, <1>2, PTL DEF Spec

(***************************************************************************)
(* Whatever the number of secrets, keys and faults, a running process      *)
(* reads every secret unless the guard was waived.                         *)
(***************************************************************************)
THEOREM SecretsHold == Spec => []SecretsStayReadable
<1>1. IInv => SecretsStayReadable
  <2> SUFFICES ASSUME IInv, ~waived, NEW p \in Procs, pc[p] = "up"
               PROVE  \A s \in Secrets : rows[s] \in {NoKey, box[p]}
    BY DEF SecretsStayReadable
  <2>1. Holds(p)
    BY MasterKeyAssumption DEF IInv, Places, Holds
  <2> QED BY <2>1 DEF IInv, Sound, HeldReadsAll
<1> QED BY <1>1, InvariantHolds, PTL

\* The session secret of a running engine comes from the key of its secrets.
THEOREM SessionsHold == Spec => []SessionsFollowTheKey
<1>1. IInv => SessionsFollowTheKey
  BY DEF IInv, Sound, SessionIsSource, SessionsFollowTheKey
<1> QED BY <1>1, InvariantHolds, PTL
=============================================================================

--------------------------- MODULE ConfigStoreProofs ---------------------------
(***************************************************************************)
(* What module ConfigStore guarantees for any number of settings, licences, *)
(* concurrent saves, restarts and days.                                     *)
(***************************************************************************)
EXTENDS ConfigStore, TLAPS

LEMMA SubmittedIsStored ==
  ASSUME NEW body \in Bodies, NEW k \in DOMAIN body
  PROVE  k \in Keys /\ body[k] \in Stored /\ Submitted(body[k]) \in Stored
BY ConfigAssumption DEF Submitted

LEMMA ShownIsTyped ==
  ASSUME NEW k, NEW v \in Stored
  PROVE  Shown(k, v) \in Stored \cup {Mask}
BY DEF Shown, Stored

LEMMA NoSaveIsTyped ==
  /\ NoSave \in Saves
  /\ NoSave.at = "idle"
  /\ InItsBody(NoSave)
BY DEF NoSave, Saves, NoBody, InItsBody

\* A save that is writing or tracing has a key, one of those it was given.
LEMMA CurrentKey ==
  ASSUME TypeOK, NEW s \in Savers, save[s].at \in {"write", "audit"}
  PROVE  /\ save[s].key \in Keys
         /\ save[s].body \in Bodies
         /\ save[s].key \in DOMAIN save[s].body
         /\ save[s].body[save[s].key] \in Stored
         /\ Submitted(save[s].body[save[s].key]) \in Stored
<1>1. save[s] \in Saves /\ save[s].key \in DOMAIN save[s].body
  BY DEF TypeOK, InItsBody
<1>2. save[s].body \in Bodies
  BY <1>1 DEF Saves, NoBody
<1> QED
  BY <1>1, <1>2, SubmittedIsStored

LEMMA InitTypes == Init => TypeOK
<1> SUFFICES ASSUME Init PROVE TypeOK
  OBVIOUS
<1>1. Env[Job] \in Stored \cup {None}
  BY ConfigAssumption DEF Keys, Stored
<1>2. \A s \in Savers : save[s] = NoSave
  BY DEF Init
<1>3. save \in [Savers -> Saves]
  BY NoSaveIsTyped DEF Init
<1> QED
  BY <1>1, <1>2, <1>3, NoSaveIsTyped DEF Init, TypeOK

LEMMA BeginTypes ==
  ASSUME TypeOK, NEW s \in Savers, Begin(s)
  PROVE  TypeOK'
<1>1. PICK body \in Bodies :
        LET overlaps == Job \in DOMAIN body /\ Busy(Job) # {}
        IN  save' = [t \in Savers |->
              IF t = s
              THEN [NoSave EXCEPT !.at = "next", !.body = body, !.todo = DOMAIN body,
                                  !.alone = ~overlaps]
              ELSE IF overlaps /\ t \in Busy(Job) THEN [save[t] EXCEPT !.alone = FALSE]
              ELSE save[t]]
  BY DEF Begin
<1>2. DOMAIN body \subseteq Keys
  BY ConfigAssumption
<1> DEFINE overlaps == Job \in DOMAIN body /\ Busy(Job) # {}
<1> DEFINE new == [NoSave EXCEPT !.at = "next", !.body = body, !.todo = DOMAIN body, !.alone = ~overlaps]
<1>3. new \in Saves /\ InItsBody(new)
  BY <1>2 DEF NoSave, Saves, NoBody, InItsBody
<1>4. ASSUME NEW t \in Savers
      PROVE  save'[t] \in Saves /\ InItsBody(save'[t])
  <2>1. CASE t = s
    <3>1. save'[t] = new
      BY <1>1, <2>1
    <3> QED
      BY <3>1, <1>3
  <2>2. CASE t # s
    <3>1. save'[t] = save[t] \/ save'[t] = [save[t] EXCEPT !.alone = FALSE]
      BY <1>1, <2>2
    <3>2. save[t] \in Saves /\ InItsBody(save[t])
      BY DEF TypeOK
    <3> QED
      BY <3>1, <3>2 DEF Saves, InItsBody
  <2> QED
    BY <2>1, <2>2
<1>5. save' \in [Savers -> Saves]
  <2>1. save' = [t \in Savers |-> save'[t]]
    BY <1>1
  <2> QED
    BY <2>1, <1>4
<1>6. saves' = saves + 1 /\ UNCHANGED <<db, traced, job, today, owed, skewed>>
  BY DEF Begin
<1> QED
  BY <1>4, <1>5, <1>6 DEF TypeOK

LEMMA PickTypes ==
  ASSUME TypeOK, NEW s \in Savers, Pick(s)
  PROVE  TypeOK'
<1>1. PICK k \in save[s].todo :
        save' = [save EXCEPT ![s].at = "write", ![s].key = k, ![s].loaded = db[k]]
  BY DEF Pick
<1>2. save[s] \in Saves /\ k \in Keys /\ k \in DOMAIN save[s].body
  BY DEF TypeOK, Saves, InItsBody
<1>3. db[k] \in Stored \cup {Absent}
  BY <1>2 DEF TypeOK
<1>4. save'[s] = [save[s] EXCEPT !.at = "write", !.key = k, !.loaded = db[k]]
  BY <1>1 DEF TypeOK
<1>5. save'[s] \in Saves /\ InItsBody(save'[s])
  <2>1. InItsBody(save[s])
    BY DEF TypeOK
  <2> QED
    BY <2>1, <1>2, <1>3, <1>4 DEF Saves, InItsBody
<1>6. save' \in [Savers -> Saves] /\ \A t \in Savers \ {s} : save'[t] = save[t]
  BY <1>1, <1>5 DEF TypeOK
<1> QED
  BY <1>2, <1>5, <1>6 DEF TypeOK, Pick

\* _upsert replaces the row of the current key, or leaves the table as it is.
LEMMA UpsertWrites ==
  ASSUME TypeOK, NEW s \in Savers, Upsert(s)
  PROVE  LET k == save[s].key
             v == Submitted(save[s].body[k])
         IN  \/ db' = [db EXCEPT ![k] = v]
             \/ db' = db /\ save[s].loaded # Absent
BY DEF Upsert, Written

LEMMA UpsertTypes ==
  ASSUME TypeOK, NEW s \in Savers, Upsert(s)
  PROVE  TypeOK'
<1>1. save[s].at = "write" /\ save' = [save EXCEPT ![s].at = "audit"]
  BY DEF Upsert
<1>2. save[s].key \in Keys /\ Submitted(save[s].body[save[s].key]) \in Stored
  BY <1>1, CurrentKey
<1>3. db' \in [Keys -> Stored \cup {Absent}]
  BY <1>2, UpsertWrites DEF TypeOK
<1>4. save[s] \in Saves /\ save'[s] = [save[s] EXCEPT !.at = "audit"]
  BY <1>1 DEF TypeOK
<1>5. save'[s] \in Saves /\ InItsBody(save'[s])
  <2>1. InItsBody(save[s])
    BY DEF TypeOK
  <2> QED
    BY <1>1, <1>4, <2>1 DEF Saves, InItsBody
<1>6. save' \in [Savers -> Saves] /\ \A t \in Savers \ {s} : save'[t] = save[t]
  BY <1>1, <1>5 DEF TypeOK
<1> QED
  BY <1>1, <1>3, <1>5, <1>6 DEF TypeOK, Upsert

LEMMA AuditTypes ==
  ASSUME TypeOK, NEW s \in Savers, Audit(s)
  PROVE  TypeOK'
<1> DEFINE k == save[s].key
           rest == save[s].todo \ {k}
           at == IF rest # {} THEN "next"
                 ELSE IF Job \in DOMAIN save[s].body THEN "reschedule" ELSE "end"
<1>1. /\ save[s].at = "audit"
      /\ save' = [save EXCEPT ![s].todo = rest, ![s].key = None, ![s].loaded = None, ![s].at = at]
      /\ traced' = IF IsSilent(k) THEN traced
                   ELSE [traced EXCEPT ![k] = @ \cup {Shown(k, Submitted(save[s].body[k]))}]
  BY DEF Audit
<1>2. k \in Keys /\ Shown(k, Submitted(save[s].body[k])) \in Stored \cup {Mask}
  BY <1>1, CurrentKey, ShownIsTyped
<1>3. traced' \in [Keys -> SUBSET (Stored \cup {Mask})]
  BY <1>1, <1>2 DEF TypeOK
<1>4. save[s] \in Saves /\ InItsBody(save[s])
        /\ save'[s] = [save[s] EXCEPT !.todo = rest, !.key = None, !.loaded = None, !.at = at]
  BY <1>1 DEF TypeOK
<1>5. save'[s] \in Saves /\ InItsBody(save'[s])
  <2>1. at \in {"next", "reschedule", "end"} /\ (at = "reschedule" => Job \in DOMAIN save[s].body)
    OBVIOUS
  <2>2. rest \subseteq save[s].todo
    OBVIOUS
  <2> HIDE DEF at, rest
  <2> QED
    BY <1>4, <2>1, <2>2 DEF Saves, InItsBody
<1>6. save' \in [Savers -> Saves] /\ \A t \in Savers \ {s} : save'[t] = save[t]
  BY <1>1, <1>5 DEF TypeOK
<1> QED
  BY <1>3, <1>5, <1>6 DEF TypeOK, Audit

LEMMA OwedKeys ==
  ASSUME TypeOK, NEW s \in Savers
  PROVE  Owes(s) \subseteq Keys
BY CurrentKey DEF Owes

LEMMA ReplacedTypes ==
  ASSUME TypeOK, NEW s \in Savers, save' = [save EXCEPT ![s] = NoSave]
  PROVE  save' \in [Savers -> Saves] /\ \A t \in Savers : InItsBody(save'[t])
BY NoSaveIsTyped DEF TypeOK

LEMMA InForceIsTyped ==
  ASSUME TypeOK, NEW k \in Keys
  PROVE  InForce(k) \in Stored \cup {None}
BY ConfigAssumption DEF TypeOK, InForce, Stored

LEMMA NextTypes ==
  ASSUME TypeOK, [Next]_vars
  PROVE  TypeOK'
<1>1. ASSUME NEW s \in Savers, Begin(s) PROVE TypeOK'
  BY <1>1, BeginTypes
<1>2. ASSUME NEW s \in Savers, Pick(s) PROVE TypeOK'
  BY <1>2, PickTypes
<1>3. ASSUME NEW s \in Savers, Upsert(s) PROVE TypeOK'
  BY <1>3, UpsertTypes
<1>4. ASSUME NEW s \in Savers, Audit(s) PROVE TypeOK'
  BY <1>4, AuditTypes
<1>5. ASSUME NEW s \in Savers, Reschedule(s) PROVE TypeOK'
  <2>1. save[s] \in Saves /\ Job \in DOMAIN save[s].body
    BY <1>5 DEF TypeOK, Reschedule, InItsBody
  <2>2. job' \in Stored \cup {None}
    BY <1>5, <2>1, SubmittedIsStored DEF Reschedule, Saves, NoBody
  <2> QED
    BY <1>5, <2>1, <2>2, ReplacedTypes DEF Reschedule, TypeOK, Saves
<1>6. ASSUME NEW s \in Savers, End(s) PROVE TypeOK'
  BY <1>6, ReplacedTypes DEF End, TypeOK
<1>7. ASSUME NEW s \in Savers, Fails(s) PROVE TypeOK'
  BY <1>7, ReplacedTypes, OwedKeys DEF Fails, TypeOK
<1>8. CASE Restart
  <2>1. job' \in Stored \cup {None}
    BY <1>8, InForceIsTyped DEF Restart, StartsWith, Keys
  <2>2. owed' \subseteq Keys
    BY <1>8, OwedKeys DEF Restart, TypeOK
  <2>3. save' \in [Savers -> Saves] /\ \A s \in Savers : save'[s] = NoSave
    BY <1>8, NoSaveIsTyped DEF Restart
  <2> QED
    BY <1>8, <2>1, <2>2, <2>3, NoSaveIsTyped DEF Restart, TypeOK
<1>9. CASE DayPasses
  BY <1>9 DEF DayPasses, TypeOK
<1>10. CASE UNCHANGED vars
  BY <1>10 DEF vars, TypeOK
<1> QED
  BY <1>1, <1>2, <1>3, <1>4, <1>5, <1>6, <1>7, <1>8, <1>9, <1>10 DEF Next, Step

\* Every row holds a value that was submitted, whatever overlaps or dies.
THEOREM TypeCorrect == Spec => []TypeOK
<1>1. Init => TypeOK
  BY InitTypes
<1>2. TypeOK /\ [Next]_vars => TypeOK'
  BY NextTypes
<1> QED
  BY <1>1, <1>2, PTL DEF Spec

--------------------------------------------------------------------------------
(* The audit log *)

\* The save that owes the line of a value is the one that wrote the value in force.
Traced(k) ==
  \/ Shown(k, db[k]) \in traced[k]
  \/ k \in owed
  \/ \E s \in Savers : /\ save[s].at = "audit" /\ save[s].key = k
                       /\ Submitted(save[s].body[k]) = db[k]

TracedInv == \A k \in Keys \ Silent : db[k] # Absent => Traced(k)

\* A step that changes neither the table nor the log, and ends no save that owes a line
\* without recording it.
LEMMA TracedIsKept ==
  ASSUME TracedInv, db' = db, traced' = traced, owed \subseteq owed',
         \A s \in Savers : save[s].at = "audit" =>
           save'[s] = save[s] \/ save[s].key \in owed'
  PROVE  TracedInv'
<1> SUFFICES ASSUME NEW k \in Keys \ Silent, db'[k] # Absent PROVE Traced(k)'
  BY DEF TracedInv
<1>1. Traced(k)
  BY DEF TracedInv
<1> QED
  BY <1>1 DEF Traced

LEMMA UpsertTraced ==
  ASSUME TypeOK, TracedInv, NEW s \in Savers, Upsert(s)
  PROVE  TracedInv'
<1> SUFFICES ASSUME NEW k \in Keys \ Silent, db'[k] # Absent PROVE Traced(k)'
  BY DEF TracedInv
<1>1. /\ save[s].at = "write" /\ save' = [save EXCEPT ![s].at = "audit"]
      /\ UNCHANGED <<traced, owed>>
  BY DEF Upsert
<1>2. /\ save'[s].at = "audit" /\ save'[s].key = save[s].key /\ save'[s].body = save[s].body
      /\ \A t \in Savers : save[t].at = "audit" => save'[t] = save[t]
  BY <1>1 DEF TypeOK, Saves
<1>3. CASE db'[k] = db[k]
  <2>1. Traced(k)
    BY <1>3 DEF TracedInv
  <2> QED
    BY <1>1, <1>2, <1>3, <2>1 DEF Traced
<1>4. CASE db'[k] # db[k]
  <2>1. save[s].key = k /\ db'[k] = Submitted(save[s].body[k])
    BY <1>4, UpsertWrites DEF TypeOK
  <2> QED
    BY <1>2, <2>1 DEF Traced
<1> QED
  BY <1>3, <1>4

LEMMA AuditTraced ==
  ASSUME TypeOK, TracedInv, NEW s \in Savers, Audit(s)
  PROVE  TracedInv'
<1> SUFFICES ASSUME NEW k \in Keys \ Silent, db'[k] # Absent PROVE Traced(k)'
  BY DEF TracedInv
<1> DEFINE key == save[s].key
           line == Shown(key, Submitted(save[s].body[key]))
<1>1. /\ save[s].at = "audit" /\ UNCHANGED <<db, owed>>
      /\ traced' = IF IsSilent(key) THEN traced ELSE [traced EXCEPT ![key] = @ \cup {line}]
      /\ \A t \in Savers \ {s} : save'[t] = save[t]
  BY DEF Audit, TypeOK
<1>2. traced[k] \subseteq traced'[k]
  BY <1>1 DEF TypeOK
<1>3. CASE Shown(k, db[k]) \in traced[k] \/ k \in owed
  BY <1>1, <1>2, <1>3 DEF Traced
<1>4. ASSUME NEW t \in Savers, save[t].at = "audit", save[t].key = k,
             Submitted(save[t].body[k]) = db[k]
      PROVE  Traced(k)'
  <2>1. CASE t = s
    <3>1. line = Shown(k, db[k]) /\ ~IsSilent(key)
      BY <1>4, <2>1 DEF IsSilent
    <3>2. line \in traced'[k]
      BY <1>1, <1>4, <2>1, <3>1 DEF TypeOK
    <3> QED
      BY <1>1, <3>1, <3>2 DEF Traced
  <2>2. CASE t # s
    BY <1>1, <1>4, <2>2 DEF Traced
  <2> QED
    BY <2>1, <2>2
<1>5. Traced(k)
  BY <1>1 DEF TracedInv
<1> QED
  BY <1>3, <1>4, <1>5 DEF Traced

LEMMA NextTraced ==
  ASSUME TypeOK, TracedInv, [Next]_vars
  PROVE  TracedInv'
<1>1. ASSUME NEW s \in Savers, Begin(s) PROVE TracedInv'
  <2>1. \A t \in Savers : save[t].at = "audit" => save'[t].at = "audit" /\ save'[t].key = save[t].key
                                                  /\ save'[t].body = save[t].body
    <3> SUFFICES ASSUME NEW t \in Savers, save[t].at = "audit"
                 PROVE  save'[t].at = "audit" /\ save'[t].key = save[t].key /\ save'[t].body = save[t].body
      OBVIOUS
    <3>1. t # s
      BY <1>1 DEF Begin
    <3>2. save'[t] = save[t] \/ save'[t] = [save[t] EXCEPT !.alone = FALSE]
      BY <1>1, <3>1 DEF Begin
    <3> QED
      BY <3>2 DEF TypeOK, Saves
  <2>2. UNCHANGED <<db, traced, owed>>
    BY <1>1 DEF Begin
  <2> SUFFICES ASSUME NEW k \in Keys \ Silent, db'[k] # Absent PROVE Traced(k)'
    BY DEF TracedInv
  <2>3. Traced(k)
    BY <2>2 DEF TracedInv
  <2> QED
    BY <2>1, <2>2, <2>3 DEF Traced
<1>2. ASSUME NEW s \in Savers, Pick(s) PROVE TracedInv'
  <2>1. save[s].at = "next" /\ \A t \in Savers \ {s} : save'[t] = save[t]
    BY <1>2 DEF Pick, TypeOK
  <2> QED
    BY <1>2, <2>1, TracedIsKept DEF Pick
<1>3. ASSUME NEW s \in Savers, Upsert(s) PROVE TracedInv'
  BY <1>3, UpsertTraced
<1>4. ASSUME NEW s \in Savers, Audit(s) PROVE TracedInv'
  BY <1>4, AuditTraced
<1>5. ASSUME NEW s \in Savers, Reschedule(s) \/ End(s) PROVE TracedInv'
  <2>1. save[s].at # "audit" /\ \A t \in Savers \ {s} : save'[t] = save[t]
    BY <1>5 DEF Reschedule, End, TypeOK
  <2> QED
    BY <1>5, <2>1, TracedIsKept DEF Reschedule, End
<1>6. ASSUME NEW s \in Savers, Fails(s) PROVE TracedInv'
  <2>1. \A t \in Savers \ {s} : save'[t] = save[t]
    BY <1>6 DEF Fails, TypeOK
  <2> QED
    BY <1>6, <2>1, TracedIsKept DEF Fails, Owes
<1>7. CASE Restart
  BY <1>7, TracedIsKept DEF Restart, Owes
<1>8. CASE DayPasses
  BY <1>8, TracedIsKept DEF DayPasses
<1>9. CASE UNCHANGED vars
  BY <1>9, TracedIsKept DEF vars
<1> QED
  BY <1>1, <1>2, <1>3, <1>4, <1>5, <1>6, <1>7, <1>8, <1>9 DEF Next, Step

\* No interleaving of saves, however many, leaves a setting whose value no line of the
\* audit log names (services/runtime_config.py, _audit).
THEOREM SettingsAreTraced == Spec => []ValuesAreTraced
<1>1. Init => TypeOK /\ TracedInv
  BY InitTypes DEF Init, TracedInv
<1>2. TypeOK /\ TracedInv /\ [Next]_vars => (TypeOK /\ TracedInv)'
  BY NextTypes, NextTraced
<1>3. TypeOK /\ TracedInv => ValuesAreTraced
  BY DEF TracedInv, Traced, ValuesAreTraced
<1> QED
  BY <1>1, <1>2, <1>3, PTL DEF Spec
--------------------------------------------------------------------------------
(* The licence *)

\* Only a save of a key raises the edition, in one step.
LEMMA UpgradeStep ==
  ASSUME TypeOK, [Next]_vars, ~Supporter, Supporter'
  PROVE  \E s \in Savers : /\ save[s].at = "write" /\ save[s].key = Licence
                           /\ save[s].body[Licence] \in Tokens
<1>1. \A token : today <= today' /\ (token \in Tokens /\ today' <= Expiry[token] => today <= Expiry[token])
  <2>1. today' = today \/ today' = today + 1
    BY DEF Next, Step, Begin, Pick, Upsert, Audit, Reschedule, End, Fails, Restart, DayPasses, vars
  <2> QED
    BY <2>1, ConfigAssumption DEF TypeOK
<1>2. CASE db'[Licence] = db[Licence]
  <2>1. InForce(Licence)' = InForce(Licence)
    BY <1>2 DEF InForce
  <2> QED
    BY <1>1, <2>1 DEF Supporter, ValidToday
<1>3. CASE db'[Licence] # db[Licence]
  <2>1. PICK s \in Savers : Upsert(s)
    BY <1>3 DEF Next, Step, Begin, Pick, Audit, Reschedule, End, Fails, Restart, DayPasses, vars
  <2>2. save[s].at = "write"
    BY <2>1 DEF Upsert
  <2>3. save[s].key = Licence /\ db'[Licence] = Submitted(save[s].body[Licence])
    BY <1>3, <2>1, UpsertWrites DEF TypeOK, Keys
  <2>4. save[s].body[Licence] \in Tokens \cup {Cleared}
    BY <2>2, <2>3, CurrentKey, ConfigAssumption
  <2>5. save[s].body[Licence] # Cleared
    <3> SUFFICES ASSUME save[s].body[Licence] = Cleared PROVE FALSE
      OBVIOUS
    <3>1. InForce(Licence)' = None
      BY <2>3 DEF InForce, Submitted
    <3> QED
      BY <3>1, ConfigAssumption DEF Supporter, ValidToday
  <2> QED
    BY <2>2, <2>3, <2>4, <2>5
<1> QED
  BY <1>2, <1>3

\* Neither a withdrawal, nor a restart, nor the calendar raises the edition, whatever the
\* environment holds (LicenseService.clear).
THEOREM WithdrawnStaysWithdrawn == Spec => OnlyAKeyUpgrades
<1>1. Init => TypeOK
  BY InitTypes
<1>2. TypeOK /\ [Next]_vars => TypeOK'
  BY NextTypes
<1>3. TypeOK /\ [Next]_vars =>
        [~Supporter /\ Supporter' =>
           \E s \in Savers : save[s].at = "write" /\ save[s].key = Licence /\ save[s].body[Licence] \in Tokens]_vars
  BY UpgradeStep
<1> QED
  BY <1>1, <1>2, <1>3, PTL DEF Spec, OnlyAKeyUpgrades

--------------------------------------------------------------------------------
(* The scheduler *)

\* What a save of Job that nothing has overlapped knows.
Alone(s) ==
  /\ Busy(Job) = {s}
  /\ save[s].at = "write" /\ save[s].key = Job => save[s].loaded = db[Job]
  /\ Job \notin save[s].todo \/ (save[s].at = "audit" /\ save[s].key = Job) =>
       db[Job] = save[s].body[Job]

JobInv ==
  /\ ScheduleFollowsConfig
  /\ \A s \in Busy(Job) : save[s].alone => Alone(s)
  /\ \A s \in Savers : save[s].at = "end" => Job \notin DOMAIN save[s].body
  /\ \A s \in Savers : save[s].at = "reschedule" => Job \notin save[s].todo

\* A step of a save that goes on leaves the saves of Job as they were.
LEMMA SameBusy ==
  ASSUME NEW s \in Savers, \A t \in Savers \ {s} : save'[t] = save[t],
         save[s].at # "idle", save'[s].at # "idle", save'[s].body = save[s].body
  PROVE  Busy(Job)' = Busy(Job)
BY DEF Busy

LEMMA BeginJob ==
  ASSUME TypeOK, JobInv, NEW s \in Savers, Begin(s)
  PROVE  JobInv'
<1>1. save[s].at = "idle" /\ UNCHANGED <<db, job, skewed>>
  BY DEF Begin
<1>2. PICK body \in Bodies :
        LET overlaps == Job \in DOMAIN body /\ Busy(Job) # {}
        IN  save' = [t \in Savers |->
              IF t = s
              THEN [NoSave EXCEPT !.at = "next", !.body = body, !.todo = DOMAIN body,
                                  !.alone = ~overlaps]
              ELSE IF overlaps /\ t \in Busy(Job) THEN [save[t] EXCEPT !.alone = FALSE]
              ELSE save[t]]
  BY DEF Begin
<1> DEFINE overlaps == Job \in DOMAIN body /\ Busy(Job) # {}
<1>3. /\ save'[s].at = "next" /\ save'[s].body = body /\ save'[s].todo = DOMAIN body
      /\ save'[s].alone = ~overlaps
  BY <1>2 DEF NoSave
<1>4. \A t \in Savers \ {s} : IF overlaps /\ t \in Busy(Job)
                             THEN save'[t] = [save[t] EXCEPT !.alone = FALSE]
                             ELSE save'[t] = save[t]
  BY <1>2
<1>5. \A t \in Savers \ {s} : /\ save'[t].at = save[t].at /\ save'[t].body = save[t].body
                             /\ save'[t].todo = save[t].todo
  BY <1>4 DEF TypeOK, Saves
<1>10. \A t \in Savers \ {s} : save'[t].alone => save[t].alone /\ save'[t] = save[t]
  BY <1>4 DEF TypeOK, Saves
<1>6. s \notin Busy(Job) /\ Busy(Job)' = Busy(Job) \cup (IF Job \in DOMAIN body THEN {s} ELSE {})
  <2>1. s \notin Busy(Job) /\ (s \in Busy(Job)' <=> Job \in DOMAIN body)
    BY <1>1, <1>3 DEF Busy
  <2>2. ASSUME NEW t \in Savers \ {s} PROVE t \in Busy(Job)' <=> t \in Busy(Job)
    <3>1. save'[t].at = save[t].at /\ save'[t].body = save[t].body
      BY <1>5
    <3> QED
      BY <3>1 DEF Busy
  <2>3. Busy(Job) \subseteq Savers /\ Busy(Job)' \subseteq Savers
    BY DEF Busy
  <2> QED
    BY <2>1, <2>2, <2>3
<1>7. ScheduleFollowsConfig'
  BY <1>1, <1>6 DEF JobInv, ScheduleFollowsConfig, InForce
<1>8. ASSUME NEW t \in Busy(Job)', save'[t].alone PROVE Alone(t)'
  <2>1. CASE t = s
    <3>1. Job \in DOMAIN body /\ Busy(Job)' = {s}
      BY <1>3, <1>6, <1>8, <2>1
    <3> QED
      BY <1>3, <2>1, <3>1 DEF Alone
  <2>2. CASE t # s
    <3>1. t \in Busy(Job) /\ t \in Savers
      BY <1>6, <2>2 DEF Busy
    <3>2. ~overlaps /\ save'[t] = save[t] /\ save[t].alone
      BY <1>4, <1>8, <1>10, <2>2, <3>1 DEF TypeOK, Saves
    <3>3. Alone(t) /\ Busy(Job)' = Busy(Job)
      BY <1>6, <3>1, <3>2 DEF JobInv
    <3> QED
      BY <1>1, <3>2, <3>3 DEF Alone
  <2> QED
    BY <2>1, <2>2
<1>9. ASSUME NEW t \in Savers
      PROVE  /\ save'[t].at = "end" => Job \notin DOMAIN save'[t].body
             /\ save'[t].at = "reschedule" => Job \notin save'[t].todo
  <2>1. CASE t = s
    BY <1>3, <2>1
  <2>2. CASE t # s
    <3>1. /\ save'[t].at = save[t].at /\ save'[t].body = save[t].body
          /\ save'[t].todo = save[t].todo
      BY <1>5, <2>2
    <3> QED
      BY <3>1 DEF JobInv
  <2> QED
    BY <2>1, <2>2
<1> QED
  BY <1>7, <1>8, <1>9 DEF JobInv

LEMMA PickJob ==
  ASSUME TypeOK, JobInv, NEW s \in Savers, Pick(s)
  PROVE  JobInv'
<1>1. PICK k \in save[s].todo :
        save' = [save EXCEPT ![s].at = "write", ![s].key = k, ![s].loaded = db[k]]
  BY DEF Pick
<1>2. save[s].at = "next" /\ UNCHANGED <<db, job, skewed>>
  BY DEF Pick
<1>3. /\ save'[s].at = "write" /\ save'[s].key = k /\ save'[s].loaded = db[k]
      /\ save'[s].body = save[s].body /\ save'[s].todo = save[s].todo
      /\ save'[s].alone = save[s].alone
      /\ \A t \in Savers \ {s} : save'[t] = save[t]
  BY <1>1 DEF TypeOK, Saves
<1>4. Busy(Job)' = Busy(Job)
  BY <1>2, <1>3, SameBusy
<1>5. \A t \in Busy(Job)' : save'[t].alone => Alone(t)'
  BY <1>2, <1>3, <1>4 DEF JobInv, Alone, Busy
<1> QED
  BY <1>2, <1>3, <1>4, <1>5 DEF JobInv, ScheduleFollowsConfig, InForce

LEMMA UpsertJob ==
  ASSUME TypeOK, JobInv, NEW s \in Savers, Upsert(s)
  PROVE  JobInv'
<1> DEFINE k == save[s].key
<1>1. /\ save[s].at = "write" /\ save' = [save EXCEPT ![s].at = "audit"]
      /\ UNCHANGED <<job, skewed>>
  BY DEF Upsert
<1>2. /\ save'[s].at = "audit" /\ save'[s].key = k /\ save'[s].body = save[s].body
      /\ save'[s].todo = save[s].todo /\ save'[s].alone = save[s].alone
      /\ \A t \in Savers \ {s} : save'[t] = save[t]
  BY <1>1 DEF TypeOK, Saves
<1>3. Busy(Job)' = Busy(Job)
  BY <1>1, <1>2, SameBusy
<1>4. k \in DOMAIN save[s].body /\ save[s].body \in Bodies
  BY <1>1, CurrentKey
<1>5. CASE k # Job
  <2>1. db'[Job] = db[Job]
    BY <1>5, UpsertWrites DEF TypeOK, Keys
  <2>2. InForce(Job)' = InForce(Job)
    BY <2>1, ConfigAssumption DEF InForce
  <2>3. \A t \in Busy(Job)' : save'[t].alone => Alone(t)'
    BY <1>1, <1>2, <1>3, <1>5, <2>1 DEF JobInv, Alone, Busy
  <2> QED
    BY <1>1, <1>2, <1>3, <2>2, <2>3 DEF JobInv, ScheduleFollowsConfig
<1>6. CASE k = Job
  <2>1. s \in Busy(Job)
    BY <1>1, <1>4, <1>6 DEF Busy
  <2>2. save[s].body[Job] \in Values /\ Submitted(save[s].body[Job]) = save[s].body[Job]
    BY <1>4, <1>6, ConfigAssumption DEF Submitted
  <2>3. ASSUME save[s].alone PROVE db'[Job] = save[s].body[Job]
    <3>1. save[s].loaded = db[Job]
      BY <1>1, <1>6, <2>1, <2>3 DEF JobInv, Alone
    <3>2. CASE db' = [db EXCEPT ![Job] = save[s].body[Job]]
      BY <3>2 DEF TypeOK, Keys
    <3>3. CASE db' # [db EXCEPT ![Job] = save[s].body[Job]]
      BY <1>6, <2>2, <3>1, <3>3 DEF Upsert, Written, Differs
    <3> QED
      BY <3>2, <3>3
  <2>4. ASSUME NEW t \in Busy(Job)', save'[t].alone PROVE Alone(t)'
    <3>1. t \in Savers /\ t \in Busy(Job) /\ save[t].alone
      BY <1>2, <1>3, <2>4 DEF Busy
    <3>2. Busy(Job) = {t} /\ t = s
      BY <2>1, <3>1 DEF JobInv, Alone
    <3> QED
      BY <1>2, <1>3, <2>3, <3>1, <3>2 DEF Alone
  <2> QED
    BY <1>1, <1>2, <1>3, <2>1, <2>4 DEF JobInv, ScheduleFollowsConfig
<1> QED
  BY <1>5, <1>6

LEMMA AuditJob ==
  ASSUME TypeOK, JobInv, NEW s \in Savers, Audit(s)
  PROVE  JobInv'
<1> DEFINE rest == save[s].todo \ {save[s].key}
           at == IF rest # {} THEN "next"
                 ELSE IF Job \in DOMAIN save[s].body THEN "reschedule" ELSE "end"
<1>1. /\ save[s].at = "audit" /\ UNCHANGED <<db, job, skewed>>
      /\ save' = [save EXCEPT ![s].todo = rest, ![s].key = None, ![s].loaded = None, ![s].at = at]
  BY DEF Audit
<1>2. /\ save'[s].at = at /\ save'[s].body = save[s].body /\ save'[s].todo = rest
      /\ save'[s].alone = save[s].alone
      /\ \A t \in Savers \ {s} : save'[t] = save[t]
  BY <1>1 DEF TypeOK, Saves
<1>3. /\ at \in {"next", "reschedule", "end"} /\ (at # "next" => rest = {})
      /\ (at = "end" => Job \notin DOMAIN save[s].body)
  OBVIOUS
<1>4. Busy(Job)' = Busy(Job)
  BY <1>1, <1>2, <1>3, SameBusy
<1>5. Job \notin rest => Job \notin save[s].todo \/ save[s].key = Job
  OBVIOUS
<1> HIDE DEF at, rest
<1>6. ASSUME NEW t \in Busy(Job)', save'[t].alone PROVE Alone(t)'
  <2>1. t \in Savers /\ Alone(t)
    BY <1>2, <1>4, <1>6 DEF JobInv, Busy
  <2>2. CASE t = s
    BY <1>1, <1>2, <1>3, <1>4, <1>5, <2>1, <2>2 DEF Alone
  <2>3. CASE t # s
    BY <1>1, <1>2, <1>4, <2>1, <2>3 DEF Alone
  <2> QED
    BY <2>2, <2>3
<1> QED
  BY <1>1, <1>2, <1>3, <1>4, <1>6 DEF JobInv, ScheduleFollowsConfig, InForce

LEMMA EndedJob ==
  ASSUME TypeOK, JobInv, NEW s \in Savers, save' = [save EXCEPT ![s] = NoSave], db' = db,
         \/ UNCHANGED <<job, skewed>> /\ Job \notin DOMAIN save[s].body
         \/ skewed'
         \/ job' = InForce(Job)
  PROVE  JobInv'
<1>1. save'[s] = NoSave /\ \A t \in Savers \ {s} : save'[t] = save[t]
  BY DEF TypeOK
<1>2. NoSave.at = "idle"
  BY DEF NoSave
<1>3. Busy(Job)' = Busy(Job) \ {s}
  BY <1>1, <1>2 DEF Busy
<1>4. ScheduleFollowsConfig'
  <2>1. Job \notin DOMAIN save[s].body => s \notin Busy(Job)
    BY DEF Busy
  <2> QED
    BY <1>3, <2>1 DEF JobInv, ScheduleFollowsConfig, InForce
<1>5. ASSUME NEW t \in Busy(Job)', save'[t].alone PROVE Alone(t)'
  <2>1. t \in Savers /\ t # s /\ t \in Busy(Job)
    BY <1>3, <1>5 DEF Busy
  <2>2. Alone(t)
    BY <1>1, <1>5, <2>1 DEF JobInv
  <2>3. Busy(Job)' = Busy(Job)
    BY <1>3, <2>1, <2>2 DEF Alone
  <2> QED
    BY <1>1, <2>1, <2>2, <2>3 DEF Alone
<1> QED
  BY <1>1, <1>2, <1>4, <1>5 DEF JobInv

LEMMA NextJob ==
  ASSUME TypeOK, JobInv, [Next]_vars
  PROVE  JobInv'
<1>1. ASSUME NEW s \in Savers, Begin(s) PROVE JobInv'
  BY <1>1, BeginJob
<1>2. ASSUME NEW s \in Savers, Pick(s) PROVE JobInv'
  BY <1>2, PickJob
<1>3. ASSUME NEW s \in Savers, Upsert(s) PROVE JobInv'
  BY <1>3, UpsertJob
<1>4. ASSUME NEW s \in Savers, Audit(s) PROVE JobInv'
  BY <1>4, AuditJob
<1>5. ASSUME NEW s \in Savers, Reschedule(s) PROVE JobInv'
  <2>1. /\ save[s].at = "reschedule" /\ job' = save[s].body[Job] /\ skewed' = ~save[s].alone
        /\ save' = [save EXCEPT ![s] = NoSave] /\ db' = db
    BY <1>5 DEF Reschedule
  <2>2. CASE save[s].alone
    <3>1. Job \in DOMAIN save[s].body /\ save[s] \in Saves
      BY <2>1 DEF TypeOK, InItsBody
    <3>2. s \in Busy(Job) /\ Job \notin save[s].todo
      BY <2>1, <3>1 DEF Busy, JobInv
    <3>3. db[Job] = save[s].body[Job]
      BY <2>2, <3>2 DEF JobInv, Alone
    <3>4. save[s].body[Job] \in Values
      BY <3>1, ConfigAssumption DEF Saves, NoBody
    <3>5. InForce(Job) = save[s].body[Job]
      BY <3>3, <3>4, ConfigAssumption DEF InForce
    <3> QED
      BY <2>1, <3>5, EndedJob
  <2>3. CASE ~save[s].alone
    BY <2>1, <2>3, EndedJob
  <2> QED
    BY <2>2, <2>3
<1>6. ASSUME NEW s \in Savers, End(s) PROVE JobInv'
  <2>1. Job \notin DOMAIN save[s].body
    BY <1>6 DEF End, JobInv
  <2> QED
    BY <1>6, <2>1, EndedJob DEF End
<1>7. ASSUME NEW s \in Savers, Fails(s) PROVE JobInv'
  <2>1. CASE Job \in DOMAIN save[s].body
    BY <1>7, <2>1, EndedJob DEF Fails
  <2>2. CASE Job \notin DOMAIN save[s].body
    BY <1>7, <2>2, EndedJob DEF Fails, TypeOK
  <2> QED
    BY <2>1, <2>2
<1>8. CASE Restart
  <2>1. /\ job' = InForce(Job) /\ db' = db
        /\ \A s \in Savers : save'[s].at = "idle"
    BY <1>8 DEF Restart, StartsWith, NoSave
  <2>2. Busy(Job)' = {}
    BY <2>1 DEF Busy
  <2> QED
    BY <2>1, <2>2 DEF JobInv, ScheduleFollowsConfig, InForce
<1>9. CASE DayPasses
  BY <1>9 DEF DayPasses, JobInv, ScheduleFollowsConfig, InForce, Busy, Alone
<1>10. CASE UNCHANGED vars
  BY <1>10 DEF vars, JobInv, ScheduleFollowsConfig, InForce, Busy, Alone
<1> QED
  BY <1>1, <1>2, <1>3, <1>4, <1>5, <1>6, <1>7, <1>8, <1>9, <1>10 DEF Next, Step

LEMMA InitJob == Init => JobInv
<1> SUFFICES ASSUME Init PROVE JobInv
  OBVIOUS
<1>1. \A s \in Savers : save[s].at = "idle"
  BY DEF Init, NoSave
<1>2. Busy(Job) = {}
  BY <1>1 DEF Busy
<1>3. job = InForce(Job)
  BY ConfigAssumption DEF Init, InForce, Keys
<1> QED
  BY <1>1, <1>2, <1>3 DEF JobInv, ScheduleFollowsConfig

\* Between saves the scheduler runs with the value in force, unless saves of it have
\* overlapped or died (update_config, update_retention, lifespan).
THEOREM SchedulerFollows == Spec => []ScheduleFollowsConfig
<1>1. Init => TypeOK /\ JobInv
  BY InitTypes, InitJob
<1>2. TypeOK /\ JobInv /\ [Next]_vars => (TypeOK /\ JobInv)'
  BY NextTypes, NextJob
<1>3. JobInv => ScheduleFollowsConfig
  BY DEF JobInv
<1> QED
  BY <1>1, <1>2, <1>3, PTL DEF Spec
================================================================================

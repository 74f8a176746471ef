------------------------------ MODULE ConfigStore ------------------------------
(***************************************************************************)
(* The settings kept in the table runtime_config: the saves of the console  *)
(* and of the engine, their lines in the audit log, the scheduler that      *)
(* follows one of them, and the licence (services/runtime_config.py,        *)
(* services/license_service.py, domain/licensing.py, api/routes/config.py,  *)
(* automations.py, license.py and glpi.py).                                 *)
(*                                                                          *)
(* A save of several keys is a COMMIT for each value and another for its    *)
(* line in the audit log.  Saves run in threads; a row is loaded first, and *)
(* written only if it is new or its value differs from the one loaded.      *)
(***************************************************************************)
EXTENDS Naturals, FiniteSets

CONSTANTS
  Job,        \* the setting the scheduler follows (an interval or an hour)
  Licence,    \* license_key
  Plain,      \* the other plain settings
  Silent,     \* telemetry of the engine: poll_last_*, automation_purge_last_*
  Secrets,    \* keys stored encrypted
  Values,     \* values of the settings
  Tokens,     \* signed licences
  Env,        \* value of each setting in the environment
  Expiry,     \* last day of each licence
  Bodies,     \* what may be submitted: the keys of a save and their values; Cleared
              \* stands for the withdrawal of the licence
  None,       \* no value
  Absent,     \* no row
  Empty,      \* the empty string
  Cleared,    \* CLEARED_SENTINEL
  Mask,       \* AUDIT_MASK
  Savers,     \* slots for concurrent saves
  MaxSaves, LastDay   \* bounds on the saves and on the calendar

Keys == {Job, Licence} \cup Plain \cup Silent \cup Secrets

\* What a row may hold.
Stored == Values \cup Tokens \cup {Empty, Cleared}

ASSUME ConfigAssumption ==
  /\ Values \cap Tokens = {}
  /\ {None, Absent, Empty, Cleared, Mask} \cap (Values \cup Tokens) = {}
  /\ Env \in [Keys -> Values \cup Tokens \cup {None}]
  /\ Expiry \in [Tokens -> Nat]
  /\ \A body \in Bodies : /\ DOMAIN body \subseteq Keys
                          /\ \A k \in DOMAIN body : body[k] \in Stored
                          /\ Job \in DOMAIN body => body[Job] \in Values
                          /\ Licence \in DOMAIN body => body[Licence] \in Tokens \cup {Cleared}
  /\ Job # Licence /\ {Job, Licence} \cap Secrets = {}
  /\ {MaxSaves, LastDay} \subseteq Nat

VARIABLES
  db,        \* the row of each key
  traced,    \* values that the audit log names as new, for each key
  job,       \* what the scheduler runs with
  save,      \* the saves under way
  today, saves,
  owed,      \* history: keys whose line was lost with the save that owed it
  skewed     \* history: saves of Job have overlapped or died since the last that went well

vars == <<db, traced, job, save, today, saves, owed, skewed>>

--------------------------------------------------------------------------------
(* Reading *)

\* get and get_secret: the row, else the environment; a licence withdrawn has none.
InForce(k) ==
  IF k = Licence /\ db[k] = Cleared THEN None
  ELSE IF db[k] \in {Absent, Empty} THEN Env[k] ELSE db[k]

\* verify_license: a signature, and a last day not passed.
ValidToday(token) == token \in Tokens /\ today <= Expiry[token]

Supporter == ValidToday(InForce(Licence))

NoBody == [k \in {} |-> None]

NoSave == [at |-> "idle", body |-> NoBody, todo |-> {}, key |-> None, loaded |-> None, alone |-> TRUE]

\* The saves under way: `todo` are the keys left, `key` the current one and `loaded` its
\* row as read, `alone` tells that no other save of Job has overlapped.
Saves == [at : {"idle", "next", "write", "audit", "reschedule", "end"},
          body : Bodies \cup {NoBody}, todo : SUBSET Keys, key : Keys \cup {None},
          loaded : Stored \cup {Absent, None}, alone : BOOLEAN]

Init ==
  /\ db = [k \in Keys |-> Absent]
  /\ traced = [k \in Keys |-> {}]
  /\ job = Env[Job]
  /\ save = [s \in Savers |-> NoSave]
  /\ today = 1 /\ saves = 0
  /\ owed = {} /\ skewed = FALSE

Busy(k) == {s \in Savers : save[s].at # "idle" /\ k \in DOMAIN save[s].body}

--------------------------------------------------------------------------------
(* Saving *)

\* The routes: POST /config, PATCH /automations/retention, POST /glpi/reset, POST and
\* DELETE /license, and record_last_run.  A licence that is not valid is not stored.
Begin(s) ==
  /\ save[s].at = "idle" /\ saves < MaxSaves
  /\ saves' = saves + 1
  /\ \E body \in Bodies :
       /\ Licence \in DOMAIN body => body[Licence] = Cleared \/ ValidToday(body[Licence])
       /\ LET overlaps == Job \in DOMAIN body /\ Busy(Job) # {}
          IN  save' = [t \in Savers |->
                IF t = s
                THEN [NoSave EXCEPT !.at = "next", !.body = body, !.todo = DOMAIN body,
                                    !.alone = ~overlaps]
                ELSE IF overlaps /\ t \in Busy(Job) THEN [save[t] EXCEPT !.alone = FALSE]
                ELSE save[t]]
  /\ UNCHANGED <<db, traced, job, today, owed, skewed>>

\* The plain keys in any order, the secrets after them; the whole table is loaded anew
\* for each, as every COMMIT throws the copy away.
Pick(s) ==
  /\ save[s].at = "next"
  /\ \E k \in save[s].todo :
       /\ k \in Secrets => save[s].todo \subseteq Secrets
       /\ save' = [save EXCEPT ![s].at = "write", ![s].key = k, ![s].loaded = db[k]]
  /\ UNCHANGED <<db, traced, job, today, saves, owed, skewed>>

\* Mutant: the licence is withdrawn as any other setting is reset.
ClearedAsEmpty(value) == IF value = Cleared THEN Empty ELSE value

\* LicenseService.clear writes the sentinel itself.
Submitted(value) == value

\* A new token is encrypted anew, so that it always differs from the one loaded.
Differs(k, value, loaded) == value # loaded \/ (k \in Secrets /\ value # Empty)

Written(s) ==
  LET k == save[s].key
      value == Submitted(save[s].body[k])
  IN  IF save[s].loaded = Absent \/ Differs(k, value, save[s].loaded)
      THEN [db EXCEPT ![k] = value] ELSE db

\* _upsert.
Upsert(s) ==
  /\ save[s].at = "write"
  /\ save[s].loaded = Absent => db[save[s].key] = Absent
  /\ db' = Written(s)
  /\ save' = [save EXCEPT ![s].at = "audit"]
  /\ UNCHANGED <<traced, job, today, saves, owed, skewed>>

\* Mutant: the prefix stands for every setting of the purge.
SilentPurge(k) == k \in Silent \cup {Job}

\* AUDIT_SILENT_PREFIXES.
IsSilent(k) == k \in Silent

\* What the audit log shows of a value.
Shown(k, value) ==
  IF k \in Secrets \cup {Licence}
  THEN IF value \in {Empty, Cleared} THEN Empty ELSE Mask
  ELSE value

\* _audit, then the next key.
Audit(s) ==
  /\ save[s].at = "audit"
  /\ LET k == save[s].key
         rest == save[s].todo \ {k}
     IN  /\ traced' = IF IsSilent(k) THEN traced
                      ELSE [traced EXCEPT ![k] = @ \cup {Shown(k, Submitted(save[s].body[k]))}]
         /\ save' = [save EXCEPT ![s].todo = rest, ![s].key = None, ![s].loaded = None,
                       ![s].at = IF rest # {} THEN "next"
                                 ELSE IF Job \in DOMAIN save[s].body THEN "reschedule" ELSE "end"]
  /\ UNCHANGED <<db, job, today, saves, owed, skewed>>

\* reschedule_job, once every key is saved.
Reschedule(s) ==
  /\ save[s].at = "reschedule"
  /\ job' = save[s].body[Job]
  /\ skewed' = ~save[s].alone
  /\ save' = [save EXCEPT ![s] = NoSave]
  /\ UNCHANGED <<db, traced, today, saves, owed>>

End(s) ==
  /\ save[s].at = "end"
  /\ save' = [save EXCEPT ![s] = NoSave]
  /\ UNCHANGED <<db, traced, job, today, saves, owed, skewed>>

\* The line a save owes for a value it has committed.
Owes(s) == IF save[s].at = "audit" THEN {save[s].key} ELSE {}

\* The request ends on an error of the database (two first saves of one key collide on
\* the primary key): what is committed stays, the rest is not saved.
Fails(s) ==
  /\ save[s].at # "idle"
  /\ owed' = owed \cup Owes(s)
  /\ skewed' = (skewed \/ Job \in DOMAIN save[s].body)
  /\ save' = [save EXCEPT ![s] = NoSave]
  /\ UNCHANGED <<db, traced, job, today, saves>>

\* Mutant: the scheduler starts with the environment.
StartsWithEnv == Env[Job]

\* lifespan: the scheduler is created from the configuration.
StartsWith == InForce(Job)

\* The process is killed and starts again.
Restart ==
  /\ owed' = owed \cup UNION {Owes(s) : s \in Savers}
  /\ job' = StartsWith
  /\ skewed' = FALSE
  /\ save' = [s \in Savers |-> NoSave]
  /\ UNCHANGED <<db, traced, today, saves>>

DayPasses ==
  /\ today < LastDay
  /\ today' = today + 1
  /\ UNCHANGED <<db, traced, job, save, saves, owed, skewed>>

Step(s) == Begin(s) \/ Pick(s) \/ Upsert(s) \/ Audit(s) \/ Reschedule(s) \/ End(s) \/ Fails(s)

Next == (\E s \in Savers : Step(s)) \/ Restart \/ DayPasses

Spec == Init /\ [][Next]_vars

--------------------------------------------------------------------------------
(* Properties *)

\* A save works on keys it was given.
InItsBody(c) ==
  /\ c.todo \subseteq DOMAIN c.body
  /\ c.at \in {"write", "audit"} => c.key \in DOMAIN c.body
  /\ c.at = "reschedule" => Job \in DOMAIN c.body

\* Type correctness.
TypeOK ==
  /\ db \in [Keys -> Stored \cup {Absent}]
  /\ traced \in [Keys -> SUBSET (Stored \cup {Mask})]
  /\ job \in Stored \cup {None}
  /\ save \in [Savers -> Saves]
  /\ \A s \in Savers : InItsBody(save[s])
  /\ today \in Nat /\ saves \in Nat
  /\ owed \subseteq Keys /\ skewed \in BOOLEAN

\* Whatever saves overlap, the value of every setting an administrator may change is
\* named by a line of the audit log (masked when it is sensitive), unless the save that
\* owes the line is about to write it or ended before it (_audit: no path forgets).
ValuesAreTraced ==
  \A k \in Keys \ Silent :
    db[k] # Absent =>
      \/ Shown(k, db[k]) \in traced[k]
      \/ k \in owed
      \/ \E s \in Savers : save[s].at = "audit" /\ save[s].key = k

\* Between saves, and across restarts, the scheduler runs with the value in force, unless
\* two saves of that value have overlapped or one of them died (update_config, lifespan).
ScheduleFollowsConfig ==
  Busy(Job) = {} /\ ~skewed => job = InForce(Job)

\* The edition rises to Supporter only when a valid key is saved: neither a withdrawal,
\* nor a restart, nor the passing of days brings back the key of the environment
\* (LicenseService.clear, get).
OnlyAKeyUpgrades ==
  [][~Supporter /\ Supporter' =>
       \E s \in Savers : save[s].at = "write" /\ save[s].key = Licence /\ save[s].body[Licence] \in Tokens]_vars
================================================================================

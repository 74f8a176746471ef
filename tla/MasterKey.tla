------------------------------ MODULE MasterKey ------------------------------
(***************************************************************************)
(* The key that encrypts the secrets of the configuration: where a process *)
(* takes it from when it starts, when it may generate one, and whether the *)
(* secrets written by one start are still readable after the next.         *)
(*                                                                         *)
(* Two processes share the key file and the table: the engine, which       *)
(* builds a secrets box twice while it starts (for the session secret in   *)
(* create_app, for the configuration in lifespan), and the command line    *)
(* that sets the administrator's password, which runs in the engine's      *)
(* container and dies with it.                                             *)
(***************************************************************************)
EXTENDS Naturals, FiniteSets

CONSTANTS
  Secrets,      \* names of the secrets, SECRET_KEYS
  AdminHash,    \* the secret the command line writes, HASH_KEY
  Keys,         \* Fernet keys
  NoKey,        \* no key: MASTER_KEY is empty, the file is missing, the value is ''
  Torn,         \* content of a key file whose writing was cut short
  Attempts,     \* ESSAIS_BASE
  MaxFaults     \* bound on the faults of a behaviour (not in the code)

ASSUME MasterKeyAssumption ==
  /\ AdminHash \in Secrets
  /\ NoKey \notin Keys
  /\ Torn \notin Keys
  /\ Torn # NoKey
  /\ Attempts \in Nat \ {0}
  /\ MaxFaults \in Nat

Engine == "engine"
Cli == "cli"
Procs == {Engine, Cli}

(***************************************************************************)
(* "off"; "resolve", "ask", "write" and "flush" are the steps of           *)
(* _load_or_create_key; "create" and "config" are what the engine does     *)
(* after its first and its second box; "up".                               *)
(***************************************************************************)
PCs == {"off", "resolve", "ask", "write", "flush", "create", "config", "up"}

VARIABLES
  envKey,    \* MASTER_KEY of the container
  allow,     \* ITSM_ALLOW_NEW_MASTER_KEY of the container
  keyFile,   \* data/master.key
  saved,     \* the operator's copy of the last key file he lost
  rows,      \* for each secret the key its row is encrypted with
  dbUp,      \* PostgreSQL answers
  pc,        \* where each process is
  box,       \* the key of each process' secrets box; its draft while it generates one
  asked,     \* attempts at asking the database
  stage,     \* which box the engine builds: 1 in create_app, 2 in lifespan
  sess,      \* key the session secret is derived from, NoKey when it is ephemeral
  faults,    \* faults so far
  waived     \* history: the code does not answer for the secrets any more

files == <<keyFile, saved>>
settings == <<envKey, allow>>
procs == <<pc, box, asked, stage, sess>>
vars == <<settings, files, rows, dbUp, procs, faults, waived>>

TypeOK ==
  /\ envKey \in Keys \cup {NoKey}
  /\ allow \in BOOLEAN
  /\ keyFile \in Keys \cup {NoKey, Torn}
  /\ saved \in Keys \cup {NoKey}
  /\ rows \in [Secrets -> Keys \cup {NoKey}]
  /\ dbUp \in BOOLEAN
  /\ pc \in [Procs -> PCs]
  /\ pc[Cli] \notin {"create", "config"}
  /\ box \in [Procs -> Keys \cup {NoKey}]
  /\ asked \in [Procs -> 0..(Attempts - 1)]
  /\ stage \in {1, 2}
  /\ sess \in Keys \cup {NoKey}
  /\ faults \in 0..MaxFaults
  /\ waived \in BOOLEAN

Init ==
  /\ envKey \in Keys \cup {NoKey}
  /\ allow = FALSE
  /\ keyFile = NoKey
  /\ saved = NoKey
  /\ rows = [s \in Secrets |-> NoKey]
  /\ dbUp = TRUE
  /\ pc = [p \in Procs |-> "off"]
  /\ box = [p \in Procs |-> NoKey]
  /\ asked = [p \in Procs |-> 0]
  /\ stage = 1
  /\ sess = NoKey
  /\ faults = 0
  /\ waived = FALSE

-----------------------------------------------------------------------------

\* has_encrypted_secrets: SELECT 1 ... WHERE is_secret AND value <> ''.
HasSecrets == \E s \in Secrets : rows[s] # NoKey

\* What _load_or_create_key takes before it thinks of generating a key.
Source == IF envKey # NoKey THEN envKey ELSE keyFile

\* Some secret cannot be read with the key a start would take.
Disagrees == Source \in Keys /\ \E s \in Secrets : rows[s] \notin {NoKey, Source}

Fault ==
  /\ faults < MaxFaults
  /\ faults' = faults + 1

Goto(p, place) == pc' = [pc EXCEPT ![p] = place]

\* A process ends; the container, and the command line in it, end with the engine.
Ended(p) == [q \in Procs |-> IF p \in {q, Engine} THEN "off" ELSE pc[q]]

Exit(p) ==
  /\ pc' = Ended(p)
  /\ box' = [q \in Procs |-> IF Ended(p)[q] = "off" THEN NoKey ELSE box[q]]
  /\ asked' = [q \in Procs |-> IF Ended(p)[q] = "off" THEN 0 ELSE asked[q]]
  /\ UNCHANGED <<stage, sess>>

\* Where a process goes on once it has its box.
AfterBox(p) == CASE p = Cli                 -> "up"
                 [] p = Engine /\ stage = 1 -> "create"
                 [] p = Engine /\ stage = 2 -> "config"

GotKey(p, k) ==
  /\ Goto(p, AfterBox(p))
  /\ box' = [box EXCEPT ![p] = k]
  /\ asked' = [asked EXCEPT ![p] = 0]
  /\ sess' = IF p = Engine /\ stage = 1 THEN k ELSE sess
  /\ UNCHANGED stage

(***************************************************************************)
(* Building the box raises something else than the guard's own errors.     *)
(* create_app falls back on an ephemeral session secret and goes on;       *)
(* lifespan and the command line let it out.                               *)
(***************************************************************************)
BoxFails(p) ==
  \/ /\ p = Engine /\ stage = 1
     /\ Goto(p, "create")
     /\ box' = [box EXCEPT ![p] = NoKey]
     /\ asked' = [asked EXCEPT ![p] = 0]
     /\ sess' = NoKey
     /\ UNCHANGED stage
  \/ /\ p = Cli \/ stage = 2
     /\ Exit(p)

-----------------------------------------------------------------------------
(* Starting *)

Boot ==
  /\ pc[Engine] = "off"
  /\ Goto(Engine, "resolve")
  /\ stage' = 1
  /\ sess' = NoKey
  /\ UNCHANGED <<settings, files, rows, dbUp, box, asked, faults, waived>>

\* docker compose exec itsm python -m itsm_modern_ai.admin_setup --force
StartCli ==
  /\ pc[Engine] # "off" /\ pc[Cli] = "off"
  /\ Goto(Cli, "resolve")
  /\ UNCHANGED <<settings, files, rows, dbUp, box, asked, stage, sess, faults, waived>>

\* MASTER_KEY is set, or the file exists and holds a key.
FindKey(p) ==
  /\ pc[p] = "resolve"
  /\ Source \in Keys
  /\ GotKey(p, Source)
  /\ UNCHANGED <<settings, files, rows, dbUp, faults, waived>>

\* The file exists and Fernet refuses what it holds.
FindTornKey(p) ==
  /\ pc[p] = "resolve"
  /\ Source = Torn
  /\ BoxFails(p)
  /\ UNCHANGED <<settings, files, rows, dbUp, faults, waived>>

FindNoKey(p) ==
  /\ pc[p] = "resolve"
  /\ Source = NoKey
  /\ Goto(p, IF allow THEN "write" ELSE "ask")
  /\ UNCHANGED <<settings, files, rows, dbUp, box, asked, stage, sess, faults, waived>>

\* Mutant: `is not None` for `is True`.
GuardRefusesAnyAnswer(p) ==
  /\ pc[p] = "ask" /\ dbUp
  /\ Exit(p)
  /\ UNCHANGED <<settings, files, rows, dbUp, faults, waived>>

\* True: MasterKeyLostError, which create_app raises again.
GuardRefuses(p) ==
  /\ pc[p] = "ask" /\ dbUp
  /\ HasSecrets
  /\ Exit(p)
  /\ UNCHANGED <<settings, files, rows, dbUp, faults, waived>>

\* False: nothing to lose.
GuardAgrees(p) ==
  /\ pc[p] = "ask" /\ dbUp
  /\ ~HasSecrets
  /\ Goto(p, "write")
  /\ UNCHANGED <<settings, files, rows, dbUp, box, asked, stage, sess, faults, waived>>

(***************************************************************************)
(* The server answers with another error than an operational one: None, or *)
(* False for any ProgrammingError. The key is generated.                   *)
(***************************************************************************)
GuardIsMisled(p) ==
  /\ pc[p] = "ask" /\ dbUp
  /\ Fault
  /\ Goto(p, "write")
  /\ waived' = (waived \/ HasSecrets)
  /\ UNCHANGED <<settings, files, rows, dbUp, box, asked, stage, sess>>

\* Mutant: `essai <= ESSAIS_BASE` after the increment, one attempt too many.
GuardAsksOnceMore(p) ==
  /\ pc[p] = "ask" /\ ~dbUp
  /\ \/ /\ asked[p] + 1 <= Attempts
        /\ asked' = [asked EXCEPT ![p] = @ + 1]
        /\ UNCHANGED <<pc, box, stage, sess>>
     \/ /\ asked[p] + 1 > Attempts
        /\ Exit(p)
  /\ UNCHANGED <<settings, files, rows, dbUp, faults, waived>>

\* Mutant: no answer is None, hence no reason to refuse (the guard fails open).
GuardFailsOpen(p) ==
  /\ pc[p] = "ask" /\ ~dbUp
  /\ \/ /\ asked[p] + 1 < Attempts
        /\ asked' = [asked EXCEPT ![p] = @ + 1]
        /\ UNCHANGED <<pc, box, stage, sess>>
     \/ /\ asked[p] + 1 >= Attempts
        /\ Goto(p, "write")
        /\ UNCHANGED <<box, asked, stage, sess>>
  /\ UNCHANGED <<settings, files, rows, dbUp, faults, waived>>

\* BaseInjoignableError: another attempt, then MasterKeyUndeterminedError.
GuardGetsNoAnswer(p) ==
  /\ pc[p] = "ask" /\ ~dbUp
  /\ \/ /\ asked[p] + 1 < Attempts
        /\ asked' = [asked EXCEPT ![p] = @ + 1]
        /\ UNCHANGED <<pc, box, stage, sess>>
     \/ /\ asked[p] + 1 >= Attempts
        /\ Exit(p)
  /\ UNCHANGED <<settings, files, rows, dbUp, faults, waived>>

(***************************************************************************)
(* generate_key, and write_bytes in its two steps: the file is emptied,    *)
(* then written. A key found nowhere stands for one never seen. The        *)
(* code does not answer for what another process of the container, or an   *)
(* operator who allowed it, loses by it.                                   *)
(***************************************************************************)
Fresh == Keys \ ({envKey, keyFile, saved}
                   \cup {rows[s] : s \in Secrets} \cup {box[p] : p \in Procs} \cup {sess})

OpenKeyFile(p) ==
  /\ pc[p] = "write"
  /\ \E k \in Fresh : box' = [box EXCEPT ![p] = k]
  /\ keyFile' = Torn
  /\ Goto(p, "flush")
  /\ waived' = (waived \/ (allow /\ HasSecrets) \/ \E q \in Procs \ {p} : pc[q] # "off")
  /\ UNCHANGED <<settings, saved, rows, dbUp, asked, stage, sess, faults>>

\* The directory or the file cannot be created.
OpenFails(p) ==
  /\ pc[p] = "write"
  /\ Fault
  /\ BoxFails(p)
  /\ UNCHANGED <<settings, files, rows, dbUp, waived>>

\* Mutant: the key is generated once for the box and once for the file.
FlushAnotherKey(p) ==
  /\ pc[p] = "flush"
  /\ keyFile' \in Fresh
  /\ GotKey(p, box[p])
  /\ UNCHANGED <<settings, saved, rows, dbUp, faults, waived>>

FlushKeyFile(p) ==
  /\ pc[p] = "flush"
  /\ keyFile' = box[p]
  /\ GotKey(p, box[p])
  /\ UNCHANGED <<settings, saved, rows, dbUp, faults, waived>>

\* The write fails, or the chmod after it.
KeyFileFails(p) ==
  /\ pc[p] = "flush"
  /\ Fault
  /\ keyFile' \in {keyFile, box[p]}
  /\ BoxFails(p)
  /\ UNCHANGED <<settings, saved, rows, dbUp, waived>>

\* lifespan: create_all, before the second box.
CreateTables ==
  /\ pc[Engine] = "create" /\ dbUp
  /\ Goto(Engine, "resolve")
  /\ box' = [box EXCEPT ![Engine] = NoKey]
  /\ stage' = 2
  /\ UNCHANGED <<settings, files, rows, dbUp, asked, sess, faults, waived>>

\* lifespan: the intervals are read from the configuration.
ReadConfig ==
  /\ pc[Engine] = "config" /\ dbUp
  /\ Goto(Engine, "up")
  /\ UNCHANGED <<settings, files, rows, dbUp, box, asked, stage, sess, faults, waived>>

StartFails ==
  /\ pc[Engine] \in {"create", "config"} /\ ~dbUp
  /\ Exit(Engine)
  /\ UNCHANGED <<settings, files, rows, dbUp, faults, waived>>

-----------------------------------------------------------------------------
(* Running *)

\* POST /api/config, the account's set-up and the change of its password.
SetSecret(s) ==
  /\ pc[Engine] = "up" /\ dbUp
  /\ rows' = [rows EXCEPT ![s] = box[Engine]]
  /\ UNCHANGED <<settings, files, dbUp, procs, faults, waived>>

\* The sentinel of POST /api/config, POST /api/glpi/reset.
ClearSecret(s) ==
  /\ pc[Engine] = "up" /\ dbUp
  /\ s # AdminHash
  /\ rows' = [rows EXCEPT ![s] = NoKey]
  /\ UNCHANGED <<settings, files, dbUp, procs, faults, waived>>

CliSetsPassword ==
  /\ pc[Cli] = "up" /\ dbUp
  /\ rows' = [rows EXCEPT ![AdminHash] = box[Cli]]
  /\ Exit(Cli)
  /\ UNCHANGED <<settings, files, dbUp, faults, waived>>

\* --check, a refused password, a database that does not answer.
CliGivesUp ==
  /\ pc[Cli] = "up"
  /\ Exit(Cli)
  /\ UNCHANGED <<settings, files, rows, dbUp, faults, waived>>

\* The container is killed or stopped.
Stop ==
  /\ pc[Engine] # "off"
  /\ Fault
  /\ Exit(Engine)
  /\ UNCHANGED <<settings, files, rows, dbUp, waived>>

-----------------------------------------------------------------------------
(* The database server and the operator *)

DbStops ==
  /\ dbUp
  /\ Fault
  /\ dbUp' = FALSE
  /\ UNCHANGED <<settings, files, rows, procs, waived>>

DbReturns ==
  /\ ~dbUp
  /\ dbUp' = TRUE
  /\ UNCHANGED <<settings, files, rows, procs, faults, waived>>

\* No process is starting: the operator moves the key file between starts only.
Quiet == \A p \in Procs : pc[p] \in {"off", "up"}

LoseKeyFile ==
  /\ Quiet
  /\ keyFile # NoKey
  /\ Fault
  /\ keyFile' = NoKey
  /\ saved' = IF keyFile \in Keys THEN keyFile ELSE saved
  /\ UNCHANGED <<settings, rows, dbUp, procs, waived>>

\* First remedy of MasterKeyLostError. The copy may be of another key than the rows'.
RestoreKeyFile ==
  /\ Quiet
  /\ keyFile = NoKey /\ saved # NoKey
  /\ keyFile' = saved
  /\ UNCHANGED <<settings, saved, rows, dbUp, procs, faults>>
  /\ waived' = (waived \/ Disagrees')

\* .env is edited, which a container sees when it is created again.
EditEnv ==
  /\ pc[Engine] = "off"
  /\ Fault
  /\ \/ envKey' \in (Keys \cup {NoKey}) \ {envKey} /\ UNCHANGED allow
     \/ allow' = ~allow /\ UNCHANGED envKey
  /\ UNCHANGED <<files, rows, dbUp, procs>>
  /\ waived' = (waived \/ Disagrees')

-----------------------------------------------------------------------------

Resolve(p) ==
  \/ FindKey(p) \/ FindTornKey(p) \/ FindNoKey(p)
  \/ GuardRefuses(p) \/ GuardAgrees(p) \/ GuardIsMisled(p) \/ GuardGetsNoAnswer(p)
  \/ OpenKeyFile(p) \/ OpenFails(p) \/ FlushKeyFile(p) \/ KeyFileFails(p)

EngineStarts == Boot \/ Resolve(Engine) \/ CreateTables \/ ReadConfig \/ StartFails

Next ==
  \/ EngineStarts
  \/ StartCli \/ Resolve(Cli) \/ CliSetsPassword \/ CliGivesUp
  \/ \E s \in Secrets : SetSecret(s) \/ ClearSecret(s)
  \/ Stop \/ DbStops \/ DbReturns
  \/ LoseKeyFile \/ RestoreKeyFile \/ EditEnv

Spec == Init /\ [][Next]_vars

\* Docker starts the engine again whenever it ends (restart: unless-stopped).
FairSpec == Spec /\ WF_vars(EngineStarts)

-----------------------------------------------------------------------------
(* Properties *)

(***************************************************************************)
(* A process that runs reads every secret there is: whatever was lost,     *)
(* restored, cut short or unreachable before, a start either finds the key *)
(* of the rows or is refused. The exceptions, which set `waived`, are a    *)
(* MASTER_KEY or a key file that the operator replaces by another,         *)
(* ITSM_ALLOW_NEW_MASTER_KEY, an unexpected answer of the database to the  *)
(* guard, and a key generated while another process of the container runs. *)
(***************************************************************************)
SecretsStayReadable ==
  ~waived => \A p \in Procs : pc[p] = "up" =>
               \A s \in Secrets : rows[s] \in {NoKey, box[p]}

(***************************************************************************)
(* The session secret of a running engine is derived from the key of its   *)
(* secrets, although the two boxes are built apart and the key may be      *)
(* generated in between; else it is the ephemeral one.                     *)
(***************************************************************************)
SessionsFollowTheKey ==
  ~waived /\ pc[Engine] = "up" => sess \in {NoKey, box[Engine]}

\* A key is at hand, or there is nothing to lose.
Startable == dbUp /\ (Source \in Keys \/ (Source = NoKey /\ ~HasSecrets))

(***************************************************************************)
(* A refused start leaves nothing behind that refuses the next ones: once  *)
(* the database is back, and the key is, the engine comes up by itself.    *)
(***************************************************************************)
EngineComesUp == <>[]Startable => <>[](pc[Engine] = "up")
=============================================================================

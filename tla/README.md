# Formal models of the ITSM Modern AI triage engine

The engine polls GLPI for new tickets, asks an LLM for a classification and a draft
answer, lets deterministic guardrails accept or refuse that proposal, and writes the
result on the ticket. It runs unattended, against three services that fail on their own
(PostgreSQL, GLPI, the LLM provider), and a mistake is visible to the requester or is paid
for. This directory holds TLA+ models of it, their TLC configurations, and theorems checked
by TLAPS. Paths are those of the repository; `PROJECT.json` ("map") gives for each definition
the lines it stands for.

## 1. The system

| Component | State it keeps | Operations | Modelled by |
|---|---|---|---|
| Polling cycle, idempotency (`scheduler/poller.py`, `persistence/idempotency.py`) | rows of `processed_tickets` (reserved, then marked), tries in memory (`_attempts`), failures of the database in the cycle | poll_once, claim, mark, release | `TriagePoller`, `TicketLedger` |
| Triage handler (`services/triage.py`) | locals of one ticket, the trace of its LLM calls | handle, `_call_llm`, `_persist_outcome` | `TriagePoller` (control and failures), `Guardrails` (decisions), `CostCap` (spending) |
| Guardrails and modes (`domain/whitelist.py`, `engine.py`, `modes.py`) | none | check, evaluate, effective_assignment, resolve_action | `Guardrails` |
| Referentials, absences, entity rows (`services/referentials.py`, `absences.py` and routes) | `referential_cache`, `technician_absence` | scan of GLPI, scope, eligibility, modes, absences, interim, routing prose | `ReferentialSync`; `Guardrails` (what a cycle does with them) |
| Cost cap and retention (`services/cost_cap.py`, `retention.py`, `api/routes/sandbox.py`, `llm.py`, `automations.py`) | `llm_calls` | is_over_cap, journal of calls, purge | `CostCap`; `Journal`, `ReferentialSync` (the other purges); `ConfigStore` (the schedule) |
| GLPI connectors (`adapters/itsm/glpi`, and `v2`) | none of their own | search, apply, assign_actor, add_followup, referentials | actions of `TriagePoller`, `Guardrails`, `ReferentialSync` |
| GLPI sessions (`client.py` of both) | session token, OAuth token and its expiry | init, kill, renewal | the legacy session: `ReferentialSync` |
| LLM adapters (`adapters/llm`) | none | complete, parsing of the answer | seen as a call that answers, fails or raises |
| Masking, prompting (`domain/masking.py`, `prompting.py`) | none | passes over a text | not modelled |
| Configuration store (`services/runtime_config.py`, `api/routes/config.py`) | `runtime_config`, `audit_log`, a cache per request | set, set_secret, audited writes, reschedule | `ConfigStore`; `Guardrails` and `MasterKey` for its readers |
| Admin account and sessions (`api/routes/auth.py`, `security.py`, `admin_setup.py`) | three rows of `runtime_config`, cookies at the clients | setup, login, logout, rotation, command line | `AdminAccess` |
| Login limiter (`api/ratelimit.py`) | table of failures in memory | check, record_failure, reset, sweep, eviction | `LoginLimiter` |
| Master key (`adapters/secrets/encrypted.py`, `persistence/db.py`) | key file, encrypted rows | start-up guard, generation of a key, `set_secret` | `MasterKey` |
| Assembly and scheduler (`api/app.py`, `api/runtime.py`) | poll lock, captured settings, jobs | poll job, purge job, manual trigger | fairness and captured settings of the modules above |
| Journal and exports (`persistence/journal.py`, routes) | `decisions`, `llm_calls` | record, annotate, purge, CSV by pages | `Journal` |
| Backup (`backup.py`) | folders of archives | count, dump, verify, copy the key, clean up | `Backup` |
| Licensing (`domain/licensing.py`, `services/license_service.py`) | one row of `runtime_config` | save, withdraw, verify | `ConfigStore` |
| Health, metrics, HTTP plumbing, console, migrations | none the engine depends on | pure functions, reads, scripts | not modelled |

How they interact:

- The scheduler triggers a cycle. The cycle **builds** a triage service (settings are
  captured there), **loads** the effective referentials, reads a window of new tickets, and
  awaits the handler on each ticket, one at a time. `poll_lock` and `max_instances=1` leave
  one cycle at most.
- Everything else is concurrent with it. Sandbox and provider test run on the same event loop
  and interleave at each `await`; the console's synchronous routes run in threads and may
  commit between any two steps of the cycle.
- GLPI, the database and the provider are called one after the other, with no transaction
  across them. The process may be killed between two calls, and only GLPI and the database
  survive.
- A request of the console loads the table it needs once, works on that copy until it
  writes, and each write is a COMMIT of its own after which the copy is read again. SQLAlchemy
  writes the columns whose value differs from the one loaded. Most races of
  `AdminAccess`, `ConfigStore` and `ReferentialSync` come from these two rules.
- The command lines (`admin_setup.py`, `backup.py`) are processes of their own beside the
  engine, on the same database and files.

What is hard, and what correctness means there:

| Hazard | Property |
|---|---|
| GLPI write and database mark are not atomic | one answer at most per ticket (`AtMostOneFollowup`, `LedgerSpec`); every write under a committed reservation (`WritesAreReserved`) |
| every failure path releases, marks or leaves the reservation | no ticket is marked that was not triaged (`ConsumedMeansTriaged`), none is left aside for ever (`TicketIsConcluded`, `CycleEnds`) |
| retries inside retries | a bounded bill (`BillIsBounded`), and deferrals by the cost cap use up no try (`TriesMatchBill`) |
| a V2 application in two calls, the second of which fails | mutations are journalled (`MutationIsAudited`), no public answer on a half-applied decision (`FollowupTellsTheTruth`, `EntryMatchesTicket`) |
| three ages of the configuration in one cycle | actors were permitted (`AssignedWasPermitted`), mutations authorised (`MutationIsAuthorised`), refused decisions never classify (`OnlyAcceptedClassifies`) |
| the cap is checked before a call whose cost is written after | bounded overshoot (`OvershootIsBounded`), books that match the bill (`EngineBooksItsCalls`), purges the cap cannot feel (`PurgeKeepsSpend`) |
| a start that finds no key, or half of one, and a database that may not answer | no key is made over secrets (`SecretsStayReadable`), the two boxes of a start agree (`SessionsFollowTheKey`), refusing is not final (`EngineComesUp`) |
| an account of three rows without a transaction over them | claimed once (`AccountIsClaimedOnce`), never without an address (`AccountHasAddress`), old sessions end with the old password (`SessionsFollowThePassword`) |
| a bounded table whose keys the clients choose | it forgets no block (`BlockIsKept`) and its sweeping is not observable (`LimiterIsExact`) |
| a backup of a database in use | announced means restorable (`ReportedIsRestorable`, `ReportedHasItsKey`), and nobody removes another's (`FoldersAreOwned`) |
| saves that overlap, each from a copy of the rows | every value is traced (`ValuesAreTraced`, `ModesAreTraced`), one fallback target (`OneFallback`), the scheduler follows (`ScheduleFollowsConfig`), no edition comes back by itself (`OnlyAKeyUpgrades`) |
| a scan and a cycle beside these saves | the scan undoes none and closes its session (`ScanOnlyConfirms`, `SessionsAreClosed`), the LLM is told of those who may be assigned (`RoutingFollowsWhitelist`) |
| an export that lasts, of a table written and purged meanwhile | complete and without repetition (`ExportIsComplete`), and what is erased stays so (`PurgedStaysPurged`) |

`PROJECT.json` ("hazards") lists them one by one at their lines.

## 2. Modules

### TriagePoller, an implementation of TicketLedger

`TriagePoller` is one asyncio task, seen as a program counter `pc` over the steps of
`TriagePoller._run_cycle` and of `TriageService.handle`; each call to the database, to GLPI or
to the provider is a step of its own and has a failing variant.

| State | In the code |
|---|---|
| `queue`, `followups`, `mutations` | GLPI: status "New", follow-ups posted, writes to fields and actors |
| `row` | `processed_tickets`: none, claimed (bears the date of its claim), done (its status) |
| `audit` | what the journal says of a mutation: nothing, an entry, an entry that could not be written |
| `attempts` | module-level `_attempts` |
| `todo`, `cur`, `scope`, `handler`, `dbFailures`, `call` | locals of the cycle and of the handler |
| `billed`, `faults` | history of the paid calls; bound on the failures |

`StartCycle` to `ClaimFails` are the loop of the cycle; `RulesAlreadyApplied` to `RecordFails`
are the handler and `_persist_outcome`; `ConsumeTicket` to `TicketRaisedNoHandler` are what
the cycle does with the outcome or the exception. `CrashAndRestart` loses the memory and
keeps GLPI and the database. `TicketArrives` and `TicketLeaves` are GLPI's users. A failed
COMMIT may have been applied (`SetRowFails`), and with `LostAcks` so may a failed GLPI write.

`TicketLedger` is what the engine promises of a ticket, seen from outside: open, in flight,
settled or orphan, and answered once at most, only in flight. `LedgerSpec` is the refinement.

### Guardrails

The trust boundary between the LLM and GLPI, for the current ticket of a cycle. `Check`,
`Evaluate`, `EffectiveAssignment`, `Assignee`, `Applies`, `ModeForEntity` and
`FallbackForEntity` are the pure functions, in the order of their tests. The console edits
eligibility, scope, absences, the entity's row and the defaults (one commit per key) between
any two steps of the cycle, which works on what it captured (`service`), what it loaded
(`refs`) and what it reads late (`entity`). `effective_referentials` is the four SELECTs it is:
absences, categories, technicians, groups, each seeing the commits made so far.
`permitted`, `modesSeen` and `authorities` are history: what the administrator's configuration
allowed so far; `left` and `joined` are those who went on leave and those who became eligible since
the first of the SELECTs. Who did both may be loaded although no whitelist in force ever held him
(finding 9); `AssignedWasPermitted` names these actors and no others.

### CostCap

`llm_calls` as the cost of its rows by age, the cap and its clients: the engine, sandboxes and
provider tests, each with the settings it captured. The engine and the sandbox make up to
`Retries + 1` calls after one check. The engine's service is built in two sessions, `BuildLlm` for the
provider that will be called and `BuildService` for cap and tariffs, with a choice each: the console may
save another provider in between, and what is charged is then not what is booked (`owed`). `EngineBooksItsCalls` says
in which of the two directions, and only then. `Tick` ages the rows, `Purge` deletes those older than
the retention, `SaveCap` changes the cap under way.

### MasterKey

The key file, `MASTER_KEY` and, for each secret, the key its row is encrypted with; two
processes start beside them. The engine builds a box twice, in `create_app` for the session
secret (any error but the guard's own leaves an ephemeral one) and in `lifespan` for the
configuration, after `create_all`; the command line of `admin_setup.py` builds a third, in
the engine's container. `pc` walks through `_load_or_create_key`: resolve the key, ask the
database whether there are secrets (a few attempts), empty the file, write it. The container
may be killed at each step, the database come and go, the file be lost and restored.

- A fresh key is one that occurs nowhere in the state. Four `Keys` are enough for there to be
  one in every state that asks for it: a table under one key, an environment with another, a
  copy put aside, and the next.
- `Boot` is the start of the container: the wait and the migrations of `docker/entrypoint.sh`
  come before the first box, and the database may stop right after them.
- `waived` is history, set by the four things the code does not answer for: an operator who
  puts another key in place of the rows' (`RestoreKeyFile`, `EditEnv`) or sets
  `ITSM_ALLOW_NEW_MASTER_KEY` on top of secrets; an unexpected answer of the database to the
  guard, which the code takes for "nothing to lose" (`db.py:104-109`); a key generated while
  another process of the container runs.
- The operator moves the key file between starts only (`Quiet`), and `.env` is read when the
  container is created again.

### AdminAccess

The single account: `db` has its three rows (hash, address or none, generation of the
sessions), `cookies` every cookie issued with its generation and, as history, the password it
was opened with. Requests and runs of the command line are slots that walk through
`set_admin_password`, `login`, `logout` and `change_password`; `ReadRows` is the
copy a request takes of the table, thrown away by each COMMIT (`Goto`). The slow Argon2 check lies between
`LoginVerifies` and `LoginOpensSession`, hence the session carries the generation that was read
with the hash. `Fail` ends a request between two of its writes, by an error or a kill, and
`broken` records what that left: `SessionsFollowThePassword` and `AccountHasAddress` name these
cases one by one rather than exclude crashes. An overlapped `bump_session_version` sets
"generation": the slower of two bumps puts an earlier generation back.

### LoginLimiter

`entries` is the table `_entries`, at its bound `MaxEntries`, with the amortised sweep (`ops`,
`saturated`) and the evictions (`Evictions`: the entry with the fewest failures, then
the oldest). A request asks, verifies, then records or clears one or two keys, each call under
the lock with a reading of the clock taken before it. `ideal` is the abstract
limiter, which keeps every failure for ever; `LimiterIsExact` says the table cannot be told from
it for the keys that were never evicted or refused a place (`lost`).

### Backup

A command counts the rows table by table, makes a folder named by the second, dumps (one snapshot, or
half an archive when `pg_dump` fails), reads the archive again, compares (`Passes`) and copies the
key file, or announces that there is none. The engine fills and empties tables meanwhile; `Secrets`
is the table that holds encrypted values, written by a process that has the key in memory (`engineKey`):
that of `MASTER_KEY` (`envKey`), beside which an older file may lie ("other"), or that of `keyFile`,
which an engine with neither makes in two steps and which may be lost under it (`LoseKeyFile`). `Kill`
leaves a folder whose owner is `NoRun`; `Restart` ends the commands too, since they run in the container.
`reported` are the folders announced with exit code 0, with or without the key: `ReportedHasItsKey` says
which reasons there may be for an announced backup without the key that reads its secrets.

### ReferentialSync

The cache of the referentials (`dated`, `chosen`, `settings`), the absences, and those who use
them. A scan of GLPI makes one request per kind inside one session, then a SELECT and a COMMIT; the answer to
its opening or to its close may be lost (`ScanStartLost`), and the session stays open. Up to two saves
of the console each work on what they loaded (`Fallback` and `Changed` write the columns that
differ, `before` is the first of the two reads of the audit); the line of the audit names the values as `Repr` puts them,
which drops the technician of a row that also has a group. A cycle reads the routing prose SELECT by
SELECT, then the effective scope in the same way: `TellsOf` is `_fiche`, which says nothing of an actor
without a sheet (`Sheets`: those with domains or a prose) who replaces nobody. `moved`, `raced`, `cut` and `leaked`
are history: the actors whose own eligibility or absences changed since the cycle began to read, overlapping saves of an entity, a save
that died before its audit line, an opening or a close whose answer was lost.

### ConfigStore

`runtime_config` as the row of each key, absent, empty or set, over the environment (`InForce`);
the audit log as the values it names (`traced`, masked for secrets); the scheduler's job. A save of
several keys loads the table, writes one row, writes its audit line, and goes on: two COMMITs per key,
plain keys before secrets, and the job is rescheduled at the end. `Job` stands for
`polling_interval_seconds` or `automation_purge_hour_utc`, `Licence` for `license_key` with its
sentinel of withdrawal, `Silent` for the telemetry the engine writes without an audit line.
`Restart` reads the job's value again and drops the saves under way.

### Journal

One of the two tables of the journal. A line is dated when built, numbered when inserted, seen when
committed (`Build`, `Insert`, `Commit`), so that the orders of dates, ids and visibility
differ. `ExportReads` is one turn of `_pages_antechronologiques`, a page after the
cursor `(ts, id)`; between two turns lines are written, annotated (`llm_calls` has no annotation:
its behaviours are those without one) and purged. `due` is history: the
lines that were there at the first page and have not been purged.

Composition: `TriagePoller`, `Guardrails` and `CostCap` meet at the handler. What `TriagePoller`
calls `CostCapReached` or an accepted verdict is a nondeterministic outcome there; `CostCap` and
`Guardrails` say when each may happen. `Guardrails` edits scope and modes in one step where
`ReferentialSync` shows the steps of a save, and `MasterKey` has the encryption that
`ConfigStore` takes as a token that differs at each write.

## 3. Runs

| Run | Question | Distinct states |
|---|---|---|
| `poller_safety` | V2 connector, two tickets and a window of one, crashes, any scope: single answer, bill, tries, consumption, journal of mutations, reservations, refinement of the ledger, and the inductive invariants of the proofs | 1 453 116 |
| `poller_liveness` | legacy connector with lost answers, a ticket that rules handle, with and without a key: cycles end, new tickets are concluded, under the scheduler's fairness | 81 020 |
| `poller_read_fault` | expected to fail: the finding of section 4 | |
| `guardrails` | two configuration edits anywhere in a cycle, V2 connector, seven kinds of decision, a whitelist loaded SELECT by SELECT | 1 204 506 |
| `costcap` | engine, one sandbox, one test, cap and provider edited, between the two sessions of a build too, purges, crashes | 3 786 424 |
| `masterkey` | engine and command line, two secrets, a key file that is lost, restored or torn, a database that stops | 271 524 |
| `adminaccess` | two requests of any kind, command line included, two passwords, failures after any COMMIT | 1 546 537 |
| `loginlimiter` | two threads, four keys, a table of two | 5 147 195 |
| `backup` | two commands, two seconds, two tables, key in the environment or in a file, two faults (a lost file and a restart among them) | 7 313 998 |
| `referentialsync` | a scan, a save and a change of GLPI beside a cycle; three saves of any sort, two at a time, beside a cycle read SELECT by SELECT | 800 187 |
| `configstore` | four saves, two at a time, of one to two keys, restarts, licences that expire | 1 723 268 |
| `journal` | two writers, an annotation, a purge and an export over three lines | 1 534 472 |

Bounds, and why they are enough:

- Two tickets: one cycle works on one ticket at a time, and a second one suffices for the
  order of the window, for the breaker (`MaxDbFailures = 2`, 3 in the code) and for a window
  smaller than the queue (`MaxTickets = 1` in `poller_safety`). Tickets are numbers since the
  window is ordered, so there is no symmetry to use.
- `MaxFaults` = 2 or 3 failures in a behaviour (failures of a call other than the LLM's,
  deferrals by the cap and crashes): enough for "answer posted, crash, failed read", and for a
  failing mark after a failing follow-up. LLM failures are not counted, the retries bound them.
- `Retries = 1`, `MaxAttempts = 2` (3 in the code): a first call, a retry, a last try.
- `MaxEdits = 2`: one edit between two ages of the configuration, another after it. Two
  technicians, one of them possibly out of scope, a group and a category.
- `Day = 1`, `Horizon = 2`, `MaxOld = 1`: rows in the window, at its edge, and beyond it. The
  cost of the rows beyond is cut off: nothing but the purge looks at them.
- Caps 1 and 2 with costs 1: reached by the first call, by the second, and raised or lowered
  in between.
- Two secrets, one that the command line writes and one that only the engine does; three
  faults: the file is lost, a process dies while it writes another, the database stops.
  `Attempts = 2` (5 in the code): one attempt that is repeated and one that is the last.
- `adminaccess`: two requests overlap in every way a COMMIT allows; three would add no shared
  row. `MaxGen = 2`: one revocation that overtakes another.
- `loginlimiter`: a table of two for four keys is full, evicts, and refuses a place; a window of 1, a
  block of 2 and a sweep every second call make each happen before, at and after the others.
- `backup`: one second shared by both commands and one of its own, one table with secrets and one without.
- `referentialsync` starts from two caches that scans and saves have filled. In the first a technician is
  new in GLPI, and a scan, a save and a change of GLPI are left to come; a page of 1 truncates. In the second all are
  known and eligible, and three saves are left. Each list of absences is valid, and those of two saves make a chain. One
  technician has a sheet and the other has none, so that he is described only while he replaces the first. The saves are those
  of technicians and groups (`SavedKinds`): those of categories and entities choose rows no property of the run looks at.
- `configstore`: one key of each sort, two values, a licence in the environment and two to save, of which one expires.
- `journal`: pages of two over three lines: a full page, a partial one, an empty one, with dates
  equal across the boundary; three days and a retention of one.

The theorems drop these bounds.

Fairness: `FairSpec` is weak fairness of `PollerStep`, the steps of the task. The poll job is
an interval trigger with `max_instances=1` and `coalesce=True` (`api/app.py:189-197`), so that
a cycle is started again as long as the process runs, and an asyncio task that is not blocked
is resumed; all calls have time-outs, hence each ends or fails. Nothing is assumed of GLPI's
users, of the console, or of failures, except that a behaviour has finitely many of them: a
provider or a database that is down for ever concludes no ticket. Polling paused for ever
is left out for the same reason.

`FairSpec` of `MasterKey` is weak fairness of `EngineStarts`, the steps of a start: Docker starts
the container again whenever it ends (`restart: unless-stopped`, `docker-compose.yml:12`), and a
start is one thread whose waits are bounded. The database returning, and the operator, are not
fair: `EngineComesUp` says what follows once they have done their part.

Deadlock is checked in all runs but `referentialsync` and `configstore`, whose bounds on saves and days
run out: elsewhere somebody can always act.

The safety modules without a fairness condition state what may never happen; their requests and
commands may stop at any step.

## 4. Findings and divergences

One disagreement between a text of the repository and its code is a run that TLC finds violated:

1. `poller_read_fault`: the read of `is_processed` is inside the `try` of the ticket. When it
   raises, the `except` path releases the row, whatever it was: a marked or interrupted ticket
   is answered a second time. `tables.py:68` says it is never processed again.

The others have no run of their own; a change to the configuration or the property named shows each.

2. `poller_safety.cfg` with `HandlerChoices = {FALSE}`, `ConsumedMeansTriaged`: without an LLM key a cycle
   marks the tickets of its window as processed. The log says "lecture seule" (`app.py:93`); the tickets are
   never triaged, even once there is a key.
3. `guardrails.cfg` with `MaxEdits = 0`, invariant `EntryNamesAssignee`: the journal stores the ids the LLM
   proposed, GLPI gets the filtered ones; `triage.py:576` says the two do not diverge.
4. `guardrails.cfg` with `MaxEdits = 1`, property `FallbackIsRevalidated`: the fallback target is validated
   against the referentials of the start of the cycle; `docs/modes.md:31` says it is at the time of
   the write.
5. `guardrails.cfg` with `DefaultChoices <- TwoDefaults`, invariant `SuggestionNeverMutates`: an entity that is in
   `suggestion` at any time of a cycle can be changed by it, old default and new entity row
   being combined.
6. `costcap.cfg` with `Tests = {}` and `BillsChoices = {TRUE}`, `RequestsAreBooked`: a simulation whose calls all fail
   leaves no row in `llm_calls`, though failed calls are charged (`triage.py:488`).
7. `adminaccess.cfg` with `MaxGen = 3`, property `RevokedStaysRevoked`: `bump_session_version` is read, add, write
   without a lock; of two that overlap, the slower can put back a generation that was over, and its
   cookies are accepted again, though `runtime_config.py:380` says that all cookies issued become invalid.
8. `referentialsync.cfg`, an invariant without the exception of `raced`: two saves that overlap leave a group and
   a technician as fallback; `referentials.py:169` says "au plus UNE des deux".
9. `guardrails.cfg`, invariant `AssignedWasPermitted` without `left \cap joined`: the absences are read, then somebody
   who is not eligible is sent on leave, then made eligible, then the technicians are read
   (`services/referentials.py:229-236`): he is assigned although no whitelist in force ever held him.
10. `costcap.cfg`, `EngineBooksItsCalls` with `owed = 0`: the provider is saved between the two sessions of
    `build_triage_service` (`runtime.py:79-81` and `132-210`), and a cycle's paid calls are booked at zero, or the free ones at a
    price. The cap does not see the former: `OvershootIsBounded` bounds what `llm_calls` says.
11. `backup.cfg`, `ReportedHasItsKey` without "lost": the file was lost under a running engine, and the
    message (`backup.py:284-289`) says that the key comes from the environment; nowhere else is the key of that
    archive. Without "other": `MASTER_KEY` is set, an older file lies beside it, and the command copies and
    announces it as the key.
12. `referentialsync.cfg`, `ModesAreTraced` with the row itself for its `Repr`: overlapping saves leave a group and a
    technician (finding 8), and the line that is written for them names the group alone.

Read in the code: a logout with a cookie of an earlier generation revokes the sessions too, while
`auth.py:231` says that the bearer of a stale cookie revokes nothing; audit lines of saves that
overlap may be in another order than the values they name.

Also read in the code: `sandbox.py:68-69` books simulations with the default tariffs on
a local provider too, so that the engine may reach its cap on spending that does not exist;
`runtime.py:196-203` and `llm.py:119-122` set the tariffs to zero there for that very reason.

## 5. Theorems

For every value of the constants that meets the modules' assumptions, unless one is named.

| Module | Theorem | Assumption |
|---|---|---|
| `TriagePollerProofs` | `TypeCorrect`; `AnsweredRowInvariant`, `NoSecondAnswer`: a ticket gets one follow-up at most; `EveryWriteIsReserved`; `PollerImplementsLedger` | `~ReadFaults` but for the types |
| | `EveryMutationIsAudited`: what was changed is marked with its line in the journal | `~ReadFaults`, `~LostAcks` |
| | `BillInvariant`, `TriesArePaid`, `BillBound`; `NothingIsConsumedUntriaged` | `~ReadFaults`; the last also `HandlerChoices = {TRUE}` |
| `GuardrailsProofs` | `TypeCorrect`, `OnlyPermittedActorsAreAssigned`, `RefusedIsNotClassified`, `FollowupIsTrue`, `JournalIsTrue`; `EveryMutationIsAuthorised` | the last: `FixedDefaults` |
| `CostCapProofs` | `TypeCorrect`, `EngineBooks`, `PurgeKeepsTheSum`, `OvershootHolds` | |
| | `Journal`: `JournalTypeCorrect`, `PurgedLinesStayPurged`, `ExportsAreComplete` | |
| `MasterKeyProofs` | `TypesHold`, `SecretsHold`, `SessionsHold` | |
| `AdminAccessProofs` | `TypeCorrect`, `AccountClaimedOnce`, `AddressIsKept`, `SessionsAreRevoked` | |
| | `LoginLimiter`: `LimiterTypeCorrect`, `BlocksAreKept`, `LimiterExact` | |
| `ConfigStoreProofs` | `TypeCorrect`, `SettingsAreTraced`, `WithdrawnStaysWithdrawn`, `SchedulerFollows` | |
| `BackupProofs` | `TypeCorrect`, `OwnFoldersOnly`, `AnnouncedIsRestorable`, `AnnouncedHasItsKey` | |
| `ReferentialSyncProofs` | `TypeCorrect`, `ModesTraced`, `OneFallbackHolds`, `RoutingHolds`, `SessionsClosed`, `ScanConfirms` | |

`~ReadFaults`, `HandlerChoices` and `FixedDefaults` exclude findings 1, 2 and 5, and `~LostAcks` the hazard at
`triage.py:598`: without them the statements are false. `Journal` and `LoginLimiter` are proved in the
proof module of the component they stand beside (the table behind the sum the cap is compared with, the
door of the account), hence their own names for the specification (`JournalSpec`, `LimiterSpec`). The
assumptions of the modules bound no number from above: sizes are positive, sets of clients are
finite (`CostCap`), names that stand for "none" are no values.
The theorems of `ReferentialSync` are about `Spec`, from an empty cache; its run starts
from two later states.

The arguments:

- **One answer.** `followups[t] <= 1` is not inductive: a step that answers must know that
  nothing was answered before. `AnsweredKeepsRow` adds that a ticket in hand is reserved by
  this very cycle (`Reserved`), which verdict each point implies (`VerdictAtPoint`), that no
  point from which the ticket can be released or answered is reached after the answer
  (`NotYetAnswered`), and that an answered ticket keeps a row, so that no later cycle or
  process picks it. A crash only moves `pc` to "idle", where rows alone matter.
- **The bill.** `TriesMatchBill` relates tries used up, calls of the triage under way and
  calls paid: as long as a ticket may be picked again, `billed <= tries * (Retries + 1)`. The
  one product of two variables is confined to `CallsOf`, used through its monotony.
- **The journal of changes.** `ChangeIsKnown`: a changed ticket keeps its row, is at no point from which it
  can be released, and from the change on the handler remembers it (`call.mutated`) until the line is written.
- **The ledger.** A step maps to one of Take, Answer, Reopen, Settle, Strand or a stutter;
  `LeaveTicket` gathers the ways to leave a ticket. `AnsweredKeepsRow` gives the guards.
- **Guardrails.** `ScopeHeld`: what the cycle holds is `Passing`, that is permitted, or went on leave and
  joined the eligible since the load began. Between the SELECTs it says what each will find: who is absent now and was not
  read as such, and who is eligible and was not (`CrossingIsSeen`). `StoryHeld`: what is known
  of ticket, follow-up and journal at each point. `ModeHeld`: the authority in hand is one
  that was in force since the ticket was taken.
- **Books.** `EngineTrace` (`CostCap`): until `llm_calls` is written, the engine owes the calls of its trace at the
  provider's price. What it writes is the same calls at the tariffs of the other session, so that a difference is of the sign
  of the two choices, and none is left where they agree.
- **Purge.** It keeps each row of the window, hence the function that is summed.
- **Overshoot.** The property speaks of what is booked, but a client may have passed the cap and not have booked
  yet. `Budget` counts the allowances of such clients (`PendingSet`) on top of what is spent. A step spends nothing
  new, or spends what a pending client was allowed, or lets a client in under a cap in force (`Moves`), and
  in that last case all the clients together may add no more than their allowances. `CapInv` holds each
  client to its allowance. The sums over ages and over sets of clients are functions known by what one
  changed term does to them; the facts about them are proved from a least counterexample, since the
  induction theorems of the library cannot be used.
- **Pages.** `NumbersOK`: an id is given once, so no annotation or commit revives a purged one. `FileOK`: what is
  due and not sent comes after the cursor, and an id that was sent is `Settled`: no line that
  will be visible bears it with another date. That a page holds the first lines, each once, is that the
  ranks of finitely many lines are taken, by pigeonhole (`RanksAreTaken`, `PageOfLines`).
- **Keys.** Unless `waived`: a process that holds a key holds the one a start would take, or the
  one the operator lost and kept a copy of (`HeldIsSource`), and reads every secret with it
  (`HeldReadsAll`); the key a start would take disagrees with no row (`~Disagrees`); a key is
  written where there is none, over an empty table, by one process at a time (`OneGenerates`);
  and the session secret, from the first box to the second, is of the key at hand or ephemeral
  (`SessionIsSource`).

- **The account.** `PlacedOK`: a request past its check of the hash brings an address or saw one in the
  table, and a set-up that writes saw no hash. The hash then changes from none, or by an operation that
  `Replaces` it: a set-up that saw none and finds one now has an INSERT that conflicts. `AddressOK`: an account without an address has a
  request that brings it (`Bringing`), or one that was interrupted.
- **Sessions.** Acceptance compares generations, the property compares passwords: `SessionsOK` relates
  them. `Current`: a cookie or a login under way with the generation in force carries the password in
  force, or a request that is still to revoke covers it (`Revoking`, `Covered`), as long as no
  revocation was overtaken (`Intact`). A change of the hash makes `Covered` true, its COMMIT of the generation makes
  every cookie stale, and in between nothing else can.
- **The limiter.** That table and ideal agree now is not inductive, since the next failure is counted later:
  `Exact` says that they agree at every time from the latest reading of the clock on, which holds
  because pruning twice is pruning once (`PruneTwice`) and because readings, taken before the lock, are
  never ahead of the clock. The same fact keeps a sweep from lifting a block that still runs.
- **Settings.** `TracedInv` is stronger than the property in one place: the save about to write the line
  is the one that wrote the value in force, not merely one of the same key. A second save of the key
  either writes another value, and owes its line in turn, or leaves the row alone.
- **The scheduler.** `JobInv`: a save of the job's setting that is alone (`Alone`) has loaded the row
  in force before it writes, and the row holds its value afterwards, so that rescheduling with what it
  was given is rescheduling with what is stored; `skewed` covers those that overlapped or died.
- **The edition.** By the steps that change `InForce(Licence)`: saves, which write a valid token or the
  sentinel; a restart changes nothing and a day only expires.
- **Referentials.** `TraceIsOwed`: a save that is to write the line of an entity loaded another value than the one
  in force, so that it will not find the two reads of the audit equal and stay silent. `RoutingInv` is about one
  actor at a time: as long as his own eligibility and absences are as they were when the cycle began, what each SELECT has
  brought of him is what the tables say (`UpToDate`). An edit that is not about him leaves it (`ReadsKeep`), and the one
  that is makes him `moved`. `SeenWasThere`: what the scan has read of
  GLPI was there at some time of it.
- **Backups.** `TypeOK` says that a command past its mkdir owns its folder, so a step of one leaves the folders of
  the others alone (`OthersUntouched`) and only the stepping command and its folder need looking at
  (`OwnStepKeepsInv`). `Judges` is what is known before the announcement: what stayed filled since the count
  is among what was counted, so an archive that passes lacks none of it. `Keyed`: rows of secrets, live
  or archived, mean that the file is whole, or was lost, or that the key is the environment's (`Accounted`), and it stays so
  until the copy: no engine makes a key over secrets, and a torn file has none to read yet.

Only model-checked: `CycleEnds`, `TicketIsConcluded` and `EngineComesUp`, since liveness under fairness and
ENABLED are beyond the prover. Every safety and action property that a passing run checks is
stated by a theorem. No module declares a RECURSIVE operator.

## 6. Left out of the models, and why

- The eviction of `_attempts` beyond 10 000 tickets: the oldest entry is forgotten, and its
  ticket may be paid for again; the bill is bounded among the tickets that are remembered.
- An exception of the handler before its first LLM call (masking or the prompt, `triage.py:388-395`): it uses a try that
  costs nothing, so that `OnlyPaidTriesCount` and `TriesArePaid` are about the tries that got as far as the call.
- A paused or busy trigger, and a cycle that cannot read its inputs, change nothing: they are
  stuttering steps.
- Lost answers of GLPI in `Guardrails` and in `poller_safety`: `MutationIsAudited` is false when
  an application succeeds and its answer is lost, since the handler sees a plain failure
  (hazard at `triage.py:598`). `poller_liveness` has them, and the theorems
  of `TriagePoller` hold with them, `EveryMutationIsAudited` excepted.
- Wording of follow-ups, masking, prompts, logging, statistics of a cycle.
- In `MasterKey`: a rollback of the database (`install.sh`, with `Backup`), a `MASTER_KEY` that is
  no Fernet key (no start gets through), the derivation of the session secret from the key. A
  file whose writing was cut short stays until somebody removes it: each start fails meanwhile,
  and `EngineComesUp` leaves it out.
- In `AdminAccess`: the displayed name (a fourth row nothing depends on), the rules for a password, `dev_open_admin`
  (a development setting that opens the console), the age of a cookie.
- In `LoginLimiter`: a limiter that is switched off, and the derivation of a client's address from proxy headers.
- In `Backup`: the parsing of `pg_restore --list` and of connection strings; a disk that loses what was written; the other
  writers of secrets, keys that two processes make at a time and `ITSM_ALLOW_NEW_MASTER_KEY` (they are in `MasterKey`); an
  operator who puts a lost file back or edits `.env` (the environment is that of the container's creation).
- In `ReferentialSync`: edits of the sheets of actors (`Sheets` is a constant), pagination inside a kind beyond its limit (the truncation is there), OAuth tokens of V2, previews and search.
- In `ConfigStore`: validation of values and connection tests, which write nothing; signatures; the order of audit lines.
- In `Journal`: lists and statistics, which are single queries.
- Not modelled at all: LLM adapters, masking and prompting (functions of a text), health, status, metrics, version, privacy and
  debug pages (reads), HTTP plumbing (functions of one request), the web console (a client),
  migrations and installation (scripts run while the engine is stopped).
- That the cap lifts once a day has passed: the console may lower it again for ever.

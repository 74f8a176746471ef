---------------------------- MODULE TriagePoller ----------------------------
(***************************************************************************)
(* The polling cycle (scheduler/poller.py), the idempotency rows it keeps  *)
(* (persistence/idempotency.py) and the triage handler it awaits on each   *)
(* ticket (services/triage.py, handle), with the GLPI connectors' writes.  *)
(* One asyncio task runs the cycle; between two of its steps the process   *)
(* may be killed and the GLPI queue may change.  Every database, GLPI or   *)
(* LLM call is a step of its own, which may fail.                          *)
(***************************************************************************)
EXTENDS Integers, FiniteSets

CONSTANTS
  Tickets,           \* ticket ids
  RulesHandled,      \* tickets a GLPI rule has already categorised and assigned
  MaxTickets,        \* POLLING_MAX_TICKETS, the size of the window that is read
  Retries,           \* LLM_RETRIES, calls after the first one
  MaxAttempts,       \* MAX_TRIAGE_ATTEMPTS
  MaxDbFailures,     \* MAX_CONSECUTIVE_DB_FAILURES
  HandlerChoices,    \* subset of BOOLEAN: is an LLM key configured when a cycle starts
  ScopeChoices,      \* sets of tickets whose entity is in the admin's scope
  TwoStepApply,      \* TRUE: the GLPI V2 connector (PATCH then POST TeamMember)
  ReadFaults,        \* TRUE: the read of `is_processed` may fail
  LostAcks,          \* TRUE: a GLPI write may be applied and its answer lost
  MaxFaults,         \* bound on the failures of a behaviour (not in the code)
  NoTicket

ASSUME PollerAssumption ==
  /\ Tickets \subseteq Nat
  /\ RulesHandled \subseteq Tickets
  /\ MaxTickets \in Nat \ {0}
  /\ Retries \in Nat
  /\ MaxAttempts \in Nat \ {0}
  /\ MaxDbFailures \in Nat \ {0}
  /\ HandlerChoices \subseteq BOOLEAN
  /\ ScopeChoices \subseteq SUBSET Tickets
  /\ TwoStepApply \in BOOLEAN
  /\ ReadFaults \in BOOLEAN
  /\ LostAcks \in BOOLEAN
  /\ MaxFaults \in Nat
  /\ NoTicket \notin Tickets

VARIABLES
  \* GLPI
  queue,       \* tickets whose status is "New"
  followups,   \* [Tickets -> Nat] follow-ups posted on the ticket
  mutations,   \* [Tickets -> Nat] writes to the ticket's fields or actors
  \* database: processed_tickets and the decision journal
  row,         \* [Tickets -> RowStates]
  audit,       \* [Tickets -> AuditStates] what the journal says of the mutations
  \* the process: lost in a crash
  attempts,    \* [Tickets -> Nat] the module-level dict _attempts
  billed,      \* [Tickets -> Nat] LLM calls emitted by this process (history)
  pc,          \* where the task is
  todo,        \* tickets of the window not looked at yet
  cur,         \* the ticket being processed
  scope,       \* tickets in scope, as of the start of the cycle
  handler,     \* is the triage handler plugged in this cycle
  dbFailures,  \* local db_failures of _run_cycle
  call,        \* the handler's locals
  faults       \* failures left (bound of the model)

glpiVars == <<followups, mutations>>
cycleVars == <<scope, handler>>
vars == <<queue, followups, mutations, row, audit, attempts, billed, pc, todo,
          cur, scope, handler, dbFailures, call, faults>>

RowStates == {"none", "claimed", "done"}
AuditStates == {"none", "applied", "lost"}

\* "none": no outcome yet; "failed": LLM_ERROR or INVALID_OUTPUT.
Verdicts == {"none", "rules", "capped", "failed", "accepted", "rejected"}

\* RETRYABLE_REASONS: the triage did not take place.
Retryable == {"capped", "failed"}

\* Points of the task where it is inside `await handler(...)`.
Handling == {"handle", "llm", "journal", "mode", "apply", "team", "assign",
             "followup", "record", "settle"}

\* Points at which the current ticket is reserved by this cycle.
Owning == Handling \cup {"release", "mark"}

PCs == Owning \cup {"idle", "scan", "claim", "raise"}

Calls == [tries : Nat, verdict : Verdicts, dbError : BOOLEAN,
          mutated : BOOLEAN]

FreshCall == [tries |-> 0, verdict |-> "none", dbError |-> FALSE,
              mutated |-> FALSE]

TypeOK ==
  /\ queue \subseteq Tickets
  /\ followups \in [Tickets -> Nat]
  /\ mutations \in [Tickets -> Nat]
  /\ row \in [Tickets -> RowStates]
  /\ audit \in [Tickets -> AuditStates]
  /\ attempts \in [Tickets -> Nat]
  /\ billed \in [Tickets -> Nat]
  /\ pc \in PCs
  /\ todo \subseteq Tickets
  /\ cur \in Tickets \cup {NoTicket}
  /\ scope \subseteq Tickets
  /\ handler \in BOOLEAN
  /\ dbFailures \in Nat
  /\ call \in Calls
  /\ call.tries <= Retries
  /\ faults \in Nat

Init ==
  /\ queue = {}
  /\ followups = [t \in Tickets |-> 0]
  /\ mutations = [t \in Tickets |-> 0]
  /\ row = [t \in Tickets |-> "none"]
  /\ audit = [t \in Tickets |-> "none"]
  /\ attempts = [t \in Tickets |-> 0]
  /\ billed = [t \in Tickets |-> 0]
  /\ pc = "idle"
  /\ todo = {}
  /\ cur = NoTicket
  /\ scope = {}
  /\ handler = FALSE
  /\ dbFailures = 0
  /\ call = FreshCall
  /\ faults = MaxFaults

-----------------------------------------------------------------------------
(* Helpers                                                                 *)

Fault == faults > 0 /\ faults' = faults - 1

\* Mutant: the range of the search is one short.
WindowOneShort == {t \in queue : Cardinality({u \in queue : u < t}) + 1 < MaxTickets}

\* First MaxTickets "New" tickets, by ascending id.
Window == {t \in queue : Cardinality({u \in queue : u < t}) < MaxTickets}

Goto(point) ==
  /\ pc' = point
  /\ UNCHANGED <<todo, cur>>

\* `continue`: on to the next ticket of the window.
NextTicket ==
  /\ pc' = "scan"
  /\ cur' = NoTicket
  /\ call' = FreshCall
  /\ UNCHANGED todo

\* `return` out of _run_cycle, and the poll is over.
Finish ==
  /\ pc' = "idle"
  /\ todo' = {}
  /\ cur' = NoTicket
  /\ call' = FreshCall
  /\ dbFailures' = 0

\* db_failures becomes n; at MaxDbFailures the breaker cuts the cycle.
NextTicketUnlessTripped(n) ==
  IF n >= MaxDbFailures
  THEN Finish
  ELSE NextTicket /\ dbFailures' = n

SetRow(t, value) == row' = [row EXCEPT ![t] = value]

\* A failed COMMIT leaves the row as it was, or applied when only the answer of
\* PostgreSQL was lost.
SetRowFails(t, value) == row' \in {row, [row EXCEPT ![t] = value]}

-----------------------------------------------------------------------------
(* The cycle                                                               *)

\* A cycle whose referentials or ticket list cannot be read, or whose scope has
\* no category, or while polling is paused, ends without any effect: it is a
\* stuttering step.  poll_lock makes a second trigger a no-op as well.
StartCycle ==
  /\ pc = "idle"
  /\ Window # {}
  /\ handler' \in HandlerChoices
  /\ scope' \in ScopeChoices
  /\ todo' = Window
  /\ pc' = "scan"
  /\ UNCHANGED <<queue, glpiVars, row, audit, attempts, billed, cur, dbFailures,
                 call, faults>>

\* The tickets are taken in the order of the list, by ascending id.
Head(t) == pc = "scan" /\ t \in todo /\ \A u \in todo : t <= u

\* Out of scope: left unmarked, so that a wider scope picks it up later.
SkipOutOfScope ==
  /\ \E t \in todo : Head(t) /\ t \notin scope /\ todo' = todo \ {t}
  /\ UNCHANGED <<queue, glpiVars, row, audit, attempts, billed, pc, cur,
                 cycleVars, dbFailures, call, faults>>

\* is_processed: a row exists, claimed or not.
SkipProcessed ==
  /\ \E t \in todo : /\ Head(t)
                     /\ t \in scope
                     /\ row[t] # "none"
                     /\ todo' = todo \ {t}
  /\ UNCHANGED <<queue, glpiVars, row, audit, attempts, billed, pc, cur,
                 cycleVars, dbFailures, call, faults>>

\* Mutant: a reserved ticket does not count as processed (marking in one step).
PickTicketThoughClaimed ==
  /\ \E t \in todo : /\ Head(t)
                     /\ t \in scope
                     /\ row[t] # "done"
                     /\ todo' = todo \ {t}
                     /\ cur' = t
  /\ pc' = "claim"
  /\ UNCHANGED <<queue, glpiVars, row, audit, attempts, billed, cycleVars,
                 dbFailures, call, faults>>

PickTicket ==
  /\ \E t \in todo : /\ Head(t)
                     /\ t \in scope
                     /\ row[t] = "none"
                     /\ todo' = todo \ {t}
                     /\ cur' = t
  /\ pc' = "claim"
  /\ UNCHANGED <<queue, glpiVars, row, audit, attempts, billed, cycleVars,
                 dbFailures, call, faults>>

\* The read itself raises: caught by the handler around the whole ticket.
ReadFails ==
  /\ ReadFaults
  /\ Fault
  /\ \E t \in todo : Head(t) /\ t \in scope /\ todo' = todo \ {t} /\ cur' = t
  /\ pc' = "raise"
  /\ UNCHANGED <<queue, glpiVars, row, audit, attempts, billed, cycleVars,
                 dbFailures, call>>

\* Mutant: the cycle reads the window again until the queue is drained.
EndCycleDrainsQueue ==
  /\ pc = "scan"
  /\ todo = {}
  /\ IF Window = {} THEN Finish
                    ELSE todo' = Window /\ UNCHANGED <<pc, cur, call, dbFailures>>
  /\ UNCHANGED <<queue, glpiVars, row, audit, attempts, billed, cycleVars, faults>>

EndCycle ==
  /\ pc = "scan"
  /\ todo = {}
  /\ Finish
  /\ UNCHANGED <<queue, glpiVars, row, audit, attempts, billed, cycleVars, faults>>

\* The reservation, before any GLPI write.  Without a handler (no LLM key) the
\* outcome is the default HandlerOutcome and the ticket goes straight to "mark".
Claim ==
  /\ pc = "claim"
  /\ SetRow(cur, "claimed")
  /\ Goto(IF handler THEN "handle" ELSE "mark")
  /\ UNCHANGED <<queue, glpiVars, audit, attempts, billed, cycleVars, dbFailures,
                 call, faults>>

\* Mutant: the ticket is handled although its reservation could not be written.
ClaimFailsIgnored ==
  /\ pc = "claim"
  /\ Fault
  /\ SetRowFails(cur, "claimed")
  /\ Goto(IF handler THEN "handle" ELSE "mark")
  /\ UNCHANGED <<queue, glpiVars, audit, attempts, billed, cycleVars, dbFailures, call>>

ClaimFails ==
  /\ pc = "claim"
  /\ Fault
  /\ SetRowFails(cur, "claimed")
  /\ NextTicketUnlessTripped(dbFailures + 1)
  /\ UNCHANGED <<queue, glpiVars, audit, attempts, billed, cycleVars>>

-----------------------------------------------------------------------------
(* TriageService.handle                                                    *)

\* rules_fully_handled: no LLM call, an outcome that is not retryable.
RulesAlreadyApplied ==
  /\ pc = "handle"
  /\ cur \in RulesHandled
  /\ call' = [call EXCEPT !.verdict = "rules"]
  /\ Goto("settle")
  /\ UNCHANGED <<queue, glpiVars, row, audit, attempts, billed, cycleVars,
                 dbFailures, faults>>

\* The cap is reached, or cannot be read (then it counts as reached, with
\* db_error): no call is emitted.  CostCap models the sum this test reads.
CostCapReached ==
  /\ pc = "handle"
  /\ cur \notin RulesHandled
  /\ Fault
  /\ \E unreadable \in BOOLEAN :
       call' = [call EXCEPT !.verdict = "capped", !.dbError = unreadable]
  /\ Goto("settle")
  /\ UNCHANGED <<queue, glpiVars, row, audit, attempts, billed, cycleVars, dbFailures>>

BelowCostCap ==
  /\ pc = "handle"
  /\ cur \notin RulesHandled
  /\ Goto("llm")
  /\ UNCHANGED <<queue, glpiVars, row, audit, attempts, billed, cycleVars,
                 dbFailures, call, faults>>

\* One billed call of _call_llm.  Module Guardrails models how a parsed decision
\* is accepted or rejected.
LlmAnswers ==
  /\ pc = "llm"
  /\ billed' = [billed EXCEPT ![cur] = @ + 1]
  /\ \E v \in {"accepted", "rejected"} : call' = [call EXCEPT !.verdict = v]
  /\ Goto("journal")
  /\ UNCHANGED <<queue, glpiVars, row, audit, attempts, cycleVars, dbFailures, faults>>

\* Mutant: one retry too many.
LlmFailsOnceMore ==
  /\ pc = "llm"
  /\ billed' = [billed EXCEPT ![cur] = @ + 1]
  /\ IF call.tries <= Retries
     THEN call' = [call EXCEPT !.tries = @ + 1] /\ Goto("llm")
     ELSE call' = [call EXCEPT !.verdict = "failed"] /\ Goto("journal")
  /\ UNCHANGED <<queue, glpiVars, row, audit, attempts, cycleVars, dbFailures, faults>>

\* LlmTransportError or LlmResponseError: retried, at most Retries times.
LlmFails ==
  /\ pc = "llm"
  /\ billed' = [billed EXCEPT ![cur] = @ + 1]
  /\ IF call.tries < Retries
     THEN call' = [call EXCEPT !.tries = @ + 1] /\ Goto("llm")
     ELSE call' = [call EXCEPT !.verdict = "failed"] /\ Goto("journal")
  /\ UNCHANGED <<queue, glpiVars, row, audit, attempts, cycleVars, dbFailures, faults>>

\* Any other exception of the adapter leaves the handler.
LlmRaises ==
  /\ pc = "llm"
  /\ billed' = [billed EXCEPT ![cur] = @ + 1]
  /\ Goto("raise")
  /\ UNCHANGED <<queue, glpiVars, row, audit, attempts, cycleVars, dbFailures,
                 call, faults>>

AfterJournal == IF call.verdict = "failed" THEN "record" ELSE "mode"

\* _journal_llm_calls, then the first test of _persist_outcome.
JournalCalls ==
  /\ pc = "journal"
  /\ Goto(AfterJournal)
  /\ UNCHANGED <<queue, glpiVars, row, audit, attempts, billed, cycleVars,
                 dbFailures, call, faults>>

JournalFails ==
  /\ pc = "journal"
  /\ Fault
  /\ call' = [call EXCEPT !.dbError = TRUE]
  /\ Goto(AfterJournal)
  /\ UNCHANGED <<queue, glpiVars, row, audit, attempts, billed, cycleVars, dbFailures>>

\* The entity's mode is read from the database.  Accepted: resolve_action applies
\* or only suggests.  Rejected: outside suggestion mode the fallback may be assigned.
ResolveMode ==
  /\ pc = "mode"
  /\ \E act \in BOOLEAN :
       Goto(CASE ~act                                -> "followup"
              [] act /\ call.verdict = "accepted"    -> "apply"
              [] act /\ call.verdict # "accepted"    -> "assign")
  /\ UNCHANGED <<queue, glpiVars, row, audit, attempts, billed, cycleVars,
                 dbFailures, call, faults>>

ModeFails ==
  /\ pc = "mode"
  /\ Fault
  /\ Goto("raise")
  /\ UNCHANGED <<queue, glpiVars, row, audit, attempts, billed, cycleVars,
                 dbFailures, call>>

Mutate == mutations' = [mutations EXCEPT ![cur] = @ + 1]

\* PUT (legacy) or PATCH (V2).
ApplyFields ==
  /\ pc = "apply"
  /\ Mutate
  /\ IF TwoStepApply
     THEN Goto("team") /\ UNCHANGED call
     ELSE Goto("followup") /\ call' = [call EXCEPT !.mutated = TRUE]
  /\ UNCHANGED <<queue, followups, row, audit, attempts, billed, cycleVars,
                 dbFailures, faults>>

ApplyFails ==
  /\ pc = "apply"
  /\ Fault
  /\ \/ UNCHANGED mutations
     \/ LostAcks /\ Mutate
  /\ Goto("raise")
  /\ UNCHANGED <<queue, followups, row, audit, attempts, billed, cycleVars,
                 dbFailures, call>>

\* POST TeamMember of the V2 connector.
AssignTeam ==
  /\ pc = "team"
  /\ call' = [call EXCEPT !.mutated = TRUE]
  /\ Goto("followup")
  /\ UNCHANGED <<queue, glpiVars, row, audit, attempts, billed, cycleVars,
                 dbFailures, faults>>

\* Mutant: a partial application is taken for a plain failure.
AssignTeamFailsPlainly ==
  /\ pc = "team"
  /\ Fault
  /\ Goto("raise")
  /\ UNCHANGED <<queue, glpiVars, row, audit, attempts, billed, cycleVars,
                 dbFailures, call>>

\* ItsmPartialApplyError: the journal says "applied", and no follow-up is posted.
AssignTeamFails ==
  /\ pc = "team"
  /\ Fault
  /\ call' = [call EXCEPT !.mutated = TRUE]
  /\ Goto("record")
  /\ UNCHANGED <<queue, glpiVars, row, audit, attempts, billed, cycleVars, dbFailures>>

\* The fallback actor of an arbitrated rejection (see module Guardrails).
AssignFallback ==
  /\ pc = "assign"
  /\ Mutate
  /\ call' = [call EXCEPT !.mutated = TRUE]
  /\ Goto("followup")
  /\ UNCHANGED <<queue, followups, row, audit, attempts, billed, cycleVars,
                 dbFailures, faults>>

\* The V2 connector reads the team again before it reports a failure: with a lost
\* answer that read has failed too.
AssignFallbackFails ==
  /\ pc = "assign"
  /\ Fault
  /\ \/ UNCHANGED mutations
     \/ LostAcks /\ Mutate
  /\ Goto("followup")
  /\ UNCHANGED <<queue, followups, row, audit, attempts, billed, cycleVars,
                 dbFailures, call>>

\* Public if the decision was applied, private otherwise.
WriteFollowup ==
  /\ pc = "followup"
  /\ followups' = [followups EXCEPT ![cur] = @ + 1]
  /\ Goto("record")
  /\ UNCHANGED <<queue, mutations, row, audit, attempts, billed, cycleVars,
                 dbFailures, call, faults>>

\* Swallowed: the follow-up is secondary.
WriteFollowupFails ==
  /\ pc = "followup"
  /\ Fault
  /\ \/ UNCHANGED followups
     \/ LostAcks /\ followups' = [followups EXCEPT ![cur] = @ + 1]
  /\ Goto("record")
  /\ UNCHANGED <<queue, mutations, row, audit, attempts, billed, cycleVars,
                 dbFailures, call>>

Audited(entry) ==
  audit' = IF call.mutated THEN [audit EXCEPT ![cur] = entry] ELSE audit

\* record_decision: the journal line carries applied / fallback_applied.
RecordDecision ==
  /\ pc = "record"
  /\ Audited("applied")
  /\ Goto("settle")
  /\ UNCHANGED <<queue, glpiVars, row, attempts, billed, cycleVars, dbFailures,
                 call, faults>>

\* Mutant: the failure of the journal is not caught by the handler.
RecordFailsUncaught ==
  /\ pc = "record"
  /\ Fault
  /\ Goto("raise")
  /\ UNCHANGED <<queue, glpiVars, row, audit, attempts, billed, cycleVars,
                 dbFailures, call>>

\* Caught: either the COMMIT failed and an ERROR log is all that is left for the
\* audit, or the line is there and only an answer or the annotation was lost.
RecordFails ==
  /\ pc = "record"
  /\ Fault
  /\ \E entry \in {"applied", "lost"} : Audited(entry)
  /\ call' = [call EXCEPT !.dbError = TRUE]
  /\ Goto("settle")
  /\ UNCHANGED <<queue, glpiVars, row, attempts, billed, cycleVars, dbFailures>>

-----------------------------------------------------------------------------
(* Back in the poller                                                      *)

\* Mutant: one try too many.
ExhaustedTooLate == attempts[cur] + 1 > MaxAttempts

\* _bump_attempt on the current ticket, and _clear_attempt when it was the last one.
Exhausted == attempts[cur] + 1 >= MaxAttempts
SetAttempt(n) == attempts' = [attempts EXCEPT ![cur] = n]
CountAttempt == SetAttempt(IF Exhausted THEN 0 ELSE attempts[cur] + 1)

\* Mutant: a deferral by the cost cap uses up a try.
ConsumeTicketCountsDeferrals ==
  /\ pc = "settle"
  /\ \/ /\ call.verdict \notin Retryable
        /\ Goto("mark")
        /\ UNCHANGED attempts
     \/ /\ call.verdict \in Retryable
        /\ Goto(IF Exhausted THEN "mark" ELSE "release")
        /\ CountAttempt
  /\ UNCHANGED <<queue, glpiVars, row, audit, billed, cycleVars, dbFailures, call,
                 faults>>

\* Mutant: the ticket is marked whatever the handler returned.
ConsumeTicketAlways ==
  /\ pc = "settle"
  /\ Goto("mark")
  /\ UNCHANGED <<queue, glpiVars, row, audit, attempts, billed, cycleVars,
                 dbFailures, call, faults>>

\* _consume_ticket: is the ticket marked, or left in the queue?
ConsumeTicket ==
  /\ pc = "settle"
  /\ \/ /\ call.verdict \notin Retryable
        /\ Goto("mark")
        /\ UNCHANGED attempts
     \/ /\ call.verdict = "capped"
        /\ Goto("release")
        /\ UNCHANGED attempts
     \/ /\ call.verdict = "failed"
        /\ Goto(IF Exhausted THEN "mark" ELSE "release")
        /\ CountAttempt
  /\ UNCHANGED <<queue, glpiVars, row, audit, billed, cycleVars, dbFailures, call,
                 faults>>

\* After a release only a db_error reported by the handler counts.
AfterRelease ==
  IF call.dbError
  THEN NextTicketUnlessTripped(dbFailures + 1)
  ELSE NextTicket /\ UNCHANGED dbFailures

Release ==
  /\ pc = "release"
  /\ SetRow(cur, "none")
  /\ AfterRelease
  /\ UNCHANGED <<queue, glpiVars, audit, attempts, billed, cycleVars, faults>>

ReleaseFails ==
  /\ pc = "release"
  /\ Fault
  /\ SetRowFails(cur, "none")
  /\ AfterRelease
  /\ UNCHANGED <<queue, glpiVars, audit, attempts, billed, cycleVars>>

MarkProcessed ==
  /\ pc = "mark"
  /\ SetRow(cur, "done")
  /\ SetAttempt(0)
  /\ NextTicketUnlessTripped(IF call.dbError THEN dbFailures + 1 ELSE 0)
  /\ UNCHANGED <<queue, glpiVars, audit, billed, cycleVars, faults>>

MarkFails ==
  /\ pc = "mark"
  /\ Fault
  /\ SetRowFails(cur, "done")
  /\ NextTicketUnlessTripped(dbFailures + 1)
  /\ UNCHANGED <<queue, glpiVars, audit, attempts, billed, cycleVars>>

\* `except Exception` around the ticket: an attempt is used up; the reservation is
\* given back while attempts remain, the ticket is abandoned (marked) afterwards.
AfterRaise == IF Exhausted THEN "done" ELSE "none"

TicketRaised ==
  /\ pc = "raise"
  /\ handler
  /\ CountAttempt
  /\ SetRow(cur, AfterRaise)
  /\ NextTicket
  /\ UNCHANGED <<queue, glpiVars, audit, billed, cycleVars, dbFailures, faults>>

TicketRaisedDbFails ==
  /\ pc = "raise"
  /\ handler
  /\ Fault
  /\ CountAttempt
  /\ SetRowFails(cur, AfterRaise)
  /\ NextTicket
  /\ UNCHANGED <<queue, glpiVars, audit, billed, cycleVars, dbFailures>>

TicketRaisedNoHandler ==
  /\ pc = "raise"
  /\ ~handler
  /\ NextTicket
  /\ UNCHANGED <<queue, glpiVars, row, audit, attempts, billed, cycleVars,
                 dbFailures, faults>>

-----------------------------------------------------------------------------
(* The surroundings                                                        *)

\* A ticket is created, or set back to "New".
TicketArrives ==
  /\ \E t \in Tickets \ queue : queue' = queue \cup {t}
  /\ UNCHANGED <<glpiVars, row, audit, attempts, billed, pc, todo, cur, cycleVars,
                 dbFailures, call, faults>>

\* Someone takes the ticket, or GLPI changes its status.
TicketLeaves ==
  /\ \E t \in queue : queue' = queue \ {t}
  /\ UNCHANGED <<glpiVars, row, audit, attempts, billed, pc, todo, cur, cycleVars,
                 dbFailures, call, faults>>

\* Kill, OOM or reboot, then restart: only GLPI and the database survive.
CrashAndRestart ==
  /\ Fault
  /\ Finish
  /\ attempts' = [t \in Tickets |-> 0]
  /\ billed' = [t \in Tickets |-> 0]
  /\ UNCHANGED <<queue, glpiVars, row, audit, cycleVars>>

Scan == StartCycle \/ SkipOutOfScope \/ SkipProcessed \/ PickTicket \/ ReadFails
        \/ EndCycle \/ Claim \/ ClaimFails

Handle == RulesAlreadyApplied \/ CostCapReached \/ BelowCostCap \/ LlmAnswers
          \/ LlmFails \/ LlmRaises \/ JournalCalls \/ JournalFails \/ ResolveMode
          \/ ModeFails \/ ApplyFields \/ ApplyFails \/ AssignTeam \/ AssignTeamFails
          \/ AssignFallback \/ AssignFallbackFails \/ WriteFollowup
          \/ WriteFollowupFails \/ RecordDecision \/ RecordFails

Conclude == ConsumeTicket \/ Release \/ ReleaseFails \/ MarkProcessed \/ MarkFails
            \/ TicketRaised \/ TicketRaisedDbFails \/ TicketRaisedNoHandler

PollerStep == Scan \/ Handle \/ Conclude

Next == PollerStep \/ TicketArrives \/ TicketLeaves \/ CrashAndRestart

Spec == Init /\ [][Next]_vars

\* The scheduler keeps triggering cycles and the task keeps running (interval
\* job, max_instances=1, coalesce); nothing is assumed of the environment.
FairSpec == Spec /\ WF_vars(PollerStep)

-----------------------------------------------------------------------------
(* Properties                                                              *)

\* The requester never reads two answers: whatever fails and wherever the process
\* is killed, a ticket carries at most one follow-up of the engine.
AtMostOneFollowup == \A t \in Tickets : followups[t] <= 1

\* The inductive invariant behind AtMostOneFollowup, under ReadFaults = FALSE.
\* A ticket the cycle works on holds a reservation of its own ...
Reserved ==
  /\ pc \in Owning \cup {"raise"} => cur \in Tickets /\ row[cur] = "claimed"
  /\ pc = "claim" => cur \in Tickets /\ row[cur] = "none"
  /\ pc \in {"idle", "scan"} => cur = NoTicket

\* ... the handler's verdict is the one its progress implies ...
VerdictAtPoint ==
  /\ pc \in {"idle", "scan", "claim", "handle", "llm"} => call.verdict = "none"
  /\ pc \in {"mode", "apply", "team", "assign", "followup"} =>
       call.verdict \in {"accepted", "rejected"}
  /\ pc \in {"journal", "record"} => call.verdict \in {"accepted", "rejected", "failed"}

\* ... and it is not answered yet at any point from which it can be released.
NotYetAnswered ==
  /\ pc \in (Handling \ {"record", "settle"}) \cup {"raise", "release"} =>
       followups[cur] = 0
  /\ pc \in {"record", "settle"} /\ call.verdict \in Retryable => followups[cur] = 0

\* Wherever the cycle is, a ticket that carries a follow-up keeps a row, so that the
\* next cycle, or the next process, does not take it up again.
AnsweredKeepsRow ==
  /\ Reserved
  /\ VerdictAtPoint
  /\ NotYetAnswered
  /\ \A t \in Tickets : followups[t] > 0 => row[t] # "none"
  /\ AtMostOneFollowup

\* A ticket is marked only once it was triaged (by a rule, or by a verdict of the
\* guardrails) or abandoned after MaxAttempts tries that were really paid for: the
\* step that marks it without a verdict has seen that many LLM calls.
ConsumptionIsDue ==
  \A t \in Tickets :
    row[t] # "done" /\ row'[t] = "done" =>
      \/ call.verdict \in {"rules", "accepted", "rejected"}
      \/ billed[t] >= MaxAttempts

ConsumedMeansTriaged == [][ConsumptionIsDue]_vars

\* One process never pays more for one ticket than MaxAttempts triages of
\* Retries + 1 calls, even when every call, marking and release goes wrong.
BillIsBounded ==
  \A t \in Tickets : billed[t] <= MaxAttempts * (Retries + 1)

\* Only tries that cost something count: a ticket that is deferred by the cost cap
\* for days does not get any closer to being abandoned.  (A try that ends by an exception
\* before the LLM call, in masking or the prompt, is not modelled.)
OnlyPaidTriesCount == \A t \in Tickets : attempts[t] <= billed[t]

\* What makes ConsumedMeansTriaged inductive when an LLM key is always configured.
MarkIsDue ==
  /\ pc # "idle" => handler
  /\ pc = "settle" => call.verdict # "none"
  /\ pc = "mark" => \/ call.verdict \in {"rules", "accepted", "rejected"}
                    \/ billed[cur] >= MaxAttempts

\* The inductive invariant behind OnlyPaidTriesCount and BillIsBounded, under
\* ReadFaults = FALSE.  A triage that may still use up a try has been paid for ...
PaidPoints == {"journal", "mode", "apply", "team", "assign", "followup", "record", "raise"}

TriageWasPaid == pc \in PaidPoints \/ (pc = "settle" /\ call.verdict = "failed")

\* ... and `tries` full triages cost at most this many calls.
CallsOf(tries) == tries * (Retries + 1)

TicketBill(t) ==
  /\ attempts[t] <= billed[t]
  /\ billed[t] <= CallsOf(MaxAttempts)
  /\ row[t] = "none" => attempts[t] < MaxAttempts /\ billed[t] <= CallsOf(attempts[t])

TriesMatchBill ==
  /\ \A t \in Tickets : TicketBill(t)
  /\ pc \in {"idle", "scan", "claim", "handle"} => call.tries = 0
  /\ pc \in {"handle", "llm"} =>
       attempts[cur] < MaxAttempts /\ billed[cur] <= CallsOf(attempts[cur]) + call.tries
  /\ TriageWasPaid =>
       /\ attempts[cur] < billed[cur]
       /\ attempts[cur] < MaxAttempts
       /\ billed[cur] <= CallsOf(attempts[cur] + 1)
  /\ pc = "release" \/ (pc = "settle" /\ call.verdict = "capped") =>
       attempts[cur] < MaxAttempts /\ billed[cur] <= CallsOf(attempts[cur])

\* Nothing is written to GLPI on a ticket unless its reservation is committed, and
\* the step that writes does not give the reservation back.
WriteIsReserved ==
  \A t \in Tickets :
    <<followups[t], mutations[t]>>' # <<followups[t], mutations[t]>> =>
      row[t] = "claimed" /\ row'[t] = "claimed"

WritesAreReserved == [][WriteIsReserved]_vars

\* The journal accounts for every ticket the engine has changed in GLPI and is done
\* with, be it as an entry that could not be written ("lost", logged as an error).
MutationIsAudited ==
  \A t \in Tickets : row[t] = "done" /\ mutations[t] > 0 => audit[t] # "none"

\* The cycle implements the ledger: a reservation is taken, given back only before
\* any answer, turned into a mark, or left behind for a human.
LedgerStatus(t) ==
  CASE row[t] = "none"                  -> "open"
    [] row[t] = "done"                  -> "settled"
    [] row[t] = "claimed" /\ cur = t    -> "inflight"
    [] row[t] = "claimed" /\ cur # t    -> "orphan"

Ledger == INSTANCE TicketLedger WITH
  status <- [t \in Tickets |-> LedgerStatus(t)],
  answered <- {t \in Tickets : followups[t] > 0}

LedgerSpec == Ledger!Spec

\* Every cycle ends, so the next one can start.
CycleEnds == pc # "idle" ~> pc = "idle"

\* No new ticket is lost or left aside for ever: as long as it is "New" and in the
\* window, it ends up marked or reported as interrupted.
TicketIsConcluded ==
  \A t \in Tickets :
    t \in queue ~> \/ t \notin queue
                   \/ row[t] = "done"
                   \/ (row[t] = "claimed" /\ cur # t)
=============================================================================

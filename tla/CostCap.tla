------------------------------ MODULE CostCap ------------------------------
(***************************************************************************)
(* The daily cost cap (services/cost_cap.py): a check on what llm_calls    *)
(* says was spent in the last 24 hours, made before a call, whose cost is  *)
(* only written once the call has returned.  Three kinds of clients share  *)
(* it on one event loop: the engine (services/triage.py), the sandbox and  *)
(* the provider's test (api/routes/sandbox.py and llm.py).  Retention      *)
(* (services/retention.py) deletes old rows of the table it sums.          *)
(***************************************************************************)
EXTENDS Integers, FiniteSets, FiniteSetsExt, Functions

CONSTANTS
  Sandboxes,      \* simulations an admin may have in flight
  Tests,          \* tests of the provider he may have in flight
  Engine,         \* the polling cycle; poll_lock makes it the only one
  Retries,        \* LLM_RETRIES
  CallCost,       \* cost of a call that answers
  FailCost,       \* cost of a call that fails: its prompt only
  CapChoices,     \* caps the admin may save; 0 is no cap
  DaysChoices,    \* retention_llm_calls_days he may have saved; 0 is no purge
  BillsChoices,   \* subset of BOOLEAN: does the provider he chose charge (not ollama)
  Day,            \* instants in 24 hours
  Horizon,        \* age from which rows are not told apart (not in the code)
  MaxOld          \* bound on the cost of those rows (not in the code)

Clients == {Engine} \cup Sandboxes \cup Tests
Ages == 0..Horizon

ASSUME CostCapAssumption ==
  /\ Engine \notin Sandboxes \cup Tests
  /\ Sandboxes \cap Tests = {}
  /\ IsFiniteSet(Sandboxes) /\ IsFiniteSet(Tests)
  /\ Retries \in Nat /\ CallCost \in Nat \ {0} /\ FailCost \in Nat
  /\ CapChoices \subseteq Nat
  /\ DaysChoices \subseteq Nat
  /\ BillsChoices \subseteq BOOLEAN
  /\ Day \in Nat \ {0}
  /\ Horizon \in Nat /\ Horizon > Day
  /\ MaxOld \in Nat

VARIABLES
  rows,      \* [Ages -> Nat] cost_eur of llm_calls, by age; the last age is "or older"
  cap,       \* cost_cap_eur_per_day
  client,    \* [Clients -> ClientState] locals of each call
  caps       \* caps that were in force so far (history)

vars == <<rows, cap, client, caps>>

\* "llm": build_llm has returned; "built": the service or the settings are captured;
\* "call": the cap was not reached, a call is under way; "book": it has returned,
\* llm_calls is written.
PCs == {"idle", "llm", "built", "call", "book"}

ClientState == [
  pc    : PCs,
  cap   : Nat,        \* the cap captured when the service was built
  bills : BOOLEAN,    \* does the provider captured for the calls charge
  price : BOOLEAN,    \* FALSE: the tariff captured for the journal is zero
  over  : BOOLEAN,    \* the test's over_cap
  fails : Nat,        \* failed calls since the check: trace.failures
  ok    : BOOLEAN,    \* a result came back
  owed  : Int,        \* charged and not written in llm_calls (history)
  lost  : BOOLEAN]    \* ... because an exception or the database got in the way

Idle == [pc |-> "idle", cap |-> 0, bills |-> FALSE, price |-> FALSE, over |-> FALSE,
         fails |-> 0, ok |-> FALSE, owed |-> 0, lost |-> FALSE]

TriesOf(c) == IF c \in Tests THEN 1 ELSE Retries + 1

\* A client makes no more calls than its tries.
TriesHeld(c) ==
  /\ client[c].fails <= TriesOf(c)
  /\ client[c].pc = "call" => client[c].fails < TriesOf(c)
  /\ client[c].pc = "built" /\ c # Engine => client[c].fails = 0

TypeOK ==
  /\ rows \in [Ages -> Nat]
  /\ cap \in CapChoices
  /\ client \in [Clients -> ClientState]
  /\ caps \subseteq Nat
  /\ \A c \in Clients : TriesHeld(c)

Init ==
  /\ rows = [a \in Ages |-> 0]
  /\ cap \in CapChoices
  /\ client = [c \in Clients |-> Idle]
  /\ caps = {cap}

-----------------------------------------------------------------------------
(* Services                                                                *)

\* spent_last_24h: rows with ts >= now - 24 h.
SpentLast24h == SumFunction([a \in 0..Day |-> rows[a]])

\* Mutant: the call that reaches the cap is followed by another one.
IsOverCapStrictly(limit) == limit > 0 /\ SpentLast24h > limit

IsOverCap(limit) == limit > 0 /\ SpentLast24h >= limit

Charge(c, cost) == IF client[c].bills THEN cost ELSE 0

\* The calls of the trace, at the tariffs of a provider that charges.
CallsOfRun(c) == client[c].fails * FailCost + (IF client[c].ok THEN CallCost ELSE 0)

\* Mutant: the calls that failed are not written.
CostOfRunSucceeded(c) == IF client[c].price /\ client[c].ok THEN CallCost ELSE 0

\* _journal_llm_calls: a row per call, failed ones included.
CostOfRun(c) == IF client[c].price THEN CallsOfRun(c) ELSE 0

AtMost(n, bound) == IF n <= bound THEN n ELSE bound

Book(cost) == rows' = [rows EXCEPT ![0] = @ + cost]

Become(c, state) == client' = [client EXCEPT ![c] = state]

-----------------------------------------------------------------------------
(* The engine                                                              *)

\* build_llm: the provider that will be called, read in a session of its own.
BuildLlm ==
  /\ client[Engine].pc = "idle"
  /\ \E bills \in BillsChoices :
       Become(Engine, [Idle EXCEPT !.pc = "llm", !.bills = bills])
  /\ UNCHANGED <<rows, cap, caps>>

\* The rest of build_triage_service: cap and tariffs hold for the whole cycle; the
\* tariffs are zero when the provider, read again, does not charge.
BuildService ==
  /\ client[Engine].pc = "llm"
  /\ \E price \in BillsChoices :
       Become(Engine, [client[Engine] EXCEPT !.pc = "built", !.cap = cap, !.price = price])
  /\ UNCHANGED <<rows, cap, caps>>

\* Mutant: the trace of the ticket before is kept.
TakeTicketKeepsTrace ==
  /\ client[Engine].pc = "built"
  /\ ~IsOverCap(client[Engine].cap)
  /\ Become(Engine, [client[Engine] EXCEPT !.pc = "call", !.owed = 0, !.lost = FALSE])
  /\ UNCHANGED <<rows, cap, caps>>

\* handle, once per ticket: beyond the cap it is deferred, which changes nothing here.
TakeTicket ==
  /\ client[Engine].pc = "built"
  /\ ~IsOverCap(client[Engine].cap)
  /\ Become(Engine, [client[Engine] EXCEPT !.pc = "call", !.fails = 0, !.ok = FALSE,
                                           !.owed = 0, !.lost = FALSE])
  /\ UNCHANGED <<rows, cap, caps>>

EndCycle ==
  /\ client[Engine].pc \in {"llm", "built"}
  /\ Become(Engine, Idle)
  /\ UNCHANGED <<rows, cap, caps>>

\* Each row has a COMMIT of its own; the engine's service outlives the ticket.
JournalCalls ==
  /\ client[Engine].pc = "book"
  /\ Book(CostOfRun(Engine))
  /\ Become(Engine, [client[Engine] EXCEPT !.pc = "built", !.owed = @ - CostOfRun(Engine)])
  /\ UNCHANGED <<cap, caps>>

\* The database fails after some rows: caught, the others are not written.
JournalFails ==
  /\ client[Engine].pc = "book"
  /\ \E written \in 0..client[Engine].fails :
       LET cost == IF client[Engine].price THEN written * FailCost ELSE 0 IN
       /\ Book(cost)
       /\ Become(Engine, [client[Engine] EXCEPT !.pc = "built", !.owed = @ - cost,
                                                !.lost = TRUE])
  /\ UNCHANGED <<cap, caps>>

-----------------------------------------------------------------------------
(* The console                                                             *)

\* The sandbox builds a service first.  It reads the tariffs itself, whatever the
\* provider.
BuildSandbox(c) ==
  /\ client[c].pc = "idle"
  /\ \E bills \in BillsChoices :
       Become(c, [Idle EXCEPT !.pc = "built", !.bills = bills, !.price = TRUE])
  /\ UNCHANGED <<rows, cap, caps>>

\* 409 cost_cap_reached, or on to evaluate_text.
SandboxChecks(c) ==
  /\ client[c].pc = "built"
  /\ Become(c, IF IsOverCap(cap) THEN Idle ELSE [client[c] EXCEPT !.pc = "call"])
  /\ UNCHANGED <<rows, cap, caps>>

\* POST /llm/test reads cap, tariffs and provider in one session ...
TestReadsSettings(c) ==
  /\ client[c].pc = "idle"
  /\ \E bills \in BillsChoices :
       Become(c, [Idle EXCEPT !.pc = "built", !.price = bills, !.over = IsOverCap(cap)])
  /\ UNCHANGED <<rows, cap, caps>>

\* ... and build_llm the provider again, before the call is made or refused.
TestBuildsLlm(c) ==
  /\ client[c].pc = "built"
  /\ \E bills \in BillsChoices :
       Become(c, IF client[c].over /\ client[c].price
                 THEN Idle
                 ELSE [client[c] EXCEPT !.pc = "call", !.bills = bills])
  /\ UNCHANGED <<rows, cap, caps>>

\* Both write llm_calls when a result came back.
BookRequest(c) ==
  /\ client[c].pc = "book"
  /\ LET cost == IF client[c].price THEN CallCost ELSE 0 IN
     /\ Book(cost)
     /\ Become(c, [client[c] EXCEPT !.pc = "idle", !.owed = @ - cost])
  /\ UNCHANGED <<cap, caps>>

-----------------------------------------------------------------------------
(* Calls: _call_llm for the engine and the sandbox, one complete() for a test *)

CallAnswers(c) ==
  /\ client[c].pc = "call"
  /\ Become(c, [client[c] EXCEPT !.pc = "book", !.ok = TRUE,
                                 !.owed = @ + Charge(c, CallCost)])
  /\ UNCHANGED <<rows, cap, caps>>

\* Mutant: one try too many.
CallFailsOnceMore(c) ==
  /\ client[c].pc = "call"
  /\ Become(c, [client[c] EXCEPT
       !.pc = IF client[c].fails < TriesOf(c) THEN "call"
              ELSE IF c = Engine THEN "book" ELSE "idle",
       !.fails = @ + 1,
       !.owed = @ + Charge(c, FailCost)])
  /\ UNCHANGED <<rows, cap, caps>>

\* Once the tries are used up the engine writes llm_calls, a request just ends.
CallFails(c) ==
  /\ client[c].pc = "call"
  /\ Become(c, [client[c] EXCEPT
       !.pc = IF client[c].fails + 1 < TriesOf(c) THEN "call"
              ELSE IF c = Engine THEN "book" ELSE "idle",
       !.fails = @ + 1,
       !.owed = @ + Charge(c, FailCost)])
  /\ UNCHANGED <<rows, cap, caps>>

\* Another exception than the port's two: the ticket, or the request, is given up.
CallRaises(c) ==
  /\ client[c].pc = "call"
  /\ Become(c, [client[c] EXCEPT !.pc = IF c = Engine THEN "built" ELSE "idle",
                                 !.owed = @ + Charge(c, FailCost),
                                 !.lost = TRUE])
  /\ UNCHANGED <<rows, cap, caps>>

-----------------------------------------------------------------------------
(* Time, settings, retention                                               *)

\* An instant passes: every row gets older, the cost of the oldest is capped.
Tick ==
  /\ rows' = [a \in Ages |->
       CASE a = 0                 -> 0
         [] a > 0 /\ a < Horizon  -> rows[a - 1]
         [] a = Horizon           -> AtMost(rows[a] + rows[a - 1], MaxOld)]
  /\ UNCHANGED <<cap, client, caps>>

\* POST /config.  Provider and retention are read where they matter, so a choice there
\* stands for their edits.
SaveCap ==
  /\ cap' \in CapChoices
  /\ caps' = caps \cup {cap'}
  /\ UNCHANGED <<rows, client>>

\* Mutant: the row of exactly `days` days goes too.
PurgeFromTheDay ==
  /\ \E days \in DaysChoices \ {0} :
       rows' = [a \in Ages |-> IF a >= days * Day THEN 0 ELSE rows[a]]
  /\ UNCHANGED <<cap, client, caps>>

\* purge_llm_calls_before, by the scheduler or by the admin: ts < now - days.
Purge ==
  /\ \E days \in DaysChoices \ {0} :
       rows' = [a \in Ages |-> IF a > days * Day THEN 0 ELSE rows[a]]
  /\ UNCHANGED <<cap, client, caps>>

\* Kill, then restart: nothing of the requests and of the cycle is left.
CrashAndRestart ==
  /\ client' = [c \in Clients |-> Idle]
  /\ UNCHANGED <<rows, cap, caps>>

EngineStep ==
  BuildLlm \/ BuildService \/ TakeTicket \/ EndCycle \/ JournalCalls \/ JournalFails

ConsoleStep ==
  \/ \E c \in Sandboxes : BuildSandbox(c) \/ SandboxChecks(c)
  \/ \E c \in Tests : TestReadsSettings(c) \/ TestBuildsLlm(c)
  \/ \E c \in Sandboxes \cup Tests : BookRequest(c)

LlmStep == \E c \in Clients : CallAnswers(c) \/ CallFails(c) \/ CallRaises(c)

Next == EngineStep \/ ConsoleStep \/ LlmStep \/ Tick \/ SaveCap \/ Purge
        \/ CrashAndRestart

Spec == Init /\ [][Next]_vars

-----------------------------------------------------------------------------
(* Properties                                                              *)

\* What a client may still write once it has passed the check.
Allowance(c) ==
  CASE c = Engine       -> Max({(Retries + 1) * FailCost, Retries * FailCost + CallCost})
    [] c \in Sandboxes  -> CallCost
    [] c \in Tests      -> CallCost

\* The cap is a check made before the spending, by clients that do not wait for each
\* other: what is spent in 24 hours stays below the highest cap in force, plus what
\* one call of each client may add, and no sequence of checks, ticks, purges and
\* edits does worse.
OvershootIsBounded ==
  0 \notin caps =>
    SpentLast24h < Max(caps) + MapThenSumSet(Allowance, Clients)

\* The table tells what was paid: when the engine is done with a ticket, all of its
\* calls are in llm_calls, unless the database or an unexpected exception got in
\* the way.  A sum is missing only if the provider charges and the tariffs were read
\* once a free one had been saved, and is there unpaid only in the opposite case.
EngineBooksItsCalls ==
  LET e == client[Engine] IN
  e.pc \notin {"call", "book"} /\ ~e.lost =>
    /\ e.owed > 0 => e.bills /\ ~e.price
    /\ e.owed < 0 => e.price /\ ~e.bills

\* What makes it inductive: until llm_calls is written the engine owes exactly what
\* its trace says, if the provider it calls charges.
EngineTrace ==
  LET e == client[Engine] IN
  /\ e.pc = "llm" => e.owed = 0
  /\ e.pc \in {"call", "book"} => ~e.lost
  /\ e.pc = "call" => ~e.ok
  /\ e.pc \in {"call", "book"} => e.owed = Charge(Engine, CallsOfRun(Engine))
  /\ EngineBooksItsCalls

\* Retention never makes the cap forget a spending it still has to count.
PurgeKeepsSpend == [][Purge => SpentLast24h' = SpentLast24h]_vars

\* What the sandbox and the test were charged is in llm_calls when they are over.
RequestsAreBooked ==
  \A c \in Sandboxes \cup Tests :
    client[c].pc = "idle" /\ ~client[c].lost => client[c].owed <= 0
=============================================================================

------------------------- MODULE TriagePollerProofs -------------------------
(***************************************************************************)
(* Proofs about TriagePoller, for every set of tickets and every value of  *)
(* the other constants: types, the invariant behind the single answer, and *)
(* the reservation every GLPI write is made under.                         *)
(***************************************************************************)
EXTENDS TriagePoller, TLAPS

\* Adding one to a counter of one ticket (a call, a follow-up, a write to GLPI)
\* keeps the counters natural numbers.
LEMMA BumpType ==
  ASSUME NEW f \in [Tickets -> Nat], NEW t
  PROVE  [f EXCEPT ![t] = @ + 1] \in [Tickets -> Nat]
<1>1. CASE t \in Tickets
  BY <1>1
<1>2. CASE t \notin Tickets
  BY <1>2
<1> QED
  BY <1>1, <1>2

\* _bump_attempt and _clear_attempt keep the tries natural numbers.
LEMMA AttemptType ==
  ASSUME TypeOK, CountAttempt
  PROVE  attempts' \in [Tickets -> Nat]
<1>1. CASE cur \in Tickets
  BY <1>1 DEF TypeOK, CountAttempt, SetAttempt, Exhausted
<1>2. CASE cur \notin Tickets
  BY <1>2 DEF TypeOK, CountAttempt, SetAttempt, Exhausted
<1> QED
  BY <1>1, <1>2

\* The locals of a handler call that has not started.
LEMMA FreshCallType ==
  /\ FreshCall \in Calls /\ FreshCall.tries <= Retries
  /\ FreshCall.tries = 0 /\ FreshCall.verdict = "none"
BY PollerAssumption DEF FreshCall, Calls, Verdicts

\* Going on to the next ticket, or cutting the cycle when the breaker trips: either
\* way the current ticket and the locals of its handler are gone.
LEMMA NextOrTrip ==
  ASSUME TypeOK, NEW n \in Nat, NextTicketUnlessTripped(n)
  PROVE  /\ pc' \in {"idle", "scan"}
         /\ cur' = NoTicket
         /\ call' = FreshCall
         /\ todo' \subseteq Tickets
         /\ dbFailures' \in Nat
BY DEF TypeOK, NextTicketUnlessTripped, NextTicket, Finish

\* The same after a release, where only a db_error of the handler counts.
LEMMA NextOrTripAfterRelease ==
  ASSUME TypeOK, AfterRelease
  PROVE  /\ pc' \in {"idle", "scan"}
         /\ cur' = NoTicket
         /\ call' = FreshCall
         /\ todo' \subseteq Tickets
         /\ dbFailures' \in Nat
<1>1. CASE call.dbError
  <2>1. dbFailures + 1 \in Nat /\ NextTicketUnlessTripped(dbFailures + 1)
    BY <1>1 DEF AfterRelease, TypeOK
  <2> QED
    BY <2>1, NextOrTrip
<1>2. CASE ~call.dbError
  BY <1>2 DEF AfterRelease, NextTicket, TypeOK
<1> QED
  BY <1>1, <1>2

\* Every variable of the poller keeps its type.
THEOREM TypeCorrect == Spec => []TypeOK
<1>1. Init => TypeOK
  <2> SUFFICES ASSUME Init PROVE TypeOK
    OBVIOUS
  <2>1. call \in Calls /\ call.tries <= Retries
    BY FreshCallType DEF Init
  <2>2. /\ followups \in [Tickets -> Nat] /\ mutations \in [Tickets -> Nat]
        /\ attempts \in [Tickets -> Nat] /\ billed \in [Tickets -> Nat]
        /\ row \in [Tickets -> RowStates] /\ audit \in [Tickets -> AuditStates]
    BY DEF Init, RowStates, AuditStates
  <2> QED
    BY <2>1, <2>2, PollerAssumption DEF Init, TypeOK, PCs
<1>2. TypeOK /\ [Next]_vars => TypeOK'
  <2> SUFFICES ASSUME TypeOK, [Next]_vars PROVE TypeOK'
    OBVIOUS
  <2> USE PollerAssumption, FreshCallType
      DEF TypeOK, PCs, Owning, Handling, RowStates, AuditStates, glpiVars, cycleVars
  <2>1. CASE StartCycle
    BY <2>1 DEF StartCycle, Window
  <2>2. CASE SkipOutOfScope
    BY <2>2 DEF SkipOutOfScope, Head
  <2>3. CASE SkipProcessed
    BY <2>3 DEF SkipProcessed, Head
  <2>4. CASE PickTicket
    BY <2>4 DEF PickTicket, Head
  <2>5. CASE ReadFails
    BY <2>5 DEF ReadFails, Fault, Head
  <2>6. CASE EndCycle
    BY <2>6 DEF EndCycle, Finish
  <2>7. CASE Claim
    BY <2>7 DEF Claim, SetRow, Goto
  <2>8. CASE ClaimFails
    <3>1. /\ pc' \in PCs /\ cur' = NoTicket /\ call' = FreshCall
          /\ todo' \subseteq Tickets /\ dbFailures' \in Nat
      BY <2>8, NextOrTrip DEF ClaimFails
    <3> QED
      BY <2>8, <3>1 DEF ClaimFails, Fault, SetRowFails
  <2>9. CASE RulesAlreadyApplied
    <3>1. call' \in Calls /\ call'.tries <= Retries
      BY <2>9 DEF RulesAlreadyApplied, Calls, Verdicts
    <3> QED
      BY <2>9, <3>1 DEF RulesAlreadyApplied, Goto
  <2>10. CASE CostCapReached
    <3>1. PICK unreadable \in BOOLEAN :
             call' = [call EXCEPT !.verdict = "capped", !.dbError = unreadable]
      BY <2>10 DEF CostCapReached
    <3>2. call' \in Calls /\ call'.tries <= Retries
      BY <3>1 DEF Calls, Verdicts
    <3> QED
      BY <2>10, <3>1, <3>2 DEF CostCapReached, Fault, Goto
  <2>11. CASE BelowCostCap
    BY <2>11 DEF BelowCostCap, Goto
  <2>12. CASE LlmAnswers
    <3>1. billed' \in [Tickets -> Nat]
      BY <2>12, BumpType DEF LlmAnswers
    <3>2. call' \in Calls /\ call'.tries <= Retries
      BY <2>12 DEF LlmAnswers, Calls, Verdicts
    <3> QED
      BY <2>12, <3>1, <3>2 DEF LlmAnswers, Goto
  <2>13. CASE LlmFails
    <3>1. billed' \in [Tickets -> Nat]
      BY <2>13, BumpType DEF LlmFails
    <3>2. call' \in Calls /\ call'.tries <= Retries
      BY <2>13 DEF LlmFails, Calls, Verdicts
    <3> QED
      BY <2>13, <3>1, <3>2 DEF LlmFails, Goto
  <2>14. CASE LlmRaises
    <3>1. billed' \in [Tickets -> Nat]
      BY <2>14, BumpType DEF LlmRaises
    <3> QED
      BY <2>14, <3>1 DEF LlmRaises, Goto
  <2>15. CASE JournalCalls
    BY <2>15 DEF JournalCalls, Goto, AfterJournal
  <2>16. CASE JournalFails
    <3>1. call' \in Calls /\ call'.tries <= Retries
      BY <2>16 DEF JournalFails, Calls, Verdicts
    <3> QED
      BY <2>16, <3>1 DEF JournalFails, Fault, Goto, AfterJournal
  <2>17. CASE ResolveMode
    BY <2>17 DEF ResolveMode, Goto
  <2>18. CASE ModeFails
    BY <2>18 DEF ModeFails, Fault, Goto
  <2>19. CASE ApplyFields
    <3>1. mutations' \in [Tickets -> Nat]
      BY <2>19, BumpType DEF ApplyFields, Mutate
    <3>2. CASE TwoStepApply
      BY <2>19, <3>1, <3>2 DEF ApplyFields, Mutate, Goto
    <3>3. CASE ~TwoStepApply
      <4>1. call' = [call EXCEPT !.mutated = TRUE]
        BY <2>19, <3>3 DEF ApplyFields
      <4>2. call' \in Calls /\ call'.tries <= Retries
        BY <4>1 DEF Calls, Verdicts
      <4> QED
        BY <2>19, <3>1, <3>3, <4>2 DEF ApplyFields, Mutate, Goto
    <3> QED
      BY <2>19, <3>1, <3>2, <3>3 DEF ApplyFields, Mutate, Goto
  <2>20. CASE ApplyFails
    <3>1. mutations' \in [Tickets -> Nat]
      BY <2>20, BumpType DEF ApplyFails, Mutate
    <3> QED
      BY <2>20, <3>1 DEF ApplyFails, Fault, Mutate, Goto
  <2>21. CASE AssignTeam
    <3>1. call' \in Calls /\ call'.tries <= Retries
      BY <2>21 DEF AssignTeam, Calls, Verdicts
    <3> QED
      BY <2>21, <3>1 DEF AssignTeam, Goto
  <2>22. CASE AssignTeamFails
    <3>1. call' \in Calls /\ call'.tries <= Retries
      BY <2>22 DEF AssignTeamFails, Calls, Verdicts
    <3> QED
      BY <2>22, <3>1 DEF AssignTeamFails, Fault, Goto
  <2>23. CASE AssignFallback
    <3>1. mutations' \in [Tickets -> Nat]
      BY <2>23, BumpType DEF AssignFallback, Mutate
    <3>2. call' \in Calls /\ call'.tries <= Retries
      BY <2>23 DEF AssignFallback, Calls, Verdicts
    <3> QED
      BY <2>23, <3>1, <3>2 DEF AssignFallback, Mutate, Goto
  <2>24. CASE AssignFallbackFails
    <3>1. mutations' \in [Tickets -> Nat]
      BY <2>24, BumpType DEF AssignFallbackFails, Mutate
    <3> QED
      BY <2>24, <3>1 DEF AssignFallbackFails, Fault, Mutate, Goto
  <2>25. CASE WriteFollowup
    <3>1. followups' \in [Tickets -> Nat]
      BY <2>25, BumpType DEF WriteFollowup
    <3> QED
      BY <2>25, <3>1 DEF WriteFollowup, Goto
  <2>26. CASE WriteFollowupFails
    <3>1. followups' \in [Tickets -> Nat]
      BY <2>26, BumpType DEF WriteFollowupFails
    <3> QED
      BY <2>26, <3>1 DEF WriteFollowupFails, Fault, Goto
  <2>27. CASE RecordDecision
    BY <2>27 DEF RecordDecision, Audited, Goto
  <2>28. CASE RecordFails
    <3>1. call' \in Calls /\ call'.tries <= Retries
      BY <2>28 DEF RecordFails, Calls, Verdicts
    <3>2. audit' \in [Tickets -> AuditStates]
      BY <2>28 DEF RecordFails, Audited
    <3> QED
      BY <2>28, <3>1, <3>2 DEF RecordFails, Fault, Goto
  <2>29. CASE ConsumeTicket
    <3>1. attempts' \in [Tickets -> Nat]
      BY <2>29, AttemptType DEF ConsumeTicket
    <3> QED
      BY <2>29, <3>1 DEF ConsumeTicket, Goto, Exhausted
  <2>30. CASE Release
    <3>1. /\ pc' \in PCs /\ cur' = NoTicket /\ call' = FreshCall
          /\ todo' \subseteq Tickets /\ dbFailures' \in Nat
      BY <2>30, NextOrTripAfterRelease DEF Release
    <3> QED
      BY <2>30, <3>1 DEF Release, SetRow
  <2>31. CASE ReleaseFails
    <3>1. /\ pc' \in PCs /\ cur' = NoTicket /\ call' = FreshCall
          /\ todo' \subseteq Tickets /\ dbFailures' \in Nat
      BY <2>31, NextOrTripAfterRelease DEF ReleaseFails
    <3> QED
      BY <2>31, <3>1 DEF ReleaseFails, Fault, SetRowFails
  <2>32. CASE MarkProcessed
    <3>1. /\ pc' \in PCs /\ cur' = NoTicket /\ call' = FreshCall
          /\ todo' \subseteq Tickets /\ dbFailures' \in Nat
      BY <2>32, NextOrTrip DEF MarkProcessed
    <3> QED
      BY <2>32, <3>1 DEF MarkProcessed, SetRow, SetAttempt
  <2>33. CASE MarkFails
    <3>1. /\ pc' \in PCs /\ cur' = NoTicket /\ call' = FreshCall
          /\ todo' \subseteq Tickets /\ dbFailures' \in Nat
      BY <2>33, NextOrTrip DEF MarkFails
    <3> QED
      BY <2>33, <3>1 DEF MarkFails, Fault, SetRowFails
  <2>34. CASE TicketRaised
    <3>1. attempts' \in [Tickets -> Nat]
      BY <2>34, AttemptType DEF TicketRaised
    <3> QED
      BY <2>34, <3>1 DEF TicketRaised, Exhausted, SetRow, AfterRaise, NextTicket
  <2>35. CASE TicketRaisedDbFails
    <3>1. attempts' \in [Tickets -> Nat]
      BY <2>35, AttemptType DEF TicketRaisedDbFails
    <3> QED
      BY <2>35, <3>1 DEF TicketRaisedDbFails, Fault, Exhausted, SetRowFails,
         AfterRaise, NextTicket
  <2>36. CASE TicketRaisedNoHandler
    BY <2>36 DEF TicketRaisedNoHandler, NextTicket
  <2>37. CASE TicketArrives
    BY <2>37 DEF TicketArrives
  <2>38. CASE TicketLeaves
    BY <2>38 DEF TicketLeaves
  <2>39. CASE CrashAndRestart
    BY <2>39 DEF CrashAndRestart, Fault, Finish
  <2>40. CASE UNCHANGED vars
    BY <2>40 DEF vars
  <2> QED
    BY <2>1, <2>2, <2>3, <2>4, <2>5, <2>6, <2>7, <2>8, <2>9, <2>10, <2>11, <2>12,
       <2>13, <2>14, <2>15, <2>16, <2>17, <2>18, <2>19, <2>20, <2>21, <2>22, <2>23,
       <2>24, <2>25, <2>26, <2>27, <2>28, <2>29, <2>30, <2>31, <2>32, <2>33, <2>34,
       <2>35, <2>36, <2>37, <2>38, <2>39, <2>40 DEF Next, PollerStep, Scan, Handle,
       Conclude
<1>3. QED
  BY <1>1, <1>2, PTL DEF Spec

\* No step of the cycle, of GLPI or of a crash breaks the invariant: answers are only
\* written under a reservation, and never before a point that can still release it.
LEMMA ReservationStep ==
  ASSUME ~ReadFaults, TypeOK, AnsweredKeepsRow, [Next]_vars
  PROVE  AnsweredKeepsRow'
<1> USE PollerAssumption, FreshCallType
    DEF TypeOK, AnsweredKeepsRow, Reserved, VerdictAtPoint, NotYetAnswered, AtMostOneFollowup,
        PCs, Owning, Handling, Retryable, glpiVars, cycleVars
<1>1. CASE StartCycle
  BY <1>1 DEF StartCycle, Window
<1>2. CASE SkipOutOfScope
  BY <1>2 DEF SkipOutOfScope, Head
<1>3. CASE SkipProcessed
  BY <1>3 DEF SkipProcessed, Head
<1>4. CASE PickTicket
  BY <1>4 DEF PickTicket, Head
<1>5. CASE ReadFails
  BY <1>5 DEF ReadFails, Fault, Head
<1>6. CASE EndCycle
  BY <1>6 DEF EndCycle, Finish
<1>7. CASE Claim
  <2>1. cur \in Tickets /\ row[cur] = "none" /\ followups[cur] = 0
    BY <1>7 DEF Claim
  <2>2. row'[cur] = "claimed" /\ \A t \in Tickets : row[t] # "none" => row'[t] # "none"
    BY <1>7, <2>1 DEF Claim, SetRow
  <2>3. pc' \in {"handle", "mark"} /\ UNCHANGED <<cur, call, followups>>
    BY <1>7 DEF Claim, Goto
  <2> QED
    BY <1>7, <2>1, <2>2, <2>3 DEF Claim
<1>8. CASE ClaimFails
  BY <1>8 DEF ClaimFails, Fault, SetRowFails, NextTicketUnlessTripped, NextTicket,
     Finish
<1>9. CASE RulesAlreadyApplied
  BY <1>9 DEF RulesAlreadyApplied, Goto
<1>10. CASE CostCapReached
  BY <1>10 DEF CostCapReached, Fault, Goto
<1>11. CASE BelowCostCap
  BY <1>11 DEF BelowCostCap, Goto
<1>12. CASE LlmAnswers
  BY <1>12 DEF LlmAnswers, Goto
<1>13. CASE LlmFails
  <2>1. CASE call.tries < Retries
    <3>1. call'.verdict = call.verdict
      BY <1>13, <2>1 DEF LlmFails, Calls
    <3> QED
      BY <1>13, <2>1, <3>1 DEF LlmFails, Goto
  <2>2. CASE ~(call.tries < Retries)
    <3>1. call'.verdict = "failed"
      BY <1>13, <2>2 DEF LlmFails, Calls
    <3> QED
      BY <1>13, <2>2, <3>1 DEF LlmFails, Goto
  <2> QED
    BY <2>1, <2>2
<1>14. CASE LlmRaises
  BY <1>14 DEF LlmRaises, Goto
<1>15. CASE JournalCalls
  BY <1>15 DEF JournalCalls, Goto, AfterJournal
<1>16. CASE JournalFails
  BY <1>16 DEF JournalFails, Fault, Goto, AfterJournal
<1>17. CASE ResolveMode
  BY <1>17 DEF ResolveMode, Goto
<1>18. CASE ModeFails
  BY <1>18 DEF ModeFails, Fault, Goto
<1>19. CASE ApplyFields
  <2>1. call'.verdict = call.verdict
    BY <1>19 DEF ApplyFields, Calls
  <2>2. pc' \in {"team", "followup"} /\ UNCHANGED <<cur, row, followups>>
    BY <1>19 DEF ApplyFields, Goto
  <2> QED
    BY <1>19, <2>1, <2>2 DEF ApplyFields
<1>20. CASE ApplyFails
  BY <1>20 DEF ApplyFails, Fault, Mutate, Goto
<1>21. CASE AssignTeam
  BY <1>21 DEF AssignTeam, Goto
<1>22. CASE AssignTeamFails
  BY <1>22 DEF AssignTeamFails, Fault, Goto
<1>23. CASE AssignFallback
  BY <1>23 DEF AssignFallback, Mutate, Goto
<1>24. CASE AssignFallbackFails
  BY <1>24 DEF AssignFallbackFails, Fault, Mutate, Goto
<1>25. CASE WriteFollowup
  BY <1>25 DEF WriteFollowup, Goto
<1>26. CASE WriteFollowupFails
  BY <1>26 DEF WriteFollowupFails, Fault, Goto
<1>27. CASE RecordDecision
  BY <1>27 DEF RecordDecision, Audited, Goto
<1>28. CASE RecordFails
  BY <1>28 DEF RecordFails, Fault, Audited, Goto
<1>29. CASE ConsumeTicket
  BY <1>29 DEF ConsumeTicket, Goto, CountAttempt, SetAttempt, Exhausted
<1>30. CASE Release
  BY <1>30 DEF Release, SetRow, AfterRelease, NextTicketUnlessTripped, NextTicket,
     Finish
<1>31. CASE ReleaseFails
  BY <1>31 DEF ReleaseFails, Fault, SetRowFails, AfterRelease,
     NextTicketUnlessTripped, NextTicket, Finish
<1>32. CASE MarkProcessed
  BY <1>32 DEF MarkProcessed, SetRow, SetAttempt, NextTicketUnlessTripped, NextTicket,
     Finish
<1>33. CASE MarkFails
  BY <1>33 DEF MarkFails, Fault, SetRowFails, NextTicketUnlessTripped, NextTicket,
     Finish
<1>34. CASE TicketRaised
  BY <1>34 DEF TicketRaised, CountAttempt, SetAttempt, Exhausted, SetRow, AfterRaise,
     NextTicket
<1>35. CASE TicketRaisedDbFails
  BY <1>35 DEF TicketRaisedDbFails, Fault, CountAttempt, SetAttempt, Exhausted,
     SetRowFails, AfterRaise, NextTicket
<1>36. CASE TicketRaisedNoHandler
  BY <1>36 DEF TicketRaisedNoHandler, NextTicket
<1>37. CASE TicketArrives
  BY <1>37 DEF TicketArrives
<1>38. CASE TicketLeaves
  BY <1>38 DEF TicketLeaves
<1>39. CASE CrashAndRestart
  BY <1>39 DEF CrashAndRestart, Fault, Finish
<1>40. CASE UNCHANGED vars
  BY <1>40 DEF vars
<1> QED
  BY <1>1, <1>2, <1>3, <1>4, <1>5, <1>6, <1>7, <1>8, <1>9, <1>10, <1>11, <1>12, <1>13,
     <1>14, <1>15, <1>16, <1>17, <1>18, <1>19, <1>20, <1>21, <1>22, <1>23, <1>24, <1>25,
     <1>26, <1>27, <1>28, <1>29, <1>30, <1>31, <1>32, <1>33, <1>34, <1>35, <1>36, <1>37,
     <1>38, <1>39, <1>40 DEF Next, PollerStep, Scan, Handle, Conclude

\* As long as reads of `processed_tickets` do not fail, an answered ticket keeps its
\* row, across crashes and failed commits.
THEOREM AnsweredRowInvariant ==
  ASSUME ~ReadFaults
  PROVE  Spec => []AnsweredKeepsRow
<1>1. Init => AnsweredKeepsRow
  BY FreshCallType DEF Init, AnsweredKeepsRow, Reserved, VerdictAtPoint, NotYetAnswered,
     AtMostOneFollowup, Owning, Handling, Retryable
<1>2. TypeOK /\ AnsweredKeepsRow /\ [Next]_vars => AnsweredKeepsRow'
  BY ReservationStep
<1>3. QED
  BY <1>1, <1>2, TypeCorrect, PTL DEF Spec

\* The requester never reads two answers (marking in two steps, poller.py and
\* idempotency.py), whatever fails except the read of is_processed.
THEOREM NoSecondAnswer ==
  ASSUME ~ReadFaults
  PROVE  Spec => []AtMostOneFollowup
<1>1. AnsweredKeepsRow => AtMostOneFollowup
  BY DEF AnsweredKeepsRow
<1>2. QED
  BY <1>1, AnsweredRowInvariant, PTL

\* The claim of the cycle precedes every GLPI write of the handler.
THEOREM EveryWriteIsReserved ==
  ASSUME ~ReadFaults
  PROVE  Spec => WritesAreReserved
<1>1. TypeOK /\ AnsweredKeepsRow /\ [Next]_vars => [WriteIsReserved]_vars
  <2> SUFFICES ASSUME TypeOK, AnsweredKeepsRow, Next PROVE WriteIsReserved
    BY DEF vars, WriteIsReserved
  <2> USE DEF TypeOK, AnsweredKeepsRow, Reserved, Owning, Handling, WriteIsReserved, glpiVars
  <2>1. CASE Scan
    BY <2>1 DEF Scan, StartCycle, SkipOutOfScope, SkipProcessed, PickTicket, ReadFails,
       EndCycle, Claim, ClaimFails
  <2>2. CASE RulesAlreadyApplied \/ CostCapReached \/ BelowCostCap \/ LlmAnswers \/ LlmFails
             \/ LlmRaises \/ JournalCalls \/ JournalFails \/ ResolveMode \/ ModeFails
             \/ AssignTeam \/ AssignTeamFails \/ RecordDecision \/ RecordFails
    BY <2>2 DEF RulesAlreadyApplied, CostCapReached, BelowCostCap, LlmAnswers, LlmFails,
       LlmRaises, JournalCalls, JournalFails, ResolveMode, ModeFails, AssignTeam,
       AssignTeamFails, RecordDecision, RecordFails
  <2>3. CASE ApplyFields \/ ApplyFails
    BY <2>3 DEF ApplyFields, ApplyFails, Mutate
  <2>4. CASE AssignFallback \/ AssignFallbackFails
    BY <2>4 DEF AssignFallback, AssignFallbackFails, Mutate
  <2>5. CASE WriteFollowup \/ WriteFollowupFails
    BY <2>5 DEF WriteFollowup, WriteFollowupFails
  <2>6. CASE Conclude
    BY <2>6 DEF Conclude, ConsumeTicket, Release, ReleaseFails, MarkProcessed, MarkFails,
       TicketRaised, TicketRaisedDbFails, TicketRaisedNoHandler
  <2>7. CASE TicketArrives \/ TicketLeaves \/ CrashAndRestart
    BY <2>7 DEF TicketArrives, TicketLeaves, CrashAndRestart
  <2> QED
    BY <2>1, <2>2, <2>3, <2>4, <2>5, <2>6, <2>7 DEF Next, PollerStep, Handle
<1>2. QED
  BY <1>1, TypeCorrect, AnsweredRowInvariant, PTL DEF Spec, WritesAreReserved
--------------------------------------------------------------------------------
(* TriagePoller implements TicketLedger: each step of the cycle maps to one operation of *)
(* the ledger or to a stutter. *)

LedgerMove == [Ledger!Next]_(Ledger!vars)

\* A step that touches neither the rows, nor the follow-ups, nor the ticket under
\* way is invisible in the ledger.
LEMMA LedgerStutters ==
  ASSUME UNCHANGED <<row, cur, followups>>
  PROVE  LedgerMove
BY DEF LedgerMove, Ledger!vars, LedgerStatus

\* Leaving the current ticket with row v is a release, a mark, an interruption, or
\* nothing at all.
LEMMA LeaveTicket ==
  ASSUME TypeOK, NEW t \in Tickets, cur = t, cur' = NoTicket, UNCHANGED followups,
         NEW v \in RowStates, row' = [row EXCEPT ![t] = v],
         row[t] = "none" => v \in {"none", "claimed"},
         row[t] = "claimed" /\ v = "none" => followups[t] = 0,
         row[t] # "done"
  PROVE  LedgerMove
<1>1. \A u \in Tickets : u # t => LedgerStatus(u)' = LedgerStatus(u)
  BY PollerAssumption DEF LedgerStatus, TypeOK, RowStates
<1>2. row'[t] = v /\ cur' # t /\ row[t] \in {"none", "claimed"}
  BY PollerAssumption DEF TypeOK, RowStates
<1>3. CASE row[t] = "none" /\ v = "none"
  <2>1. LedgerStatus(t)' = LedgerStatus(t)
    BY <1>2, <1>3 DEF LedgerStatus
  <2>2. \A u \in Tickets : LedgerStatus(u)' = LedgerStatus(u)
    BY <1>1, <2>1
  <2> QED
    BY <2>2 DEF LedgerMove, Ledger!vars
<1>4. CASE v = "claimed"
  <2>1. LedgerStatus(t) \in {"open", "inflight"} /\ LedgerStatus(t)' = "orphan"
    BY <1>2, <1>4 DEF LedgerStatus
  <2>2. Ledger!Strand(t)
    BY <1>1, <2>1 DEF Ledger!Strand
  <2> QED
    BY <2>2 DEF LedgerMove, Ledger!Next
<1>5. CASE row[t] = "claimed" /\ v = "none"
  <2>1. LedgerStatus(t) = "inflight" /\ LedgerStatus(t)' = "open" /\ ~(followups[t] > 0)
    BY <1>2, <1>5 DEF LedgerStatus
  <2>2. Ledger!Reopen(t)
    BY <1>1, <2>1 DEF Ledger!Reopen
  <2> QED
    BY <2>2 DEF LedgerMove, Ledger!Next
<1>6. CASE row[t] = "claimed" /\ v = "done"
  <2>1. LedgerStatus(t) = "inflight" /\ LedgerStatus(t)' = "settled"
    BY <1>2, <1>6 DEF LedgerStatus
  <2>2. Ledger!Settle(t)
    BY <1>1, <2>1 DEF Ledger!Settle
  <2> QED
    BY <2>2 DEF LedgerMove, Ledger!Next
<1> QED
  BY <1>2, <1>3, <1>4, <1>5, <1>6 DEF RowStates

\* The polling cycle implements the ledger of tickets: it answers under a reservation
\* it took, reopens only unanswered tickets, and never revives settled or orphan ones.
THEOREM PollerImplementsLedger ==
  ASSUME ~ReadFaults
  PROVE  Spec => LedgerSpec
<1>1. Init => Ledger!Init
  <2> SUFFICES ASSUME Init PROVE Ledger!Init
    OBVIOUS
  <2>1. \A t \in Tickets : LedgerStatus(t) = "open" /\ ~(followups[t] > 0)
    BY DEF Init, LedgerStatus
  <2>2. [t \in Tickets |-> LedgerStatus(t)] = [t \in Tickets |-> "open"]
    BY <2>1
  <2>3. {t \in Tickets : followups[t] > 0} = {}
    BY <2>1
  <2> QED
    BY <2>2, <2>3 DEF Ledger!Init
<1>2. TypeOK /\ AnsweredKeepsRow /\ [Next]_vars => LedgerMove
  <2> SUFFICES ASSUME TypeOK, AnsweredKeepsRow, [Next]_vars PROVE LedgerMove
    OBVIOUS
  <2> USE DEF AnsweredKeepsRow, Reserved, Owning, Handling, glpiVars
  <2>1. CASE StartCycle \/ SkipOutOfScope \/ SkipProcessed
    BY <2>1, LedgerStutters DEF StartCycle, SkipOutOfScope, SkipProcessed
  <2>2. CASE PickTicket
    <3>1. cur = NoTicket /\ cur' \in Tickets /\ row[cur'] = "none" /\ UNCHANGED row
      BY <2>2 DEF PickTicket, Head, TypeOK
    <3>2. \A t \in Tickets : LedgerStatus(t)' = LedgerStatus(t)
      BY <3>1, PollerAssumption DEF LedgerStatus
    <3>3. UNCHANGED followups
      BY <2>2 DEF PickTicket
    <3> QED
      BY <3>2, <3>3 DEF LedgerMove, Ledger!vars
  <2>3. CASE ReadFails
    BY <2>3 DEF ReadFails
  <2>4. CASE EndCycle
    BY <2>4, LedgerStutters DEF EndCycle, Finish
  <2>5. CASE Claim
    <3>1. PICK t \in Tickets : cur = t /\ row[t] = "none"
      BY <2>5 DEF Claim
    <3>2. cur' = t /\ UNCHANGED followups /\ row' = [row EXCEPT ![t] = "claimed"]
      BY <2>5, <3>1 DEF Claim, Goto, SetRow
    <3>3. LedgerStatus(t) = "open" /\ LedgerStatus(t)' = "inflight"
      BY <3>1, <3>2 DEF LedgerStatus, TypeOK
    <3>4. \A u \in Tickets :
            u # t => LedgerStatus(u)' = LedgerStatus(u) /\ LedgerStatus(u) # "inflight"
      BY <3>1, <3>2 DEF LedgerStatus, TypeOK, RowStates
    <3>5. Ledger!Take(t)
      BY <3>2, <3>3, <3>4 DEF Ledger!Take
    <3> QED
      BY <3>5 DEF LedgerMove, Ledger!Next
  <2>6. CASE ClaimFails
    <3>1. cur \in Tickets /\ row[cur] = "none" /\ UNCHANGED followups /\ cur' = NoTicket
      BY <2>6, NextOrTrip DEF ClaimFails, TypeOK
    <3>2. PICK v \in {"none", "claimed"} : row' = [row EXCEPT ![cur] = v]
      BY <2>6, <3>1 DEF ClaimFails, SetRowFails, TypeOK
    <3> QED
      BY <3>1, <3>2, LeaveTicket DEF RowStates
  <2>7. CASE Handle /\ UNCHANGED followups
    <3>1. UNCHANGED <<row, cur>>
      BY <2>7 DEF Handle, RulesAlreadyApplied, CostCapReached, BelowCostCap, LlmAnswers,
         LlmFails, LlmRaises, JournalCalls, JournalFails, ResolveMode, ModeFails,
         ApplyFields, ApplyFails, AssignTeam, AssignTeamFails, AssignFallback,
         AssignFallbackFails, WriteFollowup, WriteFollowupFails, RecordDecision,
         RecordFails, Goto
    <3> QED
      BY <2>7, <3>1, LedgerStutters
  <2>8. CASE (WriteFollowup \/ WriteFollowupFails) /\ followups' # followups
    <3>1. PICK t \in Tickets : cur = t /\ row[t] = "claimed" /\ followups[t] = 0
      BY <2>8 DEF WriteFollowup, WriteFollowupFails, NotYetAnswered
    <3>2. UNCHANGED <<row, cur>> /\ followups' = [followups EXCEPT ![t] = @ + 1]
      BY <2>8, <3>1 DEF WriteFollowup, WriteFollowupFails, Goto
    <3>3. \A u \in Tickets : LedgerStatus(u)' = LedgerStatus(u)
      BY <3>2 DEF LedgerStatus
    <3>4. LedgerStatus(t) = "inflight"
      BY <3>1 DEF LedgerStatus
    <3>5. followups'[t] > 0 /\ \A u \in Tickets : u # t => followups'[u] = followups[u]
      BY <3>1, <3>2 DEF TypeOK
    <3>6. {u \in Tickets : followups'[u] > 0}
            = {u \in Tickets : followups[u] > 0} \cup {t}
      BY <3>5
    <3>7. Ledger!Answer(t)
      BY <3>1, <3>3, <3>4, <3>6 DEF Ledger!Answer
    <3> QED
      BY <3>7 DEF LedgerMove, Ledger!Next
  <2>9. CASE Handle /\ followups' # followups
    <3>1. WriteFollowup \/ WriteFollowupFails
      BY <2>9 DEF Handle, RulesAlreadyApplied, CostCapReached, BelowCostCap, LlmAnswers,
         LlmFails, LlmRaises, JournalCalls, JournalFails, ResolveMode, ModeFails,
         ApplyFields, ApplyFails, AssignTeam, AssignTeamFails, AssignFallback,
         AssignFallbackFails, RecordDecision, RecordFails
    <3> QED
      BY <2>8, <2>9, <3>1
  <2>10. CASE ConsumeTicket
    BY <2>10, LedgerStutters DEF ConsumeTicket, Goto
  <2>11. CASE Release \/ ReleaseFails
    <3>1. cur \in Tickets /\ row[cur] = "claimed" /\ followups[cur] = 0
      BY <2>11 DEF Release, ReleaseFails, NotYetAnswered
    <3>2. UNCHANGED followups /\ cur' = NoTicket
      BY <2>11, NextOrTripAfterRelease DEF Release, ReleaseFails
    <3>3. PICK v \in {"none", "claimed"} : row' = [row EXCEPT ![cur] = v]
      BY <2>11, <3>1 DEF Release, ReleaseFails, SetRow, SetRowFails, TypeOK
    <3> QED
      BY <3>1, <3>2, <3>3, LeaveTicket DEF RowStates
  <2>12. CASE MarkProcessed \/ MarkFails
    <3>1. cur \in Tickets /\ row[cur] = "claimed" /\ UNCHANGED followups
      BY <2>12 DEF MarkProcessed, MarkFails
    <3>2. PICK n \in Nat : NextTicketUnlessTripped(n)
      BY <2>12 DEF MarkProcessed, MarkFails, TypeOK
    <3>3. cur' = NoTicket
      BY <3>2, NextOrTrip
    <3>4. PICK v \in {"claimed", "done"} : row' = [row EXCEPT ![cur] = v]
      BY <2>12, <3>1 DEF MarkProcessed, MarkFails, SetRow, SetRowFails, TypeOK
    <3> QED
      BY <3>1, <3>3, <3>4, LeaveTicket DEF RowStates
  <2>13. CASE TicketRaised \/ TicketRaisedDbFails \/ TicketRaisedNoHandler
    <3>1. cur \in Tickets /\ row[cur] = "claimed" /\ followups[cur] = 0
      BY <2>13 DEF TicketRaised, TicketRaisedDbFails, TicketRaisedNoHandler, NotYetAnswered
    <3>2. UNCHANGED followups /\ cur' = NoTicket
      BY <2>13 DEF TicketRaised, TicketRaisedDbFails, TicketRaisedNoHandler, NextTicket
    <3>3. PICK v \in RowStates : row' = [row EXCEPT ![cur] = v]
      BY <2>13, <3>1 DEF TicketRaised, TicketRaisedDbFails, TicketRaisedNoHandler, SetRow,
         SetRowFails, AfterRaise, TypeOK, RowStates
    <3> QED
      BY <3>1, <3>2, <3>3, LeaveTicket DEF RowStates
  <2>14. CASE TicketArrives \/ TicketLeaves \/ UNCHANGED vars
    BY <2>14, LedgerStutters DEF TicketArrives, TicketLeaves, vars
  <2>15. CASE CrashAndRestart
    <3>1. UNCHANGED <<row, followups>> /\ cur' = NoTicket
      BY <2>15 DEF CrashAndRestart, Finish
    <3>2. CASE cur = NoTicket
      BY <3>1, <3>2, LedgerStutters
    <3>3. CASE cur # NoTicket
      <4>1. cur \in Tickets /\ row[cur] \in {"none", "claimed"}
        BY <3>3 DEF TypeOK, PCs
      <4>2. row' = [row EXCEPT ![cur] = row[cur]]
        BY <3>1 DEF TypeOK
      <4> QED
        BY <3>1, <4>1, <4>2, LeaveTicket DEF RowStates
    <3> QED
      BY <3>2, <3>3
  <2> QED
    BY <2>1, <2>2, <2>3, <2>4, <2>5, <2>6, <2>7, <2>9, <2>10, <2>11, <2>12, <2>13, <2>14,
       <2>15 DEF Next, PollerStep, Scan, Conclude
<1>3. QED
  BY <1>1, <1>2, TypeCorrect, AnsweredRowInvariant, PTL
  DEF Spec, LedgerSpec, Ledger!Spec, LedgerMove

--------------------------------------------------------------------------------
(* The journal accounts for the changes of GLPI. *)

\* What makes MutationIsAudited inductive: a ticket that was changed keeps its row; it is
\* not changed yet at any point from which it can be released; from the change on the
\* handler remembers it (mutated), until the journal does.
ChangeIsKnown ==
  /\ \A t \in Tickets : mutations[t] > 0 =>
       row[t] # "none" /\ (row[t] = "done" => audit[t] # "none")
  /\ pc \in {"handle", "llm", "journal", "mode", "apply", "assign", "raise", "release"} =>
       mutations[cur] = 0
  /\ pc \in {"record", "settle"} /\ call.verdict \in Retryable => mutations[cur] = 0
  /\ pc \in {"followup", "record"} /\ mutations[cur] > 0 => call.mutated
  /\ pc \in {"settle", "mark"} /\ mutations[cur] > 0 => audit[cur] # "none"

\* Leaving a ticket, whatever becomes of its row: what was changed is in the journal, or
\* nothing was and the row may go.
LEMMA ChangeLeaves ==
  ASSUME TypeOK, ChangeIsKnown, pc' \in {"idle", "scan"}, UNCHANGED <<mutations, audit>>,
         NEW v \in RowStates, row' = [row EXCEPT ![cur] = v],
         cur \in Tickets /\ mutations[cur] > 0 =>
           v # "none" /\ (v = "done" => audit[cur] # "none")
  PROVE  ChangeIsKnown'
<1>1. \A t \in Tickets : mutations'[t] > 0 =>
        row'[t] # "none" /\ (row'[t] = "done" => audit'[t] # "none")
  BY DEF TypeOK, ChangeIsKnown
<1> QED
  BY <1>1 DEF ChangeIsKnown

LEMMA ChangeHandled ==
  ASSUME ~LostAcks, TypeOK, AnsweredKeepsRow, ChangeIsKnown, Handle
  PROVE  ChangeIsKnown'
<1> USE DEF ChangeIsKnown, Retryable, glpiVars, cycleVars
<1>1. pc \in Handling /\ cur \in Tickets /\ row[cur] = "claimed" /\ UNCHANGED <<row, cur>>
  BY DEF AnsweredKeepsRow, Reserved, Owning, Handling, Handle, RulesAlreadyApplied,
     CostCapReached, BelowCostCap, LlmAnswers, LlmFails, LlmRaises, JournalCalls,
     JournalFails, ResolveMode, ModeFails, ApplyFields, ApplyFails, AssignTeam,
     AssignTeamFails, AssignFallback, AssignFallbackFails, WriteFollowup,
     WriteFollowupFails, RecordDecision, RecordFails, Goto
<1>2. CASE RulesAlreadyApplied \/ CostCapReached \/ BelowCostCap
  <2>1. mutations[cur] = 0 /\ UNCHANGED <<mutations, audit>> /\ pc' \in {"settle", "llm"}
    BY <1>2 DEF RulesAlreadyApplied, CostCapReached, BelowCostCap, Goto
  <2> QED
    BY <1>1, <2>1
<1>3. CASE LlmAnswers \/ LlmFails \/ LlmRaises
  BY <1>3 DEF LlmAnswers, LlmFails, LlmRaises, Goto
<1>4. CASE JournalCalls \/ JournalFails \/ ResolveMode \/ ModeFails
  <2>1. pc \in {"journal", "mode"} /\ mutations[cur] = 0 /\ UNCHANGED <<mutations, audit>>
        /\ pc' \in {"record", "mode", "apply", "assign", "followup", "raise"}
    BY <1>4 DEF JournalCalls, JournalFails, ResolveMode, ModeFails, Goto, AfterJournal
  <2> QED
    BY <1>1, <2>1
<1>5. CASE ApplyFields \/ AssignFallback
  <2>1. /\ \A t \in Tickets : t # cur => mutations'[t] = mutations[t]
        /\ pc' = "team" \/ (pc' = "followup" /\ call'.mutated)
        /\ UNCHANGED audit
    BY <1>5 DEF ApplyFields, AssignFallback, Mutate, Goto, TypeOK, Calls
  <2> QED
    BY <1>1, <2>1
<1>6. CASE ApplyFails \/ AssignFallbackFails
  <2>1. mutations[cur] = 0 /\ UNCHANGED <<mutations, audit>> /\ pc' \in {"raise", "followup"}
    BY <1>6 DEF ApplyFails, AssignFallbackFails, Goto
  <2> QED
    BY <1>1, <2>1
<1>7. CASE AssignTeam \/ AssignTeamFails
  <2>1. call'.mutated /\ call'.verdict = call.verdict
    BY <1>7 DEF AssignTeam, AssignTeamFails, TypeOK, Calls
  <2>2. pc = "team" /\ pc' \in {"followup", "record"} /\ UNCHANGED <<mutations, audit>>
    BY <1>7 DEF AssignTeam, AssignTeamFails, Goto
  <2>3. call.verdict \in {"accepted", "rejected"}
    BY <2>2 DEF AnsweredKeepsRow, VerdictAtPoint
  <2> QED
    BY <1>1, <2>1, <2>2, <2>3
<1>8. CASE WriteFollowup \/ WriteFollowupFails
  <2>1. pc = "followup" /\ pc' = "record" /\ UNCHANGED <<mutations, audit, call>>
    BY <1>8 DEF WriteFollowup, WriteFollowupFails, Goto
  <2>2. call.verdict \in {"accepted", "rejected"}
    BY <2>1 DEF AnsweredKeepsRow, VerdictAtPoint
  <2> QED
    BY <1>1, <2>1, <2>2
<1>9. CASE RecordDecision \/ RecordFails
  <2>1. PICK entry \in {"applied", "lost"} : Audited(entry)
    BY <1>9 DEF RecordDecision, RecordFails
  <2>2. /\ call.mutated => audit'[cur] # "none"
        /\ \A t \in Tickets : audit[t] # "none" => audit'[t] # "none"
    BY <1>1, <2>1 DEF Audited, TypeOK
  <2>3. pc = "record" /\ pc' = "settle" /\ UNCHANGED mutations /\ call'.verdict = call.verdict
    BY <1>9 DEF RecordDecision, RecordFails, Goto, TypeOK, Calls
  <2> QED
    BY <1>1, <2>2, <2>3
<1> QED
  BY <1>2, <1>3, <1>4, <1>5, <1>6, <1>7, <1>8, <1>9 DEF Handle

LEMMA ChangeStep ==
  ASSUME ~ReadFaults, ~LostAcks, TypeOK, AnsweredKeepsRow, ChangeIsKnown, [Next]_vars
  PROVE  ChangeIsKnown'
<1> USE DEF glpiVars, cycleVars
<1>1. CASE StartCycle \/ SkipOutOfScope \/ SkipProcessed \/ PickTicket \/ ReadFails \/ EndCycle
  <2>1. pc' \in {"idle", "scan", "claim"} /\ UNCHANGED <<mutations, row, audit>>
    BY <1>1 DEF StartCycle, SkipOutOfScope, SkipProcessed, PickTicket, ReadFails, EndCycle,
       Finish, Head
  <2> QED
    BY <2>1 DEF ChangeIsKnown
<1>2. CASE Claim
  <2>1. cur \in Tickets /\ row[cur] = "none" /\ mutations[cur] = 0
    BY <1>2 DEF Claim, AnsweredKeepsRow, Reserved, ChangeIsKnown, TypeOK
  <2>2. pc' \in {"handle", "mark"} /\ UNCHANGED <<cur, call, mutations, audit>>
        /\ row' = [row EXCEPT ![cur] = "claimed"]
    BY <1>2 DEF Claim, Goto, SetRow
  <2> QED
    BY <2>1, <2>2 DEF ChangeIsKnown, TypeOK
<1>3. CASE ClaimFails
  <2>1. cur \in Tickets /\ row[cur] = "none" /\ mutations[cur] = 0
    BY <1>3 DEF ClaimFails, AnsweredKeepsRow, Reserved, ChangeIsKnown, TypeOK
  <2>2. pc' \in {"idle", "scan"} /\ UNCHANGED <<mutations, audit>>
    BY <1>3, NextOrTrip DEF ClaimFails, TypeOK
  <2>3. PICK v \in RowStates : row' = [row EXCEPT ![cur] = v]
    BY <1>3, <2>1 DEF ClaimFails, SetRowFails, TypeOK, RowStates
  <2>4. ~(mutations[cur] > 0)
    BY <2>1
  <2> QED
    BY <2>1, <2>2, <2>3, <2>4, ChangeLeaves
<1>4. CASE ConsumeTicket
  <2>1. pc = "settle" /\ UNCHANGED <<cur, mutations, row, audit>> /\ pc' \in {"mark", "release"}
        /\ (pc' = "release" => call.verdict \in Retryable)
    BY <1>4 DEF ConsumeTicket, Goto, Retryable
  <2> QED
    BY <2>1 DEF ChangeIsKnown
<1>5. CASE Release \/ ReleaseFails \/ MarkProcessed \/ MarkFails
  <2>1. cur \in Tickets /\ row[cur] = "claimed" /\ UNCHANGED <<mutations, audit>>
    BY <1>5 DEF Release, ReleaseFails, MarkProcessed, MarkFails, AnsweredKeepsRow, Reserved, Owning
  <2>2. pc' \in {"idle", "scan"}
    BY <1>5, NextOrTrip, NextOrTripAfterRelease
    DEF Release, ReleaseFails, MarkProcessed, MarkFails, TypeOK
  <2>3. CASE pc = "release"
    <3>1. mutations[cur] = 0
      BY <2>3 DEF ChangeIsKnown
    <3>2. PICK v \in RowStates : row' = [row EXCEPT ![cur] = v]
      BY <1>5, <2>1, <2>3
      DEF Release, ReleaseFails, MarkProcessed, MarkFails, SetRow, SetRowFails, TypeOK, RowStates
    <3>3. ~(mutations[cur] > 0)
      BY <3>1
    <3> QED
      BY <2>1, <2>2, <3>2, <3>3, ChangeLeaves
  <2>4. CASE pc = "mark"
    <3>1. PICK v \in {"claimed", "done"} : row' = [row EXCEPT ![cur] = v]
      BY <1>5, <2>1, <2>4
      DEF Release, ReleaseFails, MarkProcessed, MarkFails, SetRow, SetRowFails, TypeOK
    <3>2. mutations[cur] > 0 => audit[cur] # "none"
      BY <2>4 DEF ChangeIsKnown
    <3> QED
      BY <2>1, <2>2, <3>1, <3>2, ChangeLeaves DEF RowStates
  <2> QED
    BY <1>5, <2>3, <2>4 DEF Release, ReleaseFails, MarkProcessed, MarkFails
<1>6. CASE TicketRaised \/ TicketRaisedDbFails \/ TicketRaisedNoHandler
  <2>1. cur \in Tickets /\ row[cur] = "claimed" /\ mutations[cur] = 0 /\ UNCHANGED <<mutations, audit>>
    BY <1>6 DEF TicketRaised, TicketRaisedDbFails, TicketRaisedNoHandler, AnsweredKeepsRow,
       Reserved, ChangeIsKnown
  <2>2. pc' = "scan"
    BY <1>6 DEF TicketRaised, TicketRaisedDbFails, TicketRaisedNoHandler, NextTicket
  <2>3. PICK v \in RowStates : row' = [row EXCEPT ![cur] = v]
    BY <1>6, <2>1 DEF TicketRaised, TicketRaisedDbFails, TicketRaisedNoHandler, SetRow,
       SetRowFails, AfterRaise, TypeOK, RowStates
  <2>4. ~(mutations[cur] > 0)
    BY <2>1
  <2> QED
    BY <2>1, <2>2, <2>3, <2>4, ChangeLeaves
<1>7. CASE TicketArrives \/ TicketLeaves \/ UNCHANGED vars
  BY <1>7 DEF TicketArrives, TicketLeaves, vars, ChangeIsKnown
<1>8. CASE CrashAndRestart
  BY <1>8 DEF CrashAndRestart, Finish, ChangeIsKnown
<1> QED
  BY <1>1, <1>2, <1>3, <1>4, <1>5, <1>6, <1>7, <1>8, ChangeHandled
  DEF Next, PollerStep, Scan, Conclude

\* The journal accounts for every ticket the engine has changed in GLPI and is done with
\* (record_decision, ItsmPartialApplyError), whatever fails and wherever the process is
\* killed, except that GLPI loses no answer to a write and is_processed can be read.
THEOREM EveryMutationIsAudited ==
  ASSUME ~ReadFaults, ~LostAcks
  PROVE  Spec => []MutationIsAudited
<1>1. Init => ChangeIsKnown
  BY DEF Init, ChangeIsKnown
<1>2. TypeOK /\ AnsweredKeepsRow /\ ChangeIsKnown /\ [Next]_vars => ChangeIsKnown'
  BY ChangeStep
<1>3. ChangeIsKnown => MutationIsAudited
  BY DEF ChangeIsKnown, MutationIsAudited
<1> QED
  BY <1>1, <1>2, <1>3, TypeCorrect, AnsweredRowInvariant, PTL DEF Spec

-----------------------------------------------------------------------------
(* What the LLM calls cost: tries are only used up by triages that were    *)
(* paid for, and no ticket is paid for more than MaxAttempts * (Retries + 1) *)
(* times by one process.                                                   *)

\* The number of calls of n full triages: a linear function, hence monotone.
LEMMA CallsOfFacts ==
  /\ CallsOf(0) = 0
  /\ \A n \in Nat : CallsOf(n) \in Nat /\ CallsOf(n + 1) = CallsOf(n) + Retries + 1
  /\ \A m, n \in Nat : m <= n => CallsOf(m) <= CallsOf(n)
<1>1. CallsOf(0) = 0
  BY PollerAssumption DEF CallsOf
<1>2. ASSUME NEW n \in Nat
      PROVE  CallsOf(n) \in Nat /\ CallsOf(n + 1) = CallsOf(n) + Retries + 1
  BY PollerAssumption DEF CallsOf
<1>3. ASSUME NEW m \in Nat, NEW n \in Nat, m <= n
      PROVE  CallsOf(m) <= CallsOf(n)
  <2>1. PICK d \in Nat : n = m + d
    BY <1>3
  <2>2. n * (Retries + 1) = m * (Retries + 1) + d * (Retries + 1)
    BY <2>1, PollerAssumption
  <2>3. d * (Retries + 1) \in Nat /\ m * (Retries + 1) \in Nat
    BY PollerAssumption
  <2> QED
    BY <2>2, <2>3 DEF CallsOf
<1> QED
  BY <1>1, <1>2, <1>3

\* One more call of the ticket under way: its triage now counts as paid.
LEMMA OneMoreCall ==
  ASSUME ~ReadFaults, TypeOK, AnsweredKeepsRow, TriesMatchBill, pc = "llm",
         billed' = [billed EXCEPT ![cur] = @ + 1], UNCHANGED <<attempts, row, cur>>
  PROVE  /\ \A t \in Tickets : TicketBill(t)'
         /\ attempts'[cur'] < billed'[cur']
         /\ attempts'[cur'] < MaxAttempts
         /\ CallsOf(attempts'[cur']) \in Nat /\ call.tries \in Nat
         /\ billed'[cur'] <= CallsOf(attempts'[cur']) + (call.tries + 1)
         /\ billed'[cur'] <= CallsOf(attempts'[cur'] + 1)
<1> USE PollerAssumption DEF TypeOK, TriesMatchBill
<1>1. cur \in Tickets /\ row[cur] = "claimed"
  BY DEF AnsweredKeepsRow, Reserved, Owning, Handling
<1>2. PICK a \in Nat : a = attempts[cur] /\ a < MaxAttempts
  BY <1>1
<1>3. PICK b \in Nat : b = billed[cur] /\ a <= b /\ b <= CallsOf(a) + call.tries
  BY <1>1, <1>2 DEF TicketBill
<1>4. billed'[cur] = b + 1 /\ call.tries \in Nat /\ call.tries <= Retries
  BY <1>1, <1>3 DEF Calls
<1>5. a + 1 \in Nat /\ MaxAttempts \in Nat /\ a + 1 <= MaxAttempts
  BY <1>2
<1>6. CallsOf(a) \in Nat /\ CallsOf(a + 1) = CallsOf(a) + Retries + 1
      /\ CallsOf(a + 1) <= CallsOf(MaxAttempts) /\ CallsOf(MaxAttempts) \in Nat
  BY <1>5, CallsOfFacts
<1>7. TicketBill(cur)'
  BY <1>1, <1>2, <1>3, <1>4, <1>6 DEF TicketBill
<1>8. ASSUME NEW t \in Tickets, t # cur PROVE TicketBill(t)'
  BY <1>8 DEF TicketBill
<1> QED
  BY <1>1, <1>2, <1>3, <1>4, <1>6, <1>7, <1>8

\* Leaving the ticket: only its own row and tries matter.
LEMMA LeaveBill ==
  ASSUME TypeOK, AnsweredKeepsRow, TriesMatchBill, cur \in Tickets,
         pc' \in {"idle", "scan"}, call' = FreshCall, UNCHANGED billed,
         NEW v \in RowStates, row' = [row EXCEPT ![cur] = v],
         NEW a \in Nat, attempts' = [attempts EXCEPT ![cur] = a],
         a <= billed[cur],
         v = "none" => a < MaxAttempts /\ billed[cur] <= CallsOf(a)
  PROVE  TriesMatchBill'
<1>1. \A t \in Tickets : TicketBill(t)'
  BY DEF TypeOK, TriesMatchBill, TicketBill
<1> QED
  BY <1>1, FreshCallType DEF TriesMatchBill, TriageWasPaid, PaidPoints

\* Facts about the ticket under way, and the points they hold at.
LEMMA TicketUnderWay ==
  ASSUME ~ReadFaults, TypeOK, AnsweredKeepsRow, TriesMatchBill,
         pc \in Owning \cup {"claim", "raise"}
  PROVE  /\ cur \in Tickets
         /\ row[cur] = IF pc = "claim" THEN "none" ELSE "claimed"
         /\ attempts[cur] \in Nat /\ billed[cur] \in Nat /\ attempts[cur] <= billed[cur]
         /\ pc \in {"claim", "release"} =>
              attempts[cur] < MaxAttempts /\ billed[cur] <= CallsOf(attempts[cur])
         /\ pc = "raise" =>
              /\ attempts[cur] < MaxAttempts
              /\ attempts[cur] + 1 <= billed[cur]
              /\ billed[cur] <= CallsOf(attempts[cur] + 1)
<1>1. cur \in Tickets /\ row[cur] = IF pc = "claim" THEN "none" ELSE "claimed"
  BY DEF AnsweredKeepsRow, Reserved, Owning, Handling
<1>2. attempts[cur] \in Nat /\ billed[cur] \in Nat /\ TicketBill(cur)
  BY <1>1 DEF TypeOK, TriesMatchBill
<1> QED
  BY <1>1, <1>2 DEF TicketBill, TriesMatchBill, TriageWasPaid, PaidPoints

\* Reserving a ticket starts a triage within the calls its tries leave.
LEMMA BillClaim ==
  ASSUME ~ReadFaults, TypeOK, AnsweredKeepsRow, TriesMatchBill, Claim
  PROVE  TriesMatchBill'
<1>1. /\ cur \in Tickets /\ row[cur] = "none" /\ attempts[cur] < MaxAttempts
      /\ billed[cur] <= CallsOf(attempts[cur]) /\ call.tries = 0
  BY TicketUnderWay DEF Claim, Owning, TriesMatchBill
<1>2. pc' \in {"handle", "mark"} /\ UNCHANGED <<cur, call, attempts, billed>>
  BY DEF Claim, Goto
<1>3. row' = [row EXCEPT ![cur] = "claimed"]
  BY DEF Claim, SetRow
<1>4. \A t \in Tickets : TicketBill(t)'
  BY <1>1, <1>2, <1>3 DEF TypeOK, TriesMatchBill, TicketBill
<1>5. attempts[cur] \in Nat /\ CallsOf(attempts[cur]) \in Nat
  BY <1>1, CallsOfFacts DEF TypeOK
<1>6. billed[cur] <= CallsOf(attempts[cur]) + call.tries
  BY <1>1, <1>5
<1> QED
  BY <1>1, <1>2, <1>4, <1>6 DEF TriesMatchBill, TriageWasPaid, PaidPoints

\* The ways to leave a ticket: its claim, its release or its mark fails, or not.
LEMMA BillLeave ==
  ASSUME ~ReadFaults, TypeOK, AnsweredKeepsRow, TriesMatchBill,
         ClaimFails \/ Release \/ ReleaseFails \/ MarkProcessed \/ MarkFails
  PROVE  TriesMatchBill'
<1>1. /\ cur \in Tickets
      /\ attempts[cur] \in Nat /\ billed[cur] \in Nat /\ attempts[cur] <= billed[cur]
      /\ pc = "mark" => row[cur] = "claimed"
      /\ pc # "mark" =>
           attempts[cur] < MaxAttempts /\ billed[cur] <= CallsOf(attempts[cur])
  BY TicketUnderWay DEF ClaimFails, Release, ReleaseFails, MarkProcessed, MarkFails, Owning
<1>2. pc' \in {"idle", "scan"} /\ call' = FreshCall
  <2>1. CASE ClaimFails \/ MarkFails
    BY <2>1, NextOrTrip DEF ClaimFails, MarkFails, TypeOK
  <2>2. CASE MarkProcessed
    <3>1. PICK n \in Nat : NextTicketUnlessTripped(n)
      BY <2>2 DEF MarkProcessed, TypeOK
    <3> QED
      BY <3>1, NextOrTrip
  <2>3. CASE Release \/ ReleaseFails
    BY <2>3, NextOrTripAfterRelease DEF Release, ReleaseFails
  <2> QED
    BY <2>1, <2>2, <2>3
<1>3. UNCHANGED billed
  BY DEF ClaimFails, Release, ReleaseFails, MarkProcessed, MarkFails
<1>4. CASE MarkProcessed
  <2>1. attempts' = [attempts EXCEPT ![cur] = 0] /\ row' = [row EXCEPT ![cur] = "done"]
    BY <1>4 DEF MarkProcessed, SetAttempt, SetRow
  <2>2. "done" \in RowStates /\ "done" # "none" /\ 0 \in Nat /\ 0 <= billed[cur]
    BY <1>1 DEF RowStates
  <2> QED
    BY <1>1, <1>2, <1>3, <2>1, <2>2, LeaveBill
<1>5. CASE ~MarkProcessed
  <2>1. attempts' = [attempts EXCEPT ![cur] = attempts[cur]]
    BY <1>5 DEF ClaimFails, Release, ReleaseFails, MarkFails, TypeOK
  <2>2. PICK v \in RowStates : row' = [row EXCEPT ![cur] = v] /\ (pc = "mark" => v # "none")
    <3>1. row = [row EXCEPT ![cur] = row[cur]] /\ row[cur] \in RowStates
      BY <1>1 DEF TypeOK
    <3> QED
      BY <1>1, <1>5, <3>1 DEF ClaimFails, Release, ReleaseFails, MarkFails, SetRow,
         SetRowFails, RowStates
  <2>3. v = "none" => attempts[cur] < MaxAttempts /\ billed[cur] <= CallsOf(attempts[cur])
    BY <1>1, <2>2
  <2> QED
    BY <1>1, <1>2, <1>3, <2>1, <2>2, <2>3, LeaveBill
<1> QED
  BY <1>4, <1>5

\* An exception around the ticket uses up a try its triage has paid for.
LEMMA BillRaised ==
  ASSUME ~ReadFaults, TypeOK, AnsweredKeepsRow, TriesMatchBill,
         TicketRaised \/ TicketRaisedDbFails
  PROVE  TriesMatchBill'
<1>1. /\ cur \in Tickets /\ row[cur] = "claimed"
      /\ attempts[cur] \in Nat /\ billed[cur] \in Nat /\ attempts[cur] + 1 <= billed[cur]
      /\ billed[cur] <= CallsOf(attempts[cur] + 1)
  BY TicketUnderWay DEF TicketRaised, TicketRaisedDbFails
<1>2. /\ pc' \in {"idle", "scan"} /\ call' = FreshCall /\ UNCHANGED billed
      /\ CountAttempt
      /\ row' = row \/ row' = [row EXCEPT ![cur] = AfterRaise]
  BY DEF TicketRaised, TicketRaisedDbFails, NextTicket, SetRow, SetRowFails
<1>3. row = [row EXCEPT ![cur] = "claimed"]
  BY <1>1 DEF TypeOK
<1>4. CASE Exhausted
  <2>1. attempts' = [attempts EXCEPT ![cur] = 0]
    BY <1>2, <1>4 DEF CountAttempt, SetAttempt
  <2>2. PICK v \in {"claimed", "done"} : row' = [row EXCEPT ![cur] = v]
    BY <1>2, <1>3, <1>4 DEF AfterRaise
  <2>3. v \in RowStates /\ v # "none" /\ 0 \in Nat /\ 0 <= billed[cur]
    BY <1>1, <2>2 DEF RowStates
  <2> QED
    BY <1>1, <1>2, <2>1, <2>2, <2>3, LeaveBill
<1>5. CASE ~Exhausted
  <2>1. attempts' = [attempts EXCEPT ![cur] = attempts[cur] + 1]
    BY <1>2, <1>5 DEF CountAttempt, SetAttempt
  <2>2. PICK v \in RowStates : row' = [row EXCEPT ![cur] = v]
    BY <1>2, <1>3, <1>5 DEF AfterRaise, RowStates
  <2>3. attempts[cur] + 1 \in Nat /\ attempts[cur] + 1 < MaxAttempts
    BY <1>1, <1>5, PollerAssumption DEF Exhausted
  <2> QED
    BY <1>1, <1>2, <2>1, <2>2, <2>3, LeaveBill
<1> QED
  BY <1>4, <1>5

\* _consume_ticket: a try is used up by a paid failure only, and the ticket that is
\* released has one left.
LEMMA BillConsume ==
  ASSUME ~ReadFaults, TypeOK, AnsweredKeepsRow, TriesMatchBill, ConsumeTicket
  PROVE  TriesMatchBill'
<1>1. /\ cur \in Tickets /\ row[cur] = "claimed" /\ attempts[cur] \in Nat
      /\ UNCHANGED <<billed, row, cur, call>>
  BY TicketUnderWay DEF ConsumeTicket, Owning, Handling, Goto
<1>2. CASE call.verdict # "failed"
  <2>1. /\ UNCHANGED attempts
        /\ pc' = "mark" \/ (pc' = "release" /\ call.verdict = "capped")
    BY <1>2 DEF ConsumeTicket, Goto
  <2>2. \A t \in Tickets : TicketBill(t)'
    BY <1>1, <2>1 DEF TriesMatchBill, TicketBill
  <2> QED
    BY <1>1, <2>1, <2>2 DEF ConsumeTicket, TriesMatchBill, TriageWasPaid, PaidPoints
<1>3. CASE call.verdict = "failed"
  <2>1. attempts[cur] + 1 <= billed[cur] /\ billed[cur] <= CallsOf(attempts[cur] + 1)
        /\ billed[cur] \in Nat /\ billed[cur] <= CallsOf(MaxAttempts)
    BY <1>1, <1>3 DEF ConsumeTicket, TriesMatchBill, TriageWasPaid, TicketBill, TypeOK
  <2>2. pc' = (IF Exhausted THEN "mark" ELSE "release") /\ CountAttempt
    BY <1>3 DEF ConsumeTicket, Goto, Retryable
  <2> DEFINE a == IF Exhausted THEN 0 ELSE attempts[cur] + 1
  <2>3. a \in Nat /\ a <= billed[cur] /\ attempts' = [attempts EXCEPT ![cur] = a]
    BY <1>1, <2>1, <2>2 DEF CountAttempt, SetAttempt
  <2>4. TicketBill(cur)'
    BY <1>1, <2>1, <2>3 DEF TicketBill, TypeOK
  <2>5. \A t \in Tickets : t # cur => TicketBill(t)'
    BY <1>1, <2>3 DEF TriesMatchBill, TicketBill, TypeOK
  <2>6. ~Exhausted => a < MaxAttempts /\ billed[cur] <= CallsOf(a)
    BY <1>1, <2>1, <2>3, PollerAssumption DEF Exhausted
  <2>7. attempts'[cur'] = a /\ \A t \in Tickets : TicketBill(t)'
    BY <1>1, <2>3, <2>4, <2>5 DEF TypeOK
  <2> QED
    BY <1>1, <2>2, <2>6, <2>7 DEF TriesMatchBill, TriageWasPaid, PaidPoints
<1> QED
  BY <1>2, <1>3

\* No step breaks the account of calls and tries.
LEMMA BillStep ==
  ASSUME ~ReadFaults, TypeOK, AnsweredKeepsRow, TriesMatchBill, [Next]_vars
  PROVE  TriesMatchBill'
<1> USE PollerAssumption, FreshCallType, CallsOfFacts
    DEF TypeOK, AnsweredKeepsRow, Reserved, TriesMatchBill, TicketBill, TriageWasPaid,
        PaidPoints, PCs, Owning, Handling, Retryable, glpiVars, cycleVars
<1>1. CASE StartCycle
  BY <1>1 DEF StartCycle, Window
<1>2. CASE SkipOutOfScope
  BY <1>2 DEF SkipOutOfScope, Head
<1>3. CASE SkipProcessed
  BY <1>3 DEF SkipProcessed, Head
<1>4. CASE PickTicket
  BY <1>4 DEF PickTicket, Head
<1>5. CASE ReadFails
  BY <1>5 DEF ReadFails, Fault, Head
<1>6. CASE EndCycle
  BY <1>6 DEF EndCycle, Finish
<1>7. CASE Claim
  BY <1>7, BillClaim
<1>8. CASE ClaimFails
  BY <1>8, BillLeave
<1>9. CASE RulesAlreadyApplied
  BY <1>9 DEF RulesAlreadyApplied, Goto
<1>10. CASE CostCapReached
  BY <1>10 DEF CostCapReached, Fault, Goto
<1>11. CASE BelowCostCap
  BY <1>11 DEF BelowCostCap, Goto
<1>12. CASE LlmAnswers
  <2>1. pc' = "journal" /\ call'.verdict \in {"accepted", "rejected"}
    BY <1>12 DEF LlmAnswers, Goto, Calls
  <2> QED
    BY <1>12, <2>1, OneMoreCall DEF LlmAnswers, Goto
<1>13. CASE LlmFails
  <2>1. pc = "llm" /\ billed' = [billed EXCEPT ![cur] = @ + 1] /\ UNCHANGED <<attempts, row, cur>>
    BY <1>13 DEF LlmFails, Goto
  <2>2. CASE call.tries < Retries
    <3>1. pc' = "llm" /\ call'.tries = call.tries + 1 /\ call.tries \in Nat
      BY <1>13, <2>2 DEF LlmFails, Goto, Calls
    <3>2. billed'[cur'] <= CallsOf(attempts'[cur']) + call'.tries
      BY <2>1, <3>1, OneMoreCall
    <3> QED
      BY <2>1, <3>1, <3>2, OneMoreCall
  <2>3. CASE ~(call.tries < Retries)
    <3>1. pc' = "journal"
      BY <1>13, <2>3 DEF LlmFails, Goto
    <3> QED
      BY <2>1, <3>1, OneMoreCall
  <2> QED
    BY <2>2, <2>3
<1>14. CASE LlmRaises
  <2>1. pc' = "raise"
    BY <1>14 DEF LlmRaises, Goto
  <2> QED
    BY <1>14, <2>1, OneMoreCall DEF LlmRaises, Goto
<1>15. CASE JournalCalls
  BY <1>15 DEF JournalCalls, Goto, AfterJournal
<1>16. CASE JournalFails
  BY <1>16 DEF JournalFails, Fault, Goto, AfterJournal
<1>17. CASE ResolveMode
  BY <1>17 DEF ResolveMode, Goto
<1>18. CASE ModeFails
  BY <1>18 DEF ModeFails, Fault, Goto
<1>19. CASE ApplyFields
  BY <1>19 DEF ApplyFields, Mutate, Goto
<1>20. CASE ApplyFails
  BY <1>20 DEF ApplyFails, Fault, Mutate, Goto
<1>21. CASE AssignTeam
  BY <1>21 DEF AssignTeam, Goto
<1>22. CASE AssignTeamFails
  BY <1>22 DEF AssignTeamFails, Fault, Goto
<1>23. CASE AssignFallback
  BY <1>23 DEF AssignFallback, Mutate, Goto
<1>24. CASE AssignFallbackFails
  BY <1>24 DEF AssignFallbackFails, Fault, Mutate, Goto
<1>25. CASE WriteFollowup
  BY <1>25 DEF WriteFollowup, Goto
<1>26. CASE WriteFollowupFails
  BY <1>26 DEF WriteFollowupFails, Fault, Goto
<1>27. CASE RecordDecision
  <2>1. pc = "record" /\ pc' = "settle" /\ UNCHANGED <<attempts, billed, row, cur, call>>
    BY <1>27 DEF RecordDecision, Goto
  <2> QED
    BY <2>1 DEF VerdictAtPoint
<1>28. CASE RecordFails
  <2>1. pc = "record" /\ pc' = "settle" /\ UNCHANGED <<attempts, billed, row, cur>>
    BY <1>28 DEF RecordFails, Goto
  <2>2. call'.verdict = call.verdict
    BY <1>28 DEF RecordFails, Calls
  <2> QED
    BY <2>1, <2>2 DEF VerdictAtPoint
<1>29. CASE ConsumeTicket
  BY <1>29, BillConsume
<1>30. CASE Release
  BY <1>30, BillLeave
<1>31. CASE ReleaseFails
  BY <1>31, BillLeave
<1>32. CASE MarkProcessed
  BY <1>32, BillLeave
<1>33. CASE MarkFails
  BY <1>33, BillLeave
<1>34. CASE TicketRaised
  BY <1>34, BillRaised
<1>35. CASE TicketRaisedDbFails
  BY <1>35, BillRaised
<1>36. CASE TicketRaisedNoHandler
  BY <1>36 DEF TicketRaisedNoHandler, NextTicket
<1>37. CASE TicketArrives
  BY <1>37 DEF TicketArrives
<1>38. CASE TicketLeaves
  BY <1>38 DEF TicketLeaves
<1>39. CASE CrashAndRestart
  BY <1>39 DEF CrashAndRestart, Fault, Finish
<1>40. CASE UNCHANGED vars
  BY <1>40 DEF vars
<1> QED
  BY <1>1, <1>2, <1>3, <1>4, <1>5, <1>6, <1>7, <1>8, <1>9, <1>10, <1>11, <1>12, <1>13,
     <1>14, <1>15, <1>16, <1>17, <1>18, <1>19, <1>20, <1>21, <1>22, <1>23, <1>24, <1>25,
     <1>26, <1>27, <1>28, <1>29, <1>30, <1>31, <1>32, <1>33, <1>34, <1>35, <1>36, <1>37,
     <1>38, <1>39, <1>40 DEF Next, PollerStep, Scan, Handle, Conclude

\* The tries and the bill of every ticket agree at every point of the cycle.
THEOREM BillInvariant ==
  ASSUME ~ReadFaults
  PROVE  Spec => []TriesMatchBill
<1>1. Init => TriesMatchBill
  <2> SUFFICES ASSUME Init PROVE TriesMatchBill
    OBVIOUS
  <2>1. CallsOf(MaxAttempts) \in Nat /\ CallsOf(0) = 0
    BY CallsOfFacts, PollerAssumption
  <2> QED
    BY <2>1, FreshCallType, PollerAssumption
    DEF Init, TriesMatchBill, TicketBill, TriageWasPaid, PaidPoints
<1>2. TypeOK /\ AnsweredKeepsRow /\ TriesMatchBill /\ [Next]_vars => TriesMatchBill'
  BY BillStep
<1>3. QED
  BY <1>1, <1>2, TypeCorrect, AnsweredRowInvariant, PTL DEF Spec

\* Deferrals by the cost cap are free: a try that got as far as the LLM always stands for
\* a call that was made (_consume_ticket returns before _bump_attempt for them).
THEOREM TriesArePaid ==
  ASSUME ~ReadFaults
  PROVE  Spec => []OnlyPaidTriesCount
<1>1. TriesMatchBill => OnlyPaidTriesCount
  BY DEF TriesMatchBill, TicketBill, OnlyPaidTriesCount
<1>2. QED
  BY <1>1, BillInvariant, PTL

\* MAX_TRIAGE_ATTEMPTS really bounds what one process spends on one ticket, whatever
\* goes wrong with its marking, its release or its handler.
THEOREM BillBound ==
  ASSUME ~ReadFaults
  PROVE  Spec => []BillIsBounded
<1>1. TriesMatchBill => BillIsBounded
  BY DEF TriesMatchBill, TicketBill, CallsOf, BillIsBounded
<1>2. QED
  BY <1>1, BillInvariant, PTL

\* Each step that marks a ticket does so on a verdict or on paid tries.
LEMMA MarkStep ==
  ASSUME ~ReadFaults, HandlerChoices = {TRUE}, TypeOK, AnsweredKeepsRow, TriesMatchBill,
         MarkIsDue, [Next]_vars
  PROVE  MarkIsDue' /\ [ConsumptionIsDue]_vars
<1> USE DEF MarkIsDue, ConsumptionIsDue, cycleVars, glpiVars
<1>1. CASE Scan
  <2>1. CASE StartCycle
    BY <2>1 DEF StartCycle
  <2>2. CASE SkipOutOfScope \/ SkipProcessed \/ PickTicket \/ ReadFails
    BY <2>2 DEF SkipOutOfScope, SkipProcessed, PickTicket, ReadFails, Head
  <2>3. CASE EndCycle
    BY <2>3 DEF EndCycle, Finish
  <2>4. CASE Claim
    BY <2>4 DEF Claim, Goto, SetRow, TypeOK
  <2>5. CASE ClaimFails
    <3>1. pc' \in {"idle", "scan"} /\ pc = "claim" /\ UNCHANGED handler
      BY <2>5, NextOrTrip DEF ClaimFails, TypeOK
    <3>2. \A t \in Tickets : row'[t] = "done" => row[t] = "done"
      BY <2>5 DEF ClaimFails, SetRowFails, TypeOK
    <3> QED
      BY <3>1, <3>2
  <2> QED
    BY <1>1, <2>1, <2>2, <2>3, <2>4, <2>5 DEF Scan
<1>2. CASE Handle
  <2>1. UNCHANGED <<row, handler>> /\ pc # "idle" /\ pc' # "mark"
    BY <1>2 DEF Handle, RulesAlreadyApplied, CostCapReached, BelowCostCap, LlmAnswers,
       LlmFails, LlmRaises, JournalCalls, JournalFails, ResolveMode, ModeFails, ApplyFields,
       ApplyFails, AssignTeam, AssignTeamFails, AssignFallback, AssignFallbackFails,
       WriteFollowup, WriteFollowupFails, RecordDecision, RecordFails, Goto, AfterJournal
  <2>2. pc' = "settle" => call'.verdict # "none"
    <3>1. CASE RulesAlreadyApplied \/ CostCapReached
      BY <3>1 DEF RulesAlreadyApplied, CostCapReached, TypeOK, Calls
    <3>2. CASE RecordDecision \/ RecordFails
      BY <3>2 DEF RecordDecision, RecordFails, AnsweredKeepsRow, VerdictAtPoint, TypeOK, Calls
    <3> QED
      BY <1>2, <3>1, <3>2 DEF Handle, BelowCostCap, LlmAnswers, LlmFails, LlmRaises,
         JournalCalls, JournalFails, ResolveMode, ModeFails, ApplyFields, ApplyFails,
         AssignTeam, AssignTeamFails, AssignFallback, AssignFallbackFails, WriteFollowup,
         WriteFollowupFails, Goto, AfterJournal
  <2> QED
    BY <2>1, <2>2
<1>3. CASE ConsumeTicket
  <2>1. pc = "settle" /\ pc' \in {"mark", "release"} /\ UNCHANGED <<row, handler, cur, call, billed>>
    BY <1>3 DEF ConsumeTicket, Goto
  <2>2. CASE call.verdict = "failed" /\ pc' = "mark"
    <3>1. Exhausted /\ attempts[cur] < billed[cur] /\ cur \in Tickets
      BY <1>3, <2>2, TicketUnderWay DEF ConsumeTicket, Goto, Retryable, TriesMatchBill,
         TriageWasPaid, Owning, Handling
    <3>2. billed[cur] >= MaxAttempts
      BY <3>1, PollerAssumption DEF Exhausted, TypeOK
    <3> QED
      BY <2>1, <3>2
  <2>3. CASE call.verdict # "failed" /\ pc' = "mark"
    <3>1. call.verdict \in Verdicts /\ call.verdict \notin {"none", "capped", "failed"}
      BY <1>3, <2>3 DEF ConsumeTicket, Goto, Retryable, TypeOK, Calls
    <3> QED
      BY <2>1, <3>1 DEF Verdicts
  <2> QED
    BY <2>1, <2>2, <2>3
<1>4. CASE Release \/ ReleaseFails
  <2>1. pc = "release" /\ pc' \in {"idle", "scan"} /\ UNCHANGED handler
    BY <1>4, NextOrTripAfterRelease DEF Release, ReleaseFails
  <2>2. \A t \in Tickets : row'[t] = "done" => row[t] = "done"
    BY <1>4 DEF Release, ReleaseFails, SetRow, SetRowFails, TypeOK
  <2> QED
    BY <2>1, <2>2
<1>5. CASE MarkProcessed \/ MarkFails
  <2>1. PICK n \in Nat : NextTicketUnlessTripped(n)
    BY <1>5 DEF MarkProcessed, MarkFails, TypeOK
  <2>2. pc = "mark" /\ pc' \in {"idle", "scan"} /\ UNCHANGED handler
    BY <1>5, <2>1, NextOrTrip DEF MarkProcessed, MarkFails
  <2>3. \A t \in Tickets : t # cur => row'[t] = row[t]
    BY <1>5 DEF MarkProcessed, MarkFails, SetRow, SetRowFails, TypeOK
  <2> QED
    BY <2>2, <2>3
<1>6. CASE TicketRaised \/ TicketRaisedDbFails \/ TicketRaisedNoHandler
  <2>1. pc = "raise" /\ pc' = "scan" /\ UNCHANGED handler
    BY <1>6 DEF TicketRaised, TicketRaisedDbFails, TicketRaisedNoHandler, NextTicket
  <2>2. /\ cur \in Tickets /\ attempts[cur] \in Nat /\ billed[cur] \in Nat
        /\ attempts[cur] + 1 <= billed[cur]
    BY <2>1, TicketUnderWay
  <2>3. Exhausted => billed[cur] >= MaxAttempts
    BY <2>2, PollerAssumption DEF Exhausted
  <2>4. \A t \in Tickets : row'[t] = "done" => row[t] = "done" \/ (t = cur /\ Exhausted)
    BY <1>6 DEF TicketRaised, TicketRaisedDbFails, TicketRaisedNoHandler, SetRow,
       SetRowFails, AfterRaise, TypeOK
  <2> QED
    BY <2>1, <2>3, <2>4
<1>7. CASE TicketArrives \/ TicketLeaves \/ CrashAndRestart \/ UNCHANGED vars
  BY <1>7 DEF TicketArrives, TicketLeaves, CrashAndRestart, Finish, vars
<1> QED
  BY <1>1, <1>2, <1>3, <1>4, <1>5, <1>6, <1>7 DEF Next, PollerStep, Conclude

\* With an LLM key configured, no ticket is marked unless it was arbitrated or given up
\* after MaxAttempts paid tries (poll_once, _consume_ticket).
THEOREM NothingIsConsumedUntriaged ==
  ASSUME ~ReadFaults, HandlerChoices = {TRUE}
  PROVE  Spec => ConsumedMeansTriaged
<1>1. Init => MarkIsDue
  BY DEF Init, MarkIsDue
<1>2. TypeOK /\ AnsweredKeepsRow /\ TriesMatchBill /\ MarkIsDue /\ [Next]_vars
        => MarkIsDue' /\ [ConsumptionIsDue]_vars
  BY MarkStep
<1>3. QED
  BY <1>1, <1>2, TypeCorrect, AnsweredRowInvariant, BillInvariant, PTL
  DEF Spec, ConsumedMeansTriaged
=============================================================================

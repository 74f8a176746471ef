\* V2 connector, more tickets than the window holds, the scope edited meanwhile.
CONSTANTS
  Tickets = {1, 2}
  RulesHandled = {}
  MaxTickets = 1
  Retries = 1
  MaxAttempts = 2
  MaxDbFailures = 2
  HandlerChoices = {TRUE}
  ScopeChoices <- AnyScope
  TwoStepApply = TRUE
  ReadFaults = FALSE
  LostAcks = FALSE
  MaxFaults = 3
  NoTicket = NoTicket
SPECIFICATION Spec
INVARIANTS
  AtMostOneFollowup
  MutationIsAudited
  AnsweredKeepsRow
  TriesMatchBill
  BillIsBounded
PROPERTIES
  ConsumedMeansTriaged
  WritesAreReserved
  LedgerSpec

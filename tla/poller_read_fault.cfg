\* The read of is_processed may fail.
CONSTANTS
  Tickets = {1, 2}
  RulesHandled = {}
  MaxTickets = 2
  Retries = 0
  MaxAttempts = 2
  MaxDbFailures = 2
  HandlerChoices = {TRUE}
  ScopeChoices <- OneScope
  TwoStepApply = FALSE
  ReadFaults = TRUE
  LostAcks = FALSE
  MaxFaults = 2
  NoTicket = NoTicket
SPECIFICATION Spec
INVARIANT
  AtMostOneFollowup

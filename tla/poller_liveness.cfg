\* Legacy connector whose answers may be lost, with or without an LLM key.
CONSTANTS
  Tickets = {1, 2}
  RulesHandled = {2}
  MaxTickets = 2
  Retries = 0
  MaxAttempts = 2
  MaxDbFailures = 2
  HandlerChoices = {TRUE, FALSE}
  ScopeChoices <- OneScope
  TwoStepApply = FALSE
  ReadFaults = TRUE
  LostAcks = TRUE
  MaxFaults = 2
  NoTicket = NoTicket
SPECIFICATION FairSpec
PROPERTIES
  CycleEnds
  TicketIsConcluded

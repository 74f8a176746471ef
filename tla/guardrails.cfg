CONSTANTS
  Categories = {"c1"}
  Technicians = {"t1", "t2"}
  Groups = {"g1"}
  Decisions <- SomeDecisions
  EntityChoices <- SomeRows
  DefaultChoices <- OneDefault
  TwoStepApply = TRUE
  MaxEdits = 2
  None = None
SPECIFICATION Spec
INVARIANTS
  AssignedWasPermitted
  MutationIsAuthorised
  OnlyAcceptedClassifies
  FollowupTellsTheTruth
  EntryMatchesTicket

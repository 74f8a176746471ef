CONSTANTS
  Sandboxes = {"s1"}
  Tests = {"p1"}
  Engine = "engine"
  Retries = 1
  CallCost = 1
  FailCost = 1
  CapChoices = {1, 2}
  DaysChoices = {0, 1}
  BillsChoices = {TRUE, FALSE}
  Day = 1
  Horizon = 2
  MaxOld = 1
SPECIFICATION Spec
INVARIANTS
  OvershootIsBounded
  EngineBooksItsCalls
PROPERTIES
  PurgeKeepsSpend

\* Three arrivals of one or four tokens, a budget of eight, one message kept.
SPECIFICATION Spec
CONSTANTS
  Context = 14
  Reserve = 2
  Margin = 1
  Floor = 3
  CliBudget = 12
  Parts = 4
  Of = 5
  TriggerTokens = 0
  KeepRecent = 1
  Sizes = {1, 4}
  Base = 3
  Sections <- MCSections
  MaxArrivals = 3
INVARIANTS
  WindowIsLongest
  QuestionAsked
  OmittedOnlyOverTrigger
  OrderOfArrival

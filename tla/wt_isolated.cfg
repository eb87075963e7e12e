SPECIFICATION Spec
CONSTANTS
  Runs = {r1, r2}
  Rooms = {room}
  Projects = {p, q}
  Owner = owner
  MaxEdits = 2
  MaxNumber = 2
  MaxRestarts = 1
SYMMETRY Symmetry
INVARIANTS TreesApart ReportedKept WorkSurvives TreesRemoved LiveOnlyOnUsedName
CHECK_DEADLOCK FALSE

SPECIFICATION Spec
CONSTANTS
  Projects = {p}
  Ranges = {"all", "d1"}
  Models = {m}
  Sessions = {s}
  MaxClicks = 2
  MaxRuns = 1
CHECK_DEADLOCK FALSE
INVARIANTS
  TypeOK
  SettledAnswersSelection
  QuietShowsSelection

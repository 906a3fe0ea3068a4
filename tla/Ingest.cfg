SPECIFICATION FairSpec
CONSTANTS
  NumKeys = 3
  Projects <- MCProjects
  ProjectOf <- MCProjectOf
  Markers = {"none", "a", "malformed"}
  Triggers = {"cron", "startup"}
  ChunkFactor = 4
  Scenarios <- MCScenarios
INVARIANTS
  TypeOK
  StaleRowIsDetectable
  ProjectSpansFiles
PROPERTIES
  SuccessMeansMirrored
  LiveRowsStay
  Converges
  NamesFresh

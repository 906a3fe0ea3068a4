SPECIFICATION BothSpec
CONSTANTS
  Menu <- MCMenu
  Ids = {"a", "t", "u"}
  MaxLines = 5
  ModelCutoff = 3
  K3Cutoff = 5
  BrowserK3Cutoff = 6
CHECK_DEADLOCK FALSE
INVARIANTS
  TypeOK
  EachUsageInOneTurn
  LastLineWins
  
  RecordsAgree
  ChartCoversBackend

SPECIFICATION FairSpec
CONSTANTS
  Conns = {1, 2}
  QueueSize = 2
  MaxCommits = 1
CHECK_DEADLOCK FALSE
PROPERTIES
  LastCommitAsked

SPECIFICATION FairSpec
CONSTANTS
  Conns = {1, 2}
  QueueSize = 2
  MaxCommits = 4
CHECK_DEADLOCK FALSE
INVARIANTS
  LiveTypeOK
  SubscribersRun
  AnnouncedIsOnItsWay
PROPERTIES
  AnnouncedIsAsked
  ShutdownDrains

SPECIFICATION FairSpec
CONSTANTS
  NumKeys = 2
  Projects <- MCProjects
  ProjectOf <- MCProjectOf
  Markers = {"none"}
  Triggers = {"cron"}
  ChunkFactor = 1
  Scenarios <- MCOneCalm
PROPERTIES
  ChangesAnnounced

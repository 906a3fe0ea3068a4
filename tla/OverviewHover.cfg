SPECIFICATION Spec
CONSTANTS
  Records <- MCRecords
  MaxRecords = 3
  Short <- MCShort
  Rates <- MCRates
  BucketS = 2
  SessionLimit = 2
  SessionGap = 2
  WindowGap = 4
  NiceBins = {1, 2, 4}
  MinBins = 3
  PlotW = 60
  DenseSteps = 4
INVARIANTS
  StaysUp

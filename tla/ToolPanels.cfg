SPECIFICATION Spec
CONSTANTS
  Answers <- MCAnswers
  UsageTop = 1
  ErrTop = 2
  ErrOn = 1
  CtxOn = 2
INVARIANTS
  TypeOK
  ChartsAccount
PROPERTIES
  ChecksFollowUser
  TipMatchesChart

CONSTANTS
  c1 = c1
  c2 = c2
  c3 = c3
  c4 = c4
  w1 = w1
  w2 = w2
  Check = {c1, c2, c3, c4}
  Good = {c1, c2, c3}
  Worker = {w1, w2}
  Master = Master
  BatchSize = 2
SPECIFICATION FairSpec
INVARIANT TypeOK
INVARIANT TodoIsPending
INVARIANT AssertIsIdle
PROPERTY WaitReturns
PROPERTY ImplementsParallelCheck
CHECK_DEADLOCK FALSE

CONSTANTS
  t1 = t1
  t2 = t2
  o1 = o1
  o2 = o2
  m1 = m1
  m2 = m2
  Tx = {t1, t2}
  OutPoint = {o1, o2}
  Vin <- MCVin
  Masternodes = {m1, m2}
  Self = m1
  Heights = {0, 1, 2}
  TopRanked <- MCTopRanked
  Required = 2
  LockTime = 1
SPECIFICATION FairSpec
INVARIANT QuorumIsGenuine
INVARIANT CompleteLockWasRequested
PROPERTY ReservationKept
PROPERTY LocksExpire

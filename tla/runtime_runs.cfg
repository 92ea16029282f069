SPECIFICATION FairSpec
CONSTANTS
  r1 = r1
  r2 = r2
  r3 = r3
  r4 = r4
  t1 = t1
  Runs = {r1, r2, r3, r4}
  Threads = {t1}
  ThreadOf <- MCThreadOf
  Limit = 2
  Unlimited = Unlimited
  MaxQueued = 2
  MaxEvents = 1
  Behaviours = {"cancel"}
  None = None
INVARIANTS
  RuntimeTypeOK
  WithinLimit
  EndComesLast
  TurnsInOrder
PROPERTY EveryRunEnds

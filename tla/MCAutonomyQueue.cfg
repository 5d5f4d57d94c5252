SPECIFICATION FairSpec
CONSTANTS
  j1 = j1
  j2 = j2
  j3 = j3
  k1 = k1
  k3 = k3
  w1 = w1
  w2 = w2
  NoJob = NoJob
  NoClaim = NoClaim
  NoToken = 0
  Job <- MCJob
  Wake <- MCWake
  Child <- MCChild
  Key <- MCKey
  KeyOf <- MCKeyOf
  Worker <- TwoWorkers
  Token <- MCToken
  MaxJobs = 2
  Lease = 1
  Ttl = 2
  BackoffCap = 2
INVARIANTS TypeOK CountedOnce
PROPERTIES ImplementsLifecycle EveryJobEnds
CHECK_DEADLOCK FALSE

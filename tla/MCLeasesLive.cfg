SPECIFICATION FairSpec
CONSTANTS
  Clients = {c1}
  Slots = {s1, s2}
  NoSlot = NoSlot
  MACs = {m1}
  NoMAC = NoMAC
  NoLease = NoLease
  TTL = 3
  Threshold = 1
  RetryDelay = 0
  LastAlloc = 1
  MaxTime = 6
INVARIANTS TypeOK
PROPERTIES DeadLeasesAreReaped ImplementsRegistry
CHECK_DEADLOCK FALSE

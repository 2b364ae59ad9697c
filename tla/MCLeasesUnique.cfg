SPECIFICATION Spec
CONSTANTS
  Clients = {c1, c2}
  Slots = {s1, s2}
  NoSlot = NoSlot
  MACs = {m1}
  NoMAC = NoMAC
  NoLease = NoLease
  TTL = 1
  Threshold = 1
  RetryDelay = 0
  LastAlloc = 3
  MaxTime = 3
INVARIANT UniqueAllocation
CHECK_DEADLOCK FALSE

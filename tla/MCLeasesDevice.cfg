SPECIFICATION Spec
CONSTANTS
  Clients = {c1}
  Slots = {s1}
  NoSlot = NoSlot
  MACs = {m1, m2}
  NoMAC = NoMAC
  NoLease = NoLease
  TTL = 3
  Threshold = 1
  RetryDelay = 0
  LastAlloc = 1
  MaxTime = 3
INVARIANT VtepMACIsActual
CHECK_DEADLOCK FALSE

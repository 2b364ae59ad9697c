SPECIFICATION Spec
CONSTANTS
  c1 = c1  c2 = c2
  a1 = a1  a2 = a2  b1 = b1
  h1 = h1  h2 = h2
  Clients = {self, c1, c2}
  Self = self
  Slots = {s1, s2}
  NoClient = NoClient
  NoRecord = NoRecord
  MACs = {a1, a2, b1}
  NoMAC = NoMAC
  Hosts = {h1, h2}
  Vteps <- MCVteps
  NoVtep = NoVtep
  Owner <- MCOwner
  NoCall = NoCall
  KernelFails = FALSE
  MaxIndex = 4
INVARIANT ExpiredIsUnrouted

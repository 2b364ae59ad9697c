SPECIFICATION Spec
CONSTANTS
  n1 = n1
  n2 = n2
  Networks = {n1, n2}
  Listings <- ByName
  Masqueraded = {n1}
  Subnets = {s1}
  Covers <- DistinctNames
  NoNet = NoNet
  Absent = Absent
  MaxForward = 2
INVARIANTS IInv Isolated Connected RulesAreUnique
PROPERTY VerdictsAreStable

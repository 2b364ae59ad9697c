SPECIFICATION FairSpec
CONSTANTS
  Clients = {self, c1, c2}
  Self = self
  Slots = {s1, s2}
  Data = {d1}
  NoClient = NoClient
  NoRecord = NoRecord
  MaxIndex = 4
INVARIANTS IInv RoutesFollowRecords StaleRoutesAreExplained LatestWordIsRouted
PROPERTY EventuallyCaughtUp

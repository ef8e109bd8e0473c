\* Two overlapping requests of two accounts; 7 ticks for a cache of 3.
SPECIFICATION Spec
CONSTANTS
  Requests = {r1, r2}
  Users = {u1, u2}
  Moderators = {u1}
  None = None
  MaxTime = 7
  ItemIds = {i1, i2, i3}
  Types = {holdings, notes}
  MaxItems = 2
  Rooms = {lounge, builders}
  PageLength = 1
  MaxPosts = 3
  Symbols = {BTC, ETH}
  Fresh = 3
  Timeout = 2
  Keys <- MCKeys
  maximum <- MCMaximum
  interval <- MCInterval
  MaxBuckets = 1
SYMMETRY Symmetry
INVARIANTS
  ItemLimit
  PayloadFitsType
  ReportsMeanWhatWasSeen
  QuotesAreYoung
  NobodyWaitsLonger
  BurstBounded
  RefusedOnlyAfterBurst
PROPERTIES
  DeletedForGood
  DeletedKnowingly
  AskedSeldom

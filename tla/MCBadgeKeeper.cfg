SPECIFICATION Spec
CONSTANTS
  MaxTasks = 2
  coin = coin
  gem = gem
  RewardNames = {coin, gem}
  Results <- MCResults
  Users = {u1, u2}
  Projects = {}
  Keys = {k1}
  Nil = Nil
  MaxPairs = 2
  MaxLaunches = 2
SYMMETRY MCSymmetry
INVARIANTS
  TypeOK
  ServiceSound
  Owned
  SentInOrder
  NeverAppliedTwice
  NothingMislaid
  RewardsStoredFaithfully
  ToldOnceAndTruly
CHECK_DEADLOCK FALSE

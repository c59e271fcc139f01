SPECIFICATION FairSpec
CONSTANTS
  MaxTasks = 2
  coin = coin
  gem = gem
  RewardNames = {coin, gem}
  Results <- MCResults
  Users = {u1}
  Projects = {}
  Keys = {k1}
  Nil = Nil
  MaxPairs = 2
  MaxLaunches = 2
PROPERTIES
  ImplementsOutbox
  EveryCallAnswered
  GrantsStored
CHECK_DEADLOCK FALSE

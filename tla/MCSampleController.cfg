SPECIFICATION SampleFairSpec
CONSTANTS
  MaxTasks = 3
  coin = coin
  RewardNames = {coin}
  Results <- MCNoRewards
  Users = {u1, u2}
  Projects = {p1}
  Keys = {x}
  Key = x
  Nil = Nil
  MaxPairs = 3
  MaxLaunches = 1
INVARIANT ScreenFollows
PROPERTY EnabledAgainEventually
CHECK_DEADLOCK FALSE

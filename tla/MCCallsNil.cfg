SPECIFICATION CallsSpec
CONSTANTS
  MaxTasks = 2
  RewardNames = {}
  Results <- MCResults
  Users = {u1}
  Projects = {}
  Keys = {k1}
  Nil = Nil
  MaxPairs = 2
  MaxLaunches = 1
INVARIANT NilMeansActiveUser
CHECK_DEADLOCK FALSE

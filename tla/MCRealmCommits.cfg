CONSTANTS
  Realms <- MCRealms
  Upgraders <- MCUpgraders
  Refreshing <- MCRefreshing
  MaxVersion = 3
  r1 = r1
  r2 = r2
  r3 = r3
  Listeners <- MCListeners
  Capacity = 2
  Batch = 2
  MaxCommits = 2

SPECIFICATION CommitsSpec
CHECK_DEADLOCK FALSE

INVARIANTS WritesOneByOne ToldUnlessOvertaken NothingSlips
PROPERTY EveryCommitHeard

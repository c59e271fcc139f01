CONSTANTS
  Types <- MCTypes
  Values <- MCValues
  MaxNumbers = 2
  t1 = t1
  t2 = t2
  a1 = a1
  a2 = a2
  Tables <- MCTables
  Addresses <- MCAddresses
  RowsAtStart = 2
  MaxRows = 3
  MaxModifications = 3
  o1 = o1
  o2 = o2
  o3 = o3
  o4 = o4
  Objects <- MCObjects
  MaxInstructions = 4
  l1 = l1
  l2 = l2
  l3 = l3
  Targets <- MCTargets
  MaxLength = 4
  MaxListSteps = 4
  i1 = i1
  i2 = i2
  i3 = i3
  x = x
  y = y
  Nil = Nil
  Gone = Gone
  Infos <- MCInfos
  Rows <- MCRows

SPECIFICATION MCLogSpec
SYMMETRY MCSymmetry
CHECK_DEADLOCK FALSE

INVARIANTS
  ReadsBack
  AnotherGroupFollows
  RollbackRestores
  ObserversKept
  TheChangeExplainsTheList
  ObserversTold

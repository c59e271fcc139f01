CONSTANTS
  p1 = p1
  p2 = p2
  Processes <- MCProcesses
  Schemas <- MCSchemas
  Classes <- MCClasses
  Names <- MCNames
  Types <- MCTypes
  Indexable <- MCIndexable
  NotVersioned = 9
  RowValues = {1, 2}
  MaxLaunches = 3
  MaxRows = 2

SPECIFICATION Spec
SYMMETRY MCSymmetry
CHECK_DEADLOCK FALSE

INVARIANTS OpenMeansAligned KeysSound
PROPERTIES VersionsGrow DataKept FailsOnlyForCause

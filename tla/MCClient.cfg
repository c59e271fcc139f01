CONSTANTS
  Texts = {"score", "level"}
  Keys <- MCKeys
  Values = {"1", "nan"}
  FiniteOnes = {"1"}
  Segments <- MCSegments
  ProjectIds <- MCProjectIds
  UserIds <- MCUserIds
  NilId = NilId
  MaxPairs = 3
  Answers <- MCAnswers
  main = main
  queue = queue
  Threads <- MCThreads
  Users = {u1, u2}
  MaxPrepared = 3
  MaxCalls = 4

SPECIFICATION ClientSpec
SYMMETRY MCSymmetry
CHECK_DEADLOCK FALSE

INVARIANTS
  LostOnlyInARace
  TwiceOnlyInARace
  SentForItsUser
  RaisesOnlySharedAndRaced
  RequestReadsBack
  StoredIsPrefix
  HalfSavedOnlyByName
  TopLevelDecides

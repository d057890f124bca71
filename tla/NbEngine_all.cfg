SPECIFICATION Spec
CONSTANTS
  Drivers <- DriverNames
  Benches <- AllBenches
  Sizes <- FewSizes
  KeyLens <- FewKeyLens
  Counts <- FewCounts
  Intervals <- FewIntervals
  Databases <- FewDatabases
  Bare <- OneBareKey
  Word = 16
  AssertsOn = FALSE
INVARIANTS
  TypeOK
  LibraryOutlivesDatabase
  EverythingReleased
  PutSavesKeys
  GetFindsKeys
  FailureHasReason
  ReadsInsideFile
  OperationsAccounted
PROPERTIES
  Terminates
  ImplementsBenchmark
CHECK_DEADLOCK FALSE

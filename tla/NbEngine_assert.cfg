SPECIFICATION Spec
CONSTANTS
  Drivers <- OnlyLeveldb
  Benches <- Puts
  Sizes <- FewSizes
  KeyLens <- FewKeyLens
  Counts <- FewCounts
  Intervals <- FewIntervals
  Databases <- NoKeys
  Bare <- OneBareKey
  Word = 16
  AssertsOn = TRUE
INVARIANTS
  DumpHasSamples
CHECK_DEADLOCK FALSE

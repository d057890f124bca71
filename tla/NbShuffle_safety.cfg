SPECIFICATION Spec
CONSTANTS
  Sizes <- FewSizes
  BlockSizes <- FewBlockSizes
  Counts <- FewCounts
  RandMax = 6
  Word = 256
INVARIANTS
  TypeOK
  KeysSurvive
  RestUntouched
  SuccessIsComplete
  ReturnReleases
  CrashOnlyOnZero
  AllPartnersPossible
PROPERTIES
  Terminates
  ImplementsPermutation
CHECK_DEADLOCK FALSE

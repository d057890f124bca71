SPECIFICATION Spec
CONSTANTS
  Word = 1048576
  Atol <- FewAtol
  Text <- FewTexts
  Rounds = 1
  Counts <- TwoCounts
  Drivers <- TwoDrivers
  Blocks = 3
  Rest = 0
  Files <- FewFiles
INVARIANTS
  TypeOK
  GetExplained
  LossesCounted
CHECK_DEADLOCK FALSE

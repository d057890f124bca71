SPECIFICATION Spec
CONSTANTS
  Word = 1048576
  Atol <- FewAtol
  Lines <- FewLines
INVARIANTS
  TypeOK
  RunsAsAsked
CHECK_DEADLOCK FALSE

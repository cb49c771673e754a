SPECIFICATION Spec
CONSTANTS
  c1 = c1
  c2 = c2
  Callers = {c1, c2}
  Answers <- MCAnswers
  Events <- MCEvents
  Account = TRUE
  Offset = 1
  Res = 2
  Steps = 3
  Start = 3
  Until = 4
  Calls = 3
SYMMETRY MCSymmetry
INVARIANTS TypeOK SessionsInjected TariffCorrect WholeFile
CHECK_DEADLOCK FALSE

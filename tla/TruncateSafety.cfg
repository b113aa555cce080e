CONSTANTS
  MaxWords = 5
  Limits = {1, 2, 3}
SPECIFICATION Spec
INVARIANTS
  FitsWithoutBrackets
  CutIsBalanced
CHECK_DEADLOCK FALSE

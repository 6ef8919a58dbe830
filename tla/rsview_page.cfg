CONSTANTS
  Columns = 2
  MaxTokens = 6
  None = None
  Words <- TwoWords
SPECIFICATION Spec
INVARIANTS
  CellsInOrder
  AnswerFitsPage
CHECK_DEADLOCK FALSE

SPECIFICATION Spec
CONSTANTS
  Texts <- MCTexts
  Width = 4
  YYINITDEPTH = 2
  YYMAXDEPTH = 7
  MaxFailures = 1
INVARIANTS
  ParsesTheGrammar
  StacksFit
  NodesOwned
PROPERTY ParseEnds
CHECK_DEADLOCK FALSE

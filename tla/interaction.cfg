SPECIFICATION KeyboardSpec
CONSTANTS
  Wide = {19968}
  Separators = {32, 34, 39, 42, 47}
  Empty <- MCEmpty
  Dot <- MCDot
  Up <- MCUp
  Tilde <- MCTilde
  Home <- MCHome
  UNNAMED_NAME <- MCUnnamed
  Tree <- MCTree
  SyntaxNames <- MCSyntaxNames
  BY_COLUMN = TRUE
  MAX_REQ_COLS = 16
  MAX_INPUT_LINE_LEN = 9
  char_ins_del_ok = TRUE
  MAX_HISTORY = 4
  HelpLen = 2
  Sizes <- MCSizes
  Scenarios <- MCScenarios
  MAX_TERM_KEY = 12
  KBD_BUF_SIZE = 6
  key_binding <- MCKeyBinding
CHECK_DEADLOCK FALSE
INVARIANTS RequesterSound InputSound HistoryKept WhatIsMeant
PROPERTIES ChosenIsShown GivesUpLast PathChosen WordsSound

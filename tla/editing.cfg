SPECIFICATION Spec
CONSTANTS
  NL = "LF"
  Space = " "
  Tab = "TAB"
  Wide = {"W"}
  Star = "*"
  Upper <- MCUpper
  Brackets <- MCBrackets
  Punctuation = {"(", ")", "."}
  Mark = "mark"
  Whole = "ALL"
  Scenarios <- MCScenarios
  Screens <- MCScreens
  Typing = {"a", " "}
  Patterns <- MCPatterns
  Replacements <- MCReplacements
  Bookmarks = {"0"}
  Auto = "-"
  PasteStart = "<"
  PasteEnd = ">"
  AnyOption = FALSE
  MaxSteps = 4
  MaxRounds = 12
  MaxBeyond = 2
INVARIANTS CursorSound UndoRestores MovesComeBack
PROPERTIES OnlySpaceMoves FindNext CommandEnds

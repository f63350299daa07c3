SPECIFICATION Spec
CONSTANTS
  NL = "LF"
  Space = " "
  Tab = "TAB"
  Wide = {"W"}
  Star = "*"
  Upper <- MCUpper
  Brackets <- MCBrackets
  Punctuation = {"(", ")", "{", "}", "[", "]", "$"}
  Mark = "mark"
  Whole = "ALL"
  Control <- MCControl
  Half = "half"
  Syntaxes <- MCSyntaxes
  MainSyntax = "main"
  ClosingOf <- MCClosing
  Lowered <- MCLowered
  MaxTurns = 4
  MenuBar <- MCMenuBar
  FileName = "name"
  Scenarios <- MCScenarios
  Typing = {"a", "{"}
  Sizes <- MCSizes
  Garbage = "#"
INVARIANTS TextShown BarTells StatesSound DeviceKnown MenuShown
CHECK_DEADLOCK FALSE

SPECIFICATION Spec
CONSTANTS
  NUL = "NUL"
  LF = "LF"
  CR = "CR"
  HalfSize = 2
  BlockSize = 2
  Empty = "empty"
  Dot = "dot"
  Up = "up"
  Tilde = "tilde"
  Blank = "sp"
  Quote = "q"
  DefPrefs = "default"
  MaxDepth = 3
  MaxPrefs = 2
  Tick = 1
  ModelDepth = 5
  Home <- MCHome
  Cwd <- MCCwd
  Digits <- MCDigits
  CharOf <- MCCharOf
  Docs <- MCDocs
  Dirs = {}
  Extension <- MCExtension
  SyntaxFor <- MCSyntaxFor
  HashPart <- MCHash
  UnnamedPart <- MCUnnamed
  PathOf <- MCPathOf
  GlobalVirtExt <- MCGlobalVirt
  UserVirtExt <- MCUserVirt
  ExtraExt = {}
  Scenarios <- MCScenarios
INVARIANTS SessionSound MarkTells RecordsWhatIsDone MacroTextSound FilesSound
PROPERTIES NothingLost MacrosEnd
CHECK_DEADLOCK FALSE

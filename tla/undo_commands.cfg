SPECIFICATION Spec
CONSTANTS
  a = a
  b = b
  Char <- MCChar
  Text0 <- MCText0
  MaxText = 2
  MaxIns = 2
  MaxSteps = 2
  MaxLink = 1
  Commands = {"AtomicUndo", "Save", "SaveCancelled", "SaveFailed", "SaveAll",
              "DoUndo", "UTF8", "Clear", "Modified", "ReadOnly"}
INVARIANTS
  TypeOK
  UndoRedoExact
  StreamsMatchSteps
PROPERTY LoopsEnd

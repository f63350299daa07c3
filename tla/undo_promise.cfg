SPECIFICATION Spec
CONSTANTS
  a = a
  b = b
  Char <- MCChar
  Text0 <- MCText0
  MaxText = 2
  MaxIns = 2
  MaxSteps = 3
  MaxLink = 2
  Commands = {"AtomicUndo", "Save", "Clear", "ReadOnly"}
INVARIANTS
  ChainAssertion
  ModifiedSound
PROPERTY KeepsHistory

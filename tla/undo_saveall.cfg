SPECIFICATION Spec
CONSTANTS
  a = a
  b = b
  Char <- MCChar
  Text0 <- MCText0
  MaxText = 2
  MaxIns = 1
  MaxSteps = 2
  MaxLink = 1
  Commands = {"Save", "SaveAll"}
INVARIANT ModifiedSound

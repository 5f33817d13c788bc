\* Two imports, at once or one after the other, over an older tree or none, with a kill at
\* any step.
CONSTANTS
  None = None
  Old = Old
  i1 = i1
  i2 = i2
  Imports = {i1, i2}
SPECIFICATION Spec
INVARIANTS TypeOK ImportedInPlace
PROPERTIES OnlyWholeTreesAppear DeletedOnlyForWholeTrees
\* Each import runs once.
CHECK_DEADLOCK FALSE

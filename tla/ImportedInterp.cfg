\* One import, alone.
CONSTANTS
  None = None
  Old = Old
  i1 = i1
  Imports = {i1}
SPECIFICATION Spec
INVARIANT InterpResolves
\* Each import runs once.
CHECK_DEADLOCK FALSE

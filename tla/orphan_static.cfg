\* A static variable with a value in a source without classes.
SPECIFICATION Spec
CONSTANTS
  None = None
  Root = "OZObject"
  Foundation = {"OZObject", "OZSpinLock"}
  Unsupported = {"forwardInvocation:"}
  Alphabet <- MCAlphabet
  Programs <- MCPrograms
  Rules <- OrphanRules
INVARIANTS
  OrphanStaticsOnce
CHECK_DEADLOCK FALSE

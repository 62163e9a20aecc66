\* Small programs of a root class and two more, in up to four sources.
SPECIFICATION Spec
CONSTANTS
  None = None
  Root = "OZObject"
  Foundation = {"OZObject", "OZSpinLock"}
  Unsupported = {"forwardInvocation:"}
  Alphabet <- MCAlphabet
  Programs <- MCPrograms
  Rules <- AllRules
INVARIANTS
  NothingLost
  AccessorsExact
  RejectsExactly
  SuperFirst
  DispatchExact
  EmittedOnce
  StaticsInScope
  EvaluatedInOrder
CHECK_DEADLOCK FALSE

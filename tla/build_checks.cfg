\* Three classes in up to three files, and programs of up to four functions.
SPECIFICATION Spec
CONSTANTS
  A = A
  B = B
  C = C
  K = K
  fa = fa
  fb = fb
  fc = fc
  main = main
  thread = thread
  f = f
  g = g
  Nobody = Nobody
  Foundation = {K}
  Sources <- MCSources
  Programs <- MCPrograms
  Main = main
  Entries = {thread}
  Classes = {A, B, K}
  Pooled = {A, B}
  PoolNames = {A}
  Unseen = Unseen
INVARIANTS
  CyclesExact
  PoolsExact
PROPERTIES
  CheckEnds
CHECK_DEADLOCK FALSE

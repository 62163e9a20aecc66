\* break out of a switch inside a loop.
SPECIFICATION Spec
CONSTANTS
  Nil = Nil
  h1 = h1
  o1 = o1
  o2 = o2
  l1 = l1
  x = x
  y = y
  Objects = {h1, o1, o2, l1}
  Held = {h1}
  Locks = {l1}
  Locals = {x}
  Params = {}
  Syncs = {}
  Ivars = {"_a"}
  DeclFrom = {"new"}
  AssignFrom = {}
  IvarFrom = {}
  ReturnOf = {}
  BlockKinds = {"loop", "switch"}
  Rules = {"distinct names", "move in own block", "no use after move", "for-in to the end", "no dealloc locals", "dealloc to the end", "returns agree", "no explicit release"}
  MaxBlocks = 4
  RefMax = 10
SYMMETRY MCSymmetry
INVARIANTS
  NoStrayCall
CHECK_DEADLOCK FALSE

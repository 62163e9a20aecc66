\* A local initialised from an ivar.
SPECIFICATION Spec
CONSTANTS
  Nil = Nil
  h1 = h1
  o1 = o1
  o2 = o2
  l1 = l1
  x = x
  y = y
  Objects = {h1, o1, o2, l1}
  Held = {h1}
  Locks = {l1}
  Locals = {x}
  Params = {}
  Syncs = {}
  Ivars = {"_a"}
  DeclFrom = {"ivar"}
  AssignFrom = {}
  IvarFrom = {"new"}
  ReturnOf = {"void"}
  BlockKinds = {}
  Rules = {"distinct names", "move in own block", "no use after move", "no break in switch", "for-in to the end", "no dealloc locals", "dealloc to the end", "returns agree", "no explicit release"}
  MaxBlocks = 1
  RefMax = 10
SYMMETRY MCSymmetry
INVARIANTS
  NoStrayCall
CHECK_DEADLOCK FALSE

\* References that move between parameters, locals, ivars and the caller.
SPECIFICATION Spec
CONSTANTS
  Nil = Nil
  h1 = h1
  o1 = o1
  o2 = o2
  l1 = l1
  x = x
  y = y
  Objects = {h1, o1, o2, l1}
  Held = {h1}
  Locks = {l1}
  Locals = {x, y}
  Params = {"p"}
  Syncs = {}
  Ivars = {"_a", "_b"}
  DeclFrom = {"nil", "new", "call", "var"}
  AssignFrom = {"nil", "new", "var"}
  IvarFrom = {"nil", "new", "var"}
  ReturnOf = {"void", "new", "call", "ivar", "nil"}
  BlockKinds = {"then"}
  Rules = {"distinct names", "move in own block", "no use after move", "no dealloc locals", "dealloc to the end", "returns agree"}
  MaxBlocks = 2
  RefMax = 10
SYMMETRY MCSymmetry
INVARIANTS
  CountsExact
CHECK_DEADLOCK FALSE

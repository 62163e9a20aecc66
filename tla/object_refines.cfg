\* Two objects that hold each other, and a constant whose counter wraps.
SPECIFICATION Spec
CONSTANTS
  NULL = NULL
  t1 = t1
  t2 = t2
  s1 = s1
  l1 = l1
  h1 = h1
  k1 = k1
  n1 = n1
  n2 = n2
  n3 = n3
  OZObj = OZObj
  Base = Base
  Sub = Sub
  Leaf = Leaf
  Node = Node
  Threads = {t1, t2}
  Locals = {"x"}
  Classes <- NodeClasses
  Root = OZObj
  Super <- NodeSuper
  Ancestors <- NodeAncestors
  Ivars <- NodeIvars
  Declares <- NodeDeclares
  IvarClass <- NodeIvarClass
  UserDealloc = {Node}
  Blocks = {n1, n2, k1}
  ClassOf <- NodeClassOf
  HeapBlocks = {}
  Immortal = {k1}
  PoolCount <- NodePoolCount
  HeapCount = 1
  RefMax = 13
PROPERTIES
  ImplementsOwnership
CHECK_DEADLOCK FALSE

\* Two threads share objects of two classes; one leaf lives on the heap.
SPECIFICATION FairSpec
CONSTANTS
  NULL = NULL
  t1 = t1
  t2 = t2
  s1 = s1
  l1 = l1
  h1 = h1
  k1 = k1
  n1 = n1
  n2 = n2
  n3 = n3
  OZObj = OZObj
  Base = Base
  Sub = Sub
  Leaf = Leaf
  Node = Node
  Threads = {t1, t2}
  Locals = {"x", "y"}
  Classes <- MCClasses
  Root = OZObj
  Super <- MCSuper
  Ancestors <- MCAncestors
  Ivars <- MCIvars
  Declares <- MCDeclares
  IvarClass <- MCIvarClass
  UserDealloc = {Base}
  Blocks = {s1, l1, h1}
  ClassOf <- MCClassOf
  HeapBlocks = {h1}
  Immortal = {}
  PoolCount <- MCPoolCount
  HeapCount = 1
  RefMax = 100
INVARIANTS
  IInv
  RefCountExact
  NoDangling
  DeallocOnce
  PoolExact
  NoLeakAtQuiescence
PROPERTIES
  DeallocEnds
CHECK_DEADLOCK FALSE

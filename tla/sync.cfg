\* Two threads on one or two CPUs, blocks nested twice, every block or accessor of a thread inside at most one more.
SPECIFICATION FairSpec
CONSTANTS
  None = None
  t1 = t1
  t2 = t2
  v1 = v1
  v2 = v2
  Threads = {t1, t2}
  Values = {v1, v2}
  CpuCounts = {1, 2}
  SlabSizes <- Sizes
  MaxDepth = 2
  MaxCalls = 2
  Rules <- AllRules
INVARIANTS
  OneCpuExcludes
  MaskExact
  SlabSuffices
  BlocksBalanced
  ValueRefsExact
  GetterSafe
PROPERTIES
  TimerSafe
  BlockEnds

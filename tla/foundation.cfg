\* Two loops over an array of two or a dictionary of two pairs, pools for up to three
\* literals, and a string of up to seven characters with sizes of four bits;
\* numbers of six bits, and two threads that log them.
SPECIFICATION FairSpec
CONSTANTS
  Nil = Nil
  e1 = e1
  e2 = e2
  l1 = l1
  l2 = l2
  a = a
  b = b
  c = c
  Elems = {e1, e2}
  Loops = {l1, l2}
  Platforms = {"host", "zephyr"}
  Programs <- MCPrograms
  CollectionRules <- AllCollectionRules
  NULL = NULL
  Itself = Itself
  Strings <- MCStrings
  Capacities = {0, 3}
  Smallest = 2
  Width = 4
  StringRules <- AllStringRules
  NoNumber = NoNumber
  NumberWidth = 6
  Floats <- MCFloats
  NumberRules <- AllNumberRules
  NoText = NoText
  Loggers = {t1, t2}
  Precisions <- MCPrecisions
  MostDigits = 3
  LogRules <- AllLogRules
INVARIANTS
  TypeOK
  ContentsExact
  ElementsExact
  PoolsSuffice
  LoopExact
  Terminated
  ResultExact
  LoggedExactly
PROPERTIES
  LoopEnds
  ImplementsText
  DoublingEnds
CHECK_DEADLOCK FALSE

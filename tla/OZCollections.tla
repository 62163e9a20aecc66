------------------------------ MODULE OZCollections ------------------------------
(***************************************************************************)
(* Array and dictionary literals and the loops over them.                  *)
(*                                                                         *)
(* A literal collects one reference to each element, takes a block of the  *)
(* container's slab and a run of cells of the item pool, and copies the    *)
(* references into the cells.  Both pools are as large as the literals in  *)
(* the program's text.  A for-in loop keeps its position in the container. *)
(***************************************************************************)
EXTENDS Naturals, Sequences, FiniteSets, SequencesExt, Functions

CONSTANTS
  Programs,    \* each a function from literals to [kind, size, elems, text, looped]:
               \* an instance at run time, what it may hold, its place in the text,
               \* and whether there are loops over it
  Platforms,   \* the item pool: "host" counts cells, "zephyr" has them
  Elems,       \* the objects that are put into literals
  Loops,       \* the loops of the program, of one thread or of several
  CollectionRules,
  Nil

AllCollectionRules == {"no nil", "owner kept", "one for-in"}

ASSUME CollectionAssumption ==
  /\ Platforms \subseteq {"host", "zephyr"} /\ CollectionRules \subseteq AllCollectionRules
  /\ Nil \notin Elems
  /\ \A p \in Programs :
       /\ IsFiniteSet(DOMAIN p) /\ Nil \notin DOMAIN p
       /\ \A s \in DOMAIN p :
            /\ p[s].kind \in {"array", "dictionary"} /\ p[s].elems \subseteq Elems
            /\ p[s].size \in Nat \ {0}
            /\ p[s].kind = "dictionary" => p[s].size % 2 = 0

VARIABLES
  platform, program,
  lit,      \* the literals
  used,     \* the cells of the item pool that are taken
  mem,      \* what is in the cells
  heldBy,   \* the elements that variables hold
  count,    \* the reference counter of each element
  lost,     \* how many references nobody will give up any more
  loop

collectionVars == <<platform, program, lit, used, mem, heldBy, count, lost, loop>>

Lits == DOMAIN program
Texts == {program[s].text : s \in Lits}
Of(text) == CHOOSE s \in Lits : program[s].text = text
Items(text) == {text} \X (1..program[Of(text)].size)
PoolSize == Cardinality(UNION {Items(x) : x \in Texts})
SlabSize(kind) == Cardinality({x \in Texts : program[Of(x)].kind = kind})

NoLit  == [state |-> "none", items |-> <<>>, cells |-> <<>>, idx |-> 0, given |-> 0]
NoLoop == [pc |-> "idle", kind |-> "for-in", over |-> Nil, idx |-> 0, got |-> Nil, seen |-> <<>>]

CollectionInit ==
  /\ platform \in Platforms /\ program \in Programs
  /\ lit = [s \in Lits |-> NoLit]
  /\ used = {} /\ mem = [i \in 1..PoolSize |-> Nil]
  /\ heldBy = {} /\ count = [e \in Elems |-> 0] /\ lost = [e \in Elems |-> 0]
  /\ loop = [l \in Loops |-> NoLoop]

(***************************************************************************)
(* Elements                                                                *)
(***************************************************************************)
Unborn(e) == count[e] = 0

\* A variable gets a new object, or lets go of the one it has.
Hold(e) ==
  /\ Unborn(e)
  /\ heldBy' = heldBy \cup {e} /\ count' = [count EXCEPT ![e] = 1]
  /\ UNCHANGED <<platform, program, lit, used, mem, lost, loop>>

Drop(e) ==
  /\ e \in heldBy
  /\ heldBy' = heldBy \ {e} /\ count' = [count EXCEPT ![e] = @ - 1]
  /\ UNCHANGED <<platform, program, lit, used, mem, lost, loop>>

(***************************************************************************)
(* Literals                                                                *)
(***************************************************************************)
Size(s) == program[s].size
Times(items, e) == Cardinality({i \in DOMAIN items : items[i] = e})
Extra(messages, e) == IF e \in messages THEN 1 ELSE 0

\* The elements are variables, which are retained, boxed numbers and literals, which
\* are new objects and come with their reference, and messages like alloc and init,
\* whose result comes with a reference that nobody gives up and is retained as well.
Evaluate(s) ==
  /\ lit[s].state = "none"
  /\ \E items \in [1..Size(s) -> program[s].elems \cup {Nil}] :
       /\ "no nil" \in CollectionRules => Times(items, Nil) = 0
       /\ \A e \in Elems \ heldBy : Times(items, e) <= IF Unborn(e) THEN 1 ELSE 0
       /\ lit' = [lit EXCEPT ![s].state = "evaluated", ![s].items = items]
       /\ \E messages \in SUBSET {e \in Elems \ heldBy : Unborn(e) /\ Times(items, e) = 1} :
            /\ count' = [e \in Elems |-> count[e] + Times(items, e) + Extra(messages, e)]
            /\ lost' = [e \in Elems |-> lost[e] + Extra(messages, e)]
  /\ UNCHANGED <<platform, program, used, mem, heldBy, loop>>

\* OZArray_initWithItems, OZDictionary_initWithKeysValues return NULL, and the
\* elements' references are in a buffer that nobody looks at.
Fail(s) ==
  /\ lit' = [lit EXCEPT ![s].state = "failed"]
  /\ lost' = [e \in Elems |-> lost[e] + Times(lit[s].items, e)]

Blocks(kind) == {s \in Lits : program[s].kind = kind /\ lit[s].state \in {"block", "live", "dying", "empty"}}

AllocContainer(s) ==
  /\ lit[s].state = "evaluated"
  /\ IF Cardinality(Blocks(program[s].kind)) < SlabSize(program[s].kind)
     THEN lit' = [lit EXCEPT ![s].state = "block"] /\ UNCHANGED lost
     ELSE Fail(s)
  /\ UNCHANGED <<platform, program, used, mem, heldBy, count, loop>>

\* The host looks at the number of free cells and has malloc find some, Zephyr takes
\* the first run of them.
FreeCells == (1..PoolSize) \ used
Starts(n) == {i \in FreeCells : i..(i + n - 1) \subseteq FreeCells}
Fits(n) == IF platform = "host" THEN Cardinality(FreeCells) >= n ELSE Starts(n) # {}
Place(n) ==
  IF platform = "host" THEN CHOOSE c \in [1..n -> FreeCells] : IsInjective(c)
  ELSE LET first == CHOOSE i \in Starts(n) : \A j \in Starts(n) : i <= j
       IN [k \in 1..n |-> first + k - 1]

\* Mutant: the pairs are copied as they are written.
LayoutAsWritten(kind, items) == items

\* A dictionary has its keys before its values.
Layout(kind, items) ==
  LET n == Len(items) \div 2
  IN IF kind = "array" THEN items
     ELSE [i \in DOMAIN items |-> IF i <= n THEN items[2 * i - 1] ELSE items[2 * (i - n)]]

InitItems(s) ==
  /\ lit[s].state = "block"
  /\ IF ~Fits(Size(s)) THEN Fail(s) /\ UNCHANGED <<used, mem>>
     ELSE LET cells == Place(Size(s))
          IN /\ lit' = [lit EXCEPT ![s].state = "live", ![s].cells = cells]
             /\ used' = used \cup Range(cells)
             /\ mem' = [i \in DOMAIN mem |->
                  IF \E k \in DOMAIN cells : cells[k] = i
                  THEN Layout(program[s].kind, lit[s].items)[CHOOSE k \in DOMAIN cells : cells[k] = i]
                  ELSE mem[i]]
             /\ UNCHANGED lost
  /\ UNCHANGED <<platform, program, heldBy, count, loop>>

(***************************************************************************)
(* dealloc                                                                 *)
(***************************************************************************)
Looped(s) == {l \in Loops : loop[l].over = s}

\* The last reference to a container is released.
ReleaseContainer(s) ==
  /\ lit[s].state = "live"
  /\ "owner kept" \in CollectionRules => Looped(s) = {}
  /\ lit' = [lit EXCEPT ![s].state = "dying"]
  /\ UNCHANGED <<platform, program, used, mem, heldBy, count, lost, loop>>

\* Mutant: the last element is not released.
ReleaseElementButLast(s) ==
  /\ lit[s].state = "dying" /\ lit[s].given < Size(s)
  /\ lit' = [lit EXCEPT ![s].given = @ + 1]
  /\ LET e == mem[lit[s].cells[lit[s].given + 1]]
     IN count' = [x \in Elems |-> count[x] - IF x = e /\ lit[s].given + 1 < Size(s) THEN 1 ELSE 0]
  /\ UNCHANGED <<platform, program, used, mem, heldBy, lost, loop>>

ReleaseElement(s) ==
  /\ lit[s].state = "dying" /\ lit[s].given < Size(s)
  /\ lit' = [lit EXCEPT ![s].given = @ + 1]
  /\ LET e == mem[lit[s].cells[lit[s].given + 1]]
     IN count' = [x \in Elems |-> count[x] - IF x = e THEN 1 ELSE 0]
  /\ UNCHANGED <<platform, program, used, mem, heldBy, lost, loop>>

\* Mutant: a dictionary gives back as many cells as it has keys.
FreeItemsKeys(s) ==
  /\ lit[s].state = "dying" /\ lit[s].given = Size(s)
  /\ used' = used \ {lit[s].cells[i] : i \in 1..(IF program[s].kind = "array" THEN Size(s) ELSE Size(s) \div 2)}
  /\ lit' = [lit EXCEPT ![s].state = "empty"]
  /\ UNCHANGED <<platform, program, mem, heldBy, count, lost, loop>>

FreeItems(s) ==
  /\ lit[s].state = "dying" /\ lit[s].given = Size(s)
  /\ used' = used \ Range(lit[s].cells)
  /\ lit' = [lit EXCEPT ![s].state = "empty"]
  /\ UNCHANGED <<platform, program, mem, heldBy, count, lost, loop>>

FreeContainer(s) ==
  /\ lit[s].state = "empty"
  /\ lit' = [lit EXCEPT ![s] = NoLit]
  /\ UNCHANGED <<platform, program, used, mem, heldBy, count, lost, loop>>

(***************************************************************************)
(* Loops                                                                   *)
(***************************************************************************)
\* What _count is.
Count(s) == IF program[s].kind = "array" THEN Size(s) ELSE Size(s) \div 2

Step(l, from, new) == loop[l].pc = from /\ loop' = [loop EXCEPT ![l] = new]
OnlyLoops == UNCHANGED <<platform, program, used, mem, heldBy, count, lost>>

\* iter puts the position of the container back to its start.
\* enumerateObjectsUsingBlock: has a position of its own.
LoopStart(l, s) ==
  /\ lit[s].state = "live" /\ program[s].looped
  /\ \/ /\ "one for-in" \in CollectionRules => \A m \in Looped(s) : loop[m].kind = "block"
        /\ Step(l, "idle", [NoLoop EXCEPT !.pc = "test", !.over = s])
        /\ lit' = [lit EXCEPT ![s].idx = 0]
     \/ /\ program[s].kind = "array"
        /\ Step(l, "idle", [NoLoop EXCEPT !.pc = "test", !.over = s, !.kind = "block"])
        /\ UNCHANGED lit
  /\ OnlyLoops

Position(l) == IF loop[l].kind = "for-in" THEN lit[loop[l].over].idx ELSE loop[l].idx

\* next, or the condition of the block's loop.
LoopTest(l) ==
  /\ Step(l, "test", [loop[l] EXCEPT !.pc =
       IF Position(l) >= Count(loop[l].over) THEN "done" ELSE "fetch"])
  /\ OnlyLoops /\ UNCHANGED lit

LoopFetch(l) ==
  /\ Step(l, "fetch", [loop[l] EXCEPT !.pc = "advance",
       !.got = mem[lit[loop[l].over].cells[Position(l) + 1]]])
  /\ OnlyLoops /\ UNCHANGED lit

\* The history of a loop; one element too many is enough to see.
Saw(l) == IF Len(loop[l].seen) > Count(loop[l].over) THEN loop[l].seen
          ELSE Append(loop[l].seen, loop[l].got)

\* Mutant: next does not move the container's position.
LoopAdvanceNot(l) ==
  LET ends == loop[l].kind = "for-in" /\ loop[l].got = Nil
  IN /\ Step(l, "advance", [loop[l] EXCEPT !.pc = IF ends THEN "done" ELSE "body",
          !.idx = IF loop[l].kind = "block" THEN @ + 1 ELSE @,
          !.seen = IF ends THEN @ ELSE Saw(l)])
     /\ OnlyLoops /\ UNCHANGED lit

\* Mutant: every loop moves the container's position.
LoopAdvanceShared(l) ==
  LET ends == loop[l].kind = "for-in" /\ loop[l].got = Nil
  IN /\ Step(l, "advance", [loop[l] EXCEPT !.pc = IF ends THEN "done" ELSE "body",
          !.idx = @ + 1, !.seen = IF ends THEN @ ELSE Saw(l)])
     /\ lit' = [lit EXCEPT ![loop[l].over].idx = @ + 1]
     /\ OnlyLoops

LoopAdvance(l) ==
  LET ends == loop[l].kind = "for-in" /\ loop[l].got = Nil
  IN /\ Step(l, "advance", [loop[l] EXCEPT !.pc = IF ends THEN "done" ELSE "body",
          !.idx = IF loop[l].kind = "block" THEN @ + 1 ELSE @,
          !.seen = IF ends THEN @ ELSE Saw(l)])
     /\ lit' = [lit EXCEPT ![loop[l].over].idx = IF loop[l].kind = "for-in" THEN @ + 1 ELSE @]
     /\ OnlyLoops

\* The body ends, or leaves the loop with break or *stop = YES.
LoopBody(l) ==
  /\ \/ Step(l, "body", [loop[l] EXCEPT !.pc = "test", !.got = Nil])
     \/ Step(l, "body", NoLoop)
  /\ OnlyLoops /\ UNCHANGED lit

LoopLeave(l) == Step(l, "done", NoLoop) /\ OnlyLoops /\ UNCHANGED lit

LoopStep(l) == LoopTest(l) \/ LoopFetch(l) \/ LoopAdvance(l) \/ LoopBody(l) \/ LoopLeave(l)

(***************************************************************************)
(* Specification                                                           *)
(***************************************************************************)
CollectionNext ==
  \/ \E e \in UNION {program[s].elems : s \in Lits} : Hold(e) \/ Drop(e)
  \/ \E s \in Lits : \/ Evaluate(s) \/ AllocContainer(s) \/ InitItems(s)
                     \/ ReleaseContainer(s) \/ ReleaseElement(s)
                     \/ FreeItems(s) \/ FreeContainer(s)
                     \/ \E l \in Loops : LoopStart(l, s)
  \/ \E l \in Loops : LoopStep(l)

\* A loop goes on; nothing makes the program start one or release a container.
CollectionFairness == \A l \in Loops : WF_collectionVars(LoopStep(l))

(***************************************************************************)
(* Type correctness                                                        *)
(***************************************************************************)
\* Positions, cells and counters stay in their ranges.
CollectionTypeOK ==
  /\ \A s \in Lits :
       /\ lit[s].state \in {"none", "evaluated", "block", "failed", "live", "dying", "empty"}
       /\ lit[s].cells \in Seq(1..PoolSize) /\ lit[s].idx \in 0..Count(s)
       /\ lit[s].given \in 0..Size(s)
  /\ used \subseteq 1..PoolSize /\ mem \in [1..PoolSize -> Elems \cup {Nil}]
  /\ heldBy \subseteq Elems /\ count \in [Elems -> Nat] /\ lost \in [Elems -> Nat]
  /\ \A l \in Loops : loop[l].pc \in {"idle", "test", "fetch", "advance", "body", "done"}

(***************************************************************************)
(* Properties                                                              *)
(***************************************************************************)
HasCells == {s \in Lits : lit[s].state \in {"live", "dying"}}

\* The cells that are taken are those of the containers, and no cell is in two
\* of them (oz_mem_blocks_alloc_contiguous, the deallocs of the collections).
CellsExact ==
  /\ used = UNION {Range(lit[s].cells) : s \in HasCells}
  /\ \A s, r \in HasCells : s # r => Range(lit[s].cells) \cap Range(lit[r].cells) = {}

\* A container has cells of its own and in them what its literal says as long as
\* it lives: an array the elements in their order, a dictionary at every place
\* the key and its value (_emit_expr, initWithItems, initWithKeysValues).
ContentsExact ==
  /\ CellsExact
  /\ \A s \in Lits : lit[s].state = "live" =>
    LET at(i) == mem[lit[s].cells[i]]
    IN IF program[s].kind = "array" THEN \A i \in 1..Size(s) : at(i) = lit[s].items[i]
       ELSE \A i \in 1..Count(s) : /\ at(i) = lit[s].items[2 * i - 1]
                                   /\ at(Count(s) + i) = lit[s].items[2 * i]

\* The counter of an element is the number of its owners: a variable, places in
\* literals, and the failed literals that lost it.
PlacesIn(s, e) ==
  IF lit[s].state \in {"evaluated", "block"} THEN {i \in 1..Size(s) : lit[s].items[i] = e}
  ELSE IF s \notin HasCells THEN {}
  ELSE {i \in (lit[s].given + 1)..Size(s) : mem[lit[s].cells[i]] = e}
Places(e) == UNION {{s} \X PlacesIn(s, e) : s \in Lits}
ElementsExact ==
  \A e \in Elems :
    count[e] = (IF e \in heldBy THEN 1 ELSE 0) + lost[e] + Cardinality(Places(e))

\* The pools that are counted from the text suffice for every literal, with two
\* exceptions: the program has two instances of one place in the text, or the
\* cells of the pool must be contiguous and literals have several sizes
\* (_count_item_slots, _count_alloc_calls).
PoolsSuffice ==
  (\E s \in Lits : lit[s].state = "failed") =>
    \/ Cardinality(Texts) < Cardinality(Lits)
    \/ platform = "zephyr" /\ \E s, r \in Lits : Size(s) # Size(r)

\* A loop reads the cells of a living container, and its element lives.
LoopSafe ==
  \A l \in Loops :
    /\ loop[l].pc = "fetch" => /\ lit[loop[l].over].state = "live"
                               /\ Position(l) < Count(loop[l].over)
    /\ loop[l].pc = "body" /\ loop[l].got # Nil => count[loop[l].got] > 0

\* A loop visits the elements of an array, or the keys of a dictionary, in their
\* order, and all of them unless its body breaks, whatever other loops do, and
\* reads only what lives (iter, next, enumerateObjectsUsingBlock:).
Visited(s) == [i \in 1..Count(s) |-> mem[lit[s].cells[i]]]
LoopExact ==
  /\ LoopSafe
  /\ \A l \in Loops : loop[l].pc # "idle" =>
    /\ IsPrefix(loop[l].seen, Visited(loop[l].over))
    /\ loop[l].pc = "done" => loop[l].seen = Visited(loop[l].over)

(***************************************************************************)
(* The parts of the inductive invariant                                    *)
(***************************************************************************)
States == {"none", "evaluated", "block", "failed", "live", "dying", "empty"}
Literals == [state : States, items : Seq(Elems \cup {Nil}), cells : Seq(1..PoolSize),
             idx : Nat, given : Nat]

Shape ==
  /\ platform \in Platforms /\ program \in Programs
  /\ lit \in [Lits -> Literals]
  /\ mem \in [1..PoolSize -> Elems \cup {Nil}]
  /\ heldBy \subseteq Elems /\ count \in [Elems -> Nat] /\ lost \in [Elems -> Nat]
  /\ \A s \in Lits : /\ lit[s].state # "none" => Len(lit[s].items) = Size(s)
                     /\ lit[s].given <= Size(s)
                     /\ lit[s].state \notin {"dying", "empty"} => lit[s].given = 0

\* A literal has different cells, as many as items, and in them the items until its
\* dealloc gives them back.
CellsFilled ==
  \A s \in HasCells :
    /\ Len(lit[s].cells) = Size(s) /\ IsInjective(lit[s].cells)
    /\ \A i \in 1..Size(s) :
         mem[lit[s].cells[i]] = Layout(program[s].kind, lit[s].items)[i]

\* If all literals have one size, Zephyr's runs begin at the multiples of it.
SameSizes == \A s, r \in Lits : Size(s) = Size(r)
RunsAligned ==
  platform = "zephyr" /\ SameSizes =>
    \A s \in HasCells : \E k \in 0..PoolSize :
      \A i \in 1..Size(s) : lit[s].cells[i] = k * Size(s) + i

PoolsInv == Shape /\ CellsExact /\ CellsFilled /\ ElementsExact /\ RunsAligned /\ PoolsSuffice

\* A loop is over a living container, no two for-in loops over the same one, and it
\* has seen the elements up to its position.
LoopState(l) ==
  LET r == loop[l]
  IN /\ r.over \in Lits /\ lit[r.over].state = "live"
     /\ r.kind = "block" => program[r.over].kind = "array"
     /\ Position(l) \in 0..Count(r.over) /\ Len(r.seen) = Position(l)
     /\ \A i \in 1..Position(l) : r.seen[i] = Visited(r.over)[i]
     /\ r.pc \in {"fetch", "advance"} => Position(l) < Count(r.over)
     /\ r.pc = "advance" => r.got = Visited(r.over)[Position(l) + 1]
     /\ r.pc = "body" => Position(l) > 0 /\ r.got = Visited(r.over)[Position(l)]
     /\ r.pc = "done" => Position(l) = Count(r.over)

LoopRecords == [pc : {"idle", "test", "fetch", "advance", "body", "done"},
                kind : {"for-in", "block"}, over : Lits \cup {Nil}, idx : Nat,
                got : Elems \cup {Nil}, seen : Seq(Elems)]
LoopsInv ==
  /\ loop \in [Loops -> LoopRecords]
  /\ \A s \in Lits : /\ lit[s].state # "none" => \A i \in 1..Size(s) : lit[s].items[i] # Nil
                     /\ lit[s].idx <= Count(s)
  /\ \A l \in Loops : IF loop[l].pc = "idle" THEN loop[l].over = Nil ELSE LoopState(l)
  /\ \A l, m \in Loops : loop[l].over = loop[m].over /\ loop[l].over # Nil
                         /\ loop[l].kind = "for-in" /\ loop[m].kind = "for-in" => l = m

(***************************************************************************)
(* Liveness                                                                *)
(***************************************************************************)
\* Every loop ends (_emit_forin_stmt).
LoopEnds == \A l \in Loops : loop[l].pc # "idle" ~> loop[l].pc = "idle"
=============================================================================

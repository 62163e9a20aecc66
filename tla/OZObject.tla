------------------------------- MODULE OZObject -------------------------------
(***************************************************************************)
(* The object runtime the transpiler generates: allocation from a slab or  *)
(* a heap, OZObject_retain and OZObject_release, the strong atomic setter  *)
(* and the chain of dealloc methods, run by several threads at once.       *)
(*                                                                         *)
(* One step of a thread is one atomic operation of the C code: an atomic   *)
(* increment, an atomic decrement, a critical section, a test of a flag.   *)
(* "ref" records which slots own a reference: the value of a local, of an  *)
(* instance variable or of an accessor's temporary, NULL once the slot's   *)
(* reference was released.                                                 *)
(***************************************************************************)
EXTENDS Integers, FiniteSets, Sequences

CONSTANTS
  Threads,
  Locals,       \* names of the strong local variables of a thread
  Classes,
  Root,         \* the root class, OZObject
  Super,        \* Super[c] is the superclass of c, NULL for Root
  Ancestors,    \* Ancestors[c] is the set of all proper superclasses of c
  Ivars,        \* names of strong instance variables
  Declares,     \* Declares[c] is the set of ivars that c itself declares
  IvarClass,    \* IvarClass[i] is the declared class of ivar i
  UserDealloc,  \* the classes whose source has a dealloc that passes self on
  Blocks,       \* the memory blocks objects live in
  ClassOf,      \* ClassOf[b] is the class whose pool (or heap cell) b is in
  HeapBlocks,   \* the blocks that allocWithHeap: hands out
  Immortal,     \* static objects (constant strings)
  PoolCount,    \* PoolCount[c] is the number of blocks of the slab of c
  HeapCount,    \* the number of objects that fit in the heap
  RefMax,       \* the largest value of the atomic int _refcount
  NULL

ASSUME ClassAssumption ==
  /\ Root \in Classes
  /\ NULL \notin Classes
  /\ Super \in [Classes -> Classes \cup {NULL}]
  /\ Ancestors \in [Classes -> SUBSET Classes]
  /\ \A c \in Classes : /\ Super[c] = NULL <=> c = Root
                        /\ Super[c] = NULL => Ancestors[c] = {}
                        /\ Super[c] # NULL =>
                             Ancestors[c] = {Super[c]} \cup Ancestors[Super[c]]
  /\ Declares \in [Classes -> SUBSET Ivars]
  /\ IvarClass \in [Ivars -> Classes]
  /\ UserDealloc \subseteq Classes

ASSUME BlockAssumption ==
  /\ NULL \notin Blocks
  /\ ClassOf \in [Blocks -> Classes]
  /\ HeapBlocks \subseteq Blocks
  /\ Immortal \subseteq Blocks
  /\ HeapBlocks \cap Immortal = {}
  /\ PoolCount \in [Classes -> Nat]
  /\ HeapCount \in Nat

\* A thread's accessor keeps its parameter and the old value in temporaries;
\* a method called from a dealloc body retains its parameter, the dying object.
ASSUME SlotAssumption ==
  /\ Threads \cap Blocks = {}
  /\ Locals \cap {"param", "old"} = {}
  /\ "self" \notin Ivars

LocalSlots == Threads \X Locals
TempSlots  == Threads \X {"param", "old"}
IvarSlots  == Blocks \X Ivars
SelfSlots  == Blocks \X {"self"}
Slots      == LocalSlots \cup TempSlots \cup IvarSlots \cup SelfSlots

ASSUME CountAssumption ==
  /\ IsFiniteSet(Slots)
  /\ RefMax \in Nat
  /\ Cardinality(Slots) < RefMax

VARIABLES
  ref,        \* ref[s] is the object slot s owns a reference to, or NULL
  refcount,   \* refcount[b] is _refcount of the object in b
  deallocating,   \* deallocating[b] is _meta.deallocating
  heapAllocated,  \* heapAllocated[b] is _meta.heap_allocated
  allocated,  \* the blocks that are handed out
  numUsed,    \* numUsed[c] is num_used of the slab of c
  heapUsed,   \* the number of cells of the heap in use
  stack,      \* stack[t] is the stack of calls of OZObject_release of t
  call        \* call[t] is the setter t is in

vars == <<ref, refcount, deallocating, heapAllocated, allocated, numUsed,
          heapUsed, stack, call>>
memory == <<deallocating, heapAllocated, allocated, numUsed, heapUsed>>

NoCall == [pc |-> "none", obj |-> NULL, ivar |-> NULL]

TestFrame(b) ==
  [pc |-> "test", obj |-> b, level |-> Root, body |-> FALSE, todo |-> {}]
DeallocFrame(b, c) ==
  [pc |-> "dealloc", obj |-> b, level |-> c, body |-> c \in UserDealloc,
   todo |-> Declares[c]]

Frames == [pc : {"test", "dealloc"}, obj : Blocks, level : Classes,
           body : BOOLEAN, todo : SUBSET Ivars]
Calls  == [pc : {"swap", "drop"}, obj : Blocks, ivar : Ivars]

HasIvar(b, i) ==
  \E c \in {ClassOf[b]} \cup Ancestors[ClassOf[b]] : i \in Declares[c]
IsKindOf(b, c) == c \in {ClassOf[b]} \cup Ancestors[ClassOf[b]]

Init ==
  /\ ref = [s \in Slots |-> NULL]
  /\ refcount = [b \in Blocks |-> IF b \in Immortal THEN 1 ELSE 0]
  /\ deallocating = [b \in Blocks |-> FALSE]
  /\ heapAllocated = [b \in Blocks |-> FALSE]
  /\ allocated = {}
  /\ numUsed = [c \in Classes |-> 0]
  /\ heapUsed = 0
  /\ stack = [t \in Threads |-> << >>]
  /\ call = [t \in Threads |-> NoCall]
-----------------------------------------------------------------------------
\* The atomic int of the generated code wraps around.
Inc(n) == IF n = RefMax THEN -RefMax - 1 ELSE n + 1
Dec(n) == IF n = -RefMax - 1 THEN RefMax ELSE n - 1

\* OZObject_retain: NULL is skipped, everything else is counted.
Retained(b) == IF b = NULL THEN refcount
               ELSE [refcount EXCEPT ![b] = Inc(@)]

\* OZObject_release up to and including the atomic decrement: NULL and
\* immortal objects return early, and the thread that takes the count from
\* one to zero goes on to the test of the deallocating flag.
Counted(b) == b # NULL /\ b \notin Immortal

\* Mutant: the value before the decrement is compared with the wrong one.
ReleaseEarly(t, s, base) ==
  LET b == ref[s]
  IN  /\ ref' = [ref EXCEPT ![s] = NULL]
      /\ refcount' = IF Counted(b) THEN [refcount EXCEPT ![b] = Dec(@)]
                     ELSE refcount
      /\ stack' = [stack EXCEPT ![t] = IF Counted(b) /\ refcount[b] = 2
                                       THEN Append(base, TestFrame(b))
                                       ELSE base]

Release(t, s, base) ==
  LET b == ref[s]
  IN  /\ ref' = [ref EXCEPT ![s] = NULL]
      /\ refcount' = IF Counted(b) THEN [refcount EXCEPT ![b] = Dec(@)]
                     ELSE refcount
      /\ stack' = [stack EXCEPT ![t] = IF Counted(b) /\ refcount[b] = 1
                                       THEN Append(base, TestFrame(b))
                                       ELSE base]
-----------------------------------------------------------------------------
Idle(t) == stack[t] = << >> /\ call[t] = NoCall
Holds(t, b) == \E v \in Locals : ref[<<t, v>>] = b

\* The memory comes back zeroed, whatever it held, with a count of one.
Fresh(t, v, b, heap) ==
  /\ Idle(t)
  /\ ref[<<t, v>>] = NULL
  /\ b \notin allocated \cup Immortal
  /\ allocated' = allocated \cup {b}
  /\ ref' = [s \in Slots |-> IF s = <<t, v>> THEN b
                             ELSE IF s[1] = b THEN NULL ELSE ref[s]]
  /\ refcount' = [refcount EXCEPT ![b] = 1]
  /\ deallocating' = [deallocating EXCEPT ![b] = FALSE]
  /\ heapAllocated' = [heapAllocated EXCEPT ![b] = heap]
  /\ UNCHANGED <<stack, call>>

\* X_alloc.  An exhausted slab returns NULL and changes nothing.
Alloc(t, v, b) ==
  /\ b \notin HeapBlocks
  /\ numUsed[ClassOf[b]] < PoolCount[ClassOf[b]]
  /\ numUsed' = [numUsed EXCEPT ![ClassOf[b]] = @ + 1]
  /\ Fresh(t, v, b, FALSE)
  /\ UNCHANGED heapUsed

\* X_allocWithHeap_.
AllocWithHeap(t, v, b) ==
  /\ b \in HeapBlocks
  /\ heapUsed < HeapCount
  /\ heapUsed' = heapUsed + 1
  /\ Fresh(t, v, b, TRUE)
  /\ UNCHANGED numUsed

\* A thread retains an object it holds (or a constant) for a variable of its
\* own or, when it hands the object over, for a variable of another thread.
Share(t, b, u, v) ==
  /\ Idle(t)
  /\ Holds(t, b) \/ b \in Immortal
  /\ ref[<<u, v>>] = NULL
  /\ ref' = [ref EXCEPT ![<<u, v>>] = b]
  /\ refcount' = Retained(b)
  /\ UNCHANGED <<memory, stack, call>>

\* A strong local goes out of scope.
ScopeRelease(t, v) ==
  /\ Idle(t)
  /\ ref[<<t, v>>] # NULL
  /\ Release(t, <<t, v>>, << >>)
  /\ UNCHANGED <<memory, call>>

\* Mutant: the setter does not retain its parameter.
SetRetainNothing(t, o, i, n) ==
  /\ Idle(t)
  /\ Holds(t, o) /\ HasIvar(o, i) /\ o \notin Immortal
  /\ n # NULL => /\ Holds(t, n) \/ n \in Immortal
                 /\ IsKindOf(n, IvarClass[i])
  /\ ref' = [ref EXCEPT ![<<t, "param">>] = n]
  /\ call' = [call EXCEPT ![t] = [pc |-> "swap", obj |-> o, ivar |-> i]]
  /\ UNCHANGED <<memory, refcount, stack>>

\* The strong atomic setter: retain(param); lock { old = ivar; ivar = param };
\* release(old).  The caller passes a value it holds, a constant or nil.
SetRetain(t, o, i, n) ==
  /\ Idle(t)
  /\ Holds(t, o) /\ HasIvar(o, i) /\ o \notin Immortal
  /\ n # NULL => /\ Holds(t, n) \/ n \in Immortal
                 /\ IsKindOf(n, IvarClass[i])
  /\ ref' = [ref EXCEPT ![<<t, "param">>] = n]
  /\ refcount' = Retained(n)
  /\ call' = [call EXCEPT ![t] = [pc |-> "swap", obj |-> o, ivar |-> i]]
  /\ UNCHANGED <<memory, stack>>

\* Mutant: the old value is overwritten before it is saved.
SetSwapLosesOld(t) ==
  /\ call[t].pc = "swap"
  /\ ref' = [ref EXCEPT ![<<call[t].obj, call[t].ivar>>] = ref[<<t, "param">>],
                        ![<<t, "param">>] = NULL]
  /\ call' = [call EXCEPT ![t].pc = "drop"]
  /\ UNCHANGED <<memory, refcount, stack>>

SetSwap(t) ==
  /\ call[t].pc = "swap"
  /\ LET iv == <<call[t].obj, call[t].ivar>>
     IN  ref' = [ref EXCEPT ![<<t, "old">>] = ref[iv],
                            ![iv] = ref[<<t, "param">>],
                            ![<<t, "param">>] = NULL]
  /\ call' = [call EXCEPT ![t].pc = "drop"]
  /\ UNCHANGED <<memory, refcount, stack>>

SetRelease(t) ==
  /\ call[t].pc = "drop"
  /\ Release(t, <<t, "old">>, << >>)
  /\ call' = [call EXCEPT ![t] = NoCall]
  /\ UNCHANGED memory
-----------------------------------------------------------------------------
Depth(t) == Len(stack[t])
Top(t)   == stack[t][Depth(t)]
Below(t) == SubSeq(stack[t], 1, Depth(t) - 1)
Replace(t, f) == stack' = [stack EXCEPT ![t] = Append(Below(t), f)]

\* Mutant: the deallocating flag is set but not tested.
TestNoFlag(t) ==
  /\ stack[t] # << >> /\ Top(t).pc = "test"
  /\ Replace(t, DeallocFrame(Top(t).obj, ClassOf[Top(t).obj]))
  /\ deallocating' = [deallocating EXCEPT ![Top(t).obj] = TRUE]
  /\ UNCHANGED <<ref, refcount, heapAllocated, allocated, numUsed, heapUsed,
                 call>>

\* The rest of OZObject_release: whoever finds the flag set returns, the
\* other sets it and calls the dealloc method of the object's class.
Test(t) ==
  /\ stack[t] # << >> /\ Top(t).pc = "test"
  /\ LET b == Top(t).obj
     IN  IF deallocating[b]
         THEN /\ stack' = [stack EXCEPT ![t] = Below(t)]
              /\ UNCHANGED deallocating
         ELSE /\ Replace(t, DeallocFrame(b, ClassOf[b]))
              /\ deallocating' = [deallocating EXCEPT ![b] = TRUE]
  /\ UNCHANGED <<ref, refcount, heapAllocated, allocated, numUsed, heapUsed,
                 call>>

InDealloc(t) == stack[t] # << >> /\ Top(t).pc = "dealloc"

\* The user's dealloc body passes self to a method, which retains it on entry
\* (BodyCall) and releases it when it returns (BodyReturn).
BodyCall(t) ==
  /\ InDealloc(t) /\ Top(t).body
  /\ ref' = [ref EXCEPT ![<<Top(t).obj, "self">>] = Top(t).obj]
  /\ refcount' = Retained(Top(t).obj)
  /\ Replace(t, [Top(t) EXCEPT !.body = FALSE])
  /\ UNCHANGED <<memory, call>>

BodyReturn(t) ==
  /\ InDealloc(t) /\ ref[<<Top(t).obj, "self">>] # NULL
  /\ Release(t, <<Top(t).obj, "self">>, stack[t])
  /\ UNCHANGED <<memory, call>>

BodyDone(t) ==
  InDealloc(t) /\ ~ Top(t).body /\ ref[<<Top(t).obj, "self">>] = NULL

\* Mutant: a released ivar is not crossed off.
ReleaseIvarAgain(t, i) ==
  /\ BodyDone(t) /\ i \in Top(t).todo
  /\ Release(t, <<Top(t).obj, i>>, stack[t])
  /\ UNCHANGED <<memory, call>>

\* The ivars that the class at this level declares are released one by one.
ReleaseIvar(t, i) ==
  /\ BodyDone(t) /\ i \in Top(t).todo
  /\ Release(t, <<Top(t).obj, i>>,
             Append(Below(t), [Top(t) EXCEPT !.todo = @ \ {i}]))
  /\ UNCHANGED <<memory, call>>

\* Mutant: the chain jumps to the root's dealloc.
SuperDeallocRoot(t) ==
  /\ BodyDone(t) /\ Top(t).todo = {} /\ Top(t).level # Root
  /\ Replace(t, DeallocFrame(Top(t).obj, Root))
  /\ UNCHANGED <<ref, refcount, memory, call>>

\* Then the superclass' dealloc takes over.
SuperDealloc(t) ==
  /\ BodyDone(t) /\ Top(t).todo = {} /\ Top(t).level # Root
  /\ Replace(t, DeallocFrame(Top(t).obj, Super[Top(t).level]))
  /\ UNCHANGED <<ref, refcount, memory, call>>

\* Mutant: heap memory is given to the slab of its class.
FreeToSlab(b) ==
  /\ allocated' = allocated \ {b}
  /\ numUsed' = [numUsed EXCEPT ![ClassOf[b]] = IF @ > 0 THEN @ - 1 ELSE @]
  /\ UNCHANGED heapUsed

\* X_free gives the memory back to where it came from.
Free(b) ==
  /\ allocated' = allocated \ {b}
  /\ IF heapAllocated[b]
     THEN heapUsed' = heapUsed - 1 /\ UNCHANGED numUsed
     ELSE /\ numUsed' = [numUsed EXCEPT ![ClassOf[b]] = IF @ > 0 THEN @ - 1
                                                        ELSE @]
          /\ UNCHANGED heapUsed

\* The root's dealloc ends the chain in OZObject_dispatch_free.
DispatchFree(t) ==
  /\ BodyDone(t) /\ Top(t).todo = {} /\ Top(t).level = Root
  /\ Free(Top(t).obj)
  /\ stack' = [stack EXCEPT ![t] = Below(t)]
  /\ UNCHANGED <<ref, refcount, deallocating, heapAllocated, call>>
-----------------------------------------------------------------------------
\* What a thread does next once it has called the setter or release.
Continue(t) ==
  \/ SetSwap(t)
  \/ SetRelease(t)
  \/ Test(t)
  \/ BodyCall(t)
  \/ BodyReturn(t)
  \/ \E i \in Ivars : ReleaseIvar(t, i)
  \/ SuperDealloc(t)
  \/ DispatchFree(t)

Start(t) ==
  \/ \E v \in Locals, b \in Blocks : Alloc(t, v, b)
  \/ \E v \in Locals, b \in Blocks : AllocWithHeap(t, v, b)
  \/ \E u \in Threads, v \in Locals, b \in Blocks : Share(t, b, u, v)
  \/ \E v \in Locals : ScopeRelease(t, v)
  \/ \E o \in Blocks, i \in Ivars, n \in Blocks \cup {NULL} :
       SetRetain(t, o, i, n)

Next == \E t \in Threads : Start(t) \/ Continue(t)

Spec == Init /\ [][Next]_vars
FairSpec == Spec /\ \A t \in Threads : WF_vars(Continue(t))
-----------------------------------------------------------------------------
TypeOK ==
  /\ ref \in [Slots -> Blocks \cup {NULL}]
  /\ refcount \in [Blocks -> Int]
  /\ deallocating \in [Blocks -> BOOLEAN]
  /\ heapAllocated \in [Blocks -> BOOLEAN]
  /\ allocated \subseteq Blocks
  /\ numUsed \in [Classes -> Nat]
  /\ heapUsed \in Int
  /\ stack \in [Threads -> Seq(Frames)]
  /\ call \in [Threads -> Calls \cup {NoCall}]

Owners(b) == {s \in Slots : ref[s] = b}

\* The count of every object that can be reclaimed is the number of slots that
\* own a reference to it, at every step of retains, setters and releases of
\* several threads, during its dealloc and after it was freed.
RefCountExact ==
  \A b \in Blocks \ Immortal : refcount[b] = Cardinality(Owners(b))

\* Nothing that owns a reference, and no dealloc under way, points to memory
\* that went back to its pool.
NoDangling ==
  /\ \A s \in Slots : ref[s] \in allocated \cup Immortal \cup {NULL}
  /\ \A t \in Threads : \A k \in 1 .. Depth(t) : stack[t][k].obj \in allocated

\* The dealloc method of an object runs once: not again when its own body
\* retains and releases self, and not in two threads that let go together.
DeallocOnce ==
  \A t, u \in Threads : \A j \in 1 .. Depth(t), k \in 1 .. Depth(u) :
    /\ stack[t][j].pc = "dealloc" /\ stack[u][k].pc = "dealloc"
    /\ stack[t][j].obj = stack[u][k].obj
    => t = u /\ j = k

\* The pools' own accounting agrees with the objects that exist: a block
\* returns to the allocator it came from, once.
PoolExact ==
  /\ \A c \in Classes :
       numUsed[c] = Cardinality({b \in allocated \ HeapBlocks : ClassOf[b] = c})
  /\ heapUsed = Cardinality(allocated \cap HeapBlocks)

\* No leak: when the threads are idle and their variables hold nothing, every
\* block is back in its pool, provided that ivars cannot form a cycle of
\* classes (which scripts/objz_check_cycles.py reports).
NoLeakAtQuiescence ==
  (\A t \in Threads : Idle(t) /\ \A b \in Blocks : ~ Holds(t, b))
  => allocated = {}

\* What scripts/objz_check_cycles.py looks for is absent: the classes can be
\* ranked so that an object outranks whatever can own it through an ivar.
ClassesAcyclic ==
  \E rank \in [Classes -> Nat] : \A c, d \in Classes : \A i \in Ivars :
    /\ \E a \in {c} \cup Ancestors[c] : i \in Declares[a]
    /\ IvarClass[i] \in {d} \cup Ancestors[d]
    => rank[c] < rank[d]

\* A constant string is never deallocated however often it is retained and
\* released: its counter wraps around and passes every value.
ImmortalSurvives ==
  \A t \in Threads : \A k \in 1 .. Depth(t) : stack[t][k].obj \notin Immortal

-----------------------------------------------------------------------------
\* The parts of the inductive invariant.

\* Immortal objects are never handed out, and memory that is not allocated
\* owns nothing.
FreeOwnsNothing ==
  /\ allocated \cap Immortal = {}
  /\ \A b \in Blocks \ allocated : \A i \in Ivars \cup {"self"} :
       ref[<<b, i>>] = NULL

\* An object only owns through ivars that its class has.
IvarsDeclared ==
  \A b \in Blocks, i \in Ivars : ref[<<b, i>>] # NULL => HasIvar(b, i)

\* A setter's temporaries are only in use between its steps, and the caller
\* holds the object it was sent to.
SetterState ==
  \A t \in Threads :
    /\ call[t] # NoCall => stack[t] = << >>
    /\ call[t].pc # "swap" => ref[<<t, "param">>] = NULL
    /\ call[t].pc # "drop" => ref[<<t, "old">>] = NULL
    /\ call[t].pc = "swap" => /\ Holds(t, call[t].obj)
                              /\ HasIvar(call[t].obj, call[t].ivar)
                              /\ call[t].obj \notin Immortal

\* A dealloc body's reference to self exists while that dealloc is the top of
\* some thread's stack.
SelfState ==
  \A b \in Blocks : ref[<<b, "self">>] # NULL =>
    /\ ref[<<b, "self">>] = b
    /\ \E t \in Threads : InDealloc(t) /\ Top(t).obj = b /\ ~ Top(t).body

\* Nobody but a dealloc body owns an object that is being released for good.
FrameObject(f) ==
  /\ f.obj \in allocated
  /\ \A s \in Slots : ref[s] = f.obj => s = <<f.obj, "self">>

\* A dealloc has its levels above it, and the ivars it has not released, left.
FrameLevel(f) ==
  f.pc = "dealloc" =>
    /\ deallocating[f.obj]
    /\ \A i \in Ivars : ref[<<f.obj, i>>] # NULL =>
         i \in f.todo \cup UNION {Declares[c] : c \in Ancestors[f.level]}

FrameState ==
  \A t \in Threads : \A k \in 1 .. Depth(t) :
    FrameObject(stack[t][k]) /\ FrameLevel(stack[t][k])

\* Two calls concern the same object only when a dealloc method's own retain
\* and release of self ended in the test of the flag.
FrameUnique ==
  \A t, u \in Threads : \A j \in 1 .. Depth(t), k \in 1 .. Depth(u) :
    stack[t][j].obj = stack[u][k].obj =>
      /\ t = u
      /\ j < k => k = Depth(t) /\ stack[t][k].pc = "test"
                  /\ stack[t][j].pc = "dealloc"

CountInv ==
  /\ TypeOK
  /\ RefCountExact
  /\ NoDangling
  /\ FreeOwnsNothing
  /\ IvarsDeclared
  /\ SetterState
  /\ SelfState
  /\ FrameState
  /\ FrameUnique

\* The heap_allocated flag of an object tells which allocator it came from.
HeapFlags == \A b \in allocated : heapAllocated[b] <=> b \in HeapBlocks

\* The deallocating flag of an object that still has its memory means that its
\* dealloc is under way: who finds the flag set may just return.
DeallocFramed ==
  \A b \in allocated : deallocating[b] =>
    \E t \in Threads : \E k \in 1 .. Depth(t) :
      stack[t][k].obj = b /\ stack[t][k].pc = "dealloc"

\* The objects a release or a dealloc method is at work on, and the slots that
\* own in the long run: all but a dealloc body's own reference to self.
InFrame(b)  == \E t \in Threads : \E k \in 1 .. Depth(t) : stack[t][k].obj = b
OwnSlots    == Slots \ SelfSlots
HasOwner(b) == \E s \in OwnSlots : ref[s] = b

\* Nothing is lost: an object that nobody owns is being released.
LiveOwned == \A b \in allocated : InFrame(b) \/ HasOwner(b)

\* An ivar, and the parameter of its setter, hold objects of its class.
IvarKinds ==
  /\ \A b \in Blocks, i \in Ivars :
       ref[<<b, i>>] # NULL => IsKindOf(ref[<<b, i>>], IvarClass[i])
  /\ \A t \in Threads :
       call[t].pc = "swap" /\ ref[<<t, "param">>] # NULL
       => IsKindOf(ref[<<t, "param">>], IvarClass[call[t].ivar])

IInv == /\ CountInv
        /\ HeapFlags /\ PoolExact
        /\ DeallocFramed /\ LiveOwned /\ IvarKinds
-----------------------------------------------------------------------------
\* An object whose dealloc began is freed, and a thread in a setter or a chain
\* of deallocs gets out of it (OZObject_release, the generated deallocs).
DeallocEnds ==
  /\ \A b \in Blocks : (b \in allocated /\ deallocating[b]) ~> b \notin allocated
  /\ \A t \in Threads : ~Idle(t) ~> Idle(t)

\* OZObject implements OZOwnership: the owners are the slots other than a
\* dealloc body's own reference to self, and an object is dying while a
\* release of its last reference or a dealloc method of it is under way.
Ownership  == INSTANCE OZOwnership WITH
                Objects <- Blocks,
                Slots   <- OwnSlots,
                SlotsOf <- [b \in Blocks |-> {b} \X Ivars],
                owns    <- [s \in OwnSlots |-> ref[s]],
                status  <- [b \in Blocks |->
                              IF b \notin allocated \cup Immortal THEN "free"
                              ELSE IF InFrame(b) THEN "dying" ELSE "live"]
ImplementsOwnership == Ownership!Spec
=============================================================================

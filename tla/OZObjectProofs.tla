---------------------------- MODULE OZObjectProofs ----------------------------
(***************************************************************************)
(* Proofs about OZObject, for every set of threads, classes and blocks.    *)
(***************************************************************************)
EXTENDS OZObject, OZNaturals, FiniteSetTheorems, FunctionTheorems, SequenceTheorems, TLAPS

\* The slots that own b when the slots' contents are f.
OwnersIn(f, b) == {s \in Slots : f[s] = b}
Contents == [Slots -> Blocks \cup {NULL}]

\* The owners of an object are finitely many, fewer than the counter can hold.
LEMMA OwnersFinite ==
  ASSUME NEW f, NEW b
  PROVE  /\ IsFiniteSet(OwnersIn(f, b))
         /\ Cardinality(OwnersIn(f, b)) \in Nat
         /\ Cardinality(OwnersIn(f, b)) < RefMax
<1>1. OwnersIn(f, b) \in SUBSET Slots
  BY DEF OwnersIn
<1>2. IsFiniteSet(OwnersIn(f, b)) /\ Cardinality(OwnersIn(f, b)) <= Cardinality(Slots)
  BY <1>1, CountAssumption, FS_Subset
<1>3. Cardinality(OwnersIn(f, b)) \in Nat /\ Cardinality(Slots) \in Nat
  BY <1>2, CountAssumption, FS_CardinalityType
<1> QED
  BY <1>2, <1>3, CountAssumption

\* An empty slot that takes b adds one owner to b and none to other objects.
LEMMA OwnersGain ==
  ASSUME NEW f \in Contents, NEW s \in Slots, f[s] = NULL, NEW b \in Blocks,
         NEW c \in Blocks
  PROVE  Cardinality(OwnersIn([f EXCEPT ![s] = b], c)) =
         Cardinality(OwnersIn(f, c)) + (IF c = b THEN 1 ELSE 0)
<1> DEFINE g == [f EXCEPT ![s] = b]
<1>1. CASE c = b
  <2>1. OwnersIn(g, c) = OwnersIn(f, c) \cup {s} /\ s \notin OwnersIn(f, c)
    BY <1>1, BlockAssumption DEF OwnersIn, Contents
  <2> QED
    BY <1>1, <2>1, OwnersFinite, FS_AddElement
<1>2. CASE c # b
  <2>1. OwnersIn(g, c) = OwnersIn(f, c)
    BY <1>2, BlockAssumption DEF OwnersIn, Contents
  <2> QED
    BY <1>2, <2>1, OwnersFinite
<1> QED
  BY <1>1, <1>2

\* A slot that lets go takes one owner from what it owned.
LEMMA OwnersLose ==
  ASSUME NEW f \in Contents, NEW s \in Slots, f[s] # NULL, NEW c \in Blocks
  PROVE  Cardinality(OwnersIn([f EXCEPT ![s] = NULL], c)) =
         Cardinality(OwnersIn(f, c)) - (IF c = f[s] THEN 1 ELSE 0)
<1> DEFINE g == [f EXCEPT ![s] = NULL]
<1>1. CASE c = f[s]
  <2>1. OwnersIn(g, c) = OwnersIn(f, c) \ {s} /\ s \in OwnersIn(f, c)
    BY <1>1, BlockAssumption DEF OwnersIn, Contents
  <2> QED
    BY <1>1, <2>1, OwnersFinite, FS_RemoveElement
<1>2. CASE c # f[s]
  <2>1. OwnersIn(g, c) = OwnersIn(f, c)
    BY <1>2, BlockAssumption DEF OwnersIn, Contents
  <2> QED
    BY <1>2, <2>1, OwnersFinite
<1> QED
  BY <1>1, <1>2

\* Moving a reference from one slot to an empty one changes no count.
LEMMA OwnersMove ==
  ASSUME NEW f \in Contents, NEW s \in Slots, NEW u \in Slots, s # u,
         f[u] = NULL, NEW c \in Blocks
  PROVE  LET g == [f EXCEPT ![u] = f[s], ![s] = NULL]
         IN  /\ g \in Contents
             /\ Cardinality(OwnersIn(g, c)) = Cardinality(OwnersIn(f, c))
<1> DEFINE h == [f EXCEPT ![s] = NULL]
           g == [f EXCEPT ![u] = f[s], ![s] = NULL]
<1>1. h \in Contents /\ g \in Contents
  BY DEF Contents
<1>2. CASE f[s] = NULL
  <2>1. g = f
    BY <1>2, <1>1 DEF Contents
  <2> QED
    BY <1>1, <2>1
<1>3. CASE f[s] # NULL
  <2>1. f[s] \in Blocks /\ h[u] = NULL
    BY <1>3 DEF Contents
  <2>2. g = [h EXCEPT ![u] = f[s]]
    BY DEF Contents
  <2>3. Cardinality(OwnersIn(g, c)) =
        Cardinality(OwnersIn(h, c)) + (IF c = f[s] THEN 1 ELSE 0)
    <3> DEFINE k == [h EXCEPT ![u] = f[s]]
    <3>1. Cardinality(OwnersIn(k, c)) =
          Cardinality(OwnersIn(h, c)) + (IF c = f[s] THEN 1 ELSE 0)
      <4> HIDE DEF h
      <4> QED
        BY <1>1, <2>1, OwnersGain
    <3> HIDE DEF k, g
    <3>2. k = g
      BY <2>2 DEF k
    <3> QED
      BY <3>1, <3>2
  <2>4. Cardinality(OwnersIn(h, c)) =
        Cardinality(OwnersIn(f, c)) - (IF c = f[s] THEN 1 ELSE 0)
    BY <1>3, OwnersLose
  <2>5. Cardinality(OwnersIn(f, c)) \in Nat /\ Cardinality(OwnersIn(h, c)) \in Nat
    BY OwnersFinite
  <2> QED
    BY <1>1, <2>3, <2>4, <2>5
<1> QED
  BY <1>2, <1>3


\* The top of a stack can be dropped, and something put on it.
LEMMA PopStack ==
  ASSUME NEW S, NEW s \in Seq(S), s # << >>
  PROVE  /\ Len(s) \in Nat \ {0}
         /\ SubSeq(s, 1, Len(s) - 1) \in Seq(S)
         /\ Len(SubSeq(s, 1, Len(s) - 1)) = Len(s) - 1
         /\ \A i \in 1 .. Len(s) - 1 : SubSeq(s, 1, Len(s) - 1)[i] = s[i]
<1>1. Len(s) \in Nat \ {0}
  BY EmptySeq
<1>2. \A i \in 1 .. Len(s) - 1 : s[i] \in S
  BY <1>1, ElementOfSeq
<1> DEFINE n == Len(s) - 1
<1>3. n \in Nat /\ \A i \in 1 .. n : s[i] \in S
  BY <1>1, <1>2
<1> HIDE DEF n
<1>4. /\ SubSeq(s, 1, n) \in Seq(S)
      /\ Len(SubSeq(s, 1, n)) = n
      /\ \A i \in 1 .. n : SubSeq(s, 1, n)[i] = s[i]
  BY <1>3, SubSeqProperties
<1> QED
  BY <1>1, <1>4 DEF n

LEMMA SlotKinds ==
  /\ \A t \in Threads, v \in Locals : <<t, v>> \in Slots
  /\ \A t \in Threads : <<t, "param">> \in Slots /\ <<t, "old">> \in Slots
  /\ \A b \in Blocks, i \in Ivars : <<b, i>> \in Slots
  /\ \A b \in Blocks : <<b, "self">> \in Slots
  BY DEF Slots, LocalSlots, TempSlots, IvarSlots, SelfSlots

\* The states of a thread's setter.
LEMMA CallKinds ==
  ASSUME TypeOK, NEW t \in Threads
  PROVE  /\ NoCall.pc = "none"
         /\ \/ call[t] = NoCall /\ call[t].pc = "none"
            \/ /\ call[t] # NoCall
               /\ call[t].pc \in {"swap", "drop"}
               /\ call[t].obj \in Blocks /\ call[t].ivar \in Ivars
               /\ call[t] \in Calls
<1>1. NoCall.pc = "none"
  BY DEF NoCall
<1>2. CASE call[t] = NoCall
  BY <1>1, <1>2
<1>3. CASE call[t] \in Calls
  <2>1. call[t].pc \in {"swap", "drop"} /\ call[t].obj \in Blocks /\ call[t].ivar \in Ivars
    BY <1>3 DEF Calls
  <2> QED
    BY <1>1, <1>3, <2>1
<1> QED
  BY <1>2, <1>3 DEF TypeOK

\* What the invariant says of the setter of one thread.
LEMMA SetterOf ==
  ASSUME CountInv, NEW t \in Threads
  PROVE  /\ call[t] # NoCall => stack[t] = << >>
         /\ call[t].pc # "swap" => ref[<<t, "param">>] = NULL
         /\ call[t].pc # "drop" => ref[<<t, "old">>] = NULL
         /\ call[t].pc = "swap" =>
              /\ call[t].obj \in Blocks /\ call[t].ivar \in Ivars
              /\ Holds(t, call[t].obj)
              /\ HasIvar(call[t].obj, call[t].ivar)
              /\ call[t].obj \notin Immortal
<1>1. TypeOK /\ SetterState
  BY DEF CountInv
<1> QED
  BY <1>1, CallKinds DEF SetterState

\* A retain into an empty slot keeps the counts exact.
LEMMA RetainCount ==
  ASSUME TypeOK, RefCountExact, NEW s \in Slots, ref[s] = NULL,
         NEW b \in Blocks \cup {NULL},
         ref' = [ref EXCEPT ![s] = b], refcount' = Retained(b)
  PROVE  RefCountExact'
<1>1. CASE b = NULL
  <2>1. ref' = ref /\ refcount' = refcount
    BY <1>1 DEF Retained, TypeOK
  <2> QED
    BY <2>1 DEF RefCountExact, Owners
<1>2. CASE b # NULL
  <2> SUFFICES ASSUME NEW c \in Blocks \ Immortal
               PROVE  refcount'[c] = Cardinality(OwnersIn(ref', c))
    BY DEF RefCountExact, Owners, OwnersIn
  <2>1. refcount[c] = Cardinality(OwnersIn(ref, c))
    BY DEF RefCountExact, Owners, OwnersIn
  <2>2. Cardinality(OwnersIn(ref', c)) =
        Cardinality(OwnersIn(ref, c)) + (IF c = b THEN 1 ELSE 0)
    BY ZenonT(60), <1>2, OwnersGain DEF TypeOK, Contents
  <2>3. Cardinality(OwnersIn(ref, c)) \in Nat /\ Cardinality(OwnersIn(ref, c)) < RefMax
    BY OwnersFinite
  <2> QED
    BY <1>2, <2>1, <2>2, <2>3, CountAssumption DEF Retained, Inc, TypeOK
<1> QED
  BY <1>1, <1>2

\* So does a release, whatever it pushes on the stack.
LEMMA ReleaseCount ==
  ASSUME TypeOK, RefCountExact, NEW s \in Slots,
         ref' = [ref EXCEPT ![s] = NULL],
         refcount' = IF Counted(ref[s])
                     THEN [refcount EXCEPT ![ref[s]] = Dec(@)] ELSE refcount
  PROVE  RefCountExact'
<1> SUFFICES ASSUME NEW c \in Blocks \ Immortal
             PROVE  refcount'[c] = Cardinality(OwnersIn(ref', c))
  BY DEF RefCountExact, Owners, OwnersIn
<1>1. refcount[c] = Cardinality(OwnersIn(ref, c))
  BY DEF RefCountExact, Owners, OwnersIn
<1>2. Cardinality(OwnersIn(ref, c)) \in Nat /\ Cardinality(OwnersIn(ref', c)) \in Nat
  BY OwnersFinite
<1>3. CASE ref[s] = NULL
  <2>1. ref' = ref /\ refcount' = refcount
    BY <1>3 DEF Counted, TypeOK
  <2> QED
    BY <1>1, <2>1
<1>4. CASE ref[s] # NULL
  <2>1. Cardinality(OwnersIn(ref', c)) =
        Cardinality(OwnersIn(ref, c)) - (IF c = ref[s] THEN 1 ELSE 0)
    BY <1>4, OwnersLose DEF TypeOK, Contents
  <2>2. ref[s] \in Blocks
    BY <1>4 DEF TypeOK
  <2> QED
    BY <1>1, <1>2, <1>4, <2>1, <2>2, CountAssumption DEF Counted, Dec, TypeOK
<1> QED
  BY <1>3, <1>4

\* A count of one means that the slot that lets go is the only owner.
LEMMA LastOwner ==
  ASSUME TypeOK, RefCountExact, NEW s \in Slots, Counted(ref[s]),
         refcount[ref[s]] = 1
  PROVE  \A u \in Slots : ref[u] = ref[s] => u = s
<1> DEFINE O == OwnersIn(ref, ref[s])
<1>1. ref[s] \in Blocks \ Immortal
  BY DEF Counted, TypeOK
<1>2. Cardinality(O) = 1 /\ IsFiniteSet(O)
  BY <1>1, OwnersFinite DEF RefCountExact, Owners, OwnersIn
<1>3. PICK x : O = {x}
  <2> HIDE DEF O
  <2> QED
    BY <1>2, FS_Singleton
<1> QED
  BY <1>3 DEF OwnersIn

-----------------------------------------------------------------------------
\* Steps that leave the stacks alone, and give no new owner and no new
\* possession to an object that is being released, keep the frames in order.
LEMMA FramesKept ==
  ASSUME FrameState, FrameUnique, stack' = stack,
         \A b : InFrame(b) =>
           /\ b \in allocated => b \in allocated'
           /\ deallocating'[b] = deallocating[b]
           /\ \A s \in Slots : ref'[s] = b => ref[s] = b
           /\ \A i \in Ivars : ref'[<<b, i>>] # NULL => ref[<<b, i>>] # NULL
  PROVE  FrameState' /\ FrameUnique'
<1>1. FrameUnique'
  BY DEF FrameUnique, Depth
<1>2. ASSUME NEW t \in Threads, NEW k \in 1 .. Len(stack[t])
      PROVE  FrameObject(stack[t][k])' /\ FrameLevel(stack[t][k])'
  <2> DEFINE f == stack[t][k]
  <2>1. FrameObject(f) /\ FrameLevel(f) /\ InFrame(f.obj)
    BY <1>2 DEF FrameState, InFrame, Depth
  <2>2. f' = f
    OBVIOUS
  <2> HIDE DEF f
  <2>3. FrameObject(f)'
    BY <2>1, <2>2 DEF FrameObject
  <2>4. FrameLevel(f)'
    BY <2>1, <2>2 DEF FrameLevel
  <2> QED
    BY <2>3, <2>4 DEF f
<1> QED
  BY <1>1, <1>2 DEF FrameState, Depth

\* An object that is being released is allocated and not immortal, and no
\* variable, temporary or ivar owns it.
LEMMA FramedIsUnowned ==
  ASSUME CountInv, NEW b, InFrame(b)
  PROVE  /\ b \in allocated /\ b \in Blocks /\ b \notin Immortal
         /\ \A s \in Slots : ref[s] = b => s = <<b, "self">>
  BY DEF CountInv, InFrame, FrameState, FrameObject, FreeOwnsNothing, TypeOK

\* Free memory owns nothing, so that zeroing it changes no reference.
LEMMA FreshRef ==
  ASSUME CountInv, NEW t \in Threads, NEW v \in Locals, NEW b \in Blocks,
         NEW heap \in BOOLEAN, Fresh(t, v, b, heap)
  PROVE  ref' = [ref EXCEPT ![<<t, v>>] = b]
<1> DEFINE s0 == <<t, v>>
<1>1. s0 \in Slots /\ ref[s0] = NULL /\ b \notin allocated /\ b \notin Immortal
  BY SlotKinds DEF Fresh
<1>2. \A s \in Slots : s[1] = b => s # s0 /\ ref[s] = NULL
  <2> SUFFICES ASSUME NEW s \in Slots, s[1] = b
               PROVE  s # s0 /\ ref[s] = NULL
    OBVIOUS
  <2>1. \E i \in Ivars \cup {"self"} : s = <<b, i>>
    BY SlotAssumption DEF Slots, LocalSlots, TempSlots, IvarSlots, SelfSlots
  <2> QED
    BY <1>1, <2>1, SlotAssumption DEF CountInv, FreeOwnsNothing
<1> QED
  BY <1>1, <1>2 DEF Fresh, CountInv, TypeOK

LEMMA FreshStep ==
  ASSUME CountInv, NEW t \in Threads, NEW v \in Locals, NEW b \in Blocks,
         NEW heap \in BOOLEAN, Fresh(t, v, b, heap),
         numUsed' \in [Classes -> Nat], heapUsed' \in Int
  PROVE  CountInv'
<1> DEFINE s0 == <<t, v>>
<1>1. s0 \in Slots /\ ref[s0] = NULL /\ b \notin allocated /\ b \notin Immortal
  BY SlotKinds DEF Fresh
<1>3. ref' = [ref EXCEPT ![s0] = b]
  BY FreshRef
<1>4. refcount' = [refcount EXCEPT ![b] = 1] /\ refcount[b] = 0
  <2>1. OwnersIn(ref, b) = {}
    BY <1>1, BlockAssumption DEF CountInv, NoDangling, OwnersIn
  <2> QED
    BY <1>1, <2>1, FS_EmptySet DEF Fresh, CountInv, RefCountExact, Owners, OwnersIn
<1>5. TypeOK'
  BY <1>1, <1>3, <1>4 DEF Fresh, CountInv, TypeOK
<1>6. RefCountExact'
  <2>1. RefMax # 0
    BY OwnersFinite, CountAssumption
  <2>2. refcount' = Retained(b)
    <3>1. Inc(refcount[b]) = 1
      BY <1>4, <2>1, CountAssumption DEF Inc
    <3>2. b # NULL
      BY BlockAssumption
    <3> QED
      BY <1>4, <3>1, <3>2 DEF Retained
  <2> QED
    BY <1>1, <1>3, <2>2, RetainCount DEF CountInv
<1>7. NoDangling'
  BY <1>3 DEF Fresh, CountInv, NoDangling, TypeOK, Depth
<1>8. FreeOwnsNothing'
  <2>1. \A c \in Blocks : \A i : <<c, i>> # s0
    BY SlotAssumption
  <2> QED
    BY <1>1, <1>3, <2>1, SlotKinds DEF Fresh, CountInv, FreeOwnsNothing, TypeOK
<1>9. IvarsDeclared' /\ SelfState'
  <2>1. \A c \in Blocks : \A i : <<c, i>> # s0
    BY SlotAssumption
  <2>2. \A c \in Blocks, i \in Ivars \cup {"self"} : ref'[<<c, i>>] = ref[<<c, i>>]
    BY <1>3, <2>1, SlotKinds DEF CountInv, TypeOK
  <2>3. IvarsDeclared'
    BY <2>2 DEF CountInv, IvarsDeclared, HasIvar
  <2>4. SelfState'
    <3>1. \A u \in Threads : Top(u)' = Top(u) /\ (InDealloc(u) => InDealloc(u)')
      BY DEF Fresh, InDealloc, Top, Depth
    <3>2. \A c \in Blocks : ref'[<<c, "self">>] = ref[<<c, "self">>]
      BY <2>2
    <3> QED
      BY <3>1, <3>2 DEF CountInv, SelfState
  <2> QED
    BY <2>3, <2>4
<1>10. SetterState'
  <2>1. \A u \in Threads : /\ ref'[<<u, "param">>] = ref[<<u, "param">>]
                           /\ ref'[<<u, "old">>] = ref[<<u, "old">>]
    BY <1>3, SlotKinds, SlotAssumption DEF CountInv, TypeOK
  <2>2. \A u \in Threads, c \in Blocks : Holds(u, c) => Holds(u, c)'
    BY <1>1, <1>3, SlotKinds, BlockAssumption DEF CountInv, TypeOK, Holds
  <2>3. call' = call /\ stack' = stack
    BY DEF Fresh
  <2>4. \A u \in Threads : call[u].pc = "swap" => call[u].obj \in Blocks
    BY DEF CountInv, TypeOK, Calls, NoCall
  <2> QED
    BY <2>1, <2>2, <2>3, <2>4 DEF CountInv, SetterState, HasIvar
<1>11. FrameState' /\ FrameUnique'
  <2> SUFFICES ASSUME NEW c, InFrame(c)
               PROVE  /\ c \in allocated'
                      /\ deallocating'[c] = deallocating[c]
                      /\ \A s \in Slots : ref'[s] = c => ref[s] = c
                      /\ \A i \in Ivars : ref'[<<c, i>>] # NULL => ref[<<c, i>>] # NULL
    BY FramesKept DEF Fresh, CountInv
  <2>1. c \in allocated /\ c \in Blocks /\ c # b
    BY <1>1, FramedIsUnowned
  <2> QED
    BY <1>3, <2>1, SlotKinds, SlotAssumption DEF Fresh, CountInv, TypeOK
<1> QED
  BY <1>5, <1>6, <1>7, <1>8, <1>9, <1>10, <1>11 DEF CountInv

\* An object some variable holds, and an immortal one, is not being released.
LEMMA HeldIsUnframed ==
  ASSUME CountInv, NEW t \in Threads, NEW b \in Blocks, Holds(t, b) \/ b \in Immortal
  PROVE  ~ InFrame(b) /\ b \in allocated \cup Immortal
<1>1. CASE b \in Immortal
  BY <1>1, FramedIsUnowned
<1>2. CASE Holds(t, b)
  <2>1. PICK v \in Locals : ref[<<t, v>>] = b
    BY <1>2 DEF Holds
  <2>2. <<t, v>> \in Slots /\ <<t, v>> # <<b, "self">>
    BY SlotKinds, SlotAssumption
  <2>3. ~ InFrame(b)
    BY <2>1, <2>2, FramedIsUnowned
  <2>4. b \in allocated \cup Immortal
    BY <2>1, <2>2, BlockAssumption DEF CountInv, NoDangling
  <2> QED
    BY <2>3, <2>4
<1> QED
  BY <1>1, <1>2

LEMMA ShareStep ==
  ASSUME CountInv, NEW t \in Threads, NEW b \in Blocks, NEW u \in Threads,
         NEW v \in Locals, Share(t, b, u, v)
  PROVE  CountInv'
<1> DEFINE s0 == <<u, v>>
<1>1. s0 \in Slots /\ ref[s0] = NULL /\ ref' = [ref EXCEPT ![s0] = b]
  BY SlotKinds DEF Share
<1>2. ~ InFrame(b) /\ b \in allocated \cup Immortal
  BY HeldIsUnframed DEF Share
<1>3. /\ UNCHANGED <<deallocating, heapAllocated, allocated, numUsed, heapUsed>>
      /\ stack' = stack /\ call' = call /\ refcount' = Retained(b)
  BY DEF Share, memory
<1>4. \A c \in Blocks, i \in Ivars \cup {"self"} : ref'[<<c, i>>] = ref[<<c, i>>]
  BY <1>1, SlotKinds, SlotAssumption DEF CountInv, TypeOK
<1>5. TypeOK'
  <2>1. refcount' \in [Blocks -> Int]
    BY <1>3, CountAssumption DEF Retained, Inc, CountInv, TypeOK
  <2> QED
    BY <1>1, <1>3, <2>1 DEF CountInv, TypeOK
<1>6. RefCountExact'
  BY <1>1, <1>3, RetainCount DEF CountInv
<1>7. NoDangling'
  BY <1>1, <1>2, <1>3 DEF CountInv, NoDangling, TypeOK, Depth
<1>8. FreeOwnsNothing' /\ IvarsDeclared'
  BY <1>3, <1>4 DEF CountInv, FreeOwnsNothing, IvarsDeclared, HasIvar
<1>9. SelfState'
  <2>1. \A w \in Threads : Top(w)' = Top(w) /\ (InDealloc(w) => InDealloc(w)')
    BY <1>3 DEF InDealloc, Top, Depth
  <2>2. \A c \in Blocks : ref'[<<c, "self">>] = ref[<<c, "self">>]
    BY <1>4
  <2> QED
    BY <2>1, <2>2 DEF CountInv, SelfState
<1>10. SetterState'
  <2>1. \A w \in Threads : /\ ref'[<<w, "param">>] = ref[<<w, "param">>]
                           /\ ref'[<<w, "old">>] = ref[<<w, "old">>]
    BY <1>1, SlotKinds, SlotAssumption DEF CountInv, TypeOK
  <2>2. \A w \in Threads, c \in Blocks : Holds(w, c) => Holds(w, c)'
    BY <1>1, SlotKinds, BlockAssumption DEF CountInv, TypeOK, Holds
  <2>3. \A w \in Threads : call[w].pc = "swap" => call[w].obj \in Blocks
    BY DEF CountInv, TypeOK, Calls, NoCall
  <2> QED
    BY <1>3, <2>1, <2>2, <2>3 DEF CountInv, SetterState, HasIvar
<1>11. FrameState' /\ FrameUnique'
  <2>1. ASSUME NEW c, InFrame(c)
        PROVE  /\ c \in allocated'
               /\ \A s \in Slots : ref'[s] = c => ref[s] = c
               /\ \A i \in Ivars : ref'[<<c, i>>] # NULL => ref[<<c, i>>] # NULL
    <3>1. c \in allocated /\ c \in Blocks /\ c # b
      BY <1>2, <2>1, FramedIsUnowned
    <3> QED
      BY <1>1, <1>3, <1>4, <3>1 DEF CountInv, TypeOK
  <2> QED
    BY <1>3, <2>1, FramesKept DEF CountInv
<1> QED
  BY <1>5, <1>6, <1>7, <1>8, <1>9, <1>10, <1>11 DEF CountInv

LEMMA SetRetainStep ==
  ASSUME CountInv, NEW t \in Threads, NEW o \in Blocks, NEW i \in Ivars,
         NEW n \in Blocks \cup {NULL}, SetRetain(t, o, i, n)
  PROVE  CountInv'
<1> DEFINE s0 == <<t, "param">>
<1>1. s0 \in Slots /\ ref[s0] = NULL /\ ref' = [ref EXCEPT ![s0] = n]
  BY SlotKinds, SetterOf, CallKinds DEF SetRetain, Idle, CountInv
<1>2. n # NULL => ~ InFrame(n) /\ n \in allocated \cup Immortal
  BY HeldIsUnframed DEF SetRetain
<1>3. /\ UNCHANGED <<deallocating, heapAllocated, allocated, numUsed, heapUsed>>
      /\ stack' = stack /\ refcount' = Retained(n)
      /\ call' = [call EXCEPT ![t] = [pc |-> "swap", obj |-> o, ivar |-> i]]
      /\ Holds(t, o) /\ HasIvar(o, i) /\ o \notin Immortal /\ Idle(t)
  BY DEF SetRetain, memory
<1>4. \A c \in Blocks, j \in Ivars \cup {"self"} : ref'[<<c, j>>] = ref[<<c, j>>]
  BY <1>1, SlotKinds, SlotAssumption DEF CountInv, TypeOK
<1>5. TypeOK'
  <2>1. refcount' \in [Blocks -> Int]
    BY <1>3, CountAssumption DEF Retained, Inc, CountInv, TypeOK
  <2> QED
    BY <1>1, <1>3, <2>1 DEF CountInv, TypeOK, Calls
<1>6. RefCountExact'
  BY <1>1, <1>3, RetainCount DEF CountInv
<1>7. NoDangling'
  BY <1>1, <1>2, <1>3 DEF CountInv, NoDangling, TypeOK, Depth
<1>8. FreeOwnsNothing' /\ IvarsDeclared'
  BY <1>3, <1>4 DEF CountInv, FreeOwnsNothing, IvarsDeclared, HasIvar
<1>9. SelfState'
  <2>1. \A w \in Threads : Top(w)' = Top(w) /\ (InDealloc(w) => InDealloc(w)')
    BY <1>3 DEF InDealloc, Top, Depth
  <2>2. \A c \in Blocks : ref'[<<c, "self">>] = ref[<<c, "self">>]
    BY <1>4
  <2> QED
    BY <2>1, <2>2 DEF CountInv, SelfState
<1>10. SetterState'
  <2>1. \A w \in Threads : /\ w # t => ref'[<<w, "param">>] = ref[<<w, "param">>]
                           /\ ref'[<<w, "old">>] = ref[<<w, "old">>]
    BY <1>1, SlotKinds, SlotAssumption DEF CountInv, TypeOK
  <2>2. \A w \in Threads, c \in Blocks : Holds(w, c) => Holds(w, c)'
    BY <1>1, SlotKinds, SlotAssumption DEF CountInv, TypeOK, Holds
  <2>3. \A w \in Threads : call[w].pc = "swap" => call[w].obj \in Blocks
    BY DEF CountInv, TypeOK, Calls, NoCall
  <2>4. stack[t] = << >> /\ ref[<<t, "old">>] = NULL
    BY <1>3, SetterOf, CallKinds DEF Idle, CountInv
  <2>5. call'[t] = [pc |-> "swap", obj |-> o, ivar |-> i]
        /\ \A w \in Threads : w # t => call'[w] = call[w]
    BY <1>3 DEF CountInv, TypeOK
  <2> SUFFICES ASSUME NEW w \in Threads
               PROVE  /\ call'[w] # NoCall => stack'[w] = << >>
                      /\ call'[w].pc # "swap" => ref'[<<w, "param">>] = NULL
                      /\ call'[w].pc # "drop" => ref'[<<w, "old">>] = NULL
                      /\ call'[w].pc = "swap" => /\ Holds(w, call[w].obj)'
                                                /\ HasIvar(call'[w].obj, call'[w].ivar)
                                                /\ call'[w].obj \notin Immortal
    BY DEF SetterState, HasIvar
  <2>6. CASE w = t
    <3>1. call'[w].pc = "swap" /\ call'[w].obj = o /\ call'[w].ivar = i
      BY <2>5, <2>6
    <3>2. Holds(w, call[w].obj)'
      BY <1>3, <2>2, <2>6, <3>1 DEF Holds
    <3> QED
      BY <1>3, <2>1, <2>4, <2>6, <3>1, <3>2
  <2>7. CASE w # t
    <3>1. call'[w] = call[w]
      BY <2>5, <2>7
    <3>2. ASSUME call[w].pc = "swap" PROVE Holds(w, call[w].obj)'
      <4>1. PICK v \in Locals : ref[<<w, v>>] = call[w].obj
        BY <3>2, SetterOf DEF Holds
      <4>2. call[w].obj \in Blocks /\ ref'[<<w, v>>] = ref[<<w, v>>]
        BY <1>1, <3>2, <4>1, SetterOf, SlotKinds, SlotAssumption DEF CountInv, TypeOK
      <4> QED
        BY <3>1, <4>1, <4>2 DEF Holds
    <3> QED
      BY <1>3, <2>1, <2>7, <3>1, <3>2, SetterOf
  <2> QED
    BY <2>6, <2>7
<1>11. FrameState' /\ FrameUnique'
  <2>1. ASSUME NEW c, InFrame(c)
        PROVE  /\ c \in allocated'
               /\ \A s \in Slots : ref'[s] = c => ref[s] = c
               /\ \A j \in Ivars : ref'[<<c, j>>] # NULL => ref[<<c, j>>] # NULL
    <3>1. c \in allocated /\ c \in Blocks /\ (n # NULL => c # n)
      BY <1>2, <2>1, FramedIsUnowned
    <3> QED
      BY <1>1, <1>3, <1>4, <3>1, BlockAssumption DEF CountInv, TypeOK
  <2> QED
    BY <1>3, <2>1, FramesKept DEF CountInv
<1> QED
  BY <1>5, <1>6, <1>7, <1>8, <1>9, <1>10, <1>11 DEF CountInv

LEMMA SetSwapStep ==
  ASSUME CountInv, NEW t \in Threads, SetSwap(t)
  PROVE  CountInv'
<1> DEFINE o  == call[t].obj
           i  == call[t].ivar
           iv == <<o, i>>
           sp == <<t, "param">>
           so == <<t, "old">>
<1>1. o \in Blocks /\ i \in Ivars /\ o \notin Immortal /\ HasIvar(o, i) /\ Holds(t, o)
  BY SetterOf DEF SetSwap
<1>2. /\ iv \in Slots /\ sp \in Slots /\ so \in Slots
      /\ iv # sp /\ iv # so /\ sp # so
      /\ ref[so] = NULL
  BY <1>1, SlotKinds, SlotAssumption DEF SetSwap, CountInv, SetterState
<1>3. ~ InFrame(o) /\ o \in allocated
  BY <1>1, HeldIsUnframed
<1>4. ref' = [ref EXCEPT ![so] = ref[iv], ![iv] = ref[sp], ![sp] = NULL]
  BY DEF SetSwap
<1>5. /\ UNCHANGED <<deallocating, heapAllocated, allocated, numUsed, heapUsed>>
      /\ stack' = stack /\ refcount' = refcount
      /\ call' = [call EXCEPT ![t].pc = "drop"] /\ call[t].pc = "swap"
  BY DEF SetSwap, memory
<1> HIDE DEF o, i
<1>6. \A s \in Slots : ref'[s] = IF s = so THEN ref[iv] ELSE IF s = iv THEN ref[sp]
                                ELSE IF s = sp THEN NULL ELSE ref[s]
  BY <1>2, <1>4 DEF CountInv, TypeOK
<1>7. TypeOK'
  <2>1. ref' \in [Slots -> Blocks \cup {NULL}]
    BY <1>2, <1>4 DEF CountInv, TypeOK
  <2>2. call' \in [Threads -> Calls \cup {NoCall}]
    <3>1. call[t] \in Calls
      BY <1>5, CallKinds DEF CountInv
    <3>2. [call[t] EXCEPT !.pc = "drop"] \in Calls
      BY <3>1 DEF Calls
    <3> QED
      BY <1>5, <3>2 DEF CountInv, TypeOK
  <2> QED
    BY <1>5, <2>1, <2>2 DEF CountInv, TypeOK
<1>8. RefCountExact'
  <2> DEFINE f == [ref EXCEPT ![so] = ref[iv], ![iv] = NULL]
             g == [f EXCEPT ![iv] = f[sp], ![sp] = NULL]
  <2>1. ref \in Contents
    BY DEF CountInv, TypeOK, Contents
  <2>2. \A c \in Blocks : /\ f \in Contents
                          /\ Cardinality(OwnersIn(f, c)) = Cardinality(OwnersIn(ref, c))
    BY <1>2, <2>1, OwnersMove
  <2>3. f \in Contents /\ f[iv] = NULL /\ f[sp] = ref[sp]
    BY <1>1, <1>2, <2>1, <2>2 DEF Contents
  <2>4. g = ref'
    BY <1>2, <1>4, <2>1, <2>3 DEF Contents
  <2> HIDE DEF f
  <2>5. \A c \in Blocks : Cardinality(OwnersIn(g, c)) = Cardinality(OwnersIn(f, c))
    BY <1>2, <2>3, OwnersMove
  <2> HIDE DEF g
  <2> QED
    BY <1>5, <2>2, <2>4, <2>5 DEF CountInv, RefCountExact, Owners, OwnersIn
<1>9. NoDangling'
  BY <1>2, <1>5, <1>6 DEF CountInv, NoDangling, Depth
<1>10. \A c \in Blocks : /\ ref'[<<c, "self">>] = ref[<<c, "self">>]
                         /\ \A j \in Ivars : <<c, j>> # iv => ref'[<<c, j>>] = ref[<<c, j>>]
  BY <1>1, <1>6, SlotKinds, SlotAssumption
<1>11. FreeOwnsNothing'
  BY <1>1, <1>3, <1>5, <1>10 DEF CountInv, FreeOwnsNothing
<1>12. IvarsDeclared'
  BY <1>1, <1>10 DEF CountInv, IvarsDeclared, HasIvar
<1>13. SelfState'
  <2>1. \A w \in Threads : Top(w)' = Top(w) /\ (InDealloc(w) => InDealloc(w)')
    BY <1>5 DEF InDealloc, Top, Depth
  <2> QED
    BY <1>10, <2>1 DEF CountInv, SelfState
<1>14. SetterState'
  <2>1. \A w \in Threads : /\ w # t => ref'[<<w, "param">>] = ref[<<w, "param">>]
                           /\ w # t => ref'[<<w, "old">>] = ref[<<w, "old">>]
    BY <1>1, <1>6, SlotKinds, SlotAssumption
  <2>2. ref'[sp] = NULL
    BY <1>2, <1>6
  <2>3. \A w \in Threads, c \in Blocks : Holds(w, c) => Holds(w, c)'
    BY <1>1, <1>6, SlotKinds, SlotAssumption DEF Holds
  <2>4. \A w \in Threads : call[w].pc = "swap" => call[w].obj \in Blocks
    BY DEF CountInv, TypeOK, Calls, NoCall
  <2>5. /\ call'[t].pc = "drop"
        /\ \A w \in Threads : w # t => call'[w] = call[w]
        /\ stack[t] = << >>
    <3>1. call[t] # NoCall /\ call[t] \in Calls
      BY <1>5, CallKinds DEF CountInv
    <3>2. [call[t] EXCEPT !.pc = "drop"].pc = "drop"
      BY <3>1 DEF Calls
    <3> QED
      BY <1>5, <3>1, <3>2, SetterOf DEF CountInv, TypeOK
  <2> QED
    BY ZenonT(60), <1>5, <2>1, <2>2, <2>3, <2>4, <2>5 DEF CountInv, SetterState, HasIvar
<1>15. FrameState' /\ FrameUnique'
  <2>1. ASSUME NEW c, InFrame(c)
        PROVE  /\ c \in allocated'
               /\ \A s \in Slots : ref'[s] = c => ref[s] = c
               /\ \A j \in Ivars : ref'[<<c, j>>] # NULL => ref[<<c, j>>] # NULL
    <3>1. c \in allocated /\ c \in Blocks /\ c # o
      BY <1>3, <2>1, FramedIsUnowned
    <3>2. ref[iv] # c /\ ref[sp] # c
      BY <1>1, <1>2, <2>1, FramedIsUnowned, SlotAssumption
    <3>3. \A s \in Slots : ref'[s] = c => ref[s] = c
      BY <1>6, <3>1, <3>2, BlockAssumption
    <3>4. \A j \in Ivars : ref'[<<c, j>>] # NULL => ref[<<c, j>>] # NULL
      BY <1>10, <3>1
    <3> QED
      BY <1>5, <3>1, <3>3, <3>4
  <2> QED
    BY <1>5, <2>1, FramesKept DEF CountInv
<1> QED
  BY <1>7, <1>8, <1>9, <1>11, <1>12, <1>13, <1>14, <1>15 DEF CountInv

-----------------------------------------------------------------------------
\* The releases of the model: made by an idle thread, or by a dealloc method
\* that has let go of self or does so now and may update its own frame.
\* "base" is the stack without the call a last reference pushes.
ReleaseCase(t, s, base) ==
  /\ Release(t, s, base)
  /\ UNCHANGED memory
  /\ stack[t] # << >> => /\ Top(t).pc = "dealloc"
                         /\ \/ ref[<<Top(t).obj, "self">>] = NULL
                            \/ s = <<Top(t).obj, "self">>
  /\ \A b \in Blocks : s = <<b, "self">> => stack[t] # << >> /\ Top(t).obj = b
  /\ Len(base) = Len(stack[t])
  /\ \A k \in 1 .. Len(base) :
       /\ base[k].obj = stack[t][k].obj /\ base[k].pc = stack[t][k].pc
       /\ base[k].level = stack[t][k].level
       /\ base[k].pc = "dealloc" => \A i \in Ivars : ref'[<<base[k].obj, i>>] # NULL =>
            i \in base[k].todo \cup UNION {Declares[c] : c \in Ancestors[base[k].level]}

\* A release leaves the frames in order.
LEMMA ReleaseFrames ==
  ASSUME CountInv, NEW t \in Threads, NEW s \in Slots, NEW base \in Seq(Frames),
         ReleaseCase(t, s, base)
  PROVE  FrameState' /\ FrameUnique' /\ stack' \in [Threads -> Seq(Frames)]
<1> USE DEF ReleaseCase, memory
<1> DEFINE b    == ref[s]
           last == Counted(b) /\ refcount[b] = 1
           n    == Len(stack[t])
           new  == IF last THEN Append(base, TestFrame(b)) ELSE base
<1>1. /\ ref' = [ref EXCEPT ![s] = NULL] /\ stack' = [stack EXCEPT ![t] = new]
      /\ stack \in [Threads -> Seq(Frames)] /\ ref \in [Slots -> Blocks \cup {NULL}]
  BY DEF Release, CountInv, TypeOK
<1>2. n \in Nat /\ \A k \in 1 .. n : stack[t][k] \in Frames /\ base[k] \in Frames
  BY <1>1, LenProperties, ElementOfSeq
<1>3. ASSUME last
      PROVE  /\ b \in Blocks /\ b \in allocated
             /\ \A u \in Slots : ref[u] = b => u = s
             /\ InFrame(b) => s = <<b, "self">>
  <2>1. b \in Blocks /\ b \in allocated
    BY <1>1, <1>3 DEF Counted, CountInv, NoDangling
  <2>2. \A u \in Slots : ref[u] = b => u = s
    BY <1>3, LastOwner DEF CountInv
  <2> QED
    BY <2>1, <2>2, FramedIsUnowned
<1>4. TestFrame(b).obj = b /\ TestFrame(b).pc = "test"
  BY DEF TestFrame
<1>5. ASSUME last
      PROVE  /\ new \in Seq(Frames) /\ Len(new) = n + 1
             /\ \A k \in 1 .. n : new[k] = base[k]
             /\ new[n + 1] = TestFrame(b)
  <2>1. TestFrame(b) \in Frames
    BY <1>3, <1>5, ClassAssumption DEF TestFrame, Frames
  <2> QED
    BY <1>5, <2>1, AppendProperties
<1> HIDE DEF b
<1>6. /\ new \in Seq(Frames) /\ Len(new) = IF last THEN n + 1 ELSE n
      /\ \A k \in 1 .. n : new[k] = base[k]
  BY <1>5
<1>7. stack' \in [Threads -> Seq(Frames)] /\ stack'[t] = new
      /\ \A u \in Threads : u # t => stack'[u] = stack[u]
  BY <1>1, <1>6
<1> HIDE DEF new, last
<1>8. ASSUME NEW f \in Frames, FrameObject(f) PROVE FrameObject(f)'
  BY <1>1, <1>8, BlockAssumption DEF FrameObject, Frames
<1>9. ASSUME NEW u \in Threads, NEW k \in 1 .. Len(stack'[u])
      PROVE  FrameObject(stack[u][k])' /\ FrameLevel(stack[u][k])'
  <2>1. CASE u # t
    <3>1. stack'[u][k] = stack[u][k] /\ k \in 1 .. Len(stack[u])
      BY <1>7, <1>9, <2>1
    <3>2. FrameObject(stack[u][k]) /\ FrameLevel(stack[u][k]) /\ stack[u][k] \in Frames
      BY <1>1, <3>1, ElementOfSeq DEF CountInv, FrameState, Depth
    <3>3. stack[u][k].obj \in Blocks
      BY <3>2 DEF Frames
    <3>4. FrameLevel(stack[u][k])'
      BY <1>1, <3>1, <3>2, <3>3, SlotKinds DEF FrameLevel
    <3>5. FrameObject(stack[u][k])'
      BY <1>1, <3>1, <3>2, <3>3, SlotKinds, BlockAssumption DEF FrameObject
    <3> QED
      BY <3>4, <3>5
  <2>2. CASE u = t /\ k \in 1 .. n
    <3>1. stack'[u][k] = base[k]
      BY <1>6, <1>7, <2>2
    <3>2. FrameObject(stack[t][k]) /\ FrameLevel(stack[t][k]) /\ base[k].obj \in Blocks
      BY <1>2, <2>2 DEF CountInv, FrameState, Depth, Frames
    <3>3. FrameLevel(stack[u][k])'
      BY <2>2, <3>1, <3>2 DEF FrameLevel
    <3>4. FrameObject(stack[u][k])'
      BY <1>1, <2>2, <3>1, <3>2, BlockAssumption DEF FrameObject
    <3> QED
      BY <3>3, <3>4
  <2>3. CASE u = t /\ k = n + 1 /\ last
    <3>1. stack'[u][k] = TestFrame(b)
      BY <1>5, <1>7, <2>3
    <3>2. FrameLevel(stack[u][k])'
      BY <1>4, <3>1 DEF FrameLevel
    <3>3. \A x \in Slots : ref'[x] # b
      BY <1>1, <1>3, <2>3, BlockAssumption
    <3>4. FrameObject(stack[u][k])'
      BY <1>3, <1>4, <2>3, <3>1, <3>3 DEF FrameObject
    <3> QED
      BY <3>2, <3>4
  <2>4. u = t => (k \in 1 .. n) \/ (k = n + 1 /\ last)
    BY <1>2, <1>6, <1>7
  <2> QED
    BY <2>1, <2>2, <2>3, <2>4
<1>10. FrameState'
  BY <1>9 DEF FrameState, Depth
<1>11. FrameUnique'
  \* Two frames of the old stacks: a dealloc is on top of t's.
  <2>1. ASSUME NEW w \in Threads, NEW j \in 1 .. Len(stack[t]), NEW k \in 1 .. Len(stack[w]),
               stack[t][j].obj = stack[w][k].obj
        PROVE  w = t /\ j = k
    <3>1. w = t
      BY <2>1 DEF CountInv, FrameUnique, Depth
    <3>2. n # 0 => stack[t][n].pc = "dealloc"
      BY <1>2 DEF Top, Depth
    <3>3. ~ (j < k) /\ ~ (k < j)
      BY <1>2, <2>1, <3>1, <3>2 DEF CountInv, FrameUnique, Depth
    <3> QED
      BY <1>2, <3>1, <3>3
  \* The new frame meets at most the dealloc that released its own self.
  <2>2. ASSUME last, NEW w \in Threads, NEW k \in 1 .. Len(stack[w]), stack[w][k].obj = b
        PROVE  w = t /\ k = n /\ stack[t][n].pc = "dealloc"
    <3>1. s = <<b, "self">> /\ b \in Blocks
      BY <1>3, <2>2 DEF InFrame, Depth
    <3>2. n \in 1 .. n /\ stack[t][n].obj = b /\ stack[t][n].pc = "dealloc"
      BY <1>2, <3>1, EmptySeq DEF Top, Depth
    <3> QED
      BY <2>1, <2>2, <3>2
  <2> SUFFICES ASSUME NEW u \in Threads, NEW w \in Threads,
                      NEW j \in 1 .. Len(stack'[u]), NEW k \in 1 .. Len(stack'[w]),
                      stack'[u][j].obj = stack'[w][k].obj
               PROVE  /\ u = w
                      /\ j < k => /\ k = Len(stack'[u]) /\ stack'[u][k].pc = "test"
                                  /\ stack'[u][j].pc = "dealloc"
    BY DEF FrameUnique, Depth
  <2>3. \A x \in Threads : Len(stack'[x]) \in Nat
    BY <1>7, LenProperties
  <2>4. CASE u # t /\ w # t
    <3>1. stack'[u] = stack[u] /\ stack'[w] = stack[w]
      BY <1>7, <2>4
    <3> QED
      BY <3>1 DEF CountInv, FrameUnique, Depth
  <2>5. \A i \in 1 .. Len(stack'[t]) :
          \/ /\ i \in 1 .. n /\ stack'[t][i].obj = stack[t][i].obj
             /\ stack'[t][i].pc = stack[t][i].pc
          \/ i = n + 1 /\ last /\ stack'[t][i] = TestFrame(b)
    BY <1>2, <1>5, <1>6, <1>7
  <2>6. CASE u = t /\ w # t
    <3>1. stack'[w] = stack[w]
      BY <1>7, <2>6
    <3> QED
      BY <1>4, <2>1, <2>2, <2>5, <2>6, <3>1
  <2>7. CASE u # t /\ w = t
    <3>1. stack'[u] = stack[u]
      BY <1>7, <2>7
    <3> QED
      BY <1>4, <2>1, <2>2, <2>5, <2>7, <3>1
  <2>8. CASE u = t /\ w = t
    <3>1. CASE j \in 1 .. n /\ k \in 1 .. n
      BY <1>2, <2>1, <2>5, <2>8, <3>1
    <3>2. CASE j \in 1 .. n /\ k = n + 1 /\ last
      <4>1. stack'[t][k] = TestFrame(b) /\ k = Len(stack'[t])
        BY <1>5, <1>6, <1>7, <3>2
      <4>2. stack'[t][j].obj = stack[t][j].obj /\ stack'[t][j].pc = stack[t][j].pc
        BY <1>2, <2>5, <2>8, <3>2
      <4>3. j = n /\ stack[t][n].pc = "dealloc"
        BY <1>4, <2>2, <2>8, <3>2, <4>1, <4>2
      <4> QED
        BY <1>4, <2>8, <4>1, <4>2, <4>3
    <3>3. CASE j = n + 1
      BY <1>2, <1>6, <1>7, <2>3, <2>8, <3>3
    <3> QED
      BY <2>5, <2>8, <3>1, <3>2, <3>3
  <2> QED
    BY <2>4, <2>6, <2>7, <2>8
<1> QED
  BY <1>7, <1>10, <1>11

\* It keeps everything but what concerns setters.
LEMMA ReleaseKeeps ==
  ASSUME CountInv, NEW t \in Threads, NEW s \in Slots, NEW base \in Seq(Frames),
         ReleaseCase(t, s, base)
  PROVE  /\ ref' \in [Slots -> Blocks \cup {NULL}] /\ refcount' \in [Blocks -> Int]
         /\ RefCountExact' /\ NoDangling' /\ FreeOwnsNothing' /\ IvarsDeclared'
         /\ SelfState' /\ FrameState' /\ FrameUnique'
         /\ stack' \in [Threads -> Seq(Frames)]
         /\ \A x \in Slots : x # s => ref'[x] = ref[x]
<1>1. /\ ref' = [ref EXCEPT ![s] = NULL]
      /\ refcount' = IF Counted(ref[s])
                     THEN [refcount EXCEPT ![ref[s]] = Dec(@)] ELSE refcount
      /\ UNCHANGED <<deallocating, heapAllocated, allocated, numUsed, heapUsed>>
  BY DEF ReleaseCase, Release, memory
<1>2. ref' \in [Slots -> Blocks \cup {NULL}] /\ refcount' \in [Blocks -> Int]
  BY <1>1, CountAssumption DEF CountInv, TypeOK, Dec, Counted
<1>3. RefCountExact'
  BY <1>1, ReleaseCount DEF CountInv
<1>4. FrameState' /\ FrameUnique' /\ stack' \in [Threads -> Seq(Frames)]
  BY ReleaseFrames
<1>5. \A x \in Slots : ref'[x] = IF x = s THEN NULL ELSE ref[x]
  BY <1>1 DEF CountInv, TypeOK
<1>6. NoDangling'
  BY <1>1, <1>4, <1>5 DEF CountInv, NoDangling, FrameState, FrameObject, Depth
<1>7. FreeOwnsNothing' /\ IvarsDeclared'
  BY <1>1, <1>5, SlotKinds DEF CountInv, FreeOwnsNothing, IvarsDeclared, HasIvar
<1>8. SelfState'
  <2> SUFFICES ASSUME NEW b \in Blocks, ref'[<<b, "self">>] # NULL
               PROVE  /\ ref'[<<b, "self">>] = b
                      /\ \E u \in Threads : InDealloc(u)' /\ Top(u)'.obj = b /\ ~ Top(u)'.body
    BY DEF SelfState
  <2>1. s # <<b, "self">> /\ ref'[<<b, "self">>] = ref[<<b, "self">>]
    BY <1>5, SlotKinds
  <2>2. PICK u \in Threads : InDealloc(u) /\ Top(u).obj = b /\ ~ Top(u).body
    BY <2>1 DEF CountInv, SelfState
  <2>3. u # t
    BY <2>1, <2>2 DEF ReleaseCase, InDealloc
  <2>4. stack'[u] = stack[u]
    BY <2>3 DEF ReleaseCase, Release, CountInv, TypeOK
  <2>5. Top(u)' = Top(u) /\ InDealloc(u)'
    BY <2>2, <2>4 DEF InDealloc, Top, Depth
  <2> QED
    BY <2>1, <2>2, <2>5 DEF CountInv, SelfState
<1> QED
  BY <1>2, <1>3, <1>4, <1>5, <1>6, <1>7, <1>8

LEMMA ScopeReleaseStep ==
  ASSUME CountInv, NEW t \in Threads, NEW v \in Locals, ScopeRelease(t, v)
  PROVE  CountInv'
<1> DEFINE s == <<t, v>>
<1>1. s \in Slots /\ stack[t] = << >> /\ call' = call /\ call[t] = NoCall
  BY SlotKinds DEF ScopeRelease, Idle
<1>2. << >> \in Seq(Frames) /\ Len(<< >>) = 0
  BY EmptySeq
<1>3. ReleaseCase(t, s, << >>)
  BY <1>1, <1>2, SlotAssumption DEF ScopeRelease, ReleaseCase
<1>4. SetterState'
  <2>1. \A w \in Threads : /\ ref'[<<w, "param">>] = ref[<<w, "param">>]
                           /\ ref'[<<w, "old">>] = ref[<<w, "old">>]
    BY <1>1, <1>2, <1>3, ReleaseKeeps, SlotKinds, SlotAssumption
  <2>2. \A w \in Threads, c \in Blocks : w # t /\ Holds(w, c) => Holds(w, c)'
    BY <1>1, <1>2, <1>3, ReleaseKeeps, SlotKinds DEF Holds
  <2>3. \A w \in Threads : w # t => stack'[w] = stack[w]
    BY DEF ScopeRelease, Release, CountInv, TypeOK
  <2>4. call[t].pc = "none"
    BY <1>1, CallKinds DEF CountInv
  <2> QED
    BY <1>1, <2>1, <2>2, <2>3, <2>4, SetterOf DEF SetterState, HasIvar
<1>5. TypeOK'
  BY <1>1, <1>2, <1>3, ReleaseKeeps DEF CountInv, TypeOK, ReleaseCase, memory
<1> QED
  BY <1>1, <1>2, <1>3, <1>4, <1>5, ReleaseKeeps DEF CountInv

LEMMA SetReleaseStep ==
  ASSUME CountInv, NEW t \in Threads, SetRelease(t)
  PROVE  CountInv'
<1> DEFINE s == <<t, "old">>
<1>1. s \in Slots /\ stack[t] = << >> /\ call' = [call EXCEPT ![t] = NoCall]
      /\ ref[<<t, "param">>] = NULL
  BY SlotKinds, SetterOf, CallKinds DEF SetRelease, CountInv
<1>2. << >> \in Seq(Frames) /\ Len(<< >>) = 0
  BY EmptySeq
<1>3. ReleaseCase(t, s, << >>)
  BY <1>1, <1>2, SlotAssumption DEF SetRelease, ReleaseCase
<1>4. SetterState'
  <2>1. \A w \in Threads : /\ ref'[<<w, "param">>] = ref[<<w, "param">>]
                           /\ w # t => ref'[<<w, "old">>] = ref[<<w, "old">>]
    BY <1>1, <1>2, <1>3, ReleaseKeeps, SlotKinds, SlotAssumption
  <2>2. \A w \in Threads, c \in Blocks : Holds(w, c) => Holds(w, c)'
    BY <1>1, <1>2, <1>3, ReleaseKeeps, SlotKinds, SlotAssumption DEF Holds
  <2>3. \A w \in Threads : w # t => stack'[w] = stack[w] /\ call'[w] = call[w]
    BY <1>1 DEF SetRelease, Release, CountInv, TypeOK
  <2>4. ref'[s] = NULL /\ call'[t] = NoCall /\ NoCall.pc = "none"
    BY <1>1, CallKinds DEF SetRelease, Release, CountInv, TypeOK
  <2> QED
    BY ZenonT(60), <1>1, <2>1, <2>2, <2>3, <2>4, SetterOf DEF SetterState, HasIvar
<1>5. TypeOK'
  BY <1>1, <1>2, <1>3, ReleaseKeeps DEF CountInv, TypeOK, ReleaseCase, memory
<1> QED
  BY <1>1, <1>2, <1>3, <1>4, <1>5, ReleaseKeeps DEF CountInv

\* A thread in a release: its topmost frame, and what is below it.
LEMMA TopFacts ==
  ASSUME CountInv, NEW t \in Threads, stack[t] # << >>
  PROVE  /\ Depth(t) \in Nat \ {0} /\ Depth(t) = Len(stack[t])
         /\ Top(t) \in Frames /\ Top(t) = stack[t][Depth(t)] /\ Top(t).obj \in Blocks
         /\ FrameObject(Top(t)) /\ FrameLevel(Top(t)) /\ InFrame(Top(t).obj)
         /\ Below(t) \in Seq(Frames) /\ Len(Below(t)) = Depth(t) - 1
         /\ \A k \in 1 .. Depth(t) - 1 : Below(t)[k] = stack[t][k]
<1>1. stack[t] \in Seq(Frames)
  BY DEF CountInv, TypeOK
<1>2. /\ Depth(t) \in Nat \ {0} /\ Below(t) \in Seq(Frames)
      /\ Len(Below(t)) = Depth(t) - 1
      /\ \A k \in 1 .. Depth(t) - 1 : Below(t)[k] = stack[t][k]
  BY <1>1, PopStack DEF Depth, Below
<1>3. Depth(t) \in 1 .. Depth(t) /\ Top(t) \in Frames
  BY <1>1, <1>2, ElementOfSeq DEF Top, Depth
<1>5. Top(t).obj \in Blocks
  BY <1>3 DEF Frames
<1>4. FrameObject(Top(t)) /\ FrameLevel(Top(t)) /\ InFrame(Top(t).obj)
  BY <1>3 DEF CountInv, FrameState, Top, InFrame
<1> QED
  BY <1>2, <1>3, <1>4, <1>5 DEF Top, Depth

LEMMA ReplaceTop ==
  ASSUME CountInv, NEW t \in Threads, stack[t] # << >>, NEW f \in Frames
  PROVE  LET base == Append(Below(t), f)
         IN  /\ base \in Seq(Frames) /\ Len(base) = Len(stack[t])
             /\ base[Depth(t)] = f
             /\ \A k \in 1 .. Depth(t) - 1 : base[k] = stack[t][k]
<1>1. Len(Below(t)) + 1 = Depth(t) /\ Len(Below(t)) = Depth(t) - 1
  BY TopFacts
<1> QED
  BY <1>1, TopFacts, AppendProperties

\* While a dealloc is on top of a stack, no other frame is about its object.
LEMMA DeallocAlone ==
  ASSUME CountInv, NEW t \in Threads, InDealloc(t), NEW u \in Threads,
         NEW k \in 1 .. Depth(u), stack[u][k].obj = Top(t).obj
  PROVE  u = t /\ k = Depth(t)
<1>1. stack[t] # << >> /\ Top(t).pc = "dealloc"
  BY DEF InDealloc
<1>2. Depth(t) \in Nat \ {0} /\ Top(t) = stack[t][Depth(t)] /\ Depth(t) \in 1 .. Depth(t)
  BY <1>1, TopFacts
<1>3. u = t
  BY <1>2 DEF CountInv, FrameUnique
<1>4. ~ (k < Depth(t)) /\ ~ (Depth(t) < k)
  BY <1>1, <1>2, <1>3 DEF CountInv, FrameUnique
<1> QED
  BY <1>2, <1>3, <1>4

\* A dealloc step is no step of a setter, and leaves variables and
\* temporaries alone.
LEMMA SetterUntouched ==
  ASSUME CountInv, NEW t \in Threads, stack[t] # << >>, call' = call,
         \A w \in Threads : w # t => stack'[w] = stack[w],
         \A x \in Slots : x \in LocalSlots \cup TempSlots => ref'[x] = ref[x]
  PROVE  SetterState'
<1>1. \A w \in Threads : /\ ref'[<<w, "param">>] = ref[<<w, "param">>]
                         /\ ref'[<<w, "old">>] = ref[<<w, "old">>]
  BY SlotKinds DEF TempSlots
<1>2. \A w \in Threads, c \in Blocks : Holds(w, c) => Holds(w, c)'
  BY SlotKinds DEF Holds, LocalSlots
<1>3. call[t] = NoCall /\ call[t].pc = "none"
  BY SetterOf, CallKinds DEF CountInv
<1> QED
  BY <1>1, <1>2, <1>3, SetterOf DEF SetterState, HasIvar

\* The release of self when a dealloc body's call returns.
LEMMA BodyReturnCase ==
  ASSUME CountInv, NEW t \in Threads, BodyReturn(t)
  PROVE  /\ <<Top(t).obj, "self">> \in Slots /\ stack[t] \in Seq(Frames)
         /\ ReleaseCase(t, <<Top(t).obj, "self">>, stack[t])
<1> DEFINE b == Top(t).obj
           s == <<b, "self">>
<1>1. stack[t] # << >> /\ Top(t).pc = "dealloc" /\ call' = call
  BY DEF BodyReturn, InDealloc
<1>2. s \in Slots /\ b \in Blocks
  BY <1>1, TopFacts, SlotKinds
<1>3. stack[t] \in Seq(Frames) /\ stack \in [Threads -> Seq(Frames)]
  BY DEF CountInv, TypeOK
<1>4. ReleaseCase(t, s, stack[t])
  <2>1. Release(t, s, stack[t]) /\ UNCHANGED memory
    BY DEF BodyReturn
  <2>2. ASSUME NEW k \in 1 .. Len(stack[t])
        PROVE  stack[t][k].pc = "dealloc" => \A i \in Ivars :
                 ref'[<<stack[t][k].obj, i>>] # NULL =>
                   i \in stack[t][k].todo \cup
                         UNION {Declares[c] : c \in Ancestors[stack[t][k].level]}
    <3>1. FrameLevel(stack[t][k]) /\ stack[t][k].obj \in Blocks
      <4>1. stack[t][k] \in Frames /\ FrameLevel(stack[t][k])
        BY <1>3, ElementOfSeq DEF CountInv, FrameState, Depth
      <4> QED
        BY <4>1 DEF Frames
    <3> DEFINE f == stack[t][k]
    <3> HIDE DEF f
    <3>2. \A i \in Ivars : ref'[<<f.obj, i>>] # NULL => ref[<<f.obj, i>>] # NULL
      BY <2>1, <3>1, SlotKinds DEF Release, CountInv, TypeOK, f
    <3> QED
      BY <3>1, <3>2 DEF FrameLevel, f
  <2> QED
    BY <1>1, <2>1, <2>2 DEF ReleaseCase
<1> QED
  BY <1>2, <1>3, <1>4

LEMMA BodyReturnStep ==
  ASSUME CountInv, NEW t \in Threads, BodyReturn(t)
  PROVE  CountInv'
<1> DEFINE b == Top(t).obj
           s == <<b, "self">>
<1>1. stack[t] # << >> /\ Top(t).pc = "dealloc" /\ call' = call
  BY DEF BodyReturn, InDealloc
<1>2. s \in Slots /\ b \in Blocks
  BY <1>1, TopFacts, SlotKinds
<1>3. stack[t] \in Seq(Frames) /\ stack \in [Threads -> Seq(Frames)]
  BY DEF CountInv, TypeOK
<1>4. ReleaseCase(t, s, stack[t])
  BY BodyReturnCase
<1>5. SetterState'
  <2>1. \A w \in Threads : w # t => stack'[w] = stack[w]
    BY <1>3 DEF BodyReturn, Release
  <2>2. \A x \in Slots : x \in LocalSlots \cup TempSlots => x # s
    BY <1>2, SlotAssumption DEF LocalSlots, TempSlots
  <2> QED
    BY <1>1, <1>2, <1>3, <1>4, <2>1, <2>2, ReleaseKeeps, SetterUntouched
<1>6. TypeOK'
  BY <1>1, <1>2, <1>3, <1>4, ReleaseKeeps DEF CountInv, TypeOK, ReleaseCase, memory
<1> QED
  BY <1>2, <1>3, <1>4, <1>5, <1>6, ReleaseKeeps DEF CountInv

\* The release of an ivar by the dealloc method, which crosses it off.
LEMMA ReleaseIvarCase ==
  ASSUME CountInv, NEW t \in Threads, NEW i \in Ivars, ReleaseIvar(t, i)
  PROVE  LET base == Append(Below(t), [Top(t) EXCEPT !.todo = @ \ {i}])
         IN  base \in Seq(Frames) /\ ReleaseCase(t, <<Top(t).obj, i>>, base)
<1> DEFINE b == Top(t).obj
           s == <<b, i>>
           f == [Top(t) EXCEPT !.todo = @ \ {i}]
           base == Append(Below(t), f)
<1>1. /\ stack[t] # << >> /\ Top(t).pc = "dealloc" /\ call' = call
      /\ ref[<<b, "self">>] = NULL /\ i \in Top(t).todo
  BY DEF ReleaseIvar, BodyDone, InDealloc
<1>2. s \in Slots /\ b \in Blocks /\ Top(t) \in Frames
  BY <1>1, TopFacts, SlotKinds
<1>3. stack[t] \in Seq(Frames) /\ stack \in [Threads -> Seq(Frames)]
  BY DEF CountInv, TypeOK
<1>4. /\ f \in Frames /\ f.obj = b /\ f.pc = Top(t).pc /\ f.level = Top(t).level
      /\ f.todo = Top(t).todo \ {i}
  BY <1>2 DEF Frames
<1> HIDE DEF f
<1>5. /\ base \in Seq(Frames) /\ Len(base) = Len(stack[t]) /\ base[Depth(t)] = f
      /\ \A k \in 1 .. Depth(t) - 1 : base[k] = stack[t][k]
      /\ Depth(t) \in Nat \ {0} /\ Depth(t) = Len(stack[t]) /\ Top(t) = stack[t][Depth(t)]
  BY <1>1, <1>4, ReplaceTop, TopFacts
<1> HIDE DEF base
<1>6. Release(t, s, base) /\ UNCHANGED memory
  BY DEF ReleaseIvar, f, base
<1>7. \A x \in Slots : ref'[x] = IF x = s THEN NULL ELSE ref[x]
  BY <1>6 DEF Release, CountInv, TypeOK
<1>8. ReleaseCase(t, s, base)
  <2>1. ASSUME NEW k \in 1 .. Len(base)
        PROVE  base[k].pc = "dealloc" => \A j \in Ivars : ref'[<<base[k].obj, j>>] # NULL =>
                 j \in base[k].todo \cup UNION {Declares[c] : c \in Ancestors[base[k].level]}
    <3>1. FrameLevel(stack[t][k]) /\ stack[t][k].obj \in Blocks
      <4>1. stack[t][k] \in Frames /\ FrameLevel(stack[t][k])
        BY <1>3, <1>5, ElementOfSeq DEF CountInv, FrameState
      <4> QED
        BY <4>1 DEF Frames
    <3>2. CASE k = Depth(t)
      <4>1. FrameLevel(Top(t)) /\ base[k] = f
        BY <1>5, <3>1, <3>2
      <4> QED
        BY <1>1, <1>2, <1>4, <1>7, <4>1, SlotKinds DEF FrameLevel
    <3>3. CASE k # Depth(t)
      <4>1. base[k] = stack[t][k]
        BY <1>5, <3>3
      <4> QED
        BY <1>7, <3>1, <4>1, SlotKinds DEF FrameLevel
    <3> QED
      BY <3>2, <3>3
  <2>2. \A k \in 1 .. Len(base) : /\ base[k].obj = stack[t][k].obj
                                  /\ base[k].pc = stack[t][k].pc
                                  /\ base[k].level = stack[t][k].level
    BY <1>4, <1>5
  <2>3. \A c \in Blocks : s # <<c, "self">>
    BY SlotAssumption
  <2> QED
    BY <1>1, <1>5, <1>6, <2>1, <2>2, <2>3 DEF ReleaseCase
<1> QED
  BY <1>5, <1>8 DEF base, f

LEMMA ReleaseIvarStep ==
  ASSUME CountInv, NEW t \in Threads, NEW i \in Ivars, ReleaseIvar(t, i)
  PROVE  CountInv'
<1> DEFINE b == Top(t).obj
           s == <<b, i>>
           base == Append(Below(t), [Top(t) EXCEPT !.todo = @ \ {i}])
<1>1. stack[t] # << >> /\ call' = call
  BY DEF ReleaseIvar, BodyDone, InDealloc
<1>2. s \in Slots /\ b \in Blocks
  BY <1>1, TopFacts, SlotKinds
<1>3. stack \in [Threads -> Seq(Frames)]
  BY DEF CountInv, TypeOK
<1>4. base \in Seq(Frames) /\ ReleaseCase(t, s, base)
  BY ReleaseIvarCase
<1> HIDE DEF base
<1>5. \A x \in Slots : ref'[x] = IF x = s THEN NULL ELSE ref[x]
  BY <1>4 DEF ReleaseCase, Release, CountInv, TypeOK
<1>6. SetterState'
  <2>1. \A w \in Threads : w # t => stack'[w] = stack[w]
    BY <1>3, <1>4 DEF ReleaseCase, Release
  <2>2. \A x \in Slots : x \in LocalSlots \cup TempSlots => x # s
    BY <1>2, SlotAssumption DEF LocalSlots, TempSlots
  <2> QED
    BY <1>1, <1>5, <2>1, <2>2, SetterUntouched
<1>7. TypeOK'
  BY ZenonT(60), <1>1, <1>2, <1>4, ReleaseKeeps DEF CountInv, TypeOK, ReleaseCase, memory
<1> QED
  BY <1>2, <1>4, <1>6, <1>7, ReleaseKeeps DEF CountInv

\* Putting another frame of the same object on top keeps the frames unique
\* when no other frame is about that object.
LEMMA ReplaceFrames ==
  ASSUME CountInv, NEW t \in Threads, stack[t] # << >>, NEW f \in Frames,
         f.obj = Top(t).obj,
         stack' = [stack EXCEPT ![t] = Append(Below(t), f)],
         \A u \in Threads : \A k \in 1 .. Depth(u) :
           stack[u][k].obj = Top(t).obj => u = t /\ k = Depth(t)
  PROVE  /\ FrameUnique'
         /\ stack' \in [Threads -> Seq(Frames)]
         /\ \A u \in Threads : u # t => stack'[u] = stack[u]
         /\ \A u \in Threads : Len(stack'[u]) = Len(stack[u])
         /\ \A u \in Threads : \A k \in 1 .. Len(stack[u]) :
              stack'[u][k] = IF u = t /\ k = Depth(t) THEN f ELSE stack[u][k]
         /\ stack'[t] # << >> /\ Top(t)' = f
<1> DEFINE base == Append(Below(t), f)
<1>1. /\ base \in Seq(Frames) /\ Len(base) = Len(stack[t]) /\ base[Depth(t)] = f
      /\ \A k \in 1 .. Depth(t) - 1 : base[k] = stack[t][k]
      /\ Depth(t) \in Nat \ {0} /\ Depth(t) = Len(stack[t]) /\ Top(t) = stack[t][Depth(t)]
  BY ReplaceTop, TopFacts
<1> HIDE DEF base
<1>2. /\ stack' \in [Threads -> Seq(Frames)] /\ stack'[t] = base
      /\ \A u \in Threads : u # t => stack'[u] = stack[u]
  BY <1>1 DEF CountInv, TypeOK, base
<1>3. \A u \in Threads : Len(stack'[u]) = Len(stack[u])
  BY <1>1, <1>2
<1>4. \A u \in Threads : \A k \in 1 .. Len(stack[u]) :
        stack'[u][k] = IF u = t /\ k = Depth(t) THEN f ELSE stack[u][k]
  BY <1>1, <1>2
<1>5. \A u \in Threads : \A k \in 1 .. Len(stack[u]) : stack'[u][k].obj = stack[u][k].obj
  BY <1>1, <1>4
<1>6. FrameUnique'
  <2> SUFFICES ASSUME NEW u \in Threads, NEW w \in Threads,
                      NEW j \in 1 .. Len(stack[u]), NEW k \in 1 .. Len(stack[w]),
                      stack[u][j].obj = stack[w][k].obj
               PROVE  /\ u = w
                      /\ j < k => /\ k = Len(stack[u]) /\ stack'[u][k].pc = "test"
                                  /\ stack'[u][j].pc = "dealloc"
    BY <1>3, <1>5 DEF FrameUnique, Depth
  <2>1. u = w /\ (j < k => k = Len(stack[u]) /\ stack[u][k].pc = "test"
                           /\ stack[u][j].pc = "dealloc")
    BY DEF CountInv, FrameUnique, Depth
  <2>2. CASE u = t /\ stack[u][j].obj = Top(t).obj
    BY <1>1, <2>1, <2>2 DEF Depth
  <2>3. CASE ~ (u = t /\ stack[u][j].obj = Top(t).obj)
    BY <1>1, <1>4, <2>1, <2>3
  <2> QED
    BY <2>2, <2>3
<1>7. stack'[t] # << >> /\ Top(t)' = f
  BY <1>1, <1>2 DEF Top, Depth
<1> QED
  BY <1>2, <1>3, <1>4, <1>6, <1>7

\* A step that replaces the top frame by another one of the same object keeps
\* what the frames say, when no other frame is about that object.
LEMMA FramesReplaced ==
  ASSUME CountInv, NEW t \in Threads, stack[t] # << >>, NEW f \in Frames,
         f.obj = Top(t).obj,
         stack' = [stack EXCEPT ![t] = Append(Below(t), f)],
         \A u \in Threads : \A k \in 1 .. Depth(u) :
           stack[u][k].obj = Top(t).obj => u = t /\ k = Depth(t),
         allocated' = allocated,
         \A c \in Blocks : deallocating[c] => deallocating'[c],
         \A x \in Slots : ref'[x] # ref[x] =>
            \E c \in Blocks : x = <<c, "self">> /\ ref'[x] \in {c, NULL},
         f.pc = "dealloc" =>
           /\ deallocating'[f.obj]
           /\ \A i \in Ivars : ref'[<<f.obj, i>>] # NULL =>
                i \in f.todo \cup UNION {Declares[c] : c \in Ancestors[f.level]}
  PROVE  FrameState'
<1>0. /\ \A u \in Threads : Len(stack'[u]) = Len(stack[u])
      /\ \A u \in Threads : \A k \in 1 .. Len(stack[u]) :
           stack'[u][k] = IF u = t /\ k = Depth(t) THEN f ELSE stack[u][k]
  BY ZenonT(60), ReplaceFrames
<1>1. ASSUME NEW g, FrameObject(g), g.obj \in Blocks
      PROVE  FrameObject(g)'
  <2>1. ASSUME NEW x \in Slots, ref'[x] = g.obj
        PROVE  x = <<g.obj, "self">>
    BY <1>1, <2>1, BlockAssumption DEF FrameObject
  <2> QED
    BY <1>1, <2>1 DEF FrameObject
<1>2. FrameObject(f)'
  <2>1. FrameObject(f) /\ f.obj \in Blocks
    BY TopFacts DEF FrameObject
  <2> QED
    BY <1>1, <2>1
<1>3. SUFFICES ASSUME NEW u \in Threads, NEW k \in 1 .. Len(stack[u])
               PROVE  FrameObject(stack[u][k])' /\ FrameLevel(stack[u][k])'
  BY <1>0 DEF FrameState, Depth
<1>4. CASE u = t /\ k = Depth(t)
  <2>1. stack'[u][k] = f
    BY <1>0, <1>4
  <2> QED
    BY <1>2, <2>1 DEF FrameObject, FrameLevel
<1>5. CASE ~ (u = t /\ k = Depth(t))
  <2>1. PICK g : g = stack[u][k]
    OBVIOUS
  <2>2. stack'[u][k] = g
    BY <1>0, <1>5, <2>1
  <2>3. stack[u] \in Seq(Frames)
    BY DEF CountInv, TypeOK
  <2>4. g \in Frames
    BY <2>1, <2>3, ElementOfSeq
  <2>5. FrameObject(g) /\ FrameLevel(g)
    BY <2>1 DEF CountInv, FrameState, Depth
  <2>6. g.obj \in Blocks
    BY <2>4 DEF Frames
  <2>7. \A i \in Ivars : ref'[<<g.obj, i>>] = ref[<<g.obj, i>>]
    BY <2>6, SlotKinds, SlotAssumption
  <2>8. FrameLevel(g)'
    BY <2>5, <2>6, <2>7 DEF FrameLevel
  <2>9. FrameObject(g)'
    BY <1>1, <2>5, <2>6
  <2> QED
    BY <2>2, <2>8, <2>9 DEF FrameObject, FrameLevel
<1> QED
  BY <1>4, <1>5

LEMMA FrameKinds ==
  ASSUME NEW b \in Blocks, NEW c \in Classes
  PROVE  /\ DeallocFrame(b, c) \in Frames /\ TestFrame(b) \in Frames
         /\ DeallocFrame(b, c).pc = "dealloc" /\ DeallocFrame(b, c).obj = b
         /\ DeallocFrame(b, c).level = c /\ DeallocFrame(b, c).todo = Declares[c]
<1>1. Declares[c] \in SUBSET Ivars /\ Root \in Classes
  BY ClassAssumption
<1>2. (c \in UserDealloc) \in BOOLEAN
  OBVIOUS
<1>3. DeallocFrame(b, c) \in Frames
  BY <1>1, <1>2, Zenon DEF DeallocFrame, Frames
<1>4. TestFrame(b) \in Frames
  BY <1>1 DEF TestFrame, Frames
<1> QED
  BY <1>3, <1>4 DEF DeallocFrame

LEMMA SuperDeallocStep ==
  ASSUME CountInv, NEW t \in Threads, SuperDealloc(t)
  PROVE  CountInv'
<1>1. /\ stack[t] # << >> /\ Top(t).pc = "dealloc" /\ InDealloc(t)
      /\ call' = call /\ ref' = ref /\ refcount' = refcount
      /\ ref[<<Top(t).obj, "self">>] = NULL
      /\ Top(t).todo = {} /\ Top(t).level # Root
  BY DEF SuperDealloc, BodyDone, InDealloc
<1>2. UNCHANGED memory
  BY DEF SuperDealloc
<1>3. Top(t) \in Frames /\ Top(t).obj \in Blocks /\ FrameLevel(Top(t))
  BY <1>1, TopFacts
<1>4. PICK c \in Classes : c = Top(t).level
  BY <1>3 DEF Frames
<1>5. Super[c] \in Classes /\ Ancestors[c] = {Super[c]} \cup Ancestors[Super[c]]
  BY <1>1, <1>4, ClassAssumption
<1>6. PICK f \in Frames : f = DeallocFrame(Top(t).obj, Super[c])
  BY <1>3, <1>5, FrameKinds
<1>7. /\ f.pc = "dealloc" /\ f.obj = Top(t).obj /\ f.level = Super[c]
      /\ f.todo = Declares[Super[c]]
  BY <1>3, <1>5, <1>6, FrameKinds
<1>8. stack' = [stack EXCEPT ![t] = Append(Below(t), f)]
  BY <1>4, <1>6 DEF SuperDealloc, Replace
<1>9. \A u \in Threads : \A k \in 1 .. Depth(u) :
        stack[u][k].obj = Top(t).obj => u = t /\ k = Depth(t)
  BY <1>1, DeallocAlone
<1>10. /\ FrameUnique' /\ stack' \in [Threads -> Seq(Frames)]
       /\ \A u \in Threads : u # t => stack'[u] = stack[u]
  BY <1>1, <1>7, <1>8, <1>9, ReplaceFrames
<1>11. FrameState'
  <2>1. f.pc = "dealloc" =>
          /\ deallocating[f.obj]
          /\ \A i \in Ivars : ref[<<f.obj, i>>] # NULL =>
               i \in f.todo \cup UNION {Declares[d] : d \in Ancestors[f.level]}
    BY <1>1, <1>3, <1>4, <1>5, <1>7 DEF FrameLevel
  <2> QED
    BY <1>1, <1>2, <1>7, <1>8, <1>9, <2>1, FramesReplaced DEF memory
<1>12. TypeOK'
  BY <1>1, <1>2, <1>10 DEF CountInv, TypeOK, memory
<1>13. RefCountExact' /\ FreeOwnsNothing' /\ IvarsDeclared'
  BY <1>1, <1>2 DEF CountInv, RefCountExact, Owners, FreeOwnsNothing, IvarsDeclared, memory
<1>14. NoDangling'
  BY <1>1, <1>2, <1>11 DEF CountInv, NoDangling, FrameState, FrameObject, memory
<1>15. SetterState'
  BY <1>1, <1>10, SetterUntouched
<1>16. SelfState'
  <2> SUFFICES ASSUME NEW b \in Blocks, ref[<<b, "self">>] # NULL
               PROVE  /\ ref[<<b, "self">>] = b
                      /\ \E u \in Threads : InDealloc(u)' /\ Top(u)'.obj = b /\ ~ Top(u)'.body
    BY <1>1 DEF SelfState
  <2>1. PICK u \in Threads : InDealloc(u) /\ Top(u).obj = b /\ ~ Top(u).body
    BY DEF CountInv, SelfState
  <2>2. u # t
    BY <1>1, <2>1
  <2>3. Top(u)' = Top(u) /\ InDealloc(u)'
    BY <1>10, <2>1, <2>2 DEF InDealloc, Top, Depth
  <2> QED
    BY <2>1, <2>3 DEF CountInv, SelfState
<1> QED
  BY <1>10, <1>11, <1>12, <1>13, <1>14, <1>15, <1>16 DEF CountInv

LEMMA BodyCallStep ==
  ASSUME CountInv, NEW t \in Threads, BodyCall(t)
  PROVE  CountInv'
<1>1. /\ stack[t] # << >> /\ Top(t).pc = "dealloc" /\ Top(t).body /\ InDealloc(t)
      /\ call' = call
  BY DEF BodyCall, InDealloc
<1>2. UNCHANGED memory
  BY DEF BodyCall
<1>3. Top(t) \in Frames /\ Top(t).obj \in Blocks /\ FrameLevel(Top(t)) /\ FrameObject(Top(t))
  BY <1>1, TopFacts
<1>4. PICK b \in Blocks : b = Top(t).obj
  BY <1>3
<1>5. PICK f \in Frames : f = [Top(t) EXCEPT !.body = FALSE]
  BY <1>3 DEF Frames
<1>6. /\ f.pc = "dealloc" /\ f.obj = Top(t).obj /\ f.level = Top(t).level
      /\ f.todo = Top(t).todo /\ f.body = FALSE
  BY <1>1, <1>3, <1>5 DEF Frames
<1>7. stack' = [stack EXCEPT ![t] = Append(Below(t), f)]
  BY <1>5 DEF BodyCall, Replace
<1>8. \A u \in Threads : \A k \in 1 .. Depth(u) :
        stack[u][k].obj = Top(t).obj => u = t /\ k = Depth(t)
  BY <1>1, DeallocAlone
<1>9. \A u \in Threads : InDealloc(u) /\ Top(u).obj = b => u = t
  <2> SUFFICES ASSUME NEW u \in Threads, InDealloc(u), Top(u).obj = b
               PROVE  u = t
    OBVIOUS
  <2>1. stack[u] # << >>
    BY DEF InDealloc
  <2>2. Depth(u) \in 1 .. Depth(u) /\ Top(u) = stack[u][Depth(u)]
    BY <2>1, TopFacts
  <2> QED
    BY <1>4, <1>8, <2>2
<1> DEFINE s == <<b, "self">>
<1>10. s \in Slots /\ ref[s] = NULL
  BY <1>1, <1>9, SlotKinds DEF CountInv, SelfState
<1>11. ref' = [ref EXCEPT ![s] = b] /\ refcount' = Retained(b)
  BY <1>4 DEF BodyCall
<1>12. \A x \in Slots : ref'[x] = IF x = s THEN b ELSE ref[x]
  BY <1>11 DEF CountInv, TypeOK
<1>13. /\ FrameUnique' /\ stack' \in [Threads -> Seq(Frames)]
       /\ \A u \in Threads : u # t => stack'[u] = stack[u]
       /\ stack'[t] # << >> /\ Top(t)' = f
  BY <1>1, <1>6, <1>7, <1>8, ReplaceFrames
<1>14. FrameState'
  <2>1. \A i \in Ivars : ref'[<<b, i>>] = ref[<<b, i>>]
    BY <1>12, SlotKinds, SlotAssumption
  <2>2. f.pc = "dealloc" =>
          /\ deallocating[f.obj]
          /\ \A i \in Ivars : ref'[<<f.obj, i>>] # NULL =>
               i \in f.todo \cup UNION {Declares[d] : d \in Ancestors[f.level]}
    BY <1>1, <1>3, <1>4, <1>6, <2>1 DEF FrameLevel
  <2>3. \A x \in Slots : ref'[x] # ref[x] =>
          \E c \in Blocks : x = <<c, "self">> /\ ref'[x] \in {c, NULL}
    BY <1>12
  <2> QED
    BY <1>1, <1>2, <1>6, <1>7, <1>8, <2>2, <2>3, FramesReplaced DEF memory
<1>15. RefCountExact'
  BY <1>10, <1>11, RetainCount DEF CountInv
<1>16. TypeOK'
  <2>1. refcount' \in [Blocks -> Int]
    <3>1. Inc(refcount[b]) \in Int
      BY CountAssumption DEF Inc, CountInv, TypeOK
    <3> QED
      BY <1>11, <3>1 DEF Retained, CountInv, TypeOK
  <2>2. ref' \in [Slots -> Blocks \cup {NULL}]
    BY <1>11 DEF CountInv, TypeOK
  <2> QED
    BY <1>1, <1>2, <1>13, <2>1, <2>2 DEF CountInv, TypeOK, memory
<1>17. NoDangling'
  <2>1. b \in allocated
    BY <1>3, <1>4 DEF FrameObject
  <2>2. \A x \in Slots : ref'[x] \in allocated \cup Immortal \cup {NULL}
    BY <1>12, <2>1 DEF CountInv, NoDangling
  <2> QED
    BY <1>2, <1>14, <2>2 DEF NoDangling, FrameState, FrameObject, memory
<1>18. FreeOwnsNothing'
  <2>1. b \in allocated
    BY <1>3, <1>4 DEF FrameObject
  <2>2. \A c \in Blocks \ allocated : \A i \in Ivars \cup {"self"} : ref'[<<c, i>>] = NULL
    BY <1>12, <2>1, SlotKinds DEF CountInv, FreeOwnsNothing
  <2> QED
    BY <1>2, <2>2 DEF CountInv, FreeOwnsNothing, memory
<1>19. IvarsDeclared'
  BY <1>12, SlotKinds, SlotAssumption DEF CountInv, IvarsDeclared, HasIvar
<1>20. SetterState'
  <2>1. \A x \in Slots : x \in LocalSlots \cup TempSlots => x # s
    BY SlotAssumption DEF LocalSlots, TempSlots
  <2> QED
    BY <1>1, <1>12, <1>13, <2>1, SetterUntouched
<1>21. SelfState'
  <2> SUFFICES ASSUME NEW c \in Blocks, ref'[<<c, "self">>] # NULL
               PROVE  /\ ref'[<<c, "self">>] = c
                      /\ \E u \in Threads : InDealloc(u)' /\ Top(u)'.obj = c /\ ~ Top(u)'.body
    BY DEF SelfState
  <2>1. CASE c = b
    <3>1. InDealloc(t)'
      BY <1>6, <1>13 DEF InDealloc
    <3> QED
      BY <1>4, <1>6, <1>10, <1>12, <1>13, <2>1, <3>1
  <2>2. CASE c # b
    <3>1. ref'[<<c, "self">>] = ref[<<c, "self">>]
      BY <1>12, <2>2, SlotKinds
    <3>2. PICK u \in Threads : InDealloc(u) /\ Top(u).obj = c /\ ~ Top(u).body
      BY <3>1 DEF CountInv, SelfState
    <3>3. u # t
      BY <1>4, <2>2, <3>2
    <3>4. Top(u)' = Top(u) /\ InDealloc(u)'
      BY <1>13, <3>2, <3>3 DEF InDealloc, Top, Depth
    <3> QED
      BY <3>1, <3>2, <3>4 DEF CountInv, SelfState
  <2> QED
    BY <2>1, <2>2
<1> QED
  BY <1>13, <1>14, <1>15, <1>16, <1>17, <1>18, <1>19, <1>20, <1>21 DEF CountInv

\* Dropping the top frame keeps what the remaining frames say, as long as
\* their objects stay allocated.
LEMMA PopFrames ==
  ASSUME CountInv, NEW t \in Threads, stack[t] # << >>,
         stack' = [stack EXCEPT ![t] = Below(t)],
         ref' = ref, deallocating' = deallocating,
         \A u \in Threads : \A k \in 1 .. Depth(u) :
           ~ (u = t /\ k = Depth(t)) => stack[u][k].obj \in allocated'
  PROVE  /\ FrameUnique' /\ FrameState'
         /\ stack' \in [Threads -> Seq(Frames)]
         /\ \A u \in Threads : u # t => stack'[u] = stack[u]
<1>1. /\ Below(t) \in Seq(Frames) /\ Len(Below(t)) = Depth(t) - 1
      /\ \A k \in 1 .. Depth(t) - 1 : Below(t)[k] = stack[t][k]
      /\ Depth(t) \in Nat \ {0} /\ Depth(t) = Len(stack[t])
  BY TopFacts
<1>2. /\ stack' \in [Threads -> Seq(Frames)] /\ stack'[t] = Below(t)
      /\ \A u \in Threads : u # t => stack'[u] = stack[u]
  BY <1>1 DEF CountInv, TypeOK
<1>3. \A u \in Threads : Len(stack'[u]) = IF u = t THEN Len(stack[u]) - 1 ELSE Len(stack[u])
  BY <1>1, <1>2
<1>4. \A u \in Threads : Len(stack[u]) \in Nat
  BY DEF CountInv, TypeOK
<1>5. \A u \in Threads : \A k \in 1 .. Len(stack'[u]) :
        /\ k \in 1 .. Len(stack[u]) /\ ~ (u = t /\ k = Depth(t))
        /\ stack'[u][k] = stack[u][k]
  BY <1>1, <1>2, <1>3, <1>4
<1>6. FrameUnique'
  <2> SUFFICES ASSUME NEW u \in Threads, NEW w \in Threads,
                      NEW j \in 1 .. Len(stack'[u]), NEW k \in 1 .. Len(stack'[w]),
                      stack[u][j].obj = stack[w][k].obj
               PROVE  /\ u = w
                      /\ j < k => /\ k = Len(stack'[u]) /\ stack'[u][k].pc = "test"
                                  /\ stack'[u][j].pc = "dealloc"
    BY <1>5 DEF FrameUnique, Depth
  <2>1. u = w /\ (j < k => k = Len(stack[u]) /\ stack[u][k].pc = "test"
                           /\ stack[u][j].pc = "dealloc")
    BY <1>5 DEF CountInv, FrameUnique, Depth
  <2> QED
    BY <1>1, <1>2, <1>5, <2>1
<1>7. FrameState'
  <2> SUFFICES ASSUME NEW u \in Threads, NEW k \in 1 .. Len(stack'[u])
               PROVE  FrameObject(stack[u][k])' /\ FrameLevel(stack[u][k])'
    BY DEF FrameState, Depth
  <2>1. PICK g : g = stack[u][k]
    OBVIOUS
  <2>2. stack'[u][k] = g
    BY <1>5, <2>1
  <2>3. FrameObject(g) /\ FrameLevel(g) /\ g.obj \in allocated'
    BY <1>5, <2>1 DEF CountInv, FrameState, Depth
  <2> QED
    BY <2>2, <2>3 DEF FrameObject, FrameLevel
<1> QED
  BY <1>2, <1>6, <1>7

LEMMA TestStep ==
  ASSUME CountInv, NEW t \in Threads, Test(t)
  PROVE  CountInv'
<1>1. /\ stack[t] # << >> /\ Top(t).pc = "test" /\ ~ InDealloc(t)
      /\ call' = call /\ ref' = ref /\ refcount' = refcount
      /\ UNCHANGED <<heapAllocated, allocated, numUsed, heapUsed>>
  BY DEF Test, InDealloc
<1>2. PICK b \in Blocks : b = Top(t).obj
  BY <1>1, TopFacts
<1>3. /\ FrameUnique' /\ FrameState' /\ stack' \in [Threads -> Seq(Frames)]
      /\ \A u \in Threads : u # t => stack'[u] = stack[u]
      /\ deallocating' \in [Blocks -> BOOLEAN]
  <2>1. CASE deallocating[b]
    <3>1. stack' = [stack EXCEPT ![t] = Below(t)] /\ deallocating' = deallocating
      BY <1>2, <2>1 DEF Test
    <3>2. \A u \in Threads : \A k \in 1 .. Depth(u) : stack[u][k].obj \in allocated
      BY DEF CountInv, NoDangling
    <3> QED
      BY <1>1, <3>1, <3>2, PopFrames DEF CountInv, TypeOK
  <2>2. CASE ~ deallocating[b]
    <3>1. ClassOf[b] \in Classes
      BY BlockAssumption
    <3>2. PICK f \in Frames : f = DeallocFrame(b, ClassOf[b])
      BY <3>1, FrameKinds
    <3>3. /\ f.pc = "dealloc" /\ f.obj = b /\ f.level = ClassOf[b]
          /\ f.todo = Declares[ClassOf[b]]
      BY <3>1, <3>2, FrameKinds
    <3>4. /\ stack' = [stack EXCEPT ![t] = Append(Below(t), f)]
          /\ deallocating' = [deallocating EXCEPT ![b] = TRUE]
      BY <1>2, <2>2, <3>2 DEF Test, Replace
    <3>5. \A u \in Threads : \A k \in 1 .. Depth(u) :
            stack[u][k].obj = Top(t).obj => u = t /\ k = Depth(t)
      <4> SUFFICES ASSUME NEW u \in Threads, NEW k \in 1 .. Depth(u),
                          stack[u][k].obj = b
                   PROVE  u = t /\ k = Depth(t)
        BY <1>2
      <4>1. /\ Depth(t) \in Nat \ {0} /\ Top(t) = stack[t][Depth(t)]
            /\ Depth(t) \in 1 .. Depth(t)
        BY <1>1, TopFacts
      <4>2. u = t
        BY <1>2, <4>1 DEF CountInv, FrameUnique
      <4>3. ~ (Depth(t) < k)
        BY <4>1, <4>2
      <4>4. ~ (k < Depth(t))
        <5>1. SUFFICES ASSUME k < Depth(t) PROVE FALSE
          OBVIOUS
        <5>2. stack[u][k].pc = "dealloc"
          BY <1>2, <4>1, <4>2, <5>1 DEF CountInv, FrameUnique
        <5>3. FrameLevel(stack[u][k])
          BY DEF CountInv, FrameState
        <5> QED
          BY <2>2, <5>2, <5>3 DEF FrameLevel
      <4> QED
        BY <4>1, <4>2, <4>3, <4>4
    <3>6. FrameUnique' /\ stack' \in [Threads -> Seq(Frames)]
          /\ \A u \in Threads : u # t => stack'[u] = stack[u]
      BY <1>1, <1>2, <3>3, <3>4, <3>5, ReplaceFrames
    <3>7. deallocating'[b] /\ \A c \in Blocks : deallocating[c] => deallocating'[c]
      BY <3>4 DEF CountInv, TypeOK
    <3>8. \A i \in Ivars : ref[<<b, i>>] # NULL =>
            i \in f.todo \cup UNION {Declares[d] : d \in Ancestors[f.level]}
      BY <3>3 DEF CountInv, IvarsDeclared, HasIvar
    <3>9. FrameState'
      BY <1>1, <1>2, <3>3, <3>4, <3>5, <3>7, <3>8, FramesReplaced
    <3>10. deallocating' \in [Blocks -> BOOLEAN]
      BY <3>4 DEF CountInv, TypeOK
    <3> QED
      BY <3>6, <3>9, <3>10
  <2> QED
    BY <2>1, <2>2
<1>4. TypeOK'
  BY <1>1, <1>3 DEF CountInv, TypeOK
<1>5. RefCountExact' /\ FreeOwnsNothing' /\ IvarsDeclared'
  BY <1>1 DEF CountInv, RefCountExact, Owners, FreeOwnsNothing, IvarsDeclared
<1>6. NoDangling'
  BY <1>1, <1>3 DEF CountInv, NoDangling, FrameState, FrameObject
<1>7. SetterState'
  BY <1>1, <1>3, SetterUntouched
<1>8. SelfState'
  <2> SUFFICES ASSUME NEW c \in Blocks, ref[<<c, "self">>] # NULL
               PROVE  /\ ref[<<c, "self">>] = c
                      /\ \E u \in Threads : InDealloc(u)' /\ Top(u)'.obj = c /\ ~ Top(u)'.body
    BY <1>1 DEF SelfState
  <2>1. PICK u \in Threads : InDealloc(u) /\ Top(u).obj = c /\ ~ Top(u).body
    BY DEF CountInv, SelfState
  <2>2. u # t
    BY <1>1, <2>1
  <2>3. Top(u)' = Top(u) /\ InDealloc(u)'
    BY <1>3, <2>1, <2>2 DEF InDealloc, Top, Depth
  <2> QED
    BY <2>1, <2>3 DEF CountInv, SelfState
<1> QED
  BY <1>3, <1>4, <1>5, <1>6, <1>7, <1>8 DEF CountInv

LEMMA DispatchFreeStep ==
  ASSUME CountInv, NEW t \in Threads, DispatchFree(t)
  PROVE  CountInv'
<1>1. /\ stack[t] # << >> /\ Top(t).pc = "dealloc" /\ InDealloc(t)
      /\ ref[<<Top(t).obj, "self">>] = NULL
      /\ Top(t).todo = {} /\ Top(t).level = Root
      /\ call' = call /\ ref' = ref /\ refcount' = refcount
      /\ deallocating' = deallocating /\ heapAllocated' = heapAllocated
      /\ stack' = [stack EXCEPT ![t] = Below(t)]
  BY DEF DispatchFree, BodyDone, InDealloc
<1>2. Top(t) \in Frames /\ FrameLevel(Top(t)) /\ FrameObject(Top(t))
  BY <1>1, TopFacts
<1>3. PICK b \in Blocks : b = Top(t).obj
  BY <1>1, TopFacts
<1>4. /\ allocated' = allocated \ {b}
      /\ numUsed' \in [Classes -> Nat] /\ heapUsed' \in Int
  <2>1. Free(b)
    BY <1>3 DEF DispatchFree
  <2>2. numUsed \in [Classes -> Nat] /\ heapUsed \in Int
    BY DEF CountInv, TypeOK
  <2> QED
    BY <2>1, <2>2 DEF Free
<1>5. \A s \in Slots : ref[s] # b
  BY <1>1, <1>2, <1>3, BlockAssumption DEF FrameObject
<1>6. \A i \in Ivars \cup {"self"} : ref[<<b, i>>] = NULL
  <2>1. Ancestors[Root] = {}
    BY ClassAssumption
  <2> QED
    BY <1>1, <1>2, <1>3, <2>1 DEF FrameLevel
<1>7. \A u \in Threads : \A k \in 1 .. Depth(u) :
        ~ (u = t /\ k = Depth(t)) => stack[u][k].obj \in allocated'
  BY <1>1, <1>3, <1>4, DeallocAlone DEF CountInv, NoDangling
<1>8. /\ FrameUnique' /\ FrameState' /\ stack' \in [Threads -> Seq(Frames)]
      /\ \A u \in Threads : u # t => stack'[u] = stack[u]
  BY <1>1, <1>7, PopFrames
<1>9. TypeOK'
  BY <1>1, <1>4, <1>8 DEF CountInv, TypeOK
<1>10. RefCountExact' /\ IvarsDeclared'
  BY <1>1 DEF CountInv, RefCountExact, Owners, IvarsDeclared
<1>11. FreeOwnsNothing'
  BY <1>1, <1>4, <1>6 DEF CountInv, FreeOwnsNothing
<1>12. NoDangling'
  <2>1. \A s \in Slots : ref'[s] \in allocated' \cup Immortal \cup {NULL}
    BY <1>1, <1>4, <1>5 DEF CountInv, NoDangling
  <2> QED
    BY <1>8, <2>1 DEF NoDangling, FrameState, FrameObject
<1>13. SetterState'
  BY <1>1, <1>8, SetterUntouched
<1>14. SelfState'
  <2> SUFFICES ASSUME NEW c \in Blocks, ref[<<c, "self">>] # NULL
               PROVE  /\ ref[<<c, "self">>] = c
                      /\ \E u \in Threads : InDealloc(u)' /\ Top(u)'.obj = c /\ ~ Top(u)'.body
    BY <1>1 DEF SelfState
  <2>1. PICK u \in Threads : InDealloc(u) /\ Top(u).obj = c /\ ~ Top(u).body
    BY DEF CountInv, SelfState
  <2>2. u # t
    BY <1>1, <2>1
  <2>3. Top(u)' = Top(u) /\ InDealloc(u)'
    BY <1>8, <2>1, <2>2 DEF InDealloc, Top, Depth
  <2> QED
    BY <2>1, <2>3 DEF CountInv, SelfState
<1> QED
  BY <1>8, <1>9, <1>10, <1>11, <1>12, <1>13, <1>14 DEF CountInv

LEMMA InitInv == Init => CountInv
<1> SUFFICES ASSUME Init PROVE CountInv
  OBVIOUS
<1>1. << >> \in Seq(Frames) /\ \A t \in Threads : stack[t] = << >> /\ Len(stack[t]) = 0
  BY EmptySeq DEF Init
<1>2. TypeOK
  BY <1>1, BlockAssumption DEF Init, TypeOK
<1>3. RefCountExact
  <2> SUFFICES ASSUME NEW b \in Blocks \ Immortal
               PROVE  refcount[b] = Cardinality(Owners(b))
    BY DEF RefCountExact
  <2>1. Owners(b) = {}
    BY BlockAssumption DEF Init, Owners
  <2> QED
    BY <2>1, FS_EmptySet DEF Init
<1>4. NoDangling /\ FreeOwnsNothing
  BY <1>1, SlotKinds DEF Init, NoDangling, FreeOwnsNothing, Depth
<1>5. IvarsDeclared /\ SelfState
  BY SlotKinds DEF Init, IvarsDeclared, SelfState
<1>6. SetterState
  BY <1>1, SlotKinds DEF Init, SetterState, NoCall
<1>7. FrameState /\ FrameUnique
  BY <1>1 DEF FrameState, FrameUnique, Depth
<1> QED
  BY <1>2, <1>3, <1>4, <1>5, <1>6, <1>7 DEF CountInv

\* The fresh object's first owner, its memory and the allocator's count.
LEMMA AllocStep ==
  ASSUME CountInv, NEW t \in Threads, NEW v \in Locals, NEW b \in Blocks,
         Alloc(t, v, b) \/ AllocWithHeap(t, v, b)
  PROVE  CountInv'
<1>1. numUsed \in [Classes -> Nat] /\ heapUsed \in Int
  BY DEF CountInv, TypeOK
<1>2. CASE Alloc(t, v, b)
  <2>1. numUsed' \in [Classes -> Nat] /\ heapUsed' \in Int
    <3>1. numUsed' = [numUsed EXCEPT ![ClassOf[b]] = @ + 1] /\ heapUsed' = heapUsed
      BY <1>2 DEF Alloc
    <3>2. ClassOf[b] \in Classes /\ numUsed[ClassOf[b]] + 1 \in Nat
      BY <1>1, BlockAssumption
    <3> QED
      BY <1>1, <3>1, <3>2
  <2>2. Fresh(t, v, b, FALSE)
    BY <1>2, Zenon DEF Alloc
  <2> QED
    BY <2>1, <2>2, FreshStep
<1>3. CASE AllocWithHeap(t, v, b)
  <2>1. numUsed' \in [Classes -> Nat] /\ heapUsed' \in Int
    <3>1. numUsed' = numUsed /\ heapUsed' = heapUsed + 1
      BY <1>3 DEF AllocWithHeap
    <3> QED
      BY <1>1, <3>1
  <2>2. Fresh(t, v, b, TRUE)
    BY <1>3, Zenon DEF AllocWithHeap
  <2> QED
    BY <2>1, <2>2, FreshStep
<1> QED
  BY <1>2, <1>3

\* Nothing happens: every part of the invariant reads the same state.
LEMMA StutterStep ==
  ASSUME CountInv, UNCHANGED vars
  PROVE  CountInv'
<1>1. /\ ref' = ref /\ refcount' = refcount /\ deallocating' = deallocating
      /\ heapAllocated' = heapAllocated /\ allocated' = allocated
      /\ numUsed' = numUsed /\ heapUsed' = heapUsed /\ stack' = stack
      /\ call' = call
  BY DEF vars
<1>2. /\ TypeOK' /\ RefCountExact' /\ NoDangling'
  BY <1>1 DEF CountInv, TypeOK, RefCountExact, Owners, NoDangling, Depth
<1>3. FreeOwnsNothing' /\ IvarsDeclared' /\ FrameUnique'
  BY <1>1 DEF CountInv, FreeOwnsNothing, IvarsDeclared, FrameUnique, Depth
<1>4. SetterState'
  BY <1>1 DEF CountInv, SetterState, Holds
<1>5. SelfState'
  BY <1>1 DEF CountInv, SelfState, InDealloc, Top, Depth
<1>6. FrameState'
  BY <1>1 DEF CountInv, FrameState, FrameObject, FrameLevel, Depth
<1> QED
  BY <1>2, <1>3, <1>4, <1>5, <1>6 DEF CountInv

\* Every step of every thread keeps the invariant.
LEMMA StepInv == CountInv /\ [Next]_vars => CountInv'
<1> SUFFICES ASSUME CountInv, [Next]_vars PROVE CountInv'
  OBVIOUS
<1>1. CASE UNCHANGED vars
  BY <1>1, StutterStep
<1>2. ASSUME NEW t \in Threads, Start(t) PROVE CountInv'
  <2>1. ASSUME NEW v \in Locals, NEW b \in Blocks, Alloc(t, v, b) PROVE CountInv'
    BY <2>1, AllocStep
  <2>2. ASSUME NEW v \in Locals, NEW b \in Blocks, AllocWithHeap(t, v, b) PROVE CountInv'
    BY <2>2, AllocStep
  <2>3. ASSUME NEW u \in Threads, NEW v \in Locals, NEW b \in Blocks, Share(t, b, u, v)
        PROVE CountInv'
    BY <2>3, ShareStep
  <2>4. ASSUME NEW v \in Locals, ScopeRelease(t, v) PROVE CountInv'
    BY <2>4, ScopeReleaseStep
  <2>5. ASSUME NEW o \in Blocks, NEW i \in Ivars, NEW n \in Blocks \cup {NULL},
               SetRetain(t, o, i, n)
        PROVE CountInv'
    BY <2>5, SetRetainStep
  <2> QED
    BY <1>2, <2>1, <2>2, <2>3, <2>4, <2>5 DEF Start
<1>3. ASSUME NEW t \in Threads, Continue(t) PROVE CountInv'
  BY <1>3, SetSwapStep, SetReleaseStep, TestStep, BodyCallStep, BodyReturnStep,
     ReleaseIvarStep, SuperDeallocStep, DispatchFreeStep DEF Continue
<1> QED
  BY <1>1, <1>2, <1>3 DEF Next

-----------------------------------------------------------------------------
\* The part of the inductive invariant that is about counts and references
\* holds for every number of threads, variables, classes and blocks.
THEOREM CountInvariance == Spec => []CountInv
<1>1. Init => CountInv
  BY InitInv
<1>2. CountInv /\ [Next]_vars => CountInv'
  BY StepInv
<1> QED
  BY <1>1, <1>2, PTL DEF Spec

\* Every variable keeps its type: in particular num_used never goes below zero
\* and a setter that returned leaves nothing behind.
THEOREM TypeCorrect == Spec => []TypeOK
<1>1. CountInv => TypeOK
  BY DEF CountInv
<1> QED
  BY <1>1, CountInvariance, PTL

\* OZObject_retain and OZObject_release keep the count of every object equal
\* to the number of references to it, whatever the threads interleave.
THEOREM CountsExact == Spec => []RefCountExact
<1>1. CountInv => RefCountExact
  BY DEF CountInv
<1> QED
  BY <1>1, CountInvariance, PTL

\* No owned reference and no dealloc under way ever points to freed memory.
THEOREM NeverDangling == Spec => []NoDangling
<1>1. CountInv => NoDangling
  BY DEF CountInv
<1> QED
  BY <1>1, CountInvariance, PTL

\* The dealloc chain of an object runs once at a time: the deallocating flag
\* stops the second release that brings the count to zero.
THEOREM OneDealloc == Spec => []DeallocOnce
<1>1. CountInv => DeallocOnce
  <2> SUFFICES ASSUME CountInv, NEW t \in Threads, NEW u \in Threads,
                      NEW j \in 1 .. Depth(t), NEW k \in 1 .. Depth(u),
                      stack[t][j].pc = "dealloc", stack[u][k].pc = "dealloc",
                      stack[t][j].obj = stack[u][k].obj
               PROVE  t = u /\ j = k
    BY DEF DeallocOnce
  <2>1. t = u /\ ~ (j < k) /\ ~ (k < j)
    BY DEF CountInv, FrameUnique
  <2>2. Depth(t) \in Nat
    BY DEF CountInv, TypeOK, Depth
  <2> QED
    BY <2>1, <2>2
<1> QED
  BY <1>1, CountInvariance, PTL

\* Immortal objects (constant strings) are never deallocated.
THEOREM ImmortalsSurvive == Spec => []ImmortalSurvives
<1>1. CountInv => ImmortalSurvives
  BY DEF CountInv, ImmortalSurvives, FrameState, FrameObject, FreeOwnsNothing
<1> QED
  BY <1>1, CountInvariance, PTL

(***************************************************************************)
(* OZObject implements OZOwnership, its pools' accounts are exact and      *)
(* nothing leaks, for every set of threads, classes and blocks.            *)
(***************************************************************************)
\* There are finitely many blocks: each has a slot for its own self.
LEMMA BlocksFinite == IsFiniteSet(Blocks)
<1> DEFINE f == [b \in Blocks |-> <<b, "self">>]
<1>1. f \in [Blocks -> Slots]
  BY SlotKinds
<1>2. \A a, b \in Blocks : f[a] = f[b] => a = b
  OBVIOUS
<1> HIDE DEF f
<1>3. f \in Injection(Blocks, Slots)
  BY <1>1, <1>2, Fun_IsInj
<1> QED
  BY <1>3, CountAssumption, FS_Injection

LEMMA OwnSlotKinds ==
  /\ \A s \in OwnSlots : s \in Slots /\ \A b \in Blocks : s # <<b, "self">>
  /\ \A s \in Slots : s \notin OwnSlots => \E b \in Blocks : s = <<b, "self">>
  /\ \A t \in Threads, v \in Locals : <<t, v>> \in OwnSlots
  /\ \A t \in Threads : <<t, "param">> \in OwnSlots /\ <<t, "old">> \in OwnSlots
  /\ \A b \in Blocks, i \in Ivars : <<b, i>> \in OwnSlots
<1>1. \A b \in Blocks : <<b, "self">> \in SelfSlots
  BY DEF SelfSlots
<1>2. \A s \in SelfSlots : \E b \in Blocks : s = <<b, "self">>
  BY DEF SelfSlots
<1> QED
  BY <1>1, <1>2, SlotKinds, SlotAssumption DEF OwnSlots

\* A dealloc body's reference to self is to an object that is being released.
LEMMA SelfIsFramed ==
  ASSUME CountInv, NEW s \in Slots, s \notin OwnSlots, ref[s] # NULL
  PROVE  ref[s] \in Blocks /\ InFrame(ref[s]) /\ s = <<ref[s], "self">>
<1>1. PICK b \in Blocks : s = <<b, "self">>
  BY OwnSlotKinds
<1>2. PICK t \in Threads : ref[s] = b /\ InDealloc(t) /\ Top(t).obj = b
  BY <1>1 DEF CountInv, SelfState
<1>3. InFrame(b)
  BY <1>2, TopFacts DEF InDealloc
<1> QED
  BY <1>1, <1>2, <1>3

\* An object that some slot owns in the long run has its memory, or is a
\* constant, and is not being released.
LEMMA OwnedIsLive ==
  ASSUME CountInv, NEW b \in Blocks, HasOwner(b)
  PROVE  ~ InFrame(b) /\ b \in allocated \cup Immortal
<1>1. PICK s \in OwnSlots : ref[s] = b
  BY DEF HasOwner
<1>2. s \in Slots /\ s # <<b, "self">>
  BY OwnSlotKinds
<1>3. ~ InFrame(b)
  BY <1>1, <1>2, FramedIsUnowned
<1>4. b \in allocated \cup Immortal
  BY <1>1, <1>2, BlockAssumption DEF CountInv, NoDangling
<1> QED
  BY <1>3, <1>4

\* What every step does that neither hands memory out nor takes it back: slots
\* let go or take an object that is immortal or that some slot owned, and the
\* objects that lost their last owner are those whose release begins.
Moves ==
  /\ allocated' = allocated
  /\ \A s \in OwnSlots :
       \/ ref'[s] \in {ref[s], NULL}
       \/ ref'[s] \in Blocks /\ (ref'[s] \in Immortal \/ HasOwner(ref'[s]))
  /\ \A b \in Blocks :
       InFrame(b)' <=> \/ InFrame(b)
                       \/ b \notin Immortal /\ HasOwner(b) /\ ~ HasOwner(b)'

LEMMA HoldsOwner ==
  ASSUME NEW t \in Threads, NEW b, Holds(t, b)
  PROVE  HasOwner(b)
  BY OwnSlotKinds DEF Holds, HasOwner

\* A step that keeps every owner and every frame's object moves references.
LEMMA QuietMoves ==
  ASSUME allocated' = allocated,
         \A s \in OwnSlots :
           \/ ref'[s] \in {ref[s], NULL}
           \/ ref'[s] \in Blocks /\ (ref'[s] \in Immortal \/ HasOwner(ref'[s])),
         \A b \in Blocks : HasOwner(b) => HasOwner(b)',
         \A b \in Blocks : InFrame(b)' <=> InFrame(b)
  PROVE  Moves
  BY DEF Moves

LEMMA SameFrames ==
  ASSUME \A u \in Threads : Len(stack'[u]) = Len(stack[u]),
         \A u \in Threads : \A k \in 1 .. Len(stack[u]) :
           stack'[u][k].obj = stack[u][k].obj
  PROVE  \A b : InFrame(b)' <=> InFrame(b)
  BY DEF InFrame, Depth

LEMMA ShareMoves ==
  ASSUME CountInv, NEW t \in Threads, NEW b \in Blocks, NEW u \in Threads,
         NEW v \in Locals, Share(t, b, u, v)
  PROVE  Moves
<1> DEFINE s0 == <<u, v>>
<1>1. s0 \in OwnSlots /\ s0 \in Slots /\ ref[s0] = NULL
      /\ ref' = [ref EXCEPT ![s0] = b] /\ stack' = stack /\ allocated' = allocated
  BY OwnSlotKinds DEF Share, memory
<1>2. b \in Immortal \/ HasOwner(b)
  BY HoldsOwner DEF Share
<1>3. \A s \in Slots : ref'[s] = IF s = s0 THEN b ELSE ref[s]
  BY <1>1 DEF CountInv, TypeOK
<1>4. \A c \in Blocks : HasOwner(c) => HasOwner(c)'
  BY <1>1, <1>3, OwnSlotKinds, BlockAssumption DEF HasOwner
<1>5. \A c : InFrame(c)' <=> InFrame(c)
  BY <1>1, SameFrames
<1>6. \A s \in OwnSlots :
           \/ ref'[s] \in {ref[s], NULL}
           \/ ref'[s] \in Blocks /\ (ref'[s] \in Immortal \/ HasOwner(ref'[s]))
  BY <1>2, <1>3, OwnSlotKinds
<1> QED
  BY <1>1, <1>4, <1>5, <1>6, QuietMoves

LEMMA SetRetainMoves ==
  ASSUME CountInv, NEW t \in Threads, NEW o \in Blocks, NEW i \in Ivars,
         NEW n \in Blocks \cup {NULL}, SetRetain(t, o, i, n)
  PROVE  Moves
<1> DEFINE s0 == <<t, "param">>
<1>1. s0 \in OwnSlots /\ s0 \in Slots /\ ref[s0] = NULL
      /\ ref' = [ref EXCEPT ![s0] = n] /\ stack' = stack /\ allocated' = allocated
  BY OwnSlotKinds, SetterOf, CallKinds DEF SetRetain, Idle, CountInv, memory
<1>2. n = NULL \/ n \in Immortal \/ HasOwner(n)
  BY HoldsOwner DEF SetRetain
<1>3. \A s \in Slots : ref'[s] = IF s = s0 THEN n ELSE ref[s]
  BY <1>1 DEF CountInv, TypeOK
<1>4. \A c \in Blocks : HasOwner(c) => HasOwner(c)'
  BY <1>1, <1>3, OwnSlotKinds, BlockAssumption DEF HasOwner
<1>5. \A c : InFrame(c)' <=> InFrame(c)
  BY <1>1, SameFrames
<1>6. \A s \in OwnSlots :
           \/ ref'[s] \in {ref[s], NULL}
           \/ ref'[s] \in Blocks /\ (ref'[s] \in Immortal \/ HasOwner(ref'[s]))
  BY <1>2, <1>3, OwnSlotKinds
<1> QED
  BY <1>1, <1>4, <1>5, <1>6, QuietMoves

LEMMA SetSwapMoves ==
  ASSUME CountInv, NEW t \in Threads, SetSwap(t)
  PROVE  Moves
<1> DEFINE o  == call[t].obj
           i  == call[t].ivar
           iv == <<o, i>>
           sp == <<t, "param">>
           so == <<t, "old">>
<1>1. o \in Blocks /\ i \in Ivars
  BY SetterOf DEF SetSwap
<1>2. /\ iv \in OwnSlots /\ sp \in OwnSlots /\ so \in OwnSlots
      /\ iv # sp /\ iv # so /\ sp # so /\ ref[so] = NULL
  BY <1>1, OwnSlotKinds, SlotAssumption DEF SetSwap, CountInv, SetterState
<1>3. ref' = [ref EXCEPT ![so] = ref[iv], ![iv] = ref[sp], ![sp] = NULL]
      /\ stack' = stack /\ allocated' = allocated
  BY DEF SetSwap, memory
<1> HIDE DEF iv, sp, so
<1>4. \A s \in Slots : ref'[s] = IF s = so THEN ref[iv] ELSE IF s = iv THEN ref[sp]
                                ELSE IF s = sp THEN NULL ELSE ref[s]
  BY <1>2, <1>3 DEF CountInv, TypeOK
<1>5. \A c \in Blocks : HasOwner(c) => HasOwner(c)'
  <2> SUFFICES ASSUME NEW c \in Blocks, NEW s \in OwnSlots, ref[s] = c
               PROVE  \E x \in OwnSlots : ref'[x] = c
    BY DEF HasOwner
  <2>1. c # NULL /\ s # so
    BY <1>2, BlockAssumption
  <2> QED
    BY <1>2, <1>4, <2>1, OwnSlotKinds
<1>6. \A s \in OwnSlots :
           \/ ref'[s] \in {ref[s], NULL}
           \/ ref'[s] \in Blocks /\ (ref'[s] \in Immortal \/ HasOwner(ref'[s]))
  BY <1>2, <1>4, OwnSlotKinds DEF HasOwner, CountInv, TypeOK
<1>7. \A c : InFrame(c)' <=> InFrame(c)
  BY <1>3, SameFrames
<1> QED
  BY <1>3, <1>5, <1>6, <1>7, QuietMoves

\* The frames after a release: the same objects, and the one whose count the
\* release took from one to zero.
LEMMA ReleaseInFrame ==
  ASSUME CountInv, NEW t \in Threads, NEW s \in Slots, NEW base \in Seq(Frames),
         ReleaseCase(t, s, base)
  PROVE  \A c \in Blocks :
           InFrame(c)' <=> \/ InFrame(c)
                           \/ c = ref[s] /\ Counted(c) /\ refcount[c] = 1
<1>0. PICK b : b = ref[s]
  OBVIOUS
<1> DEFINE last == Counted(b) /\ refcount[b] = 1
           n    == Len(stack[t])
           new  == IF last THEN Append(base, TestFrame(b)) ELSE base
<1>1. /\ stack' = [stack EXCEPT ![t] = new]
      /\ stack \in [Threads -> Seq(Frames)]
      /\ n \in Nat /\ Len(base) = n
      /\ \A k \in 1 .. n : base[k].obj = stack[t][k].obj
  BY <1>0 DEF ReleaseCase, Release, CountInv, TypeOK
<1>2. CASE last
  <2>1. b \in Blocks /\ TestFrame(b) \in Frames /\ TestFrame(b).obj = b
    BY <1>0, <1>2, ClassAssumption DEF Counted, CountInv, TypeOK, TestFrame, Frames
  <2>2. /\ Len(new) = n + 1 /\ new[n + 1].obj = b
        /\ \A k \in 1 .. n : new[k].obj = stack[t][k].obj
    BY <1>1, <1>2, <2>1, AppendProperties
  <2> HIDE DEF new
  <2>3. /\ \A u \in Threads : u # t => stack'[u] = stack[u]
        /\ stack'[t] = new
    BY <1>1
  <2>4. \A c \in Blocks : InFrame(c)' => InFrame(c) \/ c = b
    BY <1>1, <2>2, <2>3 DEF InFrame, Depth
  <2>5. \A c \in Blocks : InFrame(c) \/ c = b => InFrame(c)'
    <3>1. InFrame(b)'
      BY <1>1, <2>2, <2>3 DEF InFrame, Depth
    <3>2. ASSUME NEW c \in Blocks, InFrame(c) PROVE InFrame(c)'
      <4>0. PICK u \in Threads : \E k \in 1 .. Len(stack[u]) : stack[u][k].obj = c
        BY <3>2 DEF InFrame, Depth
      <4>1. PICK k \in 1 .. Len(stack[u]) : stack[u][k].obj = c
        BY <4>0
      <4>2. k \in 1 .. Len(stack'[u]) /\ stack'[u][k].obj = c
        BY <1>1, <2>2, <2>3, <4>1
      <4> QED
        BY <4>2 DEF InFrame, Depth
    <3> QED
      BY <3>1, <3>2
  <2> QED
    BY <1>0, <1>2, <2>4, <2>5
<1>3. CASE ~ last
  <2>1. /\ \A u \in Threads : u # t => stack'[u] = stack[u]
        /\ stack'[t] = base
    BY <1>1, <1>3
  <2>2. \A c : InFrame(c)' <=> InFrame(c)
    BY <1>1, <2>1, SameFrames
  <2> QED
    BY <1>0, <1>3, <2>2
<1> QED
  BY <1>2, <1>3

\* The last owner is the slot whose release takes the count from one to zero.
LEMMA ReleaseMoves ==
  ASSUME CountInv, NEW t \in Threads, NEW s \in OwnSlots, NEW base \in Seq(Frames),
         ReleaseCase(t, s, base)
  PROVE  Moves
<1>1. s \in Slots /\ ref' = [ref EXCEPT ![s] = NULL] /\ allocated' = allocated
  BY OwnSlotKinds DEF ReleaseCase, Release, memory
<1>2. \A x \in Slots : ref'[x] = IF x = s THEN NULL ELSE ref[x]
  BY <1>1 DEF CountInv, TypeOK
<1>3. \A c \in Blocks : InFrame(c)' <=> InFrame(c) \/ (c = ref[s] /\ Counted(c) /\ refcount[c] = 1)
  BY <1>1, ReleaseInFrame
<1>4. ASSUME NEW c \in Blocks
      PROVE  (c = ref[s] /\ Counted(c) /\ refcount[c] = 1)
             <=> (c \notin Immortal /\ HasOwner(c) /\ ~ HasOwner(c)')
  <2>1. ASSUME c = ref[s], Counted(c), refcount[c] = 1
        PROVE  c \notin Immortal /\ HasOwner(c) /\ ~ HasOwner(c)'
    <3>1. \A u \in Slots : ref[u] = c => u = s
      BY <1>1, <2>1, LastOwner DEF CountInv
    <3> QED
      BY <1>2, <2>1, <3>1, OwnSlotKinds, BlockAssumption DEF HasOwner, Counted
  <2>2. ASSUME c \notin Immortal, HasOwner(c), ~ HasOwner(c)'
        PROVE  c = ref[s] /\ Counted(c) /\ refcount[c] = 1
    <3>1. \A x \in OwnSlots : ref[x] = c => x = s
      BY <1>2, <2>2, OwnSlotKinds DEF HasOwner
    <3>2. ref[s] = c
      BY <2>2, <3>1 DEF HasOwner
    <3>3. \A x \in Slots : ref[x] = c => x = s
      BY <2>2, <3>1, SelfIsFramed, OwnedIsLive, BlockAssumption
    <3>4. Owners(c) = {s}
      BY <1>1, <3>2, <3>3 DEF Owners
    <3>5. refcount[c] = 1
      BY <2>2, <3>4, FS_Singleton DEF CountInv, RefCountExact
    <3> QED
      BY <2>2, <3>2, <3>5, BlockAssumption DEF Counted
  <2> QED
    BY <2>1, <2>2
<1>5. \A x \in OwnSlots : ref'[x] \in {ref[x], NULL}
  BY <1>2, OwnSlotKinds
<1> QED
  BY <1>1, <1>3, <1>4, <1>5 DEF Moves

\* The releases of a variable, of a setter's old value and of an ivar.
LEMMA OwnReleaseMoves ==
  ASSUME CountInv, NEW t \in Threads,
         \/ \E v \in Locals : ScopeRelease(t, v)
         \/ SetRelease(t)
         \/ \E i \in Ivars : ReleaseIvar(t, i)
  PROVE  \E s \in OwnSlots, base \in Seq(Frames) : ReleaseCase(t, s, base)
<1>1. << >> \in Seq(Frames) /\ Len(<< >>) = 0
  BY EmptySeq
<1>2. ASSUME NEW v \in Locals, ScopeRelease(t, v)
      PROVE  ReleaseCase(t, <<t, v>>, << >>)
  BY <1>1, <1>2, SlotAssumption DEF ScopeRelease, Idle, ReleaseCase
<1>3. ASSUME SetRelease(t) PROVE ReleaseCase(t, <<t, "old">>, << >>)
  <2>1. stack[t] = << >>
    BY <1>3, SetterOf, CallKinds DEF SetRelease, CountInv
  <2> QED
    BY <1>1, <1>3, <2>1, SlotAssumption DEF SetRelease, ReleaseCase
<1>4. ASSUME NEW i \in Ivars, ReleaseIvar(t, i)
      PROVE  \E base \in Seq(Frames) : ReleaseCase(t, <<Top(t).obj, i>>, base)
  BY <1>4, ReleaseIvarCase
<1>5. ASSUME NEW i \in Ivars, ReleaseIvar(t, i)
      PROVE  <<Top(t).obj, i>> \in OwnSlots
  <2>1. Top(t).obj \in Blocks
    BY <1>5, TopFacts DEF ReleaseIvar, BodyDone, InDealloc
  <2> QED
    BY <2>1, OwnSlotKinds
<1> QED
  BY <1>1, <1>2, <1>3, <1>4, <1>5, OwnSlotKinds

LEMMA BodyReturnMoves ==
  ASSUME CountInv, NEW t \in Threads, BodyReturn(t)
  PROVE  Moves
<1>1. PICK b \in Blocks : b = Top(t).obj
  BY TopFacts DEF BodyReturn, InDealloc
<1>2. PICK s \in Slots : s = <<b, "self">>
  BY SlotKinds
<1>3. ReleaseCase(t, s, stack[t]) /\ stack[t] \in Seq(Frames)
  BY <1>1, <1>2, BodyReturnCase
<1>4. ref[s] = b /\ InFrame(b)
  BY <1>1, <1>2, TopFacts DEF BodyReturn, InDealloc, CountInv, SelfState
<1>5. \A x \in OwnSlots : ref'[x] = ref[x]
  BY <1>2, <1>3, OwnSlotKinds DEF ReleaseCase, Release, CountInv, TypeOK
<1>6. \A c \in Blocks : InFrame(c)' <=> InFrame(c)
  BY <1>3, <1>4, ReleaseInFrame
<1> QED
  BY <1>3, <1>5, <1>6, QuietMoves DEF ReleaseCase, memory, HasOwner

\* Every dealloc frame that a step leaves in place vouches for its object.
LEMMA DeallocFramedKept ==
  ASSUME DeallocFramed,
         \A c \in allocated' : deallocating'[c] => c \in allocated /\ deallocating[c],
         \A u \in Threads : \A k \in 1 .. Depth(u) :
           stack[u][k].pc = "dealloc" /\ stack[u][k].obj \in allocated' =>
             \E j \in 1 .. Len(stack'[u]) :
               stack'[u][j].obj = stack[u][k].obj /\ stack'[u][j].pc = "dealloc"
  PROVE  DeallocFramed'
  BY DEF DeallocFramed, Depth

\* A dealloc step that puts another frame of the same object on top.
LEMMA ReplaceMoves ==
  ASSUME CountInv, NEW t \in Threads, BodyCall(t) \/ SuperDealloc(t)
  PROVE  /\ Moves
         /\ \E f \in Frames :
              /\ f.pc = "dealloc"
              /\ \A u \in Threads : Len(stack'[u]) = Len(stack[u])
              /\ \A u \in Threads : \A k \in 1 .. Len(stack[u]) :
                   stack'[u][k] = IF u = t /\ k = Depth(t) THEN f ELSE stack[u][k]
              /\ f.obj = Top(t).obj
<1>1. /\ stack[t] # << >> /\ InDealloc(t) /\ Top(t).pc = "dealloc"
      /\ UNCHANGED memory
  BY DEF BodyCall, SuperDealloc, BodyDone, InDealloc
<1>2. Top(t) \in Frames /\ Top(t).obj \in Blocks
  BY <1>1, TopFacts
<1>3. \A u \in Threads : \A k \in 1 .. Depth(u) :
        stack[u][k].obj = Top(t).obj => u = t /\ k = Depth(t)
  BY <1>1, DeallocAlone
<1>4. PICK f \in Frames : /\ f.obj = Top(t).obj /\ f.pc = "dealloc"
                          /\ stack' = [stack EXCEPT ![t] = Append(Below(t), f)]
  <2>1. CASE BodyCall(t)
    <3>1. PICK f \in Frames : f = [Top(t) EXCEPT !.body = FALSE]
      BY <1>2 DEF Frames
    <3>2. f.obj = Top(t).obj /\ f.pc = "dealloc"
      BY <1>1, <1>2, <3>1 DEF Frames
    <3> QED
      BY <2>1, <3>1, <3>2 DEF BodyCall, Replace
  <2>2. CASE SuperDealloc(t)
    <3>1. Super[Top(t).level] \in Classes
      BY <1>2, <2>2, ClassAssumption DEF SuperDealloc, Frames
    <3>2. PICK f \in Frames : f = DeallocFrame(Top(t).obj, Super[Top(t).level])
      BY <1>2, <3>1, FrameKinds
    <3>3. f.obj = Top(t).obj /\ f.pc = "dealloc"
      BY <1>2, <3>1, <3>2, FrameKinds
    <3> QED
      BY <2>2, <3>2, <3>3 DEF SuperDealloc, Replace
  <2> QED
    BY <2>1, <2>2
<1>5. /\ \A u \in Threads : Len(stack'[u]) = Len(stack[u])
      /\ \A u \in Threads : \A k \in 1 .. Len(stack[u]) :
           stack'[u][k] = IF u = t /\ k = Depth(t) THEN f ELSE stack[u][k]
  BY ZenonT(60), <1>1, <1>3, <1>4, ReplaceFrames
<1>6. \A u \in Threads : \A k \in 1 .. Len(stack[u]) :
        stack'[u][k].obj = stack[u][k].obj
  BY <1>4, <1>5 DEF Top
<1>7. \A c : InFrame(c)' <=> InFrame(c)
  BY <1>5, <1>6, SameFrames
<1>8. \A s \in OwnSlots : ref'[s] = ref[s]
  <2>1. CASE BodyCall(t)
    <3>1. ref' = [ref EXCEPT ![<<Top(t).obj, "self">>] = Top(t).obj]
      BY <2>1 DEF BodyCall
    <3> QED
      BY <1>2, <3>1, OwnSlotKinds DEF CountInv, TypeOK
  <2>2. CASE SuperDealloc(t)
    BY <2>2 DEF SuperDealloc
  <2> QED
    BY <2>1, <2>2
<1>9. Moves
  BY <1>1, <1>7, <1>8, QuietMoves DEF memory, HasOwner
<1> QED
  BY <1>4, <1>5, <1>9

LEMMA PopKeeps ==
  ASSUME CountInv, NEW t \in Threads, stack[t] # << >>,
         stack' = [stack EXCEPT ![t] = Below(t)]
  PROVE  /\ \A u \in Threads : \A k \in 1 .. Len(stack[u]) :
              u # t \/ k # Depth(t) => /\ k \in 1 .. Len(stack'[u])
                                       /\ stack'[u][k] = stack[u][k]
         /\ \A u \in Threads : \A k \in 1 .. Len(stack'[u]) :
              /\ k \in 1 .. Len(stack[u]) /\ (u # t \/ k # Depth(t))
              /\ stack'[u][k] = stack[u][k]
<1>1. /\ Below(t) \in Seq(Frames) /\ Len(Below(t)) = Depth(t) - 1
      /\ \A k \in 1 .. Depth(t) - 1 : Below(t)[k] = stack[t][k]
      /\ Depth(t) \in Nat \ {0} /\ Depth(t) = Len(stack[t])
  BY TopFacts
<1>2. stack'[t] = Below(t) /\ \A u \in Threads : u # t => stack'[u] = stack[u]
  BY DEF CountInv, TypeOK
<1> QED
  BY <1>1, <1>2

\* Who finds the flag set may return: the dealloc that set it is still there.
LEMMA TestMoves ==
  ASSUME CountInv, DeallocFramed, NEW t \in Threads, Test(t)
  PROVE  Moves /\ DeallocFramed'
<1>1. /\ stack[t] # << >> /\ Top(t).pc = "test" /\ ref' = ref
      /\ allocated' = allocated
  BY DEF Test
<1>2. PICK b \in Blocks : b = Top(t).obj /\ b \in allocated
  BY <1>1, TopFacts DEF FrameObject
<1>3. Depth(t) \in 1 .. Depth(t) /\ Top(t) = stack[t][Depth(t)] /\ Depth(t) = Len(stack[t])
  BY <1>1, TopFacts
<1>4. CASE deallocating[b]
  <2>1. stack' = [stack EXCEPT ![t] = Below(t)] /\ deallocating' = deallocating
    BY <1>2, <1>4 DEF Test
  <2>2. /\ \A u \in Threads : \A k \in 1 .. Len(stack[u]) :
             u # t \/ k # Depth(t) => /\ k \in 1 .. Len(stack'[u])
                                      /\ stack'[u][k] = stack[u][k]
        /\ \A u \in Threads : \A k \in 1 .. Len(stack'[u]) :
             /\ k \in 1 .. Len(stack[u]) /\ (u # t \/ k # Depth(t))
             /\ stack'[u][k] = stack[u][k]
    BY <1>1, <2>1, PopKeeps
  <2>3. DeallocFramed'
    <3>1. \A u \in Threads : \A k \in 1 .. Depth(u) :
            stack[u][k].pc = "dealloc" =>
              \E j \in 1 .. Len(stack'[u]) :
                stack'[u][j].obj = stack[u][k].obj /\ stack'[u][j].pc = "dealloc"
      BY <1>1, <1>3, <2>2 DEF Depth
    <3> QED
      BY <1>1, <2>1, <3>1, DeallocFramedKept
  <2>4. InFrame(b)'
    BY <1>1, <1>2, <1>4, <2>1, <2>3 DEF DeallocFramed, InFrame
  <2>5. \A c \in Blocks : InFrame(c)' => InFrame(c)
    BY <2>2 DEF InFrame, Depth
  <2>6. ASSUME NEW c \in Blocks, InFrame(c), c # b PROVE InFrame(c)'
    <3>1. PICK u \in Threads : \E k \in 1 .. Len(stack[u]) : stack[u][k].obj = c
      BY <2>6 DEF InFrame, Depth
    <3>2. PICK k \in 1 .. Len(stack[u]) : stack[u][k].obj = c
      BY <3>1
    <3>3. u # t \/ k # Depth(t)
      BY <1>2, <1>3, <2>6, <3>2
    <3> QED
      BY <2>2, <3>2, <3>3 DEF InFrame, Depth
  <2>7. \A c \in Blocks : InFrame(c)' <=> InFrame(c)
    BY <1>2, <1>3, <2>4, <2>5, <2>6 DEF InFrame
  <2> QED
    BY <1>1, <2>3, <2>7, QuietMoves DEF HasOwner
<1>5. CASE ~ deallocating[b]
  <2>1. ClassOf[b] \in Classes
    BY BlockAssumption
  <2>2. PICK f \in Frames : f = DeallocFrame(b, ClassOf[b])
    BY <2>1, FrameKinds
  <2>3. f.pc = "dealloc" /\ f.obj = b
    BY <2>1, <2>2, FrameKinds
  <2>4. /\ stack' = [stack EXCEPT ![t] = Append(Below(t), f)]
        /\ deallocating' = [deallocating EXCEPT ![b] = TRUE]
    BY <1>2, <1>5, <2>2 DEF Test, Replace
  <2>5. /\ \A u \in Threads : Len(stack'[u]) = Len(stack[u])
        /\ \A u \in Threads : \A k \in 1 .. Len(stack[u]) :
             stack'[u][k] = IF u = t /\ k = Depth(t) THEN f ELSE stack[u][k]
    <3> DEFINE base == Append(Below(t), f)
    <3>1. /\ base \in Seq(Frames) /\ Len(base) = Len(stack[t])
          /\ base[Depth(t)] = f
          /\ \A k \in 1 .. Depth(t) - 1 : base[k] = stack[t][k]
          /\ Depth(t) \in Nat \ {0}
      BY <1>1, ReplaceTop, TopFacts
    <3> HIDE DEF base
    <3>2. stack'[t] = base /\ \A u \in Threads : u # t => stack'[u] = stack[u]
      BY <2>4 DEF base, CountInv, TypeOK
    <3> QED
      BY <1>3, <3>1, <3>2
  <2>6. \A c : InFrame(c)' <=> InFrame(c)
    <3>1. \A u \in Threads : \A k \in 1 .. Len(stack[u]) :
            stack'[u][k].obj = stack[u][k].obj
      BY <1>2, <1>3, <2>3, <2>5
    <3> QED
      BY <2>5, <3>1, SameFrames
  <2>7. DeallocFramed'
    <3> SUFFICES ASSUME NEW c \in allocated, deallocating'[c]
                 PROVE  \E u \in Threads : \E k \in 1 .. Len(stack'[u]) :
                          stack'[u][k].obj = c /\ stack'[u][k].pc = "dealloc"
      BY <1>1 DEF DeallocFramed, Depth
    <3>1. CASE c = b
      BY <1>3, <2>3, <2>5, <3>1
    <3>2. CASE c # b
      <4>1. deallocating[c]
        BY <2>4, <3>2 DEF CountInv, TypeOK
      <4>2. PICK u \in Threads : \E k \in 1 .. Len(stack[u]) :
              stack[u][k].obj = c /\ stack[u][k].pc = "dealloc"
        BY <4>1 DEF DeallocFramed, Depth
      <4> QED
        BY <1>2, <1>3, <2>5, <3>2, <4>2
    <3> QED
      BY <3>1, <3>2
  <2> QED
    BY <1>1, <2>6, <2>7, QuietMoves DEF HasOwner
<1> QED
  BY <1>4, <1>5

\* A step that moves references loses no object.
LEMMA MovesLive ==
  ASSUME CountInv, LiveOwned, Moves
  PROVE  LiveOwned'
<1> SUFFICES ASSUME NEW b \in allocated', ~ InFrame(b)', ~ HasOwner(b)'
             PROVE  FALSE
  BY DEF LiveOwned
<1>1. b \in allocated /\ b \in Blocks /\ b \notin Immortal
  BY DEF Moves, CountInv, TypeOK, FreeOwnsNothing
<1>2. InFrame(b) \/ HasOwner(b)
  BY <1>1 DEF LiveOwned
<1> QED
  BY <1>1, <1>2 DEF Moves

\* A fresh object is a free block that got one owner.
LEMMA FreshMoves ==
  ASSUME CountInv, NEW t \in Threads, NEW v \in Locals, NEW b \in Blocks,
         Alloc(t, v, b) \/ AllocWithHeap(t, v, b)
  PROVE  /\ b \notin allocated \cup Immortal
         /\ ~ InFrame(b) /\ ref[<<t, v>>] = NULL
         /\ allocated' = allocated \cup {b}
         /\ ref' = [ref EXCEPT ![<<t, v>>] = b]
         /\ stack' = stack
         /\ deallocating' = [deallocating EXCEPT ![b] = FALSE]
         /\ \A c \in Blocks : heapAllocated'[c] <=>
              IF c = b THEN b \in HeapBlocks ELSE heapAllocated[c]
         /\ DeallocFramed => DeallocFramed'
         /\ LiveOwned => LiveOwned'
<1>1. PICK heap \in BOOLEAN : (heap <=> b \in HeapBlocks) /\ Fresh(t, v, b, heap)
  <2>1. CASE Alloc(t, v, b)
    BY <2>1, Zenon DEF Alloc
  <2>2. CASE AllocWithHeap(t, v, b)
    BY <2>2, Zenon DEF AllocWithHeap
  <2> QED
    BY <2>1, <2>2
<1>2. /\ b \notin allocated \cup Immortal /\ ref[<<t, v>>] = NULL
      /\ allocated' = allocated \cup {b} /\ stack' = stack
      /\ deallocating' = [deallocating EXCEPT ![b] = FALSE]
      /\ heapAllocated' = [heapAllocated EXCEPT ![b] = heap]
  BY <1>1 DEF Fresh
<1>3. ref' = [ref EXCEPT ![<<t, v>>] = b]
  BY <1>1, FreshRef
<1>4. ~ InFrame(b)
  BY <1>2, FramedIsUnowned
<1>5. ASSUME DeallocFramed PROVE DeallocFramed'
  <2>1. \A c \in allocated' : deallocating'[c] => c \in allocated /\ deallocating[c]
    BY <1>2 DEF CountInv, TypeOK
  <2> QED
    BY <1>2, <1>5, <2>1, DeallocFramedKept DEF Depth
<1>6. ASSUME LiveOwned PROVE LiveOwned'
  <2>1. \A c : InFrame(c)' <=> InFrame(c)
    BY <1>2, SameFrames
  <2>2. HasOwner(b)'
    BY <1>3, OwnSlotKinds DEF HasOwner, CountInv, TypeOK
  <2>3. ASSUME NEW c \in allocated, HasOwner(c) PROVE HasOwner(c)'
    <3>1. PICK s \in OwnSlots : ref[s] = c
      BY <2>3 DEF HasOwner
    <3>2. s # <<t, v>>
      BY <1>2, <3>1, BlockAssumption DEF CountInv, TypeOK
    <3> QED
      BY <1>3, <3>1, <3>2, OwnSlotKinds DEF HasOwner, CountInv, TypeOK
  <2> QED
    BY <1>2, <1>6, <2>1, <2>2, <2>3 DEF LiveOwned
<1>7. \A c \in Blocks : heapAllocated'[c] <=>
              IF c = b THEN b \in HeapBlocks ELSE heapAllocated[c]
  BY <1>1, <1>2 DEF CountInv, TypeOK
<1> QED
  BY <1>2, <1>3, <1>4, <1>5, <1>6, <1>7

\* The object that goes back owns nothing, nobody owns it, and no other call
\* is about it.
LEMMA FreeMoves ==
  ASSUME CountInv, NEW t \in Threads, DispatchFree(t)
  PROVE  /\ Top(t).obj \in allocated \ Immortal /\ InFrame(Top(t).obj)
         /\ \A i \in Ivars : ref[<<Top(t).obj, i>>] = NULL
         /\ ref' = ref /\ allocated' = allocated \ {Top(t).obj}
         /\ \A c \in Blocks : c # Top(t).obj => (InFrame(c)' <=> InFrame(c))
         /\ DeallocFramed => DeallocFramed'
         /\ LiveOwned => LiveOwned'
<1>1. /\ stack[t] # << >> /\ Top(t).todo = {} /\ Top(t).level = Root
      /\ Top(t).pc = "dealloc" /\ ref' = ref
      /\ deallocating' = deallocating /\ stack' = [stack EXCEPT ![t] = Below(t)]
  BY DEF DispatchFree, BodyDone, InDealloc
<1>2. PICK b \in Blocks : b = Top(t).obj
  BY <1>1, TopFacts
<1>3. /\ b \in allocated /\ b \notin Immortal /\ InFrame(b)
      /\ FrameLevel(Top(t))
  BY <1>1, <1>2, TopFacts, FramedIsUnowned
<1>4. \A i \in Ivars : ref[<<b, i>>] = NULL
  BY <1>1, <1>2, <1>3, ClassAssumption DEF FrameLevel
<1>5. allocated' = allocated \ {b}
  BY <1>2 DEF DispatchFree, Free
<1>6. /\ \A u \in Threads : \A k \in 1 .. Len(stack[u]) :
           u # t \/ k # Depth(t) => /\ k \in 1 .. Len(stack'[u])
                                    /\ stack'[u][k] = stack[u][k]
      /\ \A u \in Threads : \A k \in 1 .. Len(stack'[u]) :
           /\ k \in 1 .. Len(stack[u]) /\ (u # t \/ k # Depth(t))
           /\ stack'[u][k] = stack[u][k]
  BY <1>1, PopKeeps
<1>7. stack[t][Depth(t)].obj = b
  BY <1>2 DEF Top
<1>8. \A u \in Threads : \A k \in 1 .. Len(stack[u]) :
        stack[u][k].obj # b => /\ k \in 1 .. Len(stack'[u])
                               /\ stack'[u][k] = stack[u][k]
  BY <1>6, <1>7
<1>9. ASSUME NEW c \in Blocks, c # b PROVE InFrame(c)' <=> InFrame(c)
  <2>1. ASSUME NEW u \in Threads, NEW k \in 1 .. Len(stack[u]), stack[u][k].obj = c
        PROVE  k \in 1 .. Len(stack'[u]) /\ stack'[u][k] = stack[u][k]
    BY <1>8, <1>9, <2>1
  <2>2. ASSUME NEW u \in Threads, NEW k \in 1 .. Len(stack'[u])
        PROVE  k \in 1 .. Len(stack[u]) /\ stack'[u][k] = stack[u][k]
    BY <1>6, <2>2
  <2> QED
    BY <2>1, <2>2, SMTT(60) DEF InFrame, Depth
<1>10. ASSUME DeallocFramed PROVE DeallocFramed'
  <2>1. \A u \in Threads : \A k \in 1 .. Depth(u) :
          stack[u][k].pc = "dealloc" /\ stack[u][k].obj \in allocated' =>
            \E j \in 1 .. Len(stack'[u]) :
              stack'[u][j].obj = stack[u][k].obj /\ stack'[u][j].pc = "dealloc"
    BY <1>5, <1>8 DEF Depth
  <2> QED
    BY <1>1, <1>5, <1>10, <2>1, DeallocFramedKept
<1>11. ASSUME LiveOwned PROVE LiveOwned'
  BY <1>1, <1>5, <1>9, <1>11 DEF LiveOwned, HasOwner, CountInv, TypeOK
<1> QED
  BY <1>1, <1>2, <1>3, <1>4, <1>5, <1>9, <1>10, <1>11

LEMMA ReleaseDealloc ==
  ASSUME CountInv, DeallocFramed, NEW t \in Threads, NEW s \in Slots,
         NEW base \in Seq(Frames), ReleaseCase(t, s, base)
  PROVE  DeallocFramed'
<1>0. PICK b : b = ref[s]
  OBVIOUS
<1> DEFINE last == Counted(b) /\ refcount[b] = 1
           n    == Len(stack[t])
           new  == IF last THEN Append(base, TestFrame(b)) ELSE base
<1>1. /\ stack' = [stack EXCEPT ![t] = new] /\ stack \in [Threads -> Seq(Frames)]
      /\ n \in Nat /\ Len(base) = n
      /\ \A k \in 1 .. n : base[k].obj = stack[t][k].obj /\ base[k].pc = stack[t][k].pc
      /\ UNCHANGED <<allocated, deallocating>>
  BY <1>0 DEF ReleaseCase, Release, CountInv, TypeOK, memory
<1>2. \A k \in 1 .. n : k \in 1 .. Len(new) /\ new[k] = base[k]
  <2>1. CASE last
    <3>1. TestFrame(b) \in Frames
      BY <1>0, <2>1, ClassAssumption DEF Counted, CountInv, TypeOK, TestFrame, Frames
    <3> QED
      BY <1>1, <2>1, <3>1, AppendProperties
  <2> QED
    BY <1>1, <2>1
<1> HIDE DEF new
<1>3. \A u \in Threads : \A k \in 1 .. Len(stack[u]) :
        /\ k \in 1 .. Len(stack'[u])
        /\ stack'[u][k].obj = stack[u][k].obj /\ stack'[u][k].pc = stack[u][k].pc
  BY <1>1, <1>2
<1>4. \A u \in Threads : \A k \in 1 .. Depth(u) :
        stack[u][k].pc = "dealloc" /\ stack[u][k].obj \in allocated' =>
          \E j \in 1 .. Len(stack'[u]) :
            stack'[u][j].obj = stack[u][k].obj /\ stack'[u][j].pc = "dealloc"
  BY <1>3 DEF Depth
<1>5. \A c \in allocated' : deallocating'[c] => c \in allocated /\ deallocating[c]
  BY <1>1
<1> QED
  BY <1>4, <1>5, DeallocFramedKept

\* A step hands out a block, takes one back, or moves references.
LEMMA StepKinds ==
  ASSUME CountInv, DeallocFramed, Next
  PROVE  \/ /\ Moves /\ DeallocFramed'
            /\ UNCHANGED <<heapAllocated, allocated, numUsed, heapUsed>>
         \/ \E t \in Threads, v \in Locals, b \in Blocks :
              Alloc(t, v, b) \/ AllocWithHeap(t, v, b)
         \/ \E t \in Threads : DispatchFree(t)
<1>1. ASSUME stack' = stack, UNCHANGED memory PROVE DeallocFramed'
  BY <1>1 DEF DeallocFramed, Depth, memory
<1>2. ASSUME NEW t \in Threads, NEW u \in Threads, NEW v \in Locals, NEW b \in Blocks,
             Share(t, b, u, v)
      PROVE  Moves /\ DeallocFramed' /\ UNCHANGED memory
  BY <1>1, <1>2, ShareMoves DEF Share
<1>3. ASSUME NEW t \in Threads, NEW o \in Blocks, NEW i \in Ivars,
             NEW n \in Blocks \cup {NULL}, SetRetain(t, o, i, n)
      PROVE  Moves /\ DeallocFramed' /\ UNCHANGED memory
  BY <1>1, <1>3, SetRetainMoves DEF SetRetain
<1>4. ASSUME NEW t \in Threads, SetSwap(t)
      PROVE  Moves /\ DeallocFramed' /\ UNCHANGED memory
  BY <1>1, <1>4, SetSwapMoves DEF SetSwap
<1>5. ASSUME NEW t \in Threads,
             \/ \E v \in Locals : ScopeRelease(t, v)
             \/ SetRelease(t)
             \/ \E i \in Ivars : ReleaseIvar(t, i)
      PROVE  Moves /\ DeallocFramed' /\ UNCHANGED memory
  <2>1. PICK s \in OwnSlots, base \in Seq(Frames) : ReleaseCase(t, s, base)
    BY <1>5, OwnReleaseMoves
  <2> QED
    BY <2>1, ReleaseMoves, ReleaseDealloc, OwnSlotKinds DEF ReleaseCase
<1>6. ASSUME NEW t \in Threads, BodyReturn(t)
      PROVE  Moves /\ DeallocFramed' /\ UNCHANGED memory
  BY <1>6, BodyReturnMoves, BodyReturnCase, ReleaseDealloc DEF ReleaseCase
<1>7. ASSUME NEW t \in Threads, BodyCall(t) \/ SuperDealloc(t)
      PROVE  Moves /\ DeallocFramed' /\ UNCHANGED memory
  <2>1. UNCHANGED memory
    BY <1>7 DEF BodyCall, SuperDealloc
  <2>2. PICK f \in Frames :
              /\ f.pc = "dealloc"
              /\ \A u \in Threads : Len(stack'[u]) = Len(stack[u])
              /\ \A u \in Threads : \A k \in 1 .. Len(stack[u]) :
                   stack'[u][k] = IF u = t /\ k = Depth(t) THEN f ELSE stack[u][k]
              /\ f.obj = Top(t).obj
    BY <1>7, ReplaceMoves
  <2>3. \A u \in Threads : \A k \in 1 .. Len(stack[u]) :
          /\ k \in 1 .. Len(stack'[u]) /\ stack'[u][k].obj = stack[u][k].obj
          /\ stack[u][k].pc = "dealloc" => stack'[u][k].pc = "dealloc"
    BY <2>2 DEF Top
  <2>4. DeallocFramed'
    <3>1. \A u \in Threads : \A k \in 1 .. Depth(u) :
            stack[u][k].pc = "dealloc" /\ stack[u][k].obj \in allocated' =>
              \E j \in 1 .. Len(stack'[u]) :
                stack'[u][j].obj = stack[u][k].obj /\ stack'[u][j].pc = "dealloc"
      BY <2>3 DEF Depth
    <3> QED
      BY <2>1, <3>1, DeallocFramedKept DEF memory
  <2> QED
    BY <1>7, <2>1, <2>4, ReplaceMoves
<1>8. ASSUME NEW t \in Threads, Test(t)
      PROVE  /\ Moves /\ DeallocFramed'
             /\ UNCHANGED <<heapAllocated, allocated, numUsed, heapUsed>>
  BY <1>8, TestMoves DEF Test
<1>9. PICK t \in Threads : Start(t) \/ Continue(t)
  BY DEF Next
<1>10. CASE Start(t)
  BY <1>2, <1>3, <1>5, <1>10 DEF Start, memory
<1>11. CASE Continue(t)
  BY <1>4, <1>5, <1>6, <1>7, <1>8, <1>11 DEF Continue, memory
<1> QED
  BY <1>9, <1>10, <1>11
-----------------------------------------------------------------------------
\* The blocks of the slab of c that are handed out.
UsedOf(c) == {b \in allocated \ HeapBlocks : ClassOf[b] = c}

LEMMA UsedFinite ==
  ASSUME CountInv
  PROVE  /\ \A c : IsFiniteSet(UsedOf(c)) /\ Cardinality(UsedOf(c)) \in Nat
         /\ IsFiniteSet(allocated \cap HeapBlocks)
         /\ Cardinality(allocated \cap HeapBlocks) \in Nat
<1>1. \A c : UsedOf(c) \in SUBSET Blocks
  BY DEF UsedOf, CountInv, TypeOK
<1>2. (allocated \cap HeapBlocks) \in SUBSET Blocks
  BY DEF CountInv, TypeOK
<1> QED
  BY <1>1, <1>2, BlocksFinite, FS_Subset, FS_CardinalityType

\* An allocation takes a block of the allocator it counts.
LEMMA PoolAlloc ==
  ASSUME CountInv, PoolExact, NEW t \in Threads, NEW v \in Locals, NEW b \in Blocks,
         Alloc(t, v, b) \/ AllocWithHeap(t, v, b)
  PROVE  PoolExact'
<1>1. b \notin allocated /\ allocated' = allocated \cup {b}
  BY FreshMoves
<1>2. ClassOf[b] \in Classes /\ numUsed \in [Classes -> Nat]
  BY BlockAssumption DEF CountInv, TypeOK
<1>3. CASE Alloc(t, v, b)
  <2>1. /\ b \notin HeapBlocks /\ heapUsed' = heapUsed
        /\ numUsed' = [numUsed EXCEPT ![ClassOf[b]] = @ + 1]
    BY <1>3 DEF Alloc
  <2>2. allocated' \cap HeapBlocks = allocated \cap HeapBlocks
    BY <1>1, <2>1
  <2>3. ASSUME NEW c \in Classes PROVE numUsed'[c] = Cardinality(UsedOf(c)')
    <3>1. CASE c = ClassOf[b]
      <4>1. UsedOf(c)' = UsedOf(c) \cup {b} /\ b \notin UsedOf(c)
        BY <1>1, <2>1, <3>1 DEF UsedOf
      <4>2. Cardinality(UsedOf(c)') = Cardinality(UsedOf(c)) + 1
        BY <4>1, UsedFinite, FS_AddElement
      <4>3. numUsed[c] = Cardinality(UsedOf(c))
        BY DEF PoolExact, UsedOf
      <4> QED
        BY <1>2, <2>1, <3>1, <4>2, <4>3
    <3>2. CASE c # ClassOf[b]
      <4>1. UsedOf(c)' = UsedOf(c)
        BY <1>1, <3>2 DEF UsedOf
      <4>2. numUsed[c] = Cardinality(UsedOf(c))
        BY DEF PoolExact, UsedOf
      <4> QED
        BY <1>2, <2>1, <3>2, <4>1, <4>2
    <3> QED
      BY <3>1, <3>2
  <2> QED
    BY <2>1, <2>2, <2>3 DEF PoolExact, UsedOf
<1>4. CASE AllocWithHeap(t, v, b)
  <2>1. b \in HeapBlocks /\ heapUsed' = heapUsed + 1 /\ numUsed' = numUsed
    BY <1>4 DEF AllocWithHeap
  <2>2. /\ allocated' \cap HeapBlocks = (allocated \cap HeapBlocks) \cup {b}
        /\ b \notin allocated \cap HeapBlocks
        /\ allocated' \ HeapBlocks = allocated \ HeapBlocks
    BY <1>1, <2>1
  <2>3. heapUsed' = Cardinality(allocated' \cap HeapBlocks)
    <3>1. PICK H : H = allocated \cap HeapBlocks
      OBVIOUS
    <3>2. IsFiniteSet(H) /\ heapUsed = Cardinality(H)
      BY <3>1, UsedFinite DEF PoolExact
    <3>3. Cardinality(H \cup {b}) = Cardinality(H) + 1
      BY <2>2, <3>1, <3>2, FS_AddElement
    <3> QED
      BY <2>1, <2>2, <3>1, <3>2, <3>3
  <2> QED
    BY <2>1, <2>2, <2>3 DEF PoolExact
<1> QED
  BY <1>3, <1>4

\* The flag of an object sends its block back where it came from.
LEMMA PoolFree ==
  ASSUME CountInv, HeapFlags, PoolExact, NEW t \in Threads, DispatchFree(t)
  PROVE  PoolExact'
<1>1. PICK b \in Blocks : b = Top(t).obj
  BY TopFacts DEF DispatchFree, BodyDone, InDealloc
<1>2. b \in allocated /\ Free(b) /\ allocated' = allocated \ {b}
  BY <1>1, FreeMoves DEF DispatchFree
<1>3. ClassOf[b] \in Classes /\ numUsed \in [Classes -> Nat]
  BY BlockAssumption DEF CountInv, TypeOK
<1>4. CASE b \in HeapBlocks
  <2>1. heapUsed' = heapUsed - 1 /\ numUsed' = numUsed
    BY <1>2, <1>4 DEF Free, HeapFlags
  <2>2. /\ allocated' \cap HeapBlocks = (allocated \cap HeapBlocks) \ {b}
        /\ b \in allocated \cap HeapBlocks
        /\ allocated' \ HeapBlocks = allocated \ HeapBlocks
    BY <1>2, <1>4
  <2>3. heapUsed' = Cardinality(allocated' \cap HeapBlocks)
    <3>1. PICK H : H = allocated \cap HeapBlocks
      OBVIOUS
    <3>2. IsFiniteSet(H) /\ heapUsed = Cardinality(H)
      BY <3>1, UsedFinite DEF PoolExact
    <3>3. Cardinality(H \ {b}) = Cardinality(H) - 1
      BY <2>2, <3>1, <3>2, FS_RemoveElement
    <3> QED
      BY <2>1, <2>2, <3>1, <3>2, <3>3
  <2> QED
    BY <2>1, <2>2, <2>3 DEF PoolExact
<1>5. CASE b \notin HeapBlocks
  <2>1. /\ heapUsed' = heapUsed
        /\ numUsed' = [numUsed EXCEPT ![ClassOf[b]] = IF @ > 0 THEN @ - 1 ELSE @]
    BY <1>2, <1>5 DEF Free, HeapFlags
  <2>2. allocated' \cap HeapBlocks = allocated \cap HeapBlocks
    BY <1>2, <1>5
  <2>3. ASSUME NEW c \in Classes PROVE numUsed'[c] = Cardinality(UsedOf(c)')
    <3>1. CASE c = ClassOf[b]
      <4>1. UsedOf(c)' = UsedOf(c) \ {b} /\ b \in UsedOf(c)
        BY <1>2, <1>5, <3>1 DEF UsedOf
      <4>2. Cardinality(UsedOf(c)') = Cardinality(UsedOf(c)) - 1
        BY <4>1, UsedFinite, FS_RemoveElement
      <4>3. Cardinality(UsedOf(c)) > 0
        BY <4>1, UsedFinite, FS_EmptySet
      <4>4. numUsed[c] = Cardinality(UsedOf(c))
        BY DEF PoolExact, UsedOf
      <4> QED
        BY <1>3, <2>1, <3>1, <4>2, <4>3, <4>4
    <3>2. CASE c # ClassOf[b]
      <4>1. UsedOf(c)' = UsedOf(c)
        BY <1>2, <3>2 DEF UsedOf
      <4>2. numUsed[c] = Cardinality(UsedOf(c))
        BY DEF PoolExact, UsedOf
      <4> QED
        BY <1>3, <2>1, <3>2, <4>1, <4>2
    <3> QED
      BY <3>1, <3>2
  <2> QED
    BY <2>1, <2>2, <2>3 DEF PoolExact, UsedOf
<1> QED
  BY <1>4, <1>5

\* A step that stores nothing in an ivar, and starts no setter, keeps the
\* classes of what the ivars hold.
LEMMA KindsKept ==
  ASSUME IvarKinds,
         \A b \in Blocks, i \in Ivars : ref'[<<b, i>>] \in {ref[<<b, i>>], NULL},
         \A t \in Threads : call'[t].pc = "swap" =>
           call'[t] = call[t] /\ ref'[<<t, "param">>] \in {ref[<<t, "param">>], NULL}
  PROVE  IvarKinds'
  BY DEF IvarKinds, IsKindOf

\* Only setters store in ivars, and their callers pass what the ivar may hold.
LEMMA KindsStep ==
  ASSUME CountInv, IvarKinds, Next
  PROVE  IvarKinds'
<1>1. ASSUME NEW t \in Threads, NEW v \in Locals, NEW b \in Blocks,
             Alloc(t, v, b) \/ AllocWithHeap(t, v, b)
      PROVE  IvarKinds'
  <2>1. ref' = [ref EXCEPT ![<<t, v>>] = b]
    BY <1>1, FreshMoves
  <2>2. call' = call
    BY <1>1 DEF Alloc, AllocWithHeap, Fresh
  <2>3. \A c \in Blocks, i \in Ivars : ref'[<<c, i>>] = ref[<<c, i>>]
    BY <2>1, SlotKinds, SlotAssumption DEF CountInv, TypeOK
  <2>4. \A u \in Threads : ref'[<<u, "param">>] = ref[<<u, "param">>]
    BY <2>1, SlotKinds, SlotAssumption DEF CountInv, TypeOK
  <2> QED
    BY <2>2, <2>3, <2>4, KindsKept
<1>2. ASSUME NEW t \in Threads, NEW u \in Threads, NEW v \in Locals, NEW b \in Blocks,
             Share(t, b, u, v)
      PROVE  IvarKinds'
  <2>1. ref' = [ref EXCEPT ![<<u, v>>] = b] /\ call' = call
    BY <1>2 DEF Share
  <2>2. \A c \in Blocks, i \in Ivars : ref'[<<c, i>>] = ref[<<c, i>>]
    BY <2>1, SlotKinds, SlotAssumption DEF CountInv, TypeOK
  <2>3. \A w \in Threads : ref'[<<w, "param">>] = ref[<<w, "param">>]
    BY <2>1, SlotKinds, SlotAssumption DEF CountInv, TypeOK
  <2> QED
    BY <2>1, <2>2, <2>3, KindsKept
<1>3. ASSUME NEW t \in Threads, NEW o \in Blocks, NEW i \in Ivars,
             NEW n \in Blocks \cup {NULL}, SetRetain(t, o, i, n)
      PROVE  IvarKinds'
  <2>1. /\ ref' = [ref EXCEPT ![<<t, "param">>] = n]
        /\ call' = [call EXCEPT ![t] = [pc |-> "swap", obj |-> o, ivar |-> i]]
        /\ n # NULL => IsKindOf(n, IvarClass[i])
    BY <1>3 DEF SetRetain
  <2>2. \A c \in Blocks, j \in Ivars : ref'[<<c, j>>] = ref[<<c, j>>]
    BY <2>1, SlotKinds, SlotAssumption DEF CountInv, TypeOK
  <2>3. \A w \in Threads : ref'[<<w, "param">>] = IF w = t THEN n ELSE ref[<<w, "param">>]
    BY <2>1, SlotKinds DEF CountInv, TypeOK
  <2>4. /\ call'[t].ivar = i
        /\ \A w \in Threads : w # t => call'[w] = call[w]
    BY <2>1 DEF CountInv, TypeOK
  <2> QED
    BY <2>1, <2>2, <2>3, <2>4 DEF IvarKinds, IsKindOf
<1>4. ASSUME NEW t \in Threads, SetSwap(t) PROVE IvarKinds'
  <2>1. PICK o \in Blocks, i \in Ivars : o = call[t].obj /\ i = call[t].ivar
    BY <1>4, SetterOf DEF SetSwap
  <2>2. /\ ref' = [ref EXCEPT ![<<t, "old">>] = ref[<<o, i>>],
                              ![<<o, i>>] = ref[<<t, "param">>],
                              ![<<t, "param">>] = NULL]
        /\ call' = [call EXCEPT ![t].pc = "drop"] /\ call[t].pc = "swap"
    BY <1>4, <2>1 DEF SetSwap
  <2>3. \A c \in Blocks, j \in Ivars :
          ref'[<<c, j>>] = IF c = o /\ j = i THEN ref[<<t, "param">>] ELSE ref[<<c, j>>]
    BY <2>2, SlotKinds, SlotAssumption DEF CountInv, TypeOK
  <2>4. \A w \in Threads : w # t => ref'[<<w, "param">>] = ref[<<w, "param">>]
    BY <2>2, SlotKinds, SlotAssumption DEF CountInv, TypeOK
  <2>5. call'[t].pc = "drop" /\ \A w \in Threads : w # t => call'[w] = call[w]
    <3>1. call[t] \in Calls
      BY <2>2, CallKinds DEF CountInv
    <3>2. [call[t] EXCEPT !.pc = "drop"].pc = "drop"
      BY <3>1 DEF Calls
    <3> QED
      BY <2>2, <3>2 DEF CountInv, TypeOK
  <2>6. \A c \in Blocks, j \in Ivars :
          ref'[<<c, j>>] # NULL => IsKindOf(ref'[<<c, j>>], IvarClass[j])
    <3>1. ref[<<t, "param">>] # NULL => IsKindOf(ref[<<t, "param">>], IvarClass[i])
      BY <2>1, <2>2 DEF IvarKinds
    <3> QED
      BY <2>3, <3>1 DEF IvarKinds
  <2>7. \A w \in Threads : call'[w].pc = "swap" =>
          w # t /\ call'[w] = call[w] /\ ref'[<<w, "param">>] = ref[<<w, "param">>]
    BY <2>4, <2>5
  <2> QED
    BY <2>6, <2>7 DEF IvarKinds, IsKindOf
<1>5. ASSUME NEW t \in Threads, NEW s \in Slots, NEW base, Release(t, s, base),
             call' \in {call, [call EXCEPT ![t] = NoCall]}
      PROVE  IvarKinds'
  <2>1. \A x \in Slots : ref'[x] \in {ref[x], NULL}
    BY <1>5 DEF Release, CountInv, TypeOK
  <2>2. \A w \in Threads : call'[w].pc = "swap" => call'[w] = call[w]
    BY <1>5 DEF NoCall, CountInv, TypeOK
  <2> QED
    BY <2>1, <2>2, SlotKinds, KindsKept
<1>6. ASSUME NEW t \in Threads,
             \/ \E v \in Locals : ScopeRelease(t, v)
             \/ SetRelease(t)
             \/ \E i \in Ivars : ReleaseIvar(t, i)
             \/ BodyReturn(t)
      PROVE  IvarKinds'
  <2>1. ASSUME NEW v \in Locals, ScopeRelease(t, v) PROVE IvarKinds'
    BY <1>5, <2>1, SlotKinds DEF ScopeRelease
  <2>2. ASSUME SetRelease(t) PROVE IvarKinds'
    BY <1>5, <2>2, SlotKinds DEF SetRelease
  <2>3. ASSUME NEW i \in Ivars, ReleaseIvar(t, i) PROVE IvarKinds'
    BY <1>5, <2>3, SlotKinds, TopFacts DEF ReleaseIvar, BodyDone, InDealloc
  <2>4. ASSUME BodyReturn(t) PROVE IvarKinds'
    BY <1>5, <2>4, SlotKinds, TopFacts DEF BodyReturn, InDealloc
  <2> QED
    BY <1>6, <2>1, <2>2, <2>3, <2>4
<1>7. ASSUME NEW t \in Threads, BodyCall(t) PROVE IvarKinds'
  <2>1. PICK b \in Blocks : b = Top(t).obj
    BY <1>7, TopFacts DEF BodyCall, InDealloc
  <2>2. ref' = [ref EXCEPT ![<<b, "self">>] = b] /\ call' = call
    BY <1>7, <2>1 DEF BodyCall
  <2>3. \A c \in Blocks, i \in Ivars : ref'[<<c, i>>] = ref[<<c, i>>]
    BY <2>2, SlotKinds, SlotAssumption DEF CountInv, TypeOK
  <2>4. \A w \in Threads : ref'[<<w, "param">>] = ref[<<w, "param">>]
    BY <2>2, SlotKinds DEF CountInv, TypeOK
  <2> QED
    BY <2>2, <2>3, <2>4, KindsKept
<1>8. ASSUME NEW t \in Threads, Test(t) \/ SuperDealloc(t) \/ DispatchFree(t)
      PROVE  IvarKinds'
  <2>1. ref' = ref /\ call' = call
    BY <1>8 DEF Test, SuperDealloc, DispatchFree
  <2> QED
    BY <2>1, KindsKept
<1>9. PICK t \in Threads : Start(t) \/ Continue(t)
  BY DEF Next
<1>10. CASE Start(t)
  BY <1>1, <1>2, <1>3, <1>6, <1>10 DEF Start
<1>11. CASE Continue(t)
  BY <1>4, <1>6, <1>7, <1>8, <1>11 DEF Continue
<1> QED
  BY <1>9, <1>10, <1>11
-----------------------------------------------------------------------------
\* The invariant that the runs check, conjunct by conjunct.
LEMMA InitIInv == Init => IInv
<1> SUFFICES ASSUME Init PROVE IInv
  OBVIOUS
<1>1. CountInv
  BY InitInv
<1>2. HeapFlags /\ DeallocFramed /\ LiveOwned
  BY DEF Init, HeapFlags, DeallocFramed, LiveOwned
<1>3. PoolExact
  BY FS_EmptySet DEF Init, PoolExact
<1>4. IvarKinds
  BY SlotKinds DEF Init, IvarKinds, NoCall
<1> QED
  BY <1>1, <1>2, <1>3, <1>4 DEF IInv

LEMMA StepIInv == IInv /\ [Next]_vars => IInv'
<1> SUFFICES ASSUME IInv, [Next]_vars PROVE IInv'
  OBVIOUS
<1>1. CountInv /\ CountInv'
  BY StepInv DEF IInv
<1>2. CASE UNCHANGED vars
  <2>1. HeapFlags' /\ PoolExact' /\ IvarKinds'
    BY <1>2 DEF IInv, vars, HeapFlags, PoolExact, IvarKinds, IsKindOf
  <2>2. DeallocFramed' /\ LiveOwned'
    BY <1>2 DEF IInv, vars, DeallocFramed, LiveOwned, InFrame, HasOwner, Depth
  <2> QED
    BY <1>1, <2>1, <2>2 DEF IInv
<1>3. CASE Next
  <2>1. IvarKinds'
    BY <1>1, <1>3, KindsStep DEF IInv
  <2>2. ASSUME Moves, DeallocFramed', UNCHANGED <<heapAllocated, allocated, numUsed, heapUsed>>
        PROVE  HeapFlags' /\ PoolExact' /\ DeallocFramed' /\ LiveOwned'
    <3>1. HeapFlags' /\ PoolExact'
      BY <2>2 DEF IInv, HeapFlags, PoolExact
    <3> QED
      BY <1>1, <2>2, <3>1, MovesLive DEF IInv
  <2>3. ASSUME NEW t \in Threads, NEW v \in Locals, NEW b \in Blocks,
               Alloc(t, v, b) \/ AllocWithHeap(t, v, b)
        PROVE  HeapFlags' /\ PoolExact' /\ DeallocFramed' /\ LiveOwned'
    <3>1. HeapFlags'
      <4>1. /\ allocated' = allocated \cup {b}
            /\ \A c \in Blocks : heapAllocated'[c] <=>
                 IF c = b THEN b \in HeapBlocks ELSE heapAllocated[c]
        BY <1>1, <2>3, FreshMoves
      <4>2. /\ allocated \subseteq Blocks
            /\ \A c \in allocated : heapAllocated[c] <=> c \in HeapBlocks
        BY <1>1 DEF IInv, HeapFlags, CountInv, TypeOK
      <4> QED
        BY <4>1, <4>2, Zenon DEF HeapFlags
    <3> QED
      BY <1>1, <2>3, <3>1, FreshMoves, PoolAlloc DEF IInv
  <2>4. ASSUME NEW t \in Threads, DispatchFree(t)
        PROVE  HeapFlags' /\ PoolExact' /\ DeallocFramed' /\ LiveOwned'
    <3>1. HeapFlags'
      BY <1>1, <2>4, FreeMoves DEF IInv, HeapFlags, DispatchFree
    <3> QED
      BY <1>1, <2>4, <3>1, FreeMoves, PoolFree DEF IInv
  <2>5. HeapFlags' /\ PoolExact' /\ DeallocFramed' /\ LiveOwned'
    BY <1>1, <1>3, <2>2, <2>3, <2>4, StepKinds DEF IInv
  <2> QED
    BY <1>1, <2>1, <2>5 DEF IInv
<1> QED
  BY <1>2, <1>3

\* The inductive invariant holds for every number of threads, variables,
\* classes and blocks.
THEOREM Invariance == Spec => []IInv
<1> QED
  BY InitIInv, StepIInv, PTL DEF Spec

\* The pools' accounts are exact: num_used of a slab and the use of the heap
\* count the blocks that are handed out, and a block returns where it came from.
THEOREM PoolsExact == Spec => []PoolExact
<1>1. IInv => PoolExact
  BY DEF IInv
<1> QED
  BY <1>1, Invariance, PTL
-----------------------------------------------------------------------------
(***************************************************************************)
(* OZObject implements OZOwnership.  status and owns are the values of     *)
(* OZOwnership's variables in a state of OZObject.                         *)
(***************************************************************************)
Status == [b \in Blocks |-> IF b \notin allocated \cup Immortal THEN "free"
                            ELSE IF InFrame(b) THEN "dying" ELSE "live"]
Owns   == [s \in OwnSlots |-> ref[s]]

\* Owning in OZOwnership is having an owner in OZObject.
LEMMA OwnedIsHasOwner ==
  ASSUME NEW b
  PROVE  /\ Ownership!Owned(b, Owns) <=> HasOwner(b)
         /\ Ownership!Owned(b, Owns') <=> HasOwner(b)'
<1>1. Ownership!Owned(b, Owns) <=> HasOwner(b)
  BY DEF Ownership!Owned, Owns, HasOwner
<1>2. Ownership!Owned(b, Owns') <=> HasOwner(b)'
  BY DEF Ownership!Owned, Owns, HasOwner, OwnSlots, SelfSlots
<1> QED
  BY <1>1, <1>2

\* A step that moves references is OZOwnership's Move.
LEMMA MovesRefines ==
  ASSUME CountInv, CountInv', Moves
  PROVE  Ownership!Move
<1>1. Owns' \in [OwnSlots -> Blocks \cup {NULL}]
  BY OwnSlotKinds DEF CountInv, TypeOK, Owns, OwnSlots, SelfSlots
<1>2. ASSUME NEW s \in OwnSlots
      PROVE  Owns'[s] \in {Owns[s], NULL} \cup
               {b \in Blocks : b \in Immortal \/ Ownership!Owned(b, Owns)}
  <2>1. Owns'[s] = ref'[s] /\ Owns[s] = ref[s]
    BY DEF Owns, OwnSlots, SelfSlots
  <2>2. \/ ref'[s] \in {ref[s], NULL}
        \/ ref'[s] \in Blocks /\ (ref'[s] \in Immortal \/ HasOwner(ref'[s]))
    BY DEF Moves
  <2> QED
    BY <2>1, <2>2, OwnedIsHasOwner
<1>3. ASSUME NEW b \in Blocks
      PROVE  Status'[b] = IF /\ b \notin Immortal
                             /\ Ownership!Owned(b, Owns) /\ ~ Ownership!Owned(b, Owns')
                          THEN "dying" ELSE Status[b]
  <2>1. /\ Status[b] = IF b \notin allocated \cup Immortal THEN "free"
                       ELSE IF InFrame(b) THEN "dying" ELSE "live"
        /\ Status'[b] = IF b \notin allocated' \cup Immortal THEN "free"
                        ELSE IF InFrame(b)' THEN "dying" ELSE "live"
    BY DEF Status
  <2>2. /\ allocated' = allocated
        /\ InFrame(b)' <=> \/ InFrame(b)
                           \/ b \notin Immortal /\ HasOwner(b) /\ ~ HasOwner(b)'
    BY DEF Moves
  <2>3. HasOwner(b) => b \in allocated \cup Immortal
    BY OwnedIsLive
  <2> QED
    BY <2>1, <2>2, <2>3, OwnedIsHasOwner
<1>4. Status' = [b \in Blocks |->
                   IF /\ b \notin Immortal
                      /\ Ownership!Owned(b, Owns) /\ ~ Ownership!Owned(b, Owns')
                   THEN "dying" ELSE Status[b]]
  BY <1>3 DEF Status
<1> QED
  BY <1>1, <1>2, <1>4 DEF Ownership!Move, Owns, Status

\* Handing a block out is OZOwnership's Create.
LEMMA FreshRefines ==
  ASSUME CountInv, NEW t \in Threads, NEW v \in Locals, NEW b \in Blocks,
         Alloc(t, v, b) \/ AllocWithHeap(t, v, b)
  PROVE  Ownership!Create(b, <<t, v>>) /\ <<t, v>> \in OwnSlots
<1>1. <<t, v>> \in OwnSlots
  BY OwnSlotKinds
<1>2. /\ b \notin allocated \cup Immortal /\ ~ InFrame(b) /\ ref[<<t, v>>] = NULL
      /\ allocated' = allocated \cup {b}
      /\ ref' = [ref EXCEPT ![<<t, v>>] = b] /\ stack' = stack
  BY FreshMoves
<1>3. Owns[<<t, v>>] = NULL /\ Status[b] = "free"
  BY <1>1, <1>2 DEF Owns, Status
<1>4. Owns' = [Owns EXCEPT ![<<t, v>>] = b]
  BY <1>1, <1>2, OwnSlotKinds DEF Owns, OwnSlots, SelfSlots, CountInv, TypeOK
<1>5. \A c \in Blocks : InFrame(c)' <=> InFrame(c)
  BY <1>2 DEF InFrame, Depth
<1>6. Status' = [Status EXCEPT ![b] = "live"]
  BY <1>2, <1>5 DEF Status
<1> QED
  BY <1>1, <1>3, <1>4, <1>6 DEF Ownership!Create, Owns, Status

\* Taking a block back is OZOwnership's Reclaim.
LEMMA FreeRefines ==
  ASSUME CountInv, NEW t \in Threads, DispatchFree(t)
  PROVE  \E b \in Blocks : Ownership!Reclaim(b)
<1>1. PICK b \in Blocks : b = Top(t).obj
  BY FreeMoves DEF CountInv, TypeOK
<1>2. /\ b \in allocated \ Immortal /\ InFrame(b)
      /\ \A i \in Ivars : ref[<<b, i>>] = NULL
      /\ ref' = ref /\ allocated' = allocated \ {b}
      /\ \A c \in Blocks : c # b => (InFrame(c)' <=> InFrame(c))
  BY <1>1, FreeMoves
<1>3. Status[b] = "dying"
  BY <1>2 DEF Status
<1>4. \A s \in {b} \X Ivars : Owns[s] = NULL
  BY <1>2, OwnSlotKinds DEF Owns
<1>5. Status' = [Status EXCEPT ![b] = "free"]
  BY <1>2 DEF Status
<1>6. Owns' = Owns
  BY <1>2 DEF Owns, OwnSlots, SelfSlots
<1> QED
  BY <1>3, <1>4, <1>5, <1>6 DEF Ownership!Reclaim, Owns, Status

LEMMA InitRefines == Init => Ownership!Init
<1> SUFFICES ASSUME Init PROVE Ownership!Init
  OBVIOUS
<1>1. Owns = [s \in OwnSlots |-> NULL]
  BY OwnSlotKinds DEF Init, Owns
<1>2. \A b \in Blocks : ~ InFrame(b)
  BY DEF Init, InFrame, Depth
<1>3. Status = [b \in Blocks |-> IF b \in Immortal THEN "live" ELSE "free"]
  BY <1>2 DEF Init, Status
<1> QED
  BY <1>1, <1>3 DEF Ownership!Init, Owns, Status

LEMMA StepRefines ==
  IInv /\ IInv' /\ [Next]_vars => [Ownership!Next]_(Ownership!vars)
<1> SUFFICES ASSUME IInv, IInv', [Next]_vars
             PROVE  [Ownership!Next]_(Ownership!vars)
  OBVIOUS
<1>1. CountInv /\ CountInv' /\ DeallocFramed
  BY DEF IInv
<1>2. CASE UNCHANGED vars
  <2>1. UNCHANGED <<Owns, Status>>
    BY <1>2 DEF vars, Owns, Status, InFrame, Depth, OwnSlots, SelfSlots
  <2> QED
    BY <2>1 DEF Ownership!vars, Owns, Status
<1>3. CASE Next
  <2>1. ASSUME Moves PROVE Ownership!Next
    BY <1>1, <2>1, MovesRefines DEF Ownership!Next
  <2>2. ASSUME NEW t \in Threads, NEW v \in Locals, NEW b \in Blocks,
               Alloc(t, v, b) \/ AllocWithHeap(t, v, b)
        PROVE  Ownership!Next
    BY <1>1, <2>2, FreshRefines DEF Ownership!Next
  <2>3. ASSUME NEW t \in Threads, DispatchFree(t) PROVE Ownership!Next
    BY <1>1, <2>3, FreeRefines DEF Ownership!Next
  <2> QED
    BY <1>1, <1>3, <2>1, <2>2, <2>3, StepKinds
<1> QED
  BY <1>2, <1>3

\* The counter, the flag and the chain of dealloc methods keep the promise of
\* reference counting: an object lives exactly as long as a slot owns it, is
\* nobody's from the release of its last owner on, and gives its memory back
\* only once its own ivars own nothing.
THEOREM Refinement == Spec => ImplementsOwnership
<1>1. Init => Ownership!Init
  BY InitRefines
<1>2. IInv /\ IInv' /\ [Next]_vars => [Ownership!Next]_(Ownership!vars)
  BY StepRefines
<1> QED
  BY <1>1, <1>2, Invariance, PTL DEF Spec, ImplementsOwnership, Ownership!Spec

-----------------------------------------------------------------------------
(***************************************************************************)
(* Nothing leaks.  Once the threads are idle and hold nothing, an object   *)
(* that still has its memory is owned by an ivar, of an object that still  *)
(* has its memory too and whose class is ranked lower.  There is no lowest *)
(* such object, hence none at all.                                         *)
(***************************************************************************)
Quiescent == \A t \in Threads : Idle(t) /\ \A b \in Blocks : ~ Holds(t, b)

\* A slot that is not a dealloc body's self belongs to a thread or is an ivar.
LEMMA OwnSlotCases ==
  ASSUME NEW s \in OwnSlots
  PROVE  \/ \E t \in Threads, v \in Locals : s = <<t, v>>
         \/ \E t \in Threads : s \in {<<t, "param">>, <<t, "old">>}
         \/ \E b \in Blocks, i \in Ivars : s = <<b, i>>
  BY DEF OwnSlots, Slots, LocalSlots, TempSlots, IvarSlots, SelfSlots

LEMMA OwnedByIvar ==
  ASSUME IInv, Quiescent, NEW b \in allocated
  PROVE  \E o \in allocated, i \in Ivars : ref[<<o, i>>] = b
<1>1. b \in Blocks /\ allocated \subseteq Blocks
  BY DEF IInv, CountInv, TypeOK
<1>2. ~ InFrame(b)
  BY DEF Quiescent, Idle, InFrame, Depth
<1>3. PICK s \in OwnSlots : ref[s] = b
  BY <1>2 DEF IInv, LiveOwned, HasOwner
<1>4. ASSUME NEW t \in Threads, NEW v \in Locals, s = <<t, v>> PROVE FALSE
  BY <1>1, <1>3, <1>4 DEF Quiescent, Holds
<1>5. ASSUME NEW t \in Threads, s \in {<<t, "param">>, <<t, "old">>} PROVE FALSE
  <2>1. call[t].pc = "none"
    BY DEF Quiescent, Idle, NoCall
  <2>2. ref[<<t, "param">>] = NULL /\ ref[<<t, "old">>] = NULL
    BY <2>1, SetterOf DEF IInv
  <2> QED
    BY <1>1, <1>3, <1>5, <2>2, BlockAssumption
<1>6. PICK o \in Blocks, i \in Ivars : s = <<o, i>>
  BY <1>4, <1>5, OwnSlotCases
<1>7. o \in allocated
  BY <1>1, <1>3, <1>6, BlockAssumption DEF IInv, CountInv, FreeOwnsNothing
<1> QED
  BY <1>3, <1>6, <1>7

\* Under a ranking of the classes there is an owner of lower rank.
LEMMA LowerOwner ==
  ASSUME IInv, Quiescent, NEW rank \in [Classes -> Nat],
         \A c, d \in Classes : \A i \in Ivars :
           /\ \E a \in {c} \cup Ancestors[c] : i \in Declares[a]
           /\ IvarClass[i] \in {d} \cup Ancestors[d]
           => rank[c] < rank[d],
         NEW b \in allocated
  PROVE  \E o \in allocated : rank[ClassOf[o]] < rank[ClassOf[b]]
<1>1. PICK o \in allocated, i \in Ivars : ref[<<o, i>>] = b
  BY OwnedByIvar
<1>2. b \in Blocks /\ o \in Blocks /\ b # NULL
  BY BlockAssumption DEF IInv, CountInv, TypeOK
<1>3. \E a \in {ClassOf[o]} \cup Ancestors[ClassOf[o]] : i \in Declares[a]
  BY <1>1, <1>2 DEF IInv, CountInv, IvarsDeclared, HasIvar
<1>4. IvarClass[i] \in {ClassOf[b]} \cup Ancestors[ClassOf[b]]
  BY <1>1, <1>2 DEF IInv, IvarKinds, IsKindOf
<1>5. ClassOf[o] \in Classes /\ ClassOf[b] \in Classes
  BY <1>2, BlockAssumption
<1> QED
  BY <1>3, <1>4, <1>5

LEMMA NoneLeft ==
  ASSUME ClassesAcyclic, IInv
  PROVE  NoLeakAtQuiescence
<1> SUFFICES ASSUME Quiescent, allocated # {} PROVE FALSE
  BY DEF NoLeakAtQuiescence, Quiescent
<1>1. PICK rank \in [Classes -> Nat] :
        \A c, d \in Classes : \A i \in Ivars :
          /\ \E a \in {c} \cup Ancestors[c] : i \in Declares[a]
          /\ IvarClass[i] \in {d} \cup Ancestors[d]
          => rank[c] < rank[d]
  BY DEF ClassesAcyclic
<1> DEFINE T == {rank[ClassOf[b]] : b \in allocated}
<1>2. T \in SUBSET Nat /\ T # {}
  <2>1. \A b \in allocated : ClassOf[b] \in Classes
    BY BlockAssumption DEF IInv, CountInv, TypeOK
  <2> QED
    BY <2>1
<1> HIDE DEF T
<1>3. PICK n \in T : \A m \in T : n <= m
  BY <1>2, LeastNat
<1>4. PICK b \in allocated : n = rank[ClassOf[b]]
  BY <1>3 DEF T
<1>5. PICK o \in allocated : rank[ClassOf[o]] < rank[ClassOf[b]]
  BY <1>1, LowerOwner
<1>6. rank[ClassOf[o]] \in T
  BY DEF T
<1>7. n <= rank[ClassOf[o]]
  BY <1>3, <1>6
<1>8. n \in Nat /\ rank[ClassOf[o]] \in Nat
  BY <1>2, <1>3, <1>6
<1> QED
  BY <1>4, <1>5, <1>7, <1>8

\* In a program whose ivars form no cycle of classes, every block is back in
\* its pool once the threads are idle and their variables hold nothing.
THEOREM NothingLeaks == ClassesAcyclic => (Spec => []NoLeakAtQuiescence)
<1> SUFFICES ASSUME ClassesAcyclic PROVE Spec => []NoLeakAtQuiescence
  OBVIOUS
<1>1. IInv => NoLeakAtQuiescence
  BY NoneLeft
<1> QED
  BY <1>1, Invariance, PTL
================================================================================

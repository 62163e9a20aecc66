------------------------------ MODULE OZSyncProofs ------------------------------
(***************************************************************************)
(* Proofs about OZSync, for every set of threads and values, every number  *)
(* of CPUs and every size of the slab.                                     *)
(***************************************************************************)
EXTENDS OZSync, OZNaturals, SequenceTheorems

LEMMA WithoutElements ==
  ASSUME NEW S, NEW s \in Seq(S), NEW j \in DOMAIN s,
         \A i \in DOMAIN s : s[i] = s[j] => i = j
  PROVE  /\ Without(s, s[j]) \in Seq(S)
         /\ Len(Without(s, s[j])) = Len(s) - 1
         /\ \A k \in 1 .. Len(s) - 1 :
              Without(s, s[j])[k] = IF k < j THEN s[k] ELSE s[k + 1]
<1>1. (CHOOSE i \in DOMAIN s : s[i] = s[j]) = j
  OBVIOUS
<1>2. Without(s, s[j]) = SubSeq(s, 1, j - 1) \o SubSeq(s, j + 1, Len(s))
  BY <1>1, Zenon DEF Without
<1>3. j \in 1 .. Len(s) /\ Len(s) \in Nat
  OBVIOUS
<1> DEFINE a == SubSeq(s, 1, j - 1)
           b == SubSeq(s, j + 1, Len(s))
<1>4. a \in Seq(S) /\ Len(a) = j - 1 /\ \A k \in 1 .. j - 1 : a[k] = s[k]
  BY <1>3
<1>5. /\ b \in Seq(S) /\ Len(b) = Len(s) - j
      /\ \A k \in 1 .. Len(s) - j : b[k] = s[j + k]
  <2>1. \A i \in j + 1 .. Len(s) : s[i] \in S
    BY <1>3
  <2> QED
    BY <1>3, <2>1, SubSeqProperties
<1>6. Without(s, s[j]) = a \o b
  BY <1>2
<1> HIDE DEF a, b
<1>7. /\ a \o b \in Seq(S) /\ Len(a \o b) = Len(s) - 1
      /\ \A k \in 1 .. Len(s) - 1 :
           (a \o b)[k] = IF k <= j - 1 THEN a[k] ELSE b[k - (j - 1)]
  BY SMTT(60), <1>3, <1>4, <1>5
<1>8. ASSUME NEW k \in 1 .. Len(s) - 1
      PROVE  (a \o b)[k] = IF k < j THEN s[k] ELSE s[k + 1]
  <2>1. CASE k < j
    BY <1>3, <1>4, <1>7, <2>1
  <2>2. CASE k >= j
    <3>1. k - (j - 1) \in 1 .. Len(s) - j /\ j + (k - (j - 1)) = k + 1 /\ ~ k <= j - 1
      BY <1>3, <2>2
    <3>2. b[k - (j - 1)] = s[j + (k - (j - 1))]
      BY <1>5, <3>1
    <3>3. (a \o b)[k] = b[k - (j - 1)]
      BY <1>7, <3>1
    <3>4. b[k - (j - 1)] = s[k + 1]
      BY <3>1, <3>2
    <3>5. ~ k < j
      BY <1>3, <2>2
    <3> QED
      BY <3>3, <3>4, <3>5
  <2>3. k < j \/ k >= j
    BY <1>3
  <2> QED
    BY <2>1, <2>2, <2>3
<1> QED
  BY <1>6, <1>7, <1>8

LEMMA Kernel ==
  ASSUME TypeOK
  PROVE  cpus \in Nat \ {0} /\ slab \in Nat \ {0}
  BY SyncAssumption DEF TypeOK

LEMMA ThreadKinds ==
  ASSUME TypeOK, NEW t \in Threads
  PROVE  /\ th[t] \in ThreadStates
         /\ th[t].pc \in PCs
         /\ th[t].stack \in Seq(1 .. slab) /\ th[t].leaving \in Seq(1 .. slab)
         /\ th[t].calls \in Nat /\ th[t].key \in BOOLEAN
         /\ th[t].new \in Values \cup {None} /\ th[t].old \in Values \cup {None}
         /\ th[t].got \in Values \cup {None}
<1>1. th[t] \in ThreadStates
  BY DEF TypeOK
<1> QED
  BY <1>1 DEF ThreadStates

\* The lock at the top of a stack and the one being left exist.
LEMMA LocksNamed ==
  ASSUME TypeOK, NEW t \in Threads
  PROVE  /\ th[t].stack # <<>> => /\ Len(th[t].stack) \in DOMAIN th[t].stack
                                  /\ Top(t) \in 1 .. slab
         /\ th[t].leaving # <<>> => /\ 1 \in DOMAIN th[t].leaving
                                    /\ Head(th[t].leaving) = th[t].leaving[1]
                                    /\ Head(th[t].leaving) \in 1 .. slab
<1> DEFINE L == 1 .. slab
<1>1. th[t].stack \in Seq(L) /\ th[t].leaving \in Seq(L)
  BY ThreadKinds
<1> HIDE DEF L
<1>2. \A s \in Seq(L) : s # <<>> =>
        /\ Len(s) \in DOMAIN s /\ s[Len(s)] \in L
        /\ 1 \in DOMAIN s /\ Head(s) = s[1] /\ s[1] \in L
  OBVIOUS
<1> QED
  BY <1>1, <1>2 DEF Top, L

LEMMA StackNames ==
  ASSUME TypeOK
  PROVE  \A t \in Threads : /\ \A i \in DOMAIN th[t].stack : th[t].stack[i] \in 1 .. slab
                            /\ \A i \in DOMAIN th[t].leaving : th[t].leaving[i] \in 1 .. slab
<1> DEFINE L == 1 .. slab
<1>1. ASSUME NEW t \in Threads
      PROVE  th[t].stack \in Seq(L) /\ th[t].leaving \in Seq(L)
  BY ThreadKinds
<1> HIDE DEF L
<1>2. \A s \in Seq(L) : \A i \in DOMAIN s : s[i] \in L
  OBVIOUS
<1> QED
  BY <1>1, <1>2 DEF L

\* Updating one thread, or one lock, leaves the others alone.
LEMMA ThreadUpdate ==
  ASSUME TypeOK, NEW t \in Threads, NEW r \in ThreadStates, th' = [th EXCEPT ![t] = r]
  PROVE  /\ th' \in [Threads -> ThreadStates] /\ th'[t] = r
         /\ \A u \in Threads : u # t => th'[u] = th[u]
<1> DEFINE S == ThreadStates
<1>1. th \in [Threads -> S] /\ r \in S
  BY DEF TypeOK
<1> HIDE DEF S
<1>2. th' \in [Threads -> S] /\ th'[t] = r /\ \A u \in Threads : u # t => th'[u] = th[u]
  BY <1>1
<1> QED
  BY <1>2 DEF S

LEMMA LockUpdate ==
  ASSUME TypeOK, NEW l \in 1 .. slab, NEW r \in Locks, lock' = [lock EXCEPT ![l] = r]
  PROVE  /\ lock' \in [1 .. slab -> Locks] /\ lock'[l] = r
         /\ \A m \in 1 .. slab : m # l => lock'[m] = lock[m]
<1> DEFINE S == Locks
           D == 1 .. slab
<1>1. lock \in [D -> S] /\ r \in S /\ l \in D
  BY DEF TypeOK
<1> HIDE DEF S, D
<1>2. lock' \in [D -> S] /\ lock'[l] = r /\ \A m \in D : m # l => lock'[m] = lock[m]
  BY <1>1
<1> QED
  BY <1>2 DEF S, D

\* The types of the variables do not depend on what changes.
LEMMA TypeKept ==
  ASSUME TypeOK, UNCHANGED kernel, objRefs' \in Nat,
         masked' \in [1 .. cpus -> BOOLEAN], isr' \in [1 .. cpus -> BOOLEAN],
         lock' \in [1 .. slab -> Locks], th' \in [Threads -> ThreadStates],
         holder' \in Threads \cup {None}, ivar' \in Values \cup {None},
         refs' \in [Values -> Nat],
         timer' \in [run : BOOLEAN, memory : {"live", "dying", "freed"}]
  PROVE  TypeOK'
<1>1. cpus' = cpus /\ slab' = slab /\ on' = on
  BY DEF kernel
<1>2. ThreadStates' = ThreadStates
  BY <1>1 DEF ThreadStates
<1> QED
  BY <1>1, <1>2 DEF TypeOK

\* What a step of thread t leaves alone.
OthersSame(t) == \A u \in Threads : u # t => th'[u] = th[u]
SameBlocks(t) == th'[t].stack = th[t].stack /\ th'[t].leaving = th[t].leaving
SameAccess(t) == /\ th'[t].key = th[t].key /\ th'[t].new = th[t].new
                 /\ th'[t].old = th[t].old /\ th'[t].got = th[t].got

\* The change of a thread's pc alone.
LEMMA GoUpdate ==
  ASSUME TypeOK, NEW t \in Threads, NEW pc \in PCs, Go(t, pc)
  PROVE  /\ th' \in [Threads -> ThreadStates]
         /\ th'[t].pc = pc /\ SameBlocks(t) /\ SameAccess(t) /\ OthersSame(t)
<1>1. th[t] \in ThreadStates
  BY DEF TypeOK
<1> DEFINE r == [th[t] EXCEPT !.pc = pc]
<1>2. r \in ThreadStates
  BY <1>1 DEF ThreadStates
<1>3. th' = [th EXCEPT ![t] = r]
  BY DEF Go
<1>4. /\ r.pc = pc /\ r.stack = th[t].stack /\ r.leaving = th[t].leaving
      /\ r.key = th[t].key /\ r.new = th[t].new /\ r.old = th[t].old /\ r.got = th[t].got
  BY <1>1 DEF ThreadStates
<1> HIDE DEF r
<1> QED
  BY <1>2, <1>3, <1>4, ThreadUpdate DEF SameBlocks, SameAccess, OthersSame

\* Where an allocation finds its block: the slab's free block of least index.
LEMMA FirstFree ==
  ASSUME TypeOK, FreeLocks # {}
  PROVE  (CHOOSE x \in FreeLocks : \A y \in FreeLocks : x <= y) \in FreeLocks
<1>1. FreeLocks \in SUBSET Nat
  BY Kernel DEF FreeLocks
<1>2. \E x \in FreeLocks : \A y \in FreeLocks : x <= y
  BY <1>1, LeastNat
<1> QED
  BY <1>2

\* A new lock on thread t's stack.
AllocFresh(t, l) ==
  /\ lock' = [lock EXCEPT ![l].state = "fresh"]
  /\ th' = [th EXCEPT ![t].pc = "retain", ![t].stack = Append(@, l),
                      ![t].calls = @ + 1]

LEMMA AllocCases ==
  ASSUME TypeOK, NEW t \in Threads, NEW c \in 1 .. cpus, SyncAlloc(t, c)
  PROVE  /\ th[t].pc \in {"idle", "body"} /\ Len(th[t].stack) < MaxDepth
         /\ on[c] = t /\ ~ isr[c]
         /\ UNCHANGED <<kernel, masked, isr, objRefs, prop, timer>>
         /\ \/ FreeLocks = {} /\ Go(t, "crashed") /\ lock' = lock
            \/ \E l \in FreeLocks : AllocFresh(t, l)
<1>1. CASE FreeLocks = {}
  BY <1>1 DEF SyncAlloc, Calls, At
<1>2. CASE FreeLocks # {}
  <2>1. PICK l \in FreeLocks :
          l = CHOOSE x \in FreeLocks : \A y \in FreeLocks : x <= y
    BY <1>2, FirstFree
  <2>2. AllocFresh(t, l)
    BY <1>2, <2>1 DEF SyncAlloc, AllocFresh
  <2> QED
    BY <1>2, <2>1, <2>2 DEF SyncAlloc, Calls, At
<1> QED
  BY <1>1, <1>2

LEMMA AllocUpdate ==
  ASSUME TypeOK, NEW t \in Threads, NEW l \in FreeLocks, AllocFresh(t, l)
  PROVE  /\ th' \in [Threads -> ThreadStates]
         /\ th'[t].pc = "retain" /\ th'[t].stack = Append(th[t].stack, l)
         /\ th'[t].leaving = th[t].leaving /\ SameAccess(t) /\ OthersSame(t)
         /\ lock' \in [1 .. slab -> Locks]
         /\ lock'[l] = [lock[l] EXCEPT !.state = "fresh"]
         /\ \A m \in 1 .. slab : m # l => lock'[m] = lock[m]
<1>1. th[t] \in ThreadStates /\ l \in 1 .. slab /\ "retain" \in PCs /\ lock[l] \in Locks
  BY DEF TypeOK, FreeLocks, PCs
<1> DEFINE r == [th[t] EXCEPT !.pc = "retain", !.stack = Append(@, l), !.calls = @ + 1]
           q == [lock[l] EXCEPT !.state = "fresh"]
<1>2. r \in ThreadStates
  <2> DEFINE D == 1 .. slab
  <2>1. th[t].stack \in Seq(D) /\ l \in D /\ th[t].calls \in Nat
    BY <1>1 DEF ThreadStates
  <2> HIDE DEF D
  <2>2. Append(th[t].stack, l) \in Seq(D) /\ th[t].calls + 1 \in Nat
    BY <2>1
  <2>3. Append(th[t].stack, l) \in Seq(1 .. slab)
    BY <2>2 DEF D
  <2> HIDE DEF r
  <2>4. r = [th[t] EXCEPT !.pc = "retain", !.stack = Append(th[t].stack, l),
                          !.calls = th[t].calls + 1]
    BY <1>1 DEF r, ThreadStates
  <2> QED
    BY <1>1, <2>2, <2>3, <2>4 DEF ThreadStates
<1>3. th' = [th EXCEPT ![t] = r]
  BY DEF AllocFresh
<1>4. q \in Locks
  BY <1>1 DEF Locks
<1>5. lock' = [lock EXCEPT ![l] = q]
  BY DEF AllocFresh
<1>6. /\ r.pc = "retain" /\ r.stack = Append(th[t].stack, l)
      /\ r.leaving = th[t].leaving
      /\ r.key = th[t].key /\ r.new = th[t].new /\ r.old = th[t].old /\ r.got = th[t].got
  BY <1>1 DEF ThreadStates
<1> HIDE DEF r, q
<1>7. /\ th' \in [Threads -> ThreadStates] /\ th'[t] = r
      /\ \A u \in Threads : u # t => th'[u] = th[u]
  BY <1>2, <1>3, ThreadUpdate
<1>8. /\ lock' \in [1 .. slab -> Locks] /\ lock'[l] = q
      /\ \A m \in 1 .. slab : m # l => lock'[m] = lock[m]
  BY <1>1, <1>4, <1>5, LockUpdate
<1> QED
  BY <1>6, <1>7, <1>8 DEF q, SameAccess, OthersSame

(***************************************************************************)
(* @synchronized: the stacks, the slab and the object's references         *)
(***************************************************************************)
\* Another thread's blocks are as they were if their locks are.
LEMMA OtherBlocks ==
  ASSUME NEW u \in Threads, th'[u] = th[u], InBlocks(u),
         \A i \in DOMAIN th[u].stack :
           lock'[th[u].stack[i]] = lock[th[u].stack[i]]
  PROVE  InBlocks(u)'
  BY DEF InBlocks, LockState

Special == {"retain", "lock", "unlock", "give", "free"}

\* Steps that have nothing to do with blocks.
LEMMA QuietBlocks ==
  ASSUME BlockInv, TypeOK', UNCHANGED block, slab' = slab,
         NEW t \in Threads, OthersSame(t), SameBlocks(t),
         th[t].pc \notin Special, th'[t].pc \notin Special,
         th'[t].pc \in {"idle", "delete"} => th[t].stack = <<>>,
         th'[t].pc = "body" => th[t].stack # <<>>
  PROVE  BlockInv'
<1>1. lock' = lock /\ objRefs' = objRefs
  BY DEF block
<1>2. \A u \in Threads : th'[u].stack = th[u].stack
  BY DEF OthersSame, SameBlocks
<1>3. StacksApart'
  BY <1>1, <1>2 DEF BlockInv, StacksApart
<1>4. ASSUME NEW u \in Threads, u # t PROVE InBlocks(u)'
  BY <1>1, <1>4, OtherBlocks DEF BlockInv, StackShape, OthersSame
<1>5. InBlocks(t)'
  <2>1. InBlocks(t)
    BY DEF BlockInv, StackShape
  <2> QED
    BY <1>1, <2>1 DEF InBlocks, LockState, SameBlocks, Special
<1>6. ObjRefsExact'
  BY <1>1 DEF BlockInv, ObjRefsExact
<1> QED
  BY <1>3, <1>4, <1>5, <1>6 DEF BlockInv, StackShape

\* Steps of thread t that change a lock which stays on its stack.
LEMMA OneLock ==
  ASSUME BlockInv, slab' = slab, NEW t \in Threads, OthersSame(t),
         th'[t].stack = th[t].stack,
         NEW j \in DOMAIN th[t].stack, NEW l \in 1 .. slab, l = th[t].stack[j],
         \A m \in 1 .. slab : m # l => lock'[m] = lock[m],
         lock'[l].state # "free"
  PROVE  /\ StacksApart'
         /\ \A u \in Threads : u # t => InBlocks(u)'
         /\ \A i \in DOMAIN th[t].stack : i # j =>
              th[t].stack[i] # l /\ lock'[th[t].stack[i]] = lock[th[t].stack[i]]
<1>1. \A u \in Threads : th'[u].stack = th[u].stack
  BY DEF OthersSame
<1>2. \A u \in Threads : \A i \in DOMAIN th[u].stack : th[u].stack[i] \in 1 .. slab
  BY StackNames DEF BlockInv
<1>3. \A u \in Threads : \A i \in DOMAIN th[u].stack :
        /\ th[u].stack[i] \in 1 .. slab
        /\ th[u].stack[i] = l => u = t /\ i = j
  <2>1. ASSUME NEW u \in Threads, NEW i \in DOMAIN th[u].stack,
               th[u].stack[i] = th[t].stack[j]
        PROVE  u = t /\ i = j
    BY <2>1 DEF BlockInv, StacksApart
  <2> QED
    BY <1>2, <2>1
<1>4. StacksApart'
  <2>1. ASSUME NEW m \in 1 .. slab
        PROVE  IF \E u \in Threads : \E i \in DOMAIN th[u].stack : th[u].stack[i] = m
               THEN lock'[m].state # "free" ELSE lock'[m] = Free
    BY <2>1 DEF BlockInv, StacksApart
  <2> QED
    BY <1>1, <2>1 DEF BlockInv, StacksApart
<1>5. ASSUME NEW u \in Threads, u # t PROVE InBlocks(u)'
  BY <1>3, <1>5, OtherBlocks DEF BlockInv, StackShape, OthersSame
<1>6. \A i \in DOMAIN th[t].stack : i # j =>
        th[t].stack[i] # l /\ lock'[th[t].stack[i]] = lock[th[t].stack[i]]
  BY <1>3
<1> QED
  BY <1>4, <1>5, <1>6

\* The locks that retain their object.
Retaining == {l \in 1 .. slab : lock[l].retains}

LEMMA RetainingFinite ==
  ASSUME TypeOK
  PROVE  IsFiniteSet(Retaining) /\ Cardinality(Retaining) \in Nat
<1>1. IsFiniteSet(1 .. slab) /\ Retaining \subseteq 1 .. slab
  BY Kernel, FS_Interval DEF Retaining
<1> QED
  BY <1>1, FS_Subset, FS_CardinalityType

\* A step that changes only what one lock retains counts that lock.
LEMMA RetainChanges ==
  ASSUME BlockInv, slab' = slab, NEW l \in 1 .. slab,
         \A m \in 1 .. slab : m # l => lock'[m] = lock[m]
  PROVE  /\ lock[l].retains /\ lock'[l].retains /\ objRefs' = objRefs => ObjRefsExact'
         /\ ~ lock[l].retains /\ ~ lock'[l].retains /\ objRefs' = objRefs => ObjRefsExact'
         /\ ~ lock[l].retains /\ lock'[l].retains /\ objRefs' = objRefs + 1 => ObjRefsExact'
         /\ lock[l].retains /\ ~ lock'[l].retains /\ objRefs' = objRefs - 1
            => ObjRefsExact' /\ objRefs' \in Nat
<1>1. IsFiniteSet(Retaining) /\ Cardinality(Retaining) \in Nat
  BY RetainingFinite DEF BlockInv
<1>2. objRefs = 1 + Cardinality(Retaining)
  BY DEF BlockInv, ObjRefsExact, Retaining
<1>3. Retaining' = {m \in 1 .. slab : lock'[m].retains}
  BY DEF Retaining
<1>4. objRefs' = 1 + Cardinality(Retaining') => ObjRefsExact'
  BY DEF ObjRefsExact, Retaining
<1>5. CASE lock[l].retains <=> lock'[l].retains
  <2>1. Retaining' = Retaining
    BY <1>3, <1>5 DEF Retaining
  <2> QED
    BY <1>2, <1>4, <1>5, <2>1
<1>6. CASE ~ lock[l].retains /\ lock'[l].retains
  <2>1. Retaining' = Retaining \cup {l} /\ l \notin Retaining
    BY <1>3, <1>6 DEF Retaining
  <2>2. Cardinality(Retaining') = Cardinality(Retaining) + 1
    BY <1>1, <2>1, FS_AddElement
  <2> QED
    BY <1>1, <1>2, <1>4, <1>6, <2>2
<1>7. CASE lock[l].retains /\ ~ lock'[l].retains
  <2>1. Retaining' = Retaining \ {l} /\ l \in Retaining
    BY <1>3, <1>7 DEF Retaining
  <2>2. Cardinality(Retaining') = Cardinality(Retaining) - 1
    BY <1>1, <2>1, FS_RemoveElement
  <2>3. Cardinality(Retaining) # 0
    BY <1>1, <2>1, FS_EmptySet
  <2> QED
    BY <1>1, <1>2, <1>4, <1>7, <2>2, <2>3
<1> QED
  BY <1>5, <1>6, <1>7

\* The lock being entered, or left, and what the thread's place says of it.
LEMMA TopLock ==
  ASSUME BlockInv, NEW t \in Threads, th[t].pc \in {"retain", "lock"}
  PROVE  /\ Len(th[t].stack) \in DOMAIN th[t].stack /\ Top(t) \in 1 .. slab
         /\ Top(t) = th[t].stack[Len(th[t].stack)]
         /\ lock[Top(t)] \in Locks /\ lock[Top(t)].state = "fresh"
         /\ lock[Top(t)].retains <=> th[t].pc = "lock"
<1>1. InBlocks(t) /\ TypeOK
  BY DEF BlockInv, StackShape
<1>2. th[t].stack # <<>>
  BY <1>1 DEF InBlocks
<1>3. /\ Len(th[t].stack) \in DOMAIN th[t].stack /\ Top(t) \in 1 .. slab
      /\ Top(t) = th[t].stack[Len(th[t].stack)]
  BY <1>1, <1>2, LocksNamed DEF Top
<1>4. LockState(t, Len(th[t].stack))
  BY <1>1, <1>3 DEF InBlocks
<1>5. th[t].leaving = <<>>
  BY <1>1 DEF InBlocks
<1>6. lock[Top(t)] \in Locks
  BY <1>1, <1>3 DEF TypeOK
<1> QED
  BY <1>3, <1>4, <1>5, <1>6 DEF LockState

LEMMA LeavingLock ==
  ASSUME BlockInv, NEW t \in Threads, th[t].pc \in {"unlock", "give", "free"}
  PROVE  \E j \in DOMAIN th[t].stack :
           /\ Head(th[t].leaving) = th[t].stack[j]
           /\ Head(th[t].leaving) \in 1 .. slab /\ lock[Head(th[t].leaving)] \in Locks
           /\ lock[Head(th[t].leaving)].state =
                IF th[t].pc = "unlock" THEN "held" ELSE "unlocked"
           /\ lock[Head(th[t].leaving)].retains <=> th[t].pc # "free"
<1>1. InBlocks(t) /\ TypeOK
  BY DEF BlockInv, StackShape
<1>2. th[t].leaving # <<>>
  BY <1>1 DEF InBlocks
<1>3. /\ 1 \in DOMAIN th[t].leaving /\ Head(th[t].leaving) = th[t].leaving[1]
      /\ Head(th[t].leaving) \in 1 .. slab
  BY <1>1, <1>2, LocksNamed
<1>4. PICK j \in DOMAIN th[t].stack : Head(th[t].leaving) = th[t].stack[j]
  BY <1>1, <1>3 DEF InBlocks
<1>5. LockState(t, j)
  BY <1>1 DEF InBlocks
<1>6. lock[Head(th[t].leaving)] \in Locks
  BY <1>1, <1>3 DEF TypeOK
<1> QED
  BY <1>2, <1>3, <1>4, <1>5, <1>6 DEF LockState

\* A step of thread t to pc that makes q of lock l, at place j of its stack.
LockMove(t, pc, j, l, q) ==
  /\ pc \in PCs /\ Go(t, pc)
  /\ j \in DOMAIN th[t].stack /\ l \in 1 .. slab /\ l = th[t].stack[j]
  /\ q \in Locks /\ q.state # "free" /\ lock' = [lock EXCEPT ![l] = q]
  /\ UNCHANGED kernel /\ UNCHANGED <<isr, prop, timer>>
  /\ masked' \in [1 .. cpus -> BOOLEAN] /\ objRefs' \in Nat

LockMoved(t, pc, j, l, q) ==
  /\ TypeOK' /\ StacksApart' /\ slab' = slab
  /\ th'[t].pc = pc /\ SameBlocks(t) /\ SameAccess(t) /\ OthersSame(t)
  /\ lock'[l] = q /\ \A m \in 1 .. slab : m # l => lock'[m] = lock[m]
  /\ \A u \in Threads : u # t => InBlocks(u)'
  /\ \A i \in DOMAIN th[t].stack : i # j =>
       th[t].stack[i] # l /\ lock'[th[t].stack[i]] = lock[th[t].stack[i]]

LEMMA LockStep ==
  ASSUME BlockInv, NEW t \in Threads, NEW pc, NEW j, NEW l, NEW q,
         LockMove(t, pc, j, l, q)
  PROVE  LockMoved(t, pc, j, l, q)
<1>1. TypeOK /\ slab' = slab
  BY DEF BlockInv, kernel, LockMove
<1>2. /\ th' \in [Threads -> ThreadStates]
      /\ th'[t].pc = pc /\ SameBlocks(t) /\ SameAccess(t) /\ OthersSame(t)
  BY <1>1, GoUpdate DEF LockMove
<1>3. /\ lock' \in [1 .. slab -> Locks] /\ lock'[l] = q
      /\ \A m \in 1 .. slab : m # l => lock'[m] = lock[m]
  BY <1>1, LockUpdate DEF LockMove
<1>4. TypeOK'
  <2>1. UNCHANGED <<holder, ivar, refs, isr, timer>>
    BY DEF prop, LockMove
  <2> QED
    BY <1>1, <1>2, <1>3, <2>1, TypeKept DEF TypeOK, LockMove
<1>5. /\ StacksApart'
      /\ \A u \in Threads : u # t => InBlocks(u)'
      /\ \A i \in DOMAIN th[t].stack : i # j =>
           th[t].stack[i] # l /\ lock'[th[t].stack[i]] = lock[th[t].stack[i]]
  BY <1>1, <1>2, <1>3, OneLock DEF SameBlocks, LockMove
<1> QED
  BY <1>1, <1>2, <1>3, <1>4, <1>5 DEF LockMoved

\* The steps of @synchronized, one by one.
LEMMA RetainKeeps ==
  ASSUME BlockInv, NEW t \in Threads, NEW c \in 1 .. cpus, SyncRetain(t, c)
  PROVE  BlockInv'
<1>1. /\ th[t].pc = "retain" /\ objRefs' = objRefs + 1 /\ Go(t, "lock")
      /\ lock' = [lock EXCEPT ![Top(t)].retains = TRUE]
      /\ UNCHANGED <<kernel, masked, isr, prop, timer>>
  BY DEF SyncRetain, At
<1>2. PICK j \in DOMAIN th[t].stack, l \in 1 .. slab :
        /\ j = Len(th[t].stack) /\ l = Top(t) /\ l = th[t].stack[j]
        /\ lock[l] \in Locks /\ lock[l].state = "fresh" /\ ~ lock[l].retains
  BY <1>1, TopLock
<1>3. TypeOK /\ InBlocks(t) /\ "lock" \in PCs
  BY DEF BlockInv, StackShape, PCs
<1> DEFINE q == [lock[l] EXCEPT !.retains = TRUE]
<1>4. q \in Locks /\ q.state = "fresh" /\ q.retains
  BY <1>2 DEF Locks
<1>5. lock' = [lock EXCEPT ![l] = q]
  BY <1>1, <1>2
<1> HIDE DEF q
<1>6. masked' \in [1 .. cpus -> BOOLEAN] /\ objRefs' \in Nat
  BY <1>1, <1>3 DEF TypeOK
<1>7. LockMoved(t, "lock", j, l, q)
  <2>1. LockMove(t, "lock", j, l, q)
    BY <1>1, <1>2, <1>3, <1>4, <1>5, <1>6 DEF LockMove
  <2> QED
    BY <2>1, LockStep
<1>8. InBlocks(t)'
  <2>1. ASSUME NEW i \in DOMAIN th[t].stack PROVE LockState(t, i)'
    <3>1. LockState(t, i) /\ th[t].leaving = <<>>
      BY <1>1, <1>3 DEF InBlocks
    <3> QED
      BY <1>1, <1>2, <1>4, <1>7, <3>1 DEF LockState, SameBlocks, LockMoved
  <2> QED
    BY <1>1, <1>3, <1>7, <2>1 DEF InBlocks, SameBlocks, LockMoved
<1>9. ObjRefsExact'
  BY <1>1, <1>2, <1>4, <1>7, RetainChanges DEF LockMoved
<1> QED
  BY <1>7, <1>8, <1>9 DEF BlockInv, StackShape, LockMoved

LEMMA LockKeeps ==
  ASSUME BlockInv, NEW t \in Threads, NEW c \in 1 .. cpus, SyncLock(t, c)
  PROVE  BlockInv'
<1>1. /\ th[t].pc = "lock" /\ Go(t, "body")
      /\ lock' = [lock EXCEPT ![Top(t)].state = "held", ![Top(t)].key = masked[c]]
      /\ UNCHANGED <<kernel, isr, objRefs, prop, timer>>
      /\ masked' = [masked EXCEPT ![c] = TRUE]
  BY DEF SyncLock, At, Mask
<1>2. PICK j \in DOMAIN th[t].stack, l \in 1 .. slab :
        /\ j = Len(th[t].stack) /\ l = Top(t) /\ l = th[t].stack[j]
        /\ lock[l] \in Locks /\ lock[l].state = "fresh" /\ lock[l].retains
  BY <1>1, TopLock
<1>3. TypeOK /\ InBlocks(t) /\ "body" \in PCs
  BY DEF BlockInv, StackShape, PCs
<1> DEFINE q == [lock[l] EXCEPT !.state = "held", !.key = masked[c]]
<1>4. q \in Locks /\ q.state = "held" /\ q.retains
  BY <1>2, <1>3 DEF Locks, TypeOK
<1>5. lock' = [lock EXCEPT ![l] = q]
  BY <1>1, <1>2, <1>3 DEF TypeOK
<1> HIDE DEF q
<1>6. masked' \in [1 .. cpus -> BOOLEAN] /\ objRefs' \in Nat
  BY <1>1, <1>3 DEF TypeOK
<1>7. LockMoved(t, "body", j, l, q)
  <2>1. LockMove(t, "body", j, l, q)
    BY <1>1, <1>2, <1>3, <1>4, <1>5, <1>6 DEF LockMove
  <2> QED
    BY <2>1, LockStep
<1>8. InBlocks(t)'
  <2>1. ASSUME NEW i \in DOMAIN th[t].stack PROVE LockState(t, i)'
    <3>1. LockState(t, i) /\ th[t].leaving = <<>>
      BY <1>1, <1>3 DEF InBlocks
    <3>2. /\ th'[t].pc = "body" /\ th'[t].stack = th[t].stack
          /\ th'[t].leaving = th[t].leaving /\ lock'[l] = q
          /\ i # j => th[t].stack[i] # l /\ lock'[th[t].stack[i]] = lock[th[t].stack[i]]
      BY <1>7 DEF LockMoved, SameBlocks
    <3>3. CASE i = j
      BY <1>1, <1>2, <1>4, <3>1, <3>2, <3>3 DEF LockState
    <3>4. CASE i # j
      BY <1>1, <1>2, <3>1, <3>2, <3>4 DEF LockState
    <3> QED
      BY <3>3, <3>4
  <2>2. th[t].stack # <<>>
    BY <1>1, <1>3 DEF InBlocks
  <2> QED
    BY <1>1, <1>3, <1>7, <2>1, <2>2 DEF InBlocks, SameBlocks, LockMoved
<1>9. ObjRefsExact'
  BY <1>1, <1>2, <1>4, <1>7, RetainChanges DEF LockMoved
<1> QED
  BY <1>7, <1>8, <1>9 DEF BlockInv, StackShape, LockMoved

LEMMA UnlockKeeps ==
  ASSUME BlockInv, NEW t \in Threads, NEW c \in 1 .. cpus, SyncUnlock(t, c)
  PROVE  BlockInv'
<1>1. /\ th[t].pc = "unlock" /\ Go(t, "give")
      /\ lock' = [lock EXCEPT ![Head(th[t].leaving)].state = "unlocked"]
      /\ UNCHANGED <<kernel, isr, objRefs, prop, timer>>
      /\ masked' = [masked EXCEPT ![c] = lock[Head(th[t].leaving)].key]
  BY DEF SyncUnlock, At, Mask
<1>2. PICK j \in DOMAIN th[t].stack, l \in 1 .. slab :
        /\ l = Head(th[t].leaving) /\ l = th[t].stack[j]
        /\ lock[l] \in Locks /\ lock[l].state = "held" /\ lock[l].retains
  BY <1>1, LeavingLock
<1>3. TypeOK /\ InBlocks(t) /\ "give" \in PCs
  BY DEF BlockInv, StackShape, PCs
<1> DEFINE q == [lock[l] EXCEPT !.state = "unlocked"]
<1>4. q \in Locks /\ q.state = "unlocked" /\ q.retains
  BY <1>2 DEF Locks
<1>5. lock' = [lock EXCEPT ![l] = q]
  BY <1>1, <1>2
<1> HIDE DEF q
<1>6. masked' \in [1 .. cpus -> BOOLEAN] /\ objRefs' \in Nat
  BY <1>1, <1>2, <1>3 DEF TypeOK, Locks
<1>7. LockMoved(t, "give", j, l, q)
  <2>1. LockMove(t, "give", j, l, q)
    BY <1>1, <1>2, <1>3, <1>4, <1>5, <1>6 DEF LockMove
  <2> QED
    BY <2>1, LockStep
<1>8. InBlocks(t)'
  <2>1. ASSUME NEW i \in DOMAIN th[t].stack PROVE LockState(t, i)'
    <3>1. LockState(t, i) /\ th[t].leaving # <<>>
      BY <1>1, <1>3 DEF InBlocks
    <3>2. /\ th'[t].pc = "give" /\ th'[t].stack = th[t].stack
          /\ th'[t].leaving = th[t].leaving /\ lock'[l] = q
          /\ i # j => th[t].stack[i] # l /\ lock'[th[t].stack[i]] = lock[th[t].stack[i]]
      BY <1>7 DEF LockMoved, SameBlocks
    <3>3. CASE i = j
      BY <1>1, <1>2, <1>4, <3>1, <3>2, <3>3 DEF LockState
    <3>4. CASE i # j
      BY <1>1, <1>2, <3>1, <3>2, <3>4 DEF LockState
    <3> QED
      BY <3>3, <3>4
  <2> QED
    BY <1>1, <1>3, <1>7, <2>1 DEF InBlocks, SameBlocks, LockMoved
<1>9. ObjRefsExact'
  BY <1>1, <1>2, <1>4, <1>7, RetainChanges DEF LockMoved
<1> QED
  BY <1>7, <1>8, <1>9 DEF BlockInv, StackShape, LockMoved

LEMMA GiveKeeps ==
  ASSUME BlockInv, NEW t \in Threads, NEW c \in 1 .. cpus, SyncGive(t, c)
  PROVE  BlockInv'
<1>1. /\ th[t].pc = "give" /\ Go(t, "free") /\ objRefs' = objRefs - 1
      /\ lock' = [lock EXCEPT ![Head(th[t].leaving)].retains = FALSE]
      /\ UNCHANGED <<kernel, masked, isr, prop, timer>>
  BY DEF SyncGive, At
<1>2. PICK j \in DOMAIN th[t].stack, l \in 1 .. slab :
        /\ l = Head(th[t].leaving) /\ l = th[t].stack[j]
        /\ lock[l] \in Locks /\ lock[l].state = "unlocked" /\ lock[l].retains
  BY <1>1, LeavingLock
<1>3. TypeOK /\ InBlocks(t) /\ slab' = slab /\ "free" \in PCs
  BY <1>1 DEF BlockInv, StackShape, kernel, PCs
<1> DEFINE q == [lock[l] EXCEPT !.retains = FALSE]
<1>4. q \in Locks /\ q.state = "unlocked" /\ ~ q.retains
  BY <1>2 DEF Locks
<1>5. lock' = [lock EXCEPT ![l] = q]
  BY <1>1, <1>2
<1> HIDE DEF q
<1>6. lock'[l] = q /\ \A m \in 1 .. slab : m # l => lock'[m] = lock[m]
  BY <1>3, <1>4, <1>5, LockUpdate
<1>7. ObjRefsExact' /\ objRefs' \in Nat
  BY <1>1, <1>2, <1>3, <1>4, <1>6, RetainChanges DEF LockMoved
<1>8. masked' \in [1 .. cpus -> BOOLEAN]
  BY <1>1, <1>3 DEF TypeOK
<1>9. LockMoved(t, "free", j, l, q)
  <2>1. LockMove(t, "free", j, l, q)
    BY <1>1, <1>2, <1>3, <1>4, <1>5, <1>7, <1>8 DEF LockMove
  <2> QED
    BY <2>1, LockStep
<1>10. InBlocks(t)'
  <2>1. ASSUME NEW i \in DOMAIN th[t].stack PROVE LockState(t, i)'
    <3>1. LockState(t, i) /\ th[t].leaving # <<>>
      BY <1>1, <1>3 DEF InBlocks
    <3> QED
      BY <1>1, <1>2, <1>4, <1>6, <1>9, <3>1 DEF LockState, SameBlocks, LockMoved
  <2> QED
    BY <1>1, <1>3, <1>9, <2>1 DEF InBlocks, SameBlocks, LockMoved
<1> QED
  BY <1>7, <1>9, <1>10 DEF BlockInv, StackShape, LockMoved

LEMMA LeaveKeeps ==
  ASSUME BlockInv, NEW t \in Threads, NEW c \in 1 .. cpus,
         SyncEnd(t, c) \/ SyncReturn(t, c)
  PROVE  /\ BlockInv' /\ OthersSame(t) /\ SameAccess(t)
         /\ th'[t].pc = "unlock" /\ th'[t].stack = th[t].stack
         /\ \/ th'[t].leaving = <<Top(t)>>
            \/ /\ th'[t].leaving = th[t].stack
               /\ "single return" \in Rules => Len(th[t].stack) = 1
<1>1. th[t].pc = "body" /\ UNCHANGED <<kernel, masked, isr, block, prop, timer>>
  BY DEF SyncEnd, SyncReturn, Leave, At
<1>2. TypeOK /\ InBlocks(t)
  BY DEF BlockInv, StackShape
<1>3. PICK locks : /\ locks \in {<<Top(t)>>, th[t].stack}
                   /\ \/ locks = <<Top(t)>>
                      \/ "single return" \in Rules => Len(th[t].stack) = 1
                   /\ th' = [th EXCEPT ![t].pc = "unlock", ![t].leaving = locks]
  BY DEF SyncEnd, SyncReturn, Leave
<1>4. /\ th[t].stack # <<>> /\ Len(th[t].stack) \in DOMAIN th[t].stack
      /\ Top(t) \in 1 .. slab /\ Top(t) = th[t].stack[Len(th[t].stack)]
  BY <1>1, <1>2, LocksNamed DEF InBlocks, Top
<1>5. /\ locks \in Seq(1 .. slab) /\ locks # <<>>
      /\ \A i \in DOMAIN locks : \E k \in DOMAIN th[t].stack : locks[i] = th[t].stack[k]
      /\ \A i, k \in DOMAIN locks : locks[i] = locks[k] => i = k
  <2>1. CASE locks = <<Top(t)>>
    BY <1>4, <2>1
  <2>2. CASE locks = th[t].stack
    BY <1>2, <1>4, <2>2, ThreadKinds DEF BlockInv, StacksApart
  <2> QED
    BY <1>3, <2>1, <2>2
<1> DEFINE r == [th[t] EXCEPT !.pc = "unlock", !.leaving = locks]
<1>6. r \in ThreadStates
  <2>1. "unlock" \in PCs /\ th[t] \in ThreadStates
    BY <1>2 DEF TypeOK, PCs
  <2> QED
    BY <1>5, <2>1 DEF ThreadStates
<1>7. th' = [th EXCEPT ![t] = r]
  BY <1>3
<1>8. /\ r.pc = "unlock" /\ r.stack = th[t].stack /\ r.leaving = locks
      /\ r.key = th[t].key /\ r.new = th[t].new /\ r.old = th[t].old /\ r.got = th[t].got
  BY <1>2 DEF TypeOK, ThreadStates
<1> HIDE DEF r
<1>9. /\ th' \in [Threads -> ThreadStates] /\ th'[t] = r
      /\ \A u \in Threads : u # t => th'[u] = th[u]
  BY <1>2, <1>6, <1>7, ThreadUpdate
<1>10. /\ lock' = lock /\ objRefs' = objRefs /\ slab' = slab
       /\ UNCHANGED <<kernel, masked, isr, holder, ivar, refs, timer>>
  BY <1>1 DEF block, kernel, prop
<1>11. TypeOK'
  BY <1>2, <1>9, <1>10, TypeKept DEF TypeOK
<1>12. StacksApart'
  <2>1. \A u \in Threads : th'[u].stack = th[u].stack
    BY <1>8, <1>9
  <2> QED
    BY <1>10, <2>1 DEF BlockInv, StacksApart
<1>13. ASSUME NEW u \in Threads, u # t PROVE InBlocks(u)'
  BY <1>9, <1>10, <1>13, OtherBlocks DEF BlockInv, StackShape
<1>14. InBlocks(t)'
  BY <1>1, <1>2, <1>5, <1>8, <1>9, <1>10 DEF InBlocks, LockState
<1>15. ObjRefsExact'
  BY <1>10 DEF BlockInv, ObjRefsExact
<1>16. BlockInv'
  BY <1>11, <1>12, <1>13, <1>14, <1>15 DEF BlockInv, StackShape
<1> QED
  BY <1>3, <1>8, <1>9, <1>16 DEF OthersSame, SameAccess

LEMMA AllocKeeps ==
  ASSUME BlockInv, NEW t \in Threads, NEW c \in 1 .. cpus, SyncAlloc(t, c)
  PROVE  BlockInv'
<1>1. TypeOK /\ InBlocks(t)
  BY DEF BlockInv, StackShape
<1>2. /\ th[t].pc \in {"idle", "body"} /\ Len(th[t].stack) < MaxDepth
      /\ objRefs' = objRefs /\ slab' = slab /\ UNCHANGED kernel
      /\ UNCHANGED <<masked, isr, holder, ivar, refs, timer>>
  BY <1>1, AllocCases DEF kernel, prop
<1>3. CASE FreeLocks = {} /\ Go(t, "crashed") /\ lock' = lock
  <2>1. "crashed" \in PCs
    BY DEF PCs
  <2>2. /\ th' \in [Threads -> ThreadStates]
        /\ th'[t].pc = "crashed" /\ SameBlocks(t) /\ OthersSame(t)
    BY <1>1, <1>3, <2>1, GoUpdate
  <2>3. TypeOK'
    BY <1>1, <1>2, <1>3, <2>2, TypeKept DEF TypeOK
  <2> QED
    BY <1>2, <1>3, <2>2, <2>3, QuietBlocks DEF Special, block
<1>4. CASE \E l \in FreeLocks : AllocFresh(t, l)
  <2>1. PICK l \in FreeLocks : AllocFresh(t, l)
    BY <1>4
  <2>2. /\ th' \in [Threads -> ThreadStates] /\ OthersSame(t)
        /\ th'[t].pc = "retain" /\ th'[t].stack = Append(th[t].stack, l)
        /\ th'[t].leaving = th[t].leaving
        /\ lock' \in [1 .. slab -> Locks]
        /\ lock'[l] = [lock[l] EXCEPT !.state = "fresh"]
        /\ \A m \in 1 .. slab : m # l => lock'[m] = lock[m]
    BY <1>1, <2>1, AllocUpdate
  <2>3. TypeOK'
    BY <1>1, <1>2, <2>2, TypeKept DEF TypeOK
  <2>4. l \in 1 .. slab /\ lock[l] = Free
    <3>1. l \in 1 .. slab /\ lock[l].state = "free"
      BY DEF FreeLocks
    <3> QED
      BY <3>1 DEF BlockInv, StacksApart
  <2>5. lock'[l].state = "fresh" /\ ~ lock'[l].retains /\ ~ lock[l].retains
    BY <2>2, <2>4 DEF Free
  <2>a. PICK n \in Nat : n = Len(th[t].stack)
    BY <1>1, ThreadKinds
  <2>6. /\ n \in Nat /\ DOMAIN th[t].stack = 1 .. n
        /\ Len(th'[t].stack) = n + 1 /\ th'[t].stack # <<>>
        /\ DOMAIN th'[t].stack = 1 .. n + 1
        /\ th'[t].stack[n + 1] = l
        /\ \A i \in 1 .. n : th'[t].stack[i] = th[t].stack[i]
    <3> DEFINE D == 1 .. slab
    <3>1. th[t].stack \in Seq(D) /\ l \in D
      BY <1>1, <2>4, ThreadKinds
    <3> HIDE DEF D
    <3>2. \A s \in Seq(D) :
            /\ Len(s) \in Nat /\ DOMAIN s = 1 .. Len(s)
            /\ Len(Append(s, l)) = Len(s) + 1 /\ Append(s, l) # <<>>
            /\ DOMAIN Append(s, l) = 1 .. Len(s) + 1
            /\ Append(s, l)[Len(s) + 1] = l
            /\ \A i \in 1 .. Len(s) : Append(s, l)[i] = s[i]
      BY <3>1
    <3> QED
      BY <2>2, <2>a, <3>1, <3>2
  <2>7. \A u \in Threads : \A i \in DOMAIN th[u].stack : th[u].stack[i] # l
    BY <2>4 DEF BlockInv, StacksApart, Free
  <2>8. StacksApart'
    <3>1. ASSUME NEW u \in Threads, NEW i \in DOMAIN th'[u].stack
          PROVE  \/ u = t /\ i = n + 1 /\ th'[u].stack[i] = l
                 \/ /\ i \in DOMAIN th[u].stack /\ th'[u].stack[i] = th[u].stack[i]
                    /\ u = t => i # n + 1
      <4>1. CASE u = t
        <5>1. i \in 1 .. n + 1
          BY <2>6, <3>1, <4>1
        <5>2. i = n + 1 \/ (i \in 1 .. n /\ i # n + 1)
          <6>1. n \in Nat
            BY <2>6
          <6> QED
            BY <5>1, <6>1
        <5> QED
          BY <2>6, <4>1, <5>2
      <4>2. CASE u # t
        BY <2>2, <3>1, <4>2 DEF OthersSame
      <4> QED
        BY <4>1, <4>2
    <3>2. ASSUME NEW u \in Threads, NEW w \in Threads,
                 NEW i \in DOMAIN th'[u].stack, NEW k \in DOMAIN th'[w].stack,
                 th'[u].stack[i] = th'[w].stack[k]
          PROVE  u = w /\ i = k
      BY <2>7, <3>1, <3>2 DEF BlockInv, StacksApart
    <3>3. ASSUME NEW m \in 1 .. slab
          PROVE  IF \E u \in Threads : \E i \in DOMAIN th'[u].stack : th'[u].stack[i] = m
                 THEN lock'[m].state # "free" ELSE lock'[m] = Free
      <4>1. CASE m = l
        BY <2>5, <2>6, <4>1
      <4>2. CASE m # l
        <5>1. (\E u \in Threads : \E i \in DOMAIN th'[u].stack : th'[u].stack[i] = m)
              <=> (\E u \in Threads : \E i \in DOMAIN th[u].stack : th[u].stack[i] = m)
          <6>1. ASSUME NEW u \in Threads, NEW i \in DOMAIN th[u].stack
                PROVE  i \in DOMAIN th'[u].stack /\ th'[u].stack[i] = th[u].stack[i]
            <7>1. CASE u = t
              BY <2>6, <6>1, <7>1
            <7>2. CASE u # t
              BY <2>2, <6>1, <7>2 DEF OthersSame
            <7> QED
              BY <7>1, <7>2
          <6> QED
            BY <3>1, <4>2, <6>1
        <5> QED
          BY <2>2, <4>2, <5>1 DEF BlockInv, StacksApart
      <4> QED
        BY <4>1, <4>2
    <3> QED
      BY <1>2, <3>2, <3>3 DEF StacksApart
  <2>9. ASSUME NEW u \in Threads, u # t PROVE InBlocks(u)'
    <3>1. \A i \in DOMAIN th[u].stack : lock'[th[u].stack[i]] = lock[th[u].stack[i]]
      BY <1>1, <2>2, <2>7, StackNames
    <3> QED
      BY <2>2, <2>9, <3>1, OtherBlocks DEF BlockInv, StackShape, OthersSame
  <2>10. InBlocks(t)'
    <3>1. th[t].leaving = <<>>
      BY <1>1, <1>2 DEF InBlocks
    <3>2. ASSUME NEW i \in 1 .. n PROVE LockState(t, i)'
      <4>1. LockState(t, i) /\ lock'[th[t].stack[i]] = lock[th[t].stack[i]] /\ i # n + 1
        BY <1>1, <2>2, <2>6, <2>7, StackNames DEF InBlocks
      <4> QED
        BY <1>2, <2>2, <2>6, <3>1, <4>1 DEF LockState
    <3>3. LockState(t, n + 1)'
      <4>1. /\ th'[t].pc = "retain" /\ th'[t].leaving = <<>>
            /\ Len(th'[t].stack) = n + 1 /\ th'[t].stack[n + 1] = l
        BY <2>2, <2>6, <3>1
      <4> QED
        BY <2>5, <4>1 DEF LockState
    <3>4. n + 1 <= MaxDepth
      BY <1>2, <2>a, SyncAssumption
    <3>5. \A i \in DOMAIN th'[t].stack : LockState(t, i)'
      <4>1. n \in Nat /\ DOMAIN th'[t].stack = 1 .. n + 1
        BY <2>6
      <4>2. \A i \in 1 .. n + 1 : i \in 1 .. n \/ i = n + 1
        BY <4>1
      <4> QED
        BY <3>2, <3>3, <4>1, <4>2
    <3>6. Len(th'[t].stack) <= MaxDepth /\ th'[t].stack # <<>>
      BY <2>6, <3>4
    <3> QED
      BY <2>2, <3>1, <3>5, <3>6 DEF InBlocks
  <2>11. ObjRefsExact'
    BY <1>2, <2>2, <2>4, <2>5, RetainChanges
  <2> QED
    BY <2>3, <2>8, <2>9, <2>10, <2>11 DEF BlockInv, StackShape
<1> QED
  BY <1>1, <1>3, <1>4, AllocCases

\* What remains of a stack that loses the lock at place j.
LEMMA Remaining ==
  ASSUME NEW S, NEW s \in Seq(S), NEW j \in DOMAIN s,
         \A i, k \in DOMAIN s : s[i] = s[k] => i = k,
         NEW r, r = Without(s, s[j])
  PROVE  /\ r \in Seq(S) /\ Len(r) + 1 = Len(s)
         /\ \A k \in DOMAIN r : \E i \in DOMAIN s : i # j /\ r[k] = s[i]
         /\ \A i \in DOMAIN s : i # j => \E k \in DOMAIN r : r[k] = s[i]
         /\ \A i, k \in DOMAIN r : r[i] = r[k] => i = k
<1>1. /\ r \in Seq(S) /\ Len(r) = Len(s) - 1
      /\ \A k \in 1 .. Len(s) - 1 : r[k] = IF k < j THEN s[k] ELSE s[k + 1]
  BY WithoutElements
<1>2. PICK n \in Nat : n = Len(s)
  OBVIOUS
<1>3. DOMAIN s = 1 .. n /\ j \in 1 .. n /\ n \in Nat /\ Len(r) = n - 1
  BY <1>1, <1>2
<1>4. DOMAIN r = 1 .. n - 1
  BY <1>1, <1>3
<1>5. ASSUME NEW k \in 1 .. n - 1
      PROVE  \E i \in 1 .. n : i # j /\ r[k] = s[i] /\ i = IF k < j THEN k ELSE k + 1
  <2>1. CASE k < j
    BY <1>1, <1>2, <1>3, <2>1
  <2>2. CASE ~ k < j
    <3>1. k + 1 \in 1 .. n /\ k + 1 # j
      BY <1>3, <2>2
    <3>2. r[k] = s[k + 1]
      BY <1>1, <1>2, <2>2
    <3> QED
      BY <2>2, <3>1, <3>2
  <2> QED
    BY <2>1, <2>2
<1>6. ASSUME NEW i \in 1 .. n, i # j PROVE \E k \in 1 .. n - 1 : r[k] = s[i]
  <2>1. CASE i < j
    <3>1. i \in 1 .. n - 1
      BY <1>3, <2>1
    <3> QED
      BY <1>1, <1>2, <2>1, <3>1
  <2>2. CASE i > j
    <3>1. i - 1 \in 1 .. n - 1 /\ ~ (i - 1 < j) /\ (i - 1) + 1 = i
      BY <1>3, <2>2
    <3>2. r[i - 1] = s[i]
      BY <1>1, <1>2, <3>1
    <3> QED
      BY <3>1, <3>2
  <2>3. i < j \/ i > j
    BY <1>3, <1>6
  <2> QED
    BY <2>1, <2>2, <2>3
<1>7. ASSUME NEW i \in 1 .. n - 1, NEW k \in 1 .. n - 1, r[i] = r[k] PROVE i = k
  <2>1. PICK x \in 1 .. n : x # j /\ r[i] = s[x] /\ x = IF i < j THEN i ELSE i + 1
    BY <1>5
  <2>2. PICK y \in 1 .. n : y # j /\ r[k] = s[y] /\ y = IF k < j THEN k ELSE k + 1
    BY <1>5
  <2>3. x = y
    BY <1>3, <1>7, <2>1, <2>2
  <2> QED
    BY <1>3, <2>1, <2>2, <2>3
<1>8. r \in Seq(S) /\ Len(r) + 1 = Len(s)
  BY <1>1, <1>2
<1>9. \A k \in DOMAIN r : \E i \in DOMAIN s : i # j /\ r[k] = s[i]
  BY <1>3, <1>4, <1>5
<1>10. \A i \in DOMAIN s : i # j => \E k \in DOMAIN r : r[k] = s[i]
  BY <1>3, <1>4, <1>6
<1>11. \A i, k \in DOMAIN r : r[i] = r[k] => i = k
  BY <1>4, <1>7
<1> QED
  BY <1>8, <1>9, <1>10, <1>11

\* What is left of the locks that a thread is leaving.
LEMMA Rest ==
  ASSUME NEW S, NEW s \in Seq(S), s # <<>>,
         \A i, k \in DOMAIN s : s[i] = s[k] => i = k
  PROVE  /\ Tail(s) \in Seq(S)
         /\ \A k \in DOMAIN Tail(s) : \E i \in DOMAIN s : Tail(s)[k] = s[i] /\ s[i] # Head(s)
         /\ \A i, k \in DOMAIN Tail(s) : Tail(s)[i] = Tail(s)[k] => i = k
<1>1. PICK n \in Nat : n = Len(s) /\ DOMAIN s = 1 .. n /\ n >= 1
  OBVIOUS
<1>2. /\ Tail(s) \in Seq(S) /\ Head(s) = s[1] /\ DOMAIN Tail(s) = 1 .. n - 1
      /\ \A k \in 1 .. n - 1 : Tail(s)[k] = s[k + 1]
  BY <1>1
<1>3. \A k \in 1 .. n - 1 : k + 1 \in 1 .. n /\ k + 1 # 1
  BY <1>1
<1>4. 1 \in 1 .. n
  BY <1>1
<1>5. ASSUME NEW k \in 1 .. n - 1
      PROVE  Tail(s)[k] = s[k + 1] /\ s[k + 1] # Head(s)
  BY <1>1, <1>2, <1>3, <1>4
<1>6. ASSUME NEW i \in 1 .. n - 1, NEW k \in 1 .. n - 1, Tail(s)[i] = Tail(s)[k]
      PROVE  i = k
  <2>1. i + 1 = k + 1
    BY <1>1, <1>2, <1>3, <1>6
  <2> QED
    BY <2>1
<1> QED
  BY <1>1, <1>2, <1>3, <1>5, <1>6

LEMMA FreeKeeps ==
  ASSUME BlockInv, NEW t \in Threads, NEW c \in 1 .. cpus, SyncFree(t, c)
  PROVE  /\ BlockInv' /\ OthersSame(t) /\ SameAccess(t)
         /\ th'[t].pc \in {"unlock", "body", "idle"}
         /\ th'[t].stack = Without(th[t].stack, Head(th[t].leaving))
         /\ th'[t].leaving = Tail(th[t].leaving)
         /\ \A m \in 1 .. slab : m # Head(th[t].leaving) => lock'[m] = lock[m]
<1>1. TypeOK /\ InBlocks(t) /\ th[t].pc = "free" /\ objRefs' = objRefs
      /\ UNCHANGED kernel /\ slab' = slab
      /\ UNCHANGED <<masked, isr, holder, ivar, refs, timer>>
  BY DEF BlockInv, StackShape, SyncFree, At, kernel, prop
<1>2. PICK j \in DOMAIN th[t].stack, l \in 1 .. slab :
        /\ l = Head(th[t].leaving) /\ l = th[t].stack[j]
        /\ lock[l] \in Locks /\ ~ lock[l].retains
  BY <1>1, LeavingLock
<1>a. PICK rest : rest = Tail(th[t].leaving)
  OBVIOUS
<1>b. PICK stk : stk = Without(th[t].stack, Head(th[t].leaving))
  OBVIOUS
<1>3. /\ stk = Without(th[t].stack, th[t].stack[j])
      /\ lock' = [lock EXCEPT ![l] = Free]
      /\ th' = [th EXCEPT ![t].leaving = rest, ![t].stack = stk,
           ![t].calls = IF stk = <<>> THEN 0 ELSE @,
           ![t].pc = IF rest # <<>> THEN "unlock"
                     ELSE IF stk # <<>> THEN "body" ELSE "idle"]
  BY <1>2, <1>a, <1>b DEF SyncFree
<1>4. \A i, k \in DOMAIN th[t].stack : th[t].stack[i] = th[t].stack[k] => i = k
  BY DEF BlockInv, StacksApart
<1>5. /\ stk \in Seq(1 .. slab) /\ Len(stk) + 1 = Len(th[t].stack)
      /\ \A k \in DOMAIN stk : \E i \in DOMAIN th[t].stack :
           i # j /\ stk[k] = th[t].stack[i]
      /\ \A i \in DOMAIN th[t].stack : i # j =>
           \E k \in DOMAIN stk : stk[k] = th[t].stack[i]
      /\ \A i, k \in DOMAIN stk : stk[i] = stk[k] => i = k
  <2>1. PICK D : D = 1 .. slab
    OBVIOUS
  <2>2. PICK s \in Seq(D) : s = th[t].stack
    BY <1>1, <2>1, ThreadKinds
  <2>3. /\ j \in DOMAIN s /\ stk = Without(s, s[j])
        /\ \A i, k \in DOMAIN s : s[i] = s[k] => i = k
    BY <1>3, <1>4, <2>2
  <2>4. /\ stk \in Seq(D) /\ Len(stk) + 1 = Len(s)
        /\ \A k \in DOMAIN stk : \E i \in DOMAIN s : i # j /\ stk[k] = s[i]
        /\ \A i \in DOMAIN s : i # j => \E k \in DOMAIN stk : stk[k] = s[i]
        /\ \A i, k \in DOMAIN stk : stk[i] = stk[k] => i = k
    BY <2>3, Remaining
  <2> QED
    BY <2>1, <2>2, <2>4
<1>6. /\ rest \in Seq(1 .. slab)
      /\ \A k \in DOMAIN rest : \E i \in DOMAIN th[t].leaving :
           rest[k] = th[t].leaving[i] /\ rest[k] # l
      /\ \A i, k \in DOMAIN rest : rest[i] = rest[k] => i = k
  <2>1. /\ th[t].leaving \in Seq(1 .. slab) /\ th[t].leaving # <<>>
        /\ \A i, k \in DOMAIN th[t].leaving :
             th[t].leaving[i] = th[t].leaving[k] => i = k
    BY <1>1, ThreadKinds DEF InBlocks
  <2>2. /\ Tail(th[t].leaving) \in Seq(1 .. slab)
        /\ \A k \in DOMAIN Tail(th[t].leaving) : \E i \in DOMAIN th[t].leaving :
             /\ Tail(th[t].leaving)[k] = th[t].leaving[i]
             /\ th[t].leaving[i] # Head(th[t].leaving)
        /\ \A i, k \in DOMAIN Tail(th[t].leaving) :
             Tail(th[t].leaving)[i] = Tail(th[t].leaving)[k] => i = k
    BY <2>1, Rest
  <2> QED
    BY <1>2, <1>a, <2>2
<1>7. PICK pc \in PCs : pc = IF rest # <<>> THEN "unlock"
                             ELSE IF stk # <<>> THEN "body" ELSE "idle"
  BY DEF PCs
<1>8. /\ th' \in [Threads -> ThreadStates]
      /\ th'[t].pc = pc /\ th'[t].stack = stk /\ th'[t].leaving = rest
      /\ SameAccess(t) /\ OthersSame(t)
  <2>1. PICK n \in Nat : n = IF stk = <<>> THEN 0 ELSE th[t].calls
    BY <1>1, ThreadKinds
  <2> DEFINE r == [th[t] EXCEPT !.leaving = rest, !.stack = stk, !.calls = n, !.pc = pc]
  <2>2. th[t] \in ThreadStates
    BY <1>1 DEF TypeOK
  <2>3. r \in ThreadStates
    BY <1>5, <1>6, <2>2 DEF ThreadStates
  <2>4. th' = [th EXCEPT ![t] = r]
    BY <1>1, <1>3, <1>7, <2>1 DEF TypeOK
  <2>5. /\ r.pc = pc /\ r.stack = stk /\ r.leaving = rest
        /\ r.key = th[t].key /\ r.new = th[t].new /\ r.old = th[t].old /\ r.got = th[t].got
    BY <2>2 DEF ThreadStates
  <2> HIDE DEF r
  <2> QED
    BY <1>1, <2>3, <2>4, <2>5, ThreadUpdate DEF SameAccess, OthersSame
<1>9. /\ lock' \in [1 .. slab -> Locks] /\ lock'[l] = Free
      /\ \A m \in 1 .. slab : m # l => lock'[m] = lock[m]
  <2>1. Free \in Locks
    BY DEF Free, Locks
  <2> QED
    BY <1>1, <1>3, <2>1, LockUpdate
<1>10. TypeOK'
  BY <1>1, <1>8, <1>9, TypeKept DEF TypeOK
<1>11. \A u \in Threads : \A i \in DOMAIN th[u].stack :
         /\ th[u].stack[i] \in 1 .. slab
         /\ th[u].stack[i] = l => u = t /\ i = j
  <2>1. ASSUME NEW u \in Threads, NEW i \in DOMAIN th[u].stack,
               th[u].stack[i] = th[t].stack[j]
        PROVE  u = t /\ i = j
    BY <2>1 DEF BlockInv, StacksApart
  <2> QED
    BY <1>1, <1>2, <2>1, StackNames

\* Where a place of a stack was before.
<1>12. ASSUME NEW u \in Threads, NEW k \in DOMAIN th'[u].stack
       PROVE  \E i \in DOMAIN th[u].stack :
                th'[u].stack[k] = th[u].stack[i] /\ th[u].stack[i] # l
  <2>1. CASE u = t
    BY <1>5, <1>8, <1>11, <2>1
  <2>2. CASE u # t
    BY <1>8, <1>11, <1>12, <2>2 DEF OthersSame
  <2> QED
    BY <2>1, <2>2
<1>13. ASSUME NEW u \in Threads, NEW i \in DOMAIN th[u].stack, th[u].stack[i] # l
       PROVE  \E k \in DOMAIN th'[u].stack : th'[u].stack[k] = th[u].stack[i]
  <2>1. CASE u = t
    BY <1>2, <1>5, <1>8, <1>13, <2>1
  <2>2. CASE u # t
    BY <1>8, <1>13, <2>2 DEF OthersSame
  <2> QED
    BY <2>1, <2>2
<1>14. StacksApart'
  <2>1. ASSUME NEW u \in Threads, NEW w \in Threads,
               NEW i \in DOMAIN th'[u].stack, NEW k \in DOMAIN th'[w].stack,
               th'[u].stack[i] = th'[w].stack[k]
        PROVE  u = w /\ i = k
    <3>1. u = w
      BY <1>12, <2>1 DEF BlockInv, StacksApart
    <3>2. CASE u = t
      BY <1>5, <1>8, <2>1, <3>1, <3>2
    <3>3. CASE u # t
      <4>1. th'[u] = th[u]
        BY <1>8, <3>3 DEF OthersSame
      <4> QED
        BY <2>1, <3>1, <4>1 DEF BlockInv, StacksApart
    <3> QED
      BY <3>1, <3>2, <3>3
  <2>2. ASSUME NEW m \in 1 .. slab
        PROVE  IF \E u \in Threads : \E i \in DOMAIN th'[u].stack : th'[u].stack[i] = m
               THEN lock'[m].state # "free" ELSE lock'[m] = Free
    <3>1. CASE m = l
      BY <1>9, <1>12, <3>1
    <3>2. CASE m # l
      <4>1. (\E u \in Threads : \E i \in DOMAIN th'[u].stack : th'[u].stack[i] = m)
            <=> (\E u \in Threads : \E i \in DOMAIN th[u].stack : th[u].stack[i] = m)
        BY <1>12, <1>13, <3>2
      <4> QED
        BY <1>9, <3>2, <4>1 DEF BlockInv, StacksApart
    <3> QED
      BY <3>1, <3>2
  <2> QED
    BY <1>1, <2>1, <2>2 DEF StacksApart
<1>15. ASSUME NEW u \in Threads, u # t PROVE InBlocks(u)'
  <2>1. \A i \in DOMAIN th[u].stack : lock'[th[u].stack[i]] = lock[th[u].stack[i]]
    BY <1>9, <1>11, <1>15
  <2> QED
    BY <1>8, <1>15, <2>1, OtherBlocks DEF BlockInv, StackShape, OthersSame
<1>16. InBlocks(t)'
  <2>1. ASSUME NEW k \in DOMAIN stk PROVE LockState(t, k)'
    <3>1. PICK i \in DOMAIN th[t].stack :
            stk[k] = th[t].stack[i] /\ th[t].stack[i] # l /\ th[t].stack[i] \in 1 .. slab
      BY <1>8, <1>11, <1>12
    <3>2. LockState(t, i) /\ lock'[stk[k]] = lock[th[t].stack[i]]
      BY <1>1, <1>9, <3>1 DEF InBlocks
    <3>3. lock'[stk[k]].state = "held" /\ lock'[stk[k]].retains
      BY <1>1, <1>2, <3>1, <3>2 DEF LockState
    <3> QED
      BY <1>7, <1>8, <3>3 DEF LockState
  <2>2. ASSUME NEW k \in DOMAIN rest PROVE \E i \in DOMAIN stk : rest[k] = stk[i]
    <3>1. PICK i \in DOMAIN th[t].leaving : rest[k] = th[t].leaving[i] /\ rest[k] # l
      BY <1>6
    <3>2. PICK m \in DOMAIN th[t].stack : rest[k] = th[t].stack[m]
      BY <1>1, <3>1 DEF InBlocks
    <3> QED
      BY <1>2, <1>5, <3>1, <3>2
  <2>3. Len(stk) <= MaxDepth
    <3>1. Len(th[t].stack) <= MaxDepth /\ Len(stk) \in Nat
      BY <1>1, <1>5 DEF InBlocks
    <3> QED
      BY <1>5, <3>1, SyncAssumption
  <2>4. rest # <<>> => stk # <<>>
    BY <1>6, <2>2
  <2> QED
    BY <1>6, <1>7, <1>8, <2>1, <2>2, <2>3, <2>4 DEF InBlocks
<1>17. ObjRefsExact'
  BY <1>1, <1>2, <1>9, RetainChanges DEF Free
<1>18. BlockInv'
  BY <1>10, <1>14, <1>15, <1>16, <1>17 DEF BlockInv, StackShape
<1> QED
  BY <1>2, <1>a, <1>b, <1>7, <1>8, <1>9, <1>18

(***************************************************************************)
(* The accessors: what each step makes of its thread                       *)
(***************************************************************************)
Accessed(t, pc, key, new, old, got) ==
  /\ th' \in [Threads -> ThreadStates]
  /\ SameBlocks(t) /\ OthersSame(t)
  /\ th'[t].pc = pc /\ th'[t].key = key
  /\ th'[t].new = new /\ th'[t].old = old /\ th'[t].got = got

Puts(t, r) == th' = [th EXCEPT ![t] = r]

LEMMA PutsAccessed ==
  ASSUME TypeOK, NEW t \in Threads, NEW r \in ThreadStates, Puts(t, r),
         r.stack = th[t].stack, r.leaving = th[t].leaving
  PROVE  Accessed(t, r.pc, r.key, r.new, r.old, r.got)
<1>1. /\ th' \in [Threads -> ThreadStates] /\ th'[t] = r
      /\ \A u \in Threads : u # t => th'[u] = th[u]
  BY ThreadUpdate DEF Puts
<1> QED
  BY <1>1 DEF Accessed, SameBlocks, OthersSame

LEMMA GoAccessed ==
  ASSUME TypeOK, NEW t \in Threads, NEW pc \in PCs, Go(t, pc)
  PROVE  Accessed(t, pc, th[t].key, th[t].new, th[t].old, th[t].got)
  BY GoUpdate DEF Accessed, SameAccess

\* Where a thread is when its accessor is done.
LEMMA BackCases ==
  ASSUME NEW t \in Threads
  PROVE  /\ Back(t) \in PCs /\ Back(t) \notin Special /\ Back(t) \in {"idle", "body"}
         /\ Back(t) = "idle" => th[t].stack = <<>>
         /\ Back(t) = "body" => th[t].stack # <<>>
  BY DEF Back, PCs, Special

LEMMA SetEffect ==
  ASSUME TypeOK, NEW t \in Threads, NEW c \in 1 .. cpus, Set(t, c)
  PROVE  \E v \in Values :
           /\ Unused(v) /\ refs' = [refs EXCEPT ![v] = 1]
           /\ Accessed(t, "set", th[t].key, v, th[t].old, th[t].got)
<1>1. PICK v \in Values :
        /\ Unused(v) /\ refs' = [refs EXCEPT ![v] = 1]
        /\ th' = [th EXCEPT ![t].pc = "set", ![t].new = v, ![t].calls = @ + 1]
  BY DEF Set
<1>2. th[t] \in ThreadStates /\ "set" \in PCs
  BY DEF TypeOK, PCs
<1>n. PICK n \in Nat : n = th[t].calls + 1
  BY ThreadKinds
<1> DEFINE r == [th[t] EXCEPT !.pc = "set", !.new = v, !.calls = n]
<1>3. r \in ThreadStates
  BY <1>2 DEF ThreadStates
<1>4. Puts(t, r)
  BY <1>1, <1>n DEF Puts
<1>5. /\ r.pc = "set" /\ r.stack = th[t].stack /\ r.leaving = th[t].leaving
      /\ r.key = th[t].key /\ r.new = v /\ r.old = th[t].old /\ r.got = th[t].got
  BY <1>2 DEF ThreadStates
<1> HIDE DEF r
<1>6. Accessed(t, r.pc, r.key, r.new, r.old, r.got)
  BY <1>3, <1>4, <1>5, PutsAccessed
<1> QED
  BY <1>1, <1>5, <1>6

LEMMA GetEffect ==
  ASSUME TypeOK, NEW t \in Threads, NEW c \in 1 .. cpus, Get(t, c)
  PROVE  Accessed(t, "mask", th[t].key, th[t].new, th[t].old, th[t].got)
<1>1. th[t] \in ThreadStates /\ "mask" \in PCs
  BY DEF TypeOK, PCs
<1>n. PICK n \in Nat : n = th[t].calls + 1
  BY ThreadKinds
<1> DEFINE r == [th[t] EXCEPT !.pc = "mask", !.calls = n]
<1>2. r \in ThreadStates
  BY <1>1 DEF ThreadStates
<1>3. Puts(t, r)
  BY <1>n DEF Puts, Get
<1>4. /\ r.pc = "mask" /\ r.stack = th[t].stack /\ r.leaving = th[t].leaving
      /\ r.key = th[t].key /\ r.new = th[t].new /\ r.old = th[t].old /\ r.got = th[t].got
  BY <1>1 DEF ThreadStates
<1> HIDE DEF r
<1>5. Accessed(t, r.pc, r.key, r.new, r.old, r.got)
  BY <1>2, <1>3, <1>4, PutsAccessed
<1> QED
  BY <1>4, <1>5

LEMMA PropMaskEffect ==
  ASSUME TypeOK, NEW t \in Threads, NEW c \in 1 .. cpus, PropMask(t, c)
  PROVE  Accessed(t, "spin", masked[c], th[t].new, th[t].old, th[t].got)
<1>1. th[t] \in ThreadStates /\ "spin" \in PCs /\ masked[c] \in BOOLEAN
  BY DEF TypeOK, PCs
<1> DEFINE r == [th[t] EXCEPT !.pc = "spin", !.key = masked[c]]
<1>2. r \in ThreadStates
  BY <1>1 DEF ThreadStates
<1>3. Puts(t, r)
  BY DEF Puts, PropMask
<1>4. /\ r.pc = "spin" /\ r.stack = th[t].stack /\ r.leaving = th[t].leaving
      /\ r.key = masked[c] /\ r.new = th[t].new /\ r.old = th[t].old /\ r.got = th[t].got
  BY <1>1 DEF ThreadStates
<1> HIDE DEF r
<1>5. Accessed(t, r.pc, r.key, r.new, r.old, r.got)
  BY <1>2, <1>3, <1>4, PutsAccessed
<1> QED
  BY <1>4, <1>5 DEF Accessed

LEMMA PropSpinEffect ==
  ASSUME TypeOK, NEW t \in Threads, NEW c \in 1 .. cpus, PropSpin(t, c)
  PROVE  Accessed(t, "access", th[t].key, th[t].new, th[t].old, ivar)
<1>1. th[t] \in ThreadStates /\ "access" \in PCs /\ ivar \in Values \cup {None}
  BY DEF TypeOK, PCs
<1> DEFINE r == [th[t] EXCEPT !.pc = "access", !.got = ivar]
<1>2. r \in ThreadStates
  BY <1>1 DEF ThreadStates
<1>3. Puts(t, r)
  BY DEF Puts, PropSpin
<1>4. /\ r.pc = "access" /\ r.stack = th[t].stack /\ r.leaving = th[t].leaving
      /\ r.key = th[t].key /\ r.new = th[t].new /\ r.old = th[t].old /\ r.got = ivar
  BY <1>1 DEF ThreadStates
<1> HIDE DEF r
<1>5. Accessed(t, r.pc, r.key, r.new, r.old, r.got)
  BY <1>2, <1>3, <1>4, PutsAccessed
<1> QED
  BY <1>4, <1>5

LEMMA PropAccessEffect ==
  ASSUME TypeOK, NEW t \in Threads, NEW c \in 1 .. cpus, PropAccess(t, c)
  PROVE  /\ th[t].new # None =>
              /\ ivar' = th[t].new
              /\ Accessed(t, "leave", th[t].key, th[t].new, th[t].got, None)
         /\ th[t].new = None =>
              /\ ivar' = ivar
              /\ Accessed(t, "leave", th[t].key, th[t].new, th[t].old, th[t].got)
<1>1. "leave" \in PCs /\ th[t] \in ThreadStates
  BY DEF PCs, TypeOK
<1>2. CASE th[t].new # None
  <2>1. ivar' = th[t].new
        /\ th' = [th EXCEPT ![t].pc = "leave", ![t].old = th[t].got, ![t].got = None]
    BY <1>2 DEF PropAccess
  <2> DEFINE r == [th[t] EXCEPT !.pc = "leave", !.old = th[t].got, !.got = None]
  <2>2. r \in ThreadStates
    BY <1>1 DEF ThreadStates
  <2>3. Puts(t, r)
    BY <2>1 DEF Puts
  <2>4. /\ r.pc = "leave" /\ r.stack = th[t].stack /\ r.leaving = th[t].leaving
        /\ r.key = th[t].key /\ r.new = th[t].new /\ r.old = th[t].got /\ r.got = None
    BY <1>1 DEF ThreadStates
  <2> HIDE DEF r
  <2>5. Accessed(t, r.pc, r.key, r.new, r.old, r.got)
    BY <2>2, <2>3, <2>4, PutsAccessed
  <2> QED
    BY <1>2, <2>1, <2>4, <2>5
<1>3. CASE th[t].new = None
  BY <1>1, <1>3, GoAccessed DEF PropAccess
<1> QED
  BY <1>2, <1>3

LEMMA SetDropEffect ==
  ASSUME TypeOK, NEW t \in Threads, NEW c \in 1 .. cpus, SetDrop(t, c)
  PROVE  Accessed(t, Back(t), th[t].key, None, None, th[t].got)
<1>1. th[t] \in ThreadStates /\ Back(t) \in PCs
  BY BackCases DEF TypeOK
<1>2. PICK n \in Nat : n = Reset(t)
  BY ThreadKinds DEF Reset
<1> DEFINE r == [th[t] EXCEPT !.pc = Back(t), !.calls = n, !.new = None, !.old = None]
<1>3. r \in ThreadStates
  BY <1>1 DEF ThreadStates
<1>4. Puts(t, r)
  BY <1>2 DEF Puts, SetDrop
<1>5. /\ r.pc = Back(t) /\ r.stack = th[t].stack /\ r.leaving = th[t].leaving
      /\ r.key = th[t].key /\ r.new = None /\ r.old = None /\ r.got = th[t].got
  BY <1>1 DEF ThreadStates
<1> HIDE DEF r
<1>6. Accessed(t, r.pc, r.key, r.new, r.old, r.got)
  BY <1>3, <1>4, <1>5, PutsAccessed
<1> QED
  BY <1>5, <1>6

LEMMA UseEffect ==
  ASSUME TypeOK, NEW t \in Threads, NEW c \in 1 .. cpus, Use(t, c)
  PROVE  Accessed(t, Back(t), th[t].key, th[t].new, th[t].old, None)
<1>1. th[t] \in ThreadStates /\ Back(t) \in PCs
  BY BackCases DEF TypeOK
<1>2. PICK n \in Nat : n = Reset(t)
  BY ThreadKinds DEF Reset
<1> DEFINE r == [th[t] EXCEPT !.pc = Back(t), !.calls = n, !.got = None]
<1>3. r \in ThreadStates
  BY <1>1 DEF ThreadStates
<1>4. Puts(t, r)
  BY <1>2 DEF Puts, Use
<1>5. /\ r.pc = Back(t) /\ r.stack = th[t].stack /\ r.leaving = th[t].leaving
      /\ r.key = th[t].key /\ r.new = th[t].new /\ r.old = th[t].old /\ r.got = None
  BY <1>1 DEF ThreadStates
<1> HIDE DEF r
<1>6. Accessed(t, r.pc, r.key, r.new, r.old, r.got)
  BY <1>3, <1>4, <1>5, PutsAccessed
<1> QED
  BY <1>5, <1>6

(***************************************************************************)
(* The accessors: the counters of the values                               *)
(***************************************************************************)
One(b) == IF b THEN 1 ELSE 0
Setters(v)  == {t \in Threads : th[t].new = v}
Retained(v) == {t \in Threads : th[t].new = v /\ th[t].pc \in {"mask", "spin", "access"}}
Droppers(v) == {t \in Threads : th[t].old = v}

\* What thread t owns of v.
Own(t, v) == One(t \in Setters(v)) + One(t \in Retained(v)) + One(t \in Droppers(v))

\* Two sets of threads that agree on all threads but t.
LEMMA CountChange ==
  ASSUME NEW P \in SUBSET Threads, NEW Q \in SUBSET Threads, NEW t \in Threads,
         \A u \in Threads : u # t => (u \in P <=> u \in Q)
  PROVE  /\ Cardinality(P) \in Nat /\ Cardinality(Q) \in Nat
         /\ Cardinality(Q) + One(t \in P) = Cardinality(P) + One(t \in Q)
<1>1. IsFiniteSet(P) /\ IsFiniteSet(Q)
  BY SyncAssumption, FS_Subset
<1>2. Cardinality(P) \in Nat /\ Cardinality(Q) \in Nat
  BY <1>1, FS_CardinalityType
<1>3. CASE t \in P <=> t \in Q
  <2>1. P = Q
    BY <1>3
  <2> QED
    BY <1>2, <2>1
<1>4. CASE t \in P /\ t \notin Q
  <2>1. P = Q \cup {t}
    BY <1>4
  <2>2. Cardinality(P) = Cardinality(Q) + 1
    BY <1>1, <1>4, <2>1, FS_AddElement
  <2> QED
    BY <1>2, <1>4, <2>2 DEF One
<1>5. CASE t \notin P /\ t \in Q
  <2>1. Q = P \cup {t}
    BY <1>5
  <2>2. Cardinality(Q) = Cardinality(P) + 1
    BY <1>1, <1>5, <2>1, FS_AddElement
  <2> QED
    BY <1>2, <1>5, <2>2 DEF One
<1> QED
  BY <1>3, <1>4, <1>5

\* What a step of thread t does to the number of a value's owners.
LEMMA OwnersChange ==
  ASSUME NEW t \in Threads, OthersSame(t), NEW v \in Values
  PROVE  /\ Owners(v) \in Nat /\ Owners(v)' \in Nat
         /\ Owners(v)' + Own(t, v) + One(ivar = v)
              = Owners(v) + Own(t, v)' + One(ivar' = v)
<1> DEFINE A1 == Setters(v)
           A2 == Setters(v)'
           B1 == Retained(v)
           B2 == Retained(v)'
           C1 == Droppers(v)
           C2 == Droppers(v)'
<1>1. /\ A1 \in SUBSET Threads /\ A2 \in SUBSET Threads
      /\ \A u \in Threads : u # t => (u \in A1 <=> u \in A2)
  BY DEF Setters, OthersSame
<1>2. /\ B1 \in SUBSET Threads /\ B2 \in SUBSET Threads
      /\ \A u \in Threads : u # t => (u \in B1 <=> u \in B2)
  BY DEF Retained, OthersSame
<1>3. /\ C1 \in SUBSET Threads /\ C2 \in SUBSET Threads
      /\ \A u \in Threads : u # t => (u \in C1 <=> u \in C2)
  BY DEF Droppers, OthersSame
<1>4. Owners(v) = One(ivar = v) + Cardinality(A1) + Cardinality(B1) + Cardinality(C1)
  BY DEF Owners, One, Setters, Retained, Droppers
<1>5. Owners(v)' = One(ivar' = v) + Cardinality(A2) + Cardinality(B2) + Cardinality(C2)
  BY DEF Owners, One, Setters, Retained, Droppers
<1>6. /\ Own(t, v) = One(t \in A1) + One(t \in B1) + One(t \in C1)
      /\ Own(t, v)' = One(t \in A2) + One(t \in B2) + One(t \in C2)
  BY DEF Own, One
<1> HIDE DEF A1, A2, B1, B2, C1, C2
<1>7. /\ Cardinality(A1) \in Nat /\ Cardinality(A2) \in Nat
      /\ Cardinality(A2) + One(t \in A1) = Cardinality(A1) + One(t \in A2)
  BY <1>1, CountChange
<1>8. /\ Cardinality(B1) \in Nat /\ Cardinality(B2) \in Nat
      /\ Cardinality(B2) + One(t \in B1) = Cardinality(B1) + One(t \in B2)
  BY <1>2, CountChange
<1>9. /\ Cardinality(C1) \in Nat /\ Cardinality(C2) \in Nat
      /\ Cardinality(C2) + One(t \in C1) = Cardinality(C1) + One(t \in C2)
  BY <1>3, CountChange
<1>10. /\ One(t \in A1) \in Nat /\ One(t \in A2) \in Nat /\ One(t \in B1) \in Nat
       /\ One(t \in B2) \in Nat /\ One(t \in C1) \in Nat /\ One(t \in C2) \in Nat
       /\ One(ivar = v) \in Nat /\ One(ivar' = v) \in Nat
  BY DEF One
<1>11. PICK a1 \in Nat, a2 \in Nat, b1 \in Nat, b2 \in Nat, c1 \in Nat, c2 \in Nat :
         /\ a1 = Cardinality(A1) /\ a2 = Cardinality(A2) /\ b1 = Cardinality(B1)
         /\ b2 = Cardinality(B2) /\ c1 = Cardinality(C1) /\ c2 = Cardinality(C2)
  BY <1>7, <1>8, <1>9
<1>12. PICK x1 \in Nat, x2 \in Nat, y1 \in Nat, y2 \in Nat, z1 \in Nat, z2 \in Nat :
         /\ x1 = One(t \in A1) /\ x2 = One(t \in A2) /\ y1 = One(t \in B1)
         /\ y2 = One(t \in B2) /\ z1 = One(t \in C1) /\ z2 = One(t \in C2)
  BY <1>10
<1>13. PICK i1 \in Nat, i2 \in Nat : i1 = One(ivar = v) /\ i2 = One(ivar' = v)
  BY <1>10
<1>14. a2 + x1 = a1 + x2 /\ b2 + y1 = b1 + y2 /\ c2 + z1 = c1 + z2
  BY <1>7, <1>8, <1>9, <1>11, <1>12
<1>15. Owners(v) = i1 + a1 + b1 + c1 /\ Owners(v)' = i2 + a2 + b2 + c2
  BY <1>4, <1>5, <1>11, <1>13
<1>16. Own(t, v) = x1 + y1 + z1 /\ Own(t, v)' = x2 + y2 + z2
  BY <1>6, <1>12
<1>17. (i2 + a2 + b2 + c2) + (x1 + y1 + z1) + i1 = (i1 + a1 + b1 + c1) + (x2 + y2 + z2) + i2
  BY <1>14
<1> QED
  BY <1>13, <1>15, <1>16, <1>17

\* What a thread owns, told from its fields.
LEMMA OwnFields ==
  ASSUME NEW t \in Threads, NEW v \in Values
  PROVE  /\ Own(t, v) = One(th[t].new = v)
                        + One(th[t].new = v /\ th[t].pc \in {"mask", "spin", "access"})
                        + One(th[t].old = v)
         /\ Own(t, v)' = One(th'[t].new = v)
                         + One(th'[t].new = v /\ th'[t].pc \in {"mask", "spin", "access"})
                         + One(th'[t].old = v)
         /\ Own(t, v) \in Nat
  BY DEF Own, One, Setters, Retained, Droppers

AccessInv == AccessorShape /\ ValueRefsExact
Accessing == {"set", "mask", "spin", "access", "leave", "drop", "use"}

\* Another thread's accessor is where it was.
LEMMA OtherAccessors ==
  ASSUME NEW u \in Threads, th'[u] = th[u], InAccessor(u),
         holder' = u <=> holder = u, th[u].pc = "access" => ivar' = ivar
  PROVE  InAccessor(u)'
  BY DEF InAccessor

\* The counters, when the value and what thread t owns change together with them.
LEMMA RefsKept ==
  ASSUME ValueRefsExact, NEW t \in Threads, OthersSame(t),
         \A v \in Values : refs'[v] + Own(t, v) + One(ivar = v)
                             = refs[v] + Own(t, v)' + One(ivar' = v),
         \A v \in Values : refs'[v] \in Int
  PROVE  ValueRefsExact'
<1> SUFFICES ASSUME NEW v \in Values PROVE refs'[v] = Owners(v)'
  BY DEF ValueRefsExact
<1>1. /\ Owners(v) \in Nat /\ Owners(v)' \in Nat
      /\ Owners(v)' + Own(t, v) + One(ivar = v)
           = Owners(v) + Own(t, v)' + One(ivar' = v)
  BY OwnersChange
<1>2. refs[v] = Owners(v)
  BY DEF ValueRefsExact
<1>3. /\ Own(t, v) \in Nat /\ Own(t, v)' \in Nat
      /\ One(ivar = v) \in Nat /\ One(ivar' = v) \in Nat
  BY DEF Own, One
<1> QED
  BY <1>1, <1>2, <1>3

\* Steps that leave the property alone.
LEMMA QuietAccess ==
  ASSUME TypeOK, AccessInv, UNCHANGED prop, NEW t \in Threads, OthersSame(t), SameAccess(t),
         th[t].pc \notin Accessing, th'[t].pc \notin Accessing
  PROVE  AccessInv'
<1>1. holder' = holder /\ ivar' = ivar /\ refs' = refs
  BY DEF prop
<1>2. ASSUME NEW u \in Threads, u # t PROVE InAccessor(u)'
  BY <1>1, <1>2, OtherAccessors DEF AccessInv, AccessorShape, OthersSame
<1>3. InAccessor(t)'
  <2>1. InAccessor(t)
    BY DEF AccessInv, AccessorShape
  <2> QED
    BY <1>1, <2>1 DEF InAccessor, SameAccess, Accessing
<1>4. ASSUME NEW v \in Values PROVE Own(t, v)' = Own(t, v)
  BY OwnFields DEF SameAccess, Accessing
<1>5. \A v \in Values : refs'[v] \in Int
  BY <1>1 DEF TypeOK
<1>6. ValueRefsExact'
  BY <1>1, <1>4, <1>5, RefsKept DEF AccessInv
<1> QED
  BY <1>2, <1>3, <1>6 DEF AccessInv, AccessorShape

LEMMA SetKeepsRefs ==
  ASSUME TypeOK, AccessInv, NEW t \in Threads, NEW c \in 1 .. cpus, Set(t, c)
  PROVE  AccessInv' /\ refs' \in [Values -> Nat]
<1>1. PICK v \in Values :
        /\ Unused(v) /\ refs' = [refs EXCEPT ![v] = 1]
        /\ Accessed(t, "set", th[t].key, v, th[t].old, th[t].got)
  BY SetEffect
<1>2. /\ th[t].pc \in {"idle", "body"} /\ holder' = holder /\ ivar' = ivar
  BY DEF Set, Calls, At
<1>3. InAccessor(t) /\ v # None /\ refs \in [Values -> Nat]
  BY SyncAssumption DEF AccessInv, AccessorShape, TypeOK
<1>4. th[t].new = None /\ th[t].old = None /\ refs[v] = 0
  BY <1>1, <1>2, <1>3 DEF InAccessor, Unused
<1>5. ASSUME NEW u \in Threads, u # t PROVE InAccessor(u)'
  BY <1>1, <1>2, <1>5, OtherAccessors DEF AccessInv, AccessorShape, Accessed, OthersSame
<1>6. InAccessor(t)'
  BY <1>1, <1>2, <1>3, <1>4 DEF InAccessor, Accessed
<1>7. ASSUME NEW w \in Values
      PROVE  refs'[w] + Own(t, w) + One(ivar = w) = refs[w] + Own(t, w)' + One(ivar' = w)
  <2>1. Own(t, w) = 0 /\ Own(t, w)' = One(v = w)
    BY <1>1, <1>4, OwnFields, SyncAssumption DEF Accessed, One
  <2>2. refs'[w] = refs[w] + One(v = w)
    BY <1>1, <1>3, <1>4 DEF One
  <2>3. One(ivar = w) \in Nat /\ One(v = w) \in Nat /\ refs[w] \in Nat
    BY <1>3 DEF One
  <2> QED
    BY <1>2, <2>1, <2>2, <2>3
<1>8. refs' \in [Values -> Nat]
  BY <1>1, <1>3
<1>9. ValueRefsExact'
  BY <1>1, <1>7, <1>8, RefsKept DEF AccessInv, Accessed
<1> QED
  BY <1>5, <1>6, <1>8, <1>9 DEF AccessInv, AccessorShape

LEMMA SetRetainKeepsRefs ==
  ASSUME TypeOK, AccessInv, NEW t \in Threads, NEW c \in 1 .. cpus, SetRetain(t, c)
  PROVE  AccessInv' /\ refs' \in [Values -> Nat]
<1>1. /\ th[t].pc = "set" /\ holder' = holder /\ ivar' = ivar /\ Go(t, "mask")
      /\ refs' = [refs EXCEPT ![th[t].new] = @ + 1]
  BY DEF SetRetain, At
<1>2. InAccessor(t) /\ refs \in [Values -> Nat] /\ "mask" \in PCs
  BY DEF AccessInv, AccessorShape, TypeOK, PCs
<1>3. PICK v \in Values : v = th[t].new
  BY <1>1, <1>2, ThreadKinds DEF InAccessor
<1>4. Accessed(t, "mask", th[t].key, th[t].new, th[t].old, th[t].got)
  BY <1>1, <1>2, GoAccessed
<1>5. ASSUME NEW u \in Threads, u # t PROVE InAccessor(u)'
  BY <1>1, <1>4, <1>5, OtherAccessors DEF AccessInv, AccessorShape, Accessed, OthersSame
<1>6. InAccessor(t)'
  BY <1>1, <1>2, <1>4 DEF InAccessor, Accessed
<1>7. ASSUME NEW w \in Values
      PROVE  refs'[w] + Own(t, w) + One(ivar = w) = refs[w] + Own(t, w)' + One(ivar' = w)
  <2>1. Own(t, w)' = Own(t, w) + One(v = w)
    BY <1>1, <1>3, <1>4, OwnFields DEF Accessed, One
  <2>2. refs'[w] = refs[w] + One(v = w)
    BY <1>1, <1>2, <1>3 DEF One
  <2>3. One(ivar = w) \in Nat /\ One(v = w) \in Nat /\ refs[w] \in Nat /\ Own(t, w) \in Nat
    BY <1>2, OwnFields DEF One
  <2> QED
    BY <1>1, <2>1, <2>2, <2>3
<1>8. refs' \in [Values -> Nat]
  BY <1>1, <1>2, <1>3
<1>9. ValueRefsExact'
  BY <1>4, <1>7, <1>8, RefsKept DEF AccessInv, Accessed
<1> QED
  BY <1>5, <1>6, <1>8, <1>9 DEF AccessInv, AccessorShape

\* Steps of an accessor that leave what the thread owns, and the value, alone.
LEMMA OwnKept ==
  ASSUME TypeOK, ValueRefsExact, NEW t \in Threads, OthersSame(t),
         refs' = refs, ivar' = ivar,
         th'[t].new = th[t].new, th'[t].old = th[t].old,
         th[t].new # None =>
           (th'[t].pc \in {"mask", "spin", "access"} <=> th[t].pc \in {"mask", "spin", "access"})
  PROVE  ValueRefsExact'
<1>1. ASSUME NEW v \in Values PROVE Own(t, v)' = Own(t, v)
  BY OwnFields, SyncAssumption DEF One
<1>2. \A v \in Values : refs'[v] \in Int
  BY DEF TypeOK
<1> QED
  BY <1>1, <1>2, RefsKept

LEMMA GetKeepsRefs ==
  ASSUME TypeOK, AccessInv, NEW t \in Threads, NEW c \in 1 .. cpus, Get(t, c)
  PROVE  AccessInv'
<1>1. /\ th[t].pc \in {"idle", "body"} /\ holder' = holder /\ ivar' = ivar /\ refs' = refs
      /\ Accessed(t, "mask", th[t].key, th[t].new, th[t].old, th[t].got)
  BY GetEffect DEF Get, Calls, At, prop
<1>2. InAccessor(t) /\ th[t].new = None
  BY <1>1 DEF AccessInv, AccessorShape, InAccessor
<1>3. ASSUME NEW u \in Threads, u # t PROVE InAccessor(u)'
  BY <1>1, <1>3, OtherAccessors DEF AccessInv, AccessorShape, Accessed, OthersSame
<1>4. InAccessor(t)'
  BY <1>1, <1>2 DEF InAccessor, Accessed
<1>5. ValueRefsExact'
  BY <1>1, <1>2, OwnKept DEF AccessInv, Accessed
<1> QED
  BY <1>3, <1>4, <1>5 DEF AccessInv, AccessorShape

LEMMA PropMaskKeepsRefs ==
  ASSUME TypeOK, AccessInv, NEW t \in Threads, NEW c \in 1 .. cpus, PropMask(t, c)
  PROVE  AccessInv'
<1>1. /\ th[t].pc = "mask" /\ holder' = holder /\ ivar' = ivar /\ refs' = refs
      /\ Accessed(t, "spin", masked[c], th[t].new, th[t].old, th[t].got)
  BY PropMaskEffect DEF PropMask, At, prop
<1>2. InAccessor(t)
  BY DEF AccessInv, AccessorShape
<1>3. ASSUME NEW u \in Threads, u # t PROVE InAccessor(u)'
  BY <1>1, <1>3, OtherAccessors DEF AccessInv, AccessorShape, Accessed, OthersSame
<1>4. InAccessor(t)'
  BY <1>1, <1>2 DEF InAccessor, Accessed
<1>5. ValueRefsExact'
  BY <1>1, OwnKept DEF AccessInv, Accessed
<1> QED
  BY <1>3, <1>4, <1>5 DEF AccessInv, AccessorShape

LEMMA PropSpinKeepsRefs ==
  ASSUME TypeOK, AccessInv, NEW t \in Threads, NEW c \in 1 .. cpus, PropSpin(t, c)
  PROVE  AccessInv'
<1>1. /\ th[t].pc = "spin" /\ holder = None /\ holder' = t /\ ivar' = ivar /\ refs' = refs
      /\ Accessed(t, "access", th[t].key, th[t].new, th[t].old, ivar)
  BY PropSpinEffect DEF PropSpin, At
<1>2. InAccessor(t)
  BY DEF AccessInv, AccessorShape
<1>3. ASSUME NEW u \in Threads, u # t PROVE InAccessor(u)'
  BY <1>1, <1>3, SyncAssumption, OtherAccessors
  DEF AccessInv, AccessorShape, Accessed, OthersSame
<1>4. InAccessor(t)'
  BY <1>1, <1>2 DEF InAccessor, Accessed
<1>5. ValueRefsExact'
  BY <1>1, OwnKept DEF AccessInv, Accessed
<1> QED
  BY <1>3, <1>4, <1>5 DEF AccessInv, AccessorShape

LEMMA PropLeaveKeepsRefs ==
  ASSUME TypeOK, AccessInv, NEW t \in Threads, NEW c \in 1 .. cpus, PropLeave(t, c)
  PROVE  AccessInv'
<1>1. PICK pc \in PCs : pc = IF th[t].new # None THEN "drop" ELSE "use"
  BY DEF PCs
<1>2. /\ th[t].pc = "leave" /\ holder' = None /\ ivar' = ivar /\ refs' = refs /\ Go(t, pc)
  BY <1>1 DEF PropLeave, At
<1>3. InAccessor(t)
  BY DEF AccessInv, AccessorShape
<1>4. Accessed(t, pc, th[t].key, th[t].new, th[t].old, th[t].got)
  BY <1>2, GoAccessed
<1>5. ASSUME NEW u \in Threads, u # t PROVE InAccessor(u)'
  <2>1. holder = t
    BY <1>2, <1>3 DEF InAccessor
  <2> QED
    BY <1>2, <1>4, <1>5, <2>1, SyncAssumption, OtherAccessors
    DEF AccessInv, AccessorShape, Accessed, OthersSame
<1>6. InAccessor(t)'
  <2>1. t # None
    BY SyncAssumption
  <2>2. CASE th[t].new # None
    BY <1>1, <1>2, <1>3, <1>4, <2>1, <2>2 DEF InAccessor, Accessed
  <2>3. CASE th[t].new = None
    BY <1>1, <1>2, <1>3, <1>4, <2>1, <2>3 DEF InAccessor, Accessed
  <2> QED
    BY <2>2, <2>3
<1>7. ValueRefsExact'
  BY <1>1, <1>2, <1>4, OwnKept DEF AccessInv, Accessed
<1> QED
  BY <1>5, <1>6, <1>7 DEF AccessInv, AccessorShape

LEMMA UseKeepsRefs ==
  ASSUME TypeOK, AccessInv, NEW t \in Threads, NEW c \in 1 .. cpus, Use(t, c)
  PROVE  AccessInv'
<1>1. /\ th[t].pc = "use" /\ holder' = holder /\ ivar' = ivar /\ refs' = refs
      /\ Accessed(t, Back(t), th[t].key, th[t].new, th[t].old, None)
      /\ Back(t) \in {"idle", "body"}
  BY UseEffect, BackCases DEF Use, At, prop
<1>2. InAccessor(t) /\ th[t].new = None
  BY <1>1 DEF AccessInv, AccessorShape, InAccessor
<1>3. ASSUME NEW u \in Threads, u # t PROVE InAccessor(u)'
  BY <1>1, <1>3, OtherAccessors DEF AccessInv, AccessorShape, Accessed, OthersSame
<1>4. InAccessor(t)'
  BY <1>1, <1>2 DEF InAccessor, Accessed
<1>5. ValueRefsExact'
  BY <1>1, <1>2, OwnKept DEF AccessInv, Accessed
<1> QED
  BY <1>3, <1>4, <1>5 DEF AccessInv, AccessorShape

LEMMA PropAccessKeepsRefs ==
  ASSUME TypeOK, AccessInv, NEW t \in Threads, NEW c \in 1 .. cpus, PropAccess(t, c)
  PROVE  AccessInv'
<1>1. th[t].pc = "access" /\ holder' = holder /\ refs' = refs
  BY DEF PropAccess, At
<1>2. InAccessor(t) /\ holder = t
  BY <1>1 DEF AccessInv, AccessorShape, InAccessor
<1>3. OthersSame(t)
  BY PropAccessEffect DEF Accessed
<1>4. ASSUME NEW u \in Threads, u # t PROVE InAccessor(u)'
  <2>1. InAccessor(u) /\ th'[u] = th[u] /\ th[u].pc # "access"
    BY <1>2, <1>3, <1>4 DEF AccessInv, AccessorShape, InAccessor, OthersSame
  <2> QED
    BY <1>1, <2>1, OtherAccessors
<1>5. CASE th[t].new # None
  <2>1. /\ ivar' = th[t].new
        /\ Accessed(t, "leave", th[t].key, th[t].new, th[t].got, None)
    BY <1>5, PropAccessEffect
  <2>2. InAccessor(t)'
    BY <1>1, <1>2, <1>5, <2>1 DEF InAccessor, Accessed
  <2>3. ASSUME NEW v \in Values
        PROVE  Own(t, v) + One(ivar = v) = Own(t, v)' + One(ivar' = v)
    <3>1. th[t].got = ivar /\ th[t].old = None
      BY <1>1, <1>2 DEF InAccessor
    <3>2. /\ Own(t, v) = One(th[t].new = v) + One(th[t].new = v) + 0
          /\ Own(t, v)' = One(th[t].new = v) + 0 + One(ivar = v)
      BY <1>1, <2>1, <3>1, OwnFields, SyncAssumption DEF Accessed, One
    <3>3. One(ivar' = v) = One(th[t].new = v)
      BY <2>1
    <3>4. One(th[t].new = v) \in Nat /\ One(ivar = v) \in Nat
      BY DEF One
    <3> QED
      BY <3>2, <3>3, <3>4
  <2>4. ASSUME NEW v \in Values
        PROVE  /\ refs'[v] + Own(t, v) + One(ivar = v)
                    = refs[v] + Own(t, v)' + One(ivar' = v)
               /\ refs'[v] \in Int
    <3>1. refs'[v] = refs[v] /\ refs[v] \in Nat
      BY <1>1 DEF TypeOK
    <3>2. /\ Own(t, v) \in Nat /\ Own(t, v)' \in Nat
          /\ One(ivar = v) \in Nat /\ One(ivar' = v) \in Nat
      BY DEF Own, One
    <3> QED
      BY <2>3, <3>1, <3>2
  <2>5. ValueRefsExact'
    BY <1>3, <2>4, RefsKept DEF AccessInv
  <2> QED
    BY <1>4, <2>2, <2>5 DEF AccessInv, AccessorShape
<1>6. CASE th[t].new = None
  <2>1. /\ ivar' = ivar
        /\ Accessed(t, "leave", th[t].key, th[t].new, th[t].old, th[t].got)
    BY <1>6, PropAccessEffect
  <2>2. InAccessor(t)'
    BY <1>1, <1>2, <1>6, <2>1 DEF InAccessor, Accessed
  <2>3. ValueRefsExact'
    BY <1>1, <1>6, <2>1, OwnKept DEF AccessInv, Accessed
  <2> QED
    BY <1>4, <2>2, <2>3 DEF AccessInv, AccessorShape
<1> QED
  BY <1>5, <1>6

LEMMA SetDropKeepsRefs ==
  ASSUME TypeOK, AccessInv, NEW t \in Threads, NEW c \in 1 .. cpus, SetDrop(t, c)
  PROVE  AccessInv' /\ refs' \in [Values -> Nat]
<1>1. /\ th[t].pc = "drop" /\ holder' = holder /\ ivar' = ivar
      /\ refs' = [v \in Values |->
           refs[v] - (IF v = th[t].old THEN 1 ELSE 0) - (IF v = th[t].new THEN 1 ELSE 0)]
      /\ Accessed(t, Back(t), th[t].key, None, None, th[t].got)
      /\ Back(t) \in {"idle", "body"}
  BY SetDropEffect, BackCases DEF SetDrop, At
<1>2. InAccessor(t) /\ refs \in [Values -> Nat]
  BY DEF AccessInv, AccessorShape, TypeOK
<1>3. ASSUME NEW u \in Threads, u # t PROVE InAccessor(u)'
  BY <1>1, <1>3, OtherAccessors DEF AccessInv, AccessorShape, Accessed, OthersSame
<1>4. InAccessor(t)'
  BY <1>1, <1>2 DEF InAccessor, Accessed
<1>5. ASSUME NEW v \in Values
      PROVE  /\ refs'[v] \in Int
             /\ refs'[v] + Own(t, v) + One(ivar = v) = refs[v] + Own(t, v)' + One(ivar' = v)
  <2>1. Own(t, v)' = 0 /\ Own(t, v) = One(th[t].new = v) + One(th[t].old = v)
    BY <1>1, OwnFields, SyncAssumption DEF Accessed, One
  <2>2. refs'[v] = refs[v] - One(th[t].old = v) - One(th[t].new = v)
    BY <1>1 DEF One
  <2>3. /\ One(th[t].old = v) \in Nat /\ One(th[t].new = v) \in Nat
        /\ refs[v] \in Nat /\ One(ivar = v) \in Nat
    BY <1>2 DEF One
  <2> QED
    BY <1>1, <2>1, <2>2, <2>3
<1>6. ValueRefsExact'
  BY <1>1, <1>5, RefsKept DEF AccessInv, Accessed
<1>7. refs' \in [Values -> Nat]
  <2>1. ASSUME NEW v \in Values PROVE refs'[v] \in Nat
    BY <1>1, <1>6, OwnersChange DEF ValueRefsExact, Accessed
  <2> QED
    BY <1>1, <2>1
<1> QED
  BY <1>3, <1>4, <1>6, <1>7 DEF AccessInv, AccessorShape

(***************************************************************************)
(* Blocks and accessors together                                           *)
(***************************************************************************)
CoreInv == BlockInv /\ AccessInv

\* The accessors' steps have nothing to do with blocks.
LEMMA AccessedKeepsBlocks ==
  ASSUME BlockInv, UNCHANGED <<kernel, isr, block, timer>>, NEW t \in Threads,
         NEW pc, NEW key, NEW new, NEW old, NEW got, Accessed(t, pc, key, new, old, got),
         masked' \in [1 .. cpus -> BOOLEAN], holder' \in Threads \cup {None},
         ivar' \in Values \cup {None}, refs' \in [Values -> Nat],
         th[t].pc \notin Special, pc \notin Special,
         pc \in {"idle", "delete"} => th[t].stack = <<>>,
         pc = "body" => th[t].stack # <<>>
  PROVE  BlockInv'
<1>1. TypeOK'
  BY TypeKept DEF BlockInv, TypeOK, Accessed, block
<1>2. /\ slab' = slab /\ UNCHANGED block /\ OthersSame(t) /\ SameBlocks(t)
      /\ th'[t].pc = pc
  BY DEF kernel, Accessed
<1> QED
  BY <1>1, <1>2, QuietBlocks

\* Steps that change no thread.
LEMMA NoThread ==
  ASSUME CoreInv, TypeOK', th' = th, UNCHANGED block, UNCHANGED prop, slab' = slab
  PROVE  CoreInv'
<1>1. lock' = lock /\ objRefs' = objRefs /\ holder' = holder /\ ivar' = ivar /\ refs' = refs
  BY DEF block, prop
<1>2. StacksApart'
  BY <1>1 DEF CoreInv, BlockInv, StacksApart
<1>3. ASSUME NEW t \in Threads PROVE InBlocks(t)' /\ InAccessor(t)'
  BY <1>1 DEF CoreInv, BlockInv, StackShape, AccessInv, AccessorShape, InBlocks, LockState,
              InAccessor
<1>4. ObjRefsExact' /\ ValueRefsExact'
  BY <1>1 DEF CoreInv, BlockInv, AccessInv, ObjRefsExact, ValueRefsExact, Owners
<1> QED
  BY <1>2, <1>3, <1>4 DEF CoreInv, BlockInv, StackShape, AccessInv, AccessorShape

LEMMA AccessorKeeps ==
  ASSUME CoreInv, NEW t \in Threads, NEW c \in 1 .. cpus,
         \/ Set(t, c) \/ SetRetain(t, c) \/ Get(t, c) \/ PropMask(t, c) \/ PropSpin(t, c)
         \/ PropAccess(t, c) \/ PropLeave(t, c) \/ SetDrop(t, c) \/ Use(t, c)
  PROVE  CoreInv'
<1>1. /\ BlockInv /\ TypeOK /\ AccessInv /\ InBlocks(t)
      /\ masked \in [1 .. cpus -> BOOLEAN] /\ holder \in Threads \cup {None}
      /\ ivar \in Values \cup {None} /\ refs \in [Values -> Nat]
  BY DEF CoreInv, BlockInv, StackShape, TypeOK
<1>2. /\ th[t].pc \in {"idle", "delete"} => th[t].stack = <<>>
      /\ th[t].pc = "body" => th[t].stack # <<>>
  BY <1>1 DEF InBlocks
<1>3. CASE Set(t, c)
  <2>1. AccessInv' /\ refs' \in [Values -> Nat]
    BY <1>1, <1>3, SetKeepsRefs
  <2>2. PICK v : Accessed(t, "set", th[t].key, v, th[t].old, th[t].got)
    BY <1>1, <1>3, SetEffect
  <2>3. /\ th[t].pc \in {"idle", "body"}
        /\ UNCHANGED <<kernel, masked, isr, block, holder, ivar, timer>>
    BY <1>3 DEF Set, Calls, At
  <2>4. BlockInv'
    BY SMTT(60), <1>1, <2>1, <2>2, <2>3, AccessedKeepsBlocks DEF Special
  <2> QED
    BY <2>1, <2>4 DEF CoreInv
<1>4. CASE SetRetain(t, c)
  <2>1. AccessInv' /\ refs' \in [Values -> Nat]
    BY <1>1, <1>4, SetRetainKeepsRefs
  <2>2. /\ th[t].pc = "set" /\ Go(t, "mask") /\ "mask" \in PCs
        /\ UNCHANGED <<kernel, masked, isr, block, holder, ivar, timer>>
    BY <1>4 DEF SetRetain, At, PCs
  <2>3. Accessed(t, "mask", th[t].key, th[t].new, th[t].old, th[t].got)
    BY <1>1, <2>2, GoAccessed
  <2>a. /\ masked' \in [1 .. cpus -> BOOLEAN] /\ holder' \in Threads \cup {None}
        /\ ivar' \in Values \cup {None} /\ UNCHANGED <<kernel, isr, block, timer>>
        /\ th[t].pc \notin Special /\ "mask" \notin Special
    BY <1>1, <2>2 DEF Special
  <2>4. BlockInv'
    BY <1>1, <2>1, <2>3, <2>a, AccessedKeepsBlocks
  <2> QED
    BY <2>1, <2>4 DEF CoreInv
<1>5. CASE Get(t, c)
  <2>1. AccessInv'
    BY <1>1, <1>5, GetKeepsRefs
  <2>2. Accessed(t, "mask", th[t].key, th[t].new, th[t].old, th[t].got)
    BY <1>1, <1>5, GetEffect
  <2>3. /\ th[t].pc \in {"idle", "body"}
        /\ UNCHANGED <<kernel, masked, isr, block, holder, ivar, refs, timer>>
    BY <1>5 DEF Get, Calls, At, prop
  <2>4. BlockInv'
    BY <1>1, <2>2, <2>3, AccessedKeepsBlocks DEF Special
  <2> QED
    BY <2>1, <2>4 DEF CoreInv
<1>6. CASE PropMask(t, c)
  <2>1. AccessInv'
    BY <1>1, <1>6, PropMaskKeepsRefs
  <2>2. Accessed(t, "spin", masked[c], th[t].new, th[t].old, th[t].got)
    BY <1>1, <1>6, PropMaskEffect
  <2>3. /\ th[t].pc = "mask" /\ masked' = [masked EXCEPT ![c] = TRUE]
        /\ UNCHANGED <<kernel, isr, block, holder, ivar, refs, timer>>
    BY <1>6 DEF PropMask, At, Mask, prop
  <2>4. masked' \in [1 .. cpus -> BOOLEAN]
    BY <1>1, <2>3
  <2>5. BlockInv'
    BY <1>1, <2>2, <2>3, <2>4, AccessedKeepsBlocks DEF Special
  <2> QED
    BY <2>1, <2>5 DEF CoreInv
<1>7. CASE PropSpin(t, c)
  <2>1. AccessInv'
    BY <1>1, <1>7, PropSpinKeepsRefs
  <2>2. Accessed(t, "access", th[t].key, th[t].new, th[t].old, ivar)
    BY <1>1, <1>7, PropSpinEffect
  <2>3. /\ th[t].pc = "spin" /\ holder' \in Threads \cup {None}
        /\ UNCHANGED <<kernel, masked, isr, block, ivar, refs, timer>>
    BY <1>7 DEF PropSpin, At
  <2>4. BlockInv'
    BY <1>1, <2>2, <2>3, AccessedKeepsBlocks DEF Special
  <2> QED
    BY <2>1, <2>4 DEF CoreInv
<1>8. CASE PropAccess(t, c)
  <2>1. AccessInv'
    BY <1>1, <1>8, PropAccessKeepsRefs
  <2>2. /\ \E old, got : Accessed(t, "leave", th[t].key, th[t].new, old, got)
        /\ ivar' \in Values \cup {None}
    BY <1>1, <1>8, PropAccessEffect, ThreadKinds
  <2>3. PICK old, got : Accessed(t, "leave", th[t].key, th[t].new, old, got)
    BY <2>2
  <2>4. /\ th[t].pc = "access"
        /\ UNCHANGED <<kernel, masked, isr, block, holder, refs, timer>>
    BY <1>8 DEF PropAccess, At
  <2>5. BlockInv'
    BY <1>1, <2>2, <2>3, <2>4, AccessedKeepsBlocks DEF Special
  <2> QED
    BY <2>1, <2>5 DEF CoreInv
<1>9. CASE PropLeave(t, c)
  <2>1. AccessInv'
    BY <1>1, <1>9, PropLeaveKeepsRefs
  <2>2. PICK pc \in PCs : pc = IF th[t].new # None THEN "drop" ELSE "use"
    BY DEF PCs
  <2>3. /\ th[t].pc = "leave" /\ Go(t, pc) /\ holder' \in Threads \cup {None}
        /\ masked' = [masked EXCEPT ![c] = th[t].key]
        /\ UNCHANGED <<kernel, isr, block, ivar, refs, timer>>
    BY <1>9, <2>2 DEF PropLeave, At, Mask
  <2>4. Accessed(t, pc, th[t].key, th[t].new, th[t].old, th[t].got)
    BY <1>1, <2>3, GoAccessed
  <2>5. masked' \in [1 .. cpus -> BOOLEAN]
    BY <1>1, <2>3, ThreadKinds
  <2>6. BlockInv'
    BY <1>1, <2>2, <2>3, <2>4, <2>5, AccessedKeepsBlocks DEF Special
  <2> QED
    BY <2>1, <2>6 DEF CoreInv
<1>10. CASE SetDrop(t, c)
  <2>1. AccessInv' /\ refs' \in [Values -> Nat]
    BY <1>1, <1>10, SetDropKeepsRefs
  <2>2. Accessed(t, Back(t), th[t].key, None, None, th[t].got)
    BY <1>1, <1>10, SetDropEffect
  <2>3. /\ th[t].pc = "drop"
        /\ UNCHANGED <<kernel, masked, isr, block, holder, ivar, timer>>
    BY <1>10 DEF SetDrop, At
  <2>4. BlockInv'
    BY <1>1, <2>1, <2>2, <2>3, BackCases, AccessedKeepsBlocks DEF Special
  <2> QED
    BY <2>1, <2>4 DEF CoreInv
<1>11. CASE Use(t, c)
  <2>1. AccessInv'
    BY <1>1, <1>11, UseKeepsRefs
  <2>2. Accessed(t, Back(t), th[t].key, th[t].new, th[t].old, None)
    BY <1>1, <1>11, UseEffect
  <2>3. /\ th[t].pc = "use"
        /\ UNCHANGED <<kernel, masked, isr, block, holder, ivar, refs, timer>>
    BY <1>11 DEF Use, At, prop
  <2>4. BlockInv'
    BY <1>1, <2>2, <2>3, BackCases, AccessedKeepsBlocks DEF Special
  <2> QED
    BY <2>1, <2>4 DEF CoreInv
<1> QED
  BY <1>3, <1>4, <1>5, <1>6, <1>7, <1>8, <1>9, <1>10, <1>11

BlockStep(t, c) ==
  \/ SyncAlloc(t, c) \/ SyncRetain(t, c) \/ SyncLock(t, c)
  \/ SyncEnd(t, c) \/ SyncReturn(t, c)
  \/ SyncUnlock(t, c) \/ SyncGive(t, c) \/ SyncFree(t, c)

\* A step of @synchronized leaves the property and the other threads alone.
LEMMA BlockStepEffect ==
  ASSUME BlockInv, NEW t \in Threads, NEW c \in 1 .. cpus, BlockStep(t, c)
  PROVE  /\ BlockInv' /\ OthersSame(t) /\ SameAccess(t)
         /\ UNCHANGED kernel /\ UNCHANGED <<isr, prop, timer>>
         /\ th[t].pc \notin Accessing /\ th'[t].pc \notin Accessing
<1>1. TypeOK
  BY DEF BlockInv
<1>2. CASE SyncAlloc(t, c)
  <2>1. BlockInv'
    BY <1>2, AllocKeeps
  <2>2. /\ th[t].pc \in {"idle", "body"} /\ UNCHANGED <<kernel, isr, prop, timer>>
        /\ \/ Go(t, "crashed") \/ \E l \in FreeLocks : AllocFresh(t, l)
    BY <1>1, <1>2, AllocCases
  <2>3. CASE Go(t, "crashed")
    <3>1. "crashed" \in PCs
      BY DEF PCs
    <3> QED
      BY <1>1, <2>1, <2>2, <2>3, <3>1, GoUpdate DEF Accessing
  <2>4. CASE \E l \in FreeLocks : AllocFresh(t, l)
    BY <1>1, <2>1, <2>2, <2>4, AllocUpdate DEF Accessing
  <2> QED
    BY <2>2, <2>3, <2>4
<1>3. ASSUME \/ SyncRetain(t, c) \/ SyncLock(t, c) \/ SyncUnlock(t, c) \/ SyncGive(t, c)
      PROVE  /\ BlockInv' /\ OthersSame(t) /\ SameAccess(t)
             /\ UNCHANGED kernel /\ UNCHANGED <<isr, prop, timer>>
             /\ th[t].pc \notin Accessing /\ th'[t].pc \notin Accessing
  <2>1. BlockInv'
    BY <1>3, RetainKeeps, LockKeeps, UnlockKeeps, GiveKeeps
  <2>2. /\ th[t].pc \in {"retain", "lock", "unlock", "give"}
        /\ UNCHANGED kernel /\ UNCHANGED <<isr, prop, timer>>
        /\ \E pc \in {"lock", "body", "give", "free"} : Go(t, pc)
    BY <1>3 DEF SyncRetain, SyncLock, SyncUnlock, SyncGive, At
  <2>3. PICK pc \in {"lock", "body", "give", "free"} : Go(t, pc)
    BY <2>2
  <2>4. th'[t].pc = pc /\ OthersSame(t) /\ SameAccess(t)
    <3>1. pc \in PCs
      BY DEF PCs
    <3> QED
      BY <1>1, <2>3, <3>1, GoUpdate
  <2> QED
    BY <2>1, <2>2, <2>4 DEF Accessing
<1>4. CASE SyncEnd(t, c) \/ SyncReturn(t, c)
  <2>1. th[t].pc = "body" /\ UNCHANGED kernel /\ UNCHANGED <<isr, prop, timer>>
    BY <1>4 DEF SyncEnd, SyncReturn, Leave, At
  <2> QED
    BY <1>4, <2>1, LeaveKeeps DEF Accessing
<1>5. CASE SyncFree(t, c)
  <2>1. th[t].pc = "free" /\ UNCHANGED kernel /\ UNCHANGED <<isr, prop, timer>>
    BY <1>5 DEF SyncFree, At
  <2> QED
    BY <1>5, <2>1, FreeKeeps DEF Accessing
<1> QED
  BY <1>2, <1>3, <1>4, <1>5 DEF BlockStep

LEMMA BlockStepKeeps ==
  ASSUME CoreInv, NEW t \in Threads, NEW c \in 1 .. cpus, BlockStep(t, c)
  PROVE  CoreInv'
<1>1. BlockInv /\ TypeOK /\ AccessInv
  BY DEF CoreInv, BlockInv
<1>2. /\ BlockInv' /\ OthersSame(t) /\ SameAccess(t) /\ UNCHANGED prop
      /\ th[t].pc \notin Accessing /\ th'[t].pc \notin Accessing
  BY <1>1, BlockStepEffect
<1>3. AccessInv'
  BY <1>1, <1>2, QuietAccess
<1> QED
  BY <1>2, <1>3 DEF CoreInv

TimerStep(t, c) == TimerSwitch(t, c) \/ TimerDealloc(t, c) \/ TimerFree(t, c)

\* A timer's step leaves everything but the timer and its thread's pc alone.
LEMMA TimerStepEffect ==
  ASSUME TypeOK, NEW t \in Threads, NEW c \in 1 .. cpus, TimerStep(t, c)
  PROVE  /\ TypeOK' /\ OthersSame(t) /\ SameBlocks(t) /\ SameAccess(t)
         /\ UNCHANGED <<kernel, masked, isr, block, prop>>
         /\ th[t].pc \in {"idle", "delete"} /\ th'[t].pc \in {"idle", "delete"}
<1>1. /\ UNCHANGED <<kernel, masked, isr, block, prop>>
      /\ th[t].pc \in {"idle", "delete"}
      /\ \/ th' = th
         \/ \E pc \in {"idle", "delete"} : Go(t, pc)
  BY DEF TimerStep, TimerSwitch, TimerDealloc, TimerFree, At
<1>2. /\ th' \in [Threads -> ThreadStates]
      /\ OthersSame(t) /\ SameBlocks(t) /\ SameAccess(t)
      /\ th'[t].pc \in {"idle", "delete"}
  <2>1. CASE th' = th
    BY <1>1, <2>1 DEF TypeOK, OthersSame, SameBlocks, SameAccess
  <2>2. CASE \E pc \in {"idle", "delete"} : Go(t, pc)
    <3>1. PICK pc \in {"idle", "delete"} : Go(t, pc)
      BY <2>2
    <3>2. pc \in PCs
      BY DEF PCs
    <3> QED
      BY <3>1, <3>2, GoUpdate
  <2> QED
    BY <1>1, <2>1, <2>2
<1>3. timer' \in [run : BOOLEAN, memory : {"live", "dying", "freed"}]
  <2>1. timer \in [run : BOOLEAN, memory : {"live", "dying", "freed"}]
    BY DEF TypeOK
  <2>2. CASE TimerSwitch(t, c)
    BY <2>1, <2>2 DEF TimerSwitch
  <2>3. CASE TimerDealloc(t, c)
    BY <2>3 DEF TimerDealloc
  <2>4. CASE TimerFree(t, c)
    BY <2>1, <2>4 DEF TimerFree
  <2> QED
    BY <2>2, <2>3, <2>4 DEF TimerStep
<1>4. UNCHANGED <<lock, objRefs, holder, ivar, refs>>
  BY <1>1 DEF block, prop
<1>5. TypeOK'
  BY <1>1, <1>2, <1>3, <1>4, TypeKept DEF TypeOK
<1> QED
  BY <1>1, <1>2, <1>5

LEMMA TimerStepKeeps ==
  ASSUME CoreInv, NEW t \in Threads, NEW c \in 1 .. cpus, TimerStep(t, c)
  PROVE  CoreInv'
<1>1. BlockInv /\ TypeOK /\ AccessInv /\ InBlocks(t)
  BY DEF CoreInv, BlockInv, StackShape
<1>2. /\ TypeOK' /\ OthersSame(t) /\ SameBlocks(t) /\ SameAccess(t)
      /\ UNCHANGED <<kernel, masked, isr, block, prop>>
      /\ th[t].pc \in {"idle", "delete"} /\ th'[t].pc \in {"idle", "delete"}
  BY <1>1, TimerStepEffect
<1>3. th[t].stack = <<>> /\ slab' = slab
  BY <1>1, <1>2 DEF InBlocks, kernel
<1>4. BlockInv'
  BY <1>1, <1>2, <1>3, QuietBlocks DEF Special
<1>5. AccessInv'
  BY <1>1, <1>2, QuietAccess DEF Accessing
<1> QED
  BY <1>4, <1>5 DEF CoreInv

KernelStep(c) == Preempt(c) \/ Expire(c) \/ ExpireEnd(c)

LEMMA KernelStepKeeps ==
  ASSUME CoreInv, NEW c \in 1 .. cpus, KernelStep(c)
  PROVE  CoreInv' /\ UNCHANGED <<cpus, slab, masked, block, prop, th>>
<1>1. TypeOK
  BY DEF CoreInv, BlockInv
<1>2. UNCHANGED <<cpus, slab, masked, block, prop, th>>
  BY DEF KernelStep, Preempt, Expire, ExpireEnd, kernel
<1>3. UNCHANGED <<cpus, slab, masked, lock, objRefs, holder, ivar, refs, th>>
  BY <1>2 DEF block, prop
<1>4. TypeOK'
  <2>1. CASE Preempt(c)
    <3>1. PICK t \in Threads : /\ \A d \in 1 .. cpus : on[d] # t
                               /\ on' = [on EXCEPT ![c] = t]
                               /\ UNCHANGED <<isr, timer>>
      BY <2>1 DEF Preempt
    <3>2. /\ on' \in [1 .. cpus -> Threads]
          /\ \A a, b \in 1 .. cpus : on'[a] = on'[b] => a = b
      BY <1>1, <3>1 DEF TypeOK
    <3>3. ThreadStates' = ThreadStates
      BY <1>3 DEF ThreadStates
    <3> QED
      BY <1>1, <1>3, <3>1, <3>2, <3>3 DEF TypeOK
  <2>2. CASE Expire(c) \/ ExpireEnd(c)
    <3>1. /\ isr' \in [1 .. cpus -> BOOLEAN] /\ UNCHANGED kernel
          /\ timer' \in [run : BOOLEAN, memory : {"live", "dying", "freed"}]
      BY <1>1, <2>2 DEF TypeOK, Expire, ExpireEnd
    <3> QED
      BY <1>1, <1>3, <3>1, TypeKept DEF TypeOK
  <2> QED
    BY <2>1, <2>2 DEF KernelStep
<1> QED
  BY <1>2, <1>3, <1>4, NoThread DEF block, prop

\* A step of the program is one of a thread, which its CPU runs, or of the kernel.
LEMMA Steps ==
  ASSUME Next
  PROVE  \/ \E t \in Threads, c \in 1 .. cpus : on[c] = t /\ ~ isr[c] /\ ThreadStep(t, c)
         \/ \E c \in 1 .. cpus : KernelStep(c)
         \/ UNCHANGED vars
<1>1. ASSUME NEW t \in Threads, NEW c \in 1 .. cpus, ThreadStep(t, c)
      PROVE  on[c] = t /\ ~ isr[c]
  BY <1>1 DEF ThreadStep, SyncAlloc, SyncRetain, SyncLock, SyncEnd, SyncReturn, SyncUnlock,
     SyncGive, SyncFree, Set, SetRetain, Get, PropMask, PropSpin, PropAccess, PropLeave,
     SetDrop, Use, TimerSwitch, TimerDealloc, TimerFree, Calls, At
<1> QED
  BY <1>1 DEF Next, KernelStep, Halted

AccessorStep(t, c) ==
  \/ Set(t, c) \/ SetRetain(t, c) \/ Get(t, c) \/ PropMask(t, c) \/ PropSpin(t, c)
  \/ PropAccess(t, c) \/ PropLeave(t, c) \/ SetDrop(t, c) \/ Use(t, c)

LEMMA ThreadSteps ==
  ASSUME NEW t, NEW c, ThreadStep(t, c)
  PROVE  BlockStep(t, c) \/ AccessorStep(t, c) \/ TimerStep(t, c)
  BY DEF ThreadStep, BlockStep, AccessorStep, TimerStep

LEMMA CoreStep ==
  ASSUME CoreInv, [Next]_vars
  PROVE  CoreInv'
<1>1. ASSUME NEW t \in Threads, NEW c \in 1 .. cpus, ThreadStep(t, c) PROVE CoreInv'
  BY <1>1, ThreadSteps, BlockStepKeeps, AccessorKeeps, TimerStepKeeps DEF AccessorStep
<1>2. CASE UNCHANGED vars
  <2>1. UNCHANGED <<kernel, masked, isr, block, prop, timer, th>>
    BY <1>2 DEF vars
  <2>2. UNCHANGED <<kernel, masked, isr, lock, objRefs, holder, ivar, refs, timer, th>>
    BY <2>1 DEF block, prop
  <2>3. TypeOK'
    BY <2>2, TypeKept DEF CoreInv, BlockInv, TypeOK
  <2> QED
    BY <2>1, <2>3, NoThread DEF kernel
<1> QED
  BY <1>1, <1>2, Steps, KernelStepKeeps

LEMMA InitFacts ==
  ASSUME Init
  PROVE  /\ TypeOK
         /\ \A t \in Threads : /\ th[t].pc = "idle" /\ th[t].stack = <<>>
                               /\ th[t].leaving = <<>> /\ th[t].new = None
                               /\ th[t].old = None /\ th[t].got = None
         /\ \A l \in 1 .. slab : lock[l] = Free
<1>1. Idle \in ThreadStates
  <2>1. "idle" \in PCs /\ <<>> \in Seq(1 .. slab)
    BY DEF PCs
  <2> QED
    BY <2>1 DEF Idle, ThreadStates
<1>2. Free \in Locks
  BY DEF Free, Locks
<1>3. on \in [1 .. cpus -> Threads] /\ \A c, d \in 1 .. cpus : on[c] = on[d] => c = d
  BY DEF Init
<1>4. /\ cpus \in CpuCounts /\ slab \in SlabSizes[cpus]
      /\ masked \in [1 .. cpus -> BOOLEAN] /\ isr \in [1 .. cpus -> BOOLEAN]
      /\ timer \in [run : BOOLEAN, memory : {"live", "dying", "freed"}]
  BY DEF Init
<1>5. objRefs \in Nat /\ refs \in [Values -> Nat] /\ holder = None /\ ivar = None
  BY DEF Init
<1>6. TypeOK
  BY <1>1, <1>2, <1>3, <1>4, <1>5 DEF Init, TypeOK
<1>7. \A t \in Threads : th[t] = Idle
  BY DEF Init
<1> QED
  BY <1>6, <1>7 DEF Idle, Init

LEMMA CoreInit == Init => CoreInv
<1> SUFFICES ASSUME Init PROVE CoreInv
  OBVIOUS
<1>1. /\ TypeOK
      /\ \A t \in Threads : /\ th[t].pc = "idle" /\ th[t].stack = <<>>
                            /\ th[t].leaving = <<>> /\ th[t].new = None
                            /\ th[t].old = None /\ th[t].got = None
      /\ \A l \in 1 .. slab : lock[l] = Free
  BY InitFacts
<1>2. StacksApart
  BY <1>1 DEF StacksApart
<1>3. StackShape
  <2>1. ASSUME NEW t \in Threads PROVE InBlocks(t)
    <3>1. /\ th[t].pc = "idle" /\ th[t].stack = <<>> /\ th[t].leaving = <<>>
          /\ DOMAIN th[t].stack = {} /\ Len(th[t].stack) = 0
      BY <1>1
    <3> QED
      BY <3>1, SyncAssumption DEF InBlocks
  <2> QED
    BY <2>1 DEF StackShape
<1>4. ObjRefsExact
  <2>1. {l \in 1 .. slab : lock[l].retains} = {}
    BY <1>1 DEF Free
  <2>2. Cardinality({l \in 1 .. slab : lock[l].retains}) = 0
    BY <2>1, FS_EmptySet
  <2> QED
    BY <2>2 DEF ObjRefsExact, Init
<1>5. AccessorShape
  <2>1. holder = None /\ None \notin Threads
    BY SyncAssumption DEF Init
  <2> QED
    BY <1>1, <2>1 DEF AccessorShape, InAccessor
<1>6. ValueRefsExact
  <2>1. ASSUME NEW v \in Values PROVE refs[v] = Owners(v)
    <3>1. v # None /\ ivar = None /\ refs[v] = 0
      BY SyncAssumption DEF Init
    <3>2. /\ {t \in Threads : th[t].new = v} = {}
          /\ {t \in Threads : th[t].new = v /\ th[t].pc \in {"mask", "spin", "access"}} = {}
          /\ {t \in Threads : th[t].old = v} = {}
      BY <1>1, <3>1
    <3>3. /\ Cardinality({t \in Threads : th[t].new = v}) = 0
          /\ Cardinality({t \in Threads : th[t].new = v
                            /\ th[t].pc \in {"mask", "spin", "access"}}) = 0
          /\ Cardinality({t \in Threads : th[t].old = v}) = 0
      BY <3>2, FS_EmptySet
    <3>4. (IF ivar = v THEN 1 ELSE 0) = 0
      BY <3>1
    <3> QED
      BY <3>1, <3>3, <3>4 DEF Owners
  <2> QED
    BY <2>1 DEF ValueRefsExact
<1> QED
  BY <1>1, <1>2, <1>3, <1>4, <1>5, <1>6 DEF CoreInv, BlockInv, AccessInv

\* Where a block's or an accessor's step takes its thread.
LEMMA NextPc ==
  ASSUME BlockInv, NEW t \in Threads, NEW c \in 1 .. cpus,
         BlockStep(t, c) \/ AccessorStep(t, c)
  PROVE  /\ OthersSame(t) /\ th'[t].pc # "delete"
         /\ th'[t].pc = "crashed" => SyncAlloc(t, c)
<1>1. TypeOK
  BY DEF BlockInv
<1>2. ASSUME NEW pc \in {"lock", "body", "give", "free", "mask", "drop", "use", "crashed"},
             Go(t, pc)
      PROVE  OthersSame(t) /\ th'[t].pc = pc
  <2>1. pc \in PCs
    BY DEF PCs
  <2> QED
    BY <1>1, <1>2, <2>1, GoUpdate
<1>3. CASE SyncAlloc(t, c)
  <2>1. CASE \E l \in FreeLocks : AllocFresh(t, l)
    BY <1>1, <2>1, AllocUpdate
  <2> QED
    BY <1>1, <1>2, <1>3, <2>1, AllocCases
<1>4. CASE SyncFree(t, c)
  BY <1>4, FreeKeeps
<1>5. CASE SyncEnd(t, c) \/ SyncReturn(t, c)
  BY <1>5, LeaveKeeps
<1>6. CASE \/ SyncRetain(t, c) \/ SyncLock(t, c) \/ SyncUnlock(t, c) \/ SyncGive(t, c)
           \/ SetRetain(t, c) \/ PropLeave(t, c)
  <2>1. PICK pc \in {"lock", "body", "give", "free", "mask", "drop", "use"} : Go(t, pc)
    BY <1>6 DEF SyncRetain, SyncLock, SyncUnlock, SyncGive, SetRetain, PropLeave
  <2> QED
    BY <1>2, <2>1
<1>7. CASE \/ Set(t, c) \/ Get(t, c) \/ PropMask(t, c) \/ PropSpin(t, c)
           \/ PropAccess(t, c) \/ SetDrop(t, c) \/ Use(t, c)
  BY <1>1, <1>7, SetEffect, GetEffect, PropMaskEffect, PropSpinEffect, PropAccessEffect,
     SetDropEffect, UseEffect, BackCases
  DEF Accessed
<1> QED
  BY <1>3, <1>4, <1>5, <1>6, <1>7 DEF BlockStep, AccessorStep

(***************************************************************************)
(* The timer                                                               *)
(***************************************************************************)
LEMMA TimerRunsStep ==
  ASSUME BlockInv, TimerRuns, [Next]_vars
  PROVE  TimerRuns'
<1>1. /\ TypeOK /\ timer \in [run : BOOLEAN, memory : {"live", "dying", "freed"}]
      /\ isr \in [1 .. cpus -> BOOLEAN]
      /\ on \in [1 .. cpus -> Threads] /\ \A c, d \in 1 .. cpus : on[c] = on[d] => c = d
      /\ cpus \in Nat
      /\ timer.run => timer.memory = "live"
      /\ \A t \in Threads : th[t].pc = "delete" => timer.memory # "live"
      /\ Overtaken
  BY SyncAssumption DEF BlockInv, TypeOK, TimerRuns
<1>2. ASSUME NEW t \in Threads, NEW c \in 1 .. cpus, on[c] = t, ~ isr[c], TimerStep(t, c)
      PROVE  TimerRuns'
  <2>1. cpus' = cpus /\ isr' = isr /\ on' = on /\ OthersSame(t)
    BY <1>1, <1>2, TimerStepEffect DEF kernel
  <2>2. /\ timer'.run => timer'.memory = "live"
        /\ th'[t].pc = "delete" => timer'.memory # "live"
        /\ timer.memory # "live" => timer'.memory # "live"
    <3>1. CASE TimerSwitch(t, c)
      BY <1>1, <3>1 DEF TimerSwitch
    <3>2. CASE TimerDealloc(t, c)
      BY <3>2 DEF TimerDealloc
    <3>3. CASE TimerFree(t, c)
      <4>1. timer.memory # "live" /\ timer' = [timer EXCEPT !.memory = "freed"]
        BY <1>1, <3>3 DEF TimerFree, At
      <4> QED
        BY <1>1, <4>1
    <3> QED
      BY <1>2, <3>1, <3>2, <3>3 DEF TimerStep
  <2>3. ASSUME NEW d \in 1 .. cpus, isr[d], timer'.memory # "live"
        PROVE  cpus > 1 /\ th'[on[d]].pc # "delete"
    <3>1. c # d /\ on[d] # t /\ on[d] \in Threads
      BY <1>1, <1>2, <2>3
    <3>2. cpus > 1
      BY <1>1, <3>1
    <3>3. th'[on[d]] = th[on[d]]
      BY <2>1, <3>1 DEF OthersSame
    <3>4. th[on[d]].pc # "delete"
      <4>1. CASE timer.memory = "live"
        BY <1>1, <3>1, <4>1
      <4>2. CASE timer.memory # "live"
        BY <1>1, <2>3, <4>2 DEF Overtaken
      <4> QED
        BY <4>1, <4>2
    <3> QED
      BY <3>2, <3>3, <3>4
  <2>4. Overtaken'
    BY <2>1, <2>3 DEF Overtaken
  <2>5. \A u \in Threads : th'[u].pc = "delete" => timer'.memory # "live"
    BY <1>1, <2>1, <2>2 DEF OthersSame
  <2> QED
    BY <2>2, <2>4, <2>5 DEF TimerRuns
<1>3. ASSUME NEW c \in 1 .. cpus, KernelStep(c) PROVE TimerRuns'
  <2>1. CASE Preempt(c)
    <3>1. /\ ~ isr[c] /\ cpus' = cpus /\ isr' = isr /\ timer' = timer /\ th' = th
          /\ \A d \in 1 .. cpus : d # c => on'[d] = on[d]
      BY <1>1, <2>1 DEF Preempt
    <3>2. Overtaken'
      BY <1>1, <3>1 DEF Overtaken
    <3> QED
      BY <1>1, <3>1, <3>2 DEF TimerRuns
  <2>2. CASE Expire(c)
    <3>1. /\ timer.memory = "live" /\ timer'.memory = "live"
          /\ th' = th /\ cpus' = cpus
      BY <1>1, <2>2 DEF Expire, kernel
    <3> QED
      BY <1>1, <3>1 DEF TimerRuns, Overtaken
  <2>3. CASE ExpireEnd(c)
    <3>1. /\ cpus' = cpus /\ on' = on /\ timer' = timer /\ th' = th
          /\ \A d \in 1 .. cpus : isr'[d] => isr[d]
      BY <1>1, <2>3 DEF ExpireEnd, kernel
    <3>2. Overtaken'
      BY <1>1, <3>1 DEF Overtaken
    <3> QED
      BY <1>1, <3>1, <3>2 DEF TimerRuns
  <2> QED
    BY <1>3, <2>1, <2>2, <2>3 DEF KernelStep
<1>4. ASSUME NEW t \in Threads, NEW c \in 1 .. cpus,
             BlockStep(t, c) \/ AccessorStep(t, c)
      PROVE  TimerRuns'
  <2>1. cpus' = cpus /\ on' = on /\ isr' = isr /\ timer' = timer
    BY <1>4 DEF BlockStep, AccessorStep, SyncAlloc, SyncRetain, SyncLock, SyncEnd, SyncReturn,
       SyncUnlock, SyncGive, SyncFree, Set, SetRetain, Get, PropMask, PropSpin, PropAccess,
       PropLeave, SetDrop, Use, Leave, kernel
  <2>2. OthersSame(t) /\ th'[t].pc # "delete"
    BY <1>1, <1>4, NextPc
  <2>3. \A u \in Threads : th'[u].pc = "delete" => th[u].pc = "delete"
    BY <2>2 DEF OthersSame
  <2>4. Overtaken'
    BY <1>1, <2>1, <2>3 DEF Overtaken
  <2>5. \A u \in Threads : th'[u].pc = "delete" => timer'.memory # "live"
    BY <1>1, <2>1, <2>3
  <2> QED
    BY <1>1, <2>1, <2>4, <2>5 DEF TimerRuns
<1>5. CASE UNCHANGED vars
  <2>1. cpus' = cpus /\ on' = on /\ isr' = isr /\ timer' = timer /\ th' = th
    BY <1>5 DEF vars, kernel
  <2> QED
    BY <1>1, <2>1 DEF TimerRuns, Overtaken
<1>6. ASSUME NEW t \in Threads, NEW c \in 1 .. cpus, on[c] = t, ~ isr[c], ThreadStep(t, c)
      PROVE  TimerRuns'
  BY <1>2, <1>4, <1>6, ThreadSteps
<1> QED
  BY <1>3, <1>5, <1>6, Steps

\* A step of a thread switches no CPU and begins and ends no handler.
LEMMA StepKernel ==
  ASSUME NEW t, NEW c, ThreadStep(t, c)
  PROVE  UNCHANGED kernel /\ isr' = isr
  BY DEF ThreadStep, SyncAlloc, SyncRetain, SyncLock, SyncEnd, SyncReturn, SyncUnlock,
     SyncGive, SyncFree, Set, SetRetain, Get, PropMask, PropSpin, PropAccess, PropLeave,
     SetDrop, Use, TimerSwitch, TimerDealloc, TimerFree, Leave

\* A handler only begins on a timer that runs, and a timer that runs is live.
LEMMA HandlerBegan ==
  ASSUME BlockInv, TimerRuns, [Next]_vars, NEW c \in 1 .. cpus, isr'[c],
         timer'.memory # "live"
  PROVE  isr[c]
<1>1. /\ timer \in [run : BOOLEAN, memory : {"live", "dying", "freed"}]
      /\ isr \in [1 .. cpus -> BOOLEAN]
      /\ timer.run => timer.memory = "live"
  BY DEF BlockInv, TypeOK, TimerRuns
<1>2. ASSUME NEW d \in 1 .. cpus, KernelStep(d) PROVE isr[c]
  <2>1. CASE Expire(d)
    BY <1>1, <2>1 DEF Expire
  <2>2. CASE Preempt(d)
    BY <2>2 DEF Preempt
  <2>3. CASE ExpireEnd(d)
    BY <1>1, <2>3 DEF ExpireEnd
  <2> QED
    BY <1>2, <2>1, <2>2, <2>3 DEF KernelStep
<1>3. ASSUME NEW t \in Threads, NEW d \in 1 .. cpus, ThreadStep(t, d) PROVE isr' = isr
  BY <1>3, StepKernel
<1>4. CASE UNCHANGED vars
  BY <1>4 DEF vars
<1> QED
  BY <1>2, <1>3, <1>4, Steps

(***************************************************************************)
(* The interrupt masks                                                     *)
(***************************************************************************)
\* How many of the blocks that thread t is in have their lock.
Depth(t) == IF th[t].pc \in {"retain", "lock", "give", "free"}
            THEN Len(th[t].stack) - 1 ELSE Len(th[t].stack)

\* A thread leaves one block at a time, the inner one.
LeavesTop(t) == th[t].leaving # <<>> => th[t].leaving = <<Top(t)>>

HeldPlaces ==
  BlockInv => \A t \in Threads :
                /\ Depth(t) \in Nat
                /\ LeavesTop(t) => Held(t) = 1 .. Depth(t)

LEMMA HeldOuter == HeldPlaces
<1> SUFFICES ASSUME BlockInv, NEW t \in Threads
             PROVE  Depth(t) \in Nat /\ (LeavesTop(t) => Held(t) = 1 .. Depth(t))
  BY DEF HeldPlaces
<1>1. InBlocks(t) /\ TypeOK
  BY DEF BlockInv, StackShape
<1>2. PICK n \in Nat : n = Len(th[t].stack) /\ DOMAIN th[t].stack = 1 .. n
  BY <1>1, ThreadKinds
<1>3. th[t].stack # <<>> => n >= 1
  BY <1>1, <1>2, ThreadKinds
<1>4. Depth(t) \in Nat
  <2>1. CASE th[t].pc \in {"retain", "lock", "give", "free"}
    <3>1. th[t].stack # <<>>
      BY <1>1, <2>1, LocksNamed DEF InBlocks
    <3> QED
      BY <1>2, <1>3, <2>1, <3>1 DEF Depth
  <2>2. CASE th[t].pc \notin {"retain", "lock", "give", "free"}
    BY <1>2, <2>2 DEF Depth
  <2> QED
    BY <2>1, <2>2
<1>5. ASSUME LeavesTop(t), NEW i \in 1 .. n
      PROVE  lock[th[t].stack[i]].state = "held" <=> i \in 1 .. Depth(t)
  <2>1. LockState(t, i)
    BY <1>1, <1>2 DEF InBlocks
  <2>2. CASE th[t].pc \in {"retain", "lock"}
    <3>1. Depth(t) = n - 1
      BY <1>2, <2>2 DEF Depth
    <3>2. lock[th[t].stack[i]].state = IF i = n THEN "fresh" ELSE "held"
      BY <1>2, <2>1, <2>2 DEF LockState
    <3> QED
      BY <3>1, <3>2
  <2>3. CASE th[t].pc \in {"give", "free"}
    <3>1. Depth(t) = n - 1
      BY <1>2, <2>3 DEF Depth
    <3>2. th[t].leaving # <<>> /\ th[t].leaving = <<th[t].stack[n]>>
      BY <1>1, <1>2, <1>5, <2>3 DEF InBlocks, LeavesTop, Top
    <3>3. Head(th[t].leaving) = th[t].stack[n]
      BY <3>2
    <3>4. n \in 1 .. n
      BY <1>2
    <3>5. th[t].stack[i] = th[t].stack[n] <=> i = n
      BY <1>2, <3>4 DEF BlockInv, StacksApart
    <3>6. lock[th[t].stack[i]].state = IF i = n THEN "unlocked" ELSE "held"
      BY <2>1, <2>3, <3>2, <3>3, <3>5 DEF LockState
    <3> QED
      BY <3>1, <3>6
  <2>4. CASE th[t].pc \notin {"retain", "lock", "give", "free"}
    <3>1. Depth(t) = n
      BY <1>2, <2>4 DEF Depth
    <3> QED
      BY <2>1, <2>4, <3>1 DEF LockState
  <2> QED
    BY <2>2, <2>3, <2>4
<1>6. ASSUME LeavesTop(t) PROVE Held(t) = 1 .. Depth(t)
  <2>1. Depth(t) <= n
    BY <1>2 DEF Depth
  <2>2. \A i \in 1 .. Depth(t) : i \in 1 .. n
    BY <1>4, <2>1
  <2>3. \A i : i \in Held(t) <=> i \in 1 .. Depth(t)
    BY <1>2, <1>5, <1>6, <2>2 DEF Held
  <2> QED
    BY <2>3
<1> QED
  BY <1>4, <1>6

LEMMA HeldOuterNext == HeldPlaces'
  BY HeldOuter, PTL

\* MaskInv by the number of locks a thread holds: what holds of each CPU, of a
\* thread that does not run, and of the keys of each thread.
MaskOf(c)    == masked[c] <=> Depth(on[c]) # 0 \/ InProp(on[c])
Quiet(t)     == (\A c \in 1 .. cpus : on[c] # t) => Depth(t) = 0 /\ ~ InProp(t)
BlockKeys(t) == \A i \in 1 .. Depth(t) : lock[th[t].stack[i]].key <=> i # 1
PropKey(t)   == InProp(t) => (th[t].key <=> Depth(t) # 0)

MaskDepth ==
  /\ \A c \in 1 .. cpus : MaskOf(c)
  /\ \A t \in Threads : LeavesTop(t) /\ Quiet(t) /\ BlockKeys(t) /\ PropKey(t)

MaskMeasure == BlockInv => (MaskInv <=> MaskDepth)

LEMMA MaskMeasured == MaskMeasure
<1> SUFFICES ASSUME BlockInv PROVE MaskInv <=> MaskDepth
  BY DEF MaskMeasure
<1>1. \A c \in 1 .. cpus : on[c] \in Threads
  BY DEF BlockInv, TypeOK
<1>2. ASSUME \A t \in Threads : LeavesTop(t) PROVE MaskInv <=> MaskDepth
  <2>1. \A t \in Threads : Depth(t) \in Nat /\ Held(t) = 1 .. Depth(t)
    BY <1>2, HeldOuter DEF HeldPlaces
  <2>2. \A t \in Threads : Held(t) # {} <=> Depth(t) # 0
    BY <2>1
  <2>3. (\A c \in 1 .. cpus : MaskOf(c)) <=> MaskExact
    BY <1>1, <2>2 DEF MaskOf, MaskExact
  <2>4. (\A t \in Threads : LeavesTop(t) /\ Quiet(t) /\ BlockKeys(t) /\ PropKey(t))
        <=> KeysExact
    BY <1>2, <2>1, <2>2 DEF Quiet, BlockKeys, PropKey, KeysExact, LeavesTop
  <2> QED
    BY <2>3, <2>4 DEF MaskInv, MaskDepth
<1>3. MaskInv => \A t \in Threads : LeavesTop(t)
  BY DEF MaskInv, KeysExact, LeavesTop
<1>4. MaskDepth => \A t \in Threads : LeavesTop(t)
  BY DEF MaskDepth
<1> QED
  BY <1>2, <1>3, <1>4

LEMMA MaskMeasuredNext == MaskMeasure'
  BY MaskMeasured, PTL

\* A lock that is free or on thread t's stack is on no other thread's.
LEMMA Untouched ==
  ASSUME BlockInv, NEW t \in Threads, NEW l \in 1 .. slab,
         lock[l].state = "free" \/ \E j \in DOMAIN th[t].stack : th[t].stack[j] = l,
         \A m \in 1 .. slab : m # l => lock'[m] = lock[m],
         NEW u \in Threads, u # t, NEW i \in DOMAIN th[u].stack
  PROVE  lock'[th[u].stack[i]] = lock[th[u].stack[i]]
<1>1. th[u].stack[i] \in 1 .. slab
  BY StackNames DEF BlockInv
<1>2. th[u].stack[i] # l
  BY <1>1 DEF BlockInv, StacksApart
<1> QED
  BY <1>1, <1>2

\* A step of thread t on its CPU.
MaskMove(t, c) ==
  /\ UNCHANGED kernel /\ on[c] = t /\ OthersSame(t)
  /\ \A d \in 1 .. cpus : d # c => masked'[d] = masked[d]
  /\ \A u \in Threads : u # t => \A i \in DOMAIN th[u].stack :
       lock'[th[u].stack[i]] = lock[th[u].stack[i]]

LEMMA MaskStep ==
  ASSUME BlockInv, MaskDepth, NEW t \in Threads, NEW c \in 1 .. cpus, MaskMove(t, c),
         MaskOf(c)', LeavesTop(t)', BlockKeys(t)', PropKey(t)'
  PROVE  MaskDepth'
<1>1. cpus' = cpus /\ on' = on /\ \A a, b \in 1 .. cpus : on[a] = on[b] => a = b
  BY DEF MaskMove, kernel, BlockInv, TypeOK
<1>2. \A d \in 1 .. cpus : on[d] \in Threads
  BY DEF BlockInv, TypeOK
<1>3. \A u \in Threads : u # t => th'[u] = th[u]
  BY DEF MaskMove, OthersSame
<1>4. \A u \in Threads : u # t => Depth(u)' = Depth(u) /\ (InProp(u)' <=> InProp(u))
  BY <1>3 DEF Depth, InProp
<1>5. ASSUME NEW d \in 1 .. cpus PROVE MaskOf(d)'
  <2>1. CASE d = c
    BY <2>1
  <2>2. CASE d # c
    <3>1. on[d] # t /\ on[d] \in Threads
      BY <1>1, <1>2, <2>2 DEF MaskMove
    <3>2. MaskOf(d) /\ masked'[d] = masked[d]
      BY <2>2 DEF MaskDepth, MaskMove
    <3> QED
      BY <1>1, <1>4, <3>1, <3>2 DEF MaskOf
  <2> QED
    BY <2>1, <2>2
<1>6. Quiet(t)'
  BY <1>1 DEF Quiet, MaskMove
<1>7. ASSUME NEW u \in Threads, u # t
      PROVE  LeavesTop(u)' /\ Quiet(u)' /\ BlockKeys(u)' /\ PropKey(u)'
  <2>1. LeavesTop(u) /\ Quiet(u) /\ BlockKeys(u) /\ PropKey(u)
    BY DEF MaskDepth
  <2>2. LeavesTop(u)'
    BY <1>3, <1>7, <2>1 DEF LeavesTop, Top
  <2>3. Quiet(u)'
    BY <1>1, <1>4, <1>7, <2>1 DEF Quiet
  <2>4. BlockKeys(u)'
    <3>1. \A i \in 1 .. Depth(u) : i \in DOMAIN th[u].stack
      <4>1. PICK n \in Nat : n = Len(th[u].stack) /\ DOMAIN th[u].stack = 1 .. n
        BY SMTT(60), ThreadKinds DEF BlockInv
      <4>2. Depth(u) \in Nat /\ Depth(u) <= n
        BY <4>1, HeldOuter DEF Depth, HeldPlaces
      <4> QED
        BY <4>1, <4>2
    <3>2. \A i \in 1 .. Depth(u) : lock'[th[u].stack[i]] = lock[th[u].stack[i]]
      BY <1>7, <3>1 DEF MaskMove
    <3> QED
      BY <1>3, <1>4, <1>7, <2>1, <3>2 DEF BlockKeys
  <2>5. PropKey(u)'
    BY <1>3, <1>4, <1>7, <2>1 DEF PropKey
  <2> QED
    BY <2>2, <2>3, <2>4, <2>5
<1> QED
  BY <1>1, <1>5, <1>6, <1>7 DEF MaskDepth

\* Most steps change neither the mask nor the locks that the thread holds.
LEMMA MaskSame ==
  ASSUME BlockInv, MaskDepth, NEW t \in Threads, NEW c \in 1 .. cpus, MaskMove(t, c),
         masked'[c] = masked[c], Depth(t)' = Depth(t), InProp(t)' <=> InProp(t),
         LeavesTop(t)', InProp(t) => th'[t].key = th[t].key,
         \A i \in 1 .. Depth(t) :
           lock'[th'[t].stack[i]].key <=> lock[th[t].stack[i]].key
  PROVE  MaskDepth'
<1>1. MaskOf(c) /\ BlockKeys(t) /\ PropKey(t)
  BY DEF MaskDepth
<1>2. MaskOf(c)'
  <2>1. on'[c] = t /\ on[c] = t
    BY DEF MaskMove, kernel
  <2> QED
    BY <1>1, <2>1 DEF MaskOf
<1>3. BlockKeys(t)'
  BY <1>1 DEF BlockKeys
<1>4. PropKey(t)'
  BY <1>1 DEF PropKey
<1> QED
  BY <1>2, <1>3, <1>4, MaskStep

\* The places of a stack.
LEMMA Places ==
  ASSUME BlockInv, NEW t \in Threads
  PROVE  \E n \in Nat : /\ n = Len(th[t].stack) /\ DOMAIN th[t].stack = 1 .. n
                        /\ Depth(t) = IF th[t].pc \in {"retain", "lock", "give", "free"}
                                      THEN n - 1 ELSE n
                        /\ \A i \in 1 .. n : th[t].stack[i] \in 1 .. slab
                        /\ \A i, k \in 1 .. n : th[t].stack[i] = th[t].stack[k] => i = k
                        /\ n # 0 => Top(t) = th[t].stack[n]
                        /\ th[t].stack = <<>> <=> n = 0
<1>1. TypeOK
  BY DEF BlockInv
<1>2. PICK n \in Nat : n = Len(th[t].stack) /\ DOMAIN th[t].stack = 1 .. n
  BY <1>1, ThreadKinds
<1>3. \A i \in 1 .. n : th[t].stack[i] \in 1 .. slab
  BY <1>1, <1>2, StackNames
<1>4. \A i, k \in 1 .. n : th[t].stack[i] = th[t].stack[k] => i = k
  BY <1>2 DEF BlockInv, StacksApart
<1>5. th[t].stack = <<>> <=> n = 0
  BY <1>1, <1>2, ThreadKinds
<1> QED
  BY <1>2, <1>3, <1>4, <1>5 DEF Depth, Top

\* The steps that change one lock and the thread's pc, without its key.
LEMMA MaskLockSame ==
  ASSUME BlockInv, MaskDepth, NEW t \in Threads, NEW c \in 1 .. cpus, on[c] = t,
         NEW l \in 1 .. slab, \E j \in DOMAIN th[t].stack : th[t].stack[j] = l,
         NEW q \in Locks, q.key = lock[l].key, lock' = [lock EXCEPT ![l] = q],
         NEW pc \in PCs, Go(t, pc), UNCHANGED kernel, masked' = masked,
         pc \in {"lock", "free"}, th[t].pc \in {"retain", "give"}
  PROVE  MaskDepth'
<1>1. TypeOK
  BY DEF BlockInv
<1>2. th'[t].pc = pc /\ SameBlocks(t) /\ SameAccess(t) /\ OthersSame(t)
  BY <1>1, GoUpdate
<1>3. lock'[l] = q /\ \A m \in 1 .. slab : m # l => lock'[m] = lock[m]
  BY <1>1, LockUpdate
<1>4. MaskMove(t, c)
  BY <1>2, <1>3, Untouched DEF MaskMove
<1>5. Depth(t)' = Depth(t) /\ ~ InProp(t)' /\ ~ InProp(t)
  BY <1>2 DEF Depth, InProp, SameBlocks
<1>6. LeavesTop(t)'
  BY <1>2 DEF MaskDepth, LeavesTop, Top, SameBlocks
<1>7. \A m \in 1 .. slab : lock'[m].key = lock[m].key
  BY <1>3
<1>8. ASSUME NEW i \in 1 .. Depth(t)
      PROVE  lock'[th'[t].stack[i]].key <=> lock[th[t].stack[i]].key
  <2>1. PICK n \in Nat : /\ Depth(t) = n - 1
                         /\ \A k \in 1 .. n : th[t].stack[k] \in 1 .. slab
    BY Places
  <2>2. i \in 1 .. n
    BY <2>1
  <2> QED
    BY <1>2, <1>7, <2>1, <2>2 DEF SameBlocks
<1> QED
  BY <1>4, <1>5, <1>6, <1>8, MaskSame

LEMMA RetainMask ==
  ASSUME BlockInv, MaskDepth, NEW t \in Threads, NEW c \in 1 .. cpus, SyncRetain(t, c)
  PROVE  MaskDepth'
<1>1. /\ th[t].pc = "retain" /\ on[c] = t /\ Go(t, "lock") /\ masked' = masked
      /\ lock' = [lock EXCEPT ![Top(t)].retains = TRUE] /\ UNCHANGED kernel
  BY DEF SyncRetain, At
<1>2. PICK j \in DOMAIN th[t].stack, l \in 1 .. slab :
        l = Top(t) /\ l = th[t].stack[j] /\ lock[l] \in Locks
  BY <1>1, TopLock
<1> DEFINE q == [lock[l] EXCEPT !.retains = TRUE]
<1>3. q \in Locks /\ q.key = lock[l].key
  BY <1>2 DEF Locks
<1>4. lock' = [lock EXCEPT ![l] = q]
  BY <1>1, <1>2
<1>5. "lock" \in PCs
  BY DEF PCs
<1> HIDE DEF q
<1> QED
  BY <1>1, <1>2, <1>3, <1>4, <1>5, MaskLockSame

LEMMA GiveMask ==
  ASSUME BlockInv, MaskDepth, NEW t \in Threads, NEW c \in 1 .. cpus, SyncGive(t, c)
  PROVE  MaskDepth'
<1>1. /\ th[t].pc = "give" /\ on[c] = t /\ Go(t, "free") /\ masked' = masked
      /\ lock' = [lock EXCEPT ![Head(th[t].leaving)].retains = FALSE] /\ UNCHANGED kernel
  BY DEF SyncGive, At
<1>2. PICK j \in DOMAIN th[t].stack, l \in 1 .. slab :
        l = Head(th[t].leaving) /\ l = th[t].stack[j] /\ lock[l] \in Locks
  BY <1>1, LeavingLock
<1> DEFINE q == [lock[l] EXCEPT !.retains = FALSE]
<1>3. q \in Locks /\ q.key = lock[l].key
  BY <1>2 DEF Locks
<1>4. lock' = [lock EXCEPT ![l] = q]
  BY <1>1, <1>2
<1>5. "free" \in PCs
  BY DEF PCs
<1> HIDE DEF q
<1> QED
  BY <1>1, <1>2, <1>3, <1>4, <1>5, MaskLockSame

LEMMA AllocMask ==
  ASSUME BlockInv, MaskDepth, NEW t \in Threads, NEW c \in 1 .. cpus, SyncAlloc(t, c)
  PROVE  MaskDepth'
<1>1. TypeOK /\ InBlocks(t)
  BY DEF BlockInv, StackShape
<1>2. /\ th[t].pc \in {"idle", "body"} /\ on[c] = t
      /\ UNCHANGED kernel /\ masked' = masked
      /\ \/ Go(t, "crashed") /\ lock' = lock
         \/ \E l \in FreeLocks : AllocFresh(t, l)
  BY <1>1, AllocCases
<1>3. PICK n \in Nat : /\ n = Len(th[t].stack) /\ Depth(t) = n
                       /\ \A i \in 1 .. n : th[t].stack[i] \in 1 .. slab
                       /\ DOMAIN th[t].stack = 1 .. n
  BY <1>2, Places
<1>4. th[t].leaving = <<>>
  BY <1>1, <1>2 DEF InBlocks
<1>5. CASE Go(t, "crashed") /\ lock' = lock
  <2>1. "crashed" \in PCs
    BY DEF PCs
  <2>2. th'[t].pc = "crashed" /\ SameBlocks(t) /\ SameAccess(t) /\ OthersSame(t)
    BY <1>1, <1>5, <2>1, GoUpdate
  <2>3. MaskMove(t, c)
    BY <1>2, <1>5, <2>2 DEF MaskMove
  <2>4. Depth(t)' = Depth(t) /\ ~ InProp(t)' /\ ~ InProp(t) /\ LeavesTop(t)'
    BY <1>2, <1>4, <2>2 DEF Depth, InProp, SameBlocks, LeavesTop
  <2>5. \A i \in 1 .. Depth(t) : lock'[th'[t].stack[i]].key <=> lock[th[t].stack[i]].key
    BY <1>5, <2>2 DEF SameBlocks
  <2> QED
    BY <1>2, <2>3, <2>4, <2>5, MaskSame
<1>6. CASE \E l \in FreeLocks : AllocFresh(t, l)
  <2>1. PICK l \in FreeLocks : AllocFresh(t, l)
    BY <1>6
  <2>2. /\ th'[t].pc = "retain" /\ th'[t].stack = Append(th[t].stack, l)
        /\ th'[t].leaving = th[t].leaving /\ SameAccess(t) /\ OthersSame(t)
        /\ \A m \in 1 .. slab : m # l => lock'[m] = lock[m]
    BY <1>1, <2>1, AllocUpdate
  <2>3. l \in 1 .. slab /\ lock[l].state = "free"
    BY DEF FreeLocks
  <2>4. MaskMove(t, c)
    BY <1>2, <2>2, <2>3, Untouched DEF MaskMove
  <2>5. Len(th'[t].stack) = n + 1 /\ \A i \in 1 .. n : th'[t].stack[i] = th[t].stack[i]
    <3>1. PICK D : D = 1 .. slab
      OBVIOUS
    <3>2. th[t].stack \in Seq(D) /\ l \in D
      BY <1>1, <2>3, <3>1, ThreadKinds
    <3>3. \A s \in Seq(D) : /\ Len(Append(s, l)) = Len(s) + 1
                            /\ \A i \in 1 .. Len(s) : Append(s, l)[i] = s[i]
      BY <3>2
    <3> QED
      BY <1>3, <2>2, <3>2, <3>3
  <2>6. Depth(t)' = Depth(t) /\ ~ InProp(t)' /\ ~ InProp(t) /\ LeavesTop(t)'
    BY <1>2, <1>3, <1>4, <2>2, <2>5 DEF Depth, InProp, LeavesTop
  <2>7. ASSUME NEW i \in 1 .. n
        PROVE  lock'[th'[t].stack[i]].key <=> lock[th[t].stack[i]].key
    <3>1. th[t].stack[i] \in 1 .. slab /\ th[t].stack[i] # l
      BY <1>3, <2>3 DEF BlockInv, StacksApart
    <3> QED
      BY <2>2, <2>5, <3>1
  <2> QED
    BY <1>2, <1>3, <2>4, <2>6, <2>7, MaskSame
<1> QED
  BY <1>2, <1>5, <1>6

\* Locking remembers the mask, which says whether the thread is in a block.
LEMMA LockMask ==
  ASSUME BlockInv, MaskDepth, NEW t \in Threads, NEW c \in 1 .. cpus, SyncLock(t, c)
  PROVE  MaskDepth'
<1>1. /\ th[t].pc = "lock" /\ on[c] = t /\ Go(t, "body") /\ UNCHANGED kernel
      /\ lock' = [lock EXCEPT ![Top(t)].state = "held", ![Top(t)].key = masked[c]]
      /\ masked' = [masked EXCEPT ![c] = TRUE]
  BY DEF SyncLock, At, Mask
<1>2. /\ TypeOK /\ InBlocks(t) /\ "body" \in PCs
      /\ masked \in [1 .. cpus -> BOOLEAN]
  BY DEF BlockInv, StackShape, PCs, TypeOK
<1>3. PICK n \in Nat : /\ n = Len(th[t].stack) /\ DOMAIN th[t].stack = 1 .. n
                       /\ Depth(t) = n - 1
                       /\ \A i \in 1 .. n : th[t].stack[i] \in 1 .. slab
                       /\ \A i, k \in 1 .. n : th[t].stack[i] = th[t].stack[k] => i = k
                       /\ n # 0 => Top(t) = th[t].stack[n]
                       /\ th[t].stack = <<>> <=> n = 0
  BY <1>1, Places
<1>4. n # 0 /\ n \in 1 .. n /\ th[t].leaving = <<>>
  BY <1>1, <1>2, <1>3 DEF InBlocks
<1>5. PICK l \in 1 .. slab : l = Top(t) /\ l = th[t].stack[n] /\ lock[l] \in Locks
  BY <1>2, <1>3, <1>4 DEF TypeOK
<1>6. masked[c] \in BOOLEAN /\ (masked[c] <=> n # 1)
  <2>1. MaskOf(c) /\ ~ InProp(t)
    BY <1>1 DEF MaskDepth, InProp
  <2>2. masked[c] <=> n - 1 # 0
    BY <1>1, <1>3, <2>1 DEF MaskOf
  <2> QED
    BY <1>2, <1>3, <2>2
<1> DEFINE q == [lock[l] EXCEPT !.state = "held", !.key = masked[c]]
<1>7. q \in Locks /\ (q.key <=> n # 1)
  BY <1>5, <1>6 DEF Locks
<1>8. lock' = [lock EXCEPT ![l] = q]
  BY <1>1, <1>2, <1>5 DEF TypeOK
<1> HIDE DEF q
<1>9. lock'[l] = q /\ \A m \in 1 .. slab : m # l => lock'[m] = lock[m]
  BY <1>2, <1>7, <1>8, LockUpdate
<1>10. th'[t].pc = "body" /\ SameBlocks(t) /\ SameAccess(t) /\ OthersSame(t)
  BY <1>1, <1>2, GoUpdate
<1>11. MaskMove(t, c)
  <2>1. \E k \in DOMAIN th[t].stack : th[t].stack[k] = l
    BY <1>3, <1>4, <1>5
  <2>2. \A u \in Threads : u # t => \A i \in DOMAIN th[u].stack :
          lock'[th[u].stack[i]] = lock[th[u].stack[i]]
    BY <1>9, <2>1, Untouched
  <2>3. \A d \in 1 .. cpus : d # c => masked'[d] = masked[d]
    BY <1>1, <1>2
  <2> QED
    BY <1>1, <1>10, <2>2, <2>3 DEF MaskMove
<1>12. Depth(t)' = n /\ ~ InProp(t)' /\ LeavesTop(t)'
  BY <1>3, <1>4, <1>10 DEF Depth, InProp, LeavesTop, SameBlocks
<1>13. MaskOf(c)'
  <2>1. on'[c] = t /\ masked'[c] = TRUE
    BY <1>1, <1>2 DEF kernel
  <2> QED
    BY <1>4, <1>12, <2>1 DEF MaskOf
<1>14. ASSUME NEW i \in 1 .. n PROVE lock'[th'[t].stack[i]].key <=> i # 1
  <2>1. CASE i = n
    BY <1>5, <1>7, <1>9, <1>10, <2>1 DEF SameBlocks
  <2>2. CASE i # n
    <3>1. i \in 1 .. n - 1 /\ th[t].stack[i] \in 1 .. slab /\ th[t].stack[i] # l
      BY <1>3, <1>4, <1>5, <2>2
    <3>2. lock[th[t].stack[i]].key <=> i # 1
      BY <1>3, <3>1 DEF MaskDepth, BlockKeys
    <3> QED
      BY <1>9, <1>10, <3>1, <3>2 DEF SameBlocks
  <2> QED
    BY <2>1, <2>2
<1>15. BlockKeys(t)' /\ PropKey(t)'
  BY <1>12, <1>14 DEF BlockKeys, PropKey
<1> QED
  BY <1>11, <1>12, <1>13, <1>15, MaskStep

\* Unlocking the inner block restores the mask that it found.
LEMMA UnlockMask ==
  ASSUME BlockInv, MaskDepth, NEW t \in Threads, NEW c \in 1 .. cpus, SyncUnlock(t, c)
  PROVE  MaskDepth'
<1>1. /\ th[t].pc = "unlock" /\ on[c] = t /\ Go(t, "give") /\ UNCHANGED kernel
      /\ lock' = [lock EXCEPT ![Head(th[t].leaving)].state = "unlocked"]
      /\ masked' = [masked EXCEPT ![c] = lock[Head(th[t].leaving)].key]
  BY DEF SyncUnlock, At, Mask
<1>2. /\ TypeOK /\ InBlocks(t) /\ "give" \in PCs
      /\ masked \in [1 .. cpus -> BOOLEAN]
  BY DEF BlockInv, StackShape, PCs, TypeOK
<1>3. PICK n \in Nat : /\ n = Len(th[t].stack) /\ DOMAIN th[t].stack = 1 .. n
                       /\ Depth(t) = n
                       /\ \A i \in 1 .. n : th[t].stack[i] \in 1 .. slab
                       /\ \A i, k \in 1 .. n : th[t].stack[i] = th[t].stack[k] => i = k
                       /\ n # 0 => Top(t) = th[t].stack[n]
                       /\ th[t].stack = <<>> <=> n = 0
  BY <1>1, Places
<1>4. th[t].leaving = <<Top(t)>> /\ n # 0 /\ n \in 1 .. n
  <2>1. th[t].leaving # <<>>
    BY <1>1, <1>2 DEF InBlocks
  <2>2. th[t].stack # <<>>
    BY <1>1, LeavingLock
  <2> QED
    BY <1>3, <2>1, <2>2 DEF MaskDepth, LeavesTop
<1>5. PICK l \in 1 .. slab : /\ l = Head(th[t].leaving) /\ l = th[t].stack[n]
                             /\ lock[l] \in Locks
  BY SMTT(60), <1>2, <1>3, <1>4 DEF TypeOK
<1>6. lock[l].key \in BOOLEAN /\ (lock[l].key <=> n # 1)
  BY <1>3, <1>4, <1>5 DEF MaskDepth, BlockKeys, Locks
<1> DEFINE q == [lock[l] EXCEPT !.state = "unlocked"]
<1>7. q \in Locks
  BY <1>5 DEF Locks
<1>8. lock' = [lock EXCEPT ![l] = q]
  BY <1>1, <1>5
<1> HIDE DEF q
<1>9. lock'[l] = q /\ \A m \in 1 .. slab : m # l => lock'[m] = lock[m]
  BY <1>2, <1>7, <1>8, LockUpdate
<1>10. th'[t].pc = "give" /\ SameBlocks(t) /\ SameAccess(t) /\ OthersSame(t)
  BY <1>1, <1>2, GoUpdate
<1>11. MaskMove(t, c)
  <2>1. \E k \in DOMAIN th[t].stack : th[t].stack[k] = l
    BY <1>3, <1>4, <1>5
  <2>2. \A u \in Threads : u # t => \A i \in DOMAIN th[u].stack :
          lock'[th[u].stack[i]] = lock[th[u].stack[i]]
    BY <1>9, <2>1, Untouched
  <2>3. \A d \in 1 .. cpus : d # c => masked'[d] = masked[d]
    BY <1>1, <1>2
  <2> QED
    BY <1>1, <1>10, <2>2, <2>3 DEF MaskMove
<1>12. Depth(t)' = n - 1 /\ ~ InProp(t)' /\ LeavesTop(t)'
  BY <1>3, <1>4, <1>10 DEF Depth, InProp, LeavesTop, SameBlocks, Top
<1>13. MaskOf(c)'
  <2>1. on'[c] = t /\ (masked'[c] <=> n # 1)
    BY <1>1, <1>2, <1>5, <1>6 DEF kernel
  <2>2. n # 1 <=> n - 1 # 0
    BY <1>3
  <2> QED
    BY <1>12, <2>1, <2>2 DEF MaskOf
<1>14. ASSUME NEW i \in 1 .. n - 1 PROVE lock'[th'[t].stack[i]].key <=> i # 1
  <2>1. i \in 1 .. n /\ i # n
    BY <1>3
  <2>2. th[t].stack[i] \in 1 .. slab /\ th[t].stack[i] # l
    BY <1>3, <1>4, <1>5, <2>1
  <2>3. lock[th[t].stack[i]].key <=> i # 1
    BY <1>3, <2>1 DEF MaskDepth, BlockKeys
  <2> QED
    BY <1>9, <1>10, <2>2, <2>3 DEF SameBlocks
<1>15. BlockKeys(t)' /\ PropKey(t)'
  BY <1>12, <1>14 DEF BlockKeys, PropKey
<1> QED
  BY <1>11, <1>12, <1>13, <1>15, MaskStep

LEMMA OneElement ==
  ASSUME NEW S, NEW s \in Seq(S), Len(s) = 1
  PROVE  s = <<s[Len(s)]>>
<1>1. s[1] \in S
  OBVIOUS
<1>2. /\ <<s[1]>> \in Seq(S) /\ Len(<<s[1]>>) = 1
      /\ \A i \in 1 .. 1 : s[i] = <<s[1]>>[i]
  BY <1>1
<1> QED
  BY <1>2, SeqEqual

LEMMA LeaveMask ==
  ASSUME BlockInv, MaskDepth, "single return" \in Rules,
         NEW t \in Threads, NEW c \in 1 .. cpus, SyncEnd(t, c) \/ SyncReturn(t, c)
  PROVE  MaskDepth'
<1>1. /\ th[t].pc = "body" /\ on[c] = t
      /\ UNCHANGED <<kernel, masked, block>>
  BY DEF SyncEnd, SyncReturn, Leave, At
<1>2. /\ OthersSame(t) /\ SameAccess(t)
      /\ th'[t].pc = "unlock" /\ th'[t].stack = th[t].stack
      /\ \/ th'[t].leaving = <<Top(t)>>
         \/ th'[t].leaving = th[t].stack /\ Len(th[t].stack) = 1
  BY LeaveKeeps
<1>3. lock' = lock /\ MaskMove(t, c)
  BY <1>1, <1>2 DEF block, MaskMove
<1>4. LeavesTop(t)'
  <2>1. ASSUME Len(th[t].stack) = 1 PROVE th[t].stack = <<Top(t)>>
    BY <2>1, OneElement, ThreadKinds DEF BlockInv, Top
  <2> QED
    BY <1>2, <2>1 DEF LeavesTop, Top
<1>5. Depth(t)' = Depth(t) /\ ~ InProp(t)' /\ ~ InProp(t)
  BY <1>1, <1>2 DEF Depth, InProp
<1> QED
  BY <1>1, <1>2, <1>3, <1>4, <1>5, MaskSame

LEMMA FreeMask ==
  ASSUME BlockInv, MaskDepth, NEW t \in Threads, NEW c \in 1 .. cpus, SyncFree(t, c)
  PROVE  MaskDepth'
<1>1. th[t].pc = "free" /\ on[c] = t /\ UNCHANGED <<kernel, masked>>
  BY DEF SyncFree, At
<1>2. TypeOK /\ InBlocks(t)
  BY DEF BlockInv, StackShape
<1>3. PICK n \in Nat : /\ n = Len(th[t].stack) /\ DOMAIN th[t].stack = 1 .. n
                       /\ Depth(t) = n - 1
                       /\ \A i \in 1 .. n : th[t].stack[i] \in 1 .. slab
                       /\ \A i, k \in 1 .. n : th[t].stack[i] = th[t].stack[k] => i = k
                       /\ n # 0 => Top(t) = th[t].stack[n]
                       /\ th[t].stack = <<>> <=> n = 0
  BY <1>1, Places
<1>4. th[t].leaving = <<Top(t)>> /\ n # 0 /\ n \in 1 .. n
  <2>1. th[t].leaving # <<>>
    BY <1>1, <1>2 DEF InBlocks
  <2>2. th[t].stack # <<>>
    BY <1>1, LeavingLock
  <2> QED
    BY <1>3, <2>1, <2>2 DEF MaskDepth, LeavesTop
<1>5. PICK l \in 1 .. slab : l = Head(th[t].leaving) /\ l = th[t].stack[n]
  BY <1>3, <1>4
<1>6. /\ OthersSame(t) /\ SameAccess(t) /\ th'[t].pc \in {"unlock", "body", "idle"}
      /\ th'[t].stack = Without(th[t].stack, th[t].stack[n])
      /\ th'[t].leaving = Tail(th[t].leaving)
      /\ \A m \in 1 .. slab : m # l => lock'[m] = lock[m]
  BY <1>5, FreeKeeps
<1>7. /\ Len(th'[t].stack) = n - 1
      /\ \A i \in 1 .. n - 1 : th'[t].stack[i] = th[t].stack[i]
  <2>1. PICK D : D = 1 .. slab
    OBVIOUS
  <2>2. PICK s \in Seq(D) : s = th[t].stack
    BY <1>2, <2>1, ThreadKinds
  <2>3. n \in DOMAIN s /\ \A i \in DOMAIN s : s[i] = s[n] => i = n
    BY <1>3, <1>4, <2>2
  <2>4. /\ Len(Without(s, s[n])) = Len(s) - 1
        /\ \A k \in 1 .. Len(s) - 1 :
             Without(s, s[n])[k] = IF k < n THEN s[k] ELSE s[k + 1]
    BY <2>3, WithoutElements
  <2>5. \A k \in 1 .. n - 1 : k < n
    BY <1>3
  <2> QED
    BY <1>3, <1>6, <2>2, <2>4, <2>5
<1>8. th'[t].leaving = <<>>
  BY <1>4, <1>6
<1>9. Depth(t)' = Depth(t) /\ ~ InProp(t)' /\ ~ InProp(t) /\ LeavesTop(t)'
  BY <1>1, <1>3, <1>6, <1>7, <1>8 DEF Depth, InProp, LeavesTop
<1>10. MaskMove(t, c)
  BY <1>1, <1>3, <1>4, <1>5, <1>6, Untouched DEF MaskMove
<1>11. ASSUME NEW i \in 1 .. Depth(t)
       PROVE  lock'[th'[t].stack[i]].key <=> lock[th[t].stack[i]].key
  <2>1. i \in 1 .. n /\ i # n /\ i \in 1 .. n - 1
    BY <1>3
  <2>2. th[t].stack[i] \in 1 .. slab /\ th[t].stack[i] # l
    BY <1>3, <1>4, <1>5, <2>1
  <2> QED
    BY <1>6, <1>7, <2>1, <2>2
<1> QED
  BY <1>1, <1>9, <1>10, <1>11, MaskSame

\* An accessor's step and the blocks that its thread is in.
LEMMA AccessedMask ==
  ASSUME BlockInv, MaskDepth, NEW t \in Threads, NEW c \in 1 .. cpus, on[c] = t,
         UNCHANGED <<kernel, block>>,
         NEW pc, NEW key, NEW new, NEW old, NEW got, Accessed(t, pc, key, new, old, got),
         \A d \in 1 .. cpus : d # c => masked'[d] = masked[d],
         th[t].pc \notin Special, pc \notin Special
  PROVE  /\ MaskMove(t, c) /\ Depth(t)' = Depth(t) /\ LeavesTop(t)' /\ BlockKeys(t)'
         /\ on'[c] = t
<1>1. lock' = lock /\ on' = on /\ OthersSame(t) /\ SameBlocks(t) /\ th'[t].pc = pc
  BY DEF block, kernel, Accessed
<1>2. MaskMove(t, c) /\ on'[c] = t
  BY <1>1 DEF MaskMove, OthersSame
<1>3. Depth(t)' = Depth(t) /\ LeavesTop(t)'
  BY <1>1 DEF MaskDepth, Depth, LeavesTop, Top, SameBlocks, Special
<1>4. BlockKeys(t)'
  BY <1>1, <1>3 DEF MaskDepth, BlockKeys, SameBlocks
<1> QED
  BY <1>2, <1>3, <1>4

\* Its steps within the critical section, or without.
LEMMA AccessedSame ==
  ASSUME BlockInv, MaskDepth, NEW t \in Threads, NEW c \in 1 .. cpus, on[c] = t,
         UNCHANGED <<kernel, block>>, masked' = masked,
         NEW pc, NEW new, NEW old, NEW got, Accessed(t, pc, th[t].key, new, old, got),
         th[t].pc \notin Special, pc \notin Special,
         pc \in {"spin", "access", "leave"} <=> InProp(t)
  PROVE  MaskDepth'
<1>1. /\ MaskMove(t, c) /\ Depth(t)' = Depth(t) /\ LeavesTop(t)' /\ BlockKeys(t)'
      /\ on'[c] = t
  BY AccessedMask
<1>2. (InProp(t)' <=> InProp(t)) /\ th'[t].key = th[t].key
  BY DEF InProp, Accessed
<1>3. MaskOf(c) /\ PropKey(t)
  BY DEF MaskDepth
<1>4. MaskOf(c)' /\ PropKey(t)'
  BY <1>1, <1>2, <1>3 DEF MaskOf, PropKey
<1> QED
  BY <1>1, <1>4, MaskStep

LEMMA PropMaskMask ==
  ASSUME BlockInv, MaskDepth, NEW t \in Threads, NEW c \in 1 .. cpus, PropMask(t, c)
  PROVE  MaskDepth'
<1>1. /\ th[t].pc = "mask" /\ on[c] = t /\ UNCHANGED <<kernel, block>>
      /\ masked' = [masked EXCEPT ![c] = TRUE] /\ masked \in [1 .. cpus -> BOOLEAN]
  BY DEF PropMask, At, Mask, BlockInv, TypeOK
<1>2. Accessed(t, "spin", masked[c], th[t].new, th[t].old, th[t].got)
  BY PropMaskEffect DEF BlockInv
<1>3. masked'[c] = TRUE /\ \A d \in 1 .. cpus : d # c => masked'[d] = masked[d]
  BY <1>1
<1>4. /\ MaskMove(t, c) /\ Depth(t)' = Depth(t) /\ LeavesTop(t)' /\ BlockKeys(t)'
      /\ on'[c] = t
  <2>1. th[t].pc \notin Special /\ "spin" \notin Special
    BY <1>1 DEF Special
  <2> QED
    BY <1>1, <1>2, <1>3, <2>1, AccessedMask
<1>5. InProp(t)' /\ th'[t].key = masked[c]
  BY <1>2 DEF InProp, Accessed
<1>6. MaskOf(c)'
  BY <1>3, <1>4, <1>5 DEF MaskOf
<1>7. PropKey(t)'
  <2>1. MaskOf(c) /\ ~ InProp(t)
    BY <1>1 DEF MaskDepth, InProp
  <2> QED
    BY <1>1, <1>4, <1>5, <2>1 DEF MaskOf, PropKey
<1> QED
  BY <1>4, <1>6, <1>7, MaskStep

LEMMA PropLeaveMask ==
  ASSUME BlockInv, MaskDepth, NEW t \in Threads, NEW c \in 1 .. cpus, PropLeave(t, c)
  PROVE  MaskDepth'
<1>1. PICK pc \in PCs : pc \in {"drop", "use"} /\ Go(t, pc)
  BY DEF PropLeave, PCs
<1>2. /\ th[t].pc = "leave" /\ on[c] = t /\ UNCHANGED <<kernel, block>>
      /\ masked' = [masked EXCEPT ![c] = th[t].key] /\ masked \in [1 .. cpus -> BOOLEAN]
  BY DEF PropLeave, At, Mask, BlockInv, TypeOK
<1>3. Accessed(t, pc, th[t].key, th[t].new, th[t].old, th[t].got)
  BY <1>1, GoAccessed DEF BlockInv
<1>4. masked'[c] = th[t].key /\ \A d \in 1 .. cpus : d # c => masked'[d] = masked[d]
  BY <1>2
<1>5. /\ MaskMove(t, c) /\ Depth(t)' = Depth(t) /\ LeavesTop(t)' /\ BlockKeys(t)'
      /\ on'[c] = t
  BY <1>1, <1>2, <1>3, <1>4, AccessedMask DEF Special
<1>6. ~ InProp(t)'
  BY <1>1, <1>3 DEF InProp, Accessed
<1>7. PropKey(t)'
  BY <1>6 DEF PropKey
<1>8. MaskOf(c)'
  <2>1. th[t].key <=> Depth(t) # 0
    BY <1>2 DEF MaskDepth, PropKey, InProp
  <2> QED
    BY <1>4, <1>5, <1>6, <2>1 DEF MaskOf
<1> QED
  BY <1>5, <1>7, <1>8, MaskStep

LEMMA AccessorMask ==
  ASSUME BlockInv, MaskDepth, NEW t \in Threads, NEW c \in 1 .. cpus, on[c] = t,
         AccessorStep(t, c)
  PROVE  MaskDepth'
<1>1. TypeOK
  BY DEF BlockInv
<1>2. CASE Set(t, c)
  <2>1. /\ th[t].pc \in {"idle", "body"} /\ masked' = masked /\ UNCHANGED <<kernel, block>>
    BY <1>2 DEF Set, Calls, At
  <2>2. PICK v : Accessed(t, "set", th[t].key, v, th[t].old, th[t].got)
    BY <1>1, <1>2, SetEffect
  <2> QED
    BY <2>1, <2>2, AccessedSame DEF Special, InProp
<1>3. CASE SetRetain(t, c)
  <2>1. /\ th[t].pc = "set" /\ masked' = masked /\ UNCHANGED <<kernel, block>>
        /\ Go(t, "mask") /\ "mask" \in PCs
    BY <1>3 DEF SetRetain, At, PCs
  <2>2. Accessed(t, "mask", th[t].key, th[t].new, th[t].old, th[t].got)
    BY <1>1, <2>1, GoAccessed
  <2> QED
    BY <2>1, <2>2, AccessedSame DEF Special, InProp
<1>4. CASE Get(t, c)
  <2>1. /\ th[t].pc \in {"idle", "body"} /\ masked' = masked /\ UNCHANGED <<kernel, block>>
    BY <1>4 DEF Get, Calls, At
  <2>2. Accessed(t, "mask", th[t].key, th[t].new, th[t].old, th[t].got)
    BY <1>1, <1>4, GetEffect
  <2> QED
    BY <2>1, <2>2, AccessedSame DEF Special, InProp
<1>5. CASE PropSpin(t, c)
  <2>1. /\ th[t].pc = "spin" /\ masked' = masked /\ UNCHANGED <<kernel, block>>
    BY <1>5 DEF PropSpin, At
  <2>2. Accessed(t, "access", th[t].key, th[t].new, th[t].old, ivar)
    BY <1>1, <1>5, PropSpinEffect
  <2> QED
    BY <2>1, <2>2, AccessedSame DEF Special, InProp
<1>6. CASE PropAccess(t, c)
  <2>1. /\ th[t].pc = "access" /\ masked' = masked /\ UNCHANGED <<kernel, block>>
    BY <1>6 DEF PropAccess, At
  <2>2. PICK old, got : Accessed(t, "leave", th[t].key, th[t].new, old, got)
    BY <1>1, <1>6, PropAccessEffect
  <2> QED
    BY <2>1, <2>2, AccessedSame DEF Special, InProp
<1>7. CASE SetDrop(t, c)
  <2>1. /\ th[t].pc = "drop" /\ masked' = masked /\ UNCHANGED <<kernel, block>>
    BY <1>7 DEF SetDrop, At
  <2>2. Accessed(t, Back(t), th[t].key, None, None, th[t].got)
    BY <1>1, <1>7, SetDropEffect
  <2>3. /\ th[t].pc \notin Special /\ Back(t) \notin Special
        /\ Back(t) \in {"spin", "access", "leave"} <=> InProp(t)
    BY <2>1, BackCases DEF Special, InProp
  <2> QED
    BY <2>1, <2>2, <2>3, AccessedSame
<1>8. CASE Use(t, c)
  <2>1. /\ th[t].pc = "use" /\ masked' = masked /\ UNCHANGED <<kernel, block>>
    BY <1>8 DEF Use, At
  <2>2. Accessed(t, Back(t), th[t].key, th[t].new, th[t].old, None)
    BY <1>1, <1>8, UseEffect
  <2> QED
    BY <2>1, <2>2, BackCases, AccessedSame DEF Special, InProp
<1> QED
  BY <1>2, <1>3, <1>4, <1>5, <1>6, <1>7, <1>8, PropMaskMask, PropLeaveMask DEF AccessorStep

LEMMA TimerStepMask ==
  ASSUME BlockInv, MaskDepth, NEW t \in Threads, NEW c \in 1 .. cpus, on[c] = t,
         TimerStep(t, c)
  PROVE  MaskDepth'
<1>1. /\ OthersSame(t) /\ SameBlocks(t) /\ SameAccess(t)
      /\ UNCHANGED <<kernel, masked, isr, block, prop>>
      /\ th[t].pc \in {"idle", "delete"} /\ th'[t].pc \in {"idle", "delete"}
  BY TimerStepEffect DEF BlockInv
<1>2. lock' = lock /\ MaskMove(t, c)
  BY <1>1 DEF block, MaskMove
<1>3. Depth(t)' = Depth(t) /\ ~ InProp(t)' /\ ~ InProp(t) /\ LeavesTop(t)'
  BY <1>1 DEF MaskDepth, Depth, InProp, LeavesTop, Top, SameBlocks
<1> QED
  BY <1>1, <1>2, <1>3, MaskSame DEF SameBlocks

\* The kernel switches threads where interrupts are not masked.
LEMMA KernelStepMask ==
  ASSUME BlockInv, MaskDepth, NEW c \in 1 .. cpus, KernelStep(c),
         UNCHANGED <<cpus, slab, masked, block, prop, th>>
  PROVE  MaskDepth'
<1>1. /\ cpus' = cpus /\ lock' = lock /\ th' = th /\ masked' = masked
      /\ on \in [1 .. cpus -> Threads]
  BY DEF block, BlockInv, TypeOK
<1>2. \A t \in Threads : /\ Depth(t)' = Depth(t) /\ (InProp(t)' <=> InProp(t))
                         /\ LeavesTop(t)' /\ BlockKeys(t)' /\ PropKey(t)'
  BY <1>1 DEF MaskDepth, Depth, InProp, LeavesTop, Top, BlockKeys, PropKey
<1>3. CASE on' = on
  <2>1. \A d \in 1 .. cpus : MaskOf(d)'
    BY <1>1, <1>2, <1>3 DEF MaskDepth, MaskOf
  <2>2. \A t \in Threads : Quiet(t)'
    BY <1>1, <1>2, <1>3 DEF MaskDepth, Quiet
  <2> QED
    BY <1>1, <1>2, <2>1, <2>2 DEF MaskDepth
<1>4. CASE Preempt(c)
  <2>1. PICK t \in Threads : /\ \A d \in 1 .. cpus : on[d] # t
                             /\ on' = [on EXCEPT ![c] = t] /\ ~ masked[c]
    BY <1>4 DEF Preempt
  <2>2. on'[c] = t /\ \A d \in 1 .. cpus : d # c => on'[d] = on[d]
    BY <1>1, <2>1
  <2>3. Depth(t) = 0 /\ ~ InProp(t)
    BY <2>1 DEF MaskDepth, Quiet
  <2>4. Depth(on[c]) = 0 /\ ~ InProp(on[c])
    BY <2>1 DEF MaskDepth, MaskOf
  <2>5. ASSUME NEW d \in 1 .. cpus PROVE MaskOf(d)'
    <3>1. CASE d = c
      BY <1>1, <1>2, <2>1, <2>2, <2>3, <3>1 DEF MaskOf
    <3>2. CASE d # c
      BY <1>1, <1>2, <2>2, <3>2 DEF MaskOf, MaskDepth
    <3> QED
      BY <3>1, <3>2
  <2>6. ASSUME NEW u \in Threads PROVE Quiet(u)'
    <3>1. CASE u = on[c]
      BY <1>1, <1>2, <2>4, <3>1 DEF Quiet
    <3>2. CASE u # on[c] /\ u # t
      BY <1>1, <1>2, <2>2, <3>2 DEF MaskDepth, Quiet
    <3>3. CASE u = t
      BY <1>1, <2>2, <3>3 DEF Quiet
    <3> QED
      BY <3>1, <3>2, <3>3
  <2> QED
    BY <1>1, <1>2, <2>5, <2>6 DEF MaskDepth
<1> QED
  BY <1>3, <1>4 DEF KernelStep, Expire, ExpireEnd, kernel

LEMMA MaskDepthStep ==
  ASSUME CoreInv, MaskDepth, "single return" \in Rules, [Next]_vars
  PROVE  MaskDepth'
<1>1. BlockInv
  BY DEF CoreInv
<1>2. ASSUME NEW t \in Threads, NEW c \in 1 .. cpus, on[c] = t, ThreadStep(t, c)
      PROVE  MaskDepth'
  <2>1. CASE BlockStep(t, c)
    BY <1>1, <2>1, AllocMask, RetainMask, LockMask, LeaveMask, UnlockMask, GiveMask, FreeMask
    DEF BlockStep
  <2> QED
    BY <1>1, <1>2, <2>1, ThreadSteps, AccessorMask, TimerStepMask
<1>3. ASSUME NEW c \in 1 .. cpus, KernelStep(c) PROVE MaskDepth'
  BY <1>1, <1>3, KernelStepKeeps, KernelStepMask
<1>4. CASE UNCHANGED vars
  <2>1. cpus' = cpus /\ on' = on /\ lock' = lock /\ th' = th /\ masked' = masked
    BY <1>4 DEF vars, kernel, block
  <2>2. \A t \in Threads : Depth(t)' = Depth(t) /\ (InProp(t)' <=> InProp(t))
    BY <2>1 DEF Depth, InProp
  <2>3. /\ \A t \in Threads : LeavesTop(t)' /\ Quiet(t)' /\ BlockKeys(t)' /\ PropKey(t)'
        /\ \A c \in 1 .. cpus : on[c] \in Threads
    BY ZenonT(60), <1>1, <2>1, <2>2 DEF MaskDepth, LeavesTop, Top, Quiet, BlockKeys, PropKey, BlockInv, TypeOK
  <2>4. \A c \in 1 .. cpus : MaskOf(c)'
    BY <2>1, <2>2, <2>3 DEF MaskDepth, MaskOf
  <2> QED
    BY <2>1, <2>3, <2>4 DEF MaskDepth
<1> QED
  BY <1>2, <1>3, <1>4, Steps

(***************************************************************************)
(* The size of the slab                                                    *)
(***************************************************************************)
\* No more locks than places on the stacks, when each is on a stack, of which
\* thread t's has at most d places and the others' at most k.
LEMMA Crowded ==
  ASSUME NEW t \in Threads, NEW k \in Nat, NEW d \in Nat, NEW n \in Nat,
         NEW f \in [1 .. n -> Threads \X Nat],
         \A l \in 1 .. n : IF f[l][1] = t THEN f[l][2] \in 1 .. d ELSE f[l][2] \in 1 .. k,
         \A l, m \in 1 .. n : f[l] = f[m] => l = m
  PROVE  n <= (Cardinality(Threads) - 1) * k + d
<1> DEFINE A == (Threads \ {t}) \X (1 .. k)
           B == {t} \X (1 .. d)
<1>1. /\ IsFiniteSet(Threads \ {t}) /\ Cardinality(Threads \ {t}) = Cardinality(Threads) - 1
  BY SyncAssumption, FS_RemoveElement
<1>2. /\ IsFiniteSet(1 .. k) /\ Cardinality(1 .. k) = k
      /\ IsFiniteSet(1 .. d) /\ Cardinality(1 .. d) = d
      /\ IsFiniteSet(1 .. n) /\ Cardinality(1 .. n) = n
  <2>1. ASSUME NEW m \in Nat PROVE IsFiniteSet(1 .. m) /\ Cardinality(1 .. m) = m
    <3>1. /\ IsFiniteSet(1 .. m)
          /\ Cardinality(1 .. m) = IF 1 > m THEN 0 ELSE m - 1 + 1
      BY FS_Interval
    <3> QED
      BY <3>1
  <2> QED
    BY <2>1
<1>3. IsFiniteSet({t}) /\ Cardinality({t}) = 1
  BY FS_Singleton
<1>4. /\ IsFiniteSet(A) /\ Cardinality(A) = Cardinality(Threads \ {t}) * Cardinality(1 .. k)
  BY <1>1, <1>2, FS_Product
<1>5. /\ IsFiniteSet(B) /\ Cardinality(B) = Cardinality({t}) * Cardinality(1 .. d)
  BY <1>2, <1>3, FS_Product
<1>6. /\ Cardinality(A) = (Cardinality(Threads) - 1) * k /\ Cardinality(B) = d
  BY <1>1, <1>2, <1>3, <1>4, <1>5
<1>7. \A l \in 1 .. n : f[l] \in A \cup B
  OBVIOUS
<1> HIDE DEF A, B
<1>8. /\ IsFiniteSet(A \cup B)
      /\ Cardinality(A \cup B) = Cardinality(A) + Cardinality(B) - Cardinality(A \cap B)
      /\ Cardinality(A \cap B) \in Nat
  <2>1. IsFiniteSet(A \cap B)
    BY <1>4, FS_Intersection
  <2> QED
    BY <1>4, <1>5, <2>1, FS_Union, FS_CardinalityType
<1>9. Cardinality(A) \in Nat /\ Cardinality(A \cup B) <= Cardinality(A) + d
  BY <1>4, <1>6, <1>8, FS_CardinalityType
<1>10. f \in [1 .. n -> A \cup B]
  BY <1>7
<1>11. ~ Cardinality(A \cup B) < Cardinality(1 .. n)
  BY <1>2, <1>8, <1>10, FS_PigeonHole
<1>12. Cardinality(A \cup B) \in Nat
  BY <1>8, FS_CardinalityType
<1>13. n <= Cardinality(A) + d
  BY <1>2, <1>9, <1>11, <1>12
<1> QED
  BY <1>6, <1>13

\* With one CPU, a thread that does not run is in at most one block.
LEMMA OneBlock ==
  ASSUME BlockInv, MaskDepth, cpus = 1, NEW t \in Threads, on[1] = t,
         NEW u \in Threads, u # t
  PROVE  Len(th[u].stack) <= 1
<1>1. Depth(u) = 0
  BY DEF MaskDepth, Quiet
<1> QED
  BY <1>1, Places

\* A thread that finds the slab empty, while all are in the blocks that they
\* can be in, needs one more lock than the slab has.
LEMMA SlabEmpty ==
  ASSUME BlockInv, MaskDepth, NEW t \in Threads, NEW c \in 1 .. cpus, on[c] = t,
         FreeLocks = {}, Len(th[t].stack) < MaxDepth
  PROVE  slab < Needed
<1>1. /\ TypeOK /\ slab \in Nat /\ MaxDepth \in Nat /\ cpus \in Nat \ {0}
      /\ \A u \in Threads : InBlocks(u)
  BY Kernel, SyncAssumption DEF BlockInv, StackShape
<1>2. \A l \in 1 .. slab : \E u \in Threads : \E i \in DOMAIN th[u].stack : th[u].stack[i] = l
  BY DEF FreeLocks, BlockInv, StacksApart, Free
<1>3. ASSUME NEW u \in Threads
      PROVE  \E n \in Nat : /\ n = Len(th[u].stack) /\ DOMAIN th[u].stack = 1 .. n
                            /\ n <= MaxDepth
  BY <1>1, Places DEF InBlocks
<1>4. MaxDepth - 1 \in Nat
  <2>1. Len(th[t].stack) \in Nat
    BY <1>3
  <2> QED
    BY <1>1, <2>1
<1>5. PICK k \in Nat : k = IF cpus = 1 THEN 1 ELSE MaxDepth
  BY <1>1
<1>6. PICK d \in Nat : d = MaxDepth - 1
  BY <1>4
<1>7. ASSUME NEW u \in Threads, NEW i \in DOMAIN th[u].stack
      PROVE  i \in Nat /\ IF u = t THEN i \in 1 .. d ELSE i \in 1 .. k
  <2>1. PICK n \in Nat : /\ n = Len(th[u].stack) /\ DOMAIN th[u].stack = 1 .. n
                         /\ n <= MaxDepth
    BY <1>3
  <2>2. CASE u = t
    BY <1>1, <1>6, <2>1, <2>2
  <2>3. CASE u # t /\ cpus = 1
    <3>1. on[1] = t
      BY <2>3
    <3>2. n <= 1
      BY <2>1, <2>3, <3>1, OneBlock
    <3> QED
      BY <1>5, <2>1, <2>3, <3>2
  <2>4. CASE u # t /\ cpus # 1
    BY <1>1, <1>5, <2>1, <2>4
  <2> QED
    BY <2>2, <2>3, <2>4
<1> DEFINE P == Threads \X Nat
           Where(p, l) == p[2] \in DOMAIN th[p[1]].stack /\ th[p[1]].stack[p[2]] = l
           f == [l \in 1 .. slab |-> CHOOSE p \in P : Where(p, l)]
<1>8. ASSUME NEW l \in 1 .. slab PROVE f[l] \in P /\ Where(f[l], l)
  <2>0. PICK u \in Threads : \E i \in DOMAIN th[u].stack : th[u].stack[i] = l
    BY <1>2
  <2>1. PICK i \in DOMAIN th[u].stack : th[u].stack[i] = l
    BY <2>0
  <2>2. <<u, i>> \in P /\ Where(<<u, i>>, l)
    BY <1>7, <2>1
  <2>3. \E p \in P : Where(p, l)
    BY <2>2
  <2> HIDE DEF P, Where
  <2>4. f[l] = CHOOSE p \in P : Where(p, l)
    OBVIOUS
  <2> QED
    BY <2>3, <2>4
<1>9. f \in [1 .. slab -> P]
  BY <1>8
<1> HIDE DEF f
<1>10. \A l \in 1 .. slab : IF f[l][1] = t THEN f[l][2] \in 1 .. d ELSE f[l][2] \in 1 .. k
  BY <1>7, <1>8
<1>11. \A l, m \in 1 .. slab : f[l] = f[m] => l = m
  BY <1>8
<1>12. slab <= (Cardinality(Threads) - 1) * k + d
  BY <1>1, <1>9, <1>10, <1>11, Crowded
<1>13. Cardinality(Threads) \in Nat
  BY SyncAssumption, FS_CardinalityType
<1>14. CASE cpus = 1
  <2>1. (Cardinality(Threads) - 1) * 1 = Cardinality(Threads) - 1
    BY <1>13
  <2>2. Needed = Cardinality(Threads) + MaxDepth - 1
    BY <1>14 DEF Needed
  <2> QED
    BY <1>1, <1>5, <1>6, <1>12, <1>13, <1>14, <2>1, <2>2
<1>15. CASE cpus # 1
  <2>1. Needed = Cardinality(Threads) * MaxDepth
    BY <1>15 DEF Needed
  <2>2. (Cardinality(Threads) - 1) * MaxDepth = Cardinality(Threads) * MaxDepth - MaxDepth
    BY <1>1, <1>13
  <2>3. Cardinality(Threads) * MaxDepth \in Nat
    BY <1>1, <1>13
  <2> QED
    BY <1>1, <1>5, <1>6, <1>12, <1>15, <2>1, <2>2, <2>3
<1> QED
  BY <1>14, <1>15

LEMMA SlabStep ==
  ASSUME CoreInv, MaskDepth, SlabSuffices, [Next]_vars
  PROVE  SlabSuffices'
<1>1. BlockInv /\ TypeOK
  BY DEF CoreInv, BlockInv
<1>2. ASSUME cpus' = cpus, slab' = slab,
             (\E t \in Threads : th'[t].pc = "crashed") => \E t \in Threads : th[t].pc = "crashed"
      PROVE  SlabSuffices'
  BY <1>2 DEF SlabSuffices, Needed
<1>3. ASSUME NEW t \in Threads, NEW c \in 1 .. cpus, on[c] = t, ThreadStep(t, c)
      PROVE  SlabSuffices'
  <2>1. CASE SyncAlloc(t, c)
    <3>1. /\ Len(th[t].stack) < MaxDepth /\ cpus' = cpus /\ slab' = slab
          /\ \/ FreeLocks = {}
             \/ \E l \in FreeLocks : AllocFresh(t, l)
      BY <1>1, <2>1, AllocCases DEF kernel
    <3>2. CASE FreeLocks = {}
      <4>1. slab < Needed
        BY <1>1, <1>3, <3>1, <3>2, SlabEmpty
      <4> QED
        BY <3>1, <4>1 DEF SlabSuffices, Needed
    <3>3. CASE \E l \in FreeLocks : AllocFresh(t, l)
      <4>1. th'[t].pc = "retain" /\ OthersSame(t)
        BY <1>1, <3>3, AllocUpdate
      <4> QED
        BY <1>2, <3>1, <4>1 DEF OthersSame
    <3> QED
      BY <3>1, <3>2, <3>3
  <2>2. CASE ~ SyncAlloc(t, c)
    <3>1. cpus' = cpus /\ slab' = slab
      BY <1>3, <2>2 DEF ThreadStep, SyncRetain, SyncLock, SyncEnd, SyncReturn, Leave,
         SyncUnlock, SyncGive, SyncFree, Set, SetRetain, Get, PropMask, PropSpin, PropAccess,
         PropLeave, SetDrop, Use, TimerSwitch, TimerDealloc, TimerFree, kernel
    <3>2. OthersSame(t) /\ th'[t].pc # "crashed"
      BY <1>1, <1>3, <2>2, ThreadSteps, NextPc, TimerStepEffect
    <3> QED
      BY <1>2, <3>1, <3>2 DEF OthersSame
  <2> QED
    BY <2>1, <2>2
<1>4. ASSUME NEW c \in 1 .. cpus, KernelStep(c) PROVE SlabSuffices'
  BY <1>2, <1>4, KernelStepKeeps
<1>5. CASE UNCHANGED vars
  BY <1>2, <1>5 DEF vars, kernel
<1> QED
  BY <1>3, <1>4, <1>5, Steps

(***************************************************************************)
(* The getters                                                             *)
(***************************************************************************)
Getting == {"mask", "spin", "access", "leave", "use"}

\* GettersInside by the number of locks a thread holds.
Inside(t) ==
  th[t].pc \in Getting /\ th[t].new = None
    => /\ cpus = 1 /\ Depth(t) # 0
       /\ th[t].pc \in {"leave", "use"} => th[t].got = ivar

GettersMeasure ==
  BlockInv /\ MaskInv => (GettersInside <=> \A t \in Threads : Inside(t))

LEMMA GettersMeasured == GettersMeasure
<1> SUFFICES ASSUME BlockInv, MaskInv
             PROVE  GettersInside <=> \A t \in Threads : Inside(t)
  BY DEF GettersMeasure
<1>1. MaskDepth
  BY MaskMeasured DEF MaskMeasure
<1>2. ASSUME NEW t \in Threads PROVE Held(t) # {} <=> Depth(t) # 0
  <2>1. Depth(t) \in Nat /\ Held(t) = 1 .. Depth(t)
    BY <1>1, HeldOuter DEF HeldPlaces, MaskDepth
  <2> QED
    BY <2>1
<1> QED
  BY <1>2 DEF GettersInside, Inside, Getting

LEMMA GettersMeasuredNext == GettersMeasure'
  BY GettersMeasured, PTL

\* A getter whose caller is in a block has its CPU, and the only one.
LEMMA GetterAlone ==
  ASSUME MaskDepth, NEW t \in Threads, NEW c \in 1 .. cpus, on[c] = t, OthersSame(t),
         \A u \in Threads : Inside(u), NEW u \in Threads, u # t
  PROVE  Inside(u)'
<1>1. SUFFICES ASSUME th[u].pc \in Getting, th[u].new = None PROVE FALSE
  BY DEF Inside, OthersSame
<1>2. cpus = 1 /\ Depth(u) # 0
  BY <1>1 DEF Inside
<1>3. \A d \in 1 .. cpus : on[d] # u
  BY <1>2
<1> QED
  BY <1>2, <1>3 DEF MaskDepth, Quiet

LEMMA AccessorInside ==
  ASSUME CoreInv, NEW t \in Threads, NEW c \in 1 .. cpus, AccessorStep(t, c),
         "guarded getter" \in Rules, Inside(t)
  PROVE  OthersSame(t) /\ Inside(t)'
<1>1. TypeOK /\ BlockInv /\ InAccessor(t)
  BY DEF CoreInv, BlockInv, AccessInv, AccessorShape
<1>2. cpus' = cpus
  BY DEF AccessorStep, Set, SetRetain, Get, PropMask, PropSpin, PropAccess, PropLeave,
     SetDrop, Use, kernel
<1>3. CASE Set(t, c)
  BY <1>1, <1>3, SetEffect DEF Accessed, Inside, Getting
<1>4. CASE SetRetain(t, c)
  <2>1. th[t].pc = "set" /\ Go(t, "mask") /\ "mask" \in PCs
    BY <1>4 DEF SetRetain, At, PCs
  <2>2. OthersSame(t) /\ th'[t].new # None
    BY <1>1, <2>1, GoUpdate DEF InAccessor, SameAccess
  <2> QED
    BY <2>2 DEF Inside
<1>5. CASE Get(t, c)
  <2>1. /\ OthersSame(t) /\ SameBlocks(t) /\ th'[t].pc = "mask"
    BY <1>1, <1>5, GetEffect DEF Accessed
  <2>2. cpus = 1 /\ th[t].stack # <<>>
    BY <1>5 DEF Get
  <2>3. Depth(t)' # 0
    BY <1>1, <2>1, <2>2, Places DEF Depth, SameBlocks
  <2> QED
    BY <1>2, <2>1, <2>2, <2>3 DEF Inside
<1>6. CASE PropMask(t, c)
  <2>1. /\ OthersSame(t) /\ SameBlocks(t) /\ th'[t].pc = "spin" /\ th[t].pc = "mask"
        /\ th'[t].new = th[t].new
    BY <1>1, <1>6, PropMaskEffect DEF Accessed, PropMask, At
  <2> QED
    BY <1>2, <2>1 DEF Inside, Getting, Depth, SameBlocks
<1>7. CASE PropSpin(t, c)
  <2>1. /\ OthersSame(t) /\ SameBlocks(t) /\ th'[t].pc = "access" /\ th[t].pc = "spin"
        /\ th'[t].new = th[t].new
    BY <1>1, <1>7, PropSpinEffect DEF Accessed, PropSpin, At
  <2> QED
    BY <1>2, <2>1 DEF Inside, Getting, Depth, SameBlocks
<1>8. CASE PropAccess(t, c)
  <2>1. /\ OthersSame(t) /\ SameBlocks(t) /\ th'[t].pc = "leave" /\ th[t].pc = "access"
        /\ th'[t].new = th[t].new
        /\ th[t].new = None => ivar' = ivar /\ th'[t].got = th[t].got
    BY <1>1, <1>8, PropAccessEffect DEF Accessed, PropAccess, At
  <2>2. th[t].got = ivar
    BY <1>1, <2>1 DEF InAccessor
  <2> QED
    BY <1>2, <2>1, <2>2 DEF Inside, Getting, Depth, SameBlocks
<1>9. CASE PropLeave(t, c)
  <2>1. PICK pc \in PCs : pc \in {"drop", "use"} /\ Go(t, pc)
    BY <1>9 DEF PropLeave, PCs
  <2>2. /\ OthersSame(t) /\ SameBlocks(t) /\ SameAccess(t) /\ th'[t].pc = pc
        /\ th[t].pc = "leave" /\ ivar' = ivar
    BY <1>1, <1>9, <2>1, GoUpdate DEF PropLeave, At
  <2> QED
    BY <1>2, <2>1, <2>2 DEF Inside, Getting, Depth, SameBlocks, SameAccess
<1>10. CASE SetDrop(t, c)
  BY <1>1, <1>10, SetDropEffect, BackCases DEF Accessed, Inside, Getting
<1>11. CASE Use(t, c)
  BY <1>1, <1>11, UseEffect, BackCases DEF Accessed, Inside, Getting
<1> QED
  BY <1>3, <1>4, <1>5, <1>6, <1>7, <1>8, <1>9, <1>10, <1>11 DEF AccessorStep

LEMMA InsideStep ==
  ASSUME CoreInv, MaskDepth, "guarded getter" \in Rules,
         \A u \in Threads : Inside(u), [Next]_vars
  PROVE  \A u \in Threads : Inside(u)'
<1>1. BlockInv /\ TypeOK
  BY DEF CoreInv, BlockInv
<1>2. ASSUME NEW t \in Threads, NEW c \in 1 .. cpus, on[c] = t, ThreadStep(t, c)
      PROVE  \A u \in Threads : Inside(u)'
  <2>1. OthersSame(t) /\ Inside(t)'
    <3>1. CASE BlockStep(t, c)
      BY <1>1, <3>1, BlockStepEffect DEF Inside, Getting, Accessing
    <3>2. CASE AccessorStep(t, c)
      BY <3>2, AccessorInside
    <3>3. CASE TimerStep(t, c)
      BY <1>1, <3>3, TimerStepEffect DEF Inside, Getting
    <3> QED
      BY <1>2, <3>1, <3>2, <3>3, ThreadSteps
  <2> QED
    BY <1>2, <2>1, GetterAlone
<1>3. ASSUME cpus' = cpus, th' = th, ivar' = ivar PROVE \A u \in Threads : Inside(u)'
  BY <1>3 DEF Inside, Depth
<1>4. ASSUME NEW c \in 1 .. cpus, KernelStep(c) PROVE \A u \in Threads : Inside(u)'
  BY <1>3, <1>4, KernelStepKeeps DEF prop
<1>5. CASE UNCHANGED vars
  BY <1>3, <1>5 DEF vars, kernel, prop
<1> QED
  BY <1>2, <1>4, <1>5, Steps

(***************************************************************************)
(* The theorems                                                            *)
(***************************************************************************)
LEMMA InitInv == Init => IInv
<1> SUFFICES ASSUME Init PROVE IInv
  OBVIOUS
<1>1. /\ CoreInv /\ BlockInv /\ TypeOK
      /\ \A t \in Threads : /\ th[t].pc = "idle" /\ th[t].stack = <<>>
                            /\ th[t].leaving = <<>> /\ th[t].new = None
  BY CoreInit, InitFacts DEF CoreInv, BlockInv
<1>2. MaskDepth
  <2>1. \A t \in Threads : Depth(t) = 0 /\ ~ InProp(t)
    BY <1>1 DEF Depth, InProp
  <2>2. \A c \in 1 .. cpus : on[c] \in Threads /\ masked[c] = FALSE
    BY DEF Init
  <2>3. \A c \in 1 .. cpus : MaskOf(c)
    BY <2>1, <2>2 DEF MaskOf
  <2> QED
    BY <1>1, <2>1, <2>3 DEF MaskDepth, LeavesTop, Quiet, BlockKeys, PropKey
<1>3. MaskInv
  BY <1>1, <1>2, MaskMeasured DEF MaskMeasure
<1>4. SlabSuffices /\ GettersInside
  BY <1>1 DEF SlabSuffices, GettersInside
<1>5. TimerRuns
  BY <1>1 DEF Init, TimerRuns, Overtaken
<1> QED
  BY <1>1, <1>3, <1>4, <1>5 DEF IInv, CoreInv, AccessInv

LEMMA StepInv == IInv /\ [Next]_vars => IInv'
<1> SUFFICES ASSUME IInv, [Next]_vars PROVE IInv'
  OBVIOUS
<1>1. CoreInv /\ BlockInv /\ TypeOK /\ TimerRuns
  BY DEF IInv, CoreInv, BlockInv, AccessInv
<1>2. CoreInv' /\ BlockInv' /\ TimerRuns'
  BY <1>1, CoreStep, TimerRunsStep DEF CoreInv
<1>3. ASSUME "single return" \in Rules
      PROVE  MaskInv' /\ SlabSuffices' /\ MaskDepth /\ MaskInv
  <2>1. MaskDepth /\ MaskInv /\ SlabSuffices
    BY <1>1, <1>3, MaskMeasured DEF IInv, MaskMeasure
  <2>2. MaskDepth' /\ SlabSuffices'
    BY <1>1, <1>3, <2>1, MaskDepthStep, SlabStep
  <2> QED
    BY <1>2, <2>1, <2>2, MaskMeasuredNext DEF MaskMeasure
<1>4. ASSUME "single return" \in Rules, "guarded getter" \in Rules
      PROVE  GettersInside'
  <2>1. \A t \in Threads : Inside(t)
    BY <1>1, <1>3, <1>4, GettersMeasured DEF IInv, GettersMeasure
  <2>2. \A t \in Threads : Inside(t)'
    BY <1>1, <1>3, <1>4, <2>1, InsideStep
  <2> QED
    BY <1>2, <1>3, <1>4, <2>2, GettersMeasuredNext DEF GettersMeasure
<1> QED
  BY <1>2, <1>3, <1>4 DEF IInv, CoreInv, AccessInv

\* The inductive invariant, with every part that the runs' properties need.
THEOREM Invariance == Spec => []IInv
  BY InitInv, StepInv, PTL DEF Spec

\* A block of the slab that is not free is at one place of one stack.
LEMMA BalancedNow == IInv => BlocksBalanced
<1> SUFFICES ASSUME IInv PROVE BlocksBalanced
  OBVIOUS
<1>1. BlockInv /\ TypeOK /\ StacksApart /\ ObjRefsExact
  BY DEF IInv, BlockInv
<1>2. ASSUME NEW t \in Threads
      PROVE  /\ DOMAIN th[t].stack \subseteq 1 .. MaxDepth
             /\ \A i \in DOMAIN th[t].stack : i \in 1 .. MaxDepth
  <2>1. PICK n \in Nat : n = Len(th[t].stack) /\ DOMAIN th[t].stack = 1 .. n
    BY <1>1, Places
  <2>2. n <= MaxDepth /\ MaxDepth \in Nat
    BY <1>1, <2>1, SyncAssumption DEF BlockInv, StackShape, InBlocks
  <2> QED
    BY <2>1, <2>2
<1>3. ASSUME NEW l \in 1 .. slab
      PROVE  Cardinality({p \in Threads \X (1..MaxDepth) :
               p[2] \in DOMAIN th[p[1]].stack /\ th[p[1]].stack[p[2]] = l})
             = IF lock[l].state = "free" THEN 0 ELSE 1
  <2> DEFINE On == {p \in Threads \X (1..MaxDepth) :
               p[2] \in DOMAIN th[p[1]].stack /\ th[p[1]].stack[p[2]] = l}
  <2>1. CASE lock[l].state = "free"
    <3>1. On = {}
      BY <1>1, <2>1 DEF StacksApart
    <3> QED
      BY <2>1, <3>1, FS_EmptySet
  <2>2. CASE lock[l].state # "free"
    <3>1. PICK t \in Threads : \E i \in DOMAIN th[t].stack : th[t].stack[i] = l
      BY <1>1, <2>2 DEF StacksApart, Free
    <3>2. PICK i \in DOMAIN th[t].stack : th[t].stack[i] = l
      BY <3>1
    <3>3. \A u \in Threads : \A j \in DOMAIN th[u].stack :
            th[u].stack[j] = l => u = t /\ j = i
      BY <1>1, <3>2 DEF StacksApart
    <3>4. <<t, i>> \in On
      BY <1>2, <3>2
    <3>5. \A p \in On : p = <<t, i>>
      BY <3>3
    <3> HIDE DEF On
    <3>6. On = {<<t, i>>}
      BY <3>4, <3>5
    <3>7. Cardinality(On) = 1
      BY <3>6, FS_Singleton
    <3> QED
      BY <2>2, <3>7 DEF On
  <2> QED
    BY <2>1, <2>2
<1> QED
  BY <1>1, <1>3 DEF BlocksBalanced, ObjRefsExact

\* The object has a reference of each block that has its lock, and no block of
\* the slab is lost or on two stacks: OZSpinLock_initWithObject and
\* OZSpinLock_dealloc pair up, with any number of CPUs and whatever the blocks
\* contain.
THEOREM BlocksPaired == Spec => []BlocksBalanced
  BY Invariance, BalancedNow, PTL

\* The counter of each value is the number of its owners, however setters and
\* getters overlap (_emit_synthesized_accessor).
THEOREM CountersExact == Spec => []ValueRefsExact
<1>1. IInv => ValueRefsExact
  BY DEF IInv
<1> QED
  BY <1>1, Invariance, PTL

\* Where return leaves one block at a time, interrupts are masked exactly while
\* the CPU's thread has a lock (OZSpinLock_dealloc, k_spin_unlock).
THEOREM MasksRestored == "single return" \in Rules => (Spec => []MaskExact)
<1> SUFFICES ASSUME "single return" \in Rules PROVE Spec => []MaskExact
  OBVIOUS
<1>1. IInv => MaskExact
  BY DEF IInv, MaskInv
<1> QED
  BY <1>1, Invariance, PTL

LEMMA ExcludesNow == MaskInv => OneCpuExcludes
<1> SUFFICES ASSUME MaskInv, cpus = 1, NEW t \in Threads, NEW u \in Threads,
                    Held(t) # {}, Held(u) # {}
             PROVE  t = u
  BY DEF OneCpuExcludes
<1>1. (\E c \in 1 .. cpus : on[c] = t) /\ (\E c \in 1 .. cpus : on[c] = u)
  BY DEF MaskInv, KeysExact
<1>2. \A c \in 1 .. cpus : c = 1
  OBVIOUS
<1> QED
  BY <1>1, <1>2

\* There, one CPU never has two threads in blocks (_emit_synchronized_stmt).
THEOREM BlocksExclude == "single return" \in Rules => (Spec => []OneCpuExcludes)
<1> SUFFICES ASSUME "single return" \in Rules PROVE Spec => []OneCpuExcludes
  OBVIOUS
<1>1. IInv => OneCpuExcludes
  BY ExcludesNow DEF IInv
<1> QED
  BY <1>1, Invariance, PTL

\* There, an allocation fails only from a slab smaller than what the threads
\* can need at once, and the need is exact: SlabEmpty counts the places.
THEOREM SlabLargeEnough == "single return" \in Rules => (Spec => []SlabSuffices)
<1> SUFFICES ASSUME "single return" \in Rules PROVE Spec => []SlabSuffices
  OBVIOUS
<1>1. IInv => SlabSuffices
  BY DEF IInv
<1> QED
  BY <1>1, Invariance, PTL

\* What a getter returns to a caller in a block is alive.
LEMMA GetterNow == TypeOK /\ AccessInv /\ GettersInside => GetterSafe
<1> SUFFICES ASSUME TypeOK, AccessInv, GettersInside,
                    NEW t \in Threads, th[t].pc \in {"leave", "use"}, th[t].got # None
             PROVE  refs[th[t].got] > 0
  BY DEF GetterSafe
<1>1. ValueRefsExact /\ InAccessor(t)
  BY DEF AccessInv, AccessorShape
<1>2. th[t].new = None
  BY <1>1 DEF InAccessor
<1>3. PICK v \in Values : v = th[t].got /\ v = ivar
  BY <1>1, <1>2, ThreadKinds DEF GettersInside
<1>4. /\ Cardinality(Setters(v)) \in Nat /\ Cardinality(Retained(v)) \in Nat
      /\ Cardinality(Droppers(v)) \in Nat
  BY SyncAssumption, FS_Subset, FS_CardinalityType DEF Setters, Retained, Droppers
<1>5. Owners(v) \in Nat /\ Owners(v) > 0
  <2>1. Owners(v) = 1 + Cardinality(Setters(v)) + Cardinality(Retained(v))
                      + Cardinality(Droppers(v))
    BY <1>3 DEF Owners, Setters, Retained, Droppers
  <2> QED
    BY <1>4, <2>1
<1>6. refs[v] = Owners(v)
  BY <1>1 DEF ValueRefsExact
<1> QED
  BY <1>3, <1>5, <1>6

\* A value that an atomic getter returned is alive when its caller uses it, if
\* the caller is in a block of the only CPU (_emit_synthesized_accessor).
THEOREM GettersSafe ==
  "single return" \in Rules /\ "guarded getter" \in Rules => (Spec => []GetterSafe)
<1> SUFFICES ASSUME "single return" \in Rules, "guarded getter" \in Rules
             PROVE  Spec => []GetterSafe
  OBVIOUS
<1>1. IInv => GetterSafe
  BY GetterNow DEF IInv, BlockInv, AccessInv
<1> QED
  BY <1>1, Invariance, PTL

\* No expiry begins once the dealloc of the timer has begun, with any number of
\* CPUs: a handler that still runs began before it, on a CPU that is not in the
\* dealloc, and with one CPU none does (OZTimer_dealloc).
THEOREM TimersSafe == Spec => TimerSafe
<1>1. IInv /\ IInv' /\ [Next]_vars =>
        [timer'.memory # "live" =>
           \A c \in 1..cpus : isr'[c] => isr[c] /\ cpus > 1 /\ th'[on'[c]].pc # "delete"]_vars
  <2> SUFFICES ASSUME IInv, IInv', [Next]_vars, timer'.memory # "live",
                      NEW c \in 1 .. cpus, isr'[c]
               PROVE  isr[c] /\ cpus > 1 /\ th'[on'[c]].pc # "delete"
    OBVIOUS
  <2>1. BlockInv /\ TimerRuns /\ TimerRuns'
    BY DEF IInv
  <2>2. isr[c]
    BY <2>1, HandlerBegan
  <2>3. cpus' = cpus
    <3>1. ASSUME NEW t \in Threads, NEW d \in 1 .. cpus, ThreadStep(t, d) PROVE cpus' = cpus
      BY <3>1, StepKernel DEF kernel
    <3>2. ASSUME NEW d \in 1 .. cpus, KernelStep(d) PROVE cpus' = cpus
      BY <3>2 DEF KernelStep, Preempt, Expire, ExpireEnd, kernel
    <3>3. CASE UNCHANGED vars
      BY <3>3 DEF vars, kernel
    <3> QED
      BY <3>1, <3>2, <3>3, Steps
  <2>4. cpus > 1 /\ th'[on'[c]].pc # "delete"
    BY <2>1, <2>3 DEF TimerRuns, Overtaken
  <2> QED
    BY <2>2, <2>4
<1> QED
  BY <1>1, Invariance, PTL DEF Spec, TimerSafe
================================================================================

-------------------------------- MODULE OZSync --------------------------------
(***************************************************************************)
(* @synchronized blocks, the atomic accessors of a property and a timer,   *)
(* run by threads on a kernel with one or more CPUs.                       *)
(*                                                                         *)
(* A block takes a fresh OZSpinLock from the slab, retains the object,     *)
(* locks, and on every way out releases the OZSpinLock, whose dealloc      *)
(* unlocks, releases the object and gives the block back.  Locking masks   *)
(* the interrupts of the CPU, and with them preemption, and then spins;    *)
(* unlocking restores the mask that the lock found.                        *)
(***************************************************************************)
EXTENDS Naturals, Sequences, FiniteSets

CONSTANTS
  Threads,
  Values,      \* the objects that the property's ivar can hold
  CpuCounts,   \* the numbers of CPUs a kernel may have
  SlabSizes,   \* for each, the sizes the slab of OZSpinLock may have
  MaxDepth,    \* the @synchronized blocks a thread is in at once
  MaxCalls,    \* the blocks and accessors of a thread from idle to idle
  Rules,
  None

AllRules == {"single return", "guarded getter"}

ASSUME SyncAssumption ==
  /\ IsFiniteSet(Threads) /\ None \notin Threads \cup Values
  /\ CpuCounts \subseteq Nat \ {0}
  /\ \A n \in CpuCounts : SlabSizes[n] \subseteq Nat \ {0}
  /\ MaxDepth \in Nat /\ MaxCalls \in Nat
  /\ Rules \subseteq AllRules

VARIABLES
  cpus, slab,  \* the kernel and the build
  on,          \* the thread each CPU runs
  masked,      \* whether its interrupts are masked
  isr,         \* whether it is in the expiry handler of the timer
  lock,        \* the OZSpinLocks
  objRefs,     \* the references to the synchronized object
  holder,      \* the thread that has _oz_prop_lock
  ivar,        \* the property's value
  refs,        \* the references to each value; 0 when it is freed
  timer,       \* whether it runs, and its memory: "live", "dying", "freed"
  th           \* the threads

kernel == <<cpus, slab, on>>
block  == <<lock, objRefs>>
prop   == <<holder, ivar, refs>>
vars   == <<kernel, masked, isr, block, prop, timer, th>>

Free == [state |-> "free", key |-> FALSE, retains |-> FALSE]
Idle == [pc |-> "idle", stack |-> <<>>, leaving |-> <<>>, calls |-> 0,
         key |-> FALSE, new |-> None, old |-> None, got |-> None]

Init ==
  /\ cpus \in CpuCounts /\ slab \in SlabSizes[cpus]
  /\ on \in {f \in [1..cpus -> Threads] : \A c, d \in 1..cpus : f[c] = f[d] => c = d}
  /\ masked = [c \in 1..cpus |-> FALSE] /\ isr = [c \in 1..cpus |-> FALSE]
  /\ lock = [l \in 1..slab |-> Free] /\ objRefs = 1
  /\ holder = None /\ ivar = None /\ refs = [v \in Values |-> 0]
  /\ timer = [run |-> FALSE, memory |-> "live"]
  /\ th = [t \in Threads |-> Idle]

Go(t, pc) == th' = [th EXCEPT ![t].pc = pc]

(***************************************************************************)
(* The kernel                                                              *)
(***************************************************************************)
\* Thread t is at pc on a CPU that is not in an interrupt.
At(t, c, pc) == on[c] = t /\ ~isr[c] /\ th[t].pc = pc

Mask(c, b) == masked' = [masked EXCEPT ![c] = b]

Preempt(c) ==
  /\ ~masked[c] /\ ~isr[c]
  /\ \E t \in Threads \ {on[d] : d \in 1..cpus} : on' = [on EXCEPT ![c] = t]
  /\ UNCHANGED <<cpus, slab, masked, isr, block, prop, timer, th>>

(***************************************************************************)
(* @synchronized                                                           *)
(***************************************************************************)
\* A thread does one more thing, outside of all blocks or in one.
Calls(t, c) == (At(t, c, "idle") \/ At(t, c, "body")) /\ th[t].calls < MaxCalls

FreeLocks == {l \in 1..slab : lock[l].state = "free"}
Top(t) == th[t].stack[Len(th[t].stack)]

\* OZSpinLock_alloc returns NULL from an empty slab, and nobody looks.
SyncAlloc(t, c) ==
  /\ Calls(t, c) /\ Len(th[t].stack) < MaxDepth
  /\ IF FreeLocks = {} THEN /\ Go(t, "crashed")
                            /\ UNCHANGED lock
     ELSE LET l == CHOOSE x \in FreeLocks : \A y \in FreeLocks : x <= y
          IN /\ lock' = [lock EXCEPT ![l].state = "fresh"]
             /\ th' = [th EXCEPT ![t].pc = "retain", ![t].stack = Append(@, l),
                                 ![t].calls = @ + 1]
  /\ UNCHANGED <<kernel, masked, isr, objRefs, prop, timer>>

SyncRetain(t, c) ==
  /\ At(t, c, "retain")
  /\ objRefs' = objRefs + 1
  /\ lock' = [lock EXCEPT ![Top(t)].retains = TRUE]
  /\ Go(t, "lock")
  /\ UNCHANGED <<kernel, masked, isr, prop, timer>>

\* Mutant: the lock keeps other CPUs out and leaves the interrupts alone.
SyncLockOpen(t, c) ==
  /\ At(t, c, "lock")
  /\ lock' = [lock EXCEPT ![Top(t)].state = "held", ![Top(t)].key = masked[c]]
  /\ Go(t, "body")
  /\ UNCHANGED <<kernel, masked, isr, objRefs, prop, timer>>

SyncLock(t, c) ==
  /\ At(t, c, "lock")
  /\ lock' = [lock EXCEPT ![Top(t)].state = "held", ![Top(t)].key = masked[c]]
  /\ Mask(c, TRUE)
  /\ Go(t, "body")
  /\ UNCHANGED <<kernel, isr, objRefs, prop, timer>>

Leave(t, locks) ==
  /\ th' = [th EXCEPT ![t].pc = "unlock", ![t].leaving = locks]
  /\ UNCHANGED <<kernel, masked, isr, block, prop, timer>>

\* The end of the block, and break and continue, which leave the inner block
\* first.
SyncEnd(t, c) == At(t, c, "body") /\ Leave(t, <<Top(t)>>)

\* return releases the locks in the order in which they were declared.
SyncReturn(t, c) ==
  /\ At(t, c, "body")
  /\ "single return" \in Rules => Len(th[t].stack) = 1
  /\ Leave(t, th[t].stack)

\* Mutant: interrupts are unmasked whatever they were.
SyncUnlockAll(t, c) ==
  LET l == Head(th[t].leaving)
  IN /\ At(t, c, "unlock")
     /\ lock' = [lock EXCEPT ![l].state = "unlocked"]
     /\ Mask(c, FALSE)
     /\ Go(t, "give")
     /\ UNCHANGED <<kernel, isr, objRefs, prop, timer>>

\* OZSpinLock_dealloc.
SyncUnlock(t, c) ==
  LET l == Head(th[t].leaving)
  IN /\ At(t, c, "unlock")
     /\ lock' = [lock EXCEPT ![l].state = "unlocked"]
     /\ Mask(c, lock[l].key)
     /\ Go(t, "give")
     /\ UNCHANGED <<kernel, isr, objRefs, prop, timer>>

\* Mutant: the object is not given back.
SyncGiveNothing(t, c) ==
  /\ At(t, c, "give")
  /\ lock' = [lock EXCEPT ![Head(th[t].leaving)].retains = FALSE]
  /\ Go(t, "free")
  /\ UNCHANGED <<kernel, masked, isr, objRefs, prop, timer>>

SyncGive(t, c) ==
  /\ At(t, c, "give")
  /\ objRefs' = objRefs - 1
  /\ lock' = [lock EXCEPT ![Head(th[t].leaving)].retains = FALSE]
  /\ Go(t, "free")
  /\ UNCHANGED <<kernel, masked, isr, prop, timer>>

\* A stack of locks without lock l.
Without(s, l) == LET i == CHOOSE j \in DOMAIN s : s[j] = l
                 IN  SubSeq(s, 1, i - 1) \o SubSeq(s, i + 1, Len(s))

\* Mutant: the block of an OZSpinLock is not given back.
SyncFreeNothing(t, c) ==
  LET rest == Tail(th[t].leaving)
      stack == Without(th[t].stack, Head(th[t].leaving))
  IN /\ At(t, c, "free")
     /\ th' = [th EXCEPT ![t].leaving = rest, ![t].stack = stack,
          ![t].calls = IF stack = <<>> THEN 0 ELSE @,
          ![t].pc = IF rest # <<>> THEN "unlock" ELSE IF stack # <<>> THEN "body" ELSE "idle"]
     /\ UNCHANGED <<kernel, masked, isr, block, prop, timer>>

SyncFree(t, c) ==
  LET rest == Tail(th[t].leaving)
      stack == Without(th[t].stack, Head(th[t].leaving))
  IN /\ At(t, c, "free")
     /\ lock' = [lock EXCEPT ![Head(th[t].leaving)] = Free]
     /\ th' = [th EXCEPT ![t].leaving = rest, ![t].stack = stack,
          ![t].calls = IF stack = <<>> THEN 0 ELSE @,
          ![t].pc = IF rest # <<>> THEN "unlock" ELSE IF stack # <<>> THEN "body" ELSE "idle"]
     /\ UNCHANGED <<kernel, masked, isr, objRefs, prop, timer>>

(***************************************************************************)
(* The accessors of an atomic strong property                              *)
(***************************************************************************)
Back(t) == IF th[t].stack = <<>> THEN "idle" ELSE "body"
Reset(t) == IF th[t].stack = <<>> THEN 0 ELSE th[t].calls

\* No thread holds a pointer to the memory of v.
Unused(v) == refs[v] = 0 /\ \A t \in Threads : v \notin {th[t].got, th[t].old}

\* A thread creates a value and sets the property to it.
Set(t, c) ==
  /\ Calls(t, c)
  /\ \E v \in {x \in Values : Unused(x)} :
       /\ refs' = [refs EXCEPT ![v] = 1]
       /\ th' = [th EXCEPT ![t].pc = "set", ![t].new = v, ![t].calls = @ + 1]
  /\ UNCHANGED <<kernel, masked, isr, block, holder, ivar, timer>>

SetRetain(t, c) ==
  /\ At(t, c, "set")
  /\ refs' = [refs EXCEPT ![th[t].new] = @ + 1]
  /\ Go(t, "mask")
  /\ UNCHANGED <<kernel, masked, isr, block, holder, ivar, timer>>

\* The value is used after the getter has returned, so the caller must keep
\* other threads out himself.
Get(t, c) ==
  /\ Calls(t, c)
  /\ "guarded getter" \in Rules => th[t].stack # <<>> /\ cpus = 1
  /\ th' = [th EXCEPT ![t].pc = "mask", ![t].calls = @ + 1]
  /\ UNCHANGED <<kernel, masked, isr, block, prop, timer>>

\* k_spin_lock on _oz_prop_lock.
PropMask(t, c) ==
  /\ At(t, c, "mask")
  /\ th' = [th EXCEPT ![t].pc = "spin", ![t].key = masked[c]]
  /\ Mask(c, TRUE)
  /\ UNCHANGED <<kernel, isr, block, prop, timer>>

\* Mutant: the lock is there to mask interrupts only.
PropSpinNot(t, c) ==
  /\ At(t, c, "spin")
  /\ holder' = t
  /\ th' = [th EXCEPT ![t].pc = "access", ![t].got = ivar]
  /\ UNCHANGED <<kernel, masked, isr, block, ivar, refs, timer>>

\* The first line of the critical section reads the ivar in both accessors.
PropSpin(t, c) ==
  /\ At(t, c, "spin") /\ holder = None
  /\ holder' = t
  /\ th' = [th EXCEPT ![t].pc = "access", ![t].got = ivar]
  /\ UNCHANGED <<kernel, masked, isr, block, ivar, refs, timer>>

\* The rest of it: the setter writes the ivar.
PropAccess(t, c) ==
  /\ At(t, c, "access")
  /\ IF th[t].new # None
     THEN /\ ivar' = th[t].new
          /\ th' = [th EXCEPT ![t].pc = "leave", ![t].old = th[t].got, ![t].got = None]
     ELSE Go(t, "leave") /\ UNCHANGED ivar
  /\ UNCHANGED <<kernel, masked, isr, block, holder, refs, timer>>

\* Mutant: interrupts are unmasked whatever they were.
PropLeaveOpen(t, c) ==
  /\ At(t, c, "leave")
  /\ holder' = None
  /\ Mask(c, FALSE)
  /\ Go(t, IF th[t].new # None THEN "drop" ELSE "use")
  /\ UNCHANGED <<kernel, isr, block, ivar, refs, timer>>

PropLeave(t, c) ==
  /\ At(t, c, "leave")
  /\ holder' = None
  /\ Mask(c, th[t].key)
  /\ Go(t, IF th[t].new # None THEN "drop" ELSE "use")
  /\ UNCHANGED <<kernel, isr, block, ivar, refs, timer>>

\* The setter releases the old value, its caller the new one.
SetDrop(t, c) ==
  /\ At(t, c, "drop")
  /\ refs' = [v \in Values |->
       refs[v] - (IF v = th[t].old THEN 1 ELSE 0) - (IF v = th[t].new THEN 1 ELSE 0)]
  /\ th' = [th EXCEPT ![t].pc = Back(t), ![t].calls = Reset(t),
                       ![t].new = None, ![t].old = None]
  /\ UNCHANGED <<kernel, masked, isr, block, holder, ivar, timer>>

\* The getter's caller uses the value.
Use(t, c) ==
  /\ At(t, c, "use")
  /\ th' = [th EXCEPT ![t].pc = Back(t), ![t].calls = Reset(t), ![t].got = None]
  /\ UNCHANGED <<kernel, masked, isr, block, prop, timer>>

(***************************************************************************)
(* The timer                                                               *)
(***************************************************************************)
\* The expiry handler runs in an interrupt and reads the memory of the timer,
\* which goes on if it has a period.
Expire(c) ==
  /\ timer.run /\ ~masked[c] /\ \A d \in 1..cpus : ~isr[d]
  /\ isr' = [isr EXCEPT ![c] = TRUE]
  /\ \E again \in BOOLEAN : timer' = [timer EXCEPT !.run = again]
  /\ UNCHANGED <<kernel, masked, block, prop, th>>

ExpireEnd(c) ==
  /\ isr[c]
  /\ isr' = [isr EXCEPT ![c] = FALSE]
  /\ UNCHANGED <<kernel, masked, block, prop, timer, th>>

\* startAfter:period: and stop.
TimerSwitch(t, c) ==
  /\ At(t, c, "idle") /\ timer.memory = "live"
  /\ timer' = [timer EXCEPT !.run = ~timer.run]
  /\ UNCHANGED <<kernel, masked, isr, block, prop, th>>

\* Mutant: dealloc does not stop the timer first.
TimerDeallocRunning(t, c) ==
  /\ At(t, c, "idle") /\ timer.memory = "live"
  /\ timer' = [timer EXCEPT !.memory = "dying"]
  /\ Go(t, "delete")
  /\ UNCHANGED <<kernel, masked, isr, block, prop>>

\* The last reference is released: dealloc stops the timer, then its user data
\* is released and its memory given back.
TimerDealloc(t, c) ==
  /\ At(t, c, "idle") /\ timer.memory = "live"
  /\ timer' = [run |-> FALSE, memory |-> "dying"]
  /\ Go(t, "delete")
  /\ UNCHANGED <<kernel, masked, isr, block, prop>>

TimerFree(t, c) ==
  /\ At(t, c, "delete")
  /\ timer' = [timer EXCEPT !.memory = "freed"]
  /\ Go(t, "idle")
  /\ UNCHANGED <<kernel, masked, isr, block, prop>>

\* A kernel that has called through NULL does not go on.
Halted == (\E t \in Threads : th[t].pc = "crashed") /\ UNCHANGED vars

(***************************************************************************)
(* Specification                                                           *)
(***************************************************************************)
ThreadStep(t, c) ==
  \/ SyncAlloc(t, c) \/ SyncRetain(t, c) \/ SyncLock(t, c)
  \/ SyncEnd(t, c) \/ SyncReturn(t, c)
  \/ SyncUnlock(t, c) \/ SyncGive(t, c) \/ SyncFree(t, c)
  \/ Set(t, c) \/ SetRetain(t, c) \/ Get(t, c)
  \/ PropMask(t, c) \/ PropSpin(t, c) \/ PropAccess(t, c) \/ PropLeave(t, c)
  \/ SetDrop(t, c) \/ Use(t, c)
  \/ TimerSwitch(t, c) \/ TimerDealloc(t, c) \/ TimerFree(t, c)

Next ==
  \/ \E c \in 1..cpus : Preempt(c) \/ Expire(c) \/ ExpireEnd(c)
  \/ \E t \in Threads, c \in 1..cpus : ThreadStep(t, c)
  \/ Halted

Spec == Init /\ [][Next]_vars

Cpus == 1..(CHOOSE n \in CpuCounts : \A m \in CpuCounts : m <= n)

\* A CPU that can run its thread does, and an interrupt ends.  Nothing makes
\* the kernel switch threads.
FairSpec ==
  /\ Spec
  /\ \A c \in Cpus :
       /\ WF_vars(c \in 1..cpus /\ \E t \in Threads : ThreadStep(t, c))
       /\ WF_vars(c \in 1..cpus /\ ExpireEnd(c))

(***************************************************************************)
(* Type correctness                                                        *)
(***************************************************************************)
PCs == {"idle", "body", "retain", "lock", "unlock", "give", "free", "crashed",
        "set", "mask", "spin", "access", "leave", "drop", "use", "delete"}

Locks == [state : {"free", "fresh", "held", "unlocked"},
          key : BOOLEAN, retains : BOOLEAN]

ThreadStates ==
  [pc : PCs, stack : Seq(1..slab), leaving : Seq(1..slab), calls : Nat,
   key : BOOLEAN, new : Values \cup {None}, old : Values \cup {None},
   got : Values \cup {None}]

\* Threads have distinct CPUs, and what they name exists.
TypeOK ==
  /\ cpus \in CpuCounts /\ slab \in SlabSizes[cpus]
  /\ on \in [1..cpus -> Threads] /\ \A c, d \in 1..cpus : on[c] = on[d] => c = d
  /\ masked \in [1..cpus -> BOOLEAN] /\ isr \in [1..cpus -> BOOLEAN]
  /\ lock \in [1..slab -> Locks]
  /\ objRefs \in Nat /\ refs \in [Values -> Nat]
  /\ holder \in Threads \cup {None} /\ ivar \in Values \cup {None}
  /\ timer \in [run : BOOLEAN, memory : {"live", "dying", "freed"}]
  /\ th \in [Threads -> ThreadStates]

(***************************************************************************)
(* Properties                                                              *)
(***************************************************************************)
Held(t) == {i \in DOMAIN th[t].stack : lock[th[t].stack[i]].state = "held"}
InProp(t) == th[t].pc \in {"spin", "access", "leave"}

\* With one CPU two threads are never in @synchronized blocks at once, of one
\* object or of two, although each block has a lock of its own: the masked
\* interrupts keep the others out (_emit_synchronized_stmt).
OneCpuExcludes ==
  cpus = 1 => \A t, u \in Threads : Held(t) # {} /\ Held(u) # {} => t = u

\* Interrupts are masked exactly while the CPU's thread holds a lock, so that
\* leaving nested blocks and accessors restores what entering them found
\* (OZSpinLock_dealloc, k_spin_unlock).
MaskExact ==
  \A c \in 1..cpus : masked[c] <=> Held(on[c]) # {} \/ InProp(on[c])

\* OZSpinLock_alloc only fails if the slab is smaller than what the threads
\* can need at once: with one CPU every thread may be between its first
\* allocation and the lock, and only one goes deeper.
Needed ==
  IF cpus = 1 THEN Cardinality(Threads) + MaxDepth - 1
  ELSE Cardinality(Threads) * MaxDepth
SlabSuffices == (\E t \in Threads : th[t].pc = "crashed") => slab < Needed

\* A block retains its object as long as it has its lock, and every block of
\* the slab is free or on the stack of one thread, whose stacks name only such
\* blocks (OZSpinLock_initWithObject, OZSpinLock_dealloc).
BlocksBalanced ==
  /\ TypeOK
  /\ objRefs = 1 + Cardinality({l \in 1..slab : lock[l].retains})
  /\ \A l \in 1..slab :
       Cardinality({p \in Threads \X (1..MaxDepth) :
         p[2] \in DOMAIN th[p[1]].stack /\ th[p[1]].stack[p[2]] = l})
       = IF lock[l].state = "free" THEN 0 ELSE 1

\* The counter of a value is the number of its owners, however setters on
\* several CPUs overlap: the ivar and the setters (_emit_synthesized_accessor).
Owners(v) ==
  (IF ivar = v THEN 1 ELSE 0)
    + Cardinality({t \in Threads : th[t].new = v})
    + Cardinality({t \in Threads : th[t].new = v /\ th[t].pc \in {"mask", "spin", "access"}})
    + Cardinality({t \in Threads : th[t].old = v})
ValueRefsExact == \A v \in Values : refs[v] = Owners(v)

\* What an atomic getter returned is alive when its caller uses it.
GetterSafe ==
  \A t \in Threads : th[t].pc \in {"leave", "use"} /\ th[t].got # None
                       => refs[th[t].got] > 0

\* No expiry begins once the dealloc of the timer has begun, which releases the
\* user data that the handler uses (OZTimer_dealloc), with any number of CPUs: a
\* handler that runs after that ran before it, and not on the CPU that is in the
\* dealloc.  With one CPU there is none.
TimerSafe ==
  [][timer'.memory # "live" =>
       \A c \in 1..cpus : isr'[c] => isr[c] /\ cpus > 1 /\ th'[on'[c]].pc # "delete"]_vars

(***************************************************************************)
(* The parts of the inductive invariant                                    *)
(***************************************************************************)
\* Where thread t is with the lock at place i of its stack.
LockState(t, i) ==
  LET l   == th[t].stack[i]
      pc  == th[t].pc
      top == i = Len(th[t].stack)
      out == th[t].leaving # <<>> /\ l = Head(th[t].leaving)
  IN  /\ lock[l].state = IF pc \in {"retain", "lock"} /\ top THEN "fresh"
                         ELSE IF pc \in {"give", "free"} /\ out THEN "unlocked"
                         ELSE "held"
      /\ lock[l].retains <=> ~ (\/ pc = "retain" /\ top
                                \/ pc = "free" /\ out)

\* The locks of the stacks are distinct, and the other locks are free.
StacksApart ==
  /\ \A t, u \in Threads :
       \A i \in DOMAIN th[t].stack, j \in DOMAIN th[u].stack :
         th[t].stack[i] = th[u].stack[j] => t = u /\ i = j
  /\ \A l \in 1..slab :
       IF \E t \in Threads : \E i \in DOMAIN th[t].stack : th[t].stack[i] = l
       THEN lock[l].state # "free" ELSE lock[l] = Free

\* A thread is in at most MaxDepth blocks, is idle in none, and leaves blocks
\* that it is in.
InBlocks(t) ==
  /\ Len(th[t].stack) <= MaxDepth
  /\ th[t].pc \in {"idle", "delete"} => th[t].stack = <<>>
  /\ th[t].pc \in {"body", "retain", "lock"} => th[t].stack # <<>>
  /\ th[t].leaving # <<>> <=> th[t].pc \in {"unlock", "give", "free"}
  /\ \A i \in DOMAIN th[t].leaving : \E j \in DOMAIN th[t].stack :
       th[t].leaving[i] = th[t].stack[j]
  /\ \A i, j \in DOMAIN th[t].leaving :
       th[t].leaving[i] = th[t].leaving[j] => i = j
  /\ \A i \in DOMAIN th[t].stack : LockState(t, i)

StackShape == \A t \in Threads : InBlocks(t)

ObjRefsExact == objRefs = 1 + Cardinality({l \in 1..slab : lock[l].retains})

BlockInv == TypeOK /\ StacksApart /\ StackShape /\ ObjRefsExact

\* A thread that does not run holds nothing that masks interrupts, and each
\* lock and accessor remembers whether the thread held a lock before it.
KeysExact ==
  /\ \A t \in Threads : (\A c \in 1..cpus : on[c] # t) => Held(t) = {} /\ ~InProp(t)
  /\ \A t \in Threads :
       /\ \A i \in Held(t) : lock[th[t].stack[i]].key <=> i # 1
       /\ InProp(t) => (th[t].key <=> Held(t) # {})
       /\ th[t].leaving # <<>> => th[t].leaving = <<Top(t)>>

MaskInv == MaskExact /\ KeysExact

\* What an accessor has at each point of its way.
InAccessor(t) ==
  /\ holder = t <=> th[t].pc \in {"access", "leave"}
  /\ th[t].new # None =>
       th[t].pc \in {"set", "mask", "spin", "access", "leave", "drop"}
  /\ th[t].pc \in {"set", "drop"} => th[t].new # None
  /\ th[t].old # None => th[t].new # None /\ th[t].pc \in {"leave", "drop"}
  /\ th[t].got # None => th[t].pc \in {"access", "leave", "use"}
  /\ th[t].pc = "access" => th[t].got = ivar
  /\ th[t].pc = "leave" /\ th[t].new # None => th[t].got = None

AccessorShape == \A t \in Threads : InAccessor(t)

\* A getter's caller is in a block, and what it got is still the value.
GettersInside ==
  \A t \in Threads :
    th[t].pc \in {"mask", "spin", "access", "leave", "use"} /\ th[t].new = None
    => /\ cpus = 1 /\ Held(t) # {}
       /\ th[t].pc \in {"leave", "use"} => th[t].got = ivar

\* Where a handler can be that is still on a timer whose dealloc has begun.
Overtaken ==
  timer.memory # "live" =>
    \A c \in 1..cpus : isr[c] => cpus > 1 /\ th[on[c]].pc # "delete"

TimerRuns ==
  /\ timer.run => timer.memory = "live"
  /\ \A t \in Threads : th[t].pc = "delete" => timer.memory # "live"
  /\ Overtaken

\* What crashed found the slab empty, while the threads had all of its blocks.
IInv == /\ BlockInv
        /\ "single return" \in Rules => MaskInv /\ SlabSuffices
        /\ AccessorShape /\ ValueRefsExact
        /\ "single return" \in Rules /\ "guarded getter" \in Rules => GettersInside
        /\ TimerRuns

\* With one CPU a thread in a @synchronized block leaves it.
BlockEnds ==
  \A t \in Threads : (cpus = 1 /\ Held(t) # {} /\ slab >= Needed) ~> Held(t) = {}
=============================================================================

# A TLA+ verification of objective-z

objective-z translates Objective-C to plain C at build time. What runs on the
device is generated C: structs with a reference count, one slab of memory per
class, static calls and vtables, and the retain and release calls the
transpiler inserted. This directory models that system, checks the models with
TLC on small instances and proves the central results with TLAPS for every
instance.

Paths below are relative to the repository. `collect.py`, `resolve.py`,
`context.py` and `emit.py` are in `tools/oz_transpile/`, `class_header.h.j2` and
`oz_dispatch.c.j2` in its `templates/`.

## 1. Inventory

| component | source | state | operations | hard behaviour | correct when |
|---|---|---|---|---|---|
| object runtime | `emit.py` 629-687, 879-912, 2696-2817; `class_header.h.j2`; `oz_dispatch.c.j2`; `include/platform/` | `_refcount`, `_meta` flags, ivars, slabs, heaps | alloc, allocWithHeap:, retain, release, strong setter, dealloc chain, dispatch_free | several threads release and set at once, dealloc bodies that retain self, wrapping counters of constants | counts equal owners, no dangling reference, one dealloc, blocks return to their allocator, no leak |
| property accessors | `emit.py` 600-690 | ivar and its lock | atomic and nonatomic getters and setters | a getter's value is used after the lock is released | what a getter returns is alive when its caller retains it |
| ARC emission | `emit.py` 935-1387, 2158-2318, 2426-2693, 2824-2964 | scope stack, consumed variables | one emitter per statement and expression | early exits out of nested scopes, ownership that moves on one path only | each path of the generated code balances its retains and releases |
| `@synchronized` | `emit.py` 969-1009; `class_header.h.j2` 388-407; `include/platform/oz_lock.h` | a lock object per block entry | lock, unlock in dealloc | mutual exclusion, leaving by return or break | two blocks on one object exclude each other; the lock is always given back |
| collections | `src/OZArray.m`, `src/OZDictionary.m`; `class_header.h.j2` 409-457; `emit.py` 1311-1387, 2781-2817 | item pool, items, `_iterIdx` | literals, iteration, enumeration, dealloc | failing allocation half-way, cells that must be contiguous, one iterator index shared by all loops | items are owned once; a loop visits every element once and ends |
| front end | `collect.py`, `extract.py`, `context.py`, `model.py`, `__main__.py`, `emit.py` | one module per source, the merged module | read declarations, tag, associate, merge; write files | a class spread over several sources that are read in any order | nothing the sources say is lost, every definition is written once and in scope |
| class model | `resolve.py`, `oz_dispatch.[ch].j2` | class table, ids, vtables | synthesize, assign ids, classify dispatch, check protocols and types, collect +initialize | order of passes, overriding, class methods, ill-formed input | a call reaches the method Objective-C runs; exactly the ill-formed programs are refused |
| strings | `src/OZString.m`, `src/OZMutableString.m` | buffer, length, capacity | init, append, set, dealloc | growth at the limit of 32 bits, failing malloc, a string appended to itself | the buffer always holds the string and its NUL |
| fixed point | `src/OZQ31.m`; `class_header.h.j2` 360-390 | mantissa and shift | conversions, add, sub, mul, div, text | overflow, shifts by the width, rounding | results are the real result up to the format's precision |
| timers and deferred blocks | `src/OZTimer.m`, `src/OZDefer.m` | kernel timer, block, owner | init, start, stop, dealloc | expiry against dealloc | no block runs on a freed object |
| heaps | `src/OZHeap.m`; `oz_dispatch.c.j2` 46-63; `oz_platform_*.h` | heap header | allocate, free | a heap that dies before its objects | memory returns to a heap that exists |
| logging | `src/OZLog.c` | a static precision | format, print | one static shared by threads | a number is printed with its own format |
| cycle check | `scripts/objz_check_cycles.py` | files, references, colours | find files, read interfaces, inherit, search | files in the order of a set, imports and superclasses in circles | it fails exactly for programs that may leak a cycle |
| pool sizing | `scripts/objz_gen_pools.py`; `emit.py` 180-182, 2967-3042 | call graph, counts | walk the AST, count along the call graph | counts that are too small, recursion | the pools suffice and are no larger than needed |
| legacy runtime | `src/runtime_legacy/` (no longer built), `scripts/objz_gen_table_sizes.py` | class, dispatch and hash tables | message send, class load | - | - |
| build scripts and samples | the other files of `scripts/`, `samples/`, CMake | - | copy, merge and count text | - | - |

The components meet in the generated program. The class model decides which
function a call names and which dealloc a release starts; the ARC emission
decides where retain and release are called; the object runtime gives them
their meaning; collections, strings, timers and locks are objects of it whose
dealloc does something more than release ivars. The two scripts run before the
build and read the same sources as the front end.

All hazards, each at its line and with the properties about it, are in
`PROJECT.json`.

## 2. Modules

| modules | model | section |
|---|---|---|
| `OZOwnership` <- `OZObject` | reference counting, abstract and as generated | 3 |
| `OZObjectProofs`, `OZNaturals` | its proofs: counts, the least number of a set, and the whole invariant with the refinement | 3 |
| `OZArc`, `OZArcProofs` | the ARC emission and the code it writes, and its proofs | 4 |
| `OZCollect`, `OZResolve`, `OZEmit`, composed by `OZFrontEnd`; `OZExpr` | from sources to generated files | 5 |
| `OZFrontEndProofs` | the proofs about merged classes, circles, class numbers and +initialize | 5 |
| `OZSync`, `OZSyncProofs` | `@synchronized`, atomic accessors and timers on a kernel, and its proofs | 6 |
| `OZCollections`, `OZText` <- `OZMutableString`, `OZQ31` <- `OZLog`, composed by `OZFoundation` | the Foundation classes | 7 |
| `OZCollectionsProofs`, `OZFoundationProofs` | their proofs | 7 |
| `OZCycles`, `OZPools`, composed by `OZBuildChecks`; `OZBuildProofs` | the scripts before the build, and their proofs | 8 |

`<-` reads "is implemented by" or "is used by". Each `MC` module gives the
constants of one of them their values.

| run | instance | distinct states | shows |
|---|---|---|---|
| `object_safety` | 2 threads, 2 variables each, an object of a subclass with one ivar per class level, a slab leaf and a heap leaf | 94 696 | counts exact, nothing dangles, one dealloc, pools exact, no leak; the inductive invariant; deallocs and setters end |
| `object_refines` | 2 threads, 2 objects of one class that hold each other, a constant, `RefMax` 13 | 197 568 | implements `OZOwnership` |
| `arc_exits` | two locals, a lock, blocks nested five deep | 309 148 | every way out of a nest of blocks releases each local once and unlocks |
| `arc_values` | a parameter, two locals, two ivars, branches, results, explicit release | 342 918 | the counts are the owners after every statement of every method and dealloc |
| `arc_ivar_read` | violation | | `Foo *x = _a;` ends in a release of free memory |
| `arc_switch_in_loop` | violation | | so does a break out of a switch in a loop |
| `arc_sync_return` | violation | | `@synchronized (self) { return _a; }` reads the ivar after unlocking |
| `front_end` | 2417 programs of up to four sources, in every order | 60 407 | nothing lost, exact accessors, refusals, numbers, dispatch and files, calls in their order |
| `orphan_static` | violation | | a static variable of a source without classes is defined twice |
| `sync` | 2 threads, 1 or 2 CPUs, blocks nested twice | 455 094 | what masked interrupts protect, what the slab needs, exact counters |
| `foundation` | pools of up to six cells, two loops; strings of up to seven characters with 4-bit sizes; 6-bit numbers; two loggers | 354 829 | contents, elements and loops exact, a string is a text, results exact to the last place |
| `build_checks` | every hierarchy of three classes with every choice of references; some 450 call graphs | 365 825 | the cycle check is exact, the pools suffice and are no larger than that |

All state spaces are complete: no run has a state or action constraint, and the
bounds named in the sections (`MaxBlocks`, `MaxDepth`, `MaxCalls`) are guards.
`CHECK_DEADLOCK FALSE` stands in every run but `sync`, because their programs
end; in `sync` only a kernel that has called through NULL stops (`Halted`).

**Rules.** Parts of the transpiler are correct for programs that keep to more
than the language asks. Such a condition is a named member of a constant
(`Rules`, `CollectionRules`, `StringRules`, `NumberRules`, `LogRules`), so that a
run can take it away; each was taken away once, and TLC found the property in
the table of its section violated. A rule that only says "the code is wrong
here" is a finding of this work even where no document of the repository
contradicts it.

Left to prove, in this order: the other properties of `OZFrontEnd`, `NothingLost` first
(`Gathered` with ivars, protocols and bodies among the facts), then `DispatchExact`, whose
chains and ancestors section 5 relates already, and those about files.

## 3. The object runtime

### Modules

`OZOwnership` says what reference counting promises without a counter: an
object is free, live or dying; a live object is live exactly as long as a slot
owns it; a dying object is owned by nobody, empties its own slots and only then
becomes free.

`OZObject` is the generated runtime. A *slot* is a place that owns a reference:
a local variable of a thread, the parameter and the old value of a setter under
way, an instance variable, or the reference a dealloc body takes to self. `ref`
says what each slot owns, `refcount` is the C counter, `deallocating` and
`heapAllocated` are the bits of `_meta`, `allocated`, `numUsed` and `heapUsed`
are the allocators, `stack` is each thread's nest of release calls and `call`
its setter. Pointers that own nothing are not in `ref`.

| action | code |
|---|---|
| `Alloc`, `AllocWithHeap` | `X_alloc`, `X_allocWithHeap_` (`class_header.h.j2` 67-93) |
| `Share` | a retained variable or argument (`emit.py` 1145-1185) |
| `ScopeRelease` | the release at the end of a scope (`emit.py` 2443-2452) |
| `SetRetain`, `SetSwap`, `SetRelease` | the strong atomic setter: retain, critical section, release (`emit.py` 660-669) |
| `Release` (inside the releasing actions) | `OZObject_release` up to the decrement (`emit.py` 889-897) |
| `Test` | the flag and the call of dealloc (`emit.py` 898-903) |
| `BodyCall`, `BodyReturn` | a dealloc body that passes self to a method, which retains and releases its parameter (`emit.py` 935-963) |
| `ReleaseIvar`, `SuperDealloc` | the generated end of each dealloc (`emit.py` 2719-2728, 2742-2769) |
| `DispatchFree` | `OZObject_dispatch_free` and `X_free` |

One step is one atomic operation of the C code, so two threads interleave
between the decrement and the flag, between the retain and the critical section
of a setter, and between any two releases of a dealloc chain.

The environment keeps the rules ARC gives compiled code: a variable is written
when it holds nothing, a thread retains and sends messages to what it holds, a
setter gets an object of the ivar's declared class. The counters are atomic as
on Zephyr (`k_mem_slab`, `atomic_t`); the host's `num_used` is a plain
integer, which the single-threaded host tests never race on.

### Bounds and fairness

Bounds: `RefMax` stands for `INT_MAX`; it only has to exceed the number of
slots, and 13 lets the counter of the constant go around. Two threads are
enough for every pair of racing operations, two variables for an object that is
held twice by one thread, two objects for a dealloc inside a dealloc. Nothing
else is bounded: the state spaces are complete.
A program in which every cell is in use and every variable is full may have
nothing left to do but what its threads choose, so it may stop.

Fairness: a thread that is inside a setter or a release goes on
(`WF_vars(Continue(t))`): the scheduler runs every ready thread and no step of
these functions waits for anything but a critical section of a few
instructions. Nothing makes a thread start an operation. `DeallocEnds` needs no
more: a dealloc that has begun frees its object, and a thread in a setter or a
chain of deallocs gets out of it.

### Proofs

Assumptions (`ClassAssumption`, `BlockAssumption`, `SlotAssumption`,
`CountAssumption`): finitely many slots, fewer than the counter's range; a class
hierarchy with one root. Any number of threads, variables, classes, ivars and
dealloc bodies.

The inductive invariant `IInv` has six parts.

- `CountInv`, proved first and alone (`OZObjectProofs`). `RefCountExact` is not
  inductive by itself: that the object at the top of a dealloc is owned by nobody
  but its own body (`FrameObject`) is needed to know that its block can go back,
  and that two frames about one object are a dealloc and the test its own body
  caused (`FrameUnique`) is needed to know that the flag was set. `FrameLevel`
  carries "the ivars not yet released belong to this level or one above it", from
  which the memory is empty when it is freed; `IvarsDeclared`, `SetterState` and
  `SelfState` say who may own what.
- `HeapFlags` and `PoolExact`: the flag of a block says which allocator it goes
  back to, so the accounts of slabs and heap can be kept.
- `DeallocFramed`: an object whose deallocating flag is set has its dealloc on the
  stack of some thread, so a release that finds the flag set may just return.
- `LiveOwned`: an object that no release or dealloc is at work on has an owner other
  than a dealloc body's reference to self.
- `IvarKinds`: an ivar, and the parameter of its setter, hold objects of the ivar's
  declared class.

The proof of `CountInv` has one lemma per action. All releases share
`ReleaseKeeps` (with `ReleaseFrames` for what they push), all steps that replace
a frame share `ReplaceFrames` and `FramesReplaced`, the two that return share
`PopFrames`. Below them are the counting lemmas `OwnersGain`, `OwnersLose` and
`OwnersMove`, which relate the cardinality of the owners to one changed slot;
`CountAssumption` is what keeps `Inc` and `Dec` from wrapping. `TypeCorrect`,
`CountsExact`, `NeverDangling`, `OneDealloc` and `ImmortalsSurvive` follow, and the
other five parts are proved on top (second half of `OZObjectProofs`).

`Refinement` maps every step to one of `OZOwnership` or to a stutter: `status` is
"dying" for the objects in a frame, `owns` is `ref` without the references that a
dealloc body takes to self. A release that drops the last reference stutters or
ends a life depending on `LiveOwned`, and `DispatchFree` may free because
`FrameLevel` says that nothing is owned any more.

`NothingLeaks`: once no thread has a reference or a call, an allocated object is
owned by an ivar of another allocated one (`LiveOwned`), of a class that is higher
in the order in which ivars declare classes (`IvarKinds`). That order has no
bottom only if some class reaches itself, which the hypothesis `ClassesAcyclic`
excludes; the repository's cycle check refuses such programs (section 8). The
theorem has it as a hypothesis and not as an assumption, because the counts and
the refinement hold of cyclic classes too, and `object_refines` checks one.
The induction over the order is `LeastNat` of `OZNaturals`, the least number of a
set, which has a first-order statement.

Only model-checked: liveness (`DeallocEnds`), which the prover cannot do.

## 4. The ARC emission

`OZArc` is the walk of the emitter over a method, together with one execution
of the C code it writes. The emitter's state is the stack of frames in `blocks`
(`ctx.scope_vars`), `consumed` (`ctx.consumed_vars`), the loop boundary
(`LoopBody`, from the kinds of the open blocks; `ctx.loop_scope_depth`) and the
kinds of `returns` written. The state of the program it writes is the value of
each variable (in its block), the `ivar`s and the reference counts `rc`.
`resume` joins the two: 0 while control is where the walk is, otherwise the
block at whose end control comes back, because a branch was not taken or a
break, continue or return jumped. Statements in between are only walked, so a
variable can be consumed on a branch that does not run.

Every action is one statement or one brace of the source: `Declare`, `Assign`,
`SetIvar`, `Return`, `Jump` and so on, each doing what the emit function does
to the frames and what the emitted calls do to the counts (`Run`). A name that
is in two frames is released twice through its innermost declaration, as the
flat list of names in the emitter does. Methods follow each other on one
receiver until its dealloc, with the resets of the method loop in between.
`EndMethod` includes the caller that binds the result, because whether it
retains depends on all return statements of the method.

What is known from the way code in `src/` is called: "new" expressions return
one count, "call" expressions return an object that somebody else owns during
the method. A local is declared with a value: `Foo *x;` is written without one
(`emit.py` 1184-1185) and released like the others, so what it points to before its first
assignment is no state of this model. A loop's body runs at most once; a second pass would
run the same text again on fresh block-local variables. Each frame's releases are counted
together, their order within one statement is not distinguished.

`Owners(o)` counts the strong references the source program means;
`CountsExact` says that `rc` is that number wherever control stands between two
statements, neither less (a dangling reference) nor more (a leak). It holds of
programs that follow rules the emitter needs and nothing enforces (`AllRules`). The constants `DeclFrom`, `AssignFrom`,
`IvarFrom` and `ReturnOf` say what a right-hand side may be. Taking a rule away
or admitting one more kind of right-hand side gives these programs, which TLC
finds in a few steps:

| without | program | what the emitted code does |
|---|---|---|
| "distinct names" | a name declared again after a move, or shadowed | not released; the inner one released twice by return |
| "move in own block" | `if (c) _a = x;` | x leaks if c is false |
| "no use after move" | `_a = x; x = new;` | the ivar's object is released |
| "no break in switch" | `break` in a case | too many frames released in a loop, none outside |
| "for-in to the end" | `return` in for-in | the element loses a count it still needs |
| "no dealloc locals" | a local at the top of a dealloc | never released |
| "dealloc to the end" | `return` in a dealloc | the ivars leak |
| "returns agree" | `if (c) return nil; return new;` | the caller retains a +1 result |
| `"ivar" \notin DeclFrom` | `Foo *x = _a;` | released, never retained |
| `"call" \notin AssignFrom, IvarFrom` | `x = [p objectAtIndex:0];` | released, never retained |
| `"ivar" \notin AssignFrom, IvarFrom` | `_a = _b;` | one count for two references |
| `"var" \notin ReturnOf` | `return x;` | the caller retains a +1 result |
| `"send" \notin ReturnOf` | `return [x value];` | x is released, then sent to |

"no explicit release" excludes `[x release]`, which the ARC guide rules out and
the emitter handles; `arc_values` has it.

Bounds: nesting of five blocks is a for-in with a switch in it; two fresh
objects are what two ivars or two locals can hold apart; `RefMax` is never
reached. Locals and fresh objects are symmetric. The
walk stops when a call has met free memory.

### Proofs

`OZArcProofs` proves `CountsExact` for methods of any length and nesting, with any
number of objects, variables and ivars (`RetainsAndReleases`). `ArcAssumption` says
that names and ivars are finitely many, that locals, parameters and lock variables
are different names, and that locks are not among the objects held elsewhere. The
hypothesis `KeepsRules` is the table above, read the other way: the rules, those
for `switch` and `for`-`in` only where the program has such a block, and the kinds
of right-hand sides that are not in the table. `x = y`, `_a = x` and explicit
releases are included.

`CountsExact` says nothing while a branch is only walked, so it is not inductive.
The invariant `IInv` says at each step of the walk which variables own something:

- `CountsKept`: a count is that of the ivars, the rest of the program and the
  variables in the blocks up to `Entered`, which are all open ones where control is
  live and otherwise those outside the block that control will come back to the
  end of; a result that was made by the method counts once more (`Returned`).
- `FramesExact`: the frames of the emitter are the variables of the C code, no
  name is in two of them, and a `for`-`in` variable has an element. From it the
  releases of the flat list of names (`Releases`) are one for each owning variable
  (`LeftExact`).
- `Nesting`: a method or a dealloc is outermost, and a dealloc's frame is empty.
- `ControlFlow`: no block that control is in has ended with a jump, all return
  statements agree, and a result that is not the method's own is owned outside.

There is one lemma for each action. A statement that is only walked changes neither counts
nor the blocks up to `Entered` (`SkippedKeeps`), except for what it consumes, which
"move in own block" keeps out of them. A statement that runs changes one variable
or ivar and the counts with it (`SlotChanges`, `IvarChanges`, both from
`OneChanges`).

Only model-checked: the three violations, and that each rule is needed.

## 5. From sources to generated files

`OZCollect` reads the declarations of one source as Clang's AST lists them,
marks what belongs to other sources, and merges two modules. `OZResolve` is
`resolve()`: properties, duplicate methods, hierarchy, class numbers and depths,
dispatch, protocols, generic types, +initialize. `OZEmit` says which C
definition a message names, what is in each vtable and which definitions go
into which file. All three are operators on a module, a record of classes,
protocols, functions and static variables. `OZExpr`, on top of `OZFrontEnd`, adds what a statement
evaluates: the emitter writes the receiver of a message that goes through a
vtable, and the elements of a literal, to temporary variables before the
statement (`pre_stmts`). `EmitStmt` is the statement it writes and `Run` the calls
that a statement makes, for the source's and the written one alike; `Run` and `Eval` translate
nothing of the emitter, they are what statements and expressions mean in C and Objective-C. `OZFrontEnd` runs them: `CollectDecl`
and `EndSource` for each source, `Associate`, `Merge`, one action for each pass
of `resolve()` in its order, and `Emit`, or an exit with an error. Declarations
that are imported are in every source that imports them, with `main` false.

What a program means is stated a second time, from the sources and without any
operator of the passes: `MethodsOf`, `IvarsOf`, `AncestorsOf`, and `RunsIn(c, sel)`,
the class whose method Objective-C runs. The properties compare the two:

- `NothingLost`, `AccessorsExact`: the merged classes have all that any source
  says, and each property the accessors and the ivar its source means;
- `RejectsExactly`: the exit code is 1 exactly for ill-formed programs;
- `SuperFirst`: numbers and +initialize calls put superclasses first (one family of programs
  has two or three classes with a +initialize, a circle of them included);
- `DispatchExact`: every message reaches the right method for every class the
  receiver can have, and so does every entry of a vtable;
- `EmittedOnce`, `StaticsInScope`: one definition of everything, static
  variables in the file that uses them;
- `EvaluatedInOrder`: the written statement makes the source's calls on the
  source's receivers, in their order, whatever the calls return.

The programs are a root class and up to two more, one protocol or two, in up to
four sources: who implements and who sends a selector; where ivars, properties
and `@synthesize` stand; where categories, functions and static variables stand;
types of collection literals; a root class with an `isEqual:` of its own, which the generated
one replaces (`RootSels`); what is refused; and some 190 statements, each
form with tests of up to three messages, literals and `&&`, `||`, `?:`, whose loops
are left after two passes. Each family comes in every order
of its sources. Three classes are what an override below an override needs.

| without | what happens | violated |
|---|---|---|
| "implementation first" | a source that imports a class is read before the one that implements it: ivars of the `@implementation` and links of `@synthesize` are lost | `NothingLost`, `AccessorsExact` |
| "one sign" | `+f` and `-f`: the methods are matched by selector only | `RejectsExactly`, `DispatchExact` |
| "one block" | two blocks of one class in one source (a category with its class) | `EmittedOnce` |
| "statics first" | a static variable with a value after a method | `StaticsInScope` |
| "orphan statics unset" | a static variable with a value in a source without classes | `StaticsInScope`, `OrphanStaticsOnce` |
| "code at home" | functions, dealloc or non-constant values in a source of a class that has several | `EmittedOnce`, `StaticsInScope` |
| "no class extension" | a category that declares a method of the `@implementation` | `RejectsExactly` |
| "protocols in full" | a forward `@protocol P;` read last | `RejectsExactly` |
| "generic names agree" | two variables of one name with different element types | `RejectsExactly` |
| "exact types" | an object of a subclass that overrides the method, behind a variable of the superclass | `DispatchExact` |
| "virtual ids" | a message to `id` that only one class implements | `DispatchExact` |
| "super implements" | `[super f]` with f two levels up | `DispatchExact` |
| "own class methods" | a class method that is inherited | `DispatchExact` |
| "typed loops" | `while ([x f])` with an `id x`: the receiver is evaluated once, before the loop | `EvaluatedInOrder` |
| "typed operands" | `a && [[b f] g]` with `f` returning `id`: `[b f]` is called whatever a is | `EvaluatedInOrder` |
| "typed else if" | a polymorphic message after `else`: the temporary's declaration is no statement | `EvaluatedInOrder` |

`ProgramAssumption` and `NameAssumption` say what a program looks like (sequences of
declarations, names of the alphabet). `Compiles` is what Clang makes sure of before the
transpiler sees a program; `Declared` is its part about classes: one superclass for each
class, categories of declared classes, and that what a category declares is implemented.

`orphan_static` takes "orphan statics unset" away: `static int n = 1;` is written
before the source's text and stays in it.

Left out: diagnostics and their wording (`--strict` only turns them into
errors), types, verbatim lines and includes, static variables inside an
`@implementation`, inline accessors (a message to `self` that reads or writes the ivar
instead, `emit.py` 2222-2247), aliases of the `NS` names, macros, blocks, and of a statement
everything but its messages, literals, tests and loops. No program sends one of the root
class's generated methods, so that branch of `DefiningClass` is there and not taken.

### Proofs

`OZFrontEndProofs` proves `SuperFirst` (`SuperclassesFirst`) for any number of sources,
declarations and classes, in any order. The one rule it needs is the hypothesis
"one sign": a method that takes another one's place is matched by its selector, so with
`+initialize` and `-initialize` in one program the first could get lost. The inductive
invariant is `FrontInv`, from which `ClassesMerged` and `CirclesRefused` follow as well: the
merged module has the classes of the sources, and `_validate_hierarchy` refuses exactly
the programs with a circle of superclasses. `Stage` says for each value of `pc` what is
known of the module:

- while sources are read and merged, its *facts*: a class is declared, has a superclass,
  has an "initialize". `Gathered` says that the facts of a module are those of the
  declarations read so far. A declaration adds its own (`CollectGathers`), merging
  takes the union (`MergeModulesGathers`), and marking and association change none. So
  neither the order of the sources nor that of a class's declarations matters;
- the facts of the whole program are its tree (`FactsAreTree`): `Tree` says that the
  classes of the module are the declared ones, each with the superclass and the
  +initialize that its sources give it. From here on the passes of `resolve()` keep the
  tree (`Alike`);
- without a circle, which `ValidateHierarchy` made sure of, the chain of a class ends at a
  root and names no class twice (`ClimbDistinct`, `ChainClimbs`). Each chain from its root down
  has superclasses first, joining such lists keeps them so (`UnionInOrder`), and the
  numbers are the places in the joined list (`AssignNumbers`): `Numbered`;
- sorting by number puts the ancestors of a class before it, where ancestors are those
  of the sources (`AncestorNumber`): `StartsFirst`. `OZSpinLock` gets the next number and
  its superclass has one (`InjectNumbers`).

`CirclesRefused` has two directions. Without a circle among the chains the numbers above
exist, and a class would have a smaller one than its own ancestor (`NoCircle`); a chain that
is longer than there are classes names one of them twice, and then the sources have a
circle (`CircleFound`). This is the part about superclasses of `RejectsExactly`.

Folds over sequences are proved about through the function of their steps (`FoldTrace`),
chains and ancestors likewise (`ChainTrace`, `AncestorTrace`).

Only model-checked: the other seven properties of `front_end`. `EvaluatedInOrder` has to stay
so, because the statements of `OZExpr` are modelled with `RECURSIVE` operators.

## 6. `@synchronized`, accessors and timers

`OZSync` runs threads on a kernel. `on` is the thread of each CPU, `masked`
whether its interrupts are masked, `isr` whether it is in the timer's expiry
handler. `Preempt` switches a CPU whose interrupts are not masked. A
`@synchronized` block is `SyncAlloc`, `SyncRetain`, `SyncLock`, and on the way
out, for each `OZSpinLock` it leaves, `SyncUnlock`, `SyncGive`, `SyncFree`
(`emit.py` 969-1009, `class_header.h.j2` 388-407). `SyncEnd` leaves one block,
`SyncReturn` all of them in the order of their declarations, as the emitter
does. The accessors are one action up to each point at which another CPU can see
a difference (`emit.py` 629-680). The kernel's part is external and is what its
documentation says: `k_spin_lock` masks the interrupts of its CPU and then spins;
an interrupt or another thread only runs when they are not masked.

- `OneCpuExcludes`: each block locks a lock that was just made, so that on one
  CPU only the masked interrupts keep two threads apart. On several CPUs nothing
  does, and the property does not say so.
- `MaskExact`: the mask is what entering found. Without "single return", a
  `return` from nested blocks restores the inner block's mask last and leaves
  interrupts masked.
- `SlabSuffices`: `OZSpinLock_alloc` returns NULL only from a slab smaller than
  `Needed`. The build counts blocks in the text and knows nothing of threads, so
  the slab may be smaller; then the program calls through NULL (`crashed`).
- `BlocksBalanced`, `ValueRefsExact`: the references of object, value and slab
  are exact however blocks and setters overlap.
- `GetterSafe`: what a getter returns is alive when it is used, if its caller
  keeps other threads out ("guarded getter"); without the rule another thread's
  setter frees it, although the property is atomic.
- `TimerSafe`: no expiry handler begins once the dealloc of the timer has begun, on any
  number of CPUs. A handler that runs while the timer is not live began before and runs on
  another CPU than the dealloc; on one CPU there is none. It is all that the code
  provides: `k_timer_stop` does not wait for a handler, so on two CPUs one may still run
  when the timer's memory is given back (TLC shows such a run in four steps).
- `BlockEnds`: on one CPU a thread leaves its block.

Fairness: a CPU that can run its thread does, and an interrupt handler ends. It
is not assumed that the kernel ever switches threads, so a thread that is
preempted may never run again; a thread in a block cannot be. Bounds: two
threads and two CPUs are every pair that can race; blocks nested twice have an
inner and an outer mask; `MaxCalls` lets each thread do one more thing inside a
block. `Sizes` has a slab that is one too small and those that suffice.

### Proofs

`OZSyncProofs` proves every safety property of the run for any finite set of
threads, any number of CPUs, any slab, depth and set of values (`SyncAssumption`).
The inductive invariant `IInv` is built in layers, each inductive given the one
before.

- `BlockInv` and the accessors' part (`AccessorShape`, `ValueRefsExact`) need no rule.
  `StackShape` says which locks of a thread's stack are in which state at each
  point of the code, `StacksApart` that no block of the slab is on two stacks or
  twice on one, `ObjRefsExact` and `ValueRefsExact` are counts of sets that each step
  changes by one member. `AccessorShape` names the accessor that has
  `_oz_prop_lock`: its copy of the ivar is the ivar until it leaves, so that the
  old value it drops is dropped once.
- Under "single return", `MaskInv`: keys on a thread's stack are unmasked at the
  bottom and masked above it (`KeysExact`), so that leaving one block at a time
  restores what entering found. A thread with a lock has its CPU masked and keeps
  it, from which `OneCpuExcludes` follows. `SlabSuffices` is inductive with it: a
  thread that finds the slab empty is the one that may go deeper, all others have
  at most one block each (one CPU) or `MaxDepth` (several), and the stacks that
  share `slab` blocks cannot be longer together than that (`Crowded`, `SlabEmpty`).
- Under both rules, `GettersInside`: the value in a getter's hand is the ivar as long
  as its caller is in the block, because nobody else runs.
- `TimerRuns`: a timer that runs is live, a stopped one stays stopped, and a handler of a
  timer that is not live is on another CPU than the thread in dealloc (`Overtaken`).
  `TimerSafe` follows: a handler only begins on a timer that runs (`HandlerBegan`).

`BlocksPaired`, `CountersExact` and `TimersSafe` hold of every program; `MasksRestored`,
`BlocksExclude`, `SlabLargeEnough` and `GettersSafe` have the rules as hypotheses, and
each rule is needed (TLC's traces above). Only model-checked: `BlockEnds`.

## 7. Collections, strings, numbers and logging

`OZFoundation` runs one of four parts at a time (`uses`); they share no state.

`OZCollections`: a literal takes references to its elements, a block of the
container's slab and cells of the item pool, on the host any free ones by
counting, on Zephyr contiguous ones; then it copies the elements, a dictionary's
keys before its values. Loops run over it with `for`-`in` or a block; `_iterIdx` is in
the container. `ElementsExact` counts the owners of each element through
evaluation, failure and dealloc. Two kinds of references are never given up by the code, and
are counted in `lost`, so that `ElementsExact` says where leaks come from and not that there
are none: those of a literal that fails, and one for each element like
`[[Foo alloc] init]`, whose result is retained although it comes with a reference
(`emit.py` 2013-2018, 2824-2840). `PoolsSuffice` says
in which two cases a literal can fail at all. Rules: "no nil" (a nil element ends
a loop, `LoopExact`), "owner kept" (a loop's body releases the container,
`LoopSafe`), "one for-in" (two loops over one array move each other,
`LoopExact` and `LoopEnds`). Fairness (`CollectionFairness`): a loop that has begun
goes on.

`OZMutableString`: the buffer with its NUL, sizes of `Width` bits, appends as the
copy of the old characters to a larger buffer and the copy of the new ones,
memory that may not be there. `Terminated` holds between methods;
`ImplementsText` maps the characters up to `_length` to `OZText`, where a text is
extended or replaced at once. Rules: "fits" (a length whose capacity would wrap
to zero doubles for ever, `DoublingEnds`), "not itself" (`[s appendString:s]` reads
the buffer it has overwritten, `Terminated` and `ImplementsText`). Four bits stand
for 32: strings up to seven characters reach the wrap.

`OZQ31`: a mantissa of `NumberWidth` bits and a shift. `asked` is the result in the
rationals; `ResultExact` says that a factory or an operation is less than one unit
of its own last place away from it, and saturates outside the range. Division by
zero gives zero, as the tests want it. Six bits instead of 32 keep every
boundary (both ends of the range, each shift, a shift of the full width, the
rounding of halves) and allow every pair of numbers. Every result is again one
of the numbers a program may begin with (`UseResult`), so longer calculations are
covered.

| without | what happens |
|---|---|
| "float below half" | a float of 2^30 or more is encoded with half its value |
| "shifts fit" | a product whose shifts add up to more than 31 is too small and not saturated |
| "not both lowest" | the product of the two lowest mantissas changes its sign |
| "unsigned fits" | an unsigned integer of 2^31 or more becomes negative |

`OZLog`: `_oz_q31_to_str` digit by digit with its carry, and the static variable
that hands a format's precision to it. `LoggedExactly` says that each thread prints
its own number rounded to its own format. Without "one logger" a thread prints
with another one's precision. Three digits instead of 14 are more than the
fractions of six bits need for a carry into the whole part.

### Proofs

A step of one part leaves the variables of the others alone, so each part has an
invariant of its own, and `AlwaysTyped` puts their types together.

**Collections** (`OZCollectionsProofs`), for any program of literals with finitely many
places, any sizes and any number of elements and loops. `PoolsInv` needs no rule:

- `Shape` has the types; `CellsExact` and `CellsFilled` say that literals have cells of
  their own with their items in them. Together they are `ContentsExact`.
- `ElementsExact` is a count of `Places`, the items of all literals that own a
  reference, written as a union of sets that are indexed by literals: a step changes
  the set of one literal (`PlacesChange`), and that by one item or all of them.
- `PoolsSuffice` is inductive with `RunsAligned`: if the literals of a Zephyr program have
  one size, their runs of cells begin at multiples of it. The items of the literals
  that have cells map one to one into the items of the text, so a literal that
  fails would leave a whole multiple free, and first fit finds one; on the host any
  free cells do.

`LoopsInv` is inductive under the rules ("owner kept" keeps the container of a loop
live and its cells in place, "one for-in" its index). It says of each loop where it
is and that what it has seen are the elements before that place, from which
`LoopExact` follows.

**Strings** (`OZFoundationProofs`), for sizes of any `Width`. `StringAssumption` has what a
power of two is, which the prover does not know. The rules are hypotheses: a string
that fits half the memory makes doubling stay below 2^Width. The invariant adds to
`Terminated` what a method under way has copied (`Writing`). `StringRefinement` maps each
step to one of `OZText` or a stutter: the text is the buffer up to `_length`, which
changes at one assignment.

**Numbers** (`OZFoundationProofs`), for mantissas of any width and any floats.
`NumberAssumption` has what the powers of two are, `Powers` and `PowerSum` follow from
it with the least counterexample. Each factory and operation has a lemma that its
result is a number and near the fraction it stands for (`Near`, the text of
`ResultExact`): `FromIntegerNear`, `FromFloatNear`, `AddedNear` and `SubtractedNear` over
`RenormalizedNear`, `MultipliedNear`, `DividedNear` over `QuotientNear` and
`RoundedQuotient`. The rules are those of the table and each lemma has the one it
needs. The invariant only adds that operands are numbers.

**Logging** (`OZFoundationProofs`), for any number of decimals and threads. `LogAssumption` has
what the powers of ten are. The digits are those of a long division: the first i of
them, read as a number, and the rest make the fraction times 10^i (`LongDivision`,
`PlainReads`). The carry adds one to what they read, or makes them zeros and adds one to
the whole part (`CarriedReads`), and trimming divides by a power of ten (`TrimmedReads`).
`ToStrPrints` concludes that the text is the rounded number, and `LogInv` that the static
variable is the precision of the one thread that logs, which is the rule "one logger".
`Read` is a recursive function; what it is (`ReadIs`) follows from `ReadingExists`, that some
function satisfies its equation, with the least counterexample.

Only model-checked: `LoopEnds`, `DoublingEnds`.

## 8. The checks before the build

`OZCycles` is `objz_check_cycles.py`: `_collect_all_files` with its queue, the
interfaces in the order of a set, the inherited references, and the depth-first
search with its three colours, one action for each thing the search does with a
node. What may leak is stated from the sources: a set of classes each of which
holds another one of it (`MayLeak`). `CyclesExact`: every reported cycle is one,
and each program that may leak fails if the check can see why (`Visible`).
`Visible` names what it cannot see: fields whose objects are of a subclass of the
declared class, fields of type `id` or with "assign" in the name of a getter,
references through collections, `<...>` imports, and two interfaces of one class
that differ in the superclass. Each part of `Visible` was taken away once and was
needed. `SourcesAssumption` is about the constant that gives TLC its programs: names
are those of classes, and the classes of the Foundation inherit from each other or
from the root class and keep no object of the program in a field.

`OZPools` is `objz_gen_pools.py`: allocations and calls of each function, counted
along the call graph from main and the thread entries; and the program that runs
with these pools and never frees. `PoolsExact`: no pool is exhausted
(`PoolsLast`) and none is larger than needed (`PoolsTight`). Both are for programs without
loops, recursion and calls the walk cannot resolve (`Seen`), each of which was needed.
A program without main and threads starts at one function; its pools are sized for the
functions with an alloc of their own (`Allocating`), and only for classes with "pool" in
their name. `PoolsAssumption` says that programs and thread entries are finite.
`Known` has the classes with an `@interface`. The script also knows those it met only as an
`@implementation` (254-258), which have no references of their own and so are on no cycle.
`CheckEnds`: the cycle check ends, also when files import each other, under weak
fairness of its steps, which are those of one sequential program. Superclasses in a circle are
not part of it: `get_ancestors` is one step of the model, the closure that its
`visited` set makes of the loop. `objz_gen_pools.py` has no liveness property.

### Proofs

`OZBuildProofs` proves `CyclesExact` for any number of files and classes (`CheckExact`),
from `SourcesAssumption` alone, and `PoolsExact` for any programs (`PoolsAlwaysExact`), from
`PoolsAssumption` alone. The inductive invariant `CyclesInv` says after each step

- `FilesInv`: which files were found: only imported ones, and all those that a file
  that was read imports, or they are in the queue;
- `ReadInv`: that references and superclasses are those of interfaces that were read,
  and that each interface was read, or it or its file is still to be read;
- `SearchInv`: that the path is one of the graph and the grey classes are those on it
  (`PathExact`); that what a class refers to and has been looked at is black or next on
  the path, unless a cycle was found (`LookedAt`); and that, unless one was found,
  there is no circle among the black classes (`NoBlackRound`).

A class becomes black when all it refers to is black, and no black class refers to
it: a circle through it would have to return to a black one (`LeaveKeeps`). At the
end each class that refers to anything is black, so the graph has no circle.
`ReferencesHeld` and `HeldReferenced` relate the graph to what the program may hold:
`Closure` is the least closed set, on both sides, and between the two are only classes
of the Foundation and the root, which hold nothing (`AncestorsSeen`).

For the pools the invariant (`PoolsInv`) is an equation. What a frame owes is what its
function will still allocate, itself and through its calls, from the node it stands at
(`Owed`), and a thread owes the sum over its frames. `Balanced`: what is taken and what
all threads owe is, for each class, what the threads promised when they started, which
is the count of the pool. An alloc moves one block from owed to taken (`AfterAlloc`); a
call moves what the callee allocates from one frame to a new one (`AfterCall`); a frame at
its end owes nothing. The depth of a stack is bounded by the rank of its function
(`StackInv`), so the bound on the recursion in `Call` is never met. `effective_allocs` recurs over
the functions it has not visited; that its equations have a solution (`EffectiveExists`)
is proved by the least number of functions left to visit for which they have none, and
that what was visited makes no difference without recursion (`VisitedUnseen`) by the
highest rank for which it does. `TotalSplit` and `TotalChange` are the lemmas about sums.

Only model-checked: `CheckEnds`.

## 9. Proved, checked, not modelled

Proved for every instance: all safety properties of `OZObject` and its refinement of
`OZOwnership` (section 3), of `OZArc` for programs that keep the rules (section 4), of
`OZSync` (section 6), of the collections, strings, numbers and logging with the
refinement of `OZText` (section 7), of the cycle check and the pools (section 8), and
`SuperFirst` and the refusal of circles of the front end (section 5).

Only model-checked: liveness (`DeallocEnds`, `BlockEnds`, `LoopEnds`, `DoublingEnds`,
`CheckEnds`), which is out of the prover's reach; and of the front end `NothingLost`,
`AccessorsExact`, `RejectsExactly`, `DispatchExact`, `EmittedOnce`, `StaticsInScope` and
`EvaluatedInOrder`, the last because nothing can be proved about `RECURSIVE` operators.

Not modelled:

- of the ARC emission: references inside expressions (elements of literals,
  discarded results, temporaries for receivers), blocks and C functions;
- of the front end: see section 5;
- of the Foundation: lookups, comparisons and descriptions, which change
  nothing; narrowing conversions of `OZQ31`; empty literals; the other
  conversions of `OZLog` and the limits of its buffer; `OZDefer`, whose only step
  is to call its block in dealloc; `OZHeap`, which forwards to an allocator that
  is not in the repository (which allocator a block returns to is in `OZObject`);
- of the scripts: sizes of blocks and of the retired dispatch tables, which are
  sums over lines; scripts that copy or merge text;
- the legacy runtime, which nothing builds.

-------------------------------- MODULE OZArc --------------------------------
(***************************************************************************)
(* The retain and release calls the transpiler inserts, and what they do.  *)
(*                                                                         *)
(* The emitter walks a method once, statement by statement, and keeps a    *)
(* stack of scope frames (the object variables to release) and a set of    *)
(* consumed variables (the ones whose reference moved to an ivar).  A      *)
(* behaviour of this module is the walk over a method chosen statement by  *)
(* statement, together with one execution of the C code it writes: the     *)
(* code of a statement runs if control reaches it (resume = 0) and is only *)
(* written otherwise.  Methods follow each other on one receiver, whose    *)
(* ivars persist until its dealloc.                                        *)
(*                                                                         *)
(* The constants say which programs are considered: what a statement may   *)
(* have on its right-hand side, which blocks exist, and the programming    *)
(* rules (Rules) that the programs follow.                                 *)
(***************************************************************************)
EXTENDS Integers, Sequences, FiniteSets

CONSTANTS
  Objects,
  Held,         \* objects the rest of the program owns: elements, arguments
  Locks,        \* the pool of OZSpinLock objects
  Locals,       \* names of local variables
  Params,       \* names of object parameters
  Syncs,        \* names _sync, _sync2 ... of the lock variables
  Ivars,        \* strong ivars of the receiver
  DeclFrom, AssignFrom, IvarFrom, ReturnOf,   \* kinds of right-hand sides
  BlockKinds,   \* kinds of blocks
  Rules,        \* the rules the programs follow
  MaxBlocks,    \* bound on the nesting of blocks
  RefMax,       \* bound on a reference count
  Nil

AllRules == {"distinct names", "move in own block", "no use after move",
             "no break in switch", "for-in to the end", "no dealloc locals",
             "dealloc to the end", "returns agree", "no explicit release"}

ASSUME ArcAssumption ==
  /\ Held \cup Locks \subseteq Objects
  /\ Held \cap Locks = {}
  /\ IsFiniteSet(Locals \cup Params \cup Syncs) /\ IsFiniteSet(Ivars)
  /\ Locals \cap Params = {} /\ Syncs \cap (Locals \cup Params) = {}
  /\ {Nil, "undeclared"} \cap Objects = {} /\ Nil # "undeclared"
  /\ Rules \subseteq AllRules
  /\ MaxBlocks \in Nat /\ RefMax \in Nat

Names == Locals \cup Params \cup Syncs
Undeclared == "undeclared"

VARIABLES
  blocks,    \* the open blocks, innermost last: kind, the emitter's frame
             \* (vars), the values of the variables declared in it, and how
             \* its last statement ended it
  consumed,  \* the emitter's consumed_vars
  returns,   \* the kinds of the return statements written so far
  resume,    \* 0, or the block whose end control has jumped to
  rc,        \* the reference counts; 0 is free memory
  ivar,      \* the values of the ivars
  result,    \* what the method returned
  dangling,  \* a retain, a release or a message reached free memory
  unguarded  \* state was read in a @synchronized block without its lock

vars == <<blocks, consumed, returns, resume, rc, ivar, result, dangling,
          unguarded>>

-----------------------------------------------------------------------------
(* Blocks and names *)

Depth   == Len(blocks)
Top     == blocks[Depth]
Live    == resume = 0
Open    == /\ Depth > 0 /\ ~dangling
           /\ Top.last = "none" /\ Top.kind # "forin"
Maximum(S) == CHOOSE i \in S : \A j \in S : j <= i

NoValues == [n \in Names |-> Undeclared]
Block(kind, frame, val) ==
  [kind |-> kind, vars |-> frame, val |-> val, last |-> "none"]
Plain(kind) == Block(kind, {}, NoValues)

DeclaredIn(n) == {d \in 1..Depth : blocks[d].val[n] # Undeclared}
Visible(n)    == DeclaredIn(n) # {}
Home(n)       == Maximum(DeclaredIn(n))
Value(n)      == blocks[Home(n)].val[n]
InScope(n)    == \E d \in 1..Depth : n \in blocks[d].vars
BlocksOf(k)   == {d \in 1..Depth : blocks[d].kind \in k}
IsLoopVar(n)  == blocks[Home(n)].kind = "forin"

\* The loop boundary: frames from here on belong to the innermost loop's body.
LoopBody == IF BlocksOf({"loop"}) = {} THEN Depth + 1
            ELSE Maximum(BlocksOf({"loop"}))

-----------------------------------------------------------------------------
(* Generated code *)

None == [o \in Objects |-> 0]
One(v) == [o \in Objects |-> IF o = v THEN 1 ELSE 0]

\* How often each object is released by code that releases every variable of
\* the frames ds except the consumed ones and those in keep.  A name in two
\* frames is released twice, both times through its innermost declaration.
Releases(ds, keep) ==
  LET sent == {s \in ds \X Names :
                 s[2] \in blocks[s[1]].vars \ (consumed \cup keep)}
  IN [o \in Objects |-> Cardinality({s \in sent : Value(s[2]) = o})]

\* The counts after a new object, a retain and the given releases.
After(fresh, kept, lost) ==
  [o \in Objects |->
     LET n == (IF o = fresh THEN 1 ELSE rc[o]) + One(kept)[o]
     IN IF n > lost[o] THEN n - lost[o] ELSE 0]

\* One of those calls got a pointer to free memory.
Strays(fresh, kept, lost) ==
  \E o \in Objects : LET n == IF o = fresh THEN 1 ELSE rc[o]
                     IN \/ o = kept /\ n = 0
                        \/ n + One(kept)[o] < lost[o]

Run(fresh, kept, lost) ==
  IF Live
  THEN /\ rc' = After(fresh, kept, lost)
       /\ dangling' = Strays(fresh, kept, lost)
       /\ \A o \in Objects : rc'[o] <= RefMax
  ELSE UNCHANGED <<rc, dangling>>

-----------------------------------------------------------------------------
(* Expressions *)

Fresh(o) == /\ rc[o] = 0
            /\ \A d \in 1..Depth, n \in Names : blocks[d].val[n] # o
            /\ \A i \in Ivars : ivar[i] # o

Readable(n) ==
  /\ n \in Locals \cup Params
  /\ Visible(n)
  /\ "no use after move" \in Rules => n \notin consumed

\* The expressions of the given kinds.  "new" stands for everything that
\* returns +1 (alloc, init, literals, class factories), "call" for any other
\* message, "send" for a message to a variable whose result is a scalar.
Exprs(kinds) ==
       {[kind |-> k, of |-> Nil] : k \in kinds \cap {"nil", "new", "call",
                                                     "void"}}
  \cup {[kind |-> k, of |-> n] :
          k \in kinds \cap {"var", "send"}, n \in {m \in Names : Readable(m)}}
  \cup {[kind |-> "ivar", of |-> i] : i \in IF "ivar" \in kinds THEN Ivars
                                            ELSE {}}

\* Nothing is evaluated where control does not come.
ValuesOf(e) ==
  IF ~Live THEN {Nil}
  ELSE CASE e.kind = "new"   -> {o \in Objects \ (Held \cup Locks) : Fresh(o)}
         [] e.kind = "call"  -> Held
         [] e.kind = "var"   -> {Value(e.of)}
         [] e.kind = "ivar"  -> {ivar[e.of]}
         [] OTHER            -> {Nil}

New(e, v)      == IF e.kind = "new" THEN v ELSE Nil
IsBorrowed(e)  == e.kind \in {"call", "var"}
IsOwning(e)    == e.kind = "new"
IsScalar(e)    == e.kind \in {"void", "send"}

-----------------------------------------------------------------------------
(* Blocks *)

\* C's variables of a new block; the emitter pushes a frame for it.
Push(bs) == /\ Depth + Len(bs) <= MaxBlocks
            /\ blocks' = blocks \o bs

NoParamRetains(args) == None
ParamRetains(args) == [o \in Objects |-> Cardinality({p \in Params : args[p] = o})]

\* Every parameter is retained and released like a local.  It may be an
\* object that only an ivar of the receiver owns.
BeginMethod ==
  /\ blocks = <<>>
  /\ ~dangling
  /\ \E args \in [Params -> Held \cup {ivar[i] : i \in Ivars} \cup {Nil}] :
       /\ blocks' = <<Block("method", Params,
                            [n \in Names |-> IF n \in Params THEN args[n]
                                             ELSE Undeclared])>>
       /\ rc' = [o \in Objects |-> rc[o] + ParamRetains(args)[o]]
       /\ \A o \in Objects : rc'[o] <= RefMax
       /\ dangling' = \E p \in Params : args[p] # Nil /\ rc[args[p]] = 0
  /\ consumed' = {}
  /\ returns' = {}
  /\ result' = Nil
  /\ UNCHANGED <<resume, ivar, unguarded>>

\* A dealloc written in the source is walked with an empty scope stack.
BeginDealloc ==
  /\ blocks = <<>>
  /\ ~dangling
  /\ blocks' = <<Plain("dealloc")>>
  /\ consumed' = {}
  /\ returns' = {}
  /\ result' = Nil
  /\ UNCHANGED <<resume, rc, ivar, dangling, unguarded>>

\* The body of a compound statement, if or loop.  A loop's body runs at most
\* once.
OpenBlock(kind) ==
  /\ Open
  /\ kind \in BlockKinds \cap {"block", "then", "loop"}
  /\ Push(<<Plain(kind)>>)
  /\ \/ UNCHANGED resume
     \/ kind # "block" /\ Live /\ resume' = Depth + 1
  /\ UNCHANGED <<consumed, returns, rc, ivar, result, dangling, unguarded>>

\* A switch statement has no frame, the block of its case has one.
OpenSwitch ==
  /\ Open
  /\ "switch" \in BlockKinds
  /\ Push(<<Plain("switch"), Plain("case")>>)
  /\ \/ UNCHANGED resume
     \/ Live /\ resume' = Depth + 2
  /\ UNCHANGED <<consumed, returns, rc, ivar, result, dangling, unguarded>>

\* The frame of the loop variable is outside the loop boundary.
OpenForIn(n) ==
  /\ Open
  /\ "forin" \in BlockKinds
  /\ n \in Locals
  /\ "distinct names" \in Rules => ~Visible(n) /\ n \notin consumed
  /\ \E v \in IF Live THEN Held ELSE {Nil} :
       Push(<<Block("forin", {n}, [NoValues EXCEPT ![n] = v]), Plain("loop")>>)
  /\ \/ UNCHANGED resume
     \/ Live /\ resume' = Depth + 2
  /\ UNCHANGED <<consumed, returns, rc, ivar, result, dangling, unguarded>>

\* @synchronized: the lock object is taken from its pool and locked.
OpenSync(n) ==
  /\ Open
  /\ "sync" \in BlockKinds
  /\ n \in Syncs
  /\ ~Visible(n)
  /\ \E v \in IF Live THEN {o \in Locks : Fresh(o)} ELSE {Nil} :
       /\ Push(<<Block("sync", {n}, [NoValues EXCEPT ![n] = v])>>)
       /\ Run(v, Nil, None)
  /\ UNCHANGED <<consumed, returns, resume, ivar, result, unguarded>>

\* What is released at the end of the innermost block: nothing after a
\* return, which has released already, and nothing for a for-in variable.
EndReleases ==
  IF Top.last = "return" \/ Top.kind \in {"forin", "dealloc"} THEN None
  ELSE Releases({Depth}, {})

\* Control that jumped to the end of this block goes on after it.
AtEnd  == IF resume = Depth THEN 0 ELSE resume
Nested == Depth > 1 /\ ~dangling

Close ==
  /\ Nested
  /\ Run(Nil, Nil, EndReleases)
  /\ blocks' = SubSeq(blocks, 1, Depth - 1)
  /\ resume' = AtEnd
  /\ UNCHANGED <<consumed, returns, ivar, result, unguarded>>

\* The else branch runs if the then branch was skipped.
Else ==
  /\ Nested
  /\ Top.kind = "then"
  /\ Run(Nil, Nil, EndReleases)
  /\ blocks' = [blocks EXCEPT ![Depth] = Plain("else")]
  /\ resume' = IF resume = Depth THEN 0 ELSE IF Live THEN Depth ELSE resume
  /\ UNCHANGED <<consumed, returns, ivar, result, unguarded>>

\* The end of the method.  The caller binds the result to a variable, which
\* retains it unless every return statement of the method returned an owning
\* expression, and releases the variable later.
EndMethod ==
  /\ Depth = 1
  /\ ~dangling
  /\ Top.kind = "method"
  /\ Live => \A r \in returns : r = "scalar"
  /\ IF Live THEN Run(Nil, Nil, EndReleases)
     ELSE LET owned == returns = {"owning"}
          IN /\ rc' = [o \in Objects |-> IF o = result /\ owned /\ rc[o] > 0
                                         THEN rc[o] - 1 ELSE rc[o]]
             /\ dangling' = (result # Nil /\ rc[result] = 0)
  /\ blocks' = <<>>
  /\ resume' = 0
  /\ result' = Nil
  /\ UNCHANGED <<consumed, returns, ivar, unguarded>>

\* After the body, dealloc releases the ivars; a return in the body skips
\* that.  The next methods run on another receiver.
EndDealloc ==
  /\ Depth = 1
  /\ ~dangling
  /\ Top.kind = "dealloc"
  /\ Run(Nil, Nil, [o \in Objects |-> Cardinality({i \in Ivars : ivar[i] = o})])
  /\ ivar' = [i \in Ivars |-> Nil]
  /\ blocks' = <<>>
  /\ resume' = 0
  /\ UNCHANGED <<consumed, returns, result, unguarded>>

-----------------------------------------------------------------------------
(* Statements *)

\* Tracked for release, except at the top of a dealloc; a borrowed value is
\* retained.
Declare(n, e) ==
  /\ Open
  /\ Top.kind # "switch"
  /\ n \in Locals
  /\ Top.val[n] = Undeclared
  /\ "distinct names" \in Rules => ~Visible(n) /\ n \notin consumed
  /\ "no dealloc locals" \in Rules => Top.kind # "dealloc"
  /\ e \in Exprs(DeclFrom)
  /\ LET tracked == Top.kind # "dealloc"
     IN \E v \in ValuesOf(e) :
          /\ Run(New(e, v), IF tracked /\ IsBorrowed(e) THEN v ELSE Nil, None)
          /\ blocks' = [blocks EXCEPT
                          ![Depth].vars = IF tracked THEN @ \cup {n} ELSE @,
                          ![Depth].val[n] = v]
  /\ UNCHANGED <<consumed, returns, resume, ivar, result, unguarded>>

\* x = e: only a variable's value is retained; the old value is always
\* released, the new one belongs to x again.
Assign(n, e) ==
  /\ Open
  /\ Readable(n)
  /\ "for-in to the end" \in Rules => ~IsLoopVar(n)
  /\ e \in Exprs(AssignFrom)
  /\ \E v \in ValuesOf(e) :
       /\ IF InScope(n)
          THEN Run(New(e, v),
                   IF e.kind = "var" /\ InScope(e.of) THEN v ELSE Nil,
                   One(Value(n)))
          ELSE Run(New(e, v), Nil, None)
       /\ blocks' = IF Live THEN [blocks EXCEPT ![Home(n)].val[n] = v]
                    ELSE blocks
  /\ consumed' = IF InScope(n) THEN consumed \ {n} ELSE consumed
  /\ UNCHANGED <<returns, resume, ivar, result, unguarded>>

\* A local variable that gives its reference away.
Moves(n) ==
  /\ "move in own block" \in Rules => Home(n) = Depth
  /\ "for-in to the end" \in Rules => ~IsLoopVar(n)

\* The variables whose reference an ivar takes over.
Consumes(e) == IF e.kind = "var" /\ e.of \in Locals /\ InScope(e.of) THEN {e.of}
               ELSE {}

\* _i = e: a parameter is retained, a local hands its reference over and is
\* consumed, everything else is taken to be +1 already.
SetIvar(i, e) ==
  /\ Open
  /\ e \in Exprs(IvarFrom)
  /\ e.kind = "var" /\ e.of \in Locals => Moves(e.of)
  /\ \E v \in ValuesOf(e) :
       /\ Run(New(e, v),
              IF e.kind = "var" /\ e.of \in Params THEN v ELSE Nil,
              One(ivar[i]))
       /\ ivar' = IF Live THEN [ivar EXCEPT ![i] = v] ELSE ivar
  /\ consumed' = consumed \cup Consumes(e)
  /\ UNCHANGED <<blocks, returns, resume, result, unguarded>>

\* [x release]
ExplicitRelease(n) ==
  /\ Open
  /\ "no explicit release" \notin Rules
  /\ Readable(n)
  /\ n \in Locals => Moves(n)
  /\ n \in Params /\ "move in own block" \in Rules => Home(n) = Depth
  /\ Run(Nil, Nil, One(Value(n)))
  /\ consumed' = IF InScope(n) THEN consumed \cup {n} ELSE consumed
  /\ UNCHANGED <<blocks, returns, resume, ivar, result, unguarded>>

\* [x foo]
Send(n) ==
  /\ Open
  /\ Readable(n)
  /\ Live
  /\ dangling' = (Value(n) # Nil /\ rc[Value(n)] = 0)
  /\ UNCHANGED <<blocks, consumed, returns, resume, rc, ivar, result,
                 unguarded>>

\* break and continue: control goes to the end of the innermost loop or
\* switch; the frames up to the innermost loop's boundary are released.
JumpReleasesTop == Releases({Depth}, {})
JumpReleases == Releases(LoopBody..Depth, {})

JumpTargets ==
  LET loops  == BlocksOf({"loop"})
      places == BlocksOf({"loop", "switch"})
  IN {Maximum(S) : S \in {loops, places} \ {{}}}

Jump(target) ==
  /\ Open
  /\ target \in JumpTargets
  /\ "no break in switch" \in Rules /\ blocks[target].kind = "switch" =>
       \A d \in (target..Depth) \cup (LoopBody..Depth) :
          blocks[d].vars \subseteq consumed
  /\ Run(Nil, Nil, JumpReleases)
  /\ blocks' = [blocks EXCEPT ![Depth].last = "jump"]
  /\ resume' = IF Live THEN target ELSE resume
  /\ UNCHANGED <<consumed, returns, ivar, result, unguarded>>

\* return e: every variable in scope but the returned one is released first,
\* then the expression is evaluated.
ReturnReleases(e) ==
  Releases(1..Depth, IF e.kind = "var" THEN {e.of} ELSE {})

Return(e) ==
  /\ Open
  /\ e \in Exprs(ReturnOf)
  /\ blocks[1].kind = "dealloc" => e.kind = "void"
  /\ "dealloc to the end" \in Rules => blocks[1].kind # "dealloc"
  /\ "for-in to the end" \in Rules => BlocksOf({"forin"}) = {}
  /\ returns' = returns \cup {IF IsOwning(e) THEN "owning"
                              ELSE IF IsScalar(e) THEN "scalar"
                              ELSE "borrowed"}
  /\ "scalar" \in returns' => Cardinality(returns') = 1
  /\ "returns agree" \in Rules => Cardinality(returns') = 1
  /\ \E v \in ValuesOf(e) :
       LET left == After(Nil, Nil, ReturnReleases(e))
           read == IF e.kind = "send" THEN Value(e.of) ELSE Nil
       IN IF Live
          THEN /\ rc' = IF IsOwning(e) THEN [left EXCEPT ![v] = 1] ELSE left
               /\ dangling' = \/ Strays(Nil, Nil, ReturnReleases(e))
                              \/ read # Nil /\ left[read] = 0
               /\ unguarded' = (\/ unguarded
                                \/ /\ e.kind = "ivar"
                                   /\ \E d \in BlocksOf({"sync"}), n \in Syncs :
                                        /\ n \in blocks[d].vars
                                        /\ left[blocks[d].val[n]] = 0)
               /\ result' = v
               /\ resume' = 1
          ELSE UNCHANGED <<rc, dangling, unguarded, result, resume>>
  /\ blocks' = [blocks EXCEPT ![Depth].last = "return"]
  /\ UNCHANGED <<consumed, ivar>>

-----------------------------------------------------------------------------

Init ==
  /\ blocks = <<>>
  /\ consumed = {}
  /\ returns = {}
  /\ resume = 0
  /\ rc = [o \in Objects |-> IF o \in Held THEN 1 ELSE 0]
  /\ ivar = [i \in Ivars |-> Nil]
  /\ result = Nil
  /\ dangling = FALSE
  /\ unguarded = FALSE

Statement ==
  \/ \E n \in Locals, e \in Exprs(DeclFrom) : Declare(n, e)
  \/ \E n \in Locals \cup Params, e \in Exprs(AssignFrom) : Assign(n, e)
  \/ \E i \in Ivars, e \in Exprs(IvarFrom) : SetIvar(i, e)
  \/ \E n \in Locals \cup Params : ExplicitRelease(n) \/ Send(n)
  \/ \E d \in JumpTargets : Jump(d)
  \/ \E e \in Exprs(ReturnOf) : Return(e)

Next ==
  \/ BeginMethod
  \/ BeginDealloc
  \/ \E k \in BlockKinds : OpenBlock(k)
  \/ OpenSwitch
  \/ \E n \in Locals : OpenForIn(n)
  \/ \E n \in Syncs : OpenSync(n)
  \/ Statement
  \/ Close
  \/ Else
  \/ EndMethod
  \/ EndDealloc

Spec == Init /\ [][Next]_vars

-----------------------------------------------------------------------------
(* Properties *)

\* The variables in the first k blocks that own a reference to an object.  A
\* for-in variable only borrows an element.
Owned(k, o) == {s \in (1..k) \X Names :
                  /\ s[2] \in blocks[s[1]].vars \ consumed
                  /\ blocks[s[1]].kind # "forin"
                  /\ blocks[s[1]].val[s[2]] = o}

\* The strong references there are to an object: the rest of the program's,
\* the ivars, and the tracked variables that still own their value.
Outside(o) == (IF o \in Held THEN 1 ELSE 0) + Cardinality({i \in Ivars : ivar[i] = o})
Owners(o)  == Outside(o) + Cardinality(Owned(Depth, o))

\* Wherever control stands between two statements, an object has one count for
\* each strong reference to it: what a variable or ivar owns is alive, what
\* nobody owns any more is freed, the lock of a @synchronized block that was
\* left is unlocked, and no call has met free memory (_emit_compound_stmt,
\* _emit_return_stmt, _emit_break_continue_releases).
CountsExact ==
  /\ ~dangling
  /\ Live => \A o \in Objects : rc[o] = Owners(o)

\* The visible end of it: no retain, release or message reaches free memory.
NoStrayCall == ~dangling

\* An expression that a @synchronized block returns is evaluated while the
\* block's lock is held.
GuardedReads == ~unguarded

-----------------------------------------------------------------------------
(* The parts of the inductive invariant *)

\* The programs whose counts are exact.
KeepsRules ==
  /\ AllRules \ {"no explicit release", "no break in switch", "for-in to the end"}
       \subseteq Rules
  /\ "switch" \in BlockKinds => "no break in switch" \in Rules
  /\ "forin" \in BlockKinds => "for-in to the end" \in Rules
  /\ DeclFrom \subseteq {"nil", "new", "call", "var"}
  /\ AssignFrom \cup IvarFrom \subseteq {"nil", "new", "var"}
  /\ ReturnOf \subseteq {"void", "nil", "new", "call", "ivar"}

Kinds == {"method", "dealloc", "block", "then", "else", "loop", "switch", "case",
          "forin", "sync"}
OpenBlocks == [kind : Kinds, vars : SUBSET Names,
               val : [Names -> Objects \cup {Nil, Undeclared}],
               last : {"none", "jump", "return"}]

TypeOK ==
  /\ blocks \in Seq(OpenBlocks)
  /\ consumed \subseteq Locals \cup Params
  /\ returns \subseteq {"owning", "scalar", "borrowed"}
  /\ resume \in 0..Depth
  /\ rc \in [Objects -> Nat]
  /\ ivar \in [Ivars -> Objects \cup {Nil}]
  /\ result \in Objects \cup {Nil}
  /\ dangling \in BOOLEAN

\* The emitter's frames have the variables that C has, each in one block, and a
\* for-in variable has an element.
FramesExact ==
  /\ \A d \in 1..Depth, n \in Names :
       n \in blocks[d].vars <=> blocks[d].val[n] # Undeclared
  /\ \A d, e \in 1..Depth : \A n \in blocks[d].vars \cap blocks[e].vars : d = e
  /\ \A d \in 1..Depth : \A n \in blocks[d].vars :
       blocks[d].kind = "forin" => blocks[d].val[n] \in Held \cup {Nil}

\* A method or dealloc is outermost, and a for-in has its loop in it.
Nesting ==
  /\ \A d \in 1..Depth :
       /\ blocks[d].kind \in {"method", "dealloc"} <=> d = 1
       /\ blocks[d].kind = "dealloc" => blocks[d].vars = {}
       /\ blocks[d].kind \in {"forin", "switch"} => blocks[d].kind \in BlockKinds
       /\ blocks[d].kind = "forin" /\ d < Depth => blocks[d + 1].kind = "loop"

\* Control is inside every block whose end the walk has not passed, or comes
\* back to the end of one of them; at the end of the first with a result.
ControlFlow ==
  /\ \A d \in 1..Depth : d < Depth \/ Live => blocks[d].last = "none"
  /\ \A r, q \in returns : r = q
  /\ resume = 1 =>
       /\ blocks[1].kind = "method" /\ returns # {}
       /\ "owning" \in returns => result # Nil
       /\ "owning" \notin returns => result \in Held \cup {ivar[i] : i \in Ivars} \cup {Nil}

\* The blocks whose variables own what they have: those that control is in, or
\* that it has not left when it comes back.
Entered == IF Live THEN Depth ELSE resume - 1
Returned(o) == IF resume = 1 /\ "owning" \in returns /\ o = result THEN 1 ELSE 0

CountsKept ==
  \A o \in Objects : rc[o] = Outside(o) + Cardinality(Owned(Entered, o)) + Returned(o)

IInv == /\ TypeOK /\ FramesExact /\ Nesting /\ ControlFlow /\ CountsKept
        /\ ~dangling
=============================================================================

--------------------------------- MODULE OZPools ---------------------------------
(***************************************************************************)
(* objz_gen_pools: a build step that walks the functions of a program and  *)
(* gives every class a pool of as many blocks as main and the threads      *)
(* allocate, and the program that then runs with these pools.              *)
(***************************************************************************)
EXTENDS Naturals, Sequences, FiniteSets, SequencesExt

CONSTANTS
  Programs,  \* functions from names to bodies, sequences of the nodes
             \* [kind, class, seen, runs, times]: an alloc, or a call of what the
             \* walk sees that runs something and how many times
  Main,
  Entries,   \* the functions that start a thread
  Classes,
  Pooled,    \* the classes that get a pool, all but SKIP_CLASSES
  PoolNames, \* the classes with "pool" in their name
  Unseen

ASSUME PoolsAssumption ==
  /\ \A p \in Programs : IsFiniteSet(DOMAIN p) /\ \A f \in DOMAIN p : p[f] \in Seq(Range(p[f]))
  /\ IsFiniteSet(Entries)
  /\ Pooled \subseteq Classes

VARIABLES
  body,
  counts,    \* the blocks of each pool, once the walk is done
  stacks,    \* the calls of each thread: [func, at, left]
  taken      \* the blocks that are taken; nothing is freed

poolsVars == <<body, counts, stacks, taken>>

Funcs == DOMAIN body
Started == {Main} \cup Entries

(***************************************************************************)
(* analyze_ast                                                             *)
(***************************************************************************)
Allocs(f, c) ==
  Cardinality({i \in DOMAIN body[f] : body[f][i].kind = "alloc" /\ body[f][i].class = c})
Calls(f, g) ==
  Cardinality({i \in DOMAIN body[f] : body[f][i].kind = "call" /\ body[f][i].seen = g})

(***************************************************************************)
(* effective_allocs, compute_pool_counts                                   *)
(***************************************************************************)
Total(w) == FoldFunction(LAMBDA n, sum : n + sum, 0, w)

\* Mutant: a function that is called twice counts once.
EffectiveAllocsOnce(f, c) ==
  LET effective[visited \in SUBSET Funcs] ==
        [g \in Funcs |->
           IF g \in visited THEN 0
           ELSE Allocs(g, c) + Total([h \in {k \in Funcs : Calls(g, k) > 0} |->
                                        effective[visited \cup {g}][h]])]
  IN IF f \in Funcs THEN effective[{}][f] ELSE 0

EffectiveAllocs(f, c) ==
  LET effective[visited \in SUBSET Funcs] ==
        [g \in Funcs |->
           IF g \in visited THEN 0
           ELSE Allocs(g, c) + Total([h \in Funcs |->
                                        Calls(g, h) * effective[visited \cup {g}][h]])]
  IN IF f \in Funcs THEN effective[{}][f] ELSE 0

\* Without main and threads, every function that has an alloc of its own may be
\* where the program starts.
Allocating == {f \in Funcs : \E i \in DOMAIN body[f] : body[f][i].kind = "alloc"}
PoolCounts ==
  LET sum == [c \in Classes |-> Total([f \in Started |-> EffectiveAllocs(f, c)])]
      most(c) == CHOOSE n \in {0} \cup {EffectiveAllocs(f, c) : f \in Allocating} :
                   \A f \in Allocating : EffectiveAllocs(f, c) <= n
  IN IF \E c \in Classes : sum[c] > 0 THEN Restrict(sum, Pooled)
     ELSE [c \in Pooled |-> IF c \in PoolNames THEN most(c) ELSE 0]

PoolsInit ==
  /\ body \in Programs
  /\ counts = <<>> /\ stacks = <<>> /\ taken = <<>>

(***************************************************************************)
(* The program                                                             *)
(***************************************************************************)
Frame(f) == [func |-> f, at |-> 1, left |-> IF body[f] = <<>> THEN 0 ELSE body[f][1].times]

\* A program without main is called from elsewhere, at one function.
Generate ==
  /\ counts = <<>>
  /\ counts' = PoolCounts
  /\ taken' = [c \in Pooled |-> 0]
  /\ IF Funcs \cap Started # {}
     THEN stacks' = [f \in Funcs \cap Started |-> <<Frame(f)>>]
     ELSE \E f \in Funcs : stacks' = [g \in {f} |-> <<Frame(f)>>]
  /\ UNCHANGED body

Node(t) == body[Last(stacks[t]).func][Last(stacks[t]).at]

\* What is left of a thread's calls when its next node ran once.
Advance(t) ==
  LET top == Last(stacks[t])
      next == top.at + 1
  IN Append(Front(stacks[t]),
       IF top.left > 1 THEN [top EXCEPT !.left = @ - 1]
       ELSE [func |-> top.func, at |-> next,
             left |-> IF next > Len(body[top.func]) THEN 0 ELSE body[top.func][next].times])

Busy(t) == stacks[t] # <<>> /\ Last(stacks[t]).left > 0

Alloc(t) ==
  /\ Busy(t) /\ Node(t).kind = "alloc"
  /\ taken' = [c \in Pooled |-> taken[c] + IF c = Node(t).class THEN 1 ELSE 0]
  /\ stacks' = [stacks EXCEPT ![t] = Advance(t)]
  /\ UNCHANGED <<body, counts>>

\* Recursion ends after the functions of the program have been on the stack once.
Call(t) ==
  /\ Busy(t) /\ Node(t).kind = "call"
  /\ stacks' = [stacks EXCEPT ![t] =
       IF Node(t).runs \in Funcs /\ Len(stacks[t]) <= Cardinality(Funcs)
       THEN Append(Advance(t), Frame(Node(t).runs)) ELSE Advance(t)]
  /\ UNCHANGED <<body, counts, taken>>

Return(t) ==
  /\ stacks[t] # <<>> /\ ~Busy(t)
  /\ stacks' = [stacks EXCEPT ![t] = Front(@)]
  /\ UNCHANGED <<body, counts, taken>>

PoolsNext ==
  \/ Generate
  \/ \E t \in DOMAIN stacks : Alloc(t) \/ Call(t) \/ Return(t)

(***************************************************************************)
(* Properties                                                              *)
(***************************************************************************)
\* Programs whose allocations the walk sees: what is called is what the receiver's
\* type says, once, and there is no recursion.
Ranks == [Funcs -> 1..Cardinality(Funcs)]
Seen ==
  /\ \A f \in Funcs : \A i \in DOMAIN body[f] :
       body[f][i].times = 1 /\ body[f][i].seen = body[f][i].runs
  /\ \E rank \in Ranks : \A f, g \in Funcs : Calls(f, g) > 0 => rank[f] < rank[g]

\* No pool is exhausted, even if no object is ever freed; without main that goes
\* for the classes that have a pool at all, if the program starts in a function with
\* an alloc of its own (compute_pool_counts).
PoolsLast ==
  counts # <<>> /\ Seen => \A c \in Pooled :
    \/ taken[c] <= counts[c]
    \/ Funcs \cap Started = {} /\ (counts[c] = 0 \/ ~(DOMAIN stacks \subseteq Allocating))

\* No pool is larger than what main and the threads take when nothing is freed,
\* if they take anything.
PoolsTight ==
  counts # <<>> /\ Seen /\ (\E c \in Pooled : taken[c] > 0) /\ Funcs \cap Started # {}
    /\ (\A t \in DOMAIN stacks : stacks[t] = <<>>)
      => \A c \in Pooled : taken[c] >= counts[c]

\* The pools are as large as what the program takes: none is exhausted and none
\* has blocks that are never used (effective_allocs, compute_pool_counts).
PoolsExact == PoolsLast /\ PoolsTight
=============================================================================

--------------------------- MODULE OZFrontEndProofs ---------------------------
(***************************************************************************)
(* Three results for every program.  The merged module has the classes of  *)
(* the sources (ClassesMerged); _validate_hierarchy refuses exactly the    *)
(* programs with a circle of superclasses (CirclesRefused); and            *)
(* SuperclassesFirst is SuperFirst: class numbers are 0, 1, ... with every *)
(* superclass before its subclasses, and the +initialize methods run once  *)
(* per class, superclasses first.                                          *)
(*                                                                         *)
(* The argument follows the passes.  What is known of a class is a set of  *)
(* facts (it is declared, it has a superclass, it has an "initialize");    *)
(* every declaration adds its facts to the module, merging takes the union *)
(* (Gathered), so the merged module is the tree of the sources (Tree).     *)
(* The later passes keep the tree; without a circle the chain of a class   *)
(* ends at its root and names no class twice, so the order of the numbers  *)
(* puts superclasses first (Numbered).                                     *)
(***************************************************************************)
EXTENDS OZFrontEnd, OZNaturals, SequenceTheorems, FiniteSetTheorems, TLAPS

(***************************************************************************)
(* Sequences and folds                                                     *)
(***************************************************************************)
LEMMA Induct ==
  ASSUME NEW T \in SUBSET Nat, 0 \in T, \A k \in T : k + 1 \in T
  PROVE  T = Nat
<1>1. SUFFICES ASSUME Nat \ T # {} PROVE FALSE
  OBVIOUS
<1>2. PICK n \in Nat \ T : \A m \in Nat \ T : n <= m
  BY <1>1, LeastNat
<1>3. n - 1 \in Nat /\ n - 1 \notin T
  BY <1>2
<1> QED
  BY <1>2, <1>3

\* Sequences by their places.
LEMMA SeqFacts ==
  ASSUME NEW s, IsSeq(s)
  PROVE  /\ Len(s) \in Nat /\ DOMAIN s = 1..Len(s)
         /\ \A i \in 1..Len(s) : s[i] \in ToSet(s)
         /\ \A x \in ToSet(s) : \E i \in 1..Len(s) : x = s[i]
BY LenProperties DEF IsSeq, ToSet

\* A sequence over any set is one over its own elements.
LEMMA InSeq ==
  ASSUME NEW S, NEW s \in Seq(S)
  PROVE  IsSeq(s) /\ ToSet(s) \subseteq S
<1>1. Len(s) \in Nat /\ DOMAIN s = 1..Len(s) /\ s \in [1..Len(s) -> S]
  BY LenProperties
<1>2. \A i \in 1..Len(s) : s[i] \in ToSet(s) /\ s[i] \in S
  BY <1>1 DEF ToSet
<1>3. [i \in 1..Len(s) |-> s[i]] \in Seq(ToSet(s))
  BY <1>1, <1>2, IsASeq
<1>4. s = [i \in 1..Len(s) |-> s[i]]
  BY <1>1
<1> QED
  BY <1>1, <1>2, <1>3, <1>4 DEF IsSeq, ToSet

\* A function on 1 .. n is a sequence.
LEMMA Positions ==
  ASSUME NEW n \in Nat, NEW f, f = [i \in 1..n |-> f[i]]
  PROVE  IsSeq(f) /\ Len(f) = n /\ DOMAIN f = 1..n
<1>1. \A i \in 1..n : f[i] \in ToSet(f)
  BY DEF ToSet
<1>2. f \in Seq(ToSet(f))
  BY <1>1, IsASeq
<1> QED
  BY <1>2, LenProperties DEF IsSeq

\* Append and concatenation by places.
LEMMA Appended ==
  ASSUME NEW s, IsSeq(s), NEW x
  PROVE  /\ IsSeq(Append(s, x)) /\ ToSet(Append(s, x)) = ToSet(s) \cup {x}
         /\ Len(Append(s, x)) = Len(s) + 1
         /\ \A i \in 1..Len(s) : Append(s, x)[i] = s[i]
         /\ Append(s, x)[Len(s) + 1] = x
<1>1. s \in Seq(ToSet(s) \cup {x}) /\ Len(s) \in Nat
  BY SeqMonotonic, SeqFacts DEF IsSeq
<1>2. /\ Append(s, x) \in Seq(ToSet(s) \cup {x}) /\ Len(Append(s, x)) = Len(s) + 1
      /\ \A i \in 1..Len(s) : Append(s, x)[i] = s[i]
      /\ Append(s, x)[Len(s) + 1] = x
  BY <1>1
<1>3. IsSeq(Append(s, x)) /\ ToSet(Append(s, x)) \subseteq ToSet(s) \cup {x}
  BY <1>2, InSeq
<1>4. ASSUME NEW y \in ToSet(s) \cup {x} PROVE y \in ToSet(Append(s, x))
  <2>1. PICK i \in 1..(Len(s) + 1) : y = Append(s, x)[i]
    BY <1>1, <1>2, SeqFacts
  <2> QED
    BY <1>2, <1>3, <2>1, SeqFacts
<1> QED
  BY <1>2, <1>3, <1>4

LEMMA Concatenated ==
  ASSUME NEW s, IsSeq(s), NEW t, IsSeq(t)
  PROVE  /\ IsSeq(s \o t) /\ ToSet(s \o t) = ToSet(s) \cup ToSet(t)
         /\ Len(s \o t) = Len(s) + Len(t)
         /\ \A i \in 1..Len(s) : (s \o t)[i] = s[i]
         /\ \A i \in 1..Len(t) : (s \o t)[Len(s) + i] = t[i]
<1>1. s \in Seq(ToSet(s) \cup ToSet(t)) /\ t \in Seq(ToSet(s) \cup ToSet(t))
  BY SeqMonotonic DEF IsSeq
<1>2. Len(s) \in Nat /\ Len(t) \in Nat
  BY SeqFacts
<1>3. /\ s \o t \in Seq(ToSet(s) \cup ToSet(t)) /\ Len(s \o t) = Len(s) + Len(t)
      /\ \A i \in 1..(Len(s) + Len(t)) :
           (s \o t)[i] = IF i <= Len(s) THEN s[i] ELSE t[i - Len(s)]
  BY <1>1, ConcatProperties
<1>4. /\ \A i \in 1..Len(s) : (s \o t)[i] = s[i]
      /\ \A i \in 1..Len(t) : (s \o t)[Len(s) + i] = t[i]
  BY <1>2, <1>3
<1>5. IsSeq(s \o t) /\ ToSet(s \o t) \subseteq ToSet(s) \cup ToSet(t)
  BY <1>3, InSeq
<1>6. ASSUME NEW y \in ToSet(s) PROVE y \in ToSet(s \o t)
  <2>1. PICK i \in 1..Len(s) : y = s[i]
    BY SeqFacts
  <2>2. i \in 1..Len(s \o t) /\ (s \o t)[i] = y
    BY <1>2, <1>3, <1>4, <2>1
  <2> QED
    BY <1>5, <2>2, SeqFacts
<1>7. ASSUME NEW y \in ToSet(t) PROVE y \in ToSet(s \o t)
  <2>1. PICK i \in 1..Len(t) : y = t[i]
    BY SeqFacts
  <2>2. Len(s) + i \in 1..Len(s \o t)
    BY <1>2, <1>3
  <2> QED
    BY <1>4, <1>5, <2>1, <2>2, SeqFacts
<1> QED
  BY <1>3, <1>4, <1>5, <1>6, <1>7

\* The steps of all recursions of the front end, each under a name: what a
\* fold over a sequence, or a climb along the superclasses, does to u with x.
Fold(kind, q, u, x) ==
  CASE kind = "keep"      -> IF x \in q THEN Append(u, x) ELSE u
    [] kind = "override"  -> Override(u, x)
    [] kind = "links"     -> LinkProperty(u, x)
    [] kind = "accessors" -> AddAccessors(u, x)
    [] kind = "classes"   -> MergeClasses(u, x)
    [] kind = "modules"   -> MergeModule(u, x)
    [] kind = "order"     -> Union(u, Reverse(Chain(q, x)))
    [] kind = "chain"     -> WithSuper(q, u)
    [] kind = "ancestors" -> u \cup ({Superclass(a) : a \in u} \cap DeclaredClasses)

Folded(kind, q, base, s) == FoldLeft(LAMBDA u, x : Fold(kind, q, u, x), base, s)

\* g holds the intermediate results of n steps.
Traces(g, kind, q, base, s, n) ==
  g[0] = base /\ \A i \in 1..n : g[i] = Fold(kind, q, g[i - 1], s[i])

Recurses(g, kind, q, base, s, n) ==
  g = [i \in 0..n |-> IF i = 0 THEN base ELSE Fold(kind, q, g[i - 1], s[i])]

\* The steps of a fold as a function on 0..n.
LEMMA TraceExists ==
  ASSUME NEW kind, NEW q, NEW base, NEW s, NEW n \in Nat
  PROVE  \E g : Recurses(g, kind, q, base, s, n)
<1> DEFINE T == {k \in Nat : \E g : Traces(g, kind, q, base, s, k)}
<1>1. 0 \in T
  <2>1. Traces([i \in {0} |-> base], kind, q, base, s, 0)
    BY DEF Traces
  <2> QED
    BY <2>1
<1>2. ASSUME NEW k \in T PROVE k + 1 \in T
  <2>1. PICK g : Traces(g, kind, q, base, s, k)
    OBVIOUS
  <2>2. PICK h : h = [i \in 0..(k + 1) |-> IF i <= k THEN g[i] ELSE Fold(kind, q, g[k], s[k + 1])]
    OBVIOUS
  <2>3. h[0] = base
    BY <2>1, <2>2 DEF Traces
  <2>4. ASSUME NEW i \in 1..(k + 1) PROVE h[i] = Fold(kind, q, h[i - 1], s[i])
    <3>1. i - 1 \in 0..(k + 1) /\ i - 1 <= k /\ h[i - 1] = g[i - 1]
      BY <2>2
    <3>2. CASE i <= k
      BY <2>1, <2>2, <3>1, <3>2 DEF Traces
    <3>3. CASE i = k + 1
      BY <2>2, <3>1, <3>3
    <3> QED
      BY <3>2, <3>3
  <2> QED
    BY <2>3, <2>4 DEF Traces
<1>3. n \in T
  <2> HIDE DEF T
  <2>1. T \subseteq Nat
    BY DEF T
  <2> QED
    BY <1>1, <1>2, <2>1, Induct
<1>4. PICK g : Traces(g, kind, q, base, s, n)
  BY <1>3
<1>5. PICK h : h = [i \in 0..n |-> g[i]]
  OBVIOUS
<1>6. h = [i \in 0..n |-> IF i = 0 THEN base ELSE Fold(kind, q, h[i - 1], s[i])]
  <2>1. ASSUME NEW i \in 0..n
        PROVE  h[i] = IF i = 0 THEN base ELSE Fold(kind, q, h[i - 1], s[i])
    <3>1. CASE i = 0
      BY <1>4, <1>5, <3>1 DEF Traces
    <3>2. CASE i # 0
      <4>1. i \in 1..n /\ i - 1 \in 0..n
        BY <3>2
      <4> QED
        BY <1>4, <1>5, <3>2, <4>1 DEF Traces
    <3> QED
      BY <3>1, <3>2
  <2> QED
    BY <1>5, <2>1
<1> QED
  BY <1>6 DEF Recurses

\* The largest place, as FoldLeft takes it.
LEMMA MaxOf ==
  ASSUME NEW n \in Nat, NEW t \in SUBSET (1..n), NEW k \in t, \A j \in t : j <= k
  PROVE  Max(t) = k
<1>1. PICK m : m = Max(t)
  OBVIOUS
<1>2. \A x \in t : x \in Nat
  OBVIOUS
<1>3. m \in t /\ \A j \in t : m >= j
  BY <1>1, <1>2 DEF Max
<1> QED
  BY <1>1, <1>2, <1>3

\* A fold over a sequence has intermediate results.
Steps(g, kind, q, base, s) ==
  Traces(g, kind, q, base, s, Len(s)) /\ g[Len(s)] = Folded(kind, q, base, s)

\* Every fold goes through its steps and ends with its value.
LEMMA FoldTrace ==
  ASSUME NEW kind, NEW q, NEW base, NEW s, IsSeq(s)
  PROVE  \E g : Steps(g, kind, q, base, s)
<1>1. PICK n \in Nat : n = Len(s) /\ DOMAIN s = 1..n
  BY SeqFacts
<1> DEFINE Rhs(f, t) == IF t = {} THEN base
                        ELSE Fold(kind, q, f[t \ {Max(t)}], s[Max(t)])
           Upto(f, k) == \A t \in SUBSET (1..k) : f[t] = Rhs(f, t)
           T == {k \in Nat : k <= n => \E f : Upto(f, k)}
<1>2. 0 \in T
  <2>1. PICK f : f = [t \in {{}} |-> base]
    OBVIOUS
  <2>2. f[{}] = base /\ \A t \in SUBSET (1..0) : t = {}
    BY <2>1
  <2> QED
    BY <2>2
<1>3. ASSUME NEW k \in T PROVE k + 1 \in T
  <2> HIDE DEF Upto
  <2>1. SUFFICES ASSUME k + 1 <= n PROVE \E f : Upto(f, k + 1)
    OBVIOUS
  <2>2. PICK f : Upto(f, k)
    BY <2>1
  <2> USE DEF Upto
  <2>3. PICK h : h = [t \in SUBSET (1..(k + 1)) |-> IF k + 1 \in t THEN Rhs(f, t) ELSE f[t]]
    OBVIOUS
  <2>4. ASSUME NEW t \in SUBSET (1..(k + 1)) PROVE h[t] = Rhs(h, t)
    <3>1. CASE k + 1 \in t
      <4>1. \A j \in t : j <= k + 1
        OBVIOUS
      <4>2. Max(t) = k + 1
        BY <3>1, <4>1, MaxOf
      <4>3. t \ {k + 1} \in SUBSET (1..(k + 1)) /\ k + 1 \notin t \ {k + 1}
        OBVIOUS
      <4>4. h[t \ {k + 1}] = f[t \ {k + 1}]
        BY <2>3, <4>3
      <4> QED
        BY <2>3, <3>1, <4>2, <4>4
    <3>2. CASE t = {}
      BY <2>2, <2>3, <3>2
    <3>3. CASE k + 1 \notin t /\ t # {}
      <4>1. t \in SUBSET (1..k)
        BY <3>3
      <4>2. t \ {Max(t)} \in SUBSET (1..(k + 1)) /\ k + 1 \notin t \ {Max(t)}
        BY <3>3
      <4>3. h[t] = f[t] /\ h[t \ {Max(t)}] = f[t \ {Max(t)}]
        BY <2>3, <3>3, <4>2
      <4>4. f[t] = Rhs(f, t)
        BY <2>2, <4>1
      <4> QED
        BY <3>3, <4>3, <4>4
    <3> QED
      BY <3>1, <3>2, <3>3
  <2> QED
    BY <2>4
<1>4. n \in T
  <2> HIDE DEF T
  <2>1. T \subseteq Nat
    BY DEF T
  <2> QED
    BY <1>2, <1>3, <2>1, Induct
<1>5. PICK f : Upto(f, n)
  <2> HIDE DEF Upto
  <2> QED
    BY <1>4
<1> DEFINE iter == CHOOSE e : e = [t \in SUBSET (1..n) |-> Rhs(e, t)]
<1>6. Folded(kind, q, base, s) = iter[1..n]
  BY <1>1 DEF Folded, FoldLeft, MapThenFoldSet
<1>7. iter = [t \in SUBSET (1..n) |-> Rhs(iter, t)]
  <2>1. PICK e : e = [t \in SUBSET (1..n) |-> f[t]]
    OBVIOUS
  <2>2. ASSUME NEW t \in SUBSET (1..n) PROVE e[t] = Rhs(e, t)
    <3>1. f[t] = Rhs(f, t) /\ t \ {Max(t)} \in SUBSET (1..n)
      BY <1>5
    <3> QED
      BY <2>1, <3>1
  <2>3. e = [t \in SUBSET (1..n) |-> Rhs(e, t)]
    BY <2>1, <2>2
  <2> HIDE DEF Rhs
  <2> QED
    BY <2>3
<1> HIDE DEF iter
<1>8. PICK g : g = [i \in 0..n |-> iter[1..i]]
  OBVIOUS
<1>9. g[0] = base
  <2>1. 1..0 = {} /\ {} \in SUBSET (1..n) /\ 0 \in 0..n
    OBVIOUS
  <2> QED
    BY <1>7, <1>8, <2>1
<1>10. ASSUME NEW i \in 1..n PROVE g[i] = Fold(kind, q, g[i - 1], s[i])
  <2>1. i \in 1..i /\ (\A j \in 1..i : j <= i) /\ 1..i \in SUBSET (1..n)
    OBVIOUS
  <2>2. Max(1..i) = i
    BY <2>1, MaxOf
  <2>3. (1..i) \ {i} = 1..(i - 1) /\ i - 1 \in 0..n /\ i \in 0..n /\ 1..i # {}
    BY <2>1
  <2> QED
    BY <1>7, <1>8, <2>1, <2>2, <2>3
<1>11. g[n] = Folded(kind, q, base, s)
  BY <1>6, <1>8
<1> QED
  BY <1>1, <1>9, <1>10, <1>11 DEF Steps, Traces

\* The folds of the passes are folds of this kind.
LEMMA KeepFolded == ASSUME NEW S, NEW s PROVE Keep(s, S) = Folded("keep", S, <<>>, s)
BY DEF Keep, Folded, FoldLeft, MapThenFoldSet, Fold

LEMMA OverrideFolded ==
  ASSUME NEW ms, NEW s PROVE FoldLeft(Override, ms, s) = Folded("override", {}, ms, s)
BY DEF Folded, FoldLeft, MapThenFoldSet, Fold

LEMMA LinksFolded ==
  ASSUME NEW ps, NEW s PROVE FoldLeft(LinkProperty, ps, s) = Folded("links", {}, ps, s)
BY DEF Folded, FoldLeft, MapThenFoldSet, Fold

LEMMA AccessorsFolded ==
  ASSUME NEW ms, NEW s PROVE FoldLeft(AddAccessors, ms, s) = Folded("accessors", {}, ms, s)
BY DEF Folded, FoldLeft, MapThenFoldSet, Fold

LEMMA ClassesFolded ==
  ASSUME NEW cs, NEW s PROVE FoldLeft(MergeClasses, cs, s) = Folded("classes", {}, cs, s)
BY DEF Folded, FoldLeft, MapThenFoldSet, Fold

LEMMA ModulesFolded ==
  ASSUME NEW m, NEW s PROVE FoldLeft(MergeModule, m, s) = Folded("modules", {}, m, s)
BY DEF Folded, FoldLeft, MapThenFoldSet, Fold

LEMMA OrderFolded ==
  ASSUME NEW cs
  PROVE  ClassOrder(cs) = Folded("order", cs, <<>>, Sorted(Keys(cs)))
BY DEF ClassOrder, Folded, FoldLeft, MapThenFoldSet, Fold

\* g holds the climb from n, and ends in the chain of n.
Climbs(g, cs, n) ==
  /\ g[0] = <<n>> /\ \A i \in 1..Len(cs) : g[i] = WithSuper(cs, g[i - 1])
  /\ g[Len(cs)] = Chain(cs, n)

\* The chain of a class is built upwards, step by step.
LEMMA ChainTrace ==
  ASSUME NEW cs, IsSeq(cs), NEW n
  PROVE  \E g : Climbs(g, cs, n)
<1>1. PICK k \in Nat : k = Len(cs)
  BY SeqFacts
<1> DEFINE up == CHOOSE f : f = [i \in 0..k |-> IF i = 0 THEN <<n>> ELSE WithSuper(cs, f[i - 1])]
<1>2. \E f : f = [i \in 0..k |-> IF i = 0 THEN <<n>> ELSE WithSuper(cs, f[i - 1])]
  <2>1. \A u, x : Fold("chain", cs, u, x) = WithSuper(cs, u)
    BY DEF Fold
  <2>2. PICK f : Recurses(f, "chain", cs, <<n>>, cs, k)
    BY TraceExists
  <2> QED
    BY <2>1, <2>2 DEF Recurses
<1>3. up = [i \in 0..k |-> IF i = 0 THEN <<n>> ELSE WithSuper(cs, up[i - 1])]
  BY <1>2
<1>4. Chain(cs, n) = up[k]
  BY <1>1 DEF Chain
<1> HIDE DEF up
<1>5. up[0] = <<n>> /\ \A i \in 1..k : up[i] = WithSuper(cs, up[i - 1])
  BY <1>3
<1> QED
  BY <1>1, <1>4, <1>5 DEF Climbs

AncestorSteps(g, c) ==
  /\ g[0] = {c}
  /\ \A i \in 1..Cardinality(DeclaredClasses) :
       g[i] = g[i - 1] \cup ({Superclass(a) : a \in g[i - 1]} \cap DeclaredClasses)
  /\ g[Cardinality(DeclaredClasses)] = AncestorsOf(c)

\* So are the ancestors that the sources give it.
LEMMA AncestorTrace ==
  ASSUME NEW c, Cardinality(DeclaredClasses) \in Nat
  PROVE  \E g : AncestorSteps(g, c)
<1>1. PICK k \in Nat : k = Cardinality(DeclaredClasses)
  OBVIOUS
<1> DEFINE Above(u) == u \cup ({Superclass(a) : a \in u} \cap DeclaredClasses)
           up == CHOOSE f : f = [i \in 0..k |-> IF i = 0 THEN {c} ELSE Above(f[i - 1])]
<1>2. \E f : f = [i \in 0..k |-> IF i = 0 THEN {c} ELSE Above(f[i - 1])]
  <2>1. \A u, x : Fold("ancestors", {}, u, x) = Above(u)
    BY DEF Fold
  <2>2. PICK f : Recurses(f, "ancestors", {}, {c}, <<>>, k)
    BY TraceExists
  <2> HIDE DEF Above
  <2> QED
    BY <2>1, <2>2 DEF Recurses
<1>3. up = [i \in 0..k |-> IF i = 0 THEN {c} ELSE Above(up[i - 1])]
  <2> HIDE DEF Above
  <2> QED
    BY <1>2
<1>4. AncestorsOf(c) = up[k]
  BY <1>1 DEF AncestorsOf
<1> HIDE DEF up
<1>5. up[0] = {c} /\ \A i \in 1..k : up[i] = Above(up[i - 1])
  BY <1>3
<1> QED
  BY <1>1, <1>4, <1>5 DEF AncestorSteps

(***************************************************************************)
(* Parts of a sequence, and lists of methods                               *)
(***************************************************************************)
Ordered(s, R) == \A a, b \in 1..Len(s) : a < b => <<s[a], s[b]>> \in R

\* What Keep returns: the members of S, in the order of s.
LEMMA KeepFacts ==
  ASSUME NEW s, IsSeq(s), NEW S
  PROVE  /\ IsSeq(Keep(s, S)) /\ ToSet(Keep(s, S)) = ToSet(s) \cap S
         /\ \A R : Ordered(s, R) => Ordered(Keep(s, S), R)
<1>1. PICK n \in Nat : n = Len(s) /\ \A i \in 1..n : s[i] \in ToSet(s)
  BY SeqFacts
<1>2. PICK g : Steps(g, "keep", S, <<>>, s)
  BY FoldTrace
<1>3. /\ g[0] = <<>> /\ g[n] = Keep(s, S)
      /\ \A i \in 1..n : g[i] = IF s[i] \in S THEN Append(g[i - 1], s[i]) ELSE g[i - 1]
  BY <1>1, <1>2, KeepFolded DEF Steps, Traces, Fold
<1> DEFINE Good(k) == /\ IsSeq(g[k])
                      /\ ToSet(g[k]) = {s[i] : i \in 1..k} \cap S
                      /\ \A R : Ordered(s, R) => Ordered(g[k], R)
           T == {k \in Nat : k <= n => Good(k)}
<1>4. 0 \in T
  <2>1. <<>> \in Seq({}) /\ Len(<<>>) = 0 /\ ToSet(<<>>) = {}
    BY DEF ToSet
  <2>2. 1..0 = {} /\ {s[i] : i \in 1..0} \cap S = {}
    OBVIOUS
  <2>3. Good(0)
    BY <1>3, <2>1, <2>2 DEF IsSeq, Ordered
  <2> QED
    BY <2>3
<1>5. ASSUME NEW k \in T PROVE k + 1 \in T
  <2>1. SUFFICES ASSUME k + 1 <= n PROVE Good(k + 1)
    OBVIOUS
  <2>2. Good(k) /\ k + 1 \in 1..n /\ k \in Nat /\ (k + 1) - 1 = k
    BY <1>1, <2>1
  <2>3. {s[i] : i \in 1..(k + 1)} = {s[i] : i \in 1..k} \cup {s[k + 1]}
    BY <2>2
  <2>4. CASE s[k + 1] \notin S
    BY <1>3, <2>2, <2>3, <2>4
  <2>5. CASE s[k + 1] \in S
    <3>1. PICK u, x : u = g[k] /\ x = s[k + 1]
      OBVIOUS
    <3>2. g[k + 1] = Append(u, x)
      BY <1>3, <2>2, <2>5, <3>1
    <3>3. /\ IsSeq(Append(u, x)) /\ ToSet(Append(u, x)) = ToSet(u) \cup {x}
          /\ Len(Append(u, x)) = Len(u) + 1
          /\ \A i \in 1..Len(u) : Append(u, x)[i] = u[i]
          /\ Append(u, x)[Len(u) + 1] = x
      BY <2>2, <3>1, Appended
    <3>4. ASSUME NEW R, Ordered(s, R) PROVE Ordered(g[k + 1], R)
      <4>1. Ordered(u, R) /\ Len(u) \in Nat
        BY <2>2, <3>1, <3>4, SeqFacts
      <4>2. ASSUME NEW a \in 1..Len(u) PROVE <<u[a], x>> \in R
        <5>1. u[a] \in {s[i] : i \in 1..k}
          BY <2>2, <3>1, SeqFacts
        <5>2. PICK i \in 1..k : u[a] = s[i]
          BY <5>1
        <5> QED
          BY <1>1, <2>2, <3>1, <3>4, <5>2 DEF Ordered
      <4>3. ASSUME NEW a \in 1..(Len(u) + 1), NEW b \in 1..(Len(u) + 1), a < b
            PROVE  <<Append(u, x)[a], Append(u, x)[b]>> \in R
        <5>1. a \in 1..Len(u) /\ (b \in 1..Len(u) \/ b = Len(u) + 1)
          BY <4>1, <4>3
        <5> QED
          BY <3>3, <4>1, <4>2, <4>3, <5>1 DEF Ordered
      <4> QED
        BY <3>2, <3>3, <4>3 DEF Ordered
    <3>5. ToSet(g[k + 1]) = {s[i] : i \in 1..(k + 1)} \cap S
      BY <2>2, <2>3, <2>5, <3>1, <3>2, <3>3
    <3> QED
      BY <3>2, <3>3, <3>4, <3>5
  <2> QED
    BY <2>4, <2>5
<1>6. n \in T
  <2> HIDE DEF T
  <2>1. T \subseteq Nat
    BY DEF T
  <2> QED
    BY <1>4, <1>5, <2>1, Induct
<1>7. Good(n)
  BY <1>6
<1>8. ToSet(s) = {s[i] : i \in 1..n}
  BY <1>1, SeqFacts DEF ToSet
<1> QED
  BY <1>3, <1>7, <1>8

\* The least element is one of the set.
LEMMA LeastIn ==
  ASSUME NEW S \in SUBSET Nat, S # {}
  PROVE  Least(S) \in S
BY LeastNat DEF Least

Replaced(s, k, x) == [s EXCEPT ![k] = x]

\* A sequence with one element replaced.
LEMMA ReplacedFacts ==
  ASSUME NEW s, IsSeq(s), NEW k \in 1..Len(s), NEW x
  PROVE  /\ IsSeq(Replaced(s, k, x)) /\ Len(Replaced(s, k, x)) = Len(s)
         /\ \A i \in 1..Len(s) : Replaced(s, k, x)[i] = IF i = k THEN x ELSE s[i]
<1>1. s \in Seq(ToSet(s) \cup {x}) /\ x \in ToSet(s) \cup {x}
  BY SeqMonotonic DEF IsSeq
<1>2. PICK T : T = ToSet(s) \cup {x}
  OBVIOUS
<1>3. /\ Replaced(s, k, x) \in Seq(T) /\ Len(Replaced(s, k, x)) = Len(s)
      /\ \A i \in 1..Len(s) : Replaced(s, k, x)[i] = IF i = k THEN x ELSE s[i]
  BY <1>1, <1>2, ExceptSeq DEF Replaced
<1> QED
  BY <1>3, InSeq

Started == "initialize"

\* Methods with what the passes read of them.  All that are called
\* "initialize" have the sign plus.
Shaped(ms) == IsSeq(ms) /\ \A x \in ToSet(ms) : {"sel", "plus"} \subseteq DOMAIN x
Signed(ms, plus) == Shaped(ms) /\ \A x \in ToSet(ms) : x.sel = Started => x.plus = plus
Has(ms) == \E x \in ToSet(ms) : x.sel = Started

\* A method that takes the place of another has its selector (Override).
LEMMA OverrideSigned ==
  ASSUME NEW plus, NEW ms, Signed(ms, plus), NEW x, {"sel", "plus"} \subseteq DOMAIN x,
         x.sel = Started => x.plus = plus
  PROVE  /\ Signed(Override(ms, x), plus)
         /\ Has(Override(ms, x)) <=> (Has(ms) \/ x.sel = Started)
<1>1. /\ IsSeq(ms) /\ Len(ms) \in Nat /\ DOMAIN ms = 1..Len(ms)
      /\ \A i \in 1..Len(ms) : ms[i] \in ToSet(ms)
      /\ \A y \in ToSet(ms) : \E i \in 1..Len(ms) : y = ms[i]
  BY SeqFacts DEF Signed, Shaped
<1>2. PICK same : same = {i \in 1..Len(ms) : ms[i].sel = x.sel}
  OBVIOUS
<1>3. Override(ms, x) = IF same = {} THEN Append(ms, x)
                        ELSE IF HasBody(x) \/ ~HasBody(ms[Least(same)])
                        THEN Replaced(ms, Least(same), x) ELSE ms
  BY <1>1, <1>2 DEF Override, Places, Replaced
<1>4. CASE Override(ms, x) = Append(ms, x)
  BY <1>1, <1>4, Appended DEF Signed, Shaped, Has
<1>5. CASE same # {}
  <2>1. PICK k \in 1..Len(ms) : k = Least(same) /\ ms[k].sel = x.sel
    <3>1. same \in SUBSET Nat
      BY <1>1, <1>2
    <3> QED
      BY <1>2, <1>5, <3>1, LeastIn
  <2>2. CASE Override(ms, x) = ms
    BY <1>1, <2>1, <2>2 DEF Has
  <2>3. CASE Override(ms, x) = Replaced(ms, k, x)
    <3>1. PICK r : r = Replaced(ms, k, x)
      OBVIOUS
    <3>2. /\ IsSeq(r) /\ Len(r) = Len(ms)
          /\ \A i \in 1..Len(ms) : r[i] = IF i = k THEN x ELSE ms[i]
      BY <1>1, <3>1, ReplacedFacts
    <3>3. \A y \in ToSet(r) : y = x \/ y \in ToSet(ms)
      <4>1. ASSUME NEW y \in ToSet(r) PROVE y = x \/ y \in ToSet(ms)
        <5>1. PICK i \in 1..Len(ms) : y = r[i]
          BY <3>2, SeqFacts
        <5> QED
          BY <1>1, <3>2, <5>1
      <4> QED
        BY <4>1
    <3>4. Signed(r, plus)
      BY <3>2, <3>3 DEF Signed, Shaped
    <3>5. ASSUME Has(ms) \/ x.sel = Started PROVE Has(r)
      <4>1. PICK i \in 1..Len(ms) : ms[i].sel = Started
        BY <1>1, <2>1, <3>5 DEF Has
      <4>2. r[i].sel = Started /\ r[i] \in ToSet(r)
        BY <2>1, <3>2, <4>1, SeqFacts
      <4> QED
        BY <4>2 DEF Has
    <3>6. ASSUME Has(r) PROVE Has(ms) \/ x.sel = Started
      BY <3>3, <3>6 DEF Has
    <3> QED
      BY <2>3, <3>1, <3>4, <3>5, <3>6
  <2> QED
    BY <1>3, <1>5, <2>1, <2>2, <2>3
<1> QED
  BY <1>3, <1>4, <1>5

\* A category or a second module neither loses nor turns an "initialize".
LEMMA OverrideAll ==
  ASSUME NEW plus, NEW ms, Signed(ms, plus), NEW new, Signed(new, plus)
  PROVE  /\ Signed(FoldLeft(Override, ms, new), plus)
         /\ Has(FoldLeft(Override, ms, new)) <=> (Has(ms) \/ Has(new))
<1>1. PICK n \in Nat : /\ n = Len(new) /\ IsSeq(new)
                       /\ \A i \in 1..n : new[i] \in ToSet(new)
                       /\ \A y \in ToSet(new) : \E i \in 1..n : y = new[i]
  BY SeqFacts DEF Signed, Shaped
<1>2. PICK g : Steps(g, "override", {}, ms, new)
  BY <1>1, FoldTrace
<1>3. /\ g[0] = ms /\ g[n] = FoldLeft(Override, ms, new)
      /\ \A i \in 1..n : g[i] = Override(g[i - 1], new[i])
  BY <1>1, <1>2, OverrideFolded DEF Steps, Traces, Fold
<1> DEFINE Good(k) == /\ Signed(g[k], plus)
                      /\ Has(g[k]) <=> (Has(ms) \/ \E i \in 1..k : new[i].sel = Started)
           T == {k \in Nat : k <= n => Good(k)}
<1>4. 0 \in T
  BY <1>3
<1>5. ASSUME NEW k \in T PROVE k + 1 \in T
  <2>1. SUFFICES ASSUME k + 1 <= n PROVE Good(k + 1)
    OBVIOUS
  <2>2. Good(k) /\ k + 1 \in 1..n /\ (k + 1) - 1 = k
    BY <1>1, <2>1
  <2>3. PICK u, x : u = g[k] /\ x = new[k + 1] /\ x \in ToSet(new)
    BY <1>1, <2>2
  <2>4. g[k + 1] = Override(u, x)
    BY <1>3, <2>2, <2>3
  <2>5. Signed(Override(u, x), plus) /\ (Has(Override(u, x)) <=> (Has(u) \/ x.sel = Started))
    <3>1. /\ Signed(u, plus) /\ {"sel", "plus"} \subseteq DOMAIN x
          /\ x.sel = Started => x.plus = plus
      BY <2>2, <2>3 DEF Signed, Shaped
    <3> QED
      BY <3>1, OverrideSigned
  <2>6. (\E i \in 1..(k + 1) : new[i].sel = Started)
        <=> ((\E i \in 1..k : new[i].sel = Started) \/ new[k + 1].sel = Started)
    BY <2>2
  <2> QED
    BY <2>2, <2>3, <2>4, <2>5, <2>6
<1>6. n \in T
  <2> HIDE DEF T
  <2>1. T \subseteq Nat
    BY DEF T
  <2> QED
    BY <1>4, <1>5, <2>1, Induct
<1>7. Good(n)
  BY <1>6
<1>8. Has(new) <=> \E i \in 1..n : new[i].sel = Started
  BY <1>1 DEF Has
<1> QED
  BY <1>3, <1>7, <1>8

\* @implementation appends the methods that are supported.
LEMMA JoinedSigned ==
  ASSUME NEW plus, NEW ms, Signed(ms, plus), NEW new, Signed(new, plus)
  PROVE  Signed(ms \o new, plus) /\ (Has(ms \o new) <=> (Has(ms) \/ Has(new)))
BY Concatenated DEF Signed, Shaped, Has

\* Dropping other methods keeps it.
LEMMA KeptSigned ==
  ASSUME NEW plus, NEW ms, Signed(ms, plus), NEW S,
         \A x \in ToSet(ms) : x.sel = Started => x \in S
  PROVE  Signed(Keep(ms, S), plus) /\ (Has(Keep(ms, S)) <=> Has(ms))
BY KeepFacts DEF Signed, Shaped, Has

\* +initialize is the only method that starts a class.
Starts(ms) == \E x \in ToSet(ms) : x.plus /\ x.sel = Started

\* If all "initialize" have one sign, having one and starting are the same.
LEMMA SignedStarts ==
  ASSUME NEW plus \in BOOLEAN, NEW ms, Signed(ms, plus)
  PROVE  Starts(ms) <=> plus /\ Has(ms)
BY DEF Signed, Shaped, Starts, Has

\* Accessors are instance methods: they start nothing.
LEMMA AddAccessorStarts ==
  ASSUME NEW ms, Shaped(ms), NEW sel, NEW p
  PROVE  Shaped(AddAccessor(ms, sel, p)) /\ (Starts(AddAccessor(ms, sel, p)) <=> Starts(ms))
<1>1. PICK x : x = OZMethod(sel, FALSE, None, p)
  OBVIOUS
<1>2. {"sel", "plus"} \subseteq DOMAIN x /\ x.plus = FALSE
  BY <1>1 DEF OZMethod
<1>3. CASE AddAccessor(ms, sel, p) = ms
  BY <1>3
<1>4. CASE AddAccessor(ms, sel, p) = Append(ms, x)
  BY <1>2, <1>4, Appended DEF Shaped, Starts
<1> QED
  BY <1>1, <1>3, <1>4 DEF AddAccessor

LEMMA AddAccessorsStart ==
  ASSUME NEW ms, Shaped(ms), NEW p
  PROVE  Shaped(AddAccessors(ms, p)) /\ (Starts(AddAccessors(ms, p)) <=> Starts(ms))
<1>1. PICK u : u = AddAccessor(ms, GetterSel(p), p)
  OBVIOUS
<1>2. Shaped(u) /\ (Starts(u) <=> Starts(ms))
  BY <1>1, AddAccessorStarts
<1>3. /\ Shaped(AddAccessor(u, SetterSel(p), p))
      /\ Starts(AddAccessor(u, SetterSel(p), p)) <=> Starts(u)
  BY <1>2, AddAccessorStarts
<1> QED
  BY <1>1, <1>2, <1>3 DEF AddAccessors

LEMMA AccessorsAll ==
  ASSUME NEW ms, Shaped(ms), NEW ps, IsSeq(ps)
  PROVE  /\ Shaped(FoldLeft(AddAccessors, ms, ps))
         /\ Starts(FoldLeft(AddAccessors, ms, ps)) <=> Starts(ms)
<1>1. PICK n \in Nat : n = Len(ps)
  BY SeqFacts
<1>2. PICK g : Steps(g, "accessors", {}, ms, ps)
  BY FoldTrace
<1>3. /\ g[0] = ms /\ g[n] = FoldLeft(AddAccessors, ms, ps)
      /\ \A i \in 1..n : g[i] = AddAccessors(g[i - 1], ps[i])
  BY <1>1, <1>2, AccessorsFolded DEF Steps, Traces, Fold
<1> DEFINE Good(k) == Shaped(g[k]) /\ (Starts(g[k]) <=> Starts(ms))
           T == {k \in Nat : k <= n => Good(k)}
<1>4. 0 \in T
  BY <1>3
<1>5. ASSUME NEW k \in T PROVE k + 1 \in T
  <2>1. SUFFICES ASSUME k + 1 <= n PROVE Good(k + 1)
    OBVIOUS
  <2>2. Good(k) /\ k + 1 \in 1..n /\ (k + 1) - 1 = k
    BY <1>1, <2>1
  <2>3. g[k + 1] = AddAccessors(g[k], ps[k + 1])
    BY <1>3, <2>2
  <2> QED
    BY <2>2, <2>3, AddAccessorsStart
<1>6. n \in T
  <2> HIDE DEF T
  <2>1. T \subseteq Nat
    BY DEF T
  <2> QED
    BY <1>4, <1>5, <2>1, Induct
<1> QED
  BY <1>3, <1>6

\* @synthesize keeps the list of properties.
LEMMA LinksAll ==
  ASSUME NEW ps, IsSeq(ps), NEW links, IsSeq(links)
  PROVE  IsSeq(FoldLeft(LinkProperty, ps, links))
<1>1. PICK n \in Nat : n = Len(links)
  BY SeqFacts
<1>2. PICK g : Steps(g, "links", {}, ps, links)
  BY FoldTrace
<1>3. /\ g[0] = ps /\ g[n] = FoldLeft(LinkProperty, ps, links)
      /\ \A i \in 1..n : g[i] = LinkProperty(g[i - 1], links[i])
  BY <1>1, <1>2, LinksFolded DEF Steps, Traces, Fold
<1> DEFINE T == {k \in Nat : k <= n => IsSeq(g[k])}
<1>4. 0 \in T
  BY <1>3
<1>5. ASSUME NEW k \in T PROVE k + 1 \in T
  <2>1. SUFFICES ASSUME k + 1 <= n PROVE IsSeq(g[k + 1])
    OBVIOUS
  <2>2. IsSeq(g[k]) /\ k + 1 \in 1..n /\ (k + 1) - 1 = k
    BY <1>1, <2>1
  <2>3. PICK u, v, m : u = g[k] /\ v = LinkProperty(u, links[k + 1]) /\ m = Len(u)
    OBVIOUS
  <2>4. m \in Nat /\ DOMAIN u = 1..m
    BY <2>2, <2>3, SeqFacts
  <2>5. v = [i \in 1..m |-> v[i]]
    BY <2>3, <2>4 DEF LinkProperty
  <2>6. IsSeq(v)
    BY <2>4, <2>5, Positions
  <2> QED
    BY <1>3, <2>2, <2>3, <2>6
<1>6. n \in T
  <2> HIDE DEF T
  <2>1. T \subseteq Nat
    BY DEF T
  <2> QED
    BY <1>4, <1>5, <2>1, Induct
<1> QED
  BY <1>3, <1>6

(***************************************************************************)
(* Classes                                                                 *)
(***************************************************************************)
\* L has the superclasses that a class may have, and plus is the sign of
\* all methods called "initialize".
Fields == {"name", "superclass", "methods", "properties", "id"}
ClassFits(c, L, plus) ==
  /\ Fields \subseteq DOMAIN c /\ c.name \in ToSet(Alphabet)
  /\ <<c.name, c.superclass>> \in L
  /\ Signed(c.methods, plus) /\ IsSeq(c.properties)

\* What a class is known to be.
IsFact(n) == <<"is", n, None>>
SuperFact(n, p) == <<"super", n, p>>
HasFact(n) == <<"has", n, None>>
Facts(c) ==
  {IsFact(c.name)}
    \cup (IF c.superclass = None THEN {} ELSE {SuperFact(c.name, c.superclass)})
    \cup (IF Has(c.methods) THEN {HasFact(c.name)} ELSE {})

Distinct(cs) == \A i, j \in 1..Len(cs) : cs[i].name = cs[j].name => i = j
Fits(cs, L, plus) ==
  IsSeq(cs) /\ Distinct(cs) /\ \A i \in 1..Len(cs) : ClassFits(cs[i], L, plus)
AllFacts(cs) == UNION {Facts(cs[i]) : i \in 1..Len(cs)}

\* A class is at one place.
LEMMA AtPlace ==
  ASSUME NEW cs, IsSeq(cs), Distinct(cs), NEW n, n \in Keys(cs)
  PROVE  \E i \in 1..Len(cs) : At(cs, n) = cs[i] /\ cs[i].name = n
                               /\ \A j \in 1..Len(cs) : cs[j].name = n => j = i
<1>1. DOMAIN cs = 1..Len(cs)
  BY SeqFacts
<1>2. PICK k : k = CHOOSE i \in DOMAIN cs : cs[i].name = n
  OBVIOUS
<1>3. k \in DOMAIN cs /\ cs[k].name = n
  BY <1>2 DEF Keys
<1> QED
  BY <1>1, <1>2, <1>3 DEF At, Distinct

\* A class is found under its own name.
LEMMA AtOwn ==
  ASSUME NEW cs, IsSeq(cs), Distinct(cs), NEW i \in 1..Len(cs)
  PROVE  cs[i].name \in Keys(cs) /\ At(cs, cs[i].name) = cs[i]
<1>1. cs[i].name \in Keys(cs)
  BY SeqFacts DEF Keys
<1> QED
  BY <1>1, AtPlace

\* Put adds the facts of a class that has at least those of the one it replaces.
LEMMA PutFits ==
  ASSUME NEW L, NEW plus, NEW cs, Fits(cs, L, plus), NEW c, ClassFits(c, L, plus),
         c.name \in Keys(cs) => Facts(At(cs, c.name)) \subseteq Facts(c)
  PROVE  Fits(Put(cs, c), L, plus) /\ AllFacts(Put(cs, c)) = AllFacts(cs) \cup Facts(c)
<1>1. PICK n, r : /\ n = Len(cs) /\ n \in Nat /\ DOMAIN cs = 1..n /\ IsSeq(cs) /\ Distinct(cs)
                  /\ r = Put(cs, c)
  BY SeqFacts DEF Fits
<1>2. CASE c.name \in Keys(cs)
  <2>1. PICK k \in 1..n : /\ At(cs, c.name) = cs[k] /\ cs[k].name = c.name
                          /\ \A j \in 1..n : cs[j].name = c.name => j = k
    BY <1>1, <1>2, AtPlace
  <2>2. r = [i \in 1..n |-> IF cs[i].name = c.name THEN c ELSE cs[i]]
    BY <1>1, <1>2 DEF Put
  <2>3. \A i \in 1..n : r[i] = IF i = k THEN c ELSE cs[i]
    BY <2>1, <2>2
  <2>4. r = [i \in 1..n |-> r[i]]
    BY <2>2
  <2>5. IsSeq(r) /\ Len(r) = n
    BY <1>1, <2>4, Positions
  <2>6. Distinct(r)
    BY <1>1, <2>1, <2>3, <2>5 DEF Distinct
  <2>7. \A i \in 1..n : ClassFits(r[i], L, plus)
    BY <1>1, <2>3 DEF Fits
  <2>8. Facts(cs[k]) \subseteq Facts(c)
    BY <1>2, <2>1
  <2>9. AllFacts(r) = AllFacts(cs) \cup Facts(c)
    <3>1. AllFacts(r) = UNION {Facts(r[i]) : i \in 1..n}
      BY <2>5 DEF AllFacts
    <3>2. AllFacts(cs) = UNION {Facts(cs[i]) : i \in 1..n}
      BY <1>1 DEF AllFacts
    <3>3. \A i \in 1..n : Facts(r[i]) = IF i = k THEN Facts(c) ELSE Facts(cs[i])
      BY <2>3
    <3> QED
      BY <2>8, <3>1, <3>2, <3>3
  <2> QED
    BY <1>1, <2>5, <2>6, <2>7, <2>9 DEF Fits
<1>3. CASE c.name \notin Keys(cs)
  <2>1. r = Append(cs, c)
    BY <1>1, <1>3 DEF Put
  <2>2. /\ IsSeq(r) /\ Len(r) = n + 1
        /\ \A i \in 1..n : r[i] = cs[i]
        /\ r[n + 1] = c
    BY <1>1, <2>1, Appended
  <2>3. \A i \in 1..(n + 1) : i \in 1..n \/ i = n + 1
    BY <1>1
  <2>4. \A i \in 1..n : cs[i].name # c.name
    BY <1>1, <1>3 DEF Keys
  <2>5. Distinct(r)
    BY <1>1, <2>2, <2>3, <2>4 DEF Distinct
  <2>6. \A i \in 1..(n + 1) : ClassFits(r[i], L, plus)
    BY <1>1, <2>2, <2>3 DEF Fits
  <2>7. AllFacts(r) = AllFacts(cs) \cup Facts(c)
    <3>1. AllFacts(r) = UNION {Facts(r[i]) : i \in 1..(n + 1)}
      BY <2>2 DEF AllFacts
    <3>2. AllFacts(cs) = UNION {Facts(cs[i]) : i \in 1..n}
      BY <1>1 DEF AllFacts
    <3>3. (\A i \in 1..n : Facts(r[i]) = Facts(cs[i]) /\ i \in 1..(n + 1))
          /\ Facts(r[n + 1]) = Facts(c) /\ n + 1 \in 1..(n + 1)
      BY <1>1, <2>2
    <3> QED
      BY <2>3, <3>1, <3>2, <3>3
  <2> QED
    BY <1>1, <2>2, <2>5, <2>6, <2>7 DEF Fits
<1> QED
  BY <1>1, <1>2, <1>3

(***************************************************************************)
(* Declarations                                                            *)
(***************************************************************************)
\* A class may be new without a superclass, and has at most one.
Agreeing(L) ==
  /\ \A n \in ToSet(Alphabet) : <<n, None>> \in L
  /\ \A n, a, b : <<n, a>> \in L /\ <<n, b>> \in L => a = None \/ b = None \/ a = b

DeclFits(d, L, plus) ==
  /\ d.kind \in HeadKinds \cup MethodKinds \cup OtherKinds
  /\ d.kind \notin OtherKinds => d.name \in ToSet(Alphabet)
  /\ d.kind \in HeadKinds => <<d.name, d.superclass>> \in L
  /\ d.kind \in MethodKinds => Signed(d.methods, plus)
  /\ d.kind = "interface" => IsSeq(d.properties)
  /\ d.kind = "implementation" => IsSeq(d.synthesize)

FactsOf(d) ==
  (IF d.kind \in OtherKinds THEN {} ELSE {IsFact(d.name)})
    \cup (IF d.kind \in HeadKinds /\ d.superclass # None
          THEN {SuperFact(d.name, d.superclass)} ELSE {})
    \cup (IF d.kind \in MethodKinds /\ Has(d.methods) THEN {HasFact(d.name)} ELSE {})

\* A new class is empty.
LEMMA NewClass ==
  ASSUME NEW n
  PROVE  /\ Fields \subseteq DOMAIN OZClass(n) /\ OZClass(n).name = n
         /\ OZClass(n).superclass = None /\ OZClass(n).methods = <<>>
         /\ OZClass(n).properties = <<>>
BY DEF OZClass, Fields

\* So are its lists.
LEMMA EmptyLists ==
  /\ IsSeq(<<>>) /\ Len(<<>>) = 0 /\ ToSet(<<>>) = {}
  /\ ~Has(<<>>) /\ \A plus : Signed(<<>>, plus)
<1>1. <<>> \in Seq({}) /\ Len(<<>>) = 0 /\ ToSet(<<>>) = {}
  BY DEF ToSet
<1> QED
  BY <1>1 DEF IsSeq, Has, Signed, Shaped

\* The class that a declaration is about.
LEMMA ClassOrFits ==
  ASSUME NEW L, Agreeing(L), NEW plus, NEW m, Fits(m.classes, L, plus),
         NEW n, n \in ToSet(Alphabet)
  PROVE  /\ ClassFits(ClassOr(m, n), L, plus) /\ ClassOr(m, n).name = n
         /\ n \in Keys(m.classes) => ClassOr(m, n) = At(m.classes, n)
         /\ n \notin Keys(m.classes) => Facts(ClassOr(m, n)) = {IsFact(n)}
<1>1. CASE n \in Keys(m.classes)
  <2>1. PICK i \in 1..Len(m.classes) : At(m.classes, n) = m.classes[i] /\ m.classes[i].name = n
    BY <1>1, AtPlace DEF Fits
  <2> QED
    BY <1>1, <2>1 DEF ClassOr, Fits
<1>2. CASE n \notin Keys(m.classes)
  <2>1. PICK c : c = ClassOr(m, n) /\ c = OZClass(n)
    BY <1>2 DEF ClassOr
  <2>2. /\ Fields \subseteq DOMAIN c /\ c.name = n /\ c.superclass = None
        /\ c.methods = <<>> /\ c.properties = <<>>
    BY <2>1, NewClass
  <2>3. ClassFits(c, L, plus)
    BY <2>2, EmptyLists DEF ClassFits, Agreeing
  <2>4. Facts(c) = {IsFact(n)}
    BY <2>2, EmptyLists DEF Facts
  <2> QED
    BY <1>2, <2>1, <2>2, <2>3, <2>4
<1> QED
  BY <1>1, <1>2

Grown(cs, L, plus, F) == Fits(cs, L, plus) /\ AllFacts(cs) = F

\* A declaration puts a class back that is known for more.
LEMMA ClassOrPut ==
  ASSUME NEW L, Agreeing(L), NEW plus, NEW m, Fits(m.classes, L, plus),
         NEW n, n \in ToSet(Alphabet), NEW c, ClassFits(c, L, plus), c.name = n,
         NEW D, Facts(c) = Facts(ClassOr(m, n)) \cup D, IsFact(n) \in D
  PROVE  Grown(Put(m.classes, c), L, plus, AllFacts(m.classes) \cup D)
<1>1. PICK cs, old : cs = m.classes /\ old = ClassOr(m, n)
  OBVIOUS
<1>2. /\ n \in Keys(cs) => old = At(cs, n)
      /\ n \notin Keys(cs) => Facts(old) = {IsFact(n)}
  BY <1>1, ClassOrFits
<1>3. c.name \in Keys(cs) => Facts(At(cs, c.name)) \subseteq Facts(c)
  BY <1>1, <1>2
<1>4. Fits(Put(cs, c), L, plus) /\ AllFacts(Put(cs, c)) = AllFacts(cs) \cup Facts(c)
  BY <1>1, <1>3, PutFits
<1>5. Facts(old) \subseteq AllFacts(cs) \cup D
  <2>1. CASE n \in Keys(cs)
    <3>1. PICK i \in 1..Len(cs) : At(cs, n) = cs[i]
      BY <1>1, <2>1, AtPlace DEF Fits
    <3> QED
      BY <1>2, <2>1, <3>1 DEF AllFacts
  <2> QED
    BY <1>2, <2>1
<1> QED
  BY <1>1, <1>4, <1>5 DEF Grown

\* Each of the three kinds of class declarations adds its facts.
LEMMA InterfaceGrows ==
  ASSUME NEW L, Agreeing(L), NEW plus, NEW m, Fits(m.classes, L, plus),
         "classes" \in DOMAIN m, NEW d, DeclFits(d, L, plus), d.kind = "interface"
  PROVE  Grown(CollectInterface(m, d).classes, L, plus, AllFacts(m.classes) \cup FactsOf(d))
<1>1. PICK n, s : /\ n = d.name /\ n \in ToSet(Alphabet)
                /\ s = d.superclass /\ <<n, s>> \in L
  BY DEF DeclFits, HeadKinds, OtherKinds
<1>2. PICK old : old = ClassOr(m, n)
  OBVIOUS
<1>3. ClassFits(old, L, plus) /\ old.name = n
  BY <1>1, <1>2, ClassOrFits
<1>4. PICK super : super = IF old.superclass = None THEN s ELSE old.superclass
  OBVIOUS
<1>5. PICK props : props = Given(CollectProperties(d.properties), old.properties)
  OBVIOUS
<1>6. PICK c : c = [old EXCEPT !.superclass = super,
                     !.ivars = Given(d.ivars, @),
                     !.protocols = Given(d.protocols, @),
                     !.properties = props]
  OBVIOUS
<1>7. CollectInterface(m, d).classes = Put(m.classes, c)
  BY <1>1, <1>2, <1>4, <1>5, <1>6 DEF CollectInterface
<1>8. /\ DOMAIN c = DOMAIN old /\ c.name = n /\ c.superclass = super
      /\ c.methods = old.methods /\ c.properties = props
  BY <1>3, <1>6 DEF ClassFits, Fields
<1>9. IsSeq(props)
  <2>1. IsSeq(d.properties) /\ IsSeq(old.properties)
    BY <1>3 DEF DeclFits, ClassFits
  <2>2. PICK kept : kept = Keep(d.properties, {p \in ToSet(d.properties) : ~p.weak})
    OBVIOUS
  <2>3. IsSeq(kept)
    BY <2>1, <2>2, KeepFacts
  <2>4. PICK k \in Nat : k = Len(kept) /\ DOMAIN kept = 1..k
    BY <2>3, SeqFacts
  <2>5. PICK f : f = CollectProperties(d.properties)
    OBVIOUS
  <2>6. f = [i \in 1..k |-> f[i]]
    BY <2>2, <2>4, <2>5 DEF CollectProperties
  <2>7. IsSeq(f)
    BY <2>6, Positions
  <2> QED
    BY <1>5, <2>1, <2>5, <2>7 DEF Given
<1>10. <<n, super>> \in L
  BY <1>1, <1>3, <1>4 DEF ClassFits
<1>11. ClassFits(c, L, plus)
  BY <1>3, <1>8, <1>9, <1>10 DEF ClassFits
<1>12. old.superclass = None \/ s = None \/ old.superclass = s
  BY <1>1, <1>3 DEF ClassFits, Agreeing
<1>13. FactsOf(d) = {IsFact(n)} \cup (IF s = None THEN {} ELSE {SuperFact(n, s)})
  BY <1>1 DEF FactsOf, HeadKinds, MethodKinds, CategoryKinds, OtherKinds
<1>14. Facts(c) = Facts(old) \cup FactsOf(d)
  BY <1>3, <1>4, <1>8, <1>12, <1>13 DEF Facts
<1>15. IsFact(n) \in FactsOf(d)
  BY <1>13
<1> QED
  <2>1. PICK D : D = FactsOf(d) /\ Facts(c) = Facts(ClassOr(m, n)) \cup D /\ IsFact(n) \in D
    BY <1>2, <1>8, <1>11, <1>14, <1>15
  <2>2. c.name = n /\ ClassFits(c, L, plus)
    BY <1>2, <1>8, <1>11, <1>14, <1>15
  <2>3. Grown(Put(m.classes, c), L, plus, AllFacts(m.classes) \cup D)
    BY <1>1, <2>1, <2>2, ClassOrPut
  <2> QED
    BY <1>7, <2>1, <2>3

LEMMA ImplementationGrows ==
  ASSUME Started \notin Unsupported,
         NEW L, Agreeing(L), NEW plus, NEW m, Fits(m.classes, L, plus),
         "classes" \in DOMAIN m, NEW d, DeclFits(d, L, plus), d.kind = "implementation"
  PROVE  Grown(CollectImplementation(m, d).classes, L, plus, AllFacts(m.classes) \cup FactsOf(d))
<1>1. PICK n, s : /\ n = d.name /\ n \in ToSet(Alphabet)
                /\ s = d.superclass /\ <<n, s>> \in L
  BY DEF DeclFits, HeadKinds, OtherKinds
<1>2. PICK old : old = ClassOr(m, n)
  OBVIOUS
<1>3. ClassFits(old, L, plus) /\ old.name = n
  BY <1>1, <1>2, ClassOrFits
<1>4. PICK super : super = IF old.superclass = None THEN s ELSE old.superclass
  OBVIOUS
<1>5. PICK props : props = FoldLeft(LinkProperty, old.properties, d.synthesize)
  OBVIOUS
<1>6. PICK new : new = Keep(d.methods, ToSet(d.methods)
                              \ {x \in ToSet(d.methods) : x.sel \in Unsupported})
  OBVIOUS
<1>7. PICK c : c = [old EXCEPT !.superclass = super, !.ivars = @ \o d.ivars,
                     !.methods = @ \o new, !.properties = props]
  OBVIOUS
<1>8. CollectImplementation(m, d).classes = Put(m.classes, c)
  BY <1>1, <1>2, <1>4, <1>5, <1>6, <1>7 DEF CollectImplementation
<1>9. /\ DOMAIN c = DOMAIN old /\ c.name = n /\ c.superclass = super
      /\ c.methods = old.methods \o new /\ c.properties = props
  BY <1>3, <1>7 DEF ClassFits, Fields
<1>10. Signed(d.methods, plus)
  BY DEF DeclFits, MethodKinds, CategoryKinds
<1>11. Signed(new, plus) /\ (Has(new) <=> Has(d.methods))
  BY <1>6, <1>10, KeptSigned
<1>12. Signed(c.methods, plus) /\ (Has(c.methods) <=> (Has(old.methods) \/ Has(d.methods)))
  BY <1>3, <1>9, <1>11, JoinedSigned DEF ClassFits
<1>13. IsSeq(props)
  BY <1>3, <1>5, LinksAll DEF DeclFits, ClassFits
<1>14. <<n, super>> \in L
  BY <1>1, <1>3, <1>4 DEF ClassFits
<1>15. ClassFits(c, L, plus)
  BY <1>3, <1>9, <1>12, <1>13, <1>14 DEF ClassFits
<1>16. old.superclass = None \/ s = None \/ old.superclass = s
  BY <1>1, <1>3 DEF ClassFits, Agreeing
<1>17. FactsOf(d) = {IsFact(n)} \cup (IF s = None THEN {} ELSE {SuperFact(n, s)})
                      \cup (IF Has(d.methods) THEN {HasFact(n)} ELSE {})
  BY <1>1 DEF FactsOf, HeadKinds, MethodKinds, CategoryKinds, OtherKinds
<1>18. Facts(c) = Facts(old) \cup FactsOf(d)
  BY <1>3, <1>4, <1>9, <1>12, <1>16, <1>17 DEF Facts
<1>19. IsFact(n) \in FactsOf(d)
  BY <1>17
<1> QED
  <2>1. PICK D : D = FactsOf(d) /\ Facts(c) = Facts(ClassOr(m, n)) \cup D /\ IsFact(n) \in D
    BY <1>2, <1>9, <1>15, <1>18, <1>19
  <2>2. c.name = n /\ ClassFits(c, L, plus)
    BY <1>2, <1>9, <1>15, <1>18, <1>19
  <2>3. Grown(Put(m.classes, c), L, plus, AllFacts(m.classes) \cup D)
    BY <1>1, <2>1, <2>2, ClassOrPut
  <2> QED
    BY <1>8, <2>1, <2>3

LEMMA CategoryGrows ==
  ASSUME NEW L, Agreeing(L), NEW plus, NEW m, Fits(m.classes, L, plus),
         "classes" \in DOMAIN m, NEW d, DeclFits(d, L, plus),
         d.kind \in CategoryKinds
  PROVE  Grown(CollectCategory(m, d).classes, L, plus, AllFacts(m.classes) \cup FactsOf(d))
<1>1. PICK n : n = d.name /\ n \in ToSet(Alphabet)
  BY DEF DeclFits, OtherKinds, CategoryKinds
<1>2. PICK old : old = ClassOr(m, n)
  OBVIOUS
<1>3. ClassFits(old, L, plus) /\ old.name = n
  <2>1. ClassFits(ClassOr(m, n), L, plus) /\ ClassOr(m, n).name = n
    BY <1>1, ClassOrFits
  <2> QED
    BY <1>2, <2>1
<1>4. PICK all : all = FoldLeft(Override, old.methods, d.methods)
  OBVIOUS
<1>5. PICK c : c = [old EXCEPT !.methods = all]
  OBVIOUS
<1>6. CollectCategory(m, d).classes = Put(m.classes, c)
  BY <1>1, <1>2, <1>4, <1>5 DEF CollectCategory
<1>7. /\ DOMAIN c = DOMAIN old /\ c.name = n /\ c.superclass = old.superclass
      /\ c.methods = all /\ c.properties = old.properties
  BY <1>3, <1>5 DEF ClassFits, Fields
<1>8. Signed(d.methods, plus)
  BY DEF DeclFits, MethodKinds, CategoryKinds
<1>9. Signed(all, plus) /\ (Has(all) <=> (Has(old.methods) \/ Has(d.methods)))
  BY <1>3, <1>4, <1>8, OverrideAll DEF ClassFits
<1>10. ClassFits(c, L, plus)
  BY <1>3, <1>7, <1>9 DEF ClassFits
<1>11. FactsOf(d) = {IsFact(n)} \cup (IF Has(d.methods) THEN {HasFact(n)} ELSE {})
  BY <1>1 DEF FactsOf, HeadKinds, MethodKinds, CategoryKinds, OtherKinds
<1>12. Facts(c) = Facts(old) \cup FactsOf(d)
  BY <1>3, <1>7, <1>9, <1>11 DEF Facts
<1>13. IsFact(n) \in FactsOf(d)
  BY <1>11
<1> QED
  <2>1. PICK D : D = FactsOf(d) /\ Facts(c) = Facts(ClassOr(m, n)) \cup D /\ IsFact(n) \in D
    BY <1>2, <1>7, <1>10, <1>12, <1>13
  <2>2. c.name = n /\ ClassFits(c, L, plus)
    BY <1>2, <1>7, <1>10, <1>12, <1>13
  <2>3. Grown(Put(m.classes, c), L, plus, AllFacts(m.classes) \cup D)
    BY <1>1, <2>1, <2>2, ClassOrPut
  <2> QED
    BY <1>6, <2>1, <2>3

(***************************************************************************)
(* Modules                                                                 *)
(***************************************************************************)
ModuleFields == {"classes", "initialize"}
Gathered(m, L, plus, F) ==
  /\ ModuleFields \subseteq DOMAIN m
  /\ Fits(m.classes, L, plus) /\ AllFacts(m.classes) = F

\* The empty module has no facts.
LEMMA EmptyModule == ASSUME NEW L, NEW plus PROVE Gathered(OZModule, L, plus, {})
<1>1. ModuleFields \subseteq DOMAIN OZModule /\ OZModule.classes = <<>>
  BY DEF OZModule, ModuleFields
<1>2. 1..0 = {}
  OBVIOUS
<1> QED
  BY <1>1, <1>2, EmptyLists DEF Gathered, Fits, AllFacts, Distinct

\* One declaration adds its facts to the module (Collect).
LEMMA CollectGathers ==
  ASSUME Started \notin Unsupported, NEW L, Agreeing(L), NEW plus, NEW F, NEW m,
         Gathered(m, L, plus, F), NEW d, DeclFits(d, L, plus)
  PROVE  Gathered(Collect(m, d), L, plus, F \cup FactsOf(d))
<1>1. /\ ModuleFields \subseteq DOMAIN m /\ "classes" \in DOMAIN m
      /\ Fits(m.classes, L, plus) /\ AllFacts(m.classes) = F
  BY DEF Gathered, ModuleFields
<1>2. CASE d.kind = "interface"
  <2>1. Collect(m, d) = CollectInterface(m, d)
    BY <1>2 DEF Collect
  <2>2. DOMAIN CollectInterface(m, d) = DOMAIN m
    BY DEF CollectInterface
  <2>3. Grown(CollectInterface(m, d).classes, L, plus, AllFacts(m.classes) \cup FactsOf(d))
    BY <1>1, <1>2, InterfaceGrows
  <2> QED
    BY <1>1, <2>1, <2>2, <2>3 DEF Gathered, Grown
<1>3. CASE d.kind = "implementation"
  <2>1. Collect(m, d) = CollectImplementation(m, d)
    BY <1>3 DEF Collect
  <2>2. DOMAIN CollectImplementation(m, d) = DOMAIN m
    BY DEF CollectImplementation
  <2>3. Grown(CollectImplementation(m, d).classes, L, plus, AllFacts(m.classes) \cup FactsOf(d))
    BY <1>1, <1>3, ImplementationGrows
  <2> QED
    BY <1>1, <2>1, <2>2, <2>3 DEF Gathered, Grown
<1>4. CASE d.kind \in CategoryKinds
  <2>1. Collect(m, d) = CollectCategory(m, d)
    BY <1>4 DEF Collect, CategoryKinds
  <2>2. DOMAIN CollectCategory(m, d) = DOMAIN m
    BY DEF CollectCategory
  <2>3. Grown(CollectCategory(m, d).classes, L, plus, AllFacts(m.classes) \cup FactsOf(d))
    BY <1>1, <1>4, CategoryGrows
  <2> QED
    BY <1>1, <2>1, <2>2, <2>3 DEF Gathered, Grown
<1>5. CASE d.kind \in OtherKinds
  <2>1. FactsOf(d) = {}
    BY <1>5 DEF FactsOf, OtherKinds, HeadKinds, MethodKinds, CategoryKinds
  <2>2. Collect(m, d) = CASE d.kind = "protocol" -> CollectProtocol(m, d)
                          [] d.kind = "function" -> CollectFunction(m, d)
                          [] d.kind = "static"   -> CollectStaticVar(m, d)
    BY <1>5 DEF Collect, OtherKinds
  <2>3. DOMAIN Collect(m, d) = DOMAIN m /\ Collect(m, d).classes = m.classes
    BY <1>1, <1>5, <2>2 DEF OtherKinds, CollectProtocol, CollectFunction, CollectStaticVar
  <2> QED
    BY <1>1, <2>1, <2>3 DEF Gathered
<1> QED
  BY <1>2, <1>3, <1>4, <1>5
     DEF DeclFits, HeadKinds, MethodKinds, CategoryKinds, OtherKinds

\* The same classes as far as the facts go.
SameClass(c, d) ==
  /\ DOMAIN c = DOMAIN d /\ c.name = d.name /\ c.superclass = d.superclass
  /\ c.methods = d.methods /\ c.properties = d.properties
SameClasses(cs, ds) ==
  IsSeq(cs) /\ Len(cs) = Len(ds) /\ \A i \in 1..Len(cs) : SameClass(cs[i], ds[i])

\* A pass that changes no name, superclass or method changes no fact.
LEMMA SameClassesGathered ==
  ASSUME NEW L, NEW plus, NEW F, NEW m, Gathered(m, L, plus, F), NEW z,
         DOMAIN z = DOMAIN m, SameClasses(z.classes, m.classes)
  PROVE  Gathered(z, L, plus, F)
<1>1. PICK cs, ds, n : cs = z.classes /\ ds = m.classes /\ n = Len(ds)
  OBVIOUS
<1>2. /\ Fits(ds, L, plus) /\ IsSeq(cs) /\ Len(cs) = n
      /\ \A i \in 1..n : SameClass(cs[i], ds[i])
  BY <1>1 DEF Gathered, SameClasses
<1>3. \A i \in 1..n : ClassFits(cs[i], L, plus) /\ Facts(cs[i]) = Facts(ds[i])
  BY <1>1, <1>2 DEF Fits, ClassFits, SameClass, Facts
<1>4. Distinct(cs)
  BY <1>1, <1>2 DEF Fits, Distinct, SameClass
<1>5. Fits(cs, L, plus)
  BY <1>1, <1>2, <1>3, <1>4 DEF Fits
<1>6. AllFacts(cs) = AllFacts(ds)
  BY <1>1, <1>2, <1>3 DEF AllFacts
<1> QED
  BY <1>1, <1>5, <1>6 DEF Gathered

\* Neither marking nor association does (TagSource, AssociateModuleItems).
LEMMA TagGathers ==
  ASSUME NEW L, NEW plus, NEW F, NEW m, Gathered(m, L, plus, F), NEW s
  PROVE  Gathered(TagSource(m, s), L, plus, F)
<1>1. PICK cs, n : /\ cs = m.classes /\ n = Len(cs) /\ n \in Nat /\ DOMAIN cs = 1..n
                   /\ \A i \in 1..n : Fields \subseteq DOMAIN cs[i]
                   /\ "classes" \in DOMAIN m
  BY SeqFacts DEF Gathered, Fits, ClassFits, ModuleFields
<1>2. PICK z, ds : z = TagSource(m, s) /\ ds = z.classes
  OBVIOUS
<1>3. DOMAIN z = DOMAIN m
  BY <1>2 DEF TagSource
<1>4. ds = [i \in 1..n |-> TagClass(cs[i], s)]
  BY <1>1, <1>2 DEF TagSource
<1>5. \A i \in 1..n : SameClass(ds[i], cs[i])
  BY <1>1, <1>4 DEF SameClass, Fields, TagClass
<1>6. ds = [i \in 1..n |-> ds[i]]
  BY <1>1, <1>4
<1>7. IsSeq(ds) /\ Len(ds) = n
  BY <1>1, <1>6, Positions
<1>8. SameClasses(ds, cs)
  BY <1>1, <1>5, <1>7 DEF SameClasses
<1> QED
  BY <1>1, <1>2, <1>3, <1>8, SameClassesGathered

LEMMA AssociateGathers ==
  ASSUME NEW L, NEW plus, NEW F, NEW m, Gathered(m, L, plus, F), NEW s
  PROVE  Gathered(AssociateModuleItems(m, s), L, plus, F)
<1>1. PICK cs, n : /\ cs = m.classes /\ n = Len(cs) /\ n \in Nat /\ DOMAIN cs = 1..n
                   /\ IsSeq(cs) /\ \A i \in 1..n : Fields \subseteq DOMAIN cs[i]
                   /\ "classes" \in DOMAIN m
  BY SeqFacts DEF Gathered, Fits, ClassFits, ModuleFields
<1>2. PICK cleared : cleared = [m EXCEPT !.functions = <<>>, !.statics = <<>>]
  OBVIOUS
<1>3. DOMAIN cleared = DOMAIN m /\ cleared.classes = cs
  BY <1>1, <1>2
<1>4. PICK p : p = Primary(cs)
  OBVIOUS
<1>5. PICK z, ds : z = AssociateModuleItems(m, s) /\ ds = z.classes
  OBVIOUS
<1>6. CASE z = m
  BY <1>5, <1>6
<1>7. CASE z = [cleared EXCEPT !.orphans = Append(@, [stem |-> s.stem,
                  functions |-> m.functions, statics |-> m.statics])]
  <2>1. DOMAIN z = DOMAIN m /\ z.classes = cs
    BY <1>1, <1>3, <1>7
  <2> QED
    BY <1>1, <1>5, <2>1 DEF Gathered
<1>8. CASE z = [cleared EXCEPT !.classes[p].functions = @ \o m.functions,
                               !.classes[p].statics = @ \o m.statics]
  <2>1. DOMAIN z = DOMAIN m
    BY <1>3, <1>8
  <2>2. DOMAIN ds = DOMAIN cs /\ \A i \in 1..n : SameClass(ds[i], cs[i])
    BY <1>1, <1>3, <1>5, <1>8 DEF SameClass, Fields
  <2>3. ds = [i \in 1..n |-> ds[i]]
    BY <1>1, <1>3, <1>5, <1>8
  <2>4. IsSeq(ds) /\ Len(ds) = n
    BY <1>1, <2>3, Positions
  <2>5. SameClasses(ds, cs)
    BY <1>1, <2>2, <2>4 DEF SameClasses
  <2> QED
    BY <1>1, <1>5, <2>1, <2>5, SameClassesGathered
<1> QED
  BY <1>1, <1>2, <1>4, <1>5, <1>6, <1>7, <1>8 DEF AssociateModuleItems

(***************************************************************************)
(* Merging                                                                 *)
(***************************************************************************)
LEMMA MergeClassFits ==
  ASSUME NEW L, Agreeing(L), NEW plus, NEW old, ClassFits(old, L, plus),
         NEW c, ClassFits(c, L, plus), c.name = old.name
  PROVE  /\ ClassFits(MergeClass(old, c), L, plus) /\ MergeClass(old, c).name = c.name
         /\ Facts(MergeClass(old, c)) = Facts(old) \cup Facts(c)
<1>1. PICK n, super, all, props :
         /\ n = c.name /\ n = old.name
         /\ super = IF old.superclass = None THEN c.superclass ELSE old.superclass
         /\ all = FoldLeft(Override, old.methods, c.methods)
         /\ props = Given(old.properties, c.properties)
  OBVIOUS
<1>2. PICK z : z = MergeClass(old, c)
  OBVIOUS
<1>3. /\ DOMAIN z = DOMAIN old /\ z.name = n /\ z.superclass = super
      /\ z.methods = all /\ z.properties = props
  BY <1>1, <1>2 DEF MergeClass, ClassFits, Fields
<1>4. Signed(all, plus) /\ (Has(all) <=> (Has(old.methods) \/ Has(c.methods)))
  BY <1>1, OverrideAll DEF ClassFits
<1>5. /\ <<n, super>> \in L /\ IsSeq(props)
      /\ (old.superclass = None \/ c.superclass = None \/ old.superclass = c.superclass)
  BY <1>1 DEF ClassFits, Given, Agreeing
<1>6. ClassFits(z, L, plus)
  BY <1>1, <1>3, <1>4, <1>5 DEF ClassFits
<1>7. Facts(z) = Facts(old) \cup Facts(c)
  BY <1>1, <1>3, <1>4, <1>5 DEF Facts
<1> QED
  BY <1>1, <1>2, <1>3, <1>6, <1>7

\* A class that is merged brings its facts (MergeClasses).
LEMMA MergeClassesFits ==
  ASSUME NEW L, Agreeing(L), NEW plus, NEW cs, Fits(cs, L, plus),
         NEW c, ClassFits(c, L, plus)
  PROVE  Grown(MergeClasses(cs, c), L, plus, AllFacts(cs) \cup Facts(c))
<1>1. CASE c.name \in Keys(cs)
  <2>1. PICK i \in 1..Len(cs) : At(cs, c.name) = cs[i] /\ cs[i].name = c.name
    BY <1>1, AtPlace DEF Fits
  <2>2. PICK old, z : old = At(cs, c.name) /\ z = MergeClass(old, c)
    OBVIOUS
  <2>3. ClassFits(old, L, plus) /\ old.name = c.name /\ Facts(old) \subseteq AllFacts(cs)
    BY <2>1, <2>2 DEF Fits, AllFacts
  <2>4. ClassFits(z, L, plus) /\ z.name = c.name /\ Facts(z) = Facts(old) \cup Facts(c)
    BY <2>2, <2>3, MergeClassFits
  <2>5. Fits(Put(cs, z), L, plus) /\ AllFacts(Put(cs, z)) = AllFacts(cs) \cup Facts(z)
    BY <2>2, <2>4, PutFits
  <2>6. MergeClasses(cs, c) = Put(cs, z)
    BY <1>1, <2>2 DEF MergeClasses
  <2> QED
    BY <2>3, <2>4, <2>5, <2>6 DEF Grown
<1>2. CASE c.name \notin Keys(cs)
  <2>1. MergeClasses(cs, c) = Put(cs, c)
    BY <1>2 DEF MergeClasses
  <2> QED
    BY <1>2, <2>1, PutFits DEF Grown
<1> QED
  BY <1>1, <1>2

LEMMA MergeAll ==
  ASSUME NEW L, Agreeing(L), NEW plus, NEW cs, Fits(cs, L, plus),
         NEW ds, Fits(ds, L, plus)
  PROVE  Grown(FoldLeft(MergeClasses, cs, ds), L, plus, AllFacts(cs) \cup AllFacts(ds))
<1>1. PICK n \in Nat : n = Len(ds) /\ IsSeq(ds) /\ \A i \in 1..n : ClassFits(ds[i], L, plus)
  BY SeqFacts DEF Fits
<1>2. PICK g : Steps(g, "classes", {}, cs, ds)
  BY <1>1, FoldTrace
<1>3. /\ g[0] = cs /\ g[n] = FoldLeft(MergeClasses, cs, ds)
      /\ \A i \in 1..n : g[i] = MergeClasses(g[i - 1], ds[i])
  BY <1>1, <1>2, ClassesFolded DEF Steps, Traces, Fold
<1> DEFINE Merged(k) == AllFacts(cs) \cup UNION {Facts(ds[i]) : i \in 1..k}
           T == {k \in Nat : k <= n => Grown(g[k], L, plus, Merged(k))}
<1>4. 0 \in T
  <2>1. 1..0 = {}
    OBVIOUS
  <2> QED
    BY <1>3, <2>1 DEF Grown
<1>5. ASSUME NEW k \in T PROVE k + 1 \in T
  <2>1. SUFFICES ASSUME k + 1 <= n PROVE Grown(g[k + 1], L, plus, Merged(k + 1))
    OBVIOUS
  <2>2. Grown(g[k], L, plus, Merged(k)) /\ k + 1 \in 1..n /\ (k + 1) - 1 = k
    BY <1>1, <2>1
  <2>3. PICK u, c : u = g[k] /\ c = ds[k + 1]
    OBVIOUS
  <2>4. g[k + 1] = MergeClasses(u, c) /\ ClassFits(c, L, plus)
    BY <1>1, <1>3, <2>2, <2>3
  <2>5. Fits(u, L, plus) /\ AllFacts(u) = Merged(k)
    BY <2>2, <2>3 DEF Grown
  <2>6. Grown(MergeClasses(u, c), L, plus, AllFacts(u) \cup Facts(c))
    BY <2>4, <2>5, MergeClassesFits
  <2>7. Merged(k + 1) = Merged(k) \cup Facts(c)
    <3>1. 1..(k + 1) = 1..k \cup {k + 1}
      BY <2>2
    <3> QED
      BY <2>3, <3>1
  <2> HIDE DEF Merged
  <2> QED
    BY <2>4, <2>5, <2>6, <2>7
<1>6. n \in T
  <2> HIDE DEF T
  <2>1. T \subseteq Nat
    BY DEF T
  <2> QED
    BY <1>4, <1>5, <2>1, Induct
<1>7. Grown(g[n], L, plus, Merged(n))
  BY <1>6
<1>8. Merged(n) = AllFacts(cs) \cup AllFacts(ds)
  BY <1>1 DEF AllFacts
<1> HIDE DEF Merged, T
<1> QED
  BY <1>3, <1>7, <1>8

\* Modules that are merged bring theirs (MergeModules).
LEMMA MergeModuleGathers ==
  ASSUME NEW L, Agreeing(L), NEW plus, NEW F, NEW m, Gathered(m, L, plus, F),
         NEW G, NEW new, Gathered(new, L, plus, G)
  PROVE  Gathered(MergeModule(m, new), L, plus, F \cup G)
<1>1. PICK cs, ds : /\ cs = m.classes /\ ds = new.classes
                    /\ Fits(cs, L, plus) /\ AllFacts(cs) = F
                    /\ Fits(ds, L, plus) /\ AllFacts(ds) = G
  BY DEF Gathered
<1>2. Grown(FoldLeft(MergeClasses, cs, ds), L, plus, F \cup G)
  BY <1>1, MergeAll
<1>3. PICK z : z = MergeModule(m, new)
  OBVIOUS
<1>4. DOMAIN z = DOMAIN m /\ z.classes = FoldLeft(MergeClasses, cs, ds)
  BY <1>1, <1>3 DEF MergeModule, Gathered, ModuleFields
<1> QED
  BY <1>2, <1>3, <1>4 DEF Gathered, Grown

\* The merged module has what all sources have.
AllGathered(ms, L, plus, F) ==
  /\ IsSeq(ms) /\ Len(ms) # 0
  /\ \A i \in 1..Len(ms) : Gathered(ms[i], L, plus, F[i])

LEMMA MergeModulesGathers ==
  ASSUME NEW L, Agreeing(L), NEW plus, NEW ms, NEW F, AllGathered(ms, L, plus, F)
  PROVE  Gathered(MergeModules(ms), L, plus, UNION {F[i] : i \in 1..Len(ms)})
<1> /\ IsSeq(ms) /\ Len(ms) # 0
    /\ \A i \in 1..Len(ms) : Gathered(ms[i], L, plus, F[i])
  BY DEF AllGathered
<1>1. PICK n \in Nat : n = Len(ms) /\ n # 0
  BY SeqFacts
<1>2. CASE n = 1
  <2>1. MergeModules(ms) = ms[1]
    BY <1>1, <1>2 DEF MergeModules
  <2>2. UNION {F[i] : i \in 1..n} = F[1]
    BY <1>2
  <2>3. Gathered(ms[1], L, plus, F[1])
    BY <1>1, <1>2
  <2>4. UNION {F[i] : i \in 1..Len(ms)} = F[1]
    BY <1>1, <2>2
  <2> QED
    BY <2>1, <2>3, <2>4
<1>3. CASE n > 1
  <2>1. PICK g : Steps(g, "modules", {}, OZModule, ms)
    BY FoldTrace
  <2>2. /\ g[0] = OZModule /\ g[n] = MergeModules(ms)
        /\ \A i \in 1..n : g[i] = MergeModule(g[i - 1], ms[i])
    BY <1>1, <1>3, <2>1, ModulesFolded DEF Steps, Traces, Fold, MergeModules
  <2> DEFINE Seen(k) == UNION {F[i] : i \in 1..k}
             T == {k \in Nat : k <= n => Gathered(g[k], L, plus, Seen(k))}
  <2>3. 0 \in T
    <3>1. Seen(0) = {}
      OBVIOUS
    <3> HIDE DEF Seen
    <3> QED
      BY <2>2, <3>1, EmptyModule
  <2>4. ASSUME NEW k \in T PROVE k + 1 \in T
    <3>1. SUFFICES ASSUME k + 1 <= n PROVE Gathered(g[k + 1], L, plus, Seen(k + 1))
      OBVIOUS
    <3>2. Gathered(g[k], L, plus, Seen(k)) /\ k + 1 \in 1..n /\ (k + 1) - 1 = k
      BY <1>1, <3>1
    <3>3. Seen(k + 1) = Seen(k) \cup F[k + 1]
      <4>1. 1..(k + 1) = 1..k \cup {k + 1}
        BY <3>2
      <4> QED
        BY <4>1
    <3> HIDE DEF Seen
    <3>4. Gathered(ms[k + 1], L, plus, F[k + 1])
      BY <1>1, <3>2
    <3>5. Gathered(MergeModule(g[k], ms[k + 1]), L, plus, Seen(k) \cup F[k + 1])
      BY <3>2, <3>4, MergeModuleGathers
    <3> QED
      BY <2>2, <3>2, <3>3, <3>5
  <2>5. n \in T
    <3> HIDE DEF T
    <3>1. T \subseteq Nat
      BY DEF T
    <3> QED
      BY <2>3, <2>4, <3>1, Induct
  <2> QED
    BY <1>1, <2>2, <2>5
<1> QED
  BY <1>1, <1>2, <1>3

(***************************************************************************)
(* What the sources say                                                    *)
(***************************************************************************)
SourceFacts(s) == UNION {FactsOf(d) : d \in ToSet(s.decls)}
ProgramFacts == UNION {SourceFacts(sources[i]) : i \in 1..Len(sources)}
Links == {<<n, None>> : n \in ToSet(Alphabet)}
           \cup {<<n, Superclass(n)>> : n \in ToSet(Alphabet)}
Sign == \E c \in DeclaredClasses : \E x \in MethodsOf(c) : x.sel = Started /\ x.plus
GoodProgram == sources \in Programs /\ Declared /\ OneSign
Starting == {c \in DeclaredClasses : \E x \in MethodsOf(c) : x.plus /\ x.sel = "initialize"}

\* A declaration is one of some source.
LEMMA DeclsAre ==
  ASSUME sources \in Programs, NEW kinds, NEW d
  PROVE  /\ IsSeq(sources) /\ DOMAIN sources = 1..Len(sources)
         /\ d \in Decls(kinds) <=> /\ d.kind \in kinds
                                   /\ \E i \in 1..Len(sources) : d \in ToSet(sources[i].decls)
<1>1. IsSeq(sources) /\ DOMAIN sources = 1..Len(sources)
  BY ProgramAssumption, SeqFacts
<1> QED
  BY <1>1 DEF Decls

\* What ProgramAssumption says of one source.
LEMMA DeclIs ==
  ASSUME sources \in Programs, NEW i \in 1..Len(sources)
  PROVE  /\ IsSeq(sources[i].decls)
         /\ \A d \in ToSet(sources[i].decls) : IsDecl(d)
<1>1. IsSeq(sources) /\ sources[i] \in ToSet(sources)
  BY ProgramAssumption, SeqFacts
<1> QED
  BY <1>1, ProgramAssumption

\* The superclass of a class stands in one of its @interfaces.
LEMMA SuperKnown ==
  ASSUME NEW c, Superclass(c) # None
  PROVE  \E d \in Decls({"interface"}) : d.name = c /\ d.superclass = Superclass(c)
<1>1. PICK known : known = {d.superclass : d \in {e \in Decls({"interface"}) : e.name = c}} \ {None}
  OBVIOUS
<1>2. Superclass(c) = IF known = {} THEN None ELSE CHOOSE x \in known : TRUE
  BY <1>1 DEF Superclass
<1>3. Superclass(c) \in known
  BY <1>2
<1> QED
  BY <1>1, <1>3

\* All methods called "initialize" have one sign.
LEMMA SignOfAll ==
  ASSUME GoodProgram, NEW c \in DeclaredClasses, NEW x \in MethodsOf(c), x.sel = Started,
         x.plus \in BOOLEAN
  PROVE  x.plus = Sign
<1>1. CASE x.plus
  BY <1>1 DEF Sign
<1>2. CASE ~x.plus
  <2>1. ASSUME NEW b \in DeclaredClasses, NEW y \in MethodsOf(b), y.sel = Started, y.plus
        PROVE FALSE
    <3>1. /\ x \in UNION {MethodsOf(a) : a \in DeclaredClasses}
          /\ y \in UNION {MethodsOf(a) : a \in DeclaredClasses}
      BY <2>1
    <3>2. y.plus = x.plus
      BY <2>1, <3>1 DEF GoodProgram, OneSign
    <3> QED
      BY <1>2, <2>1, <3>2
  <2> QED
    BY <1>2, <2>1 DEF Sign
<1> QED
  BY <1>1, <1>2

\* A method of a category is implemented somewhere.
LEMMA MethodOfDecl ==
  ASSUME GoodProgram, NEW d \in Decls(MethodKinds), NEW x \in ToSet(d.methods)
  PROVE  /\ d.name \in DeclaredClasses /\ IsDecl(d)
         /\ \E y \in MethodsOf(d.name) : y.sel = x.sel /\ y.plus = x.plus
<1>1. sources \in Programs /\ Declared
  BY DEF GoodProgram
<1>2. d.kind \in MethodKinds
  BY <1>1, DeclsAre
<1>3. PICK i \in 1..Len(sources) : d \in ToSet(sources[i].decls)
  BY <1>1, DeclsAre
<1>4. IsDecl(d)
  BY <1>1, <1>3, DeclIs
<1>5. d.name \in DeclaredClasses
  <2>1. CASE d.kind = "implementation"
    <3>1. d \in Decls(HeadKinds)
      BY <1>1, <1>3, <2>1, DeclsAre DEF HeadKinds
    <3> QED
      BY <3>1 DEF DeclaredClasses
  <2>2. CASE d.kind \in CategoryKinds
    <3>1. d \in Decls(CategoryKinds)
      BY <1>1, <1>3, <2>2, DeclsAre
    <3> QED
      BY <1>1, <3>1 DEF Declared
  <2> QED
    BY <1>2, <2>1, <2>2 DEF MethodKinds
<1>6. CASE d.kind \in Blocks
  <2>1. d \in Decls(Blocks)
    BY <1>1, <1>3, <1>6, DeclsAre
  <2>2. x \in MethodsOf(d.name)
    BY <2>1 DEF MethodsOf
  <2> QED
    BY <1>4, <1>5, <2>2
<1>7. CASE d.kind = "category"
  <2>1. d \in Decls({"category"})
    BY <1>1, <1>3, <1>7, DeclsAre
  <2> QED
    BY <1>1, <1>4, <1>5, <2>1 DEF Declared
<1> QED
  BY <1>2, <1>6, <1>7 DEF MethodKinds, CategoryKinds, Blocks

\* Every declaration of a program fits the links and the sign of the program.
LEMMA DeclsFit ==
  ASSUME GoodProgram, NEW i \in 1..Len(sources), NEW d \in ToSet(sources[i].decls)
  PROVE  DeclFits(d, Links, Sign)
<1>1. sources \in Programs /\ Declared /\ IsDecl(d)
  BY DeclIs DEF GoodProgram
<1>2. ASSUME d.kind \in HeadKinds PROVE <<d.name, d.superclass>> \in Links
  <2>1. d \in Decls(HeadKinds)
    BY <1>1, <1>2, DeclsAre
  <2>2. d.superclass \in {None, Superclass(d.name)}
    BY <1>1, <2>1 DEF Declared
  <2>3. d.name \in ToSet(Alphabet)
    BY <1>1, <1>2 DEF IsDecl, HeadKinds, OtherKinds
  <2> QED
    BY <2>2, <2>3 DEF Links
<1>3. ASSUME d.kind \in MethodKinds PROVE Signed(d.methods, Sign)
  <2>1. d \in Decls(MethodKinds)
    BY <1>1, <1>3, DeclsAre
  <2>2. IsSeq(d.methods) /\ \A x \in ToSet(d.methods) : IsMethod(x)
    BY <1>1, <1>3 DEF IsDecl
  <2>3. ASSUME NEW x \in ToSet(d.methods), x.sel = Started PROVE x.plus = Sign
    <3>1. PICK y \in MethodsOf(d.name) : y.sel = x.sel /\ y.plus = x.plus
      BY <2>1, MethodOfDecl
    <3>2. d.name \in DeclaredClasses /\ y.plus \in BOOLEAN
      BY <2>1, <2>2, <3>1, MethodOfDecl DEF IsMethod
    <3>3. y.plus = Sign
      BY <2>3, <3>1, <3>2, SignOfAll
    <3> QED
      BY <3>1, <3>3
  <2> QED
    BY <2>2, <2>3 DEF Signed, Shaped, IsMethod
<1> QED
  BY <1>1, <1>2, <1>3 DEF DeclFits, IsDecl

\* A name has one superclass at most.
LEMMA LinksAgree == Agreeing(Links)
BY DEF Agreeing, Links

\* What the declarations make known is what the sources say.
LEMMA FactOf ==
  ASSUME sources \in Programs, NEW f
  PROVE  f \in ProgramFacts
           <=> \E i \in 1..Len(sources) : \E d \in ToSet(sources[i].decls) : f \in FactsOf(d)
BY DEF ProgramFacts, SourceFacts

\* What the facts of the program mean.
LEMMA IsFactMeans ==
  ASSUME GoodProgram, NEW n
  PROVE  IsFact(n) \in ProgramFacts <=> n \in DeclaredClasses
<1>1. sources \in Programs /\ Declared
  BY DEF GoodProgram
<1>2. ASSUME IsFact(n) \in ProgramFacts PROVE n \in DeclaredClasses
  <2>1. PICK i \in 1..Len(sources) : \E d \in ToSet(sources[i].decls) : IsFact(n) \in FactsOf(d)
    BY <1>1, <1>2, FactOf
  <2>2. PICK d \in ToSet(sources[i].decls) : IsFact(n) \in FactsOf(d)
    BY <2>1
  <2>3. d.kind \notin OtherKinds /\ d.name = n
    BY <2>2 DEF FactsOf, IsFact, SuperFact, HasFact
  <2>4. d.kind \in HeadKinds \/ d.kind \in CategoryKinds
    BY <1>1, <2>3, DeclIs DEF IsDecl, MethodKinds, HeadKinds
  <2>5. d \in Decls(HeadKinds) \/ d \in Decls(CategoryKinds)
    BY <1>1, <2>2, <2>4, DeclsAre
  <2> QED
    BY <1>1, <2>3, <2>5 DEF Declared, DeclaredClasses
<1>3. ASSUME n \in DeclaredClasses PROVE IsFact(n) \in ProgramFacts
  <2>1. PICK d \in Decls(HeadKinds) : d.name = n
    BY <1>3 DEF DeclaredClasses
  <2>2. d.kind \in HeadKinds /\ \E i \in 1..Len(sources) : d \in ToSet(sources[i].decls)
    BY <1>1, <2>1, DeclsAre
  <2>3. IsFact(n) \in FactsOf(d)
    BY <2>1, <2>2 DEF FactsOf, HeadKinds, OtherKinds
  <2> QED
    BY <1>1, <2>2, <2>3, FactOf
<1> QED
  BY <1>2, <1>3

LEMMA SuperFactMeans ==
  ASSUME GoodProgram, NEW n, Superclass(n) # None
  PROVE  SuperFact(n, Superclass(n)) \in ProgramFacts
<1>1. sources \in Programs
  BY DEF GoodProgram
<1>2. PICK d \in Decls({"interface"}) : d.name = n /\ d.superclass = Superclass(n)
  BY SuperKnown
<1>3. d.kind = "interface" /\ \E i \in 1..Len(sources) : d \in ToSet(sources[i].decls)
  BY <1>1, <1>2, DeclsAre
<1>4. SuperFact(n, Superclass(n)) \in FactsOf(d)
  BY <1>2, <1>3 DEF FactsOf, HeadKinds
<1> QED
  BY <1>1, <1>3, <1>4, FactOf

LEMMA HasFactMeans ==
  ASSUME GoodProgram, NEW n
  PROVE  HasFact(n) \in ProgramFacts <=> \E x \in MethodsOf(n) : x.sel = Started
<1>1. sources \in Programs
  BY DEF GoodProgram
<1>2. ASSUME HasFact(n) \in ProgramFacts PROVE \E x \in MethodsOf(n) : x.sel = Started
  <2>1. PICK i \in 1..Len(sources) : \E d \in ToSet(sources[i].decls) : HasFact(n) \in FactsOf(d)
    BY <1>1, <1>2, FactOf
  <2>2. PICK d \in ToSet(sources[i].decls) : HasFact(n) \in FactsOf(d)
    BY <2>1
  <2>3. d.kind \in MethodKinds /\ Has(d.methods) /\ d.name = n
    BY <2>2 DEF FactsOf, IsFact, SuperFact, HasFact
  <2>4. d \in Decls(MethodKinds)
    BY <1>1, <2>2, <2>3, DeclsAre
  <2>5. PICK x \in ToSet(d.methods) : x.sel = Started
    BY <2>3 DEF Has
  <2> QED
    BY <2>3, <2>4, <2>5, MethodOfDecl
<1>3. ASSUME NEW x \in MethodsOf(n), x.sel = Started PROVE HasFact(n) \in ProgramFacts
  <2>1. PICK d \in Decls(Blocks) : d.name = n /\ x \in ToSet(d.methods)
    BY <1>3 DEF MethodsOf
  <2>2. d.kind \in Blocks /\ \E i \in 1..Len(sources) : d \in ToSet(sources[i].decls)
    BY <1>1, <2>1, DeclsAre
  <2>3. HasFact(n) \in FactsOf(d)
    BY <1>3, <2>1, <2>2 DEF FactsOf, Blocks, MethodKinds, CategoryKinds, Has
  <2> QED
    BY <1>1, <2>2, <2>3, FactOf
<1> QED
  BY <1>2, <1>3

(***************************************************************************)
(* The tree of the classes                                                 *)
(***************************************************************************)
TreeClass(c) ==
  /\ Fields \subseteq DOMAIN c /\ c.superclass = Superclass(c.name)
  /\ Shaped(c.methods) /\ IsSeq(c.properties)
  /\ Starts(c.methods) <=> c.name \in Starting
Tree(cs) ==
  /\ IsSeq(cs) /\ Distinct(cs) /\ Keys(cs) = DeclaredClasses
  /\ \A i \in 1..Len(cs) : TreeClass(cs[i])

\* Classes with the facts of the program are its tree.
LEMMA FactsAreTree ==
  ASSUME GoodProgram, NEW cs, Fits(cs, Links, Sign), AllFacts(cs) = ProgramFacts
  PROVE  Tree(cs)
<1>1. PICK n : /\ n = Len(cs) /\ n \in Nat /\ DOMAIN cs = 1..n /\ IsSeq(cs) /\ Distinct(cs)
               /\ \A i \in 1..n : ClassFits(cs[i], Links, Sign)
  BY SeqFacts DEF Fits
<1>2. \A f : f \in ProgramFacts <=> \E i \in 1..n : f \in Facts(cs[i])
  BY <1>1 DEF AllFacts
<1>3. ASSUME NEW i \in 1..n
      PROVE  /\ cs[i].name \in DeclaredClasses /\ cs[i].superclass = Superclass(cs[i].name)
             /\ Has(cs[i].methods) <=> \E x \in MethodsOf(cs[i].name) : x.sel = Started
  <2>1. PICK c, m : c = cs[i] /\ m = c.name
    OBVIOUS
  <2>2. m \in DeclaredClasses
    <3>1. IsFact(m) \in Facts(c)
      BY <2>1 DEF Facts
    <3> QED
      BY <1>2, <2>1, <3>1, IsFactMeans
  <2>3. \A j \in 1..n : cs[j].name = m => j = i
    BY <1>1, <2>1 DEF Distinct
  <2>4. c.superclass = Superclass(m)
    <3>1. <<m, c.superclass>> \in Links
      BY <1>1, <2>1 DEF ClassFits
    <3>2. c.superclass \in {None, Superclass(m)}
      BY <3>1 DEF Links
    <3>3. ASSUME Superclass(m) # None PROVE c.superclass # None
      <4>1. SuperFact(m, Superclass(m)) \in ProgramFacts
        BY <3>3, SuperFactMeans
      <4>2. PICK j \in 1..n : SuperFact(m, Superclass(m)) \in Facts(cs[j])
        BY <1>2, <4>1
      <4>3. cs[j].name = m /\ cs[j].superclass = Superclass(m)
        BY <4>2 DEF Facts, IsFact, SuperFact, HasFact
      <4>4. j = i
        BY <2>3, <4>3
      <4> QED
        BY <2>1, <3>3, <4>3, <4>4
    <3> QED
      BY <3>2, <3>3
  <2>5. Has(c.methods) <=> HasFact(m) \in ProgramFacts
    <3>1. ASSUME Has(c.methods) PROVE HasFact(m) \in ProgramFacts
      <4>1. HasFact(m) \in Facts(c)
        BY <2>1, <3>1 DEF Facts
      <4> QED
        BY <1>2, <2>1, <4>1
    <3>2. ASSUME HasFact(m) \in ProgramFacts PROVE Has(c.methods)
      <4>1. PICK j \in 1..n : HasFact(m) \in Facts(cs[j])
        BY <1>2, <3>2
      <4>2. cs[j].name = m /\ Has(cs[j].methods)
        BY <4>1 DEF Facts, IsFact, SuperFact, HasFact
      <4> QED
        BY <2>1, <2>3, <4>2
    <3> QED
      BY <3>1, <3>2
  <2> QED
    BY <2>1, <2>2, <2>4, <2>5, HasFactMeans
<1>4. Keys(cs) = DeclaredClasses
  <2>1. ASSUME NEW c \in DeclaredClasses PROVE c \in Keys(cs)
    <3>1. IsFact(c) \in ProgramFacts
      BY <2>1, IsFactMeans
    <3>2. PICK i \in 1..n : IsFact(c) \in Facts(cs[i])
      BY <1>2, <3>1
    <3>3. cs[i].name = c
      BY <3>2 DEF Facts, IsFact, SuperFact, HasFact
    <3> QED
      BY <1>1, <3>3 DEF Keys
  <2> QED
    BY <1>1, <1>3, <2>1 DEF Keys
<1>5. ASSUME NEW i \in 1..n PROVE TreeClass(cs[i])
  <2>1. PICK c, m : c = cs[i] /\ m = c.name
    OBVIOUS
  <2>2. Signed(c.methods, Sign) /\ Fields \subseteq DOMAIN c /\ IsSeq(c.properties)
    BY <1>1, <2>1 DEF ClassFits
  <2>3. Starts(c.methods) <=> Sign /\ Has(c.methods)
    BY <2>2, SignedStarts DEF Sign
  <2>4. Has(c.methods) <=> \E x \in MethodsOf(m) : x.sel = Started
    BY <1>3, <2>1
  <2>5. m \in DeclaredClasses
    BY <1>3, <2>1
  <2>6. Sign /\ Has(c.methods) => m \in Starting
    <3>1. SUFFICES ASSUME Sign, Has(c.methods) PROVE m \in Starting
      OBVIOUS
    <3>2. PICK x \in MethodsOf(m) : x.sel = Started
      BY <2>4, <3>1
    <3>3. PICK a \in DeclaredClasses : \E y \in MethodsOf(a) : y.sel = Started /\ y.plus
      BY <3>1 DEF Sign
    <3>4. PICK y \in MethodsOf(a) : y.sel = Started /\ y.plus
      BY <3>3
    <3>5. /\ x \in UNION {MethodsOf(b) : b \in DeclaredClasses}
          /\ y \in UNION {MethodsOf(b) : b \in DeclaredClasses}
      BY <2>5, <3>2, <3>3, <3>4
    <3>6. x.plus = y.plus
      BY <3>2, <3>4, <3>5 DEF GoodProgram, OneSign
    <3> QED
      BY <2>5, <3>2, <3>4, <3>6 DEF Starting, Started
  <2>7. m \in Starting => Sign /\ Has(c.methods)
    BY <2>4 DEF Starting, Sign, Started
  <2> QED
    BY <1>3, <2>1, <2>2, <2>3, <2>6, <2>7 DEF TreeClass, Signed
<1> QED
  BY <1>1, <1>4, <1>5 DEF Tree

\* Passes that change no class as far as the tree is concerned.
AlikeClass(d, c) ==
  /\ DOMAIN d = DOMAIN c /\ d.name = c.name /\ d.superclass = c.superclass
  /\ Shaped(d.methods) /\ IsSeq(d.properties) /\ (Starts(d.methods) <=> Starts(c.methods))

Alike(ds, cs) ==
  IsSeq(ds) /\ Len(ds) = Len(cs) /\ \A i \in 1..Len(cs) : AlikeClass(ds[i], cs[i])

\* A pass that keeps names, superclasses and starts keeps the tree.
LEMMA AlikeTree ==
  ASSUME NEW cs, Tree(cs), NEW ds, Alike(ds, cs)
  PROVE  Tree(ds)
<1>1. PICK n : /\ n = Len(cs) /\ n = Len(ds) /\ n \in Nat
               /\ DOMAIN cs = 1..n /\ DOMAIN ds = 1..n
  BY SeqFacts DEF Tree, Alike
<1>2. \A i \in 1..n : ds[i].name = cs[i].name
  BY <1>1 DEF Alike, AlikeClass
<1>3. Keys(ds) = Keys(cs) /\ Distinct(ds)
  BY <1>1, <1>2 DEF Keys, Distinct, Tree
<1>4. \A i \in 1..n : TreeClass(ds[i])
  BY <1>1 DEF Tree, TreeClass, Alike, AlikeClass
<1> QED
  BY <1>1, <1>3, <1>4 DEF Tree, Alike

\* Synthesized properties do (SynthesizeProperties).
LEMMA SynthesizeAlike ==
  ASSUME NEW m, "classes" \in DOMAIN m, Tree(m.classes)
  PROVE  /\ DOMAIN SynthesizeProperties(m) = DOMAIN m
         /\ Alike(SynthesizeProperties(m).classes, m.classes)
<1>1. PICK cs, n : /\ cs = m.classes /\ n = Len(cs) /\ n \in Nat /\ DOMAIN cs = 1..n
                   /\ \A i \in 1..n : TreeClass(cs[i])
  BY SeqFacts DEF Tree
<1>2. PICK z, ds : z = SynthesizeProperties(m) /\ ds = z.classes
  OBVIOUS
<1>3. DOMAIN z = DOMAIN m /\ ds = [i \in 1..n |-> SynthesizeClass(cs[i])]
  BY <1>1, <1>2 DEF SynthesizeProperties
<1>4. IsSeq(ds) /\ Len(ds) = n
  <2>1. ds = [i \in 1..n |-> ds[i]]
    BY <1>3
  <2> QED
    BY <1>1, <2>1, Positions
<1>5. ASSUME NEW i \in 1..n PROVE AlikeClass(ds[i], cs[i])
  <2>1. PICK c, d : c = cs[i] /\ d = ds[i] /\ d = SynthesizeClass(c) /\ TreeClass(c)
    BY <1>1, <1>3
  <2>2. PICK k, ps : /\ k \in Nat /\ DOMAIN c.properties = 1..k
                     /\ ps = [j \in 1..k |-> NameIvar(c, c.properties[j])]
    BY <2>1, SeqFacts DEF TreeClass
  <2>3. IsSeq(ps)
    <3>1. ps = [j \in 1..k |-> ps[j]]
      BY <2>2
    <3> QED
      BY <2>2, <3>1, Positions
  <2>4. /\ DOMAIN d = DOMAIN c /\ d.name = c.name /\ d.superclass = c.superclass
        /\ d.properties = ps /\ d.methods = FoldLeft(AddAccessors, c.methods, ps)
    BY <2>1, <2>2 DEF SynthesizeClass, TreeClass, Fields
  <2>5. Shaped(d.methods) /\ (Starts(d.methods) <=> Starts(c.methods))
    BY <2>1, <2>3, <2>4, AccessorsAll DEF TreeClass
  <2> QED
    BY <2>1, <2>3, <2>4, <2>5 DEF AlikeClass
<1> QED
  BY <1>1, <1>2, <1>3, <1>4, <1>5 DEF Alike

(***************************************************************************)
(* Chains of superclasses                                                  *)
(***************************************************************************)
Declares(c) == c \in DeclaredClasses
Above(s) == IF Declares(Superclass(Last(s))) THEN Append(s, Superclass(Last(s))) ELSE s

\* A climb from n: every class stands before its superclass.
Climb(s, n) ==
  /\ IsSeq(s) /\ Len(s) # 0 /\ s[1] = n /\ \A c \in ToSet(s) : Declares(c)
  /\ \A j \in 1..(Len(s) - 1) : s[j + 1] = Superclass(s[j])

\* Looking a class up in the tree.
LEMMA TreeAt ==
  ASSUME NEW cs, Tree(cs), NEW c
  PROVE  /\ Known(cs, c) <=> Declares(c)
         /\ Declares(c) => SuperOf(cs, c) = Superclass(c) /\ At(cs, c).name = c
                           /\ \E i \in 1..Len(cs) : At(cs, c) = cs[i]
<1>1. Known(cs, c) <=> Declares(c)
  BY DEF Tree, Known, Declares
<1>2. ASSUME Declares(c)
      PROVE  /\ SuperOf(cs, c) = Superclass(c) /\ At(cs, c).name = c
             /\ \E i \in 1..Len(cs) : At(cs, c) = cs[i]
  <2>1. IsSeq(cs) /\ Distinct(cs) /\ c \in Keys(cs)
    BY <1>2 DEF Tree, Declares
  <2>2. PICK i \in 1..Len(cs) : At(cs, c) = cs[i] /\ cs[i].name = c
    BY <2>1, AtPlace
  <2> QED
    BY <2>2 DEF Tree, TreeClass, SuperOf
<1> QED
  BY <1>1, <1>2

\* A chain goes on, or stays as it is at its root.
LEMMA ClimbOn ==
  ASSUME NEW n, NEW s, Climb(s, n)
  PROVE  Climb(Above(s), n)
<1>1. PICK k \in Nat : k = Len(s) /\ k # 0 /\ Last(s) = s[k]
  BY SeqFacts DEF Climb, Last
<1>2. CASE Above(s) = s
  BY <1>2
<1>3. PICK p : p = Superclass(s[k])
  OBVIOUS
<1>4. CASE Declares(p) /\ Above(s) = Append(s, p)
  <2>1. PICK t : t = Append(s, p)
    OBVIOUS
  <2>2. /\ IsSeq(t) /\ ToSet(t) = ToSet(s) \cup {p} /\ Len(t) = k + 1
        /\ \A i \in 1..k : t[i] = s[i]
        /\ t[k + 1] = p
    BY <1>1, <2>1, Appended DEF Climb
  <2>3. ASSUME NEW j \in 1..((k + 1) - 1) PROVE t[j + 1] = Superclass(t[j])
    <3>1. CASE j = k
      BY <1>1, <1>3, <2>2, <3>1
    <3>2. CASE j # k
      <4>1. j \in 1..(k - 1) /\ j \in 1..k /\ j + 1 \in 1..k
        BY <1>1, <3>2
      <4> QED
        BY <1>1, <2>2, <4>1 DEF Climb
    <3> QED
      BY <3>1, <3>2
  <2>4. t[1] = n /\ Len(t) # 0
    BY <1>1, <2>2 DEF Climb
  <2> QED
    BY <1>4, <2>1, <2>2, <2>3, <2>4 DEF Climb
<1> QED
  BY <1>1, <1>2, <1>3, <1>4 DEF Above

LEMMA ClimbOne ==
  ASSUME NEW n, Declares(n)
  PROVE  Climb(<<n>>, n)
<1>1. IsSeq(<<n>>) /\ Len(<<n>>) = 1 /\ ToSet(<<n>>) = {n} /\ <<n>>[1] = n
  <2>1. <<n>> \in Seq({n})
    OBVIOUS
  <2>2. ToSet(<<n>>) = {n}
    BY DEF ToSet
  <2> QED
    BY <2>1, <2>2 DEF IsSeq
<1> QED
  BY <1>1 DEF Climb

\* A step of the climb in a tree is one along the superclasses.
LEMMA StepAbove ==
  ASSUME NEW cs, Tree(cs), NEW n, NEW s, Climb(s, n)
  PROVE  WithSuper(cs, s) = Above(s)
<1>1. Declares(Last(s))
  BY SeqFacts DEF Climb, Last
<1>2. SuperOf(cs, Last(s)) = Superclass(Last(s))
  BY <1>1, TreeAt
<1> QED
  BY <1>2, TreeAt DEF WithSuper, Above

\* The chain of a class is a climb that only stops short where the
\* superclasses end.
LEMMA ChainClimbs ==
  ASSUME NEW cs, Tree(cs), NEW n, Declares(n)
  PROVE  /\ Climb(Chain(cs, n), n)
         /\ Len(Chain(cs, n)) <= Len(cs) => ~Declares(Superclass(Last(Chain(cs, n))))
<1>1. PICK k \in Nat : k = Len(cs)
  BY SeqFacts DEF Tree
<1>2. PICK g : Climbs(g, cs, n)
  BY ChainTrace DEF Tree
<1>3. g[0] = <<n>> /\ g[k] = Chain(cs, n) /\ \A i \in 1..k : g[i] = WithSuper(cs, g[i - 1])
  BY <1>1, <1>2 DEF Climbs
<1> DEFINE Good(i) == Climb(g[i], n) /\ (Len(g[i]) = i + 1 \/ ~Declares(Superclass(Last(g[i]))))
           T == {i \in Nat : i <= k => Good(i)}
<1>4. 0 \in T
  <2>1. Len(<<n>>) = 1
    OBVIOUS
  <2> QED
    BY <1>3, <2>1, ClimbOne
<1>5. ASSUME NEW i \in T PROVE i + 1 \in T
  <2>1. SUFFICES ASSUME i + 1 <= k PROVE Good(i + 1)
    OBVIOUS
  <2>2. Good(i) /\ i + 1 \in 1..k /\ (i + 1) - 1 = i /\ i \in Nat
    BY <1>1, <2>1
  <2>3. PICK s : s = g[i]
    OBVIOUS
  <2>4. g[i + 1] = Above(s) /\ Climb(s, n)
    BY <1>3, <2>2, <2>3, StepAbove
  <2>5. Climb(Above(s), n)
    BY <2>4, ClimbOn
  <2>6. CASE Declares(Superclass(Last(s)))
    <3>1. Len(s) = i + 1 /\ IsSeq(s)
      BY <2>2, <2>3, <2>4, <2>6 DEF Climb
    <3>2. Len(Above(s)) = (i + 1) + 1
      BY <2>6, <3>1, Appended DEF Above
    <3> QED
      BY <2>4, <2>5, <3>2
  <2>7. CASE ~Declares(Superclass(Last(s)))
    <3>1. Above(s) = s
      BY <2>7 DEF Above
    <3> QED
      BY <2>4, <2>5, <2>7, <3>1
  <2> QED
    BY <2>6, <2>7
<1>6. k \in T
  <2> HIDE DEF T
  <2>1. T \subseteq Nat
    BY DEF T
  <2> QED
    BY <1>4, <1>5, <2>1, Induct
<1>7. Good(k)
  BY <1>6
<1> QED
  BY <1>1, <1>3, <1>7

\* The chains only depend on the tree.
LEMMA SameChain ==
  ASSUME NEW cs, Tree(cs), NEW ds, Tree(ds), Len(ds) = Len(cs), NEW n, Declares(n)
  PROVE  Chain(ds, n) = Chain(cs, n)
<1>1. PICK k \in Nat : k = Len(cs) /\ k = Len(ds)
  BY SeqFacts DEF Tree
<1>2. (\E f : Climbs(f, cs, n)) /\ (\E f : Climbs(f, ds, n))
  BY ChainTrace DEF Tree
<1>3. PICK g : Climbs(g, cs, n)
  BY <1>2
<1>4. PICK h : Climbs(h, ds, n)
  BY <1>2
<1>5. /\ g[0] = <<n>> /\ g[k] = Chain(cs, n) /\ \A i \in 1..k : g[i] = WithSuper(cs, g[i - 1])
      /\ h[0] = <<n>> /\ h[k] = Chain(ds, n) /\ \A i \in 1..k : h[i] = WithSuper(ds, h[i - 1])
  BY <1>1, <1>3, <1>4 DEF Climbs
<1> DEFINE Good(i) == Climb(g[i], n) /\ h[i] = g[i]
           T == {i \in Nat : i <= k => Good(i)}
<1>6. 0 \in T
  BY <1>5, ClimbOne
<1>7. ASSUME NEW i \in T PROVE i + 1 \in T
  <2>1. SUFFICES ASSUME i + 1 <= k PROVE Good(i + 1)
    OBVIOUS
  <2>2. Good(i) /\ i + 1 \in 1..k /\ (i + 1) - 1 = i
    BY <1>1, <2>1
  <2>3. PICK s : s = g[i] /\ s = h[i] /\ Climb(s, n)
    BY <2>2
  <2>4. WithSuper(cs, s) = Above(s) /\ WithSuper(ds, s) = Above(s) /\ Climb(Above(s), n)
    BY <2>3, StepAbove, ClimbOn
  <2> QED
    BY <1>5, <2>2, <2>3, <2>4
<1>8. k \in T
  <2> HIDE DEF T
  <2>1. T \subseteq Nat
    BY DEF T
  <2> QED
    BY <1>6, <1>7, <2>1, Induct
<1> QED
  BY <1>5, <1>8

\* Circles depend on the names and superclasses only.
LEMMA SameCircles ==
  ASSUME NEW cs, Tree(cs), NEW ds, Tree(ds), Len(ds) = Len(cs), ~HasCycle(cs)
  PROVE  ~HasCycle(ds)
BY SameChain DEF HasCycle, Tree, Declares

\* A climb that has reached the end has no class twice.
LEMMA ClimbDistinct ==
  ASSUME NEW n, NEW s, Climb(s, n), ~Declares(Superclass(Last(s))),
         NEW i \in 1..Len(s), NEW j \in 1..Len(s), i < j
  PROVE  s[i] # s[j]
<1>1. PICK k \in Nat : /\ k = Len(s) /\ Last(s) = s[k]
                       /\ \A a \in 1..k : Declares(s[a])
                       /\ \A a \in 1..(k - 1) : s[a + 1] = Superclass(s[a])
  BY SeqFacts DEF Climb, Last
<1>2. SUFFICES ASSUME s[i] = s[j] PROVE FALSE
  OBVIOUS
<1> DEFINE T == {a \in Nat : j + a <= k => s[i + a] = s[j + a]}
<1>3. 0 \in T
  BY <1>1, <1>2
<1>4. ASSUME NEW a \in T PROVE a + 1 \in T
  <2>1. SUFFICES ASSUME j + (a + 1) <= k PROVE s[i + (a + 1)] = s[j + (a + 1)]
    OBVIOUS
  <2>2. /\ i + a \in 1..(k - 1) /\ j + a \in 1..(k - 1) /\ s[i + a] = s[j + a]
        /\ (i + a) + 1 = i + (a + 1) /\ (j + a) + 1 = j + (a + 1)
    BY <1>1, <2>1
  <2> QED
    BY <1>1, <2>2
<1>5. k - j \in T
  <2> HIDE DEF T
  <2>1. T \subseteq Nat /\ k - j \in Nat
    BY <1>1 DEF T
  <2> QED
    BY <1>3, <1>4, <2>1, Induct
<1>6. j + (k - j) = k /\ i + (k - j) \in 1..(k - 1) /\ i + (k - j) + 1 \in 1..k
  BY <1>1
<1>7. s[i + (k - j)] = s[k]
  BY <1>5, <1>6
<1>8. Declares(Superclass(s[i + (k - j)]))
  BY <1>1, <1>6
<1> QED
  BY <1>1, <1>7, <1>8

(***************************************************************************)
(* The order of the numbers                                                *)
(***************************************************************************)
\* The first of the two may have a number before the second.
Placed == {r \in DeclaredClasses \X DeclaredClasses : r[1] # r[2] /\ Superclass(r[1]) # r[2]}
ClosedUp(S) == \A c \in S : Declares(c) /\ (Declares(Superclass(c)) => Superclass(c) \in S)
InOrder(s) == IsSeq(s) /\ Ordered(s, Placed) /\ ClosedUp(ToSet(s))

\* Reverse by places.
LEMMA Reversed ==
  ASSUME NEW s, IsSeq(s)
  PROVE  /\ IsSeq(Reverse(s)) /\ Len(Reverse(s)) = Len(s) /\ ToSet(Reverse(s)) = ToSet(s)
         /\ \A i \in 1..Len(s) : Reverse(s)[i] = s[Len(s) - i + 1]
<1>1. PICK n \in Nat : n = Len(s) /\ DOMAIN s = 1..n
  BY SeqFacts
<1>2. PICK r : r = Reverse(s)
  OBVIOUS
<1>3. r = [i \in 1..n |-> s[(n - i) + 1]]
  BY <1>1, <1>2 DEF Reverse
<1>4. IsSeq(r) /\ Len(r) = n /\ DOMAIN r = 1..n
  <2>1. r = [i \in 1..n |-> r[i]]
    BY <1>3
  <2> QED
    BY <1>1, <2>1, Positions
<1>5. \A i \in 1..n : (n - i) + 1 \in 1..n /\ (n - ((n - i) + 1)) + 1 = i
  BY <1>1
<1>6. ASSUME NEW x \in ToSet(s) PROVE x \in ToSet(r)
  <2>1. PICK i \in 1..n : x = s[i]
    BY <1>1, <1>6, SeqFacts
  <2>2. r[(n - i) + 1] = x /\ (n - i) + 1 \in 1..n
    BY <1>3, <1>5, <2>1
  <2> QED
    BY <1>4, <2>2, SeqFacts
<1>7. ASSUME NEW x \in ToSet(r) PROVE x \in ToSet(s)
  <2>1. PICK i \in 1..n : x = r[i]
    BY <1>4, <1>7, SeqFacts
  <2> QED
    BY <1>1, <1>3, <1>5, <2>1, SeqFacts
<1> QED
  BY <1>1, <1>2, <1>3, <1>4, <1>6, <1>7

\* The chain of a class, turned round, has superclasses first.
LEMMA ClimbInOrder ==
  ASSUME NEW n, NEW s, Climb(s, n), ~Declares(Superclass(Last(s)))
  PROVE  InOrder(Reverse(s)) /\ ToSet(Reverse(s)) = ToSet(s)
<1>1. PICK k \in Nat : /\ k = Len(s) /\ Last(s) = s[k] /\ IsSeq(s)
                       /\ \A a \in 1..k : Declares(s[a]) /\ s[a] \in ToSet(s)
                       /\ \A a \in 1..(k - 1) : s[a + 1] = Superclass(s[a])
                       /\ \A x \in ToSet(s) : \E a \in 1..k : x = s[a]
  BY SeqFacts DEF Climb, Last
<1>2. PICK r : r = Reverse(s)
  OBVIOUS
<1>3. /\ IsSeq(r) /\ Len(r) = k /\ ToSet(r) = ToSet(s)
      /\ \A i \in 1..k : r[i] = s[k - i + 1]
  BY <1>1, <1>2, Reversed
<1>4. ASSUME NEW a \in 1..k, NEW b \in 1..k, a < b PROVE <<r[a], r[b]>> \in Placed
  <2>1. PICK i \in 1..k, j \in 1..k : i = k - b + 1 /\ j = k - a + 1 /\ i < j
    <3>1. k - b + 1 \in 1..k /\ k - a + 1 \in 1..k /\ k - b + 1 < k - a + 1
      BY <1>4
    <3> QED
      BY <3>1
  <2>2. r[a] = s[j] /\ r[b] = s[i]
    BY <1>3, <2>1
  <2>3. s[i] # s[j] /\ Declares(s[i]) /\ Declares(s[j])
    BY <1>1, <2>1, ClimbDistinct
  <2>4. Superclass(s[j]) # s[i]
    <3>1. CASE j = k
      BY <1>1, <2>3, <3>1
    <3>2. CASE j # k
      <4>1. j \in 1..(k - 1) /\ j + 1 \in 1..k /\ i < j + 1
        <5>1. j < k /\ j + 1 \in Nat
          BY <3>2
        <5> QED
          BY <2>1, <5>1
      <4>2. s[i] # s[j + 1]
        BY <1>1, <4>1, ClimbDistinct
      <4> QED
        BY <1>1, <4>1, <4>2
    <3> QED
      BY <3>1, <3>2
  <2> QED
    BY <2>2, <2>3, <2>4 DEF Placed, Declares
<1>5. ASSUME NEW c \in ToSet(s), Declares(Superclass(c)) PROVE Superclass(c) \in ToSet(s)
  <2>1. PICK a \in 1..k : c = s[a]
    BY <1>1
  <2>2. a # k
    BY <1>1, <1>5, <2>1
  <2>3. a \in 1..(k - 1) /\ a + 1 \in 1..k
    BY <1>1, <2>2
  <2> QED
    BY <1>1, <2>1, <2>3
<1>6. ClosedUp(ToSet(r))
  BY <1>3, <1>5 DEF ClosedUp, Climb
<1> QED
  BY <1>2, <1>3, <1>4, <1>6 DEF InOrder, Ordered

\* Joining two ordered lists keeps superclasses first (Union).
LEMMA UnionInOrder ==
  ASSUME NEW s, InOrder(s), NEW t, InOrder(t)
  PROVE  InOrder(Union(s, t)) /\ ToSet(Union(s, t)) = ToSet(s) \cup ToSet(t)
<1>1. PICK q : q = Keep(t, ToSet(t) \ ToSet(s))
  OBVIOUS
<1>2. /\ IsSeq(q) /\ ToSet(q) = ToSet(t) \ ToSet(s) /\ Ordered(q, Placed)
  <2>1. \A S : /\ IsSeq(Keep(t, S)) /\ ToSet(Keep(t, S)) = ToSet(t) \cap S
               /\ \A R : Ordered(t, R) => Ordered(Keep(t, S), R)
    BY KeepFacts DEF InOrder
  <2> QED
    BY <1>1, <2>1 DEF InOrder
<1>3. PICK u : u = s \o q /\ u = Union(s, t)
  BY <1>1 DEF Union
<1>4. PICK n \in Nat, k \in Nat : n = Len(s) /\ k = Len(q)
  BY <1>2, SeqFacts DEF InOrder
<1>5. /\ IsSeq(u) /\ ToSet(u) = ToSet(s) \cup ToSet(t) /\ Len(u) = n + k
      /\ \A i \in 1..n : u[i] = s[i] /\ s[i] \in ToSet(s)
      /\ \A i \in 1..k : u[n + i] = q[i] /\ q[i] \in ToSet(t) \ ToSet(s)
  <2>1. /\ IsSeq(s) /\ IsSeq(q)
        /\ \A i \in 1..n : s[i] \in ToSet(s)
        /\ \A i \in 1..k : q[i] \in ToSet(t) \ ToSet(s)
    BY <1>2, <1>4, SeqFacts DEF InOrder
  <2>2. /\ IsSeq(u) /\ ToSet(u) = ToSet(s) \cup ToSet(q) /\ Len(u) = n + k
        /\ \A i \in 1..n : u[i] = s[i]
        /\ \A i \in 1..k : u[n + i] = q[i]
    <3>1. /\ IsSeq(s \o q) /\ ToSet(s \o q) = ToSet(s) \cup ToSet(q)
          /\ Len(s \o q) = Len(s) + Len(q)
          /\ \A i \in 1..Len(s) : (s \o q)[i] = s[i]
          /\ \A i \in 1..Len(q) : (s \o q)[Len(s) + i] = q[i]
      BY <2>1, Concatenated
    <3>2. u = s \o q
      BY <1>3
    <3> QED
      BY <1>4, <3>1, <3>2, Zenon
  <2> QED
    BY <1>2, <2>1, <2>2
<1>6. ClosedUp(ToSet(u))
  BY <1>5 DEF InOrder, ClosedUp
<1>7. ASSUME NEW a \in 1..(n + k), NEW b \in 1..(n + k), a < b
      PROVE  <<u[a], u[b]>> \in Placed
  <2>1. CASE b \in 1..n
    <3>1. a \in 1..n
      BY <1>4, <1>7, <2>1
    <3> QED
      BY <1>4, <1>5, <1>7, <2>1, <3>1 DEF InOrder, Ordered
  <2>2. CASE b \notin 1..n
    <3>1. PICK j \in 1..k : b = n + j
      <4>1. b - n \in 1..k /\ b = n + (b - n)
        BY <1>4, <2>2
      <4> QED
        BY <4>1
    <3>2. CASE a \in 1..n
      <4>1. u[a] \in ToSet(s) /\ u[b] \in ToSet(t) \ ToSet(s)
        BY <1>5, <3>1, <3>2
      <4> QED
        BY <4>1 DEF Placed, InOrder, ClosedUp, Declares
    <3>3. CASE a \notin 1..n
      <4>1. PICK i \in 1..k : a = n + i
        <5>1. a - n \in 1..k /\ a = n + (a - n)
          BY <1>4, <3>3
        <5> QED
          BY <5>1
      <4>2. i < j
        BY <1>4, <1>7, <3>1, <4>1
      <4> QED
        BY <1>2, <1>4, <1>5, <3>1, <4>1, <4>2 DEF Ordered
    <3> QED
      BY <3>2, <3>3
  <2> QED
    BY <2>1, <2>2
<1> QED
  BY <1>3, <1>5, <1>6, <1>7 DEF InOrder, Ordered

\* The chain of a class from its root down is ordered.
LEMMA ChainInOrder ==
  ASSUME NEW cs, Tree(cs), ~HasCycle(cs), NEW n, Declares(n)
  PROVE  InOrder(Reverse(Chain(cs, n))) /\ n \in ToSet(Reverse(Chain(cs, n)))
<1>1. PICK s : s = Chain(cs, n)
  OBVIOUS
<1>2. Len(s) <= Len(cs)
  <2>1. IsSeq(s) /\ IsSeq(cs)
    BY <1>1, ChainClimbs DEF Tree, Climb
  <2>2. ~(Len(s) > Len(cs))
    BY <1>1 DEF HasCycle, Tree, Declares
  <2> QED
    BY <2>1, <2>2, SeqFacts
<1>3. Climb(s, n) /\ ~Declares(Superclass(Last(s)))
  BY <1>1, <1>2, ChainClimbs
<1>4. n \in ToSet(s)
  <2>1. Len(s) \in Nat /\ 1 \in 1..Len(s)
    BY <1>3, SeqFacts DEF Climb
  <2> QED
    BY <1>3, <2>1, SeqFacts DEF Climb
<1> QED
  BY <1>1, <1>3, <1>4, ClimbInOrder

\* Declared classes are in the alphabet.
LEMMA DeclaredNames ==
  ASSUME GoodProgram
  PROVE  DeclaredClasses \subseteq ToSet(Alphabet)
<1>1. ASSUME NEW c \in DeclaredClasses PROVE c \in ToSet(Alphabet)
  <2>1. PICK d \in Decls(HeadKinds) : d.name = c
    BY <1>1 DEF DeclaredClasses
  <2>2. d.kind \in HeadKinds /\ \E i \in 1..Len(sources) : d \in ToSet(sources[i].decls)
    BY <2>1, DeclsAre DEF GoodProgram
  <2>3. IsDecl(d)
    BY <2>2, DeclIs DEF GoodProgram
  <2> QED
    BY <2>1, <2>2, <2>3 DEF IsDecl, HeadKinds, OtherKinds
<1> QED
  BY <1>1

\* The order that _assign_class_ids numbers the classes in.
LEMMA OrderIs ==
  ASSUME GoodProgram, NEW cs, Tree(cs), ~HasCycle(cs)
  PROVE  InOrder(ClassOrder(cs)) /\ ToSet(ClassOrder(cs)) = DeclaredClasses
<1>1. PICK ns : ns = Sorted(Keys(cs))
  OBVIOUS
<1>2. IsSeq(ns) /\ ToSet(ns) = DeclaredClasses
  <2>1. PICK names, S : names = Alphabet /\ S = DeclaredClasses
    OBVIOUS
  <2>2. IsSeq(names) /\ S \subseteq ToSet(names) /\ ns = Keep(names, S)
    BY <1>1, <2>1, DeclaredNames, NameAssumption DEF Sorted, Tree
  <2>3. IsSeq(Keep(names, S)) /\ ToSet(Keep(names, S)) = ToSet(names) \cap S
    BY <2>2, KeepFacts
  <2> QED
    BY <2>1, <2>2, <2>3
<1>3. PICK n \in Nat : /\ n = Len(ns) /\ \A i \in 1..n : Declares(ns[i])
                       /\ \A c \in DeclaredClasses : \E i \in 1..n : c = ns[i]
  BY <1>2, SeqFacts DEF Declares
<1>4. PICK g : Steps(g, "order", cs, <<>>, ns)
  BY <1>2, FoldTrace
<1>5. /\ g[0] = <<>> /\ g[n] = ClassOrder(cs)
      /\ \A i \in 1..n : g[i] = Union(g[i - 1], Reverse(Chain(cs, ns[i])))
  BY <1>1, <1>3, <1>4, OrderFolded DEF Steps, Traces, Fold
<1> DEFINE Good(i) == InOrder(g[i]) /\ \A j \in 1..i : ns[j] \in ToSet(g[i])
           T == {i \in Nat : i <= n => Good(i)}
<1>6. 0 \in T
  <2>1. InOrder(<<>>)
    BY EmptyLists DEF InOrder, Ordered, ClosedUp
  <2> QED
    BY <1>5, <2>1
<1>7. ASSUME NEW i \in T PROVE i + 1 \in T
  <2>1. SUFFICES ASSUME i + 1 <= n PROVE Good(i + 1)
    OBVIOUS
  <2>2. Good(i) /\ i + 1 \in 1..n /\ (i + 1) - 1 = i
    BY <1>3, <2>1
  <2>3. PICK s, t : s = g[i] /\ t = Reverse(Chain(cs, ns[i + 1]))
    OBVIOUS
  <2>4. g[i + 1] = Union(s, t) /\ InOrder(s) /\ InOrder(t) /\ ns[i + 1] \in ToSet(t)
    BY <1>3, <1>5, <2>2, <2>3, ChainInOrder
  <2>5. InOrder(Union(s, t)) /\ ToSet(Union(s, t)) = ToSet(s) \cup ToSet(t)
    BY <2>4, UnionInOrder
  <2>6. \A j \in 1..(i + 1) : j \in 1..i \/ j = i + 1
    BY <2>2
  <2> QED
    BY <2>2, <2>3, <2>4, <2>5, <2>6
<1>8. n \in T
  <2> HIDE DEF T
  <2>1. T \subseteq Nat
    BY DEF T
  <2> QED
    BY <1>6, <1>7, <2>1, Induct
<1>9. InOrder(g[n]) /\ \A j \in 1..n : ns[j] \in ToSet(g[n])
  BY <1>8
<1>10. DeclaredClasses \subseteq ToSet(g[n])
  BY <1>3, <1>9
<1>11. ToSet(g[n]) \subseteq DeclaredClasses
  BY <1>9 DEF InOrder, ClosedUp, Declares
<1> QED
  BY <1>5, <1>9, <1>10, <1>11

(***************************************************************************)
(* The numbers                                                             *)
(***************************************************************************)
\* Every number below the number of classes is that of one class, and that
\* of a superclass is smaller.
Numbered(cs) ==
  /\ IsSeq(cs) /\ Distinct(cs)
  /\ \A i \in 1..Len(cs) : cs[i].id \in 0..(Len(cs) - 1)
  /\ \A i, j \in 1..Len(cs) : cs[i].id = cs[j].id => i = j
  /\ \A k \in 0..(Len(cs) - 1) : \E i \in 1..Len(cs) : cs[i].id = k
  /\ \A i, j \in 1..Len(cs) : cs[j].name = cs[i].superclass => cs[j].id < cs[i].id

\* A sequence that names every member of a set once has as many elements.
LEMMA Counted ==
  ASSUME NEW s, IsSeq(s), NEW S, S = ToSet(s),
         \A i, j \in 1..Len(s) : s[i] = s[j] => i = j
  PROVE  Cardinality(S) = Len(s)
<1>1. PICK n \in Nat : n = Len(s) /\ DOMAIN s = 1..n
  BY SeqFacts
<1>2. s \in [1..n -> S]
  BY <1>1 DEF IsSeq
<1>3. s \in Bijection(1..n, S)
  <2>1. \A x \in S : \E i \in 1..n : s[i] = x
    BY <1>1, SeqFacts
  <2> QED
    BY <1>1, <1>2, <2>1 DEF Bijection, Injection, Surjection, IsInjective
<1>4. ExistsBijection(1..n, S)
  BY <1>3 DEF ExistsBijection
<1> QED
  BY <1>1, <1>4, FS_CountingElements

\* There are as many classes as names.
LEMMA TreeCount ==
  ASSUME NEW cs, Tree(cs)
  PROVE  Cardinality(DeclaredClasses) = Len(cs) /\ Len(cs) \in Nat
<1>1. PICK n \in Nat : n = Len(cs) /\ DOMAIN cs = 1..n
  BY SeqFacts DEF Tree
<1>2. PICK names : names = [i \in 1..n |-> cs[i].name]
  OBVIOUS
<1>3. names = [i \in 1..n |-> names[i]]
  BY <1>2
<1>4. IsSeq(names) /\ Len(names) = n
  BY <1>3, Positions
<1>5. ToSet(names) = DeclaredClasses
  BY <1>1, <1>2 DEF ToSet, Tree, Keys
<1>6. \A i, j \in 1..n : names[i] = names[j] => i = j
  BY <1>1, <1>2 DEF Tree, Distinct
<1> QED
  BY <1>1, <1>4, <1>5, <1>6, Counted

\* Without a circle no class is its own superclass.
LEMMA NoSelf ==
  ASSUME NEW cs, Tree(cs), ~HasCycle(cs), NEW n, Declares(n)
  PROVE  Superclass(n) # n
<1>1. SUFFICES ASSUME Superclass(n) = n PROVE FALSE
  OBVIOUS
<1>2. PICK s : s = Chain(cs, n)
  OBVIOUS
<1>3. Climb(s, n)
  BY <1>2, ChainClimbs
<1>4. PICK k \in Nat : k = Len(s) /\ k # 0 /\ Last(s) = s[k] /\ s[1] = n
  BY <1>3, SeqFacts DEF Climb, Last
<1>5. Len(s) <= Len(cs)
  <2>1. ~(Len(s) > Len(cs))
    BY <1>2 DEF HasCycle, Tree, Declares
  <2> QED
    BY <1>4, <2>1, SeqFacts DEF Tree
<1>6. ~Declares(Superclass(Last(s)))
  BY <1>2, <1>5, ChainClimbs
<1>7. CASE k = 1
  BY <1>1, <1>4, <1>6, <1>7
<1>8. CASE k # 1
  <2>1. 1 \in 1..(k - 1) /\ 1 \in 1..k /\ 2 \in 1..k /\ 1 < 2 /\ 1 + 1 = 2
    BY <1>4, <1>8
  <2>2. s[2] = Superclass(s[1])
    BY <1>3, <1>4, <2>1 DEF Climb
  <2>3. s[1] # s[2]
    BY <1>3, <1>4, <1>6, <2>1, ClimbDistinct
  <2> QED
    BY <1>1, <1>4, <2>2, <2>3
<1> QED
  BY <1>7, <1>8

\* The place of a class in the order.
LEMMA PlaceIs ==
  ASSUME GoodProgram, NEW cs, Tree(cs), ~HasCycle(cs), NEW order, order = ClassOrder(cs)
  PROVE  /\ Len(order) = Len(cs) /\ DOMAIN order = 1..Len(cs)
         /\ \A i \in 1..Len(cs) : Declares(order[i])
         /\ \A i, j \in 1..Len(cs) : order[i] = order[j] => i = j
         /\ \A c \in DeclaredClasses :
              \E k \in 1..Len(cs) : k = (CHOOSE i \in DOMAIN order : order[i] = c) /\ order[k] = c
         /\ \A i, j \in 1..Len(cs) : order[j] = Superclass(order[i]) => j < i
<1>1. InOrder(order) /\ ToSet(order) = DeclaredClasses
  BY OrderIs
<1>2. PICK n \in Nat : /\ n = Len(order) /\ DOMAIN order = 1..n
                       /\ \A i \in 1..n : order[i] \in DeclaredClasses
                       /\ \A c \in DeclaredClasses : \E i \in 1..n : c = order[i]
  BY <1>1, SeqFacts DEF InOrder
<1>3. \A i, j \in 1..n : i < j => order[i] # order[j] /\ Superclass(order[i]) # order[j]
  <2>1. \A i, j \in 1..n : i < j => <<order[i], order[j]>> \in Placed
    BY <1>1, <1>2 DEF InOrder, Ordered
  <2>2. \A a, b : <<a, b>> \in Placed => a # b /\ Superclass(a) # b
    BY DEF Placed
  <2> QED
    BY <2>1, <2>2
<1>4. \A i, j \in 1..n : order[i] = order[j] => i = j
  <2>1. ASSUME NEW i \in 1..n, NEW j \in 1..n, order[i] = order[j] PROVE i = j
    <3>1. ~(i < j) /\ ~(j < i)
      BY <1>3, <2>1
    <3> QED
      BY <3>1
  <2> QED
    BY <2>1
<1>5. n = Len(cs)
  BY <1>1, <1>2, <1>4, Counted, TreeCount DEF InOrder
<1>6. \A c \in DeclaredClasses :
        \E k \in 1..n : k = (CHOOSE i \in DOMAIN order : order[i] = c) /\ order[k] = c
  BY <1>2
<1>7. ASSUME NEW i \in 1..n, NEW j \in 1..n, order[j] = Superclass(order[i]) PROVE j < i
  <2>1. ~(i < j)
    BY <1>3, <1>7
  <2>2. i # j
    BY <1>2, <1>7, NoSelf DEF Declares
  <2> QED
    BY <2>1, <2>2
<1> QED
  BY <1>2, <1>4, <1>5, <1>6, <1>7 DEF Declares

\* The numbers are 0, 1, ... with superclasses first (AssignClassIds).
LEMMA AssignNumbers ==
  ASSUME GoodProgram, NEW m, "classes" \in DOMAIN m, Tree(m.classes), ~HasCycle(m.classes)
  PROVE  /\ DOMAIN AssignClassIds(m) = DOMAIN m
         /\ Alike(AssignClassIds(m).classes, m.classes)
         /\ Numbered(AssignClassIds(m).classes)
<1>1. PICK cs, n : /\ cs = m.classes /\ n = Len(cs) /\ n \in Nat /\ DOMAIN cs = 1..n
                   /\ Tree(cs) /\ ~HasCycle(cs) /\ \A i \in 1..n : TreeClass(cs[i])
  BY SeqFacts DEF Tree
<1>2. PICK z, ds : z = AssignClassIds(m) /\ ds = z.classes
  OBVIOUS
<1>3. PICK order : order = ClassOrder(cs)
  OBVIOUS
<1>4. PICK place : place = [c \in DeclaredClasses |-> CHOOSE i \in DOMAIN order : order[i] = c]
  OBVIOUS
<1>5. /\ \A i \in 1..n : order[i] \in DeclaredClasses
      /\ \A i, j \in 1..n : order[i] = order[j] => i = j
      /\ \A c \in DeclaredClasses : place[c] \in 1..n /\ order[place[c]] = c
      /\ \A i, j \in 1..n : order[j] = Superclass(order[i]) => j < i
  BY <1>1, <1>3, <1>4, PlaceIs DEF Declares
<1>6. \A i \in 1..n : cs[i].name \in DeclaredClasses
  BY <1>1 DEF Tree, Keys
<1>7. DOMAIN z = DOMAIN m /\ DOMAIN ds = 1..n /\ ds = [i \in 1..n |-> ds[i]]
  BY <1>1, <1>2 DEF AssignClassIds
<1>8. \A i \in 1..n : ds[i] = [cs[i] EXCEPT !.id = place[cs[i].name] - 1]
  <2>1. ds = [i \in DOMAIN cs |->
                [cs[i] EXCEPT !.id = (CHOOSE j \in DOMAIN order : order[j] = cs[i].name) - 1]]
    BY <1>1, <1>2, <1>3 DEF AssignClassIds
  <2>2. \A i \in 1..n : place[cs[i].name] = CHOOSE j \in DOMAIN order : order[j] = cs[i].name
    BY <1>4, <1>6
  <2> QED
    BY <1>1, <2>1, <2>2
<1>9. ASSUME NEW i \in 1..n
      PROVE  /\ AlikeClass(ds[i], cs[i]) /\ ds[i].name = cs[i].name
             /\ ds[i].superclass = Superclass(cs[i].name)
             /\ ds[i].id = place[cs[i].name] - 1
  <2>1. PICK c, d : c = cs[i] /\ d = ds[i] /\ d = [c EXCEPT !.id = place[c.name] - 1]
    BY <1>8
  <2>2. /\ Fields \subseteq DOMAIN c /\ Shaped(c.methods) /\ IsSeq(c.properties)
        /\ c.superclass = Superclass(c.name)
    BY <1>1, <2>1 DEF TreeClass
  <2>3. /\ DOMAIN d = DOMAIN c /\ d.name = c.name /\ d.superclass = c.superclass
        /\ d.methods = c.methods /\ d.properties = c.properties /\ d.id = place[c.name] - 1
    BY <2>1, <2>2 DEF Fields
  <2> QED
    BY <2>1, <2>2, <2>3 DEF AlikeClass
<1>10. IsSeq(ds) /\ Len(ds) = n
  BY <1>1, <1>7, Positions
<1>11. Alike(ds, cs)
  BY <1>1, <1>9, <1>10 DEF Alike
<1>12. Distinct(ds)
  BY <1>1, <1>11, AlikeTree DEF Tree
<1>13. \A i \in 1..n : ds[i].id \in 0..(n - 1)
  <2>1. ASSUME NEW i \in 1..n PROVE ds[i].id \in 0..(n - 1)
    <3>1. PICK k \in 1..n : k = place[cs[i].name] /\ ds[i].id = k - 1
      BY <1>5, <1>6, <1>9
    <3> QED
      BY <1>1, <3>1
  <2> QED
    BY <2>1
<1>14. ASSUME NEW i \in 1..n, NEW j \in 1..n, ds[i].id = ds[j].id PROVE i = j
  <2>1. PICK k \in 1..n, l \in 1..n :
          /\ k = place[cs[i].name] /\ ds[i].id = k - 1 /\ order[k] = cs[i].name
          /\ l = place[cs[j].name] /\ ds[j].id = l - 1 /\ order[l] = cs[j].name
    BY <1>5, <1>6, <1>9
  <2>2. k = l
    <3>1. k - 1 = l - 1
      BY <1>14, <2>1
    <3>2. k \in Nat /\ l \in Nat
      BY <1>1
    <3> QED
      BY <3>1, <3>2
  <2>3. cs[i].name = cs[j].name
    BY <2>1, <2>2
  <2> QED
    BY <1>1, <2>3 DEF Tree, Distinct
<1>15. ASSUME NEW k \in 0..(n - 1) PROVE \E i \in 1..n : ds[i].id = k
  <2>1. k + 1 \in 1..n /\ (k + 1) - 1 = k
    BY <1>1
  <2>2. order[k + 1] \in Keys(cs)
    BY <1>1, <1>5, <2>1 DEF Tree
  <2>3. PICK i \in 1..n : cs[i].name = order[k + 1]
    BY <1>1, <2>2 DEF Keys
  <2>4. place[cs[i].name] = k + 1
    BY <1>5, <1>6, <2>1, <2>3
  <2> QED
    BY <1>9, <2>1, <2>4
<1>16. ASSUME NEW i \in 1..n, NEW j \in 1..n, ds[j].name = ds[i].superclass
       PROVE  ds[j].id < ds[i].id
  <2>1. PICK k \in 1..n, l \in 1..n :
          /\ k = place[cs[i].name] /\ ds[i].id = k - 1 /\ order[k] = cs[i].name
          /\ l = place[cs[j].name] /\ ds[j].id = l - 1 /\ order[l] = cs[j].name
    BY <1>5, <1>6, <1>9
  <2>2. order[l] = Superclass(order[k])
    BY <1>9, <1>16, <2>1
  <2>3. l < k
    BY <1>5, <2>2
  <2> QED
    BY <2>1, <2>3
<1>17. Numbered(ds)
  BY <1>10, <1>12, <1>13, <1>14, <1>15, <1>16 DEF Numbered
<1> QED
  BY <1>1, <1>2, <1>7, <1>11, <1>17

\* Passes that leave the names, the superclasses and the numbers.
SameNumbers(ds, cs) ==
  /\ IsSeq(ds) /\ Len(ds) = Len(cs)
  /\ \A i \in 1..Len(cs) : /\ ds[i].name = cs[i].name /\ ds[i].id = cs[i].id
                           /\ ds[i].superclass = cs[i].superclass

\* The numbers stay right while names, superclasses and numbers do.
LEMMA StillNumbered ==
  ASSUME NEW cs, Numbered(cs), NEW ds, SameNumbers(ds, cs)
  PROVE  Numbered(ds)
<1>1. PICK n : n = Len(cs) /\ n = Len(ds)
  BY DEF SameNumbers
<1>2. /\ IsSeq(ds)
      /\ \A i \in 1..n : /\ ds[i].name = cs[i].name /\ ds[i].id = cs[i].id
                         /\ ds[i].superclass = cs[i].superclass
  BY <1>1 DEF SameNumbers
<1>3. Distinct(ds)
  BY <1>1, <1>2 DEF Numbered, Distinct
<1>4. /\ \A i \in 1..n : ds[i].id \in 0..(n - 1)
      /\ \A i, j \in 1..n : ds[i].id = ds[j].id => i = j
  BY <1>1, <1>2 DEF Numbered
<1>5. \A k \in 0..(n - 1) : \E i \in 1..n : ds[i].id = k
  <2>1. ASSUME NEW k \in 0..(n - 1) PROVE \E i \in 1..n : ds[i].id = k
    <3>1. PICK i \in 1..n : cs[i].id = k
      BY <1>1 DEF Numbered
    <3> QED
      BY <1>2, <3>1
  <2> QED
    BY <2>1
<1>6. ASSUME NEW i \in 1..n, NEW j \in 1..n, ds[j].name = ds[i].superclass
      PROVE  ds[j].id < ds[i].id
  <2>1. cs[j].name = cs[i].superclass
    BY <1>2, <1>6
  <2>2. cs[j].id < cs[i].id
    BY <1>1, <2>1 DEF Numbered
  <2> QED
    BY <1>2, <2>2
<1> QED
  BY <1>1, <1>2, <1>3, <1>4, <1>5, <1>6 DEF Numbered

\* _compute_base_depths
LEMMA DepthsAlike ==
  ASSUME NEW m, "classes" \in DOMAIN m, Tree(m.classes)
  PROVE  /\ DOMAIN ComputeBaseDepths(m) = DOMAIN m
         /\ Alike(ComputeBaseDepths(m).classes, m.classes)
         /\ SameNumbers(ComputeBaseDepths(m).classes, m.classes)
<1>1. PICK cs, n : /\ cs = m.classes /\ n = Len(cs) /\ n \in Nat /\ DOMAIN cs = 1..n
                   /\ \A i \in 1..n : TreeClass(cs[i])
  BY SeqFacts DEF Tree
<1>2. PICK z, ds : z = ComputeBaseDepths(m) /\ ds = z.classes
  OBVIOUS
<1>3. /\ DOMAIN z = DOMAIN m
      /\ ds = [i \in 1..n |-> [cs[i] EXCEPT !.depth = Len(Chain(cs, cs[i].name)) - 1]]
  BY <1>1, <1>2 DEF ComputeBaseDepths
<1>4. IsSeq(ds) /\ Len(ds) = n
  <2>1. ds = [i \in 1..n |-> ds[i]]
    BY <1>3
  <2> QED
    BY <1>1, <2>1, Positions
<1>5. ASSUME NEW i \in 1..n PROVE AlikeClass(ds[i], cs[i]) /\ ds[i].id = cs[i].id
  <2>1. PICK c, d, x : c = cs[i] /\ d = ds[i] /\ d = [c EXCEPT !.depth = x] /\ TreeClass(c)
    BY <1>1, <1>3
  <2>2. /\ DOMAIN d = DOMAIN c /\ d.name = c.name /\ d.superclass = c.superclass
        /\ d.methods = c.methods /\ d.properties = c.properties /\ d.id = c.id
    BY <2>1 DEF TreeClass, Fields
  <2> QED
    BY <2>1, <2>2 DEF AlikeClass, TreeClass
<1> QED
  BY <1>1, <1>2, <1>3, <1>4, <1>5 DEF Alike, SameNumbers, AlikeClass

\* _classify_dispatch
LEMMA ClassifiedMethods ==
  ASSUME NEW m, NEW c, Fields \subseteq DOMAIN c, Shaped(c.methods)
  PROVE  /\ DOMAIN ClassifyMethods(m, c) = DOMAIN c /\ ClassifyMethods(m, c).name = c.name
         /\ ClassifyMethods(m, c).superclass = c.superclass
         /\ ClassifyMethods(m, c).properties = c.properties
         /\ ClassifyMethods(m, c).id = c.id
         /\ Shaped(ClassifyMethods(m, c).methods)
         /\ Starts(ClassifyMethods(m, c).methods) <=> Starts(c.methods)
<1>1. PICK ms, n : /\ ms = c.methods /\ n = Len(ms) /\ n \in Nat /\ DOMAIN ms = 1..n
                   /\ \A j \in 1..n : ms[j] \in ToSet(ms)
                   /\ \A x \in ToSet(ms) : \E j \in 1..n : x = ms[j]
  BY SeqFacts DEF Shaped
<1>2. PICK d, new : d = ClassifyMethods(m, c) /\ new = d.methods
  OBVIOUS
<1>3. /\ DOMAIN d = DOMAIN c /\ d.name = c.name /\ d.superclass = c.superclass
      /\ d.properties = c.properties /\ d.id = c.id
      /\ new = [j \in 1..n |-> Classified(m, ms[j])]
  BY <1>1, <1>2 DEF ClassifyMethods, Fields
<1>4. IsSeq(new) /\ Len(new) = n
  <2>1. new = [j \in 1..n |-> new[j]]
    BY <1>3
  <2> QED
    BY <1>1, <2>1, Positions
<1>5. ASSUME NEW j \in 1..n
      PROVE  /\ {"sel", "plus"} \subseteq DOMAIN new[j]
             /\ new[j].sel = ms[j].sel /\ new[j].plus = ms[j].plus
  <2>1. PICK x : x = ms[j] /\ {"sel", "plus"} \subseteq DOMAIN x /\ new[j] = Classified(m, x)
    BY <1>1, <1>3 DEF Shaped
  <2>2. new[j] = x \/ new[j] = [x EXCEPT !.dispatch = "protocol"]
    BY <2>1 DEF Classified
  <2> QED
    BY <2>1, <2>2
<1>6. /\ \A j \in 1..n : new[j] \in ToSet(new)
      /\ \A x \in ToSet(new) : \E j \in 1..n : x = new[j]
  BY <1>4, SeqFacts
<1>7. Shaped(new)
  BY <1>4, <1>5, <1>6 DEF Shaped
<1>8. Starts(new) <=> Starts(ms)
  <2>1. ASSUME Starts(new) PROVE Starts(ms)
    <3>1. PICK j \in 1..n : new[j].plus /\ new[j].sel = Started
      BY <1>6, <2>1 DEF Starts
    <3> QED
      BY <1>1, <1>5, <3>1 DEF Starts
  <2>2. ASSUME Starts(ms) PROVE Starts(new)
    <3>1. PICK j \in 1..n : ms[j].plus /\ ms[j].sel = Started
      BY <1>1, <2>2 DEF Starts
    <3> QED
      BY <1>5, <1>6, <3>1 DEF Starts
  <2> QED
    BY <2>1, <2>2
<1> QED
  BY <1>1, <1>2, <1>3, <1>7, <1>8

\* Classification only changes how methods are dispatched (ClassifyDispatch).
LEMMA ClassifyAlike ==
  ASSUME NEW m, "classes" \in DOMAIN m, Tree(m.classes)
  PROVE  /\ DOMAIN ClassifyDispatch(m) = DOMAIN m
         /\ Alike(ClassifyDispatch(m).classes, m.classes)
         /\ SameNumbers(ClassifyDispatch(m).classes, m.classes)
<1>1. PICK cs, n : /\ cs = m.classes /\ n = Len(cs) /\ n \in Nat /\ DOMAIN cs = 1..n
                   /\ \A i \in 1..n : TreeClass(cs[i])
  BY SeqFacts DEF Tree
<1>2. PICK z, ds : z = ClassifyDispatch(m) /\ ds = z.classes
  OBVIOUS
<1>3. DOMAIN z = DOMAIN m /\ ds = [i \in 1..n |-> ClassifyMethods(m, cs[i])]
  BY <1>1, <1>2 DEF ClassifyDispatch
<1>4. IsSeq(ds) /\ Len(ds) = n
  <2>1. ds = [i \in 1..n |-> ds[i]]
    BY <1>3
  <2> QED
    BY <1>1, <2>1, Positions
<1>5. ASSUME NEW i \in 1..n PROVE AlikeClass(ds[i], cs[i]) /\ ds[i].id = cs[i].id
  <2>1. PICK c : c = cs[i] /\ ds[i] = ClassifyMethods(m, c) /\ TreeClass(c)
    BY <1>1, <1>3
  <2>2. Fields \subseteq DOMAIN c /\ Shaped(c.methods) /\ IsSeq(c.properties)
    BY <2>1 DEF TreeClass
  <2> QED
    BY <2>1, <2>2, ClassifiedMethods DEF AlikeClass
<1> QED
  BY <1>1, <1>2, <1>3, <1>4, <1>5 DEF Alike, SameNumbers, AlikeClass

\* OZSpinLock comes after all other classes.
LEMMA InjectNumbers ==
  ASSUME GoodProgram, NEW m, "classes" \in DOMAIN m, Tree(m.classes), Numbered(m.classes)
  PROVE  /\ DOMAIN InjectSpinLock(m) = DOMAIN m /\ Numbered(InjectSpinLock(m).classes)
         /\ \A i \in 1..Len(InjectSpinLock(m).classes) :
              Fields \subseteq DOMAIN InjectSpinLock(m).classes[i]
<1>1. PICK cs, n : /\ cs = m.classes /\ n = Len(cs) /\ n \in Nat /\ DOMAIN cs = 1..n
                   /\ Tree(cs) /\ Numbered(cs) /\ \A i \in 1..n : TreeClass(cs[i])
  BY SeqFacts DEF Tree
<1>2. CASE InjectSpinLock(m) = m
  BY <1>1, <1>2 DEF TreeClass
<1>3. PICK x : x = [OZClass("OZSpinLock") EXCEPT !.superclass = Root, !.id = n, !.depth = 1,
                                                 !.foundation = TRUE]
  OBVIOUS
<1>4. CASE ~Known(cs, "OZSpinLock") /\ InjectSpinLock(m) = [m EXCEPT !.classes = Append(@, x)]
  <2>1. PICK z, ds : z = InjectSpinLock(m) /\ ds = Append(cs, x)
    OBVIOUS
  <2>2. DOMAIN z = DOMAIN m /\ z.classes = ds
    BY <1>1, <1>4, <2>1
  <2>3. x.name = "OZSpinLock" /\ x.superclass = Root /\ x.id = n /\ Fields \subseteq DOMAIN x
    BY <1>3 DEF OZClass, Fields
  <2>4. /\ IsSeq(ds) /\ Len(ds) = n + 1 /\ ds[n + 1] = x
        /\ \A i \in 1..n : ds[i] = cs[i]
        /\ \A i \in 1..(n + 1) : i \in 1..n \/ i = n + 1
    <3>1. IsSeq(cs)
      BY <1>1 DEF Tree
    <3> QED
      BY <1>1, <2>1, <3>1, Appended
  <2>5. \A i \in 1..n : cs[i].name # "OZSpinLock"
    BY <1>1, <1>4 DEF Known, Keys
  <2>6. \A i \in 1..n : cs[i].superclass # "OZSpinLock"
    <3>1. ASSUME NEW i \in 1..n, cs[i].superclass = "OZSpinLock" PROVE FALSE
      <4>1. PICK c : c = cs[i].name /\ Superclass(c) = "OZSpinLock"
        BY <1>1, <3>1 DEF TreeClass
      <4>2. PICK d \in Decls({"interface"}) : d.name = c /\ d.superclass = "OZSpinLock"
        BY <4>1, SuperKnown, NameAssumption
      <4>3. d \in Decls(HeadKinds)
        BY <4>2 DEF Decls, HeadKinds
      <4>4. "OZSpinLock" \in DeclaredClasses
        BY <4>2, <4>3 DEF GoodProgram, Declared
      <4> QED
        BY <1>1, <1>4, <4>4 DEF Known, Tree
    <3> QED
      BY <3>1
  <2>7. Distinct(ds)
    BY <1>1, <2>3, <2>4, <2>5 DEF Distinct, Numbered
  <2>8. \A i \in 1..n : cs[i].id \in 0..(n - 1)
    BY <1>1 DEF Numbered
  <2>9. \A i \in 1..(n + 1) : ds[i].id \in 0..((n + 1) - 1)
    <3>1. \A k \in 0..(n - 1) : k \in 0..((n + 1) - 1)
      BY <1>1
    <3>2. n \in 0..((n + 1) - 1)
      BY <1>1
    <3> QED
      BY <2>3, <2>4, <2>8, <3>1, <3>2
  <2>10. \A i \in 1..n : cs[i].id < n
    BY <1>1, <2>8
  <2>11. \A i, j \in 1..(n + 1) : ds[i].id = ds[j].id => i = j
    <3>1. \A i, j \in 1..n : cs[i].id = cs[j].id => i = j
      BY <1>1 DEF Numbered
    <3>2. \A i \in 1..n : cs[i].id # n
      BY <1>1, <2>8
    <3> QED
      BY <2>3, <2>4, <3>1, <3>2
  <2>12. \A k \in 0..((n + 1) - 1) : \E i \in 1..(n + 1) : ds[i].id = k
    <3>1. ASSUME NEW k \in 0..((n + 1) - 1) PROVE \E i \in 1..(n + 1) : ds[i].id = k
      <4>1. CASE k = n
        <5>1. n + 1 \in 1..(n + 1)
          BY <1>1
        <5> QED
          BY <2>3, <2>4, <4>1, <5>1
      <4>2. CASE k # n
        <5>1. k \in 0..(n - 1)
          BY <1>1, <4>2
        <5>2. PICK i \in 1..n : cs[i].id = k
          BY <1>1, <5>1 DEF Numbered
        <5>3. i \in 1..(n + 1)
          BY <1>1
        <5> QED
          BY <2>4, <5>2, <5>3
      <4> QED
        BY <4>1, <4>2
    <3> QED
      BY <3>1
  <2>13. ASSUME NEW i \in 1..(n + 1), NEW j \in 1..(n + 1), ds[j].name = ds[i].superclass
         PROVE  ds[j].id < ds[i].id
    <3>1. j \in 1..n
      BY <2>3, <2>4, <2>6, <2>13, NameAssumption
    <3>2. CASE i \in 1..n
      BY <1>1, <2>4, <2>13, <3>1, <3>2 DEF Numbered
    <3>3. CASE i = n + 1
      BY <2>3, <2>4, <2>10, <3>1, <3>3
    <3> QED
      BY <2>4, <3>2, <3>3
  <2>14. Numbered(ds)
    BY <2>4, <2>7, <2>9, <2>11, <2>12, <2>13 DEF Numbered
  <2>15. \A i \in 1..(n + 1) : Fields \subseteq DOMAIN ds[i]
    BY <1>1, <2>3, <2>4 DEF TreeClass
  <2> QED
    BY <2>1, <2>2, <2>4, <2>14, <2>15
<1> QED
  BY <1>1, <1>2, <1>3, <1>4 DEF InjectSpinLock

\* _ensure_foundation_tags
LEMMA FoundationNumbers ==
  ASSUME NEW m, "classes" \in DOMAIN m, Numbered(m.classes),
         \A i \in 1..Len(m.classes) : Fields \subseteq DOMAIN m.classes[i]
  PROVE  /\ DOMAIN EnsureFoundationTags(m) = DOMAIN m
         /\ Numbered(EnsureFoundationTags(m).classes)
<1>1. PICK cs, n : /\ cs = m.classes /\ n = Len(cs) /\ n \in Nat /\ DOMAIN cs = 1..n
                   /\ Numbered(cs)
  BY SeqFacts DEF Numbered
<1>2. PICK z, ds : z = EnsureFoundationTags(m) /\ ds = z.classes
  OBVIOUS
<1>3. DOMAIN z = DOMAIN m /\ ds = [i \in 1..n |-> TagFoundation(cs[i])]
  BY <1>1, <1>2 DEF EnsureFoundationTags
<1>4. IsSeq(ds) /\ Len(ds) = n
  <2>1. ds = [i \in 1..n |-> ds[i]]
    BY <1>3
  <2> QED
    BY <1>1, <2>1, Positions
<1>5. ASSUME NEW i \in 1..n
      PROVE  /\ ds[i].name = cs[i].name /\ ds[i].id = cs[i].id
             /\ ds[i].superclass = cs[i].superclass
  BY <1>1, <1>3 DEF TagFoundation, Fields
<1>6. SameNumbers(ds, cs)
  BY <1>1, <1>4, <1>5 DEF SameNumbers
<1> QED
  BY <1>1, <1>2, <1>3, <1>6, StillNumbered

(***************************************************************************)
(* The order of the +initialize methods                                    *)
(***************************************************************************)
\* What _collect_initialize_classes sorts by.
LEMMA ByIdIs ==
  ASSUME NEW cs, Numbered(cs)
  PROVE  /\ IsSeq(ById(cs)) /\ Len(ById(cs)) = Len(cs) /\ ToSet(ById(cs)) = ToSet(cs)
         /\ \A i, j \in 1..Len(cs) : i < j => ById(cs)[i].id < ById(cs)[j].id
<1>1. PICK n \in Nat : n = Len(cs) /\ DOMAIN cs = 1..n /\ IsSeq(cs)
  BY SeqFacts DEF Numbered
<1>2. /\ \A i \in 1..n : cs[i].id \in 0..(n - 1)
      /\ \A i, j \in 1..n : cs[i].id = cs[j].id => i = j
      /\ \A k \in 0..(n - 1) : \E i \in 1..n : cs[i].id = k
  BY <1>1 DEF Numbered
<1> DEFINE Sorts(p) == p \in Bijection(1..n, 1..n)
                       /\ \A i, j \in 1..n : i < j => cs[p[i]].id <= cs[p[j]].id
<1>3. \E p : Sorts(p)
  <2>1. PICK q : q = [k \in 1..n |-> CHOOSE i \in 1..n : cs[i].id = k - 1]
    OBVIOUS
  <2>2. ASSUME NEW k \in 1..n PROVE q[k] \in 1..n /\ cs[q[k]].id = k - 1
    <3>1. k - 1 \in 0..(n - 1)
      OBVIOUS
    <3>2. \E i \in 1..n : cs[i].id = k - 1
      BY <1>2, <3>1
    <3> QED
      BY <2>1, <3>2
  <2>3. q \in [1..n -> 1..n]
    BY <2>1, <2>2
  <2>4. ASSUME NEW a \in 1..n, NEW b \in 1..n, q[a] = q[b] PROVE a = b
    <3>1. a - 1 = b - 1
      BY <2>2, <2>4
    <3> QED
      BY <3>1
  <2>5. ASSUME NEW i \in 1..n PROVE \E k \in 1..n : q[k] = i
    <3>1. PICK k \in 1..n : cs[i].id = k - 1
      <4>1. PICK x \in 0..(n - 1) : x = cs[i].id
        BY <1>2
      <4>2. x + 1 \in 1..n /\ (x + 1) - 1 = x
        OBVIOUS
      <4> QED
        BY <4>1, <4>2
    <3>2. q[k] = i
      BY <1>2, <2>2, <3>1
    <3> QED
      BY <3>2
  <2>6. q \in Bijection(1..n, 1..n)
    BY <2>3, <2>4, <2>5 DEF Bijection, Injection, Surjection, IsInjective
  <2>7. ASSUME NEW i \in 1..n, NEW j \in 1..n, i < j PROVE cs[q[i]].id <= cs[q[j]].id
    <3>1. cs[q[i]].id = i - 1 /\ cs[q[j]].id = j - 1
      BY <2>2
    <3>2. i - 1 <= j - 1
      BY <2>7
    <3> QED
      BY <3>1, <3>2
  <2> QED
    BY <2>6, <2>7
<1>4. PICK p : p = CHOOSE q \in Bijection(DOMAIN cs, DOMAIN cs) :
                     \A i, j \in DOMAIN cs : i < j => cs[q[i]].id <= cs[q[j]].id
  OBVIOUS
<1>5. Sorts(p)
  BY <1>1, <1>3, <1>4
<1>6. PICK s : s = ById(cs) /\ s = [i \in 1..n |-> cs[p[i]]]
  <2>1. ById(cs) = [i \in DOMAIN cs |-> cs[p[i]]]
    BY <1>4 DEF ById
  <2> QED
    BY <1>1, <2>1
<1> HIDE DEF Sorts
<1>7. /\ p \in [1..n -> 1..n] /\ \A a, b \in 1..n : p[a] = p[b] => a = b
      /\ \A i \in 1..n : \E k \in 1..n : p[k] = i
      /\ \A i, j \in 1..n : i < j => cs[p[i]].id <= cs[p[j]].id
  BY <1>5 DEF Sorts, Bijection, Injection, Surjection, IsInjective
<1>8. IsSeq(s) /\ Len(s) = n
  <2>1. s = [i \in 1..n |-> s[i]]
    BY <1>6
  <2> QED
    BY <2>1, Positions
<1>9. ToSet(s) = ToSet(cs)
  <2>1. ASSUME NEW x \in ToSet(s) PROVE x \in ToSet(cs)
    <3>1. PICK i \in 1..n : x = s[i]
      BY <1>8, SeqFacts
    <3>2. x = cs[p[i]] /\ p[i] \in 1..n
      BY <1>6, <1>7, <3>1
    <3> QED
      BY <1>1, <3>2, SeqFacts
  <2>2. ASSUME NEW x \in ToSet(cs) PROVE x \in ToSet(s)
    <3>1. PICK i \in 1..n : x = cs[i]
      BY <1>1, SeqFacts
    <3>2. PICK k \in 1..n : p[k] = i
      BY <1>7
    <3>3. x = s[k]
      BY <1>6, <3>1, <3>2
    <3> QED
      BY <1>8, <3>3, SeqFacts
  <2> QED
    BY <2>1, <2>2
<1>10. ASSUME NEW i \in 1..n, NEW j \in 1..n, i < j PROVE s[i].id < s[j].id
  <2>1. s[i] = cs[p[i]] /\ s[j] = cs[p[j]] /\ p[i] \in 1..n /\ p[j] \in 1..n
    BY <1>6, <1>7
  <2>2. cs[p[i]].id <= cs[p[j]].id
    BY <1>7, <1>10
  <2>3. cs[p[i]].id # cs[p[j]].id
    <3>1. p[i] # p[j]
      BY <1>7, <1>10
    <3> QED
      BY <1>2, <2>1, <3>1
  <2>4. cs[p[i]].id \in 0..(n - 1) /\ cs[p[j]].id \in 0..(n - 1)
    BY <1>2, <2>1
  <2> QED
    BY <2>1, <2>2, <2>3, <2>4
<1> QED
  BY <1>1, <1>6, <1>8, <1>9, <1>10

\* The classes that are called, and in which order.
StartsFirst(starts) ==
  /\ IsSeq(starts) /\ ToSet(starts) = Starting
  /\ \A i, j \in 1..Len(starts) :
       i # j => starts[i] # starts[j] /\ (starts[i] \in AncestorsOf(starts[j]) => i < j)

\* The number of an ancestor is smaller.
LEMMA AncestorNumber ==
  ASSUME NEW cs, Tree(cs), Numbered(cs), NEW i \in 1..Len(cs), NEW j \in 1..Len(cs),
         cs[i].name \in AncestorsOf(cs[j].name), i # j
  PROVE  cs[i].id < cs[j].id
<1>1. PICK n \in Nat : n = Len(cs) /\ n = Cardinality(DeclaredClasses) /\ DOMAIN cs = 1..n
  BY TreeCount, SeqFacts DEF Tree
<1>2. PICK c : c = cs[j].name
  OBVIOUS
<1>3. PICK g : AncestorSteps(g, c)
  BY <1>1, AncestorTrace
<1>4. /\ g[0] = {c} /\ g[n] = AncestorsOf(c)
      /\ \A k \in 1..n :
           g[k] = g[k - 1] \cup ({Superclass(a) : a \in g[k - 1]} \cap DeclaredClasses)
  BY <1>1, <1>3 DEF AncestorSteps
<1>5. \A k \in 1..n : cs[k].id \in Nat
  <2>1. \A k \in 1..n : cs[k].id \in 0..(n - 1)
    BY <1>1 DEF Numbered
  <2> QED
    BY <2>1
<1>6. \A a \in DeclaredClasses : \E k \in 1..n : cs[k].name = a
  BY <1>1 DEF Tree, Keys
<1>7. \A k \in 1..n : cs[k].superclass = Superclass(cs[k].name)
  BY <1>1 DEF Tree, TreeClass
<1> DEFINE Below(a) == \E k \in 1..n : cs[k].name = a /\ (k = j \/ cs[k].id < cs[j].id)
           T == {k \in Nat : k <= n => \A a \in g[k] : Below(a)}
<1>8. 0 \in T
  BY <1>1, <1>2, <1>4
<1>9. ASSUME NEW k \in T PROVE k + 1 \in T
  <2>1. SUFFICES ASSUME k + 1 <= n, NEW a \in g[k + 1] PROVE Below(a)
    OBVIOUS
  <2>2. k + 1 \in 1..n /\ (k + 1) - 1 = k /\ \A b \in g[k] : Below(b)
    BY <1>1, <2>1
  <2>3. a \in g[k] \/ (a \in DeclaredClasses /\ \E b \in g[k] : a = Superclass(b))
    BY <1>4, <2>1, <2>2
  <2>4. ASSUME a \in DeclaredClasses, NEW b \in g[k], a = Superclass(b) PROVE Below(a)
    <3>1. PICK l \in 1..n : cs[l].name = b /\ (l = j \/ cs[l].id < cs[j].id)
      BY <2>2, <2>4
    <3>2. PICK h \in 1..n : cs[h].name = a
      BY <1>6, <2>4
    <3>3. cs[h].name = cs[l].superclass
      BY <1>7, <2>4, <3>1, <3>2
    <3>4. cs[h].id < cs[l].id
      BY <1>1, <3>3 DEF Numbered
    <3>5. cs[h].id \in Nat /\ cs[l].id \in Nat /\ cs[j].id \in Nat
      BY <1>1, <1>5
    <3>6. cs[h].id < cs[j].id
      BY <3>1, <3>4, <3>5
    <3> QED
      BY <3>2, <3>6
  <2> QED
    BY <2>2, <2>3, <2>4
<1>10. n \in T
  <2> HIDE DEF T
  <2>1. T \subseteq Nat
    BY DEF T
  <2> QED
    BY <1>8, <1>9, <2>1, Induct
<1>11. Below(cs[i].name)
  BY <1>2, <1>4, <1>10
<1>12. PICK k \in 1..n : cs[k].name = cs[i].name /\ (k = j \/ cs[k].id < cs[j].id)
  BY <1>11
<1>13. k = i
  BY <1>1, <1>12 DEF Tree, Distinct
<1> QED
  BY <1>12, <1>13

\* The +initialize methods run by number (CollectInitializeClasses).
LEMMA InitializeStarts ==
  ASSUME NEW m, "initialize" \in DOMAIN m, "classes" \in DOMAIN m,
         Tree(m.classes), Numbered(m.classes)
  PROVE  /\ DOMAIN CollectInitializeClasses(m) = DOMAIN m
         /\ CollectInitializeClasses(m).classes = m.classes
         /\ StartsFirst(CollectInitializeClasses(m).initialize)
<1>1. PICK cs, n : /\ cs = m.classes /\ n = Len(cs) /\ n \in Nat /\ DOMAIN cs = 1..n
                   /\ Tree(cs) /\ Numbered(cs) /\ IsSeq(cs)
  BY SeqFacts DEF Tree
<1>2. PICK S, own : /\ S = {c \in ToSet(cs) : Initializes(c)} /\ own = Keep(ById(cs), S)
  OBVIOUS
<1>3. PICK z, starts : /\ z = CollectInitializeClasses(m) /\ starts = z.initialize
  OBVIOUS
<1>4. /\ DOMAIN z = DOMAIN m /\ z.classes = cs
      /\ starts = [i \in DOMAIN own |-> own[i].name]
  BY <1>1, <1>2, <1>3 DEF CollectInitializeClasses
<1>5. PICK R : R = {r \in ToSet(cs) \X ToSet(cs) : r[1].id < r[2].id}
  OBVIOUS
<1>6. Ordered(ById(cs), R) /\ IsSeq(ById(cs)) /\ ToSet(ById(cs)) = ToSet(cs)
  <2>1. PICK s : s = ById(cs)
    OBVIOUS
  <2>2. IsSeq(s) /\ Len(s) = n /\ ToSet(s) = ToSet(cs)
        /\ \A i, j \in 1..n : i < j => s[i].id < s[j].id
    BY <1>1, <2>1, ByIdIs
  <2>3. \A i \in 1..n : s[i] \in ToSet(cs)
    BY <2>2, SeqFacts
  <2> QED
    BY <1>5, <2>1, <2>2, <2>3 DEF Ordered
<1>7. IsSeq(own) /\ ToSet(own) = S /\ Ordered(own, R)
  <2>1. PICK s : s = ById(cs)
    OBVIOUS
  <2>2. /\ IsSeq(Keep(s, S)) /\ ToSet(Keep(s, S)) = ToSet(s) \cap S
        /\ \A Q : Ordered(s, Q) => Ordered(Keep(s, S), Q)
    BY <1>6, <2>1, KeepFacts
  <2> QED
    BY <1>2, <1>6, <2>1, <2>2
<1>8. PICK k \in Nat : /\ k = Len(own) /\ DOMAIN own = 1..k
                       /\ \A i \in 1..k : own[i] \in S
                       /\ \A x \in S : \E i \in 1..k : x = own[i]
  BY <1>7, SeqFacts
<1>9. IsSeq(starts) /\ Len(starts) = k /\ DOMAIN starts = 1..k
      /\ \A i \in 1..k : starts[i] = own[i].name
  <2>1. starts = [i \in 1..k |-> starts[i]]
    BY <1>4, <1>8
  <2> QED
    BY <1>4, <1>8, <2>1, Positions
<1>10. \A x \in S : \E a \in 1..n : x = cs[a] /\ x.name \in Starting
  <2>1. ASSUME NEW x \in S PROVE \E a \in 1..n : x = cs[a] /\ x.name \in Starting
    <3>1. PICK a \in 1..n : x = cs[a]
      BY <1>1, <1>2, SeqFacts
    <3>2. Starts(x.methods)
      BY <1>2 DEF Initializes, Starts, Started
    <3>3. TreeClass(x)
      BY <1>1, <3>1 DEF Tree
    <3> QED
      BY <3>1, <3>2, <3>3 DEF TreeClass
  <2> QED
    BY <2>1
<1>11. ASSUME NEW c \in Starting PROVE \E i \in 1..k : starts[i] = c
  <2>1. PICK a \in 1..n : cs[a].name = c
    BY <1>1 DEF Starting, Tree, Keys
  <2>2. TreeClass(cs[a]) /\ cs[a] \in ToSet(cs)
    BY <1>1, SeqFacts DEF Tree
  <2>3. cs[a] \in S
    BY <1>2, <2>1, <2>2 DEF TreeClass, Starts, Started, Initializes
  <2> QED
    BY <1>8, <1>9, <2>1, <2>3
<1>12. ToSet(starts) = Starting
  <2>1. \A i \in 1..k : starts[i] \in Starting
    BY <1>8, <1>9, <1>10
  <2>2. \A x \in ToSet(starts) : \E i \in 1..k : x = starts[i]
    BY <1>9, SeqFacts
  <2>3. \A i \in 1..k : starts[i] \in ToSet(starts)
    BY <1>9, SeqFacts
  <2> QED
    BY <1>11, <2>1, <2>2, <2>3
<1>13. ASSUME NEW i \in 1..k, NEW j \in 1..k, i # j
       PROVE  starts[i] # starts[j] /\ (starts[i] \in AncestorsOf(starts[j]) => i < j)
  <2>1. PICK a \in 1..n, b \in 1..n : own[i] = cs[a] /\ own[j] = cs[b]
    BY <1>8, <1>10
  <2>2. starts[i] = cs[a].name /\ starts[j] = cs[b].name
    BY <1>9, <2>1
  <2>3. (i < j => cs[a].id < cs[b].id) /\ (j < i => cs[b].id < cs[a].id)
    <3>1. /\ i < j => <<own[i], own[j]>> \in R
          /\ j < i => <<own[j], own[i]>> \in R
      BY <1>7, <1>8 DEF Ordered
    <3> QED
      BY <1>5, <2>1, <3>1
  <2>4. cs[a].id \in 0..(n - 1) /\ cs[b].id \in 0..(n - 1)
    BY <1>1 DEF Numbered
  <2>5. cs[a].id # cs[b].id
    BY <1>1, <1>13, <2>3, <2>4
  <2>6. a # b
    BY <2>5
  <2>7. cs[a].name # cs[b].name
    BY <1>1, <2>6 DEF Tree, Distinct
  <2>8. ASSUME starts[i] \in AncestorsOf(starts[j]) PROVE i < j
    <3>1. cs[a].id < cs[b].id
      BY <1>1, <2>2, <2>6, <2>8, AncestorNumber
    <3> QED
      BY <1>1, <1>13, <2>3, <2>4, <3>1
  <2> QED
    BY <2>2, <2>7, <2>8
<1> QED
  BY <1>1, <1>3, <1>4, <1>9, <1>12, <1>13 DEF StartsFirst

(***************************************************************************)
(* The sources stay as they are, and so does what they say                 *)
(***************************************************************************)
LEMMA DeclsKept == ASSUME sources' = sources, NEW k PROVE Decls(k)' = Decls(k)
BY DEF Decls

LEMMA ClassesKept == ASSUME sources' = sources PROVE DeclaredClasses' = DeclaredClasses
BY DEF DeclaredClasses, Decls

LEMMA SuperKept == ASSUME sources' = sources, NEW c PROVE Superclass(c)' = Superclass(c)
BY DEF Superclass, Decls

LEMMA MethodsKept == ASSUME sources' = sources, NEW c PROVE MethodsOf(c)' = MethodsOf(c)
BY DEF MethodsOf, Decls

LEMMA AncestorsKept == ASSUME sources' = sources, NEW c PROVE AncestorsOf(c)' = AncestorsOf(c)
BY DEF AncestorsOf, DeclaredClasses, Superclass, Decls

LEMMA ProgramKept == ASSUME sources' = sources, GoodProgram PROVE GoodProgram'
<1>1. GoodProgram' <=> GoodProgram
  BY DeclsKept, ClassesKept, SuperKept, MethodsKept DEF GoodProgram, Declared, OneSign
<1> QED
  BY <1>1

LEMMA StartingKept == ASSUME sources' = sources PROVE Starting' = Starting
BY ClassesKept, MethodsKept DEF Starting

LEMMA LinksKept == ASSUME sources' = sources PROVE Links' = Links
BY SuperKept DEF Links

LEMMA SignKept == ASSUME sources' = sources PROVE Sign' = Sign
<1>1. Sign' <=> Sign
  BY ClassesKept, MethodsKept DEF Sign
<1> QED
  BY <1>1 DEF Sign

LEMMA FactsKept == ASSUME sources' = sources PROVE ProgramFacts' = ProgramFacts
BY DEF ProgramFacts

(***************************************************************************)
(* The invariant                                                           *)
(***************************************************************************)
\* The facts of the first n declarations of source s.
FirstFacts(s, n) == UNION {FactsOf(s.decls[k]) : k \in 1..n}

\* The modules of the first n sources have what the sources say.
ReadUpTo(ms, n) ==
  /\ IsSeq(ms) /\ Len(ms) = n
  /\ \A i \in 1..n : Gathered(ms[i], Links, Sign, SourceFacts(sources[i]))

\* Declaration k of source i is the next one.
Reading(i, k, m) ==
  i <= Len(sources) => /\ k <= Len(sources[i].decls) + 1
                       /\ Gathered(m, Links, Sign, FirstFacts(sources[i], k - 1))

\* The merged module, without a circle, with numbers, with the order of the
\* +initialize methods, and as it is written.
Resolving(m) ==
  ModuleFields \subseteq DOMAIN m /\ Tree(m.classes) /\ ~HasCycle(m.classes)
Counting(m) ==
  ModuleFields \subseteq DOMAIN m /\ Tree(m.classes) /\ Numbered(m.classes)
Ready(m) == Counting(m) /\ StartsFirst(m.initialize)
Written(m) ==
  ModuleFields \subseteq DOMAIN m /\ Numbered(m.classes) /\ StartsFirst(m.initialize)

Stage(p, a, ms, m, e) ==
  /\ p # "done" => e = None
  /\ p = "collect" => \E i, k \in Nat \ {0} : /\ a = <<i, k>> /\ ReadUpTo(ms, i - 1)
                                             /\ i <= Len(sources) + 1 /\ Reading(i, k, m)
  /\ p \in {"associate", "merge"} => ReadUpTo(ms, Len(sources)) /\ Len(sources) # 0
  /\ p \in {"generics", "hierarchy"} => Gathered(m, Links, Sign, ProgramFacts)
  /\ p \in {"synthesize", "duplicates", "ids"} => Resolving(m)
  /\ p \in {"depths", "dispatch", "conformance", "types", "initialize"} => Counting(m)
  /\ p = "check" => Ready(m)
  /\ p = "emitted" \/ (p = "done" /\ e = 0) => Written(m)

FrontInv == GoodProgram /\ Stage(pc, at, modules, module, exit)

\* Stage speaks of the program, which stays the same.
LEMMA StageKept ==
  ASSUME sources' = sources, GoodProgram, Stage(pc', at', modules', module', exit')
  PROVE  FrontInv'
<1>1. Links' = Links /\ Sign' = Sign /\ ProgramFacts' = ProgramFacts /\ Starting' = Starting
      /\ DeclaredClasses' = DeclaredClasses /\ GoodProgram'
  BY LinksKept, SignKept, FactsKept, StartingKept, ClassesKept, ProgramKept
<1>2. ASSUME NEW n PROVE ReadUpTo(modules', n) => ReadUpTo(modules, n)'
  BY <1>1 DEF ReadUpTo
<1>3. ASSUME NEW i, NEW k PROVE Reading(i, k, module') => Reading(i, k, module)'
  BY <1>1 DEF Reading
<1>4. Tree(module'.classes) => Tree(module.classes)'
  BY <1>1, SuperKept DEF Tree, TreeClass
<1>5. StartsFirst(module'.initialize) => StartsFirst(module.initialize)'
  BY <1>1, AncestorsKept DEF StartsFirst
<1>6. ReadUpTo(modules', Len(sources)) => ReadUpTo(modules, Len(sources))'
  BY <1>1 DEF ReadUpTo
<1> QED
  BY <1>1, <1>2, <1>3, <1>4, <1>5, <1>6 DEF FrontInv, Stage, Resolving, Counting, Ready, Written

(***************************************************************************)
(* The steps                                                               *)
(***************************************************************************)
LEMMA StartedSupported == Started \notin Unsupported /\ None # 0
BY NameAssumption DEF Started

\* Counting from 1.
LEMMA First ==
  ASSUME NEW n \in Nat
  PROVE  1 <= n + 1 /\ 1 - 1 = 0 /\ 1 \in Nat \ {0} /\ 1..0 = {} /\ (1 <= n => 1 \in 1..n)
OBVIOUS

\* Nothing is read at first.
LEMMA FirstEmpty ==
  /\ ReadUpTo(<<>>, 0) /\ 1 - 1 = 0 /\ 1 \in Nat \ {0}
  /\ \A s : FirstFacts(s, 1 - 1) = {}
<1>1. 1..0 = {} /\ 1 - 1 = 0 /\ 1 \in Nat \ {0}
  OBVIOUS
<1>2. \A i \in 1..0 : Gathered(<<>>[i], Links, Sign, SourceFacts(sources[i]))
  BY <1>1
<1>3. ReadUpTo(<<>>, 0)
  BY <1>2, EmptyLists DEF ReadUpTo
<1>4. ASSUME NEW s PROVE FirstFacts(s, 1 - 1) = {}
  <2>1. FirstFacts(s, 0) = {}
    BY <1>1, Zenon DEF FirstFacts
  <2> QED
    BY <1>1, <2>1
<1> QED
  BY <1>1, <1>3, <1>4

\* The invariant holds at first, and every action keeps it.
LEMMA FrontInit == ASSUME "one sign" \in Rules, Init PROVE FrontInv
<1>1. GoodProgram
  BY DEF Init, GoodProgram, Compiles, Follows
<1>2. IsSeq(sources) /\ Len(sources) \in Nat
  BY <1>1, DeclsAre, SeqFacts DEF GoodProgram
<1>3. 1 <= Len(sources) + 1 /\ (1 <= Len(sources) => 1 \in 1..Len(sources))
  BY <1>2, First
<1>4. Reading(1, 1, OZModule)
  <2>1. ASSUME 1 <= Len(sources) PROVE 1 <= Len(sources[1].decls) + 1
    <3>1. IsSeq(sources[1].decls)
      BY <1>1, <1>3, <2>1, DeclIs DEF GoodProgram
    <3>2. Len(sources[1].decls) \in Nat
      BY <3>1, SeqFacts
    <3> QED
      BY <3>2, First
  <2> QED
    BY <2>1, FirstEmpty, EmptyModule DEF Reading
<1>5. pc = "collect" /\ at = <<1, 1>> /\ modules = <<>> /\ module = OZModule /\ exit = None
  BY DEF Init
<1>6. \E i, k \in Nat \ {0} : /\ at = <<i, k>> /\ ReadUpTo(modules, i - 1)
                              /\ i <= Len(sources) + 1 /\ Reading(i, k, module)
  BY <1>3, <1>4, <1>5, FirstEmpty
<1> QED
  BY <1>1, <1>5, <1>6 DEF FrontInv, Stage

\* Where the reading is.
LEMMA ReadingAt ==
  ASSUME FrontInv, pc = "collect"
  PROVE  \E i, k \in Nat \ {0} :
           /\ at = <<i, k>> /\ at[1] = i /\ at[2] = k /\ ReadUpTo(modules, i - 1)
           /\ i <= Len(sources) + 1 /\ Reading(i, k, module)
<1>1. PICK i \in Nat \ {0}, k \in Nat \ {0} :
        /\ at = <<i, k>> /\ ReadUpTo(modules, i - 1)
        /\ i <= Len(sources) + 1 /\ Reading(i, k, module)
  BY DEF FrontInv, Stage
<1>2. at[1] = i /\ at[2] = k
  BY <1>1
<1> QED
  BY <1>1, <1>2

LEMMA CollectDeclStep == ASSUME FrontInv, CollectDecl PROVE FrontInv'
<1>1. PICK i \in Nat \ {0}, k \in Nat \ {0} :
        /\ at = <<i, k>> /\ at[1] = i /\ at[2] = k /\ ReadUpTo(modules, i - 1)
        /\ i <= Len(sources) + 1 /\ Reading(i, k, module)
  BY ReadingAt DEF CollectDecl
<1>2. PICK ds : ds = sources[i].decls
  OBVIOUS
<1>3. /\ i <= Len(sources) /\ k <= Len(ds) /\ module' = Collect(module, ds[k])
      /\ sources' = sources /\ modules' = modules /\ pc' = "collect" /\ exit' = None
      /\ at' = [at EXCEPT ![2] = @ + 1] /\ GoodProgram
  BY <1>1, <1>2 DEF CollectDecl, Source, FrontInv, Stage
<1>4. at' = <<i, k + 1>> /\ k + 1 \in Nat \ {0} /\ (k + 1) - 1 = k
  BY <1>1, <1>3
<1>5. IsSeq(sources) /\ Len(sources) \in Nat
  BY <1>3, DeclsAre, SeqFacts DEF GoodProgram
<1>6. i \in 1..Len(sources)
  BY <1>3, <1>5
<1>7. IsSeq(ds)
  BY <1>2, <1>3, <1>6, DeclIs DEF GoodProgram
<1>8. Len(ds) \in Nat
  BY <1>7, SeqFacts
<1>9. k \in 1..Len(ds)
  BY <1>3, <1>8
<1>10. ds[k] \in ToSet(ds)
  BY <1>7, <1>9, SeqFacts
<1>11. DeclFits(ds[k], Links, Sign)
  BY <1>2, <1>3, <1>6, <1>10, DeclsFit
<1>12. Gathered(module, Links, Sign, FirstFacts(sources[i], k - 1))
  BY <1>1, <1>3 DEF Reading
<1>13. Gathered(module', Links, Sign, FirstFacts(sources[i], k - 1) \cup FactsOf(ds[k]))
  <2>1. Gathered(Collect(module, ds[k]), Links, Sign,
                 FirstFacts(sources[i], k - 1) \cup FactsOf(ds[k]))
    BY <1>11, <1>12, StartedSupported, LinksAgree, CollectGathers
  <2> QED
    BY <1>3, <2>1
<1>14. FirstFacts(sources[i], k) = FirstFacts(sources[i], k - 1) \cup FactsOf(ds[k])
  <2>1. 1..k = (1..(k - 1)) \cup {k}
    BY <1>1
  <2> QED
    BY <1>2, <2>1 DEF FirstFacts
<1>15. Reading(i, k + 1, module')
  <2>1. k + 1 <= Len(ds) + 1
    BY <1>3, <1>8
  <2> QED
    BY <1>2, <1>4, <1>13, <1>14, <2>1 DEF Reading
<1>16. \E x, y \in Nat \ {0} : /\ at' = <<x, y>> /\ ReadUpTo(modules', x - 1)
                               /\ x <= Len(sources) + 1 /\ Reading(x, y, module')
  BY <1>1, <1>3, <1>4, <1>15
<1>17. Stage(pc', at', modules', module', exit')
  BY <1>3, <1>16 DEF Stage
<1> QED
  BY <1>3, <1>17, StageKept

\* A source that is read to its end has all its facts.
LEMMA AllFirst ==
  ASSUME NEW s, IsSeq(s.decls)
  PROVE  FirstFacts(s, Len(s.decls)) = SourceFacts(s)
<1>1. PICK ds : ds = s.decls
  OBVIOUS
<1>2. /\ \A i \in 1..Len(ds) : ds[i] \in ToSet(ds)
      /\ \A x \in ToSet(ds) : \E i \in 1..Len(ds) : x = ds[i]
  BY <1>1, SeqFacts
<1>3. FirstFacts(s, Len(s.decls)) = UNION {FactsOf(ds[k]) : k \in 1..Len(ds)}
  BY <1>1 DEF FirstFacts
<1>4. SourceFacts(s) = UNION {FactsOf(d) : d \in ToSet(ds)}
  BY <1>1 DEF SourceFacts
<1>5. {FactsOf(ds[k]) : k \in 1..Len(ds)} = {FactsOf(d) : d \in ToSet(ds)}
  BY <1>2
<1> QED
  BY <1>3, <1>4, <1>5

LEMMA EndSourceStep == ASSUME FrontInv, EndSource PROVE FrontInv'
<1>1. PICK i \in Nat \ {0}, k \in Nat \ {0} :
        /\ at = <<i, k>> /\ at[1] = i /\ at[2] = k /\ ReadUpTo(modules, i - 1)
        /\ i <= Len(sources) + 1 /\ Reading(i, k, module)
  BY ReadingAt DEF EndSource
<1>2. PICK s : s = sources[i]
  OBVIOUS
<1>3. /\ i <= Len(sources) /\ k > Len(s.decls)
      /\ modules' = Append(modules, TagSource(module, s)) /\ module' = OZModule
      /\ at' = <<i + 1, 1>> /\ pc' = IF i = Len(sources) THEN "associate" ELSE "collect"
      /\ sources' = sources /\ exit' = None /\ GoodProgram
  BY <1>1, <1>2 DEF EndSource, Source, FrontInv, Stage
<1>4. PICK n \in Nat : n = Len(sources) /\ IsSeq(sources)
  BY <1>3, DeclsAre, SeqFacts DEF GoodProgram
<1>5. i \in 1..n /\ (i + 1) - 1 = i /\ i + 1 \in Nat \ {0} /\ i + 1 <= n + 1
  <2>1. i <= n
    BY <1>3, <1>4
  <2> QED
    BY <2>1
<1>6. IsSeq(s.decls)
  BY <1>2, <1>3, <1>4, <1>5, DeclIs DEF GoodProgram
<1>7. Gathered(module, Links, Sign, SourceFacts(s))
  <2>1. PICK l \in Nat : l = Len(s.decls)
    BY <1>6, SeqFacts
  <2>2. /\ k <= l + 1 /\ k > l
        /\ Gathered(module, Links, Sign, FirstFacts(s, k - 1))
    BY <1>1, <1>2, <1>3, <2>1 DEF Reading
  <2>3. k - 1 = l
    BY <2>2
  <2> QED
    BY <1>6, <2>1, <2>2, <2>3, AllFirst
<1>8. PICK t : t = TagSource(module, s) /\ Gathered(t, Links, Sign, SourceFacts(s))
  BY <1>7, TagGathers
<1>9. ReadUpTo(modules', i)
  <2>1. IsSeq(modules) /\ Len(modules) = i - 1
        /\ \A j \in 1..(i - 1) : Gathered(modules[j], Links, Sign, SourceFacts(sources[j]))
    BY <1>1 DEF ReadUpTo
  <2>2. (i - 1) + 1 = i /\ \A j \in 1..i : j \in 1..(i - 1) \/ j = i
    BY <1>5
  <2>3. /\ IsSeq(modules') /\ Len(modules') = i /\ modules'[i] = t
        /\ \A j \in 1..(i - 1) : modules'[j] = modules[j]
    BY <1>3, <1>8, <2>1, <2>2, Appended
  <2>4. ASSUME NEW j \in 1..i
        PROVE  Gathered(modules'[j], Links, Sign, SourceFacts(sources[j]))
    BY <1>2, <1>8, <2>1, <2>2, <2>3
  <2> QED
    BY <2>3, <2>4 DEF ReadUpTo
<1>10. Reading(i + 1, 1, module')
  <2>1. ASSUME i + 1 <= n PROVE 1 <= Len(sources[i + 1].decls) + 1
    <3>1. i + 1 \in 1..n
      BY <1>5, <2>1
    <3>2. IsSeq(sources[i + 1].decls)
      BY <1>3, <1>4, <3>1, DeclIs DEF GoodProgram
    <3>3. Len(sources[i + 1].decls) \in Nat
      BY <3>2, SeqFacts
    <3> QED
      BY <3>3, First
  <2> QED
    BY <1>3, <1>4, <2>1, FirstEmpty, EmptyModule DEF Reading
<1>11. \E x, y \in Nat \ {0} : /\ at' = <<x, y>> /\ ReadUpTo(modules', x - 1)
                               /\ x <= Len(sources) + 1 /\ Reading(x, y, module')
  BY <1>3, <1>4, <1>5, <1>9, <1>10, FirstEmpty
<1>12. pc' = "associate" => ReadUpTo(modules', Len(sources)) /\ Len(sources) # 0
  <2>1. i # 0
    OBVIOUS
  <2> QED
    BY <1>3, <1>9, <2>1
<1>13. Stage(pc', at', modules', module', exit')
  BY <1>3, <1>11, <1>12 DEF Stage
<1> QED
  BY <1>3, <1>13, StageKept

LEMMA AssociateStep == ASSUME FrontInv, Associate PROVE FrontInv'
<1>1. /\ ReadUpTo(modules, Len(sources)) /\ Len(sources) # 0 /\ GoodProgram /\ exit' = None
      /\ modules' = [i \in DOMAIN modules |-> AssociateModuleItems(modules[i], sources[i])]
      /\ pc' = "merge" /\ sources' = sources
  BY DEF Associate, FrontInv, Stage
<1>2. PICK n \in Nat : n = Len(sources)
  BY <1>1, DeclsAre, SeqFacts DEF GoodProgram
<1>3. /\ IsSeq(modules) /\ Len(modules) = n /\ DOMAIN modules = 1..n
      /\ \A i \in 1..n : Gathered(modules[i], Links, Sign, SourceFacts(sources[i]))
  BY <1>1, <1>2, SeqFacts DEF ReadUpTo
<1>4. modules' = [i \in 1..n |-> modules'[i]]
  BY <1>1, <1>3
<1>5. IsSeq(modules') /\ Len(modules') = n
  BY <1>4, Positions
<1>6. ASSUME NEW i \in 1..n
      PROVE  Gathered(modules'[i], Links, Sign, SourceFacts(sources[i]))
  <2>1. modules'[i] = AssociateModuleItems(modules[i], sources[i])
    BY <1>1, <1>3
  <2>2. Gathered(AssociateModuleItems(modules[i], sources[i]), Links, Sign,
                 SourceFacts(sources[i]))
    BY <1>3, AssociateGathers
  <2> QED
    BY <2>1, <2>2
<1>7. ReadUpTo(modules', Len(sources))
  BY <1>2, <1>5, <1>6 DEF ReadUpTo
<1>8. Stage(pc', at', modules', module', exit')
  BY <1>1, <1>7 DEF Stage
<1> QED
  BY <1>1, <1>8, StageKept

LEMMA MergeStep == ASSUME FrontInv, Merge PROVE FrontInv'
<1>1. /\ ReadUpTo(modules, Len(sources)) /\ Len(sources) # 0 /\ GoodProgram /\ exit' = None
      /\ module' = MergeModules(modules) /\ pc' = "generics" /\ sources' = sources
  BY DEF Merge, Pass, FrontInv, Stage
<1>2. PICK F : F = [i \in 1..Len(sources) |-> SourceFacts(sources[i])]
  OBVIOUS
<1>3. PICK ms : ms = modules
  OBVIOUS
<1>4. PICK all : all = UNION {F[i] : i \in 1..Len(ms)}
  OBVIOUS
<1>5. /\ IsSeq(ms) /\ Len(ms) = Len(sources) /\ Len(ms) # 0
      /\ \A i \in 1..Len(ms) : Gathered(ms[i], Links, Sign, F[i])
  BY <1>1, <1>2, <1>3 DEF ReadUpTo
<1>6. Gathered(MergeModules(ms), Links, Sign, all)
  <2>1. PICK L : L = Links
    OBVIOUS
  <2>2. PICK plus : plus = Sign
    OBVIOUS
  <2>3. \A i \in 1..Len(ms) : Gathered(ms[i], L, plus, F[i])
    BY <1>5, <2>1, <2>2
  <2>4. Gathered(MergeModules(ms), L, plus, UNION {F[i] : i \in 1..Len(ms)})
    <3>1. Agreeing(L)
      BY <2>1, LinksAgree
    <3>2. AllGathered(ms, L, plus, F)
      BY <1>5, <2>3 DEF AllGathered
    <3> QED
      BY <3>1, <3>2, MergeModulesGathers
  <2> QED
    BY <1>4, <2>1, <2>2, <2>4
<1>7. all = ProgramFacts
  <2>1. {F[i] : i \in 1..Len(ms)} = {SourceFacts(sources[i]) : i \in 1..Len(sources)}
    BY <1>2, <1>5
  <2> QED
    BY <1>4, <2>1 DEF ProgramFacts
<1>8. Gathered(module', Links, Sign, ProgramFacts)
  BY <1>1, <1>3, <1>6, <1>7
<1>9. Stage(pc', at', modules', module', exit')
  BY <1>1, <1>8 DEF Stage
<1> QED
  BY <1>1, <1>9, StageKept

\* The passes that only add errors or generic types.
SameModule(z, m) ==
  /\ DOMAIN z = DOMAIN m /\ z.classes = m.classes /\ z.initialize = m.initialize

\* Passes that only report, or only add generic types, change no class.
LEMMA Reporting ==
  ASSUME NEW m, ModuleFields \subseteq DOMAIN m
  PROVE  /\ SameModule(CheckDuplicateMethods(m), m)
         /\ SameModule(CheckProtocolConformance(m), m)
         /\ SameModule(ValidateGenericTypes(m), m)
         /\ \A s : SameModule(ExtractSourceGenerics(m, s), m)
<1>1. ASSUME NEW e PROVE SameModule([m EXCEPT !.errors = e], m)
                         /\ SameModule([m EXCEPT !.generics = e], m)
  BY DEF ModuleFields, SameModule
<1>2. PICK a : CheckDuplicateMethods(m) = [m EXCEPT !.errors = a]
  BY DEF CheckDuplicateMethods
<1>3. PICK b : CheckProtocolConformance(m) = [m EXCEPT !.errors = b]
  BY DEF CheckProtocolConformance
<1>4. PICK c : ValidateGenericTypes(m) = [m EXCEPT !.errors = c]
  BY DEF ValidateGenericTypes
<1>5. ASSUME NEW s PROVE SameModule(ExtractSourceGenerics(m, s), m)
  <2>1. PICK g : ExtractSourceGenerics(m, s) = [m EXCEPT !.generics = g]
    BY DEF ExtractSourceGenerics
  <2> QED
    BY <1>1, <2>1
<1> QED
  BY <1>1, <1>2, <1>3, <1>4, <1>5

LEMMA GenericsStep == ASSUME FrontInv, Generics PROVE FrontInv'
<1>1. PICK m : m = module
  OBVIOUS
<1>2. /\ Gathered(m, Links, Sign, ProgramFacts) /\ GoodProgram /\ exit' = None
      /\ module' = ExtractSourceGenerics(m, sources) /\ pc' = "hierarchy"
      /\ sources' = sources
  BY <1>1 DEF Generics, Pass, FrontInv, Stage
<1>3. SameModule(ExtractSourceGenerics(m, sources), m)
  BY <1>2, Reporting DEF Gathered
<1>4. Gathered(module', Links, Sign, ProgramFacts)
  BY <1>2, <1>3 DEF Gathered, SameModule
<1>5. Stage(pc', at', modules', module', exit')
  BY <1>2, <1>4 DEF Stage
<1> QED
  BY <1>2, <1>5, StageKept

LEMMA ValidateHierarchyStep == ASSUME FrontInv, ValidateHierarchy PROVE FrontInv'
<1>1. /\ Gathered(module, Links, Sign, ProgramFacts) /\ GoodProgram /\ exit' = None
      /\ module' = module /\ pc' = "synthesize" /\ sources' = sources
      /\ ~HasCycle(module.classes)
  BY DEF ValidateHierarchy, Pass, FrontInv, Stage
<1>2. PICK cs : cs = module.classes
  OBVIOUS
<1>3. Fits(cs, Links, Sign) /\ AllFacts(cs) = ProgramFacts
  BY <1>1, <1>2 DEF Gathered
<1>4. Tree(cs)
  BY <1>1, <1>3, FactsAreTree
<1>5. Resolving(module')
  BY <1>1, <1>2, <1>4 DEF Resolving, Gathered
<1>6. Stage(pc', at', modules', module', exit')
  BY <1>1, <1>5 DEF Stage
<1> QED
  BY <1>1, <1>6, StageKept

\* A run that ends with exit code 1 promises nothing.
LEMMA RefusedStep ==
  ASSUME FrontInv, InheritanceCycle \/ Reject
  PROVE  FrontInv'
<1>1. GoodProgram /\ pc' = "done" /\ exit' = 1 /\ sources' = sources
  BY DEF InheritanceCycle, Reject, Finish, FrontInv
<1>2. Stage(pc', at', modules', module', exit')
  BY <1>1 DEF Stage
<1> QED
  BY <1>1, <1>2, StageKept

LEMMA SynthesizeStep == ASSUME FrontInv, Synthesize PROVE FrontInv'
<1>1. PICK m : m = module
  OBVIOUS
<1>2. /\ Resolving(m) /\ GoodProgram /\ exit' = None
      /\ module' = SynthesizeProperties(m) /\ pc' = "duplicates" /\ sources' = sources
  BY <1>1 DEF Synthesize, Pass, FrontInv, Stage
<1>3. ModuleFields \subseteq DOMAIN m /\ Tree(m.classes) /\ ~HasCycle(m.classes)
      /\ "classes" \in DOMAIN m
  BY <1>2 DEF Resolving, ModuleFields
<1>4. PICK cs, ds : cs = m.classes /\ ds = SynthesizeProperties(m).classes
  OBVIOUS
<1>5. DOMAIN SynthesizeProperties(m) = DOMAIN m /\ Alike(ds, cs)
  BY <1>3, <1>4, SynthesizeAlike
<1>6. Tree(ds) /\ Len(ds) = Len(cs)
  BY <1>3, <1>4, <1>5, AlikeTree DEF Alike
<1>7. ~HasCycle(ds)
  BY <1>3, <1>4, <1>6, SameCircles
<1>8. Resolving(module')
  BY <1>2, <1>3, <1>4, <1>5, <1>6, <1>7 DEF Resolving
<1>9. Stage(pc', at', modules', module', exit')
  BY <1>2, <1>8 DEF Stage
<1> QED
  BY <1>2, <1>9, StageKept

LEMMA CheckDuplicatesStep == ASSUME FrontInv, CheckDuplicates PROVE FrontInv'
<1>1. PICK m : m = module
  OBVIOUS
<1>2. /\ Resolving(m) /\ GoodProgram /\ exit' = None
      /\ module' = CheckDuplicateMethods(m) /\ pc' = "ids" /\ sources' = sources
  BY <1>1 DEF CheckDuplicates, Pass, FrontInv, Stage
<1>3. SameModule(CheckDuplicateMethods(m), m)
  BY <1>2, Reporting DEF Resolving
<1>4. Resolving(module')
  BY <1>2, <1>3 DEF Resolving, SameModule
<1>5. Stage(pc', at', modules', module', exit')
  BY <1>2, <1>4 DEF Stage
<1> QED
  BY <1>2, <1>5, StageKept

LEMMA AssignIdsStep == ASSUME FrontInv, AssignIds PROVE FrontInv'
<1>1. PICK m : m = module
  OBVIOUS
<1>2. /\ Resolving(m) /\ GoodProgram /\ exit' = None
      /\ module' = AssignClassIds(m) /\ pc' = "depths" /\ sources' = sources
  BY <1>1 DEF AssignIds, Pass, FrontInv, Stage
<1>3. ModuleFields \subseteq DOMAIN m /\ Tree(m.classes) /\ ~HasCycle(m.classes)
      /\ "classes" \in DOMAIN m
  BY <1>2 DEF Resolving, ModuleFields
<1>4. PICK cs, ds : cs = m.classes /\ ds = AssignClassIds(m).classes
  OBVIOUS
<1>5. DOMAIN AssignClassIds(m) = DOMAIN m /\ Alike(ds, cs) /\ Numbered(ds)
  BY <1>2, <1>3, <1>4, AssignNumbers
<1>6. Tree(ds)
  BY <1>3, <1>4, <1>5, AlikeTree
<1>7. Counting(module')
  BY <1>2, <1>3, <1>4, <1>5, <1>6 DEF Counting
<1>8. Stage(pc', at', modules', module', exit')
  BY <1>2, <1>7 DEF Stage
<1> QED
  BY <1>2, <1>8, StageKept

\* A pass that changes neither the names nor the numbers.
LEMMA StillCounting ==
  ASSUME NEW m, Counting(m), NEW z, DOMAIN z = DOMAIN m,
         Alike(z.classes, m.classes), SameNumbers(z.classes, m.classes)
  PROVE  Counting(z)
<1>1. PICK cs, ds : cs = m.classes /\ ds = z.classes
  OBVIOUS
<1>2. Tree(cs) /\ Numbered(cs) /\ Alike(ds, cs) /\ SameNumbers(ds, cs)
  BY <1>1 DEF Counting
<1>3. Tree(ds) /\ Numbered(ds)
  BY <1>2, AlikeTree, StillNumbered
<1> QED
  BY <1>1, <1>3 DEF Counting

LEMMA ComputeDepthsStep == ASSUME FrontInv, ComputeDepths PROVE FrontInv'
<1>1. PICK m : m = module
  OBVIOUS
<1>2. /\ Counting(m) /\ GoodProgram /\ exit' = None
      /\ module' = ComputeBaseDepths(m) /\ pc' = "dispatch" /\ sources' = sources
  BY <1>1 DEF ComputeDepths, Pass, FrontInv, Stage
<1>3. "classes" \in DOMAIN m /\ Tree(m.classes)
  BY <1>2 DEF Counting, ModuleFields
<1>4. Counting(ComputeBaseDepths(m))
  BY <1>2, <1>3, DepthsAlike, StillCounting
<1>5. Stage(pc', at', modules', module', exit')
  BY <1>2, <1>4 DEF Stage
<1> QED
  BY <1>2, <1>5, StageKept

LEMMA ClassifyStep == ASSUME FrontInv, Classify PROVE FrontInv'
<1>1. PICK m : m = module
  OBVIOUS
<1>2. /\ Counting(m) /\ GoodProgram /\ exit' = None
      /\ module' = ClassifyDispatch(m) /\ pc' = "conformance" /\ sources' = sources
  BY <1>1 DEF Classify, Pass, FrontInv, Stage
<1>3. "classes" \in DOMAIN m /\ Tree(m.classes)
  BY <1>2 DEF Counting, ModuleFields
<1>4. Counting(ClassifyDispatch(m))
  BY <1>2, <1>3, ClassifyAlike, StillCounting
<1>5. Stage(pc', at', modules', module', exit')
  BY <1>2, <1>4 DEF Stage
<1> QED
  BY <1>2, <1>5, StageKept

LEMMA CheckConformanceStep == ASSUME FrontInv, CheckConformance PROVE FrontInv'
<1>1. PICK m : m = module
  OBVIOUS
<1>2. /\ Counting(m) /\ GoodProgram /\ exit' = None
      /\ module' = CheckProtocolConformance(m) /\ pc' = "types" /\ sources' = sources
  BY <1>1 DEF CheckConformance, Pass, FrontInv, Stage
<1>3. SameModule(CheckProtocolConformance(m), m)
  BY <1>2, Reporting DEF Counting
<1>4. Counting(module')
  BY <1>2, <1>3 DEF Counting, SameModule
<1>5. Stage(pc', at', modules', module', exit')
  BY <1>2, <1>4 DEF Stage
<1> QED
  BY <1>2, <1>5, StageKept

LEMMA ValidateTypesStep == ASSUME FrontInv, ValidateTypes PROVE FrontInv'
<1>1. PICK m : m = module
  OBVIOUS
<1>2. /\ Counting(m) /\ GoodProgram /\ exit' = None
      /\ module' = ValidateGenericTypes(m) /\ pc' = "initialize" /\ sources' = sources
  BY <1>1 DEF ValidateTypes, Pass, FrontInv, Stage
<1>3. SameModule(ValidateGenericTypes(m), m)
  BY <1>2, Reporting DEF Counting
<1>4. Counting(module')
  BY <1>2, <1>3 DEF Counting, SameModule
<1>5. Stage(pc', at', modules', module', exit')
  BY <1>2, <1>4 DEF Stage
<1> QED
  BY <1>2, <1>5, StageKept

LEMMA CollectInitializeStep == ASSUME FrontInv, CollectInitialize PROVE FrontInv'
<1>1. PICK m : m = module
  OBVIOUS
<1>2. /\ Counting(m) /\ GoodProgram /\ exit' = None
      /\ module' = CollectInitializeClasses(m) /\ pc' = "check" /\ sources' = sources
  BY <1>1 DEF CollectInitialize, Pass, FrontInv, Stage
<1>3. "classes" \in DOMAIN m /\ "initialize" \in DOMAIN m
      /\ Tree(m.classes) /\ Numbered(m.classes)
  BY <1>2 DEF Counting, ModuleFields
<1>4. /\ DOMAIN CollectInitializeClasses(m) = DOMAIN m
      /\ CollectInitializeClasses(m).classes = m.classes
      /\ StartsFirst(CollectInitializeClasses(m).initialize)
  BY <1>3, InitializeStarts
<1>5. Ready(module')
  BY <1>2, <1>4 DEF Ready, Counting
<1>6. Stage(pc', at', modules', module', exit')
  BY <1>2, <1>5 DEF Stage
<1> QED
  BY <1>2, <1>6, StageKept

LEMMA EmitFilesStep == ASSUME FrontInv, EmitFiles PROVE FrontInv'
<1>1. PICK m : m = module
  OBVIOUS
<1>2. PICK z : z = InjectSpinLock(m)
  OBVIOUS
<1>3. PICK w : w = EnsureFoundationTags(z)
  OBVIOUS
<1>4. /\ Ready(m) /\ GoodProgram /\ exit' = None /\ pc' = "emitted" /\ sources' = sources
      /\ module' = [w EXCEPT !.errors = @ \cup
           {Error("initialize", st.type, st.sel) : st \in ExplicitInitialize(w)}]
  BY <1>1, <1>2, <1>3 DEF EmitFiles, FrontInv, Stage
<1>5. /\ ModuleFields \subseteq DOMAIN m /\ Tree(m.classes) /\ Numbered(m.classes)
      /\ StartsFirst(m.initialize) /\ "classes" \in DOMAIN m /\ "initialize" \in DOMAIN m
  BY <1>4 DEF Ready, Counting, ModuleFields
<1>6. /\ DOMAIN z = DOMAIN m /\ Numbered(z.classes)
      /\ \A i \in 1..Len(z.classes) : Fields \subseteq DOMAIN z.classes[i]
  BY <1>2, <1>4, <1>5, InjectNumbers
<1>7. z.initialize = m.initialize
  BY <1>2, <1>5 DEF InjectSpinLock
<1>8. "classes" \in DOMAIN z
  BY <1>5, <1>6
<1>9. DOMAIN w = DOMAIN z /\ Numbered(w.classes)
  BY <1>3, <1>6, <1>8, FoundationNumbers
<1>10. w.initialize = z.initialize
  BY <1>3, <1>5, <1>6 DEF EnsureFoundationTags
<1>11. PICK e : module' = [w EXCEPT !.errors = e]
  BY <1>4
<1>12. /\ DOMAIN module' = DOMAIN w /\ module'.classes = w.classes
       /\ module'.initialize = w.initialize
  BY <1>5, <1>6, <1>9, <1>11
<1>13. Written(module')
  BY <1>5, <1>6, <1>7, <1>9, <1>10, <1>12 DEF Written
<1>14. Stage(pc', at', modules', module', exit')
  BY <1>4, <1>13 DEF Stage
<1> QED
  BY <1>4, <1>14, StageKept

LEMMA AcceptStep == ASSUME FrontInv, Accept PROVE FrontInv'
<1>1. /\ Written(module) /\ GoodProgram /\ module' = module /\ pc' = "done" /\ exit' = 0
      /\ sources' = sources
  BY DEF Accept, Finish, FrontInv, Stage
<1>2. Stage(pc', at', modules', module', exit')
  BY <1>1 DEF Stage
<1> QED
  BY <1>1, <1>2, StageKept

LEMMA FrontNext == ASSUME FrontInv, [Next]_vars PROVE FrontInv'
<1>1. CASE UNCHANGED vars
  <2>1. /\ GoodProgram /\ Stage(pc, at, modules, module, exit)
        /\ sources' = sources /\ pc' = pc /\ at' = at /\ modules' = modules
        /\ module' = module /\ exit' = exit
    BY <1>1 DEF FrontInv, vars
  <2>2. Stage(pc', at', modules', module', exit')
    BY <2>1
  <2> QED
    BY <2>1, <2>2, StageKept
<1>2. CASE Next
  BY <1>2, CollectDeclStep, EndSourceStep, AssociateStep, MergeStep, GenericsStep,
     ValidateHierarchyStep, RefusedStep, SynthesizeStep, CheckDuplicatesStep, AssignIdsStep,
     ComputeDepthsStep, ClassifyStep, CheckConformanceStep, ValidateTypesStep,
     CollectInitializeStep, EmitFilesStep, AcceptStep
     DEF Next
<1> QED
  BY <1>1, <1>2

\* Numbers and order are what is promised of a run with exit code 0.
LEMMA FrontMeans == ASSUME FrontInv PROVE SuperFirst
<1>1. SUFFICES ASSUME exit = 0 PROVE SuperFirst
  BY DEF SuperFirst
<1>2. Written(module)
  BY <1>1, StartedSupported DEF FrontInv, Stage
<1>3. PICK cs, starts : cs = module.classes /\ starts = module.initialize
  OBVIOUS
<1>4. Numbered(cs) /\ StartsFirst(starts)
  BY <1>2, <1>3 DEF Written
<1>5. PICK n \in Nat : n = Len(cs) /\ DOMAIN cs = 1..n /\ IsSeq(cs) /\ Distinct(cs)
  BY <1>4, SeqFacts DEF Numbered
<1>6. {cs[i].id : i \in DOMAIN cs} = 0..(Len(cs) - 1)
  <2>1. /\ \A i \in 1..n : cs[i].id \in 0..(n - 1)
        /\ \A k \in 0..(n - 1) : \E i \in 1..n : cs[i].id = k
    BY <1>4, <1>5 DEF Numbered
  <2>2. {cs[i].id : i \in 1..n} = 0..(n - 1)
    BY <2>1
  <2> QED
    BY <1>5, <2>2
<1>7. ASSUME NEW i \in 1..n, Known(cs, cs[i].superclass)
      PROVE  At(cs, cs[i].superclass).id < cs[i].id
  <2>1. PICK j \in 1..Len(cs) : At(cs, cs[i].superclass) = cs[j]
                                /\ cs[j].name = cs[i].superclass
    BY <1>5, <1>7, AtPlace DEF Known
  <2>2. cs[j].id < cs[i].id
    BY <1>4, <1>5, <2>1 DEF Numbered
  <2> QED
    BY <2>1, <2>2
<1>8. /\ ToSet(starts) = Starting /\ DOMAIN starts = 1..Len(starts)
      /\ \A i, j \in 1..Len(starts) :
           i # j => starts[i] # starts[j] /\ (starts[i] \in AncestorsOf(starts[j]) => i < j)
  BY <1>4, SeqFacts DEF StartsFirst
<1>9. ToSet(starts) = {c \in DeclaredClasses :
                         \E x \in MethodsOf(c) : x.plus /\ x.sel = "initialize"}
  BY <1>8 DEF Starting
<1> QED
  BY <1>3, <1>5, <1>6, <1>7, <1>8, <1>9 DEF SuperFirst

\* Every program that Clang accepts and in which a selector is either an
\* instance method or a class method gets class numbers 0, 1, ... with every
\* superclass before its subclasses, and +initialize runs once for each class
\* that has it, superclasses first (_assign_class_ids,
\* _collect_initialize_classes).
THEOREM SuperclassesFirst ==
  ASSUME "one sign" \in Rules
  PROVE  Spec => []SuperFirst
<1>1. Init => FrontInv
  BY FrontInit
<1>2. FrontInv /\ [Next]_vars => FrontInv'
  BY FrontNext
<1>3. FrontInv => SuperFirst
  BY FrontMeans
<1> QED
  BY <1>1, <1>2, <1>3, PTL DEF Spec

(***************************************************************************)
(* Circles                                                                 *)
(***************************************************************************)
Circle == \E c \in DeclaredClasses : InCircle(c)

LEMMA CircleKept == ASSUME sources' = sources PROVE Circle' <=> Circle
BY ClassesKept, AncestorsKept, SuperKept DEF Circle, InCircle

\* The steps up from a class: k of them are in every later set of ancestors.
LEMMA AncestorsAre ==
  ASSUME NEW N \in Nat, Cardinality(DeclaredClasses) = N, NEW c \in DeclaredClasses,
         NEW u, u[0] = c, NEW k \in 0..N,
         \A i \in 1..k : Declares(u[i]) /\ u[i] = Superclass(u[i - 1])
  PROVE  AncestorsOf(c) \subseteq DeclaredClasses /\ u[k] \in AncestorsOf(c)
<1>1. PICK g : AncestorSteps(g, c)
  BY AncestorTrace
<1>2. /\ g[0] = {c} /\ g[N] = AncestorsOf(c)
      /\ \A i \in 1..N :
           g[i] = g[i - 1] \cup ({Superclass(a) : a \in g[i - 1]} \cap DeclaredClasses)
  BY <1>1 DEF AncestorSteps
<1> DEFINE Holds(i) == /\ g[i] \subseteq DeclaredClasses
                       /\ \A j \in 0..k : j <= i => u[j] \in g[i]
           T == {i \in Nat : i <= N => Holds(i)}
<1>3. 0 \in T
  <2>1. \A j \in 0..k : j <= 0 => j = 0
    OBVIOUS
  <2> QED
    BY <1>2, <2>1
<1>4. ASSUME NEW i \in T PROVE i + 1 \in T
  <2>1. SUFFICES ASSUME i + 1 <= N PROVE Holds(i + 1)
    OBVIOUS
  <2>2. i + 1 \in 1..N /\ (i + 1) - 1 = i /\ Holds(i)
    BY <2>1
  <2>3. g[i + 1] = g[i] \cup ({Superclass(a) : a \in g[i]} \cap DeclaredClasses)
    BY <1>2, <2>2
  <2>4. ASSUME NEW j \in 0..k, j <= i + 1 PROVE u[j] \in g[i + 1]
    <3>1. CASE j <= i
      BY <2>2, <2>3, <3>1
    <3>2. CASE j = i + 1
      <4>1. j \in 1..k /\ j - 1 = i /\ i \in 0..k /\ i <= i
        BY <3>2
      <4>2. u[i] \in g[i]
        BY <2>2, <4>1
      <4>3. Declares(u[j]) /\ u[j] = Superclass(u[i])
        BY <4>1
      <4> QED
        BY <2>3, <4>2, <4>3 DEF Declares
    <3>3. j <= i \/ j = i + 1
      BY <2>4
    <3> QED
      BY <3>1, <3>2, <3>3
  <2> QED
    BY <2>2, <2>3, <2>4
<1>5. N \in T
  <2> HIDE DEF T
  <2>1. T \subseteq Nat
    BY DEF T
  <2> QED
    BY <1>3, <1>4, <2>1, Induct
<1>6. Holds(N)
  BY <1>5
<1>7. k \in 0..k /\ k <= N
  OBVIOUS
<1> QED
  BY <1>2, <1>6, <1>7

\* With numbers a class is no ancestor of its own superclass.
LEMMA NoCircle ==
  ASSUME GoodProgram, NEW cs, Tree(cs), ~HasCycle(cs)
  PROVE  ~Circle
<1>1. SUFFICES ASSUME NEW c \in DeclaredClasses, NEW a \in AncestorsOf(c), Superclass(a) = c
               PROVE  FALSE
  BY DEF Circle, InCircle
<1>2. PICK m : m = [classes |-> cs]
  OBVIOUS
<1>3. "classes" \in DOMAIN m /\ m.classes = cs
  BY <1>2
<1>4. PICK ds : ds = AssignClassIds(m).classes /\ Alike(ds, cs) /\ Numbered(ds)
  BY <1>3, AssignNumbers
<1>5. Tree(ds) /\ Len(ds) \in Nat
  BY <1>4, AlikeTree, TreeCount
<1>6. a \in DeclaredClasses
  <2>1. PICK N \in Nat : N = Len(ds) /\ Cardinality(DeclaredClasses) = N
    BY <1>5, TreeCount
  <2>2. PICK u : u = [k \in {0} |-> c]
    OBVIOUS
  <2>3. u[0] = c /\ 0 \in 0..N /\ 1..0 = {}
    BY <2>1, <2>2
  <2>4. \A k \in 1..0 : Declares(u[k]) /\ u[k] = Superclass(u[k - 1])
    BY <2>3
  <2>5. AncestorsOf(c) \subseteq DeclaredClasses
    BY <2>1, <2>3, <2>4, AncestorsAre
  <2> QED
    BY <1>1, <2>5
<1>7. PICK i \in 1..Len(ds), j \in 1..Len(ds) : ds[i].name = a /\ ds[j].name = c
  <2>1. DOMAIN ds = 1..Len(ds) /\ Keys(ds) = DeclaredClasses
    BY <1>5, SeqFacts DEF Tree
  <2>2. \A x \in DeclaredClasses : \E k \in 1..Len(ds) : ds[k].name = x
    BY <2>1 DEF Keys
  <2> QED
    BY <1>1, <1>6, <2>2
<1>8. CASE i = j
  BY <1>1, <1>7, <1>8, NoSelf DEF Declares
<1>9. CASE i # j
  <2>1. ds[i].id < ds[j].id
    BY <1>1, <1>4, <1>5, <1>7, <1>9, AncestorNumber
  <2>2. ds[i].superclass = ds[j].name
    BY <1>1, <1>5, <1>7 DEF Tree, TreeClass
  <2>3. ds[j].id < ds[i].id
    BY <1>4, <2>2 DEF Numbered
  <2>4. ds[i].id \in 0..(Len(ds) - 1) /\ ds[j].id \in 0..(Len(ds) - 1)
    BY <1>4 DEF Numbered
  <2>5. ds[i].id \in Nat /\ ds[j].id \in Nat
    BY <2>4
  <2> QED
    BY <2>1, <2>3, <2>5
<1> QED
  BY <1>8, <1>9

\* A chain that is longer than there are classes has one of them twice.
LEMMA CircleFound ==
  ASSUME NEW cs, Tree(cs), HasCycle(cs)
  PROVE  Circle
<1>1. PICK N \in Nat : N = Len(cs) /\ Cardinality(DeclaredClasses) = N /\ DOMAIN cs = 1..N
  BY TreeCount, SeqFacts DEF Tree
<1>2. PICK n \in Keys(cs) : Len(Chain(cs, n)) > Len(cs)
  BY DEF HasCycle
<1>3. PICK s : s = Chain(cs, n)
  OBVIOUS
<1>4. Declares(n)
  BY <1>2 DEF Tree, Declares
<1>5. Climb(s, n)
  BY <1>3, <1>4, ChainClimbs
<1>6. PICK l \in Nat : l = Len(s) /\ l > N
  BY <1>1, <1>2, <1>3, <1>5, SeqFacts DEF Climb
<1>7. /\ \A k \in 1..(N + 1) : Declares(s[k])
      /\ \A k \in 1..N : s[k + 1] = Superclass(s[k])
  <2>1. (\A k \in 1..(N + 1) : k \in 1..l) /\ \A k \in 1..N : k \in 1..(l - 1)
    BY <1>6
  <2>2. \A k \in 1..l : s[k] \in ToSet(s)
    BY <1>5, <1>6, SeqFacts DEF Climb
  <2> QED
    BY <1>5, <1>6, <2>1, <2>2 DEF Climb
<1>8. PICK f : f = [k \in 1..(N + 1) |-> CHOOSE p \in 1..N : cs[p].name = s[k]]
  OBVIOUS
<1>9. ASSUME NEW k \in 1..(N + 1) PROVE f[k] \in 1..N /\ cs[f[k]].name = s[k]
  <2>1. \E p \in 1..N : cs[p].name = s[k]
    BY <1>1, <1>7 DEF Tree, Keys, Declares
  <2> QED
    BY <1>8, <2>1
<1>10. PICK i \in 1..(N + 1), j \in 1..(N + 1) : i < j /\ s[i] = s[j]
  <2>1. f \in [1..(N + 1) -> 1..N]
    BY <1>8, <1>9
  <2>2. /\ IsFiniteSet(1..(N + 1)) /\ Cardinality(1..(N + 1)) = N + 1
        /\ IsFiniteSet(1..N) /\ Cardinality(1..N) = N
    <3>1. ASSUME NEW a \in Nat PROVE IsFiniteSet(1..a) /\ Cardinality(1..a) = a
      <4>1. IsFiniteSet(1..a) /\ Cardinality(1..a) = IF 1 > a THEN 0 ELSE (a - 1) + 1
        BY FS_Interval
      <4> QED
        BY <4>1
    <3>2. N + 1 \in Nat
      OBVIOUS
    <3> QED
      BY <3>1, <3>2
  <2>3. PICK x \in 1..(N + 1), y \in 1..(N + 1) : x # y /\ f[x] = f[y]
    <3>1. Cardinality(1..N) < Cardinality(1..(N + 1))
      BY <2>2
    <3> QED
      BY <2>1, <2>2, <3>1, FS_PigeonHole
  <2>4. s[x] = s[y]
    BY <1>9, <2>3
  <2>5. x < y \/ y < x
    BY <2>3
  <2> QED
    BY <2>4, <2>5
<1>11. PICK k \in 0..N : k = (j - 1) - i
  BY <1>10
<1>12. PICK u : u = [h \in 0..k |-> s[i + h]]
  OBVIOUS
<1>13. u[0] = s[i] /\ u[k] = s[j - 1]
  <2>1. 0 \in 0..k /\ k \in 0..k /\ i + 0 = i /\ i + k = j - 1
    BY <1>11
  <2> QED
    BY <1>12, <2>1
<1>14. ASSUME NEW h \in 1..k PROVE Declares(u[h]) /\ u[h] = Superclass(u[h - 1])
  <2>1. /\ h \in 0..k /\ h - 1 \in 0..k /\ i + h \in 1..(N + 1) /\ i + (h - 1) \in 1..N
        /\ (i + (h - 1)) + 1 = i + h
    BY <1>11
  <2> QED
    BY <1>7, <1>12, <2>1
<1>15. s[i] \in DeclaredClasses
  BY <1>7 DEF Declares
<1>16. u[k] \in AncestorsOf(s[i])
  BY <1>1, <1>13, <1>14, <1>15, AncestorsAre
<1>17. Superclass(s[j - 1]) = s[i]
  <2>1. j - 1 \in 1..N /\ (j - 1) + 1 = j
    BY <1>10
  <2> QED
    BY <1>7, <1>10, <2>1
<1> QED
  BY <1>13, <1>15, <1>16, <1>17 DEF Circle, InCircle

(***************************************************************************)
(* What _validate_hierarchy finds                                          *)
(***************************************************************************)
Accepted == {"synthesize", "duplicates", "ids", "depths", "dispatch", "conformance",
             "types", "initialize", "check", "emitted"}
CirclesFound ==
  /\ pc = "hierarchy" => (HasCycle(module.classes) <=> Circle)
  /\ pc \in Accepted \/ exit = 0 => ~Circle

\* The passes after _validate_hierarchy have no circle to go round in.
LEMMA HierarchyExact ==
  ASSUME FrontInv, pc = "hierarchy"
  PROVE  HasCycle(module.classes) <=> Circle
<1>1. PICK cs : cs = module.classes
  OBVIOUS
<1>2. GoodProgram /\ Gathered(module, Links, Sign, ProgramFacts)
  BY DEF FrontInv, Stage
<1>3. Fits(cs, Links, Sign) /\ AllFacts(cs) = ProgramFacts
  BY <1>1, <1>2 DEF Gathered
<1>4. Tree(cs)
  BY <1>2, <1>3, FactsAreTree
<1>5. HasCycle(cs) => Circle
  BY <1>4, CircleFound
<1>6. ~HasCycle(cs) => ~Circle
  BY <1>2, <1>4, NoCircle
<1> QED
  BY <1>1, <1>5, <1>6

LEMMA CirclesNext ==
  ASSUME FrontInv, CirclesFound, [Next]_vars, FrontInv'
  PROVE  CirclesFound'
<1>1. sources' = sources /\ (Circle' <=> Circle)
  <2>1. sources' = sources
    BY DEF Next, vars, CollectDecl, EndSource, Associate, Merge, Generics,
       ValidateHierarchy, InheritanceCycle, Synthesize, CheckDuplicates, AssignIds,
       ComputeDepths, Classify, CheckConformance, ValidateTypes, CollectInitialize,
       Reject, EmitFiles, Accept, Pass, Finish
  <2> QED
    BY <2>1, CircleKept
<1>2. (pc = "hierarchy" => (HasCycle(module.classes) <=> Circle))'
  <2>1. (FrontInv /\ pc = "hierarchy" => (HasCycle(module.classes) <=> Circle))'
    BY HierarchyExact, PTL
  <2> QED
    BY <2>1
<1>3. pc' \in Accepted \/ exit' = 0 => ~Circle
  <2>1. CASE UNCHANGED vars
    BY <2>1 DEF vars, CirclesFound
  <2>2. CASE ValidateHierarchy
    <3>1. pc = "hierarchy" /\ ~HasCycle(module.classes)
      BY <2>2 DEF ValidateHierarchy, Pass
    <3>2. ~Circle
      BY <3>1 DEF CirclesFound
    <3> QED
      BY <3>2
  <2>3. CASE ~ValidateHierarchy /\ Next
    <3>1. exit = 0 \/ pc \in Accepted \/ (exit' # 0 /\ pc' \notin Accepted)
      BY <2>3, StartedSupported
         DEF Next, CollectDecl, EndSource, Associate, Merge, Generics,
         InheritanceCycle, Synthesize, CheckDuplicates, AssignIds, ComputeDepths, Classify,
         CheckConformance, ValidateTypes, CollectInitialize, Reject, EmitFiles, Accept,
         Pass, Finish, Accepted, FrontInv, Stage
    <3> QED
      BY <3>1 DEF CirclesFound
  <2> QED
    BY <2>1, <2>2, <2>3
<1> QED
  BY <1>1, <1>2, <1>3 DEF CirclesFound

\* _validate_hierarchy finds a circle of superclasses exactly if the sources
\* have one, so an accepted program has none, and no pass after it can go
\* round in one.
THEOREM CirclesRefused ==
  ASSUME "one sign" \in Rules
  PROVE  Spec => []CirclesFound
<1>1. Init => FrontInv /\ CirclesFound
  <2>1. Init => pc = "collect" /\ exit # 0
    BY StartedSupported DEF Init
  <2> QED
    BY <2>1, FrontInit DEF CirclesFound, Accepted
<1>2. FrontInv /\ CirclesFound /\ [Next]_vars => (FrontInv /\ CirclesFound)'
  BY FrontNext, CirclesNext
<1> QED
  BY <1>1, <1>2, PTL DEF Spec

\* What holds of the merged module from _validate_hierarchy to emit().
ClassesExact ==
  pc \in Accepted \ {"emitted"} =>
    LET cs == module.classes
    IN /\ Keys(cs) = DeclaredClasses /\ Distinct(cs)
       /\ \A i \in DOMAIN cs :
            /\ cs[i].superclass = Superclass(cs[i].name)
            /\ Initializes(cs[i])
                 <=> \E x \in MethodsOf(cs[i].name) : x.plus /\ x.sel = "initialize"

\* Whatever the order of the sources, and whichever of them import a class,
\* the merged module has every declared class once, with the superclass and
\* the +initialize of its sources (merge_modules), and no pass of resolve()
\* changes that.
THEOREM ClassesMerged ==
  ASSUME "one sign" \in Rules
  PROVE  Spec => []ClassesExact
<1>1. Init => FrontInv
  BY FrontInit
<1>2. FrontInv /\ [Next]_vars => FrontInv'
  BY FrontNext
<1>3. FrontInv => ClassesExact
  <2>1. SUFFICES ASSUME FrontInv, pc \in Accepted \ {"emitted"} PROVE ClassesExact
    BY DEF ClassesExact
  <2>2. PICK cs : cs = module.classes
    OBVIOUS
  <2>3. Tree(cs)
    BY <2>1, <2>2 DEF FrontInv, Stage, Accepted, Resolving, Counting, Ready
  <2>4. DOMAIN cs = 1..Len(cs) /\ Keys(cs) = DeclaredClasses /\ Distinct(cs)
    BY <2>3, SeqFacts DEF Tree
  <2>5. ASSUME NEW i \in DOMAIN cs
        PROVE  /\ cs[i].superclass = Superclass(cs[i].name)
               /\ Initializes(cs[i])
                    <=> \E x \in MethodsOf(cs[i].name) : x.plus /\ x.sel = "initialize"
    <3>1. TreeClass(cs[i]) /\ cs[i].name \in DeclaredClasses
      BY <2>3, <2>4, <2>5 DEF Tree, Keys
    <3>2. /\ cs[i].superclass = Superclass(cs[i].name)
          /\ Starts(cs[i].methods) <=> cs[i].name \in Starting
      BY <3>1 DEF TreeClass
    <3>3. Initializes(cs[i]) <=> Starts(cs[i].methods)
      BY DEF Initializes, Starts, Started
    <3> QED
      BY <3>1, <3>2, <3>3 DEF Starting
  <2> QED
    BY <2>2, <2>4, <2>5 DEF ClassesExact
<1> QED
  BY <1>1, <1>2, <1>3, PTL DEF Spec
=============================================================================

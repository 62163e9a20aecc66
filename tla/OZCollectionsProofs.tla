-------------------------- MODULE OZCollectionsProofs --------------------------
(***************************************************************************)
(* Proofs about literals and loops: cells, contents, counters and pools    *)
(* for every program, and what loops see.                                  *)
(***************************************************************************)
EXTENDS OZFoundation, OZNaturals, FiniteSetTheorems, FunctionTheorems, SequenceTheorems, TLAPS

(***************************************************************************)
(* The program                                                             *)
(***************************************************************************)
KnownProgram == platform \in Platforms /\ program \in Programs

LEMMA LiteralFacts ==
  ASSUME KnownProgram
  PROVE  /\ IsFiniteSet(Lits) /\ Nil \notin Lits
         /\ \A s \in Lits : /\ program[s].kind \in {"array", "dictionary"}
                            /\ program[s].elems \subseteq Elems
                            /\ Size(s) \in Nat /\ Size(s) > 0
                            /\ program[s].kind = "dictionary" => Size(s) % 2 = 0
BY CollectionAssumption DEF KnownProgram, Lits, Size

\* Sets indexed by literals, put side by side.
Joined(D, P) == UNION {{s} \X P[s] : s \in D}

LEMMA InJoined ==
  ASSUME NEW D, NEW P
  PROVE  \A s, i : <<s, i>> \in Joined(D, P) <=> s \in D /\ i \in P[s]
BY DEF Joined

LEMMA JoinedPairs ==
  ASSUME NEW D, NEW P, NEW p \in Joined(D, P)
  PROVE  p = <<p[1], p[2]>> /\ p[1] \in D /\ p[2] \in P[p[1]]
<1>1. PICK s \in D : p \in {s} \X P[s]
  BY DEF Joined
<1> QED
  BY <1>1

LEMMA JoinedFinite ==
  ASSUME NEW D, IsFiniteSet(D), NEW P, \A s \in D : IsFiniteSet(P[s])
  PROVE  IsFiniteSet(Joined(D, P))
<1> DEFINE T == {{s} \X P[s] : s \in D}
           f == [s \in D |-> {s} \X P[s]]
<1>1. f \in Surjection(D, T)
  BY Fun_IsSurj
<1>2. IsFiniteSet(T)
  BY <1>1, FS_Surjection
<1>3. \A S \in T : IsFiniteSet(S)
  <2> TAKE S \in T
  <2>1. PICK s \in D : S = {s} \X P[s]
    OBVIOUS
  <2>2. IsFiniteSet({s}) /\ IsFiniteSet(P[s])
    BY FS_Singleton
  <2> QED
    BY <2>1, <2>2, FS_Product
<1> QED
  BY <1>2, <1>3, FS_UNION DEF Joined

\* The places of one index are as many as its set has members.
LEMMA OneIndex ==
  ASSUME NEW s, NEW S, IsFiniteSet(S)
  PROVE  IsFiniteSet({s} \X S) /\ Cardinality({s} \X S) = Cardinality(S)
<1>1. IsFiniteSet({s}) /\ Cardinality({s}) = 1
  BY FS_Singleton
<1>2. /\ IsFiniteSet({s} \X S)
      /\ Cardinality({s} \X S) = Cardinality({s}) * Cardinality(S)
  BY <1>1, FS_Product
<1>3. Cardinality(S) \in Nat
  BY FS_CardinalityType
<1> QED
  BY <1>1, <1>2, <1>3

LEMMA JoinedSplit ==
  ASSUME NEW D, IsFiniteSet(D), NEW P, \A s \in D : IsFiniteSet(P[s]), NEW s \in D
  PROVE  /\ Cardinality(Joined(D, P)) = Cardinality(Joined(D \ {s}, P)) + Cardinality(P[s])
         /\ Cardinality(Joined(D \ {s}, P)) \in Nat /\ Cardinality(P[s]) \in Nat
<1> DEFINE A == Joined(D \ {s}, P)
           B == {s} \X P[s]
<1>1. IsFiniteSet(D \ {s})
  BY FS_RemoveElement
<1>2. IsFiniteSet(A)
  BY <1>1, JoinedFinite
<1>3. IsFiniteSet(B) /\ Cardinality(B) = Cardinality(P[s])
  BY OneIndex
<1>4. Joined(D, P) = A \cup B
  BY DEF Joined
<1>5. A \cap B = {}
  BY DEF Joined
<1>6. Cardinality(A \cup B) = Cardinality(A) + Cardinality(B) - Cardinality(A \cap B)
  BY <1>2, <1>3, FS_Union
<1>7. Cardinality(A) \in Nat /\ Cardinality(P[s]) \in Nat
  BY <1>2, FS_CardinalityType
<1> HIDE DEF A, B
<1>8. Cardinality(A \cap B) = 0
  BY <1>5, FS_EmptySet
<1> QED
  BY <1>3, <1>4, <1>6, <1>7, <1>8 DEF A

\* Only one of the sets changes.
LEMMA JoinedChanges ==
  ASSUME NEW D, IsFiniteSet(D), NEW P, NEW Q,
         \A r \in D : IsFiniteSet(P[r]) /\ IsFiniteSet(Q[r]),
         NEW s \in D, \A r \in D : r # s => Q[r] = P[r]
  PROVE  /\ Cardinality(Joined(D, Q)) + Cardinality(P[s])
              = Cardinality(Joined(D, P)) + Cardinality(Q[s])
         /\ Cardinality(Joined(D, P)) \in Nat /\ Cardinality(Joined(D, Q)) \in Nat
         /\ Cardinality(P[s]) \in Nat /\ Cardinality(Q[s]) \in Nat
<1>1. Joined(D \ {s}, P) = Joined(D \ {s}, Q)
  BY DEF Joined
<1>2. /\ Cardinality(Joined(D, P)) = Cardinality(Joined(D \ {s}, P)) + Cardinality(P[s])
      /\ Cardinality(Joined(D \ {s}, P)) \in Nat /\ Cardinality(P[s]) \in Nat
  BY JoinedSplit
<1>3. /\ Cardinality(Joined(D, Q)) = Cardinality(Joined(D \ {s}, Q)) + Cardinality(Q[s])
      /\ Cardinality(Joined(D \ {s}, Q)) \in Nat /\ Cardinality(Q[s]) \in Nat
  BY JoinedSplit
<1> QED
  BY <1>1, <1>2, <1>3

LEMMA TextFacts ==
  ASSUME KnownProgram
  PROVE  /\ IsFiniteSet(Texts) /\ Cardinality(Texts) \in Nat /\ Cardinality(Lits) \in Nat
         /\ Cardinality(Texts) <= Cardinality(Lits)
         /\ \A x \in Texts : Of(x) \in Lits /\ program[Of(x)].text = x
         /\ PoolSize \in Nat
<1> DEFINE f == [s \in Lits |-> program[s].text]
<1>1. f \in Surjection(Lits, Texts)
  BY Fun_IsSurj DEF Texts
<1>2. IsFiniteSet(Lits)
  BY LiteralFacts
<1>3. IsFiniteSet(Texts) /\ Cardinality(Texts) <= Cardinality(Lits)
  BY <1>1, <1>2, FS_Surjection
<1>4. \A x \in Texts : Of(x) \in Lits /\ program[Of(x)].text = x
  BY DEF Of, Texts
<1>5. PoolSize \in Nat
  <2> DEFINE P == [x \in Texts |-> 1..Size(Of(x))]
  <2>1. \A x \in Texts : IsFiniteSet(P[x])
    <3> TAKE x \in Texts
    <3>1. Size(Of(x)) \in Nat
      BY <1>4, LiteralFacts
    <3> QED
      BY <3>1, FS_Interval
  <2>2. IsFiniteSet(Joined(Texts, P))
    BY <1>3, <2>1, JoinedFinite
  <2>3. UNION {Items(x) : x \in Texts} = Joined(Texts, P)
    BY DEF Items, Joined, Size
  <2> QED
    BY <2>2, <2>3, FS_CardinalityType DEF PoolSize
<1> QED
  BY <1>2, <1>3, <1>4, <1>5, FS_CardinalityType

(***************************************************************************)
(* The layout of a container                                               *)
(***************************************************************************)
\* Half of an even number.
LEMMA Halves ==
  ASSUME NEW n \in Nat, n % 2 = 0, n > 0
  PROVE  n \div 2 \in Nat /\ n = 2 * (n \div 2) /\ n \div 2 > 0
OBVIOUS

LEMMA OddHalf ==
  ASSUME NEW n \in Nat, n % 2 # 0
  PROVE  (n + 1) \div 2 \in Nat /\ n = 2 * ((n + 1) \div 2) - 1
OBVIOUS

LEMMA CountFacts ==
  ASSUME KnownProgram, NEW s \in Lits
  PROVE  /\ Count(s) \in Nat /\ Count(s) > 0 /\ Count(s) <= Size(s)
         /\ program[s].kind = "array" => Count(s) = Size(s)
         /\ program[s].kind # "array" =>
              Size(s) = 2 * Count(s) /\ Count(s) = Size(s) \div 2
<1>1. CASE program[s].kind = "array"
  BY <1>1, LiteralFacts DEF Count
<1>2. CASE program[s].kind # "array"
  <2>1. Size(s) \in Nat /\ Size(s) > 0 /\ Size(s) % 2 = 0
    BY <1>2, LiteralFacts
  <2>2. Count(s) = Size(s) \div 2
    BY <1>2 DEF Count
  <2>3. /\ Size(s) \div 2 \in Nat /\ Size(s) = 2 * (Size(s) \div 2)
        /\ Size(s) \div 2 > 0
    BY <2>1, Halves
  <2> QED
    BY <1>2, <2>1, <2>2, <2>3
<1> QED
  BY <1>1, <1>2

\* A dictionary's keys come first.
Paired(L, items, n) == \A i \in 1..n : L[i] = items[2 * i - 1] /\ L[n + i] = items[2 * i]

LEMMA LayoutOf ==
  ASSUME KnownProgram, NEW s \in Lits, NEW V, NEW items \in Seq(V), Len(items) = Size(s),
         NEW L, L = Layout(program[s].kind, items)
  PROVE  /\ L \in [1..Size(s) -> V]
         /\ program[s].kind = "array" => L = items
         /\ program[s].kind # "array" => Paired(L, items, Count(s))
<1> DEFINE n == Count(s)
<1>1. DOMAIN items = 1..Size(s) /\ \A i \in 1..Size(s) : items[i] \in V
  OBVIOUS
<1>2. CASE program[s].kind = "array"
  <2>1. L = items
    BY <1>2 DEF Layout
  <2>2. items \in [1..Size(s) -> V]
    BY <1>1
  <2> QED
    BY <1>2, <2>1, <2>2
<1>3. CASE program[s].kind # "array"
  <2>1. Size(s) = 2 * n /\ n \in Nat /\ n = Size(s) \div 2
    BY <1>3, CountFacts
  <2>2. L = [i \in 1..Size(s) |-> IF i <= n THEN items[2 * i - 1] ELSE items[2 * (i - n)]]
    BY <1>1, <1>3, <2>1 DEF Layout
  <2> HIDE DEF n
  <2>3. \A i \in 1..Size(s) : i <= n => 2 * i - 1 \in 1..Size(s)
    BY <2>1
  <2>4. \A i \in 1..Size(s) : ~(i <= n) => 2 * (i - n) \in 1..Size(s)
    BY <2>1
  <2>5. L \in [1..Size(s) -> V]
    BY <1>1, <2>2, <2>3, <2>4
  <2>6. ASSUME NEW i \in 1..n
        PROVE  L[i] = items[2 * i - 1] /\ L[n + i] = items[2 * i]
    <3>1. i \in 1..Size(s) /\ i <= n
      BY <2>1
    <3>2. n + i \in 1..Size(s) /\ ~(n + i <= n) /\ (n + i) - n = i
      BY <2>1
    <3>3. L[n + i] = items[2 * ((n + i) - n)]
      BY <3>2, <2>2
    <3> QED
      BY <3>1, <3>2, <3>3, <2>2
  <2>7. Paired(L, items, n)
    BY <2>6 DEF Paired
  <2> QED
    BY <1>3, <2>5, <2>7 DEF n
<1> QED
  BY <1>2, <1>3

\* Where e is in f, from a to n.
Among(a, n, f, e) == {i \in a..n : f[i] = e}

\* Nothing is put into the container twice, and nothing is left out.
LEMMA LayoutCounts ==
  ASSUME KnownProgram, NEW s \in Lits, NEW V, NEW items \in Seq(V), Len(items) = Size(s),
         NEW L, L = Layout(program[s].kind, items), NEW e
  PROVE  Cardinality(Among(1, Size(s), L, e)) = Cardinality(Among(1, Size(s), items, e))
<1> DEFINE n == Count(s)
           A == {i \in 1..Size(s) : L[i] = e}
           B == {i \in 1..Size(s) : items[i] = e}
<1>1. CASE program[s].kind = "array"
  <2>1. L = items
    BY <1>1, LayoutOf
  <2> QED
    BY <2>1 DEF Among
<1>2. CASE program[s].kind # "array"
  <2>1. /\ \A i \in 1..n : L[i] = items[2 * i - 1] /\ L[n + i] = items[2 * i]
        /\ Size(s) = 2 * n /\ n \in Nat
    <3>1. Paired(L, items, Count(s))
      BY <1>2, LayoutOf
    <3>2. Size(s) = 2 * Count(s) /\ Count(s) \in Nat
      BY <1>2, CountFacts
    <3> QED
      BY <3>1, <3>2 DEF Paired
  <2> HIDE DEF n
  <2> DEFINE f == [i \in A |-> IF i <= n THEN 2 * i - 1 ELSE 2 * (i - n)]
  <2>2. \A i \in 1..Size(s) : IF i <= n THEN L[i] = items[2 * i - 1] /\ 2 * i - 1 \in 1..Size(s)
                              ELSE L[i] = items[2 * (i - n)] /\ 2 * (i - n) \in 1..Size(s)
    <3> TAKE i \in 1..Size(s)
    <3>1. CASE i <= n
      <4>1. i \in 1..n /\ 2 * i - 1 \in 1..Size(s)
        BY <2>1, <3>1
      <4> QED
        BY <2>1, <3>1, <4>1
    <3>2. CASE ~(i <= n)
      <4>1. i - n \in 1..n /\ n + (i - n) = i /\ 2 * (i - n) \in 1..Size(s)
        BY <2>1, <3>2
      <4>2. L[n + (i - n)] = items[2 * (i - n)]
        BY <2>1, <4>1
      <4> QED
        BY <3>2, <4>1, <4>2
    <3> QED
      BY <3>1, <3>2
  <2>3. f \in [A -> B]
    <3>1. \A i \in A : f[i] \in B
      BY <2>2
    <3> QED
      BY <3>1
  <2>4. \A i, j \in A : f[i] = f[j] => i = j
    <3> TAKE i, j \in A
    <3>1. i \in Nat /\ j \in Nat
      BY <2>1
    <3> QED
      BY <2>1, <3>1
  <2>5. \A k \in B : \E i \in A : f[i] = k
    <3> TAKE k \in B
    <3>1. k \in 1..Size(s) /\ items[k] = e
      OBVIOUS
    <3>2. CASE k % 2 = 0
      <4> DEFINE h == k \div 2
      <4>1. h \in 1..n /\ k = 2 * h
        BY <2>1, <3>1, <3>2
      <4> HIDE DEF h
      <4>2. n + h \in 1..Size(s) /\ ~(n + h <= n) /\ 2 * ((n + h) - n) = k
        BY <2>1, <4>1
      <4>3. L[n + h] = items[2 * h]
        BY <2>1, <4>1
      <4>4. n + h \in A
        BY <3>1, <4>1, <4>2, <4>3
      <4>5. f[n + h] = 2 * ((n + h) - n)
        BY <4>2, <4>4
      <4> QED
        BY <4>2, <4>4, <4>5
    <3>3. CASE k % 2 # 0
      <4> DEFINE h == (k + 1) \div 2
      <4>1. k \in Nat /\ k <= 2 * n
        BY <2>1, <3>1
      <4>2. k = 2 * h - 1 /\ h \in Nat
        BY <3>3, <4>1, OddHalf
      <4>3. h \in 1..n /\ k = 2 * h - 1
        BY <2>1, <3>1, <4>1, <4>2
      <4> HIDE DEF h
      <4>4. h \in 1..Size(s) /\ h <= n
        BY <2>1, <4>3
      <4>5. L[h] = items[2 * h - 1]
        BY <2>1, <4>3
      <4>6. h \in A
        BY <3>1, <4>3, <4>4, <4>5
      <4>7. f[h] = 2 * h - 1
        BY <4>4, <4>6
      <4> QED
        BY <4>3, <4>6, <4>7
    <3> QED
      BY <3>2, <3>3
  <2>6. IsFiniteSet(A)
    <3>1. IsFiniteSet(1..Size(s))
      BY <2>1, FS_Interval
    <3> QED
      BY <3>1, FS_Subset
  <2> HIDE DEF A, B, f
  <2>7. f \in Bijection(A, B)
    BY <2>3, <2>4, <2>5, Fun_IsBij
  <2>8. ExistsBijection(A, B)
    BY <2>7 DEF ExistsBijection
  <2>9. Cardinality(B) = Cardinality(A)
    BY <2>6, <2>8, FS_Bijection
  <2> QED
    BY <2>9 DEF A, B, Among
<1> QED
  BY <1>1, <1>2

(***************************************************************************)
(* Counters                                                                *)
(***************************************************************************)
SameProgram == platform' = platform /\ program' = program

LEMMA ProgramKept ==
  ASSUME SameProgram
  PROVE  /\ Lits' = Lits /\ PoolSize' = PoolSize /\ Texts' = Texts
         /\ SameSizes' <=> SameSizes
         /\ Literals' = Literals
BY DEF SameProgram, Lits, PoolSize, Texts, Items, Of, SameSizes, Size, Literals

\* The places of an element in a literal, given the literals and the cells.
PlacesAt(l, m, s, e) ==
  IF l[s].state \in {"evaluated", "block"} THEN {i \in 1..Size(s) : l[s].items[i] = e}
  ELSE IF l[s].state \notin {"live", "dying"} THEN {}
  ELSE {i \in (l[s].given + 1)..Size(s) : m[l[s].cells[i]] = e}

Held(h, e) == IF e \in h THEN 1 ELSE 0

LEMMA PlacesAre ==
  ASSUME NEW e
  PROVE  Places(e) = Joined(Lits, [s \in Lits |-> PlacesAt(lit, mem, s, e)])
BY DEF Places, Joined, PlacesIn, PlacesAt, HasCells, Size

LEMMA PlacesThen ==
  ASSUME SameProgram, NEW e
  PROVE  Places(e)' = Joined(Lits, [s \in Lits |-> PlacesAt(lit', mem', s, e)])
BY ProgramKept DEF Places, Joined, PlacesIn, PlacesAt, HasCells, Size, SameProgram, Lits

LEMMA PlacesFinite ==
  ASSUME KnownProgram, NEW s \in Lits, NEW l, NEW m, NEW e, l[s].given \in Nat
  PROVE  IsFiniteSet(PlacesAt(l, m, s, e))
<1>1. Size(s) \in Nat
  BY LiteralFacts
<1>2. IsFiniteSet(1..Size(s))
  BY <1>1, FS_Interval
<1>3. PlacesAt(l, m, s, e) \subseteq 1..Size(s)
  BY <1>1 DEF PlacesAt
<1> QED
  BY <1>2, <1>3, FS_Subset

LEMMA ShapeFacts ==
  ASSUME Shape
  PROVE  /\ KnownProgram /\ lit \in [Lits -> Literals]
         /\ \A s \in Lits : /\ lit[s] \in Literals /\ lit[s].state \in States
                            /\ lit[s].items \in Seq(Elems \cup {Nil})
                            /\ lit[s].cells \in Seq(1..PoolSize)
                            /\ lit[s].idx \in Nat /\ lit[s].given \in Nat
BY DEF Shape, KnownProgram, Literals

\* One literal changes, and with it the places of an element.
LEMMA PlacesChange ==
  ASSUME Shape, SameProgram, lit' \in [Lits -> Literals], NEW s \in Lits, NEW e,
         \A r \in Lits : r # s => PlacesAt(lit', mem', r, e) = PlacesAt(lit, mem, r, e),
         NEW p, p = Cardinality(PlacesAt(lit, mem, s, e)),
         NEW q, q = Cardinality(PlacesAt(lit', mem', s, e)),
         NEW m, m = Cardinality(Places(e)),
         NEW n, n = Cardinality(Places(e)')
  PROVE  n + p = m + q /\ n \in Nat /\ p \in Nat /\ m \in Nat /\ q \in Nat
<1> DEFINE P == [r \in Lits |-> PlacesAt(lit, mem, r, e)]
           Q == [r \in Lits |-> PlacesAt(lit', mem', r, e)]
<1>1. IsFiniteSet(Lits) /\ KnownProgram
  BY ShapeFacts, LiteralFacts
<1>2. \A r \in Lits : lit[r].given \in Nat /\ lit'[r].given \in Nat
  BY ShapeFacts DEF Literals
<1>3. \A r \in Lits : IsFiniteSet(P[r]) /\ IsFiniteSet(Q[r])
  BY <1>1, <1>2, PlacesFinite
<1>4. \A r \in Lits : r # s => Q[r] = P[r]
  OBVIOUS
<1>5. p = Cardinality(P[s]) /\ q = Cardinality(Q[s])
  OBVIOUS
<1>6. m = Cardinality(Joined(Lits, P)) /\ n = Cardinality(Joined(Lits, Q))
  BY PlacesAre, PlacesThen
<1> HIDE DEF P, Q
<1>7. /\ Cardinality(Joined(Lits, Q)) + Cardinality(P[s])
           = Cardinality(Joined(Lits, P)) + Cardinality(Q[s])
      /\ Cardinality(Joined(Lits, P)) \in Nat /\ Cardinality(Joined(Lits, Q)) \in Nat
      /\ Cardinality(P[s]) \in Nat /\ Cardinality(Q[s]) \in Nat
  BY <1>1, <1>3, <1>4, JoinedChanges
<1> QED
  BY <1>5, <1>6, <1>7

\* What is counted for one element before and after a step.
Owned(c, h, n, l, e) == c[e] = Held(h, e) + n[e] + l

LEMMA ElementsAre ==
  ElementsExact <=> \A e \in Elems : Owned(count, heldBy, lost, Cardinality(Places(e)), e)
BY DEF ElementsExact, Owned, Held

LEMMA ElementsThen ==
  ASSUME \A e \in Elems : Owned(count', heldBy', lost', Cardinality(Places(e)'), e)
  PROVE  ElementsExact'
BY DEF ElementsExact, Owned, Held

\* One literal changes: counter, variables and losses account for its places.
Accounted(s, e) ==
  count'[e] + Held(heldBy, e) + lost[e] + Cardinality(PlacesAt(lit, mem, s, e))
    = count[e] + Held(heldBy', e) + lost'[e] + Cardinality(PlacesAt(lit', mem', s, e))

LEMMA Balance ==
  ASSUME NEW c \in Int, NEW d \in Int, NEW h \in Int, NEW i \in Int,
         NEW x \in Int, NEW y \in Int, NEW m \in Int, NEW n \in Int,
         NEW p \in Int, NEW q \in Int,
         d + h + x + p = c + i + y + q, c = h + x + m, n + p = m + q
  PROVE  d = i + y + n
OBVIOUS

LEMMA ElementsKeep ==
  ASSUME Shape, ElementsExact, SameProgram, lit' \in [Lits -> Literals],
         count' \in [Elems -> Int], lost' \in [Elems -> Nat], NEW s \in Lits,
         \A e \in Elems : Accounted(s, e),
         \A e \in Elems : \A r \in Lits :
           r # s => PlacesAt(lit', mem', r, e) = PlacesAt(lit, mem, r, e)
  PROVE  ElementsExact' /\ count' \in [Elems -> Nat]
<1>1. ASSUME NEW e \in Elems
      PROVE  Owned(count', heldBy', lost', Cardinality(Places(e)'), e) /\ count'[e] \in Nat
  <2> DEFINE p == Cardinality(PlacesAt(lit, mem, s, e))
             q == Cardinality(PlacesAt(lit', mem', s, e))
             m == Cardinality(Places(e))
             n == Cardinality(Places(e)')
  <2>1. n + p = m + q /\ n \in Nat /\ p \in Nat /\ m \in Nat /\ q \in Nat
    <3>1. \A r \in Lits : r # s => PlacesAt(lit', mem', r, e) = PlacesAt(lit, mem, r, e)
      OBVIOUS
    <3> QED
      BY <3>1, PlacesChange
  <2>2. count'[e] + Held(heldBy, e) + lost[e] + p = count[e] + Held(heldBy', e) + lost'[e] + q
    BY DEF Accounted
  <2>3. count[e] = Held(heldBy, e) + lost[e] + m
    BY ElementsAre DEF Owned
  <2>4. /\ Held(heldBy, e) \in Nat /\ Held(heldBy', e) \in Nat
        /\ lost[e] \in Nat /\ lost'[e] \in Nat /\ count[e] \in Nat /\ count'[e] \in Int
    BY DEF Held, Shape
  <2> HIDE DEF p, q, m, n
  <2>5. count'[e] = Held(heldBy', e) + lost'[e] + n
    <3>1. /\ count[e] \in Int /\ count'[e] \in Int /\ Held(heldBy, e) \in Int
          /\ Held(heldBy', e) \in Int /\ lost[e] \in Int /\ lost'[e] \in Int
          /\ m \in Int /\ n \in Int /\ p \in Int /\ q \in Int
      BY <2>1, <2>4
    <3> QED
      BY <3>1, <2>1, <2>2, <2>3, Balance
  <2>6. count'[e] \in Nat
    BY <2>1, <2>4, <2>5
  <2> QED
    BY <2>5, <2>6 DEF Owned, n
<1>2. count' \in [Elems -> Nat]
  BY <1>1
<1> QED
  BY <1>1, <1>2, ElementsThen

(***************************************************************************)
(* What a step has to show                                                 *)
(***************************************************************************)
CellsInv == CellsExact /\ CellsFilled /\ RunsAligned

\* The containers keep their cells, and the cells what is in them.
LEMMA CellsKeep ==
  ASSUME SameProgram, CellsInv, used' = used, mem' = mem,
         \A r \in Lits : lit'[r].state \in {"live", "dying"} <=> lit[r].state \in {"live", "dying"},
         \A r \in Lits : lit[r].state \in {"live", "dying"} =>
           lit'[r].cells = lit[r].cells /\ lit'[r].items = lit[r].items
  PROVE  CellsInv'
<1>1. HasCells' = HasCells
  BY ProgramKept DEF HasCells
<1>2. \A r \in HasCells : lit'[r].cells = lit[r].cells /\ lit'[r].items = lit[r].items
  BY DEF HasCells
<1>3. CellsExact'
  <2>1. used = UNION {Range(lit[r].cells) : r \in HasCells}
    BY DEF CellsInv, CellsExact
  <2>2. UNION {Range(lit[r].cells) : r \in HasCells}
          = UNION {Range(lit'[r].cells) : r \in HasCells}
    BY <1>2
  <2>3. used' = UNION {Range(lit'[r].cells) : r \in HasCells'}
    BY <1>1, <2>1, <2>2
  <2>4. ASSUME NEW r \in HasCells', NEW q \in HasCells', r # q
        PROVE  Range(lit'[r].cells) \cap Range(lit'[q].cells) = {}
    BY <1>1, <1>2, <2>4 DEF CellsInv, CellsExact
  <2> QED
    BY <2>3, <2>4 DEF CellsExact
<1>4. CellsFilled'
  <2>1. ASSUME NEW r \in HasCells'
        PROVE  /\ Len(lit'[r].cells) = Size(r) /\ IsInjective(lit'[r].cells)
               /\ \A i \in 1..Size(r) :
                    mem[lit'[r].cells[i]] = Layout(program[r].kind, lit'[r].items)[i]
    BY <1>1, <1>2 DEF CellsInv, CellsFilled
  <2> QED
    BY <2>1 DEF CellsFilled, SameProgram, Size
<1>5. RunsAligned'
  BY <1>1, <1>2, ProgramKept DEF CellsInv, RunsAligned, SameProgram, Size
<1> QED
  BY <1>3, <1>4, <1>5 DEF CellsInv

LEMMA SufficeKeep ==
  ASSUME SameProgram, PoolsSuffice,
         \A r \in Lits : lit'[r].state = "failed" => lit[r].state = "failed"
  PROVE  PoolsSuffice'
BY ProgramKept DEF PoolsSuffice, SameProgram, Size

\* The numbers that a literal has to keep.
Formed(s, r) ==
  /\ r.state # "none" => Len(r.items) = Size(s)
  /\ r.given <= Size(s)
  /\ r.state \notin {"dying", "empty"} => r.given = 0

LEMMA ShapeKeep ==
  ASSUME Shape, SameProgram, lit' \in [Lits -> Literals],
         mem' \in [1..PoolSize -> Elems \cup {Nil}],
         heldBy' \subseteq Elems, count' \in [Elems -> Nat], lost' \in [Elems -> Nat],
         \A r \in Lits : Formed(r, lit'[r])
  PROVE  Shape'
BY ProgramKept DEF Shape, Formed, SameProgram, Size

LEMMA FormedNow ==
  ASSUME Shape
  PROVE  \A r \in Lits : Formed(r, lit[r])
BY DEF Shape, Formed

\* The literal s becomes r, and the others stay.
TurnsInto(s, r) == lit' = [lit EXCEPT ![s] = r]

LEMMA TurnedInto ==
  ASSUME Shape, NEW s \in Lits, NEW r \in Literals, TurnsInto(s, r), Formed(s, r)
  PROVE  /\ lit' \in [Lits -> Literals] /\ lit'[s] = r
         /\ \A q \in Lits : q # s => lit'[q] = lit[q]
         /\ \A q \in Lits : Formed(q, lit'[q])
<1>1. lit \in [Lits -> Literals]
  BY ShapeFacts
<1>2. lit' \in [Lits -> Literals] /\ lit'[s] = r /\ \A q \in Lits : q # s => lit'[q] = lit[q]
  BY <1>1 DEF TurnsInto
<1> QED
  BY <1>2, FormedNow

PoolsParts == Shape /\ CellsInv /\ ElementsExact /\ PoolsSuffice

LEMMA PoolsInvParts == PoolsInv <=> PoolsParts
BY DEF PoolsInv, PoolsParts, CellsInv

LEMMA PoolsInvThen ==
  ASSUME Shape', CellsInv', ElementsExact', PoolsSuffice'
  PROVE  PoolsInv'
BY DEF PoolsInv, CellsInv

\* A literal goes on without the pools, the cells and the elements' owners changing.
LEMMA LiteralKeeps ==
  ASSUME PoolsInv, SameProgram, NEW s \in Lits, NEW r \in Literals, TurnsInto(s, r),
         Formed(s, r), used' = used, mem' = mem, UNCHANGED <<heldBy, count, lost>>,
         r.state \in {"live", "dying"} <=> lit[s].state \in {"live", "dying"},
         lit[s].state \in {"live", "dying"} => r.cells = lit[s].cells /\ r.items = lit[s].items,
         \A e \in Elems : PlacesAt(lit', mem', s, e) = PlacesAt(lit, mem, s, e),
         r.state = "failed" => lit[s].state = "failed"
  PROVE  PoolsInv'
<1>1. PoolsParts
  BY PoolsInvParts
<1>2. /\ lit' \in [Lits -> Literals] /\ lit'[s] = r
      /\ \A q \in Lits : q # s => lit'[q] = lit[q]
      /\ \A q \in Lits : Formed(q, lit'[q])
  BY <1>1, TurnedInto DEF PoolsParts
<1>3. CellsInv'
  <2>1. \A q \in Lits : lit'[q].state \in {"live", "dying"} <=> lit[q].state \in {"live", "dying"}
    BY <1>2
  <2>2. \A q \in Lits : lit[q].state \in {"live", "dying"} =>
           lit'[q].cells = lit[q].cells /\ lit'[q].items = lit[q].items
    BY <1>2
  <2> QED
    BY <1>1, <2>1, <2>2, CellsKeep DEF PoolsParts
<1>4. ElementsExact'
  <2>1. count' \in [Elems -> Int] /\ lost' \in [Elems -> Nat]
    BY <1>1 DEF PoolsParts, Shape
  <2>2. \A e \in Elems : Accounted(s, e)
    BY DEF Accounted
  <2>3. \A e \in Elems : \A q \in Lits :
          q # s => PlacesAt(lit', mem', q, e) = PlacesAt(lit, mem, q, e)
    BY <1>2 DEF PlacesAt
  <2> QED
    BY <1>1, <1>2, <2>1, <2>2, <2>3, ElementsKeep DEF PoolsParts
<1>5. Shape'
  BY <1>1, <1>2, ShapeKeep DEF PoolsParts, Shape
<1>6. PoolsSuffice'
  <2>1. \A q \in Lits : lit'[q].state = "failed" => lit[q].state = "failed"
    BY <1>2
  <2> QED
    BY <1>1, <2>1, SufficeKeep DEF PoolsParts
<1> QED
  BY <1>3, <1>4, <1>5, <1>6, PoolsInvThen

(***************************************************************************)
(* Elements and literals                                                   *)
(***************************************************************************)
\* A step that is none of the literals'.
LEMMA OthersKeep ==
  ASSUME PoolsInv, UNCHANGED <<platform, program, lit, used, mem, heldBy, count, lost>>
  PROVE  PoolsInv'
<1>1. /\ SameProgram /\ lit' = lit /\ used' = used /\ mem' = mem /\ heldBy' = heldBy
      /\ count' = count /\ lost' = lost
  BY DEF SameProgram
<1>2. PoolsParts
  BY PoolsInvParts
<1>3. Shape'
  BY <1>1, <1>2, ShapeKeep, FormedNow DEF PoolsParts, Shape
<1>4. CellsInv'
  BY <1>1, <1>2, CellsKeep DEF PoolsParts
<1>5. ElementsExact'
  <2>1. ASSUME NEW e \in Elems PROVE Places(e)' = Places(e)
    BY <1>1, PlacesAre, PlacesThen
  <2>2. \A e \in Elems : Owned(count, heldBy, lost, Cardinality(Places(e)), e)
    BY <1>2, ElementsAre DEF PoolsParts
  <2>3. \A e \in Elems : Owned(count', heldBy', lost', Cardinality(Places(e)'), e)
    BY <1>1, <2>1, <2>2
  <2> QED
    BY <2>3, ElementsThen
<1>6. PoolsSuffice'
  BY <1>1, <1>2, SufficeKeep DEF PoolsParts
<1> QED
  BY <1>3, <1>4, <1>5, <1>6, PoolsInvThen

CountMoves(e, d) == count' = [count EXCEPT ![e] = @ + d]
HeldMoves(e, d) ==
  /\ Held(heldBy', e) = Held(heldBy, e) + d
  /\ \A x \in Elems : x # e => Held(heldBy', x) = Held(heldBy, x)

\* Variables take and drop elements.
LEMMA HoldingKeeps ==
  ASSUME PoolsInv, NEW s \in Lits, NEW e \in Elems, NEW d \in Int,
         UNCHANGED <<platform, program, lit, used, mem, lost>>,
         heldBy' \subseteq Elems, CountMoves(e, d), HeldMoves(e, d)
  PROVE  PoolsInv'
<1>1. SameProgram /\ lit' = lit /\ used' = used /\ mem' = mem /\ lost' = lost
  BY DEF SameProgram
<1>2. PoolsParts
  BY PoolsInvParts
<1>3. count \in [Elems -> Nat] /\ lost \in [Elems -> Nat] /\ lit \in [Lits -> Literals]
  BY <1>2 DEF PoolsParts, Shape
<1>4. count' \in [Elems -> Int] /\ lit' \in [Lits -> Literals] /\ lost' \in [Elems -> Nat]
  BY <1>1, <1>3 DEF CountMoves
<1>5. ASSUME NEW x \in Elems PROVE Accounted(s, x)
  <2> DEFINE p == Cardinality(PlacesAt(lit, mem, s, x))
  <2>1. p \in Nat
    <3>1. lit[s].given \in Nat /\ KnownProgram
      BY <1>2, ShapeFacts DEF PoolsParts
    <3>2. IsFiniteSet(PlacesAt(lit, mem, s, x))
      BY <3>1, PlacesFinite
    <3> QED
      BY <3>2, FS_CardinalityType
  <2>2. /\ count[x] \in Int /\ lost[x] \in Int
        /\ Held(heldBy, x) \in Int /\ Held(heldBy', x) \in Int
        /\ count'[x] = IF x = e THEN count[x] + d ELSE count[x]
        /\ Held(heldBy', x) = IF x = e THEN Held(heldBy, x) + d ELSE Held(heldBy, x)
    BY <1>3 DEF Held, CountMoves, HeldMoves
  <2> HIDE DEF p
  <2>3. count'[x] + Held(heldBy, x) + lost[x] + p = count[x] + Held(heldBy', x) + lost[x] + p
    BY <2>1, <2>2
  <2> QED
    BY <1>1, <2>3 DEF Accounted, p
<1>6. ElementsExact' /\ count' \in [Elems -> Nat]
  <2>1. \A x \in Elems : \A r \in Lits :
          r # s => PlacesAt(lit', mem', r, x) = PlacesAt(lit, mem, r, x)
    BY <1>1
  <2> QED
    BY <1>1, <1>2, <1>4, <1>5, <2>1, ElementsKeep DEF PoolsParts
<1>7. Shape'
  BY <1>1, <1>2, <1>3, <1>6, ShapeKeep, FormedNow DEF PoolsParts, Shape
<1>8. CellsInv'
  BY <1>1, <1>2, CellsKeep DEF PoolsParts
<1>9. PoolsSuffice'
  BY <1>1, <1>2, SufficeKeep DEF PoolsParts
<1> QED
  BY <1>6, <1>7, <1>8, <1>9, PoolsInvThen

LEMMA PlacesCounted ==
  ASSUME Shape, NEW e
  PROVE  IsFiniteSet(Places(e)) /\ Cardinality(Places(e)) \in Nat
<1> DEFINE P == [r \in Lits |-> PlacesAt(lit, mem, r, e)]
<1>1. IsFiniteSet(Lits) /\ \A r \in Lits : IsFiniteSet(P[r])
  BY ShapeFacts, LiteralFacts, PlacesFinite
<1>2. Places(e) = Joined(Lits, P)
  BY PlacesAre
<1> HIDE DEF P
<1>3. IsFiniteSet(Joined(Lits, P))
  BY <1>1, JoinedFinite
<1> QED
  BY <1>2, <1>3, FS_CardinalityType

LEMMA HoldKeeps ==
  ASSUME PoolsInv, NEW e \in UNION {program[s].elems : s \in Lits}, Hold(e)
  PROVE  PoolsInv'
<1>1. PICK s \in Lits : e \in program[s].elems
  OBVIOUS
<1>2. Shape /\ KnownProgram /\ ElementsExact
  BY ShapeFacts DEF PoolsInv
<1>3. e \in Elems
  BY <1>1, <1>2, LiteralFacts
<1>4. e \notin heldBy
  <2>1. count[e] = 0 /\ count[e] = Held(heldBy, e) + lost[e] + Cardinality(Places(e))
    BY <1>2, <1>3, ElementsAre DEF Owned, Hold, Unborn
  <2>2. Cardinality(Places(e)) \in Nat
    BY <1>2, PlacesCounted
  <2>3. lost[e] \in Nat /\ Held(heldBy, e) \in Nat
    BY <1>2, <1>3 DEF Shape, Held
  <2>4. Held(heldBy, e) = 0
    BY <2>1, <2>2, <2>3
  <2> QED
    BY <2>4 DEF Held
<1>5. /\ heldBy' = heldBy \cup {e} /\ count' = [count EXCEPT ![e] = 1]
      /\ UNCHANGED <<platform, program, lit, used, mem, lost>> /\ count[e] = 0
  BY DEF Hold, Unborn
<1>6. CountMoves(e, 1) /\ heldBy' \subseteq Elems
  BY <1>2, <1>3, <1>5 DEF Shape, CountMoves
<1>7. HeldMoves(e, 1)
  BY <1>4, <1>5 DEF Held, HeldMoves
<1> QED
  BY <1>1, <1>3, <1>5, <1>6, <1>7, HoldingKeeps

LEMMA DropKeeps ==
  ASSUME PoolsInv, NEW e \in UNION {program[s].elems : s \in Lits}, Drop(e)
  PROVE  PoolsInv'
<1>1. PICK s \in Lits : e \in program[s].elems
  OBVIOUS
<1>2. Shape /\ KnownProgram
  BY ShapeFacts DEF PoolsInv
<1>3. e \in Elems
  BY <1>1, <1>2, LiteralFacts
<1>4. /\ e \in heldBy /\ heldBy' = heldBy \ {e} /\ count' = [count EXCEPT ![e] = @ - 1]
      /\ UNCHANGED <<platform, program, lit, used, mem, lost>>
  BY DEF Drop
<1>5. CountMoves(e, -1) /\ heldBy' \subseteq Elems
  BY <1>2, <1>3, <1>4 DEF Shape, CountMoves
<1>6. HeldMoves(e, -1)
  BY <1>4 DEF Held, HeldMoves
<1> QED
  BY <1>1, <1>3, <1>4, <1>5, <1>6, HoldingKeeps

\* A literal's items, and with them the counters and losses, change.
LEMMA OwnersKeep ==
  ASSUME PoolsInv, SameProgram, NEW s \in Lits, NEW r \in Literals, TurnsInto(s, r),
         Formed(s, r), mem' = mem, heldBy' = heldBy,
         count' \in [Elems -> Int], lost' \in [Elems -> Nat],
         \A e \in Elems : Accounted(s, e)
  PROVE  /\ Shape' /\ ElementsExact'
         /\ lit'[s] = r /\ \A q \in Lits : q # s => lit'[q] = lit[q]
<1>1. Shape /\ ElementsExact
  BY DEF PoolsInv
<1>2. /\ lit' \in [Lits -> Literals] /\ lit'[s] = r
      /\ \A q \in Lits : q # s => lit'[q] = lit[q]
      /\ \A q \in Lits : Formed(q, lit'[q])
  BY <1>1, TurnedInto
<1>3. ElementsExact' /\ count' \in [Elems -> Nat]
  <2>1. \A e \in Elems : \A q \in Lits :
          q # s => PlacesAt(lit', mem', q, e) = PlacesAt(lit, mem, q, e)
    BY <1>2 DEF PlacesAt
  <2> QED
    BY <1>1, <1>2, <2>1, ElementsKeep
<1>4. Shape'
  BY <1>1, <1>2, <1>3, ShapeKeep DEF Shape
<1> QED
  BY <1>2, <1>3, <1>4

LEMMA EvaluateKeeps ==
  ASSUME PoolsInv, NEW s \in Lits, Evaluate(s)
  PROVE  PoolsInv'
<1>1. PICK items \in [1..Size(s) -> program[s].elems \cup {Nil}], messages \in SUBSET Elems :
        /\ lit' = [lit EXCEPT ![s].state = "evaluated", ![s].items = items]
        /\ count' = [e \in Elems |-> count[e] + Times(items, e) + Extra(messages, e)]
        /\ lost' = [e \in Elems |-> lost[e] + Extra(messages, e)]
  BY DEF Evaluate
<1>2. /\ SameProgram /\ used' = used /\ mem' = mem /\ heldBy' = heldBy
      /\ lit[s].state = "none"
  BY DEF Evaluate, SameProgram
<1>3. PoolsParts /\ Shape /\ KnownProgram
  BY PoolsInvParts, ShapeFacts DEF PoolsParts
<1>4. /\ Size(s) \in Nat /\ items \in Seq(Elems \cup {Nil}) /\ Len(items) = Size(s)
      /\ DOMAIN items = 1..Size(s)
  <2>1. Size(s) \in Nat /\ program[s].elems \subseteq Elems
    BY <1>3, LiteralFacts
  <2>2. items \in [1..Size(s) -> Elems \cup {Nil}]
    BY <2>1
  <2> QED
    BY <2>1, <2>2
<1> DEFINE r == [lit[s] EXCEPT !.state = "evaluated", !.items = items]
<1>5. /\ r \in Literals /\ r.state = "evaluated" /\ r.items = items
      /\ r.given = lit[s].given /\ Formed(s, r)
  BY <1>2, <1>3, <1>4, ShapeFacts DEF Literals, States, Shape, Formed
<1>6. TurnsInto(s, r)
  BY <1>1 DEF TurnsInto
<1> HIDE DEF r
<1>7. /\ lit' \in [Lits -> Literals] /\ lit'[s] = r
      /\ \A q \in Lits : q # s => lit'[q] = lit[q]
  BY <1>3, <1>5, <1>6, TurnedInto
<1>8. \A e : Times(items, e) \in Nat
  <2> TAKE e
  <2>1. IsFiniteSet(1..Size(s))
    BY <1>4, FS_Interval
  <2>2. IsFiniteSet({i \in DOMAIN items : items[i] = e})
    BY <1>4, <2>1, FS_Subset
  <2> QED
    BY <2>2, FS_CardinalityType DEF Times
<1>9. \A e : Extra(messages, e) \in Nat
  BY DEF Extra
<1>10. ASSUME NEW e \in Elems PROVE Accounted(s, e)
  <2>1. PlacesAt(lit, mem, s, e) = {}
    BY <1>2 DEF PlacesAt
  <2>2. PlacesAt(lit', mem', s, e) = {i \in 1..Size(s) : items[i] = e}
    BY <1>5, <1>7 DEF PlacesAt
  <2>3. Cardinality(PlacesAt(lit', mem', s, e)) = Times(items, e)
    BY <1>4, <2>2 DEF Times
  <2>4. Cardinality(PlacesAt(lit, mem, s, e)) = 0
    BY <2>1, FS_EmptySet
  <2>5. /\ count'[e] = count[e] + Times(items, e) + Extra(messages, e)
        /\ lost'[e] = lost[e] + Extra(messages, e)
    BY <1>1
  <2>6. count[e] \in Int /\ lost[e] \in Int /\ Held(heldBy, e) \in Int
    BY <1>3 DEF Shape, Held
  <2> QED
    BY <1>2, <1>8, <1>9, <2>3, <2>4, <2>5, <2>6 DEF Accounted
<1>11. Shape' /\ ElementsExact'
  <2>1. count' \in [Elems -> Int] /\ lost' \in [Elems -> Nat]
    BY <1>1, <1>2, <1>3, <1>8, <1>9 DEF Shape
  <2> QED
    BY <1>2, <1>5, <1>6, <1>10, <2>1, OwnersKeep
<1>12. CellsInv'
  <2>1. \A q \in Lits : lit'[q].state \in {"live", "dying"} <=> lit[q].state \in {"live", "dying"}
    BY <1>2, <1>5, <1>7
  <2>2. \A q \in Lits : lit[q].state \in {"live", "dying"} =>
          lit'[q].cells = lit[q].cells /\ lit'[q].items = lit[q].items
    BY <1>2, <1>7
  <2> QED
    BY <1>2, <1>3, <2>1, <2>2, CellsKeep DEF PoolsParts
<1>13. PoolsSuffice'
  <2>1. \A q \in Lits : lit'[q].state = "failed" => lit[q].state = "failed"
    BY <1>5, <1>7
  <2> QED
    BY <1>2, <1>3, <2>1, SufficeKeep DEF PoolsParts
<1> QED
  BY <1>11, <1>12, <1>13, PoolsInvThen

\* A literal that fails loses its elements; whether it can fail is shown where it does.
LEMMA FailKeeps ==
  ASSUME PoolsInv, SameProgram, NEW s \in Lits, Fail(s),
         lit[s].state \in {"evaluated", "block"},
         UNCHANGED <<used, mem, heldBy, count>>,
         \/ Cardinality(Texts) < Cardinality(Lits)
         \/ platform = "zephyr" /\ ~SameSizes
  PROVE  PoolsInv'
<1>1. PoolsParts /\ Shape /\ KnownProgram
  BY PoolsInvParts, ShapeFacts DEF PoolsParts
<1>2. /\ lit' = [lit EXCEPT ![s].state = "failed"]
      /\ lost' = [e \in Elems |-> lost[e] + Times(lit[s].items, e)]
  BY DEF Fail
<1>3. /\ Size(s) \in Nat /\ lit[s].items \in Seq(Elems \cup {Nil})
      /\ Len(lit[s].items) = Size(s) /\ DOMAIN lit[s].items = 1..Size(s)
  BY <1>1, ShapeFacts, LiteralFacts DEF Shape
<1> DEFINE r == [lit[s] EXCEPT !.state = "failed"]
<1>4. r \in Literals /\ r.state = "failed" /\ Formed(s, r)
  BY <1>1, <1>3, ShapeFacts DEF Literals, States, Shape, Formed
<1>5. TurnsInto(s, r)
  BY <1>2 DEF TurnsInto
<1> HIDE DEF r
<1>6. lit'[s] = r /\ \A q \in Lits : q # s => lit'[q] = lit[q]
  BY <1>1, <1>4, <1>5, TurnedInto
<1>7. \A e : Times(lit[s].items, e) \in Nat
  <2> TAKE e
  <2>1. IsFiniteSet(1..Size(s))
    BY <1>3, FS_Interval
  <2>2. IsFiniteSet({i \in DOMAIN lit[s].items : lit[s].items[i] = e})
    BY <1>3, <2>1, FS_Subset
  <2> QED
    BY <2>2, FS_CardinalityType DEF Times
<1>8. ASSUME NEW e \in Elems PROVE Accounted(s, e)
  <2>1. PlacesAt(lit', mem', s, e) = {}
    BY <1>4, <1>6 DEF PlacesAt
  <2>2. PlacesAt(lit, mem, s, e) = {i \in 1..Size(s) : lit[s].items[i] = e}
    BY DEF PlacesAt
  <2>3. Cardinality(PlacesAt(lit, mem, s, e)) = Times(lit[s].items, e)
    BY <1>3, <2>2 DEF Times
  <2>4. Cardinality(PlacesAt(lit', mem', s, e)) = 0
    BY <2>1, FS_EmptySet
  <2>5. lost'[e] = lost[e] + Times(lit[s].items, e)
    BY <1>2
  <2>6. count[e] \in Int /\ lost[e] \in Int /\ Held(heldBy, e) \in Int
    BY <1>1 DEF Shape, Held
  <2> QED
    BY <1>7, <2>3, <2>4, <2>5, <2>6 DEF Accounted
<1>9. Shape' /\ ElementsExact'
  <2>1. count' \in [Elems -> Int] /\ lost' \in [Elems -> Nat]
    BY <1>1, <1>2, <1>7 DEF Shape
  <2> QED
    BY <1>4, <1>5, <1>8, <2>1, OwnersKeep
<1>10. CellsInv'
  <2>1. \A q \in Lits : lit'[q].state \in {"live", "dying"} <=> lit[q].state \in {"live", "dying"}
    BY <1>4, <1>6
  <2>2. \A q \in Lits : lit[q].state \in {"live", "dying"} =>
          lit'[q].cells = lit[q].cells /\ lit'[q].items = lit[q].items
    BY <1>6
  <2> QED
    BY <1>1, <2>1, <2>2, CellsKeep DEF PoolsParts
<1>11. PoolsSuffice'
  <2>1. \/ Cardinality(Texts') < Cardinality(Lits')
        \/ platform' = "zephyr" /\ ~SameSizes'
    BY ProgramKept DEF SameProgram
  <2> QED
    BY <2>1 DEF PoolsSuffice, SameSizes
<1> QED
  BY <1>9, <1>10, <1>11, PoolsInvThen

\* The steps of a literal that only change its state or position.
LEMMA QuietKeeps ==
  ASSUME PoolsInv, NEW s \in Lits, NEW st, NEW k \in Nat,
         lit' = [lit EXCEPT ![s].state = st, ![s].idx = k],
         \/ st = lit[s].state
         \/ lit[s].state = "evaluated" /\ st = "block"
         \/ lit[s].state = "live" /\ st = "dying",
         UNCHANGED <<platform, program, used, mem, heldBy, count, lost>>
  PROVE  PoolsInv'
<1>1. SameProgram /\ used' = used /\ mem' = mem
  BY DEF SameProgram
<1>2. Shape /\ KnownProgram
  BY ShapeFacts DEF PoolsInv
<1> DEFINE r == [lit[s] EXCEPT !.state = st, !.idx = k]
<1>3. lit[s] \in Literals /\ lit \in [Lits -> Literals] /\ lit[s].state \in States
  BY <1>2, ShapeFacts
<1>4. /\ r \in Literals /\ r.state = st /\ r.items = lit[s].items
      /\ r.cells = lit[s].cells /\ r.given = lit[s].given
  BY <1>2, <1>3, ShapeFacts DEF Literals, States
<1>5. Formed(s, r)
  BY <1>2, <1>4, FormedNow DEF Formed
<1>6. TurnsInto(s, r)
  BY DEF TurnsInto
<1> HIDE DEF r
<1>7. lit'[s] = r
  BY <1>2, <1>4, <1>5, <1>6, TurnedInto
<1>8. \A e \in Elems : PlacesAt(lit', mem', s, e) = PlacesAt(lit, mem, s, e)
  BY <1>1, <1>2, <1>4, <1>7, FormedNow DEF PlacesAt, Formed
<1>9. /\ r.state \in {"live", "dying"} <=> lit[s].state \in {"live", "dying"}
      /\ r.state = "failed" => lit[s].state = "failed"
  BY <1>4
<1> QED
  BY <1>1, <1>4, <1>5, <1>6, <1>8, <1>9, LiteralKeeps

(***************************************************************************)
(* The pools are large enough for one instance of each literal             *)
(***************************************************************************)
OneEach == Cardinality(Texts) = Cardinality(Lits)

\* Then a place in the text has one literal.
LEMMA OneOfText ==
  ASSUME KnownProgram, OneEach
  PROVE  \A r \in Lits : program[r].text \in Texts /\ Of(program[r].text) = r
<1> DEFINE f == [r \in Lits |-> program[r].text]
<1>1. f \in Surjection(Lits, Texts)
  BY Fun_IsSurj DEF Texts
<1>2. IsFiniteSet(Lits) /\ Cardinality(Lits) = Cardinality(Texts)
  BY LiteralFacts DEF OneEach
<1>3. f \in Injection(Lits, Texts)
  BY <1>1, <1>2, FS_SurjSameCardinalityImpliesInj
<1>4. \A r, q \in Lits : program[r].text = program[q].text => r = q
  <2> TAKE r, q \in Lits
  <2>1. f[r] = f[q] => r = q
    BY <1>3, Fun_InjectionProperties
  <2> QED
    BY <2>1
<1>5. ASSUME NEW r \in Lits
      PROVE  program[r].text \in Texts /\ Of(program[r].text) = r
  <2>1. program[r].text \in Texts
    BY DEF Texts
  <2>2. /\ Of(program[r].text) \in Lits
        /\ program[Of(program[r].text)].text = program[r].text
    BY <2>1, TextFacts
  <2> QED
    BY <1>4, <2>1, <2>2
<1> QED
  BY <1>5

LEMMA SlabLasts ==
  ASSUME Shape, OneEach, NEW s \in Lits, lit[s].state = "evaluated"
  PROVE  Cardinality(Blocks(program[s].kind)) < SlabSize(program[s].kind)
<1> DEFINE k == program[s].kind
           K == {r \in Lits : program[r].kind = k}
           X == {x \in Texts : program[Of(x)].kind = k}
           f == [r \in K |-> program[r].text]
<1>1. KnownProgram /\ IsFiniteSet(Lits) /\ IsFiniteSet(Texts)
  BY ShapeFacts, LiteralFacts, TextFacts
<1>2. \A r \in Lits : program[r].text \in Texts /\ Of(program[r].text) = r
  BY <1>1, OneOfText
<1>3. f \in Injection(K, X)
  <2>1. f \in [K -> X]
    BY <1>2
  <2>2. \A r, q \in K : f[r] = f[q] => r = q
    BY <1>2
  <2> HIDE DEF K, X, f
  <2> QED
    BY <2>1, <2>2, Fun_IsInj
<1>4. IsFiniteSet(K) /\ IsFiniteSet(X)
  BY <1>1, FS_Subset
<1>5. Blocks(k) \subseteq K \ {s} /\ s \in K
  BY DEF Blocks
<1>6. SlabSize(k) = Cardinality(X)
  BY DEF SlabSize
<1> HIDE DEF K, X, f
<1>7. Cardinality(K) <= Cardinality(X)
  BY <1>3, <1>4, FS_Injection
<1>8. IsFiniteSet(K \ {s}) /\ Cardinality(K \ {s}) = Cardinality(K) - 1
  BY <1>4, <1>5, FS_RemoveElement
<1>9. Cardinality(Blocks(k)) <= Cardinality(K \ {s}) /\ IsFiniteSet(Blocks(k))
  BY <1>5, <1>8, FS_Subset
<1>10. Cardinality(Blocks(k)) \in Nat /\ Cardinality(K) \in Nat /\ Cardinality(X) \in Nat
  BY <1>4, <1>9, FS_CardinalityType
<1> HIDE DEF k
<1>11. Cardinality(Blocks(k)) < SlabSize(k)
  BY <1>6, <1>7, <1>8, <1>9, <1>10
<1> QED
  BY <1>11 DEF k

LEMMA AllocContainerKeeps ==
  ASSUME PoolsInv, NEW s \in Lits, AllocContainer(s)
  PROVE  PoolsInv'
<1>1. Shape /\ lit[s].state = "evaluated" /\ KnownProgram
  BY ShapeFacts DEF PoolsInv, AllocContainer
<1>2. SameProgram /\ UNCHANGED <<platform, program, used, mem, heldBy, count>>
  BY DEF AllocContainer, SameProgram
<1>3. CASE Cardinality(Blocks(program[s].kind)) < SlabSize(program[s].kind)
  <2>1. lit' = [lit EXCEPT ![s].state = "block"] /\ lost' = lost
    BY <1>3 DEF AllocContainer
  <2>2. lit[s] \in Literals /\ lit \in [Lits -> Literals] /\ lit[s].idx \in Nat
    BY <1>1, ShapeFacts
  <2>3. [lit[s] EXCEPT !.state = "block"] = [lit[s] EXCEPT !.state = "block", !.idx = lit[s].idx]
    BY <2>2 DEF Literals
  <2>4. lit' = [lit EXCEPT ![s].state = "block", ![s].idx = lit[s].idx]
    BY <2>1, <2>2, <2>3
  <2> QED
    BY <1>1, <1>2, <2>1, <2>2, <2>4, QuietKeeps
<1>4. CASE ~(Cardinality(Blocks(program[s].kind)) < SlabSize(program[s].kind))
  <2>1. Fail(s)
    BY <1>4 DEF AllocContainer
  <2>2. ~OneEach
    BY <1>1, <1>4, SlabLasts
  <2>3. Cardinality(Texts) < Cardinality(Lits)
    BY <1>1, <2>2, TextFacts DEF OneEach
  <2> QED
    BY <1>1, <1>2, <2>1, <2>3, FailKeeps
<1> QED
  BY <1>3, <1>4

LEMMA Multiples ==
  ASSUME NEW n \in Nat, NEW k \in Nat, NEW m \in Nat
  PROVE  /\ k * n \in Nat
         /\ k < m => k * n + n <= m * n
         /\ n > 0 => k <= k * n
<1>1. k * n \in Nat
  OBVIOUS
<1>2. k < m => k * n + n <= m * n
  <2>1. ASSUME k < m PROVE k * n + n <= m * n
    <3>1. PICK d \in Nat : m = k + 1 + d
      <4>1. m - k - 1 \in Nat /\ m = k + 1 + (m - k - 1)
        BY <2>1
      <4> QED
        BY <4>1
    <3>2. m * n = k * n + n + d * n
      BY <3>1
    <3>3. d * n \in Nat
      OBVIOUS
    <3> QED
      BY <1>1, <3>2, <3>3
  <2> QED
    BY <2>1
<1>3. n > 0 => k <= k * n
  <2>1. ASSUME n > 0 PROVE k <= k * n
    <3>1. n - 1 \in Nat
      BY <2>1
    <3>2. PICK d \in Nat : n = d + 1
      BY <2>1, <3>1
    <3>3. k * n = k * d + k /\ k * d \in Nat
      BY <3>2
    <3> QED
      BY <3>3
  <2> QED
    BY <2>1
<1> QED
  BY <1>1, <1>2, <1>3

LEMMA SameMultiple ==
  ASSUME NEW n \in Nat, NEW k \in Nat, NEW m \in Nat, NEW i \in 1..n, NEW j \in 1..n,
         k * n + i = m * n + j
  PROVE  k = m
<1>1. k * n \in Nat /\ m * n \in Nat
  BY Multiples
<1>2. CASE k < m
  <2>1. k * n + n <= m * n
    BY <1>2, Multiples
  <2> QED
    BY <1>1, <2>1
<1>3. CASE m < k
  <2>1. m * n + n <= k * n
    BY <1>3, Multiples
  <2> QED
    BY <1>1, <2>1
<1> QED
  BY <1>2, <1>3

LEMMA NextMultiple ==
  ASSUME NEW n \in Nat, n > 0, NEW i \in Nat, i > 0
  PROVE  \E k \in Nat, j \in 1..n : i = k * n + j
<1> DEFINE T == {k \in Nat : i <= k * n + n}
<1>1. i \in T
  <2>1. i <= i * n /\ i * n \in Nat
    BY Multiples
  <2> QED
    BY <2>1
<1>2. PICK k \in T : \A m \in T : k <= m
  BY <1>1, LeastNat
<1>3. k \in Nat /\ k * n \in Nat /\ i <= k * n + n
  BY <1>2, Multiples
<1>4. k * n < i
  <2>1. CASE k = 0
    BY <2>1
  <2>2. CASE k # 0
    <3>1. k - 1 \in Nat /\ k - 1 \notin T
      BY <1>2, <1>3, <2>2
    <3>2. ~(i <= (k - 1) * n + n)
      BY <3>1
    <3>3. (k - 1) * n + n = k * n
      BY <1>3
    <3> QED
      BY <1>3, <3>2, <3>3
  <2> QED
    BY <2>1, <2>2
<1>5. i - k * n \in 1..n /\ i = k * n + (i - k * n)
  BY <1>3, <1>4
<1> QED
  BY <1>3, <1>5

LEMMA RangeOf ==
  ASSUME NEW S, NEW c \in Seq(S)
  PROVE  Range(c) \subseteq S /\ Range(c) = {c[i] : i \in 1..Len(c)}
<1>1. DOMAIN c = 1..Len(c) /\ \A i \in 1..Len(c) : c[i] \in S
  OBVIOUS
<1> QED
  BY <1>1 DEF Range

LEMMA CellsUsed ==
  ASSUME Shape, CellsExact
  PROVE  /\ used \subseteq 1..PoolSize /\ IsFiniteSet(used)
         /\ FreeCells \subseteq 1..PoolSize /\ IsFiniteSet(FreeCells)
         /\ Cardinality(FreeCells) = PoolSize - Cardinality(used)
         /\ Cardinality(used) \in Nat /\ PoolSize \in Nat
<1>1. PoolSize \in Nat
  BY ShapeFacts, TextFacts
<1>2. used \subseteq 1..PoolSize
  <2>1. ASSUME NEW r \in HasCells PROVE Range(lit[r].cells) \subseteq 1..PoolSize
    <3>1. lit[r].cells \in Seq(1..PoolSize)
      BY ShapeFacts DEF HasCells
    <3> QED
      BY <3>1, RangeOf
  <2> QED
    BY <2>1 DEF CellsExact
<1>3. IsFiniteSet(1..PoolSize) /\ Cardinality(1..PoolSize) = PoolSize
  BY <1>1, FS_Interval
<1>4. IsFiniteSet(used) /\ (1..PoolSize) \cap used = used
  BY <1>2, <1>3, FS_Subset
<1>5. /\ IsFiniteSet(FreeCells)
      /\ Cardinality(FreeCells) = PoolSize - Cardinality((1..PoolSize) \cap used)
  BY <1>3, FS_Difference DEF FreeCells
<1> QED
  BY <1>1, <1>2, <1>4, <1>5, FS_CardinalityType DEF FreeCells

\* The items of the literals that have cells.
FilledItems == Joined(HasCells, [r \in Lits |-> 1..Size(r)])

LEMMA FilledCells ==
  ASSUME Shape, CellsExact, CellsFilled
  PROVE  IsFiniteSet(FilledItems) /\ Cardinality(used) <= Cardinality(FilledItems)
<1> DEFINE P == [r \in Lits |-> 1..Size(r)]
           g == [p \in FilledItems |-> lit[p[1]].cells[p[2]]]
<1>1. KnownProgram /\ HasCells \subseteq Lits /\ IsFiniteSet(Lits)
  BY ShapeFacts, LiteralFacts DEF HasCells
<1>2. IsFiniteSet(HasCells) /\ \A r \in HasCells : IsFiniteSet(P[r])
  <2>1. \A r \in Lits : IsFiniteSet(1..Size(r))
    BY <1>1, LiteralFacts, FS_Interval
  <2> QED
    BY <1>1, <2>1, FS_Subset
<1>3. IsFiniteSet(FilledItems)
  BY <1>2, JoinedFinite DEF FilledItems
<1>4. \A r \in HasCells : /\ lit[r].cells \in Seq(1..PoolSize)
                          /\ Len(lit[r].cells) = Size(r)
                          /\ Range(lit[r].cells) = {lit[r].cells[i] : i \in 1..Size(r)}
  <2> TAKE r \in HasCells
  <2>1. lit[r].cells \in Seq(1..PoolSize) /\ Len(lit[r].cells) = Size(r)
    BY <1>1, ShapeFacts DEF CellsFilled
  <2> QED
    BY <2>1 DEF Range
<1>5. \A p \in FilledItems : p[1] \in HasCells /\ p[2] \in 1..Size(p[1])
  <2> TAKE p \in FilledItems
  <2>1. p[1] \in HasCells /\ p[2] \in P[p[1]]
    BY JoinedPairs DEF FilledItems
  <2> QED
    BY <1>1, <2>1
<1>6. \A r \in HasCells : \A i \in 1..Size(r) : <<r, i>> \in FilledItems
  BY <1>1 DEF FilledItems, Joined
<1>7. g \in [FilledItems -> used]
  <2>1. ASSUME NEW p \in FilledItems PROVE lit[p[1]].cells[p[2]] \in used
    BY <1>4, <1>5 DEF CellsExact
  <2> QED
    BY <2>1
<1>8. \A c \in used : \E p \in FilledItems : g[p] = c
  <2> TAKE c \in used
  <2>1. PICK r \in HasCells : c \in Range(lit[r].cells)
    BY DEF CellsExact
  <2>2. PICK i \in 1..Size(r) : c = lit[r].cells[i]
    BY <1>4, <2>1
  <2>3. <<r, i>> \in FilledItems
    BY <1>6
  <2>4. g[<<r, i>>] = lit[r].cells[i]
    BY <2>3
  <2> QED
    BY <2>2, <2>3, <2>4
<1> HIDE DEF g
<1>9. g \in Surjection(FilledItems, used)
  BY <1>7, <1>8, Fun_IsSurj
<1> QED
  BY <1>3, <1>9, FS_Surjection

\* Their items and those of one more literal are in the text.
LEMMA ItemsInText ==
  ASSUME Shape, OneEach, NEW s \in Lits, lit[s].state = "block"
  PROVE  Cardinality(FilledItems) + Size(s) <= PoolSize
<1> DEFINE P == [r \in Lits |-> 1..Size(r)]
           D == HasCells \cup {s}
           J == Joined(D, P)
           U == UNION {Items(x) : x \in Texts}
           h == [p \in J |-> <<program[p[1]].text, p[2]>>]
<1>1. /\ KnownProgram /\ D \subseteq Lits /\ IsFiniteSet(Lits) /\ s \notin HasCells
      /\ D \ {s} = HasCells
  BY ShapeFacts, LiteralFacts DEF HasCells
<1>2. IsFiniteSet(D) /\ \A r \in D : IsFiniteSet(P[r])
  <2>1. \A r \in Lits : IsFiniteSet(1..Size(r))
    BY <1>1, LiteralFacts, FS_Interval
  <2> QED
    BY <1>1, <2>1, FS_Subset
<1>3. /\ Cardinality(J) = Cardinality(FilledItems) + Cardinality(P[s])
      /\ Cardinality(FilledItems) \in Nat
  <2> HIDE DEF P, D
  <2>1. s \in D
    BY DEF D
  <2>2. /\ Cardinality(Joined(D, P)) = Cardinality(Joined(D \ {s}, P)) + Cardinality(P[s])
        /\ Cardinality(Joined(D \ {s}, P)) \in Nat
    BY <1>2, <2>1, JoinedSplit
  <2> QED
    BY <1>1, <2>2 DEF FilledItems, P
<1>4. Cardinality(P[s]) = Size(s) /\ Size(s) \in Nat
  <2>1. Size(s) \in Nat
    BY <1>1, LiteralFacts
  <2> QED
    BY <2>1, FS_Interval
<1>5. IsFiniteSet(U) /\ PoolSize = Cardinality(U)
  <2> DEFINE Q == [x \in Texts |-> 1..Size(Of(x))]
  <2>1. \A x \in Texts : IsFiniteSet(Q[x])
    <3> TAKE x \in Texts
    <3>1. Size(Of(x)) \in Nat
      BY <1>1, TextFacts, LiteralFacts
    <3> QED
      BY <3>1, FS_Interval
  <2>2. IsFiniteSet(Joined(Texts, Q))
    BY <1>1, <2>1, TextFacts, JoinedFinite
  <2>3. U = Joined(Texts, Q)
    BY DEF Items, Joined, Size
  <2> QED
    BY <2>2, <2>3 DEF PoolSize
<1>6. \A r \in Lits : program[r].text \in Texts /\ Of(program[r].text) = r
  BY <1>1, OneOfText
<1>7. \A p \in J : /\ p = <<p[1], p[2]>> /\ p[1] \in Lits /\ p[2] \in 1..Size(p[1])
  <2> TAKE p \in J
  <2> HIDE DEF D, P
  <2>1. p = <<p[1], p[2]>> /\ p[1] \in D /\ p[2] \in P[p[1]]
    BY JoinedPairs
  <2> QED
    BY <1>1, <2>1 DEF P
<1>8. h \in [J -> U]
  <2>1. ASSUME NEW p \in J PROVE <<program[p[1]].text, p[2]>> \in U
    <3>1. p[1] \in Lits /\ p[2] \in 1..Size(p[1])
      BY <1>7
    <3>2. program[p[1]].text \in Texts /\ Of(program[p[1]].text) = p[1]
      BY <1>6, <3>1
    <3>3. <<program[p[1]].text, p[2]>> \in Items(program[p[1]].text)
      BY <3>1, <3>2 DEF Items, Size
    <3> QED
      BY <3>2, <3>3
  <2> HIDE DEF J, U
  <2> QED
    BY <2>1
<1>9. \A p, q \in J : h[p] = h[q] => p = q
  <2> TAKE p, q \in J
  <2> HAVE h[p] = h[q]
  <2> HIDE DEF J
  <2>1. program[p[1]].text = program[q[1]].text /\ p[2] = q[2]
    OBVIOUS
  <2>2. p[1] = q[1]
    BY <1>6, <1>7, <2>1
  <2> QED
    BY <1>7, <2>1, <2>2
<1> HIDE DEF h, J, U, P
<1>10. h \in Injection(J, U)
  BY <1>8, <1>9, Fun_IsInj
<1>11. Cardinality(J) <= Cardinality(U) /\ IsFiniteSet(J)
  BY <1>5, <1>10, FS_Injection
<1> QED
  BY <1>3, <1>4, <1>5, <1>11, FS_CardinalityType

LEMMA HostFits ==
  ASSUME PoolsInv, OneEach, NEW s \in Lits, lit[s].state = "block"
  PROVE  Cardinality(FreeCells) >= Size(s)
<1>1. Shape /\ CellsExact /\ CellsFilled /\ Size(s) \in Nat
  BY ShapeFacts, LiteralFacts DEF PoolsInv
<1>2. IsFiniteSet(FilledItems) /\ Cardinality(used) <= Cardinality(FilledItems)
  BY <1>1, FilledCells
<1>3. Cardinality(FilledItems) + Size(s) <= PoolSize
  BY <1>1, ItemsInText
<1>4. /\ Cardinality(FreeCells) = PoolSize - Cardinality(used)
      /\ Cardinality(used) \in Nat /\ PoolSize \in Nat
  BY <1>1, CellsUsed
<1>5. Cardinality(FilledItems) \in Nat
  BY <1>2, FS_CardinalityType
<1> QED
  BY <1>1, <1>2, <1>3, <1>4, <1>5

(***************************************************************************)
(* Runs of one size                                                        *)
(***************************************************************************)
\* The cells of r are the k-th run of n.
RunIs(r, k, n) == \A i \in 1..n : lit[r].cells[i] = k * n + i

LEMMA PoolInRuns ==
  ASSUME KnownProgram, SameSizes, NEW s \in Lits
  PROVE  PoolSize = Cardinality(Texts) * Size(s)
<1> DEFINE n == Size(s)
<1>1. n \in Nat /\ IsFiniteSet(Texts)
  BY LiteralFacts, TextFacts
<1>2. \A x \in Texts : Size(Of(x)) = n
  BY TextFacts DEF SameSizes
<1>3. UNION {Items(x) : x \in Texts} = Texts \X (1..n)
  BY <1>2 DEF Items, Size
<1>4. IsFiniteSet(1..n) /\ Cardinality(1..n) = n
  <2> HIDE DEF n
  <2> QED
    BY <1>1, FS_Interval
<1> HIDE DEF n
<1>5. Cardinality(Texts \X (1..n)) = Cardinality(Texts) * Cardinality(1..n)
  BY <1>1, <1>4, FS_Product
<1> QED
  BY <1>3, <1>4, <1>5 DEF PoolSize, n

LEMMA RunsOf ==
  ASSUME PoolsInv, SameSizes, platform = "zephyr", NEW s \in Lits
  PROVE  \A r \in HasCells : \E k \in Nat : RunIs(r, k, Size(s))
<1>1. \A r \in HasCells : Size(r) = Size(s)
  BY DEF SameSizes, HasCells
<1>2. KnownProgram /\ RunsAligned /\ PoolSize \in Nat
  BY ShapeFacts, TextFacts DEF PoolsInv
<1>3. ASSUME NEW r \in HasCells PROVE \E k \in Nat : RunIs(r, k, Size(s))
  <2>1. PICK k \in 0..PoolSize : \A i \in 1..Size(r) : lit[r].cells[i] = k * Size(r) + i
    BY <1>2 DEF RunsAligned
  <2>2. k \in Nat
    BY <1>2
  <2> QED
    BY <1>1, <2>1, <2>2 DEF RunIs
<1> QED
  BY <1>3

\* A cell of a run is taken with all of its run.
LEMMA WholeRuns ==
  ASSUME PoolsInv, SameSizes, platform = "zephyr", NEW s \in Lits,
         NEW k \in Nat, NEW i \in 1..Size(s), k * Size(s) + i \in used
  PROVE  \E r \in HasCells : RunIs(r, k, Size(s))
<1> DEFINE n == Size(s)
<1>1. Shape /\ CellsExact /\ CellsFilled /\ KnownProgram /\ n \in Nat
  BY ShapeFacts, LiteralFacts DEF PoolsInv
<1>2. PICK r \in HasCells : k * n + i \in Range(lit[r].cells)
  BY <1>1 DEF CellsExact
<1>3. r \in Lits /\ Size(r) = n
  BY DEF SameSizes, HasCells
<1>4. Range(lit[r].cells) = {lit[r].cells[j] : j \in 1..n}
  <2>1. lit[r].cells \in Seq(1..PoolSize) /\ Len(lit[r].cells) = n
    BY <1>1, <1>3, ShapeFacts DEF CellsFilled
  <2> QED
    BY <2>1, RangeOf
<1>5. PICK m \in Nat : RunIs(r, m, n)
  BY RunsOf
<1>6. PICK j \in 1..n : k * n + i = lit[r].cells[j]
  BY <1>2, <1>4
<1>7. k * n + i = m * n + j
  BY <1>5, <1>6 DEF RunIs
<1> HIDE DEF n
<1>8. k = m
  <2>1. i \in 1..n
    BY DEF n
  <2> QED
    BY <1>1, <1>7, <2>1, SameMultiple
<1> QED
  BY <1>5, <1>8 DEF n

\* A run that nobody has is free.
LEMMA FreeRun ==
  ASSUME PoolsInv, SameSizes, platform = "zephyr", NEW s \in Lits, NEW k \in Nat,
         k < Cardinality(Texts),
         \A i \in 1..Size(s) : k * Size(s) + i \notin used
  PROVE  k * Size(s) + 1 \in Starts(Size(s))
<1> DEFINE n == Size(s)
           T == Cardinality(Texts)
<1>1. KnownProgram /\ n \in Nat /\ n > 0 /\ T \in Nat
  BY ShapeFacts, LiteralFacts, TextFacts DEF PoolsInv
<1>2. PoolSize = T * n
  BY <1>1, PoolInRuns
<1>3. \A i \in 1..n : k * n + i \notin used
  OBVIOUS
<1> HIDE DEF n, T
<1>4. k * n \in Nat /\ k * n + n <= T * n /\ T * n \in Nat
  <2>1. k < T
    BY DEF T
  <2> QED
    BY <1>1, <2>1, Multiples
<1> DEFINE a == k * n
<1>5. a \in Nat /\ a + n <= PoolSize /\ PoolSize \in Nat
  BY <1>2, <1>4
<1>6. \A i \in 1..n : a + i \notin used
  BY <1>3
<1> HIDE DEF a
<1>7. \A c \in (a + 1)..(a + 1 + n - 1) : c \in 1..PoolSize /\ c - a \in 1..n /\ a + (c - a) = c
  BY <1>1, <1>5
<1>8. (a + 1)..(a + 1 + n - 1) \subseteq FreeCells
  <2> SUFFICES ASSUME NEW c \in (a + 1)..(a + 1 + n - 1) PROVE c \in FreeCells
    OBVIOUS
  <2>1. c \in 1..PoolSize /\ c - a \in 1..n /\ a + (c - a) = c
    BY <1>7
  <2>2. a + (c - a) \notin used
    BY <1>6, <2>1
  <2> QED
    BY <2>1, <2>2 DEF FreeCells
<1>9. a + 1 \in (a + 1)..(a + 1 + n - 1)
  BY <1>1, <1>5
<1>10. a + 1 \in Starts(n)
  BY <1>8, <1>9 DEF Starts
<1> QED
  BY <1>10 DEF a, n

LEMMA ZephyrFits ==
  ASSUME PoolsInv, OneEach, SameSizes, platform = "zephyr",
         NEW s \in Lits, lit[s].state = "block"
  PROVE  Starts(Size(s)) # {}
<1> DEFINE n == Size(s)
           T == Cardinality(Texts)
           f == [r \in HasCells |-> CHOOSE k \in Nat : RunIs(r, k, n)]
           I == {f[r] : r \in HasCells}
<1>1. KnownProgram /\ n \in Nat /\ T \in Nat /\ T = Cardinality(Lits) /\ IsFiniteSet(Lits)
      /\ n > 0
  BY ShapeFacts, LiteralFacts, TextFacts DEF PoolsInv, OneEach
<1>2. \A r \in HasCells : f[r] \in Nat /\ RunIs(r, f[r], n)
  <2> TAKE r \in HasCells
  <2>1. \E k \in Nat : RunIs(r, k, n)
    BY RunsOf
  <2> QED
    BY <2>1
<1>3. HasCells \subseteq Lits \ {s}
  BY DEF HasCells
<1>4. IsFiniteSet(Lits \ {s}) /\ Cardinality(Lits \ {s}) = T - 1
  BY <1>1, FS_RemoveElement
<1>5. IsFiniteSet(HasCells) /\ Cardinality(HasCells) <= T - 1
  BY <1>3, <1>4, FS_Subset
<1>6. f \in Surjection(HasCells, I)
  BY Fun_IsSurj
<1> HIDE DEF f, n, T
<1>7. IsFiniteSet(I) /\ Cardinality(I) <= Cardinality(HasCells)
  BY <1>5, <1>6, FS_Surjection
<1>8. Cardinality(I) \in Nat /\ Cardinality(HasCells) \in Nat
  BY <1>5, <1>7, FS_CardinalityType
<1> HIDE DEF I
<1>9. PICK k \in 0..(T - 1) : k \notin I
  <2>1. SUFFICES ASSUME 0..(T - 1) \subseteq I PROVE FALSE
    OBVIOUS
  <2>2. Cardinality(0..(T - 1)) = T
    <3>1. 0 \in Int /\ T - 1 \in Int
      BY <1>1
    <3>2. Cardinality(0..(T - 1)) = IF 0 > T - 1 THEN 0 ELSE (T - 1) - 0 + 1
      BY <3>1, FS_Interval
    <3> QED
      BY <1>1, <3>2
  <2>3. Cardinality(0..(T - 1)) <= Cardinality(I)
    BY <1>7, <2>1, FS_Subset
  <2> QED
    BY <1>1, <1>5, <1>7, <1>8, <2>2, <2>3
<1>10. k \in Nat /\ k < T
  BY <1>1
<1>11. ASSUME NEW i \in 1..n, k * n + i \in used PROVE FALSE
  <2>1. PICK r \in HasCells : RunIs(r, k, n)
    BY <1>10, <1>11, WholeRuns DEF n
  <2>2. f[r] \in Nat /\ RunIs(r, f[r], n)
    BY <1>2
  <2>3. 1 \in 1..n
    BY <1>1
  <2>4. lit[r].cells[1] = k * n + 1 /\ lit[r].cells[1] = f[r] * n + 1
    BY <2>1, <2>2, <2>3 DEF RunIs
  <2>5. k * n + 1 = f[r] * n + 1
    BY <2>4
  <2>6. k = f[r]
    BY <1>1, <1>10, <2>2, <2>3, <2>5, SameMultiple
  <2> QED
    BY <1>9, <2>6 DEF I
<1>12. k * n + 1 \in Starts(n)
  BY <1>10, <1>11, FreeRun DEF n, T
<1> QED
  BY <1>12 DEF n

\* First fit finds a run at a multiple of the size.
LEMMA FirstAligned ==
  ASSUME PoolsInv, SameSizes, platform = "zephyr", NEW s \in Lits,
         NEW first \in Starts(Size(s)), \A j \in Starts(Size(s)) : first <= j
  PROVE  \E k \in 0..PoolSize : first = k * Size(s) + 1
<1> DEFINE n == Size(s)
           T == Cardinality(Texts)
<1>1. KnownProgram /\ n \in Nat /\ n > 0 /\ T \in Nat /\ PoolSize = T * n /\ PoolSize \in Nat
  BY ShapeFacts, LiteralFacts, TextFacts, PoolInRuns DEF PoolsInv
<1>2. first \in FreeCells /\ first..(first + n - 1) \subseteq FreeCells
  BY DEF Starts
<1>3. first \in 1..PoolSize
  BY <1>2 DEF FreeCells
<1>4. first \in Nat /\ first > 0 /\ first <= PoolSize
  BY <1>1, <1>3
<1> HIDE DEF n, T
<1>5. PICK k \in Nat, j \in 1..n : first = k * n + j
  BY <1>1, <1>4, NextMultiple
<1>6. k * n \in Nat
  BY <1>1, Multiples
<1>7. k < T
  <2>1. SUFFICES ASSUME ~(k < T) PROVE FALSE
    OBVIOUS
  <2>2. T * n <= k * n
    <3>1. CASE T = k
      BY <1>6, <3>1
    <3>2. CASE T # k
      <4>1. T < k
        BY <1>1, <2>1, <3>2
      <4>2. T * n + n <= k * n /\ T * n \in Nat
        BY <1>1, <4>1, Multiples
      <4> QED
        BY <1>1, <1>6, <4>2
    <3> QED
      BY <3>1, <3>2
  <2>3. T * n \in Nat
    BY <1>1
  <2> QED
    BY <1>1, <1>4, <1>5, <1>6, <2>2, <2>3
<1>8. ASSUME NEW i \in 1..n, k * n + i \in used PROVE FALSE
  <2>1. PICK r \in HasCells : RunIs(r, k, n)
    BY <1>8, WholeRuns DEF n
  <2>2. r \in Lits /\ Size(r) = n
    BY DEF HasCells, SameSizes, n
  <2>3. lit[r].cells[j] = first
    BY <1>5, <2>1 DEF RunIs
  <2>4. lit[r].cells \in Seq(1..PoolSize) /\ Len(lit[r].cells) = n
    BY <2>2, ShapeFacts DEF PoolsInv, CellsFilled
  <2>5. first \in Range(lit[r].cells)
    <3>1. Range(lit[r].cells) = {lit[r].cells[x] : x \in 1..n}
      BY <2>4, RangeOf
    <3> QED
      BY <2>3, <3>1
  <2>6. first \in used
    BY <2>5 DEF PoolsInv, CellsExact
  <2> QED
    BY <1>2, <2>6 DEF FreeCells
<1>9. k * n + 1 \in Starts(n)
  BY <1>7, <1>8, FreeRun DEF n, T
<1>10. first <= k * n + 1
  BY <1>9 DEF n
<1>11. first = k * n + 1
  BY <1>1, <1>5, <1>6, <1>10
<1>12. k \in 0..PoolSize
  <2>1. k <= k * n
    BY <1>1, Multiples
  <2> QED
    BY <1>1, <1>4, <1>6, <1>11, <2>1
<1> QED
  BY <1>11, <1>12 DEF n

(***************************************************************************)
(* The cells of a new container                                            *)
(***************************************************************************)
\* As many different free cells as items.
Placed(c, n) == c \in [1..n -> FreeCells] /\ IsInjective(c)

LEMMA HostPlaces ==
  ASSUME Shape, CellsExact, NEW n \in Nat, Cardinality(FreeCells) >= n
  PROVE  \E c \in [1..n -> FreeCells] : IsInjective(c)
<1> DEFINE m == Cardinality(FreeCells)
<1>1. IsFiniteSet(FreeCells)
  BY CellsUsed
<1>2. m \in Nat /\ ExistsBijection(1..m, FreeCells)
  BY <1>1, FS_CardinalityType
<1>3. PICK f \in Bijection(1..m, FreeCells) : TRUE
  BY <1>2 DEF ExistsBijection
<1>4. /\ f \in [1..m -> FreeCells]
      /\ \A i, j \in 1..m : f[i] = f[j] => i = j
  BY <1>3, Fun_BijectionProperties
<1>5. m >= n
  OBVIOUS
<1> HIDE DEF m
<1>6. 1..n \subseteq 1..m
  BY <1>2, <1>5
<1> DEFINE c == [i \in 1..n |-> f[i]]
<1>7. c \in [1..n -> FreeCells]
  BY <1>4, <1>6
<1>8. IsInjective(c)
  BY <1>4, <1>6 DEF IsInjective
<1> QED
  BY <1>7, <1>8

\* The run that first fit takes, if there is one.
LEMMA ZephyrPlaces ==
  ASSUME Shape, CellsExact, platform = "zephyr", NEW n \in Nat, Starts(n) # {}
  PROVE  \E first \in Starts(n) : /\ \A j \in Starts(n) : first <= j
                                  /\ Place(n) = [k \in 1..n |-> first + k - 1]
<1>1. FreeCells \subseteq 1..PoolSize /\ PoolSize \in Nat
  BY CellsUsed
<1>2. Starts(n) \subseteq Nat
  <2>1. 1..PoolSize \subseteq Nat
    BY <1>1
  <2>2. FreeCells \subseteq Nat
    BY <1>1, <2>1
  <2> QED
    BY <2>2 DEF Starts
<1>3. \E i \in Starts(n) : \A j \in Starts(n) : i <= j
  BY <1>2, LeastNat
<1> DEFINE first == CHOOSE i \in Starts(n) : \A j \in Starts(n) : i <= j
<1>4. first \in Starts(n) /\ \A j \in Starts(n) : first <= j
  BY <1>3
<1>5. Place(n) = [k \in 1..n |-> first + k - 1]
  BY DEF Place
<1> HIDE DEF first
<1> QED
  BY <1>4, <1>5

LEMMA PlaceIs ==
  ASSUME Shape, CellsExact, NEW n \in Nat, Fits(n)
  PROVE  Placed(Place(n), n)
<1>1. CASE platform = "host"
  <2>1. \E c \in [1..n -> FreeCells] : IsInjective(c)
    BY <1>1, HostPlaces DEF Fits
  <2>2. Place(n) = CHOOSE c \in [1..n -> FreeCells] : IsInjective(c)
    BY <1>1 DEF Place
  <2> QED
    BY <2>1, <2>2 DEF Placed
<1>2. CASE platform # "host"
  <2>1. platform = "zephyr" /\ Starts(n) # {}
    BY <1>2, CollectionAssumption DEF Fits, Shape
  <2>2. PICK first \in Starts(n) : Place(n) = [k \in 1..n |-> first + k - 1]
    BY <2>1, ZephyrPlaces
  <2>3. first \in Nat /\ first..(first + n - 1) \subseteq FreeCells
    BY CellsUsed DEF Starts
  <2>4. \A k \in 1..n : first + k - 1 \in first..(first + n - 1)
    BY <2>3
  <2>5. Place(n) \in [1..n -> FreeCells]
    BY <2>2, <2>3, <2>4
  <2>6. \A i, j \in 1..n : Place(n)[i] = Place(n)[j] => i = j
    <3> TAKE i, j \in 1..n
    <3>1. Place(n)[i] = first + i - 1 /\ Place(n)[j] = first + j - 1
      BY <2>2
    <3> QED
      BY <2>3, <3>1
  <2>7. DOMAIN Place(n) = 1..n
    BY <2>5
  <2> QED
    BY <2>5, <2>6, <2>7 DEF Placed, IsInjective
<1> QED
  BY <1>1, <1>2

LEMMA PlacedCells ==
  ASSUME Shape, CellsExact, NEW n \in Nat, NEW c, Placed(c, n)
  PROVE  /\ c \in Seq(1..PoolSize) /\ Len(c) = n /\ DOMAIN c = 1..n
         /\ Range(c) \subseteq FreeCells /\ Range(c) \cap used = {}
         /\ \A i, j \in 1..n : c[i] = c[j] => i = j
<1>1. FreeCells \subseteq 1..PoolSize
  BY CellsUsed
<1>2. c \in [1..n -> FreeCells] /\ DOMAIN c = 1..n
  BY DEF Placed
<1>3. c \in [1..n -> 1..PoolSize]
  BY <1>1, <1>2
<1>4. c \in Seq(1..PoolSize) /\ Len(c) = n
  <2> DEFINE S == 1..PoolSize
  <2>1. c \in [1..n -> S]
    BY <1>3
  <2> HIDE DEF S
  <2>2. c \in Seq(S) /\ Len(c) = n
    BY <2>1
  <2> QED
    BY <2>2 DEF S
<1>5. Range(c) \subseteq FreeCells
  BY <1>2 DEF Range
<1>6. Range(c) \cap used = {}
  BY <1>5 DEF FreeCells
<1>7. \A i, j \in 1..n : c[i] = c[j] => i = j
  BY <1>2 DEF Placed, IsInjective
<1> QED
  BY <1>2, <1>4, <1>5, <1>6, <1>7

LEMMA CellsTaken ==
  ASSUME Shape, CellsExact, CellsFilled, NEW q \in HasCells
  PROVE  /\ lit[q].cells \in Seq(1..PoolSize) /\ Len(lit[q].cells) = Size(q)
         /\ Range(lit[q].cells) = {lit[q].cells[i] : i \in 1..Size(q)}
         /\ Range(lit[q].cells) \subseteq used
         /\ \A i \in 1..Size(q) : lit[q].cells[i] \in used /\ lit[q].cells[i] \in 1..PoolSize
<1>1. q \in Lits
  BY DEF HasCells
<1>2. lit[q].cells \in Seq(1..PoolSize) /\ Len(lit[q].cells) = Size(q)
  BY <1>1, ShapeFacts DEF CellsFilled
<1>3. Range(lit[q].cells) = {lit[q].cells[i] : i \in 1..Size(q)}
  BY <1>2, RangeOf
<1>4. Range(lit[q].cells) \subseteq used /\ Range(lit[q].cells) \subseteq 1..PoolSize
  <2>1. Range(lit[q].cells) \subseteq 1..PoolSize
    BY <1>2, RangeOf
  <2>2. Range(lit[q].cells) \subseteq used
    BY DEF CellsExact
  <2> QED
    BY <2>1, <2>2
<1> QED
  BY <1>2, <1>3, <1>4

\* The cells c get the items L, the others keep theirs.
Writes(c, L) ==
  mem' = [i \in DOMAIN mem |-> IF \E k \in DOMAIN c : c[k] = i
                               THEN L[CHOOSE k \in DOMAIN c : c[k] = i] ELSE mem[i]]

LEMMA Written ==
  ASSUME Shape, CellsExact, NEW n \in Nat, NEW c, Placed(c, n),
         NEW L \in [1..n -> Elems \cup {Nil}], Writes(c, L)
  PROVE  /\ mem' \in [1..PoolSize -> Elems \cup {Nil}]
         /\ \A k \in 1..n : mem'[c[k]] = L[k]
         /\ \A i \in used : mem'[i] = mem[i]
<1>1. mem \in [1..PoolSize -> Elems \cup {Nil}] /\ used \subseteq 1..PoolSize
  BY CellsUsed DEF Shape
<1>2. /\ c \in Seq(1..PoolSize) /\ DOMAIN c = 1..n /\ Range(c) \cap used = {}
      /\ \A i, j \in 1..n : c[i] = c[j] => i = j
  BY PlacedCells
<1>3. \A k \in 1..n : c[k] \in 1..PoolSize /\ c[k] \in Range(c)
  <2>1. Range(c) \subseteq FreeCells /\ FreeCells \subseteq 1..PoolSize
    BY PlacedCells, CellsUsed
  <2>2. \A k \in 1..n : c[k] \in Range(c)
    BY <1>2 DEF Range
  <2> QED
    BY <2>1, <2>2
<1>4. ASSUME NEW i \in 1..PoolSize PROVE mem'[i] \in Elems \cup {Nil}
  <2>1. CASE \E k \in DOMAIN c : c[k] = i
    <3> DEFINE h == CHOOSE k \in DOMAIN c : c[k] = i
    <3>1. h \in 1..n
      BY <1>2, <2>1
    <3>2. mem'[i] = L[h]
      BY <1>1, <2>1 DEF Writes
    <3> HIDE DEF h
    <3> QED
      BY <3>1, <3>2
  <2>2. CASE ~\E k \in DOMAIN c : c[k] = i
    BY <1>1, <2>2 DEF Writes
  <2> QED
    BY <2>1, <2>2
<1>5. mem' \in [1..PoolSize -> Elems \cup {Nil}]
  <2>1. DOMAIN mem = 1..PoolSize
    BY <1>1
  <2>2. mem' = [i \in 1..PoolSize |-> mem'[i]]
    BY <2>1 DEF Writes
  <2> QED
    BY <1>4, <2>2
<1>6. ASSUME NEW k \in 1..n PROVE mem'[c[k]] = L[k]
  <2> DEFINE h == CHOOSE j \in DOMAIN c : c[j] = c[k]
  <2>1. h \in 1..n /\ c[h] = c[k]
    BY <1>2
  <2>2. h = k
    BY <1>2, <2>1
  <2>3. mem'[c[k]] = L[h]
    BY <1>1, <1>2, <1>3 DEF Writes
  <2> HIDE DEF h
  <2> QED
    BY <2>2, <2>3
<1>7. ASSUME NEW i \in used PROVE mem'[i] = mem[i]
  <2>1. ~\E k \in DOMAIN c : c[k] = i
    BY <1>2, <1>3
  <2> QED
    BY <1>1, <2>1 DEF Writes
<1> QED
  BY <1>5, <1>6, <1>7

LEMMA PoolsFit ==
  ASSUME PoolsInv, NEW s \in Lits, lit[s].state = "block", ~Fits(Size(s))
  PROVE  \/ Cardinality(Texts) < Cardinality(Lits)
         \/ platform = "zephyr" /\ ~SameSizes
<1>1. CASE ~OneEach
  BY <1>1, ShapeFacts, TextFacts DEF PoolsInv, OneEach
<1>2. CASE OneEach /\ platform = "host"
  BY <1>2, HostFits DEF Fits
<1>3. CASE OneEach /\ platform # "host"
  <2>1. platform = "zephyr" /\ Starts(Size(s)) = {}
    BY <1>3, CollectionAssumption DEF Fits, PoolsInv, Shape
  <2> QED
    BY <1>3, <2>1, ZephyrFits
<1> QED
  BY <1>1, <1>2, <1>3

\* The other containers do not notice what is written to free cells.
LEMMA OthersSame ==
  ASSUME Shape, CellsExact, CellsFilled, NEW s \in Lits,
         \A q \in Lits : q # s => lit'[q] = lit[q],
         \A i \in used : mem'[i] = mem[i], NEW e
  PROVE  \A q \in Lits : q # s => PlacesAt(lit', mem', q, e) = PlacesAt(lit, mem, q, e)
<1> TAKE q \in Lits
<1> HAVE q # s
<1>1. lit'[q] = lit[q]
  OBVIOUS
<1>2. CASE q \in HasCells
  <2>1. \A i \in 1..Size(q) : mem'[lit[q].cells[i]] = mem[lit[q].cells[i]]
    BY <1>2, CellsTaken
  <2>2. lit[q].given \in Nat
    BY ShapeFacts
  <2>3. \A i \in (lit[q].given + 1)..Size(q) : i \in 1..Size(q)
    BY <2>2, ShapeFacts, LiteralFacts
  <2> QED
    BY <1>1, <2>1, <2>3 DEF PlacesAt
<1>3. CASE q \notin HasCells
  BY <1>1, <1>3 DEF PlacesAt, HasCells
<1> QED
  BY <1>2, <1>3

\* A container's cells are taken from the pool.
LEMMA CellsAdded ==
  ASSUME PoolsInv, SameProgram, NEW s \in Lits, lit[s].state = "block", Fits(Size(s)),
         NEW c, c = Place(Size(s)), lit'[s].state = "live", lit'[s].cells = c,
         lit'[s].items = lit[s].items,
         \A q \in Lits : q # s => lit'[q] = lit[q],
         used' = used \cup Range(c),
         \A i \in used : mem'[i] = mem[i],
         \A i \in 1..Size(s) : mem'[c[i]] = Layout(program[s].kind, lit[s].items)[i]
  PROVE  CellsInv'
<1>1. Shape /\ CellsExact /\ CellsFilled /\ RunsAligned /\ KnownProgram /\ Size(s) \in Nat
  BY ShapeFacts, LiteralFacts DEF PoolsInv
<1>2. Placed(c, Size(s))
  BY <1>1, PlaceIs
<1>3. /\ Len(c) = Size(s) /\ DOMAIN c = 1..Size(s) /\ Range(c) \cap used = {}
      /\ IsInjective(c)
  BY <1>1, <1>2, PlacedCells DEF Placed
<1>4. HasCells' = HasCells \cup {s} /\ s \notin HasCells
  BY ProgramKept DEF HasCells
<1>5. \A q \in HasCells : q # s /\ q \in Lits /\ lit'[q] = lit[q]
  BY <1>4 DEF HasCells
<1>6. \A q \in HasCells : Range(lit'[q].cells) \subseteq used
  BY <1>1, <1>5, CellsTaken
<1>7. CellsExact'
  <2>1. used = UNION {Range(lit[q].cells) : q \in HasCells}
    BY <1>1 DEF CellsExact
  <2>2. UNION {Range(lit[q].cells) : q \in HasCells}
          = UNION {Range(lit'[q].cells) : q \in HasCells}
    BY <1>5
  <2>3. used' = UNION {Range(lit'[q].cells) : q \in HasCells'}
    BY <1>4, <2>1, <2>2
  <2>4. ASSUME NEW q \in HasCells', NEW r \in HasCells', q # r
        PROVE  Range(lit'[q].cells) \cap Range(lit'[r].cells) = {}
    <3>1. CASE q \in HasCells /\ r \in HasCells
      BY <1>1, <1>5, <2>4, <3>1 DEF CellsExact
    <3>2. CASE q = s /\ r \in HasCells
      BY <1>3, <1>6, <3>2
    <3>3. CASE q \in HasCells /\ r = s
      BY <1>3, <1>6, <3>3
    <3> QED
      BY <1>4, <2>4, <3>1, <3>2, <3>3
  <2> QED
    BY <2>3, <2>4 DEF CellsExact
<1>8. CellsFilled'
  <2>1. ASSUME NEW q \in HasCells'
        PROVE  /\ Len(lit'[q].cells) = Size(q) /\ IsInjective(lit'[q].cells)
               /\ \A i \in 1..Size(q) :
                    mem'[lit'[q].cells[i]] = Layout(program[q].kind, lit'[q].items)[i]
    <3>1. CASE q = s
      BY <1>3, <3>1
    <3>2. CASE q \in HasCells
      <4>1. lit'[q] = lit[q] /\ \A i \in 1..Size(q) : lit[q].cells[i] \in used
        BY <1>1, <1>5, <3>2, CellsTaken
      <4>2. \A i \in 1..Size(q) : mem'[lit[q].cells[i]] = mem[lit[q].cells[i]]
        BY <4>1
      <4> QED
        BY <1>1, <3>2, <4>1, <4>2 DEF CellsFilled
    <3> QED
      BY <1>4, <3>1, <3>2
  <2> QED
    BY <2>1 DEF CellsFilled, SameProgram, Size
<1>9. RunsAligned'
  <2>1. SUFFICES ASSUME platform = "zephyr", SameSizes, NEW q \in HasCells'
                 PROVE  \E k \in 0..PoolSize :
                          \A i \in 1..Size(q) : lit'[q].cells[i] = k * Size(q) + i
    BY ProgramKept DEF RunsAligned, SameProgram, Size
  <2>2. CASE q \in HasCells
    BY <1>1, <1>5, <2>1, <2>2 DEF RunsAligned
  <2>3. CASE q = s
    <3> DEFINE n == Size(s)
    <3>1. Starts(n) # {}
      BY <2>1 DEF Fits
    <3>2. PICK first \in Starts(n) : /\ \A j \in Starts(n) : first <= j
                                     /\ c = [i \in 1..n |-> first + i - 1]
      BY <1>1, <2>1, <3>1, ZephyrPlaces
    <3>3. PICK k \in 0..PoolSize : first = k * n + 1
      BY <2>1, <3>2, FirstAligned
    <3>4. k \in Nat /\ n \in Nat
      BY <1>1, <3>3, TextFacts
    <3> HIDE DEF n
    <3>5. k * n \in Nat
      BY <3>4
    <3>6. \A i \in 1..n : c[i] = k * n + i
      BY <3>2, <3>3, <3>4, <3>5
    <3> QED
      BY <2>3, <3>6 DEF n
  <2> QED
    BY <1>4, <2>2, <2>3
<1> QED
  BY <1>7, <1>8, <1>9 DEF CellsInv

LEMMA InitItemsKeeps ==
  ASSUME PoolsInv, NEW s \in Lits, InitItems(s)
  PROVE  PoolsInv'
<1>1. PoolsParts /\ Shape /\ KnownProgram /\ CellsExact /\ CellsFilled /\ ElementsExact
  BY PoolsInvParts, ShapeFacts DEF PoolsParts, CellsInv
<1>2. SameProgram /\ heldBy' = heldBy /\ count' = count /\ lit[s].state = "block"
  BY DEF InitItems, SameProgram
<1>3. CASE ~Fits(Size(s))
  <2>1. Fail(s) /\ UNCHANGED <<used, mem, heldBy, count>>
    BY <1>3 DEF InitItems
  <2> QED
    BY <1>2, <1>3, <2>1, PoolsFit, FailKeeps
<1>4. CASE Fits(Size(s))
  <2> DEFINE n == Size(s)
             c == Place(n)
             L == Layout(program[s].kind, lit[s].items)
             r == [lit[s] EXCEPT !.state = "live", !.cells = c]
  <2>1. /\ lit' = [lit EXCEPT ![s].state = "live", ![s].cells = c]
        /\ used' = used \cup Range(c) /\ Writes(c, L) /\ lost' = lost
    BY <1>4 DEF InitItems, Writes
  <2>2. n \in Nat /\ Placed(c, n)
    BY <1>1, <1>4, LiteralFacts, PlaceIs
  <2>3. c \in Seq(1..PoolSize)
    BY <1>1, <2>2, PlacedCells
  <2>4. lit[s].items \in Seq(Elems \cup {Nil}) /\ Len(lit[s].items) = n
    BY <1>1, <1>2, ShapeFacts DEF Shape
  <2>5. L \in [1..n -> Elems \cup {Nil}]
    BY <1>1, <2>4, LayoutOf
  <2>6. TurnsInto(s, r)
    BY <2>1 DEF TurnsInto
  <2>0. L = Layout(program[s].kind, lit[s].items)
    OBVIOUS
  <2> HIDE DEF c, L, n
  <2>7. /\ r \in Literals /\ r.state = "live" /\ r.cells = c
        /\ r.items = lit[s].items /\ r.given = lit[s].given
    BY <1>1, <2>3, ShapeFacts DEF Literals, States
  <2>8. Formed(s, r)
    BY <1>1, <1>2, <2>7, FormedNow DEF Formed
  <2> HIDE DEF r
  <2>9. /\ lit' \in [Lits -> Literals] /\ lit'[s] = r
        /\ \A q \in Lits : q # s => lit'[q] = lit[q]
        /\ \A q \in Lits : Formed(q, lit'[q])
    BY <1>1, <2>6, <2>7, <2>8, TurnedInto
  <2>10. /\ mem' \in [1..PoolSize -> Elems \cup {Nil}]
         /\ \A k \in 1..n : mem'[c[k]] = L[k]
         /\ \A i \in used : mem'[i] = mem[i]
    BY <1>1, <2>1, <2>2, <2>5, Written
  <2>11. CellsInv'
    BY <1>2, <1>4, <2>1, <2>7, <2>9, <2>10, CellsAdded DEF c, L, n
  <2>12. ASSUME NEW e \in Elems PROVE Accounted(s, e)
    <3>1. PlacesAt(lit, mem, s, e) = Among(1, n, lit[s].items, e)
      BY <1>2 DEF PlacesAt, Among, n
    <3>2. lit[s].given = 0
      BY <1>1, <1>2, FormedNow DEF Formed
    <3>3. PlacesAt(lit', mem', s, e) = Among(1, n, L, e)
      BY <2>7, <2>9, <2>10, <3>2 DEF PlacesAt, Among, n
    <3>4. Cardinality(Among(1, n, L, e)) = Cardinality(Among(1, n, lit[s].items, e))
      BY <1>1, <2>0, <2>4, LayoutCounts DEF n
    <3> QED
      BY <1>2, <2>1, <3>1, <3>3, <3>4 DEF Accounted
  <2>13. count' \in [Elems -> Nat] /\ lost' \in [Elems -> Nat] /\ heldBy' \subseteq Elems
    BY <1>1, <1>2, <2>1 DEF Shape
  <2>14. ElementsExact'
    <3>1. \A e \in Elems : \A q \in Lits :
            q # s => PlacesAt(lit', mem', q, e) = PlacesAt(lit, mem, q, e)
      BY <1>1, <2>9, <2>10, OthersSame
    <3>2. count' \in [Elems -> Int]
      BY <2>13
    <3> QED
      BY <1>1, <1>2, <2>9, <2>12, <2>13, <3>1, <3>2, ElementsKeep
  <2>15. Shape'
    BY <1>1, <1>2, <2>9, <2>10, <2>13, ShapeKeep
  <2>16. PoolsSuffice'
    <3>1. \A q \in Lits : lit'[q].state = "failed" => lit[q].state = "failed"
      BY <2>7, <2>9
    <3> QED
      BY <1>1, <1>2, <3>1, SufficeKeep DEF PoolsParts
  <2> QED
    BY <2>11, <2>14, <2>15, <2>16, PoolsInvThen
<1> QED
  BY <1>3, <1>4

(***************************************************************************)
(* dealloc                                                                 *)
(***************************************************************************)
LEMMA ReleaseContainerKeeps ==
  ASSUME PoolsInv, NEW s \in Lits, ReleaseContainer(s)
  PROVE  PoolsInv'
<1>1. /\ lit[s].state = "live" /\ lit' = [lit EXCEPT ![s].state = "dying"]
      /\ UNCHANGED <<platform, program, used, mem, heldBy, count, lost>>
  BY DEF ReleaseContainer
<1>2. lit[s] \in Literals /\ lit \in [Lits -> Literals] /\ lit[s].idx \in Nat
  BY ShapeFacts DEF PoolsInv
<1>3. [lit[s] EXCEPT !.state = "dying"] = [lit[s] EXCEPT !.state = "dying", !.idx = lit[s].idx]
  BY <1>2 DEF Literals
<1>4. lit' = [lit EXCEPT ![s].state = "dying", ![s].idx = lit[s].idx]
  BY <1>1, <1>2, <1>3
<1> QED
  BY <1>1, <1>2, <1>4, QuietKeeps

\* What is released is the first of the places that are left.
LEMMA OnePlaceLess ==
  ASSUME NEW g \in Nat, NEW n \in Nat, g < n, NEW f, NEW e
  PROVE  /\ Cardinality(Among(g + 1, n, f, e))
              = Cardinality(Among(g + 1 + 1, n, f, e)) + (IF f[g + 1] = e THEN 1 ELSE 0)
         /\ Cardinality(Among(g + 1 + 1, n, f, e)) \in Nat
<1> DEFINE P == Among(g + 1, n, f, e)
           Q == Among(g + 1 + 1, n, f, e)
<1>1. IsFiniteSet((g + 1)..n) /\ IsFiniteSet((g + 1 + 1)..n)
  BY FS_Interval
<1>2. IsFiniteSet(P) /\ IsFiniteSet(Q)
  BY <1>1, FS_Subset DEF Among
<1>3. \A i : i \in P <=> (i = g + 1 /\ f[g + 1] = e) \/ i \in Q
  BY DEF Among
<1>4. g + 1 \notin Q
  BY DEF Among
<1> HIDE DEF P, Q
<1>5. Cardinality(Q) \in Nat
  BY <1>2, FS_CardinalityType
<1>6. CASE f[g + 1] = e
  <2>1. P = Q \cup {g + 1}
    BY <1>3, <1>6
  <2>2. Cardinality(Q \cup {g + 1}) = Cardinality(Q) + 1
    BY <1>2, <1>4, FS_AddElement
  <2> QED
    BY <1>5, <1>6, <2>1, <2>2 DEF P, Q
<1>7. CASE f[g + 1] # e
  <2>1. P = Q
    BY <1>3, <1>7
  <2> QED
    BY <1>5, <1>7, <2>1 DEF P, Q
<1> QED
  BY <1>6, <1>7

LEMMA ReleaseElementKeeps ==
  ASSUME PoolsInv, NEW s \in Lits, ReleaseElement(s)
  PROVE  PoolsInv'
<1> DEFINE g == lit[s].given
           n == Size(s)
           x == mem[lit[s].cells[g + 1]]
           r == [lit[s] EXCEPT !.given = @ + 1]
<1>1. /\ lit[s].state = "dying" /\ g < n /\ lit' = [lit EXCEPT ![s].given = @ + 1]
      /\ count' = [e \in Elems |-> count[e] - IF e = x THEN 1 ELSE 0]
      /\ SameProgram /\ used' = used /\ mem' = mem /\ heldBy' = heldBy /\ lost' = lost
  BY DEF ReleaseElement, SameProgram
<1>2. PoolsParts /\ Shape /\ KnownProgram
  BY PoolsInvParts, ShapeFacts DEF PoolsParts
<1>3. /\ lit[s] \in Literals /\ g \in Nat /\ n \in Nat
      /\ lit \in [Lits -> Literals]
  BY <1>2, ShapeFacts, LiteralFacts
<1>4. TurnsInto(s, r)
  BY <1>1 DEF TurnsInto
<1>5. /\ r \in Literals /\ r.given = g + 1 /\ r.state = lit[s].state
      /\ r.items = lit[s].items /\ r.cells = lit[s].cells
  <2>1. g + 1 \in Nat
    BY <1>3
  <2> QED
    BY <1>3, <2>1 DEF Literals
<1> HIDE DEF r
<1>6. Formed(s, r)
  <2>1. g + 1 <= n
    BY <1>1, <1>3
  <2> QED
    BY <1>1, <1>2, <1>5, <2>1, FormedNow DEF Formed
<1>7. lit'[s] = r /\ \A q \in Lits : q # s => lit'[q] = lit[q]
  BY <1>2, <1>4, <1>5, <1>6, TurnedInto
<1>8. ASSUME NEW e \in Elems PROVE Accounted(s, e)
  <2> DEFINE f == [i \in 1..n |-> mem[lit[s].cells[i]]]
             P == Among(g + 1, n, f, e)
             Q == Among(g + 1 + 1, n, f, e)
  <2>1. \A i \in (g + 1)..n : i \in 1..n
    BY <1>3
  <2>2. \A i \in (g + 1 + 1)..n : i \in 1..n
    BY <1>3
  <2>3. PlacesAt(lit, mem, s, e) = P
    BY <1>1, <2>1 DEF PlacesAt, Among
  <2>4. PlacesAt(lit', mem', s, e) = Q
    BY <1>1, <1>5, <1>7, <2>2 DEF PlacesAt, Among
  <2>5. f[g + 1] = x
    <3>1. g + 1 \in 1..n
      BY <1>1, <1>3
    <3> QED
      BY <3>1
  <2>6. count'[e] = count[e] - IF e = x THEN 1 ELSE 0
    BY <1>1
  <2>7. count[e] \in Int /\ lost[e] \in Int /\ Held(heldBy, e) \in Int
    BY <1>2 DEF Shape, Held
  <2> HIDE DEF f, x, g, n
  <2>8. /\ Cardinality(P) = Cardinality(Q) + (IF f[g + 1] = e THEN 1 ELSE 0)
        /\ Cardinality(Q) \in Nat
    BY <1>1, <1>3, OnePlaceLess
  <2> HIDE DEF P, Q
  <2>9. count'[e] + Held(heldBy, e) + lost[e] + Cardinality(P)
          = count[e] + Held(heldBy, e) + lost[e] + Cardinality(Q)
    <3>1. CASE e = x
      BY <2>5, <2>6, <2>7, <2>8, <3>1
    <3>2. CASE e # x
      BY <2>5, <2>6, <2>7, <2>8, <3>2
    <3> QED
      BY <3>1, <3>2
  <2> QED
    BY <1>1, <2>3, <2>4, <2>9 DEF Accounted
<1>9. Shape' /\ ElementsExact'
  <2>1. count' \in [Elems -> Int] /\ lost' \in [Elems -> Nat]
    <3>1. \A e \in Elems : count[e] - (IF e = x THEN 1 ELSE 0) \in Int
      BY <1>2 DEF Shape
    <3> HIDE DEF x
    <3> QED
      BY <1>1, <1>2, <3>1 DEF Shape
  <2> QED
    BY <1>1, <1>5, <1>4, <1>6, <1>8, <2>1, OwnersKeep
<1>10. CellsInv'
  <2>1. \A q \in Lits : lit'[q].state \in {"live", "dying"} <=> lit[q].state \in {"live", "dying"}
    BY <1>5, <1>7
  <2>2. \A q \in Lits : lit[q].state \in {"live", "dying"} =>
          lit'[q].cells = lit[q].cells /\ lit'[q].items = lit[q].items
    BY <1>5, <1>7
  <2> QED
    BY <1>1, <1>2, <2>1, <2>2, CellsKeep DEF PoolsParts
<1>11. PoolsSuffice'
  <2>1. \A q \in Lits : lit'[q].state = "failed" => lit[q].state = "failed"
    BY <1>5, <1>7
  <2> QED
    BY <1>1, <1>2, <2>1, SufficeKeep DEF PoolsParts
<1> QED
  BY <1>9, <1>10, <1>11, PoolsInvThen

LEMMA FreeItemsKeeps ==
  ASSUME PoolsInv, NEW s \in Lits, FreeItems(s)
  PROVE  PoolsInv'
<1> DEFINE r == [lit[s] EXCEPT !.state = "empty"]
<1>1. /\ lit[s].state = "dying" /\ lit[s].given = Size(s)
      /\ used' = used \ Range(lit[s].cells) /\ lit' = [lit EXCEPT ![s].state = "empty"]
      /\ SameProgram /\ mem' = mem /\ heldBy' = heldBy /\ count' = count /\ lost' = lost
  BY DEF FreeItems, SameProgram
<1>2. /\ Shape /\ KnownProgram /\ CellsExact /\ CellsFilled /\ RunsAligned /\ PoolsSuffice
      /\ lit[s] \in Literals /\ Size(s) \in Nat /\ lit[s].state \in States
  BY ShapeFacts, LiteralFacts DEF PoolsInv
<1>3. TurnsInto(s, r)
  BY <1>1 DEF TurnsInto
<1>4. /\ r \in Literals /\ r.state = "empty" /\ r.given = lit[s].given
      /\ r.items = lit[s].items
  BY <1>2 DEF Literals, States
<1> HIDE DEF r
<1>5. Formed(s, r)
  BY <1>1, <1>2, <1>4, FormedNow DEF Formed
<1>6. lit'[s] = r /\ \A q \in Lits : q # s => lit'[q] = lit[q]
  BY <1>2, <1>3, <1>4, <1>5, TurnedInto
<1>7. ASSUME NEW e \in Elems PROVE Accounted(s, e)
  <2>1. PlacesAt(lit', mem', s, e) = {}
    BY <1>4, <1>6 DEF PlacesAt
  <2>2. \A i : i \notin (Size(s) + 1)..Size(s)
    BY <1>2
  <2>3. PlacesAt(lit, mem, s, e) = {}
    BY <1>1, <2>2 DEF PlacesAt
  <2> QED
    BY <1>1, <2>1, <2>3 DEF Accounted
<1>8. Shape' /\ ElementsExact'
  <2>1. count' \in [Elems -> Int] /\ lost' \in [Elems -> Nat]
    BY <1>1, <1>2 DEF Shape
  <2> QED
    BY <1>1, <1>3, <1>4, <1>5, <1>7, <2>1, OwnersKeep
<1>9. HasCells' = HasCells \ {s} /\ s \in HasCells
  BY <1>1, <1>4, <1>6, ProgramKept DEF HasCells
<1>10. \A q \in HasCells' : q \in HasCells /\ q # s /\ lit'[q] = lit[q]
  BY <1>6, <1>9 DEF HasCells
<1>11. CellsExact'
  <2>1. \A q \in HasCells' : Range(lit[q].cells) \cap Range(lit[s].cells) = {}
    BY <1>2, <1>9, <1>10 DEF CellsExact
  <2>2. used = UNION {Range(lit[q].cells) : q \in HasCells}
    BY <1>2 DEF CellsExact
  <2>3. \A i : i \in used' <=> \E q \in HasCells' : i \in Range(lit[q].cells)
    BY <1>1, <1>9, <2>1, <2>2
  <2>4. used' = UNION {Range(lit'[q].cells) : q \in HasCells'}
    BY <1>10, <2>3
  <2>5. ASSUME NEW q \in HasCells', NEW p \in HasCells', q # p
        PROVE  Range(lit'[q].cells) \cap Range(lit'[p].cells) = {}
    BY <1>2, <1>10, <2>5 DEF CellsExact
  <2> QED
    BY <2>4, <2>5 DEF CellsExact
<1>12. CellsFilled'
  <2>1. ASSUME NEW q \in HasCells'
        PROVE  /\ Len(lit'[q].cells) = Size(q) /\ IsInjective(lit'[q].cells)
               /\ \A i \in 1..Size(q) :
                    mem[lit'[q].cells[i]] = Layout(program[q].kind, lit'[q].items)[i]
    BY <1>2, <1>10 DEF CellsFilled
  <2> QED
    BY <1>1, <2>1 DEF CellsFilled, SameProgram, Size
<1>13. RunsAligned'
  BY <1>1, <1>2, <1>10, ProgramKept DEF RunsAligned, SameProgram, Size
<1>14. PoolsSuffice'
  <2>1. \A q \in Lits : lit'[q].state = "failed" => lit[q].state = "failed"
    BY <1>4, <1>6
  <2> QED
    BY <1>1, <1>2, <2>1, SufficeKeep
<1>15. CellsInv'
  BY <1>11, <1>12, <1>13 DEF CellsInv
<1> QED
  BY <1>8, <1>14, <1>15, PoolsInvThen

LEMMA FreeContainerKeeps ==
  ASSUME PoolsInv, NEW s \in Lits, FreeContainer(s)
  PROVE  PoolsInv'
<1>1. /\ lit[s].state = "empty" /\ lit' = [lit EXCEPT ![s] = NoLit]
      /\ SameProgram /\ used' = used /\ mem' = mem /\ UNCHANGED <<heldBy, count, lost>>
  BY DEF FreeContainer, SameProgram
<1>2. Shape /\ KnownProgram /\ Size(s) \in Nat
  BY ShapeFacts, LiteralFacts DEF PoolsInv
<1>3. NoLit \in Literals /\ NoLit.state = "none" /\ NoLit.given = 0
  BY DEF NoLit, Literals, States
<1>4. TurnsInto(s, NoLit) /\ Formed(s, NoLit)
  BY <1>1, <1>2, <1>3 DEF TurnsInto, Formed
<1>5. lit'[s] = NoLit
  BY <1>2, <1>3, <1>4, TurnedInto
<1>6. \A e \in Elems : PlacesAt(lit', mem', s, e) = PlacesAt(lit, mem, s, e)
  BY <1>1, <1>3, <1>5 DEF PlacesAt
<1> HIDE DEF NoLit
<1> QED
  BY <1>1, <1>3, <1>4, <1>6, LiteralKeeps

(***************************************************************************)
(* Loops                                                                   *)
(***************************************************************************)
\* A loop moves the position of a literal at most.
LEMMA PositionKeeps ==
  ASSUME PoolsInv, NEW s \in Lits, NEW k \in Nat, lit' = [lit EXCEPT ![s].idx = k],
         UNCHANGED <<platform, program, used, mem, heldBy, count, lost>>
  PROVE  PoolsInv'
<1>1. lit[s] \in Literals /\ lit \in [Lits -> Literals]
  BY ShapeFacts DEF PoolsInv
<1>2. [lit[s] EXCEPT !.idx = k] = [lit[s] EXCEPT !.state = lit[s].state, !.idx = k]
  BY <1>1 DEF Literals
<1>3. lit' = [lit EXCEPT ![s].state = lit[s].state, ![s].idx = k]
  BY <1>1, <1>2
<1> QED
  BY <1>3, QuietKeeps

LEMMA LoopStartKeeps ==
  ASSUME PoolsInv, NEW s \in Lits, NEW l \in Loops, LoopStart(l, s)
  PROVE  PoolsInv'
<1>1. UNCHANGED <<platform, program, used, mem, heldBy, count, lost>>
  BY DEF LoopStart, OnlyLoops
<1>2. lit' = [lit EXCEPT ![s].idx = 0] \/ lit' = lit
  BY DEF LoopStart
<1>3. CASE lit' = [lit EXCEPT ![s].idx = 0]
  BY <1>1, <1>3, PositionKeeps
<1>4. CASE lit' = lit
  BY <1>1, <1>4, OthersKeep
<1> QED
  BY <1>2, <1>3, <1>4

LEMMA LoopStepKeeps ==
  ASSUME PoolsInv, NEW l \in Loops, LoopStep(l)
  PROVE  PoolsInv'
<1>1. UNCHANGED <<platform, program, used, mem, heldBy, count, lost>>
  BY DEF LoopStep, LoopTest, LoopFetch, LoopAdvance, LoopBody, LoopLeave, OnlyLoops
<1>2. lit' = lit \/ LoopAdvance(l)
  BY DEF LoopStep, LoopTest, LoopFetch, LoopBody, LoopLeave
<1>3. CASE lit' = lit
  BY <1>1, <1>3, OthersKeep
<1>4. CASE LoopAdvance(l)
  <2> DEFINE s == loop[l].over
             k == IF loop[l].kind = "for-in" THEN lit[s].idx + 1 ELSE lit[s].idx
  <2>1. lit' = [lit EXCEPT ![s].idx = k]
    BY <1>4 DEF LoopAdvance
  <2>2. CASE s \in Lits
    <3>1. k \in Nat
      BY <2>2, ShapeFacts DEF PoolsInv
    <3> HIDE DEF s, k
    <3> QED
      BY <1>1, <2>1, <2>2, <3>1, PositionKeeps
  <2>3. CASE s \notin Lits
    <3>1. DOMAIN lit = Lits
      BY DEF PoolsInv, Shape
    <3>2. lit' = lit
      BY <2>1, <2>3, <3>1, ShapeFacts DEF PoolsInv
    <3> QED
      BY <1>1, <3>2, OthersKeep
  <2> QED
    BY <2>2, <2>3
<1> QED
  BY <1>2, <1>3, <1>4

(***************************************************************************)
(* Theorems about the pools                                                *)
(***************************************************************************)
LEMMA PoolsInitially == Init => PoolsInv
<1> SUFFICES ASSUME Init PROVE PoolsInv
  OBVIOUS
<1>1. CollectionInit /\ KnownProgram
  BY DEF Init, CollectionInit, KnownProgram
<1>2. /\ lit = [s \in Lits |-> NoLit] /\ used = {}
      /\ mem = [i \in 1..PoolSize |-> Nil]
      /\ heldBy = {} /\ count = [e \in Elems |-> 0] /\ lost = [e \in Elems |-> 0]
  BY <1>1 DEF CollectionInit
<1>3. NoLit \in Literals
  BY DEF NoLit, Literals, States
<1>4. \A s \in Lits : lit[s].state = "none" /\ lit[s].given = 0
  BY <1>2 DEF NoLit
<1>5. Shape
  <2>1. \A s \in Lits : Size(s) \in Nat
    BY <1>1, LiteralFacts
  <2> QED
    BY <1>1, <1>2, <1>3, <1>4, <2>1 DEF Shape, KnownProgram
<1>6. HasCells = {}
  BY <1>4 DEF HasCells
<1>7. CellsExact /\ CellsFilled /\ RunsAligned
  BY <1>2, <1>6 DEF CellsExact, CellsFilled, RunsAligned
<1>8. ElementsExact
  <2>1. ASSUME NEW e \in Elems PROVE Owned(count, heldBy, lost, Cardinality(Places(e)), e)
    <3>1. Places(e) = {}
      BY <1>4, <1>6 DEF Places, PlacesIn
    <3>2. Cardinality(Places(e)) = 0
      BY <3>1, FS_EmptySet
    <3> QED
      BY <1>2, <3>2 DEF Owned, Held
  <2> QED
    BY <2>1, ElementsAre
<1>9. PoolsSuffice
  BY <1>4 DEF PoolsSuffice
<1> QED
  BY <1>5, <1>7, <1>8, <1>9 DEF PoolsInv

LEMMA PoolsNext ==
  ASSUME PoolsInv, [Next]_vars
  PROVE  PoolsInv'
<1>1. CASE UNCHANGED collectionVars
  <2>1. UNCHANGED <<platform, program, lit, used, mem, heldBy, count, lost>>
    BY <1>1 DEF collectionVars
  <2> QED
    BY <2>1, OthersKeep
<1>2. CASE CollectionNext
  <2>1. CASE \E e \in UNION {program[s].elems : s \in Lits} : Hold(e) \/ Drop(e)
    BY <2>1, HoldKeeps, DropKeeps
  <2>2. ASSUME NEW s \in Lits,
               \/ Evaluate(s) \/ AllocContainer(s) \/ InitItems(s)
               \/ ReleaseContainer(s) \/ ReleaseElement(s)
               \/ FreeItems(s) \/ FreeContainer(s)
        PROVE  PoolsInv'
    BY <2>2, EvaluateKeeps, AllocContainerKeeps, InitItemsKeeps, ReleaseContainerKeeps,
       ReleaseElementKeeps, FreeItemsKeeps, FreeContainerKeeps
  <2>3. ASSUME NEW s \in Lits, NEW l \in Loops, LoopStart(l, s)
        PROVE  PoolsInv'
    BY <2>3, LoopStartKeeps
  <2>4. ASSUME NEW l \in Loops, LoopStep(l)
        PROVE  PoolsInv'
    BY <2>4, LoopStepKeeps
  <2> QED
    BY <1>2, <2>1, <2>2, <2>3, <2>4 DEF CollectionNext
<1> QED
  BY <1>1, <1>2 DEF Next, vars

\* Whatever the program, its loops and its rules are, the pools, cells and counters
\* of literals stay as the invariant says (initWithItems, initWithKeysValues, dealloc).
THEOREM PoolsInvariance == Spec => []PoolsInv
<1>1. Init => PoolsInv
  BY PoolsInitially
<1>2. PoolsInv /\ [Next]_vars => PoolsInv'
  BY PoolsNext
<1> QED
  BY <1>1, <1>2, PTL DEF Spec

\* Containers have their own cells and in them the items of their literal, in the
\* order of their kind, for every program (initWithItems, initWithKeysValues).
THEOREM ContentsAlwaysExact == Spec => []ContentsExact
<1>1. PoolsInv => ContentsExact
  <2> SUFFICES ASSUME PoolsInv PROVE ContentsExact
    OBVIOUS
  <2>1. Shape /\ CellsExact /\ CellsFilled /\ KnownProgram
    BY ShapeFacts DEF PoolsInv
  <2>2. ASSUME NEW s \in Lits, lit[s].state = "live"
        PROVE  IF program[s].kind = "array"
               THEN \A i \in 1..Size(s) : mem[lit[s].cells[i]] = lit[s].items[i]
               ELSE \A i \in 1..Count(s) :
                      /\ mem[lit[s].cells[i]] = lit[s].items[2 * i - 1]
                      /\ mem[lit[s].cells[Count(s) + i]] = lit[s].items[2 * i]
    <3> DEFINE L == Layout(program[s].kind, lit[s].items)
    <3>1. lit[s].items \in Seq(Elems \cup {Nil}) /\ Len(lit[s].items) = Size(s)
      BY <2>1, <2>2, ShapeFacts DEF Shape
    <3>2. \A i \in 1..Size(s) : mem[lit[s].cells[i]] = L[i]
      BY <2>1, <2>2 DEF CellsFilled, HasCells
    <3>3. /\ program[s].kind = "array" => L = lit[s].items
          /\ program[s].kind # "array" => Paired(L, lit[s].items, Count(s))
      BY <2>1, <3>1, LayoutOf
    <3> HIDE DEF L
    <3>4. CASE program[s].kind = "array"
      BY <3>2, <3>3, <3>4
    <3>5. CASE program[s].kind # "array"
      <4>1. Count(s) \in Nat /\ Size(s) = 2 * Count(s)
        BY <2>1, <3>5, CountFacts
      <4>2. \A i \in 1..Count(s) : i \in 1..Size(s) /\ Count(s) + i \in 1..Size(s)
        BY <4>1
      <4> QED
        BY <3>2, <3>3, <3>5, <4>2 DEF Paired
    <3> QED
      BY <3>4, <3>5
  <2> QED
    BY <2>1, <2>2 DEF ContentsExact
<1> QED
  BY <1>1, PoolsInvariance, PTL

\* The reference counter of an element is the number of its owners, also while
\* literals are built, fail and are deallocated, in any order.
THEOREM ElementsAlwaysExact == Spec => []ElementsExact
<1>1. PoolsInv => ElementsExact
  BY DEF PoolsInv
<1> QED
  BY <1>1, PoolsInvariance, PTL

\* A literal only fails if the program has two instances of one place in the text, or
\* if the pool's cells must be contiguous and literals have several sizes: first fit
\* does not fragment a pool of equal runs (_count_item_slots, _count_alloc_calls).
THEOREM PoolsAlwaysSuffice == Spec => []PoolsSuffice
<1>1. PoolsInv => PoolsSuffice
  BY DEF PoolsInv
<1> QED
  BY <1>1, PoolsInvariance, PTL

(***************************************************************************)
(* What a loop sees                                                        *)
(***************************************************************************)
\* No nil in literals, owners that outlive loops, one for-in loop over a container.
KeepsCollectionRules == AllCollectionRules \subseteq CollectionRules

PositionIn(r, c) == IF r.kind = "for-in" THEN c.idx ELSE r.idx

\* The loop r over the container c, with the cells m.
Good(r, c, m) ==
  /\ c.state = "live"
  /\ r.kind = "block" => program[r.over].kind = "array"
  /\ PositionIn(r, c) \in 0..Count(r.over) /\ Len(r.seen) = PositionIn(r, c)
  /\ \A i \in 1..PositionIn(r, c) : r.seen[i] = m[c.cells[i]]
  /\ r.pc \in {"fetch", "advance"} => PositionIn(r, c) < Count(r.over)
  /\ r.pc = "advance" => r.got = m[c.cells[PositionIn(r, c) + 1]]
  /\ r.pc = "body" => PositionIn(r, c) > 0 /\ r.got = m[c.cells[PositionIn(r, c)]]
  /\ r.pc = "done" => PositionIn(r, c) = Count(r.over)

GoodLoop(r, ls, m) ==
  IF r.pc = "idle" THEN r.over = Nil ELSE r.over \in Lits /\ Good(r, ls[r.over], m)

Single(L) ==
  \A l, m \in Loops : L[l].over = L[m].over /\ L[l].over # Nil
                      /\ L[l].kind = "for-in" /\ L[m].kind = "for-in" => l = m

\* What the literals have to be for the loops.
Walkable(s, c) ==
  /\ c.state # "none" => \A i \in 1..Size(s) : c.items[i] # Nil
  /\ c.idx <= Count(s)

LoopsParts(L, ls, m) ==
  /\ L \in [Loops -> LoopRecords]
  /\ \A s \in Lits : Walkable(s, ls[s])
  /\ \A l \in Loops : GoodLoop(L[l], ls, m)
  /\ Single(L)

LEMMA VisitedAt ==
  ASSUME KnownProgram, NEW s \in Lits
  PROVE  \A i \in 1..Count(s) : Visited(s)[i] = mem[lit[s].cells[i]]
BY DEF Visited

LEMMA GoodIs ==
  ASSUME KnownProgram, NEW l \in Loops
  PROVE  LoopState(l) <=> loop[l].over \in Lits /\ Good(loop[l], lit[loop[l].over], mem)
<1> DEFINE s == loop[l].over
           p == Position(l)
<1>1. p = PositionIn(loop[l], lit[s])
  BY DEF Position, PositionIn
<1>2. SUFFICES ASSUME s \in Lits, p \in 0..Count(s)
               PROVE  LoopState(l) <=> s \in Lits /\ Good(loop[l], lit[s], mem)
  BY <1>1 DEF LoopState, Good
<1>3. \A i \in 1..Count(s) : Visited(s)[i] = mem[lit[s].cells[i]]
  BY <1>2, VisitedAt
<1>4. Count(s) \in Nat
  BY <1>2, CountFacts
<1>5. /\ \A i \in 1..p : i \in 1..Count(s)
      /\ p < Count(s) => p + 1 \in 1..Count(s)
      /\ p > 0 => p \in 1..Count(s)
  <2> HIDE DEF p, s
  <2> QED
    BY <1>2, <1>4
<1> QED
  BY <1>1, <1>2, <1>3, <1>5 DEF LoopState, Good

LEMMA LoopsInvParts == KnownProgram => (LoopsInv <=> LoopsParts(loop, lit, mem))
BY GoodIs DEF LoopsInv, LoopsParts, GoodLoop, Single, Walkable

LEMMA LoopsInvThen ==
  ASSUME KnownProgram, SameProgram, LoopsParts(loop', lit', mem')
  PROVE  LoopsInv'
<1>1. KnownProgram' => (LoopsInv' <=> LoopsParts(loop, lit, mem)')
  BY LoopsInvParts, PTL
<1>2. KnownProgram'
  BY DEF KnownProgram, SameProgram
<1>3. LoopsParts(loop, lit, mem)' <=> LoopsParts(loop', lit', mem')
  <2>1. Lits' = Lits /\ \A s : Size(s)' = Size(s) /\ Count(s)' = Count(s)
    BY ProgramKept DEF SameProgram, Count, Size
  <2>2. LoopRecords' = LoopRecords
    BY <2>1 DEF LoopRecords
  <2>3. ASSUME NEW s PROVE Walkable(s, lit[s])' <=> Walkable(s, lit'[s])
    BY <2>1, SMTT(60) DEF Walkable
  <2>4. ASSUME NEW l PROVE GoodLoop(loop[l], lit, mem)' <=> GoodLoop(loop'[l], lit', mem')
    BY <2>1, SMTT(60) DEF GoodLoop, Good, SameProgram
  <2>5. Single(loop)' <=> Single(loop')
    BY DEF Single
  <2> QED
    BY <2>1, <2>2, <2>3, <2>4, <2>5, SMTT(60) DEF LoopsParts
<1> QED
  BY <1>1, <1>2, <1>3

\* A loop does not notice other positions and cells change.
LEMMA GoodKeeps ==
  ASSUME KnownProgram, NEW r, NEW c, NEW d, NEW m, NEW n, r.over \in Lits,
         Good(r, c, m), PositionIn(r, d) = PositionIn(r, c),
         d.state = c.state, d.cells = c.cells,
         \A i \in 1..Count(r.over) : n[c.cells[i]] = m[c.cells[i]]
  PROVE  Good(r, d, n)
<1> DEFINE p == PositionIn(r, c)
           k == Count(r.over)
<1>1. k \in Nat /\ p \in 0..k
  BY CountFacts DEF Good
<1> HIDE DEF p, k
<1>2. /\ \A i \in 1..p : i \in 1..k
      /\ p < k => p + 1 \in 1..k
      /\ p > 0 => p \in 1..k
  BY <1>1
<1> QED
  BY <1>2 DEF Good, p, k

\* A literal that no loop goes over changes.
LEMMA LiteralLoops ==
  ASSUME PoolsInv, LoopsInv, SameProgram, loop' = loop, NEW s \in Lits, NEW c,
         TurnsInto(s, c), Walkable(s, c),
         lit[s].state = "live" => Looped(s) = {},
         \A i \in used : mem'[i] = mem[i]
  PROVE  LoopsInv'
<1>1. Shape /\ KnownProgram /\ CellsExact /\ CellsFilled /\ lit \in [Lits -> Literals]
  BY ShapeFacts DEF PoolsInv
<1>2. LoopsParts(loop, lit, mem)
  BY <1>1, LoopsInvParts
<1>3. lit'[s] = c /\ \A q \in Lits : q # s => lit'[q] = lit[q]
  BY <1>1 DEF TurnsInto
<1>4. \A q \in Lits : Walkable(q, lit'[q])
  BY <1>2, <1>3 DEF LoopsParts
<1>5. ASSUME NEW l \in Loops, loop[l].pc # "idle"
      PROVE  loop[l].over \in Lits /\ Good(loop[l], lit'[loop[l].over], mem')
  <2> DEFINE r == loop[l]
             q == r.over
  <2>1. q \in Lits /\ Good(r, lit[q], mem) /\ lit[q].state = "live"
    BY <1>2, <1>5 DEF LoopsParts, GoodLoop, Good
  <2>2. q # s
    BY <2>1 DEF Looped
  <2>3. lit'[q] = lit[q]
    BY <1>3, <2>1, <2>2
  <2>4. \A i \in 1..Size(q) : lit[q].cells[i] \in used
    BY <1>1, <2>1, CellsTaken DEF HasCells
  <2>5. Count(q) \in Nat /\ Size(q) \in Nat /\ Count(q) <= Size(q)
    BY <1>1, <2>1, CountFacts, LiteralFacts
  <2> HIDE DEF r, q
  <2>6. \A i \in 1..Count(q) : i \in 1..Size(q)
    BY <2>5
  <2>7. \A i \in 1..Count(q) : mem'[lit[q].cells[i]] = mem[lit[q].cells[i]]
    BY <2>4, <2>6
  <2>8. Good(r, lit[q], mem')
    BY <1>1, <2>1, <2>7, GoodKeeps DEF q
  <2> QED
    BY <2>1, <2>3, <2>8 DEF r, q
<1>6. LoopsParts(loop', lit', mem')
  BY <1>2, <1>4, <1>5 DEF LoopsParts, GoodLoop
<1> QED
  BY <1>1, <1>6, LoopsInvThen

\* Nothing that a loop looks at changes.
LEMMA LoopsStay ==
  ASSUME PoolsInv, LoopsInv, UNCHANGED <<platform, program, lit, mem, loop>>
  PROVE  LoopsInv'
<1>1. KnownProgram /\ SameProgram /\ LoopsParts(loop, lit, mem)
  BY ShapeFacts, LoopsInvParts DEF PoolsInv, SameProgram
<1>2. LoopsParts(loop', lit', mem')
  BY <1>1
<1> QED
  BY <1>1, <1>2, LoopsInvThen

\* A literal whose items and position stay.
LEMMA WalkableKeeps ==
  ASSUME PoolsInv, LoopsInv, NEW s \in Lits, NEW c, c.items = lit[s].items,
         c.idx = lit[s].idx, lit[s].state # "none"
  PROVE  Walkable(s, c)
<1>1. LoopsParts(loop, lit, mem)
  BY ShapeFacts, LoopsInvParts DEF PoolsInv
<1> QED
  BY <1>1 DEF LoopsParts, Walkable

LEMMA EvaluateLoops ==
  ASSUME PoolsInv, LoopsInv, KeepsCollectionRules, NEW s \in Lits, Evaluate(s)
  PROVE  LoopsInv'
<1>1. PICK items \in [1..Size(s) -> program[s].elems \cup {Nil}] :
        /\ "no nil" \in CollectionRules => Times(items, Nil) = 0
        /\ lit' = [lit EXCEPT ![s].state = "evaluated", ![s].items = items]
  BY DEF Evaluate
<1>2. SameProgram /\ loop' = loop /\ mem' = mem /\ lit[s].state = "none"
  BY DEF Evaluate, SameProgram
<1>3. Shape /\ KnownProgram /\ lit[s] \in Literals /\ Size(s) \in Nat
  BY ShapeFacts, LiteralFacts DEF PoolsInv
<1>4. \A i \in 1..Size(s) : items[i] # Nil
  <2> DEFINE N == {i \in DOMAIN items : items[i] = Nil}
  <2>1. Cardinality(N) = 0
    BY <1>1 DEF Times, KeepsCollectionRules, AllCollectionRules
  <2>2. DOMAIN items = 1..Size(s)
    OBVIOUS
  <2>3. IsFiniteSet(1..Size(s))
    BY <1>3, FS_Interval
  <2>4. IsFiniteSet(N)
    BY <2>2, <2>3, FS_Subset
  <2> HIDE DEF N
  <2>5. N = {}
    BY <2>1, <2>4, FS_EmptySet
  <2> QED
    BY <2>2, <2>5 DEF N
<1>5. LoopsParts(loop, lit, mem)
  BY <1>3, LoopsInvParts
<1> DEFINE r == [lit[s] EXCEPT !.state = "evaluated", !.items = items]
<1>6. TurnsInto(s, r)
  BY <1>1 DEF TurnsInto
<1>7. r.items = items /\ r.idx = lit[s].idx
  BY <1>3 DEF Literals
<1> HIDE DEF r
<1>8. Walkable(s, r)
  BY <1>4, <1>5, <1>7 DEF LoopsParts, Walkable
<1> QED
  BY <1>2, <1>6, <1>8, LiteralLoops

\* The other steps of a literal.
LEMMA LiteralStepLoops ==
  ASSUME PoolsInv, LoopsInv, KeepsCollectionRules, NEW s \in Lits,
         \/ AllocContainer(s) \/ InitItems(s) \/ ReleaseContainer(s)
         \/ ReleaseElement(s) \/ FreeItems(s)
  PROVE  LoopsInv'
<1>1. /\ Shape /\ KnownProgram /\ CellsExact /\ CellsFilled
      /\ lit \in [Lits -> Literals] /\ lit[s] \in Literals
  BY ShapeFacts DEF PoolsInv
<1>2. SameProgram /\ loop' = loop
  BY DEF SameProgram, AllocContainer, InitItems, ReleaseContainer, ReleaseElement, FreeItems
<1>3. lit[s].state # "none" /\ (lit[s].state = "live" => Looped(s) = {})
  BY DEF AllocContainer, InitItems, ReleaseContainer, ReleaseElement, FreeItems,
     KeepsCollectionRules, AllCollectionRules
<1>4. \A i \in used : mem'[i] = mem[i]
  <2>1. CASE mem' = mem
    BY <2>1
  <2>2. CASE mem' # mem
    <3>1. InitItems(s) /\ Fits(Size(s))
      BY <2>2 DEF AllocContainer, InitItems, ReleaseContainer, ReleaseElement, FreeItems
    <3> DEFINE c == Place(Size(s))
               L == Layout(program[s].kind, lit[s].items)
    <3>2. Writes(c, L) /\ lit[s].state = "block"
      BY <3>1 DEF InitItems, Writes
    <3>3. Size(s) \in Nat /\ Placed(c, Size(s))
      BY <1>1, <3>1, LiteralFacts, PlaceIs
    <3>4. lit[s].items \in Seq(Elems \cup {Nil}) /\ Len(lit[s].items) = Size(s)
      BY <1>1, <3>2, ShapeFacts DEF Shape
    <3>5. L \in [1..Size(s) -> Elems \cup {Nil}]
      BY <1>1, <3>4, LayoutOf
    <3> HIDE DEF c, L
    <3> QED
      BY <1>1, <3>2, <3>3, <3>5, Written
  <2> QED
    BY <2>1, <2>2
<1>5. \E c : TurnsInto(s, c) /\ c.items = lit[s].items /\ c.idx = lit[s].idx
  <2>1. CASE \E st : lit' = [lit EXCEPT ![s].state = st]
    <3>1. PICK st : lit' = [lit EXCEPT ![s].state = st]
      BY <2>1
    <3> DEFINE c == [lit[s] EXCEPT !.state = st]
    <3>2. TurnsInto(s, c)
      BY <3>1 DEF TurnsInto
    <3>3. c.items = lit[s].items /\ c.idx = lit[s].idx
      BY <1>1 DEF Literals
    <3> QED
      BY <3>2, <3>3
  <2>2. CASE lit' = [lit EXCEPT ![s].given = @ + 1]
    <3> DEFINE c == [lit[s] EXCEPT !.given = @ + 1]
    <3>1. TurnsInto(s, c)
      BY <2>2 DEF TurnsInto
    <3>2. c.items = lit[s].items /\ c.idx = lit[s].idx
      BY <1>1 DEF Literals
    <3> QED
      BY <3>1, <3>2
  <2>3. CASE \E x : lit' = [lit EXCEPT ![s].state = "live", ![s].cells = x]
    <3>1. PICK x : lit' = [lit EXCEPT ![s].state = "live", ![s].cells = x]
      BY <2>3
    <3> DEFINE c == [lit[s] EXCEPT !.state = "live", !.cells = x]
    <3>2. TurnsInto(s, c)
      BY <3>1 DEF TurnsInto
    <3>3. c.items = lit[s].items /\ c.idx = lit[s].idx
      BY <1>1 DEF Literals
    <3> QED
      BY <3>2, <3>3
  <2> QED
    BY <2>1, <2>2, <2>3
    DEF AllocContainer, InitItems, ReleaseContainer, ReleaseElement, FreeItems, Fail
<1>6. PICK c : TurnsInto(s, c) /\ c.items = lit[s].items /\ c.idx = lit[s].idx
  BY <1>5
<1>7. Walkable(s, c)
  BY <1>3, <1>6, WalkableKeeps
<1> QED
  BY <1>2, <1>3, <1>4, <1>6, <1>7, LiteralLoops

LEMMA FreeContainerLoops ==
  ASSUME PoolsInv, LoopsInv, NEW s \in Lits, FreeContainer(s)
  PROVE  LoopsInv'
<1>1. /\ lit[s].state = "empty" /\ TurnsInto(s, NoLit) /\ SameProgram
      /\ loop' = loop /\ mem' = mem
  BY DEF FreeContainer, TurnsInto, SameProgram
<1>2. Count(s) \in Nat
  BY ShapeFacts, CountFacts DEF PoolsInv
<1>3. Walkable(s, NoLit)
  BY <1>2 DEF Walkable, NoLit
<1> QED
  BY <1>1, <1>3, LiteralLoops

\* No other for-in loop goes over s.
Alone(l, s) == \A m \in Loops : m # l /\ loop[m].over = s => loop[m].kind # "for-in"

\* A loop takes a step, which may move the position of a literal.
LEMMA LoopMoves ==
  ASSUME PoolsInv, LoopsInv, SameProgram, mem' = mem, NEW l \in Loops,
         NEW new \in LoopRecords, loop' = [loop EXCEPT ![l] = new],
         NEW s \in Lits, NEW k \in Nat, k <= Count(s), lit' = [lit EXCEPT ![s].idx = k],
         k = lit[s].idx \/ Alone(l, s),
         GoodLoop(new, lit', mem),
         new.over = Nil \/ new.kind # "for-in" \/ Alone(l, new.over)
  PROVE  LoopsInv'
<1>1. Shape /\ KnownProgram /\ lit \in [Lits -> Literals]
  BY ShapeFacts DEF PoolsInv
<1>2. LoopsParts(loop, lit, mem)
  BY <1>1, LoopsInvParts
<1>3. /\ lit'[s].idx = k /\ lit'[s].state = lit[s].state
      /\ lit'[s].cells = lit[s].cells /\ lit'[s].items = lit[s].items
      /\ \A q \in Lits : q # s => lit'[q] = lit[q]
  BY <1>1 DEF Literals
<1>4. loop' \in [Loops -> LoopRecords] /\ loop'[l] = new
      /\ \A m \in Loops : m # l => loop'[m] = loop[m]
  BY <1>2 DEF LoopsParts
<1>5. \A q \in Lits : Walkable(q, lit'[q])
  BY <1>2, <1>3 DEF LoopsParts, Walkable
<1>6. ASSUME NEW m \in Loops, m # l PROVE GoodLoop(loop[m], lit', mem)
  <2> DEFINE r == loop[m]
             q == r.over
  <2>1. GoodLoop(r, lit, mem)
    BY <1>2 DEF LoopsParts
  <2>2. CASE r.pc = "idle"
    BY <2>1, <2>2 DEF GoodLoop
  <2>3. CASE r.pc # "idle"
    <3>1. q \in Lits /\ Good(r, lit[q], mem)
      BY <2>1, <2>3 DEF GoodLoop
    <3>2. PositionIn(r, lit'[q]) = PositionIn(r, lit[q])
      <4>1. CASE q # s
        BY <1>3, <3>1, <4>1
      <4>2. CASE q = s
        BY <1>3, <1>6, <4>2 DEF PositionIn, Alone
      <4> QED
        BY <4>1, <4>2
    <3>3. lit'[q].state = lit[q].state /\ lit'[q].cells = lit[q].cells
      BY <1>3, <3>1
    <3>4. Good(r, lit'[q], mem)
      BY ZenonT(60), <1>1, <3>1, <3>2, <3>3, GoodKeeps
    <3> QED
      BY <2>3, <3>1, <3>4 DEF GoodLoop
  <2> QED
    BY <2>2, <2>3
<1>7. \A m \in Loops : GoodLoop(loop'[m], lit', mem)
  BY <1>4, <1>6
<1>8. Single(loop')
  <2>1. Single(loop)
    BY <1>2 DEF LoopsParts
  <2> QED
    BY <1>4, <2>1 DEF Single, Alone
<1>9. LoopsParts(loop', lit', mem')
  BY <1>4, <1>5, <1>7, <1>8 DEF LoopsParts
<1> QED
  BY <1>1, <1>9, LoopsInvThen

LEMMA SameIndex ==
  ASSUME PoolsInv, NEW s \in Lits
  PROVE  lit = [lit EXCEPT ![s].idx = lit[s].idx]
<1>1. lit \in [Lits -> Literals]
  BY DEF PoolsInv, Shape
<1>2. [lit[s] EXCEPT !.idx = lit[s].idx] = lit[s]
  BY <1>1 DEF Literals
<1> QED
  BY <1>1, <1>2

LEMMA NoLoopIs ==
  /\ NoLoop \in LoopRecords /\ NoLoop.pc = "idle" /\ NoLoop.kind = "for-in"
  /\ NoLoop.over = Nil /\ NoLoop.idx = 0 /\ NoLoop.seen = <<>>
<1>1. <<>> \in Seq(Elems)
  OBVIOUS
<1> QED
  BY <1>1 DEF NoLoop, LoopRecords

LEMMA LoopStartLoops ==
  ASSUME PoolsInv, LoopsInv, KeepsCollectionRules, NEW s \in Lits, NEW l \in Loops,
         LoopStart(l, s)
  PROVE  LoopsInv'
<1>1. /\ SameProgram /\ mem' = mem /\ lit[s].state = "live" /\ loop[l].pc = "idle"
  BY DEF LoopStart, OnlyLoops, SameProgram, Step
<1>2. Shape /\ KnownProgram /\ lit \in [Lits -> Literals] /\ Count(s) \in Nat
  BY ShapeFacts, CountFacts DEF PoolsInv
<1>3. LoopsParts(loop, lit, mem)
  BY <1>2, LoopsInvParts
<1>4. CASE /\ \A m \in Looped(s) : loop[m].kind = "block"
           /\ Step(l, "idle", [NoLoop EXCEPT !.pc = "test", !.over = s])
           /\ lit' = [lit EXCEPT ![s].idx = 0]
  <2> DEFINE new == [NoLoop EXCEPT !.pc = "test", !.over = s]
  <2>1. loop' = [loop EXCEPT ![l] = new]
    BY <1>4 DEF Step
  <2>2. /\ new \in LoopRecords /\ new.pc = "test" /\ new.kind = "for-in" /\ new.over = s
        /\ new.seen = <<>>
    BY NoLoopIs DEF LoopRecords
  <2> HIDE DEF new
  <2>3. Alone(l, s)
    BY <1>4 DEF Alone, Looped
  <2>4. lit'[s].idx = 0 /\ lit'[s].state = "live"
    BY <1>1, <1>2, <1>4 DEF Literals
  <2>5. GoodLoop(new, lit', mem)
    <3>1. PositionIn(new, lit'[s]) = 0
      BY <2>2, <2>4 DEF PositionIn
    <3> QED
      BY <1>2, <2>2, <2>4, <3>1 DEF GoodLoop, Good
  <2>6. 0 \in Nat /\ 0 <= Count(s)
    BY <1>2
  <2> QED
    BY <1>1, <1>4, <2>1, <2>2, <2>3, <2>5, <2>6, LoopMoves
<1>5. CASE /\ program[s].kind = "array" /\ lit' = lit
           /\ Step(l, "idle", [NoLoop EXCEPT !.pc = "test", !.over = s, !.kind = "block"])
  <2> DEFINE new == [NoLoop EXCEPT !.pc = "test", !.over = s, !.kind = "block"]
  <2>1. loop' = [loop EXCEPT ![l] = new]
    BY <1>5 DEF Step
  <2>2. /\ new \in LoopRecords /\ new.pc = "test" /\ new.kind = "block" /\ new.over = s
        /\ new.seen = <<>> /\ new.idx = 0
    BY NoLoopIs DEF LoopRecords
  <2> HIDE DEF new
  <2>3. GoodLoop(new, lit', mem)
    <3>1. PositionIn(new, lit[s]) = 0
      BY <2>2 DEF PositionIn
    <3> QED
      BY <1>1, <1>2, <1>5, <2>2, <3>1 DEF GoodLoop, Good
  <2>4. lit[s].idx \in Nat /\ lit[s].idx <= Count(s)
    BY <1>2, <1>3, ShapeFacts DEF LoopsParts, Walkable
  <2>5. lit' = [lit EXCEPT ![s].idx = lit[s].idx]
    BY <1>5, SameIndex
  <2> QED
    BY <1>1, <2>1, <2>2, <2>3, <2>4, <2>5, LoopMoves
<1> QED
  BY <1>4, <1>5 DEF LoopStart, KeepsCollectionRules, AllCollectionRules

\* A loop that goes on over the same literal, which keeps its position.
LEMMA LoopGoesOn ==
  ASSUME PoolsInv, LoopsInv, SameProgram, mem' = mem, lit' = lit, NEW l \in Loops,
         loop[l].pc # "idle", NEW new \in LoopRecords, loop' = [loop EXCEPT ![l] = new],
         GoodLoop(new, lit, mem),
         new.over = Nil \/ (new.over = loop[l].over /\ new.kind = loop[l].kind)
  PROVE  LoopsInv'
<1> DEFINE s == loop[l].over
<1>1. Shape /\ KnownProgram
  BY ShapeFacts DEF PoolsInv
<1>2. LoopsParts(loop, lit, mem)
  BY <1>1, LoopsInvParts
<1>3. s \in Lits /\ s # Nil
  BY <1>1, <1>2, LiteralFacts DEF LoopsParts, GoodLoop
<1>4. lit[s].idx \in Nat /\ lit[s].idx <= Count(s)
  BY <1>1, <1>2, <1>3, ShapeFacts DEF LoopsParts, Walkable
<1>5. lit' = [lit EXCEPT ![s].idx = lit[s].idx]
  BY <1>3, SameIndex
<1>6. new.over = Nil \/ new.kind # "for-in" \/ Alone(l, new.over)
  BY <1>2, <1>3 DEF LoopsParts, Single, Alone
<1>7. GoodLoop(new, lit', mem)
  OBVIOUS
<1> HIDE DEF s
<1> QED
  BY <1>3, <1>4, <1>5, <1>6, <1>7, LoopMoves

\* What holds of a loop that is under way.
LEMMA LoopFacts ==
  ASSUME PoolsInv, LoopsInv, NEW l \in Loops, loop[l].pc # "idle",
         NEW s, s = loop[l].over, NEW p, p = Position(l)
  PROVE  /\ s \in Lits /\ Good(loop[l], lit[s], mem) /\ loop[l] \in LoopRecords
         /\ p = PositionIn(loop[l], lit[s]) /\ p \in Nat /\ p <= Count(s) /\ Count(s) \in Nat
         /\ lit[s].state = "live" /\ KnownProgram
         /\ \A i \in 1..Count(s) : mem[lit[s].cells[i]] \in Elems
<1>1. Shape /\ KnownProgram /\ CellsFilled
  BY ShapeFacts DEF PoolsInv
<1>2. LoopsParts(loop, lit, mem)
  BY <1>1, LoopsInvParts
<1>3. s \in Lits /\ Good(loop[l], lit[s], mem) /\ loop[l] \in LoopRecords
  BY <1>2 DEF LoopsParts, GoodLoop
<1>4. p = PositionIn(loop[l], lit[s]) /\ lit[s].state = "live"
  BY <1>3 DEF Position, PositionIn, Good
<1>5. Count(s) \in Nat /\ Count(s) <= Size(s) /\ Size(s) \in Nat
  BY <1>1, <1>3, CountFacts, LiteralFacts
<1>6. p \in Nat /\ p <= Count(s)
  BY <1>3, <1>4, <1>5 DEF Good
<1>7. ASSUME NEW i \in 1..Count(s) PROVE mem[lit[s].cells[i]] \in Elems
  <2> DEFINE L == Layout(program[s].kind, lit[s].items)
             items == lit[s].items
  <2>1. items \in Seq(Elems \cup {Nil}) /\ Len(items) = Size(s)
    BY <1>1, <1>3, <1>4, ShapeFacts DEF Shape
  <2>2. \A j \in 1..Size(s) : items[j] # Nil
    BY <1>2, <1>3, <1>4 DEF LoopsParts, Walkable
  <2>3. \A j \in 1..Size(s) : items[j] \in Elems
    BY <2>1, <2>2
  <2>4. i \in 1..Size(s)
    BY <1>5
  <2>5. mem[lit[s].cells[i]] = L[i]
    BY <1>1, <1>3, <1>4, <2>4 DEF CellsFilled, HasCells
  <2>6. /\ program[s].kind = "array" => L = items
        /\ program[s].kind # "array" => L[i] = items[2 * i - 1]
    <3> DEFINE k == program[s].kind
    <3>1. L = Layout(k, items)
      OBVIOUS
    <3> HIDE DEF L, items
    <3>2. /\ k = "array" => L = items
          /\ k # "array" => Paired(L, items, Count(s))
      BY <1>1, <1>3, <2>1, <3>1, LayoutOf
    <3> QED
      BY <3>2 DEF Paired
  <2>7. program[s].kind # "array" => 2 * i - 1 \in 1..Size(s)
    <3>1. program[s].kind # "array" => Size(s) = 2 * Count(s)
      BY <1>1, <1>3, CountFacts
    <3> QED
      BY <1>5, <3>1
  <2> HIDE DEF L, items
  <2> QED
    BY <2>3, <2>4, <2>5, <2>6, <2>7
<1> QED
  BY <1>1, <1>3, <1>4, <1>5, <1>6, <1>7

LEMMA LoopTestLoops ==
  ASSUME PoolsInv, LoopsInv, NEW l \in Loops, LoopTest(l)
  PROVE  LoopsInv'
<1> DEFINE r == loop[l]
           s == r.over
           p == Position(l)
           pc == IF p >= Count(s) THEN "done" ELSE "fetch"
           new == [r EXCEPT !.pc = pc]
<1>1. /\ SameProgram /\ mem' = mem /\ lit' = lit /\ r.pc = "test"
      /\ loop' = [loop EXCEPT ![l] = new]
  BY DEF LoopTest, OnlyLoops, SameProgram, Step
<1>2. /\ s \in Lits /\ Good(r, lit[s], mem) /\ r \in LoopRecords
      /\ p = PositionIn(r, lit[s]) /\ p \in Nat /\ p <= Count(s) /\ Count(s) \in Nat
  BY <1>1, LoopFacts
<1>3. \/ pc = "done" /\ p = Count(s)
      \/ pc = "fetch" /\ p < Count(s)
  BY <1>2
<1> HIDE DEF pc
<1>4. /\ new \in LoopRecords /\ new.pc = pc /\ new.over = s /\ new.kind = r.kind
      /\ new.idx = r.idx /\ new.seen = r.seen
  BY <1>2, <1>3 DEF LoopRecords
<1> HIDE DEF new, p
<1>5. PositionIn(new, lit[s]) = p
  BY <1>2, <1>4 DEF PositionIn
<1>6. Good(new, lit[s], mem)
  BY <1>2, <1>3, <1>4, <1>5 DEF Good
<1>7. GoodLoop(new, lit, mem)
  BY <1>2, <1>3, <1>4, <1>6 DEF GoodLoop
<1>8. r.pc # "idle"
  BY <1>1
<1> QED
  BY <1>1, <1>4, <1>7, <1>8, LoopGoesOn

LEMMA LoopFetchLoops ==
  ASSUME PoolsInv, LoopsInv, NEW l \in Loops, LoopFetch(l)
  PROVE  LoopsInv'
<1> DEFINE r == loop[l]
           s == r.over
           p == Position(l)
           x == mem[lit[s].cells[p + 1]]
           new == [r EXCEPT !.pc = "advance", !.got = x]
<1>1. /\ SameProgram /\ mem' = mem /\ lit' = lit /\ r.pc = "fetch"
      /\ loop' = [loop EXCEPT ![l] = new]
  BY DEF LoopFetch, OnlyLoops, SameProgram, Step
<1>2. /\ s \in Lits /\ Good(r, lit[s], mem) /\ r \in LoopRecords
      /\ p = PositionIn(r, lit[s]) /\ p \in Nat /\ p <= Count(s) /\ Count(s) \in Nat
      /\ \A i \in 1..Count(s) : mem[lit[s].cells[i]] \in Elems
  BY <1>1, LoopFacts
<1>3. p < Count(s)
  BY <1>1, <1>2 DEF Good
<1>4. x \in Elems
  <2> HIDE DEF p, s
  <2>1. p + 1 \in 1..Count(s)
    BY <1>2, <1>3
  <2> QED
    BY <1>2, <2>1
<1> HIDE DEF x
<1>5. /\ new \in LoopRecords /\ new.pc = "advance" /\ new.over = s /\ new.kind = r.kind
      /\ new.idx = r.idx /\ new.seen = r.seen /\ new.got = x
  BY <1>2, <1>4 DEF LoopRecords
<1> HIDE DEF new, p
<1>6. PositionIn(new, lit[s]) = p
  BY <1>2, <1>5 DEF PositionIn
<1>7. Good(new, lit[s], mem)
  BY <1>2, <1>3, <1>5, <1>6 DEF Good, x
<1>8. GoodLoop(new, lit, mem)
  BY <1>2, <1>5, <1>7 DEF GoodLoop
<1>9. r.pc # "idle"
  BY <1>1
<1> QED
  BY <1>1, <1>5, <1>8, <1>9, LoopGoesOn

LEMMA OneMore ==
  ASSUME NEW S, NEW q \in Seq(S), NEW x \in S, NEW k, k = Len(q)
  PROVE  /\ Append(q, x) \in Seq(S) /\ Len(Append(q, x)) = k + 1 /\ k \in Nat
         /\ Append(q, x)[k + 1] = x
         /\ \A i \in 1..k : Append(q, x)[i] = q[i]
         /\ \A i \in 1..(k + 1) : i \in 1..k \/ i = k + 1
OBVIOUS

LEMMA LoopAdvanceLoops ==
  ASSUME PoolsInv, LoopsInv, NEW l \in Loops, LoopAdvance(l)
  PROVE  LoopsInv'
<1> DEFINE r == loop[l]
           s == r.over
           p == Position(l)
           c == lit[s]
           ends == r.kind = "for-in" /\ r.got = Nil
           k == IF r.kind = "for-in" THEN c.idx + 1 ELSE c.idx
           i == IF r.kind = "block" THEN r.idx + 1 ELSE r.idx
           seen == Append(r.seen, r.got)
           new == [r EXCEPT !.pc = "body", !.idx = i, !.seen = seen]
<1>1. SameProgram /\ mem' = mem /\ r.pc = "advance"
  BY DEF LoopAdvance, OnlyLoops, SameProgram, Step
<1>2. /\ s \in Lits /\ Good(r, c, mem) /\ r \in LoopRecords /\ KnownProgram
      /\ p = PositionIn(r, c) /\ p \in Nat /\ p <= Count(s) /\ Count(s) \in Nat
      /\ \A j \in 1..Count(s) : mem[c.cells[j]] \in Elems
      /\ c.state = "live"
  BY <1>1, LoopFacts
<1>3. p < Count(s) /\ r.got = mem[c.cells[p + 1]] /\ Len(r.seen) = p
  BY <1>1, <1>2 DEF Good
<1>4. r.got \in Elems /\ r.got # Nil
  <2> HIDE DEF p, s, c, r
  <2>1. p + 1 \in 1..Count(s)
    BY <1>2, <1>3
  <2> QED
    BY <1>2, <1>3, <2>1, CollectionAssumption
<1>5. ~ends /\ Saw(l) = seen
  <2>1. ~ends
    BY <1>4
  <2>2. ~(Len(r.seen) > Count(s))
    <3> HIDE DEF p, s, c, r
    <3> QED
      BY <1>2, <1>3
  <2> QED
    BY <2>1, <2>2 DEF Saw
<1>6. loop' = [loop EXCEPT ![l] = new] /\ lit' = [lit EXCEPT ![s].idx = k]
  BY <1>5 DEF LoopAdvance, Step
<1>7. /\ seen \in Seq(Elems) /\ Len(seen) = p + 1 /\ seen[p + 1] = r.got
      /\ \A j \in 1..p : seen[j] = r.seen[j]
      /\ \A j \in 1..(p + 1) : j \in 1..p \/ j = p + 1
  <2>1. r.seen \in Seq(Elems)
    BY <1>2 DEF LoopRecords
  <2> DEFINE q == r.seen
             x == r.got
  <2>2. q \in Seq(Elems) /\ x \in Elems /\ p = Len(q)
    BY <1>3, <1>4, <2>1
  <2> HIDE DEF q, x, p
  <2> QED
    BY <2>2, OneMore DEF q, x
<1> HIDE DEF seen, p
<1>8. /\ c.idx \in Nat /\ r.idx \in Nat /\ r.kind \in {"for-in", "block"}
      /\ lit \in [Lits -> Literals]
  BY <1>2, ShapeFacts DEF LoopRecords, PoolsInv
<1>9. k \in Nat /\ i \in Nat
  BY <1>8
<1>10. /\ new \in LoopRecords /\ new.pc = "body" /\ new.over = s /\ new.kind = r.kind
       /\ new.idx = i /\ new.seen = seen /\ new.got = r.got
  <2> HIDE DEF i
  <2> QED
    BY <1>2, <1>7, <1>9 DEF LoopRecords
<1> HIDE DEF new
<1>11. /\ lit'[s].idx = k /\ lit'[s].state = "live" /\ lit'[s].cells = c.cells
  BY <1>2, <1>6, <1>8 DEF Literals
<1>12. PositionIn(new, lit'[s]) = p + 1
  BY <1>2, <1>8, <1>10, <1>11 DEF PositionIn
<1>13. Good(new, lit'[s], mem)
  <2>1. p + 1 \in 0..Count(s) /\ p + 1 > 0
    BY <1>2, <1>3
  <2>2. \A j \in 1..(p + 1) : new.seen[j] = mem[c.cells[j]]
    <3>1. \A j \in 1..p : r.seen[j] = mem[c.cells[j]]
      BY <1>2 DEF Good
    <3> QED
      BY <1>3, <1>7, <1>10, <3>1
  <2>3. r.kind = "block" => program[s].kind = "array"
    BY <1>2 DEF Good
  <2> HIDE DEF r, s, c
  <2> QED
    BY <1>3, <1>7, <1>10, <1>11, <1>12, <2>1, <2>2, <2>3 DEF Good
<1>14. GoodLoop(new, lit', mem)
  BY <1>2, <1>10, <1>13 DEF GoodLoop
<1>15. LoopsParts(loop, lit, mem)
  BY <1>2, LoopsInvParts
<1>16. r.kind = "for-in" => Alone(l, s)
  BY <1>2, <1>15, LiteralFacts DEF LoopsParts, Single, Alone
<1>17. k <= Count(s)
  <2>1. CASE r.kind = "for-in"
    BY <1>2, <1>3, <1>8, <2>1 DEF PositionIn
  <2>2. CASE r.kind # "for-in"
    <3>1. s \in Lits
      BY <1>2
    <3>2. Walkable(s, lit[s])
      BY <1>15, <3>1 DEF LoopsParts
    <3> HIDE DEF i, seen, new, r
    <3> QED
      BY <2>2, <3>2 DEF Walkable
  <2> QED
    BY <2>1, <2>2
<1>18. k = c.idx \/ Alone(l, s)
  BY <1>16
<1>19. new.over = Nil \/ new.kind # "for-in" \/ Alone(l, new.over)
  BY <1>10, <1>16
<1> HIDE DEF k, s, i
<1> QED
  BY <1>1, <1>2, <1>6, <1>9, <1>10, <1>14, <1>17, <1>18, <1>19, LoopMoves

LEMMA LoopLeavesKeep ==
  ASSUME PoolsInv, LoopsInv, SameProgram, mem' = mem, lit' = lit, NEW l \in Loops,
         loop[l].pc # "idle", loop' = [loop EXCEPT ![l] = NoLoop]
  PROVE  LoopsInv'
<1>1. NoLoop \in LoopRecords /\ NoLoop.over = Nil /\ NoLoop.pc = "idle"
  BY NoLoopIs
<1>2. GoodLoop(NoLoop, lit, mem)
  BY <1>1 DEF GoodLoop
<1> HIDE DEF NoLoop
<1> QED
  BY <1>1, <1>2, LoopGoesOn

LEMMA LoopBodyLoops ==
  ASSUME PoolsInv, LoopsInv, NEW l \in Loops, LoopBody(l)
  PROVE  LoopsInv'
<1> DEFINE r == loop[l]
           s == r.over
           p == Position(l)
           new == [r EXCEPT !.pc = "test", !.got = Nil]
<1>1. SameProgram /\ mem' = mem /\ lit' = lit /\ r.pc = "body" /\ r.pc # "idle"
  BY DEF LoopBody, OnlyLoops, SameProgram, Step
<1>2. CASE loop' = [loop EXCEPT ![l] = new]
  <2>1. /\ s \in Lits /\ Good(r, lit[s], mem) /\ r \in LoopRecords
        /\ p = PositionIn(r, lit[s]) /\ p \in Nat
    BY <1>1, LoopFacts
  <2>2. /\ new \in LoopRecords /\ new.pc = "test" /\ new.over = s /\ new.kind = r.kind
        /\ new.idx = r.idx /\ new.seen = r.seen
    BY <2>1 DEF LoopRecords
  <2> HIDE DEF new, p
  <2>3. PositionIn(new, lit[s]) = p
    BY <2>1, <2>2 DEF PositionIn
  <2>4. Good(new, lit[s], mem)
    BY <2>1, <2>2, <2>3 DEF Good
  <2>5. GoodLoop(new, lit, mem)
    BY <2>1, <2>2, <2>4 DEF GoodLoop
  <2> QED
    BY <1>1, <1>2, <2>2, <2>5, LoopGoesOn
<1>3. CASE loop' = [loop EXCEPT ![l] = NoLoop]
  BY <1>1, <1>3, LoopLeavesKeep
<1> QED
  BY <1>2, <1>3 DEF LoopBody, Step

LEMMA LoopLeaveLoops ==
  ASSUME PoolsInv, LoopsInv, NEW l \in Loops, LoopLeave(l)
  PROVE  LoopsInv'
<1>1. /\ SameProgram /\ mem' = mem /\ lit' = lit /\ loop[l].pc # "idle"
      /\ loop' = [loop EXCEPT ![l] = NoLoop]
  BY DEF LoopLeave, OnlyLoops, SameProgram, Step
<1> QED
  BY <1>1, LoopLeavesKeep

LEMMA LoopsInitially == Init => LoopsInv
<1> SUFFICES ASSUME Init PROVE LoopsInv
  OBVIOUS
<1>1. /\ CollectionInit /\ KnownProgram
      /\ lit = [s \in Lits |-> NoLit] /\ loop = [l \in Loops |-> NoLoop]
  BY DEF Init, CollectionInit, KnownProgram
<1>2. \A s \in Lits : Walkable(s, lit[s])
  <2> TAKE s \in Lits
  <2>1. Count(s) \in Nat
    BY <1>1, CountFacts
  <2> QED
    BY <1>1, <2>1 DEF Walkable, NoLit
<1> HIDE DEF NoLoop
<1>3. \A l \in Loops : GoodLoop(loop[l], lit, mem)
  BY <1>1, NoLoopIs DEF GoodLoop
<1>4. Single(loop)
  BY <1>1, NoLoopIs DEF Single
<1>5. loop \in [Loops -> LoopRecords]
  BY <1>1, NoLoopIs
<1> QED
  BY <1>1, <1>2, <1>3, <1>4, <1>5, LoopsInvParts DEF LoopsParts

LEMMA LoopsNext ==
  ASSUME PoolsInv, LoopsInv, KeepsCollectionRules, [Next]_vars
  PROVE  LoopsInv'
<1>1. CASE UNCHANGED collectionVars
  <2>1. UNCHANGED <<platform, program, lit, mem, loop>>
    BY <1>1 DEF collectionVars
  <2> QED
    BY <2>1, LoopsStay
<1>2. CASE CollectionNext
  <2>1. ASSUME NEW e, Hold(e) \/ Drop(e) PROVE LoopsInv'
    <3>1. UNCHANGED <<platform, program, lit, mem, loop>>
      BY <2>1 DEF Hold, Drop
    <3> QED
      BY <3>1, LoopsStay
  <2>2. ASSUME NEW s \in Lits,
               \/ Evaluate(s) \/ AllocContainer(s) \/ InitItems(s)
               \/ ReleaseContainer(s) \/ ReleaseElement(s)
               \/ FreeItems(s) \/ FreeContainer(s)
        PROVE  LoopsInv'
    BY <2>2, EvaluateLoops, LiteralStepLoops, FreeContainerLoops
  <2>3. ASSUME NEW s \in Lits, NEW l \in Loops, LoopStart(l, s)
        PROVE  LoopsInv'
    BY <2>3, LoopStartLoops
  <2>4. ASSUME NEW l \in Loops, LoopStep(l)
        PROVE  LoopsInv'
    BY <2>4, LoopTestLoops, LoopFetchLoops, LoopAdvanceLoops, LoopBodyLoops, LoopLeaveLoops
    DEF LoopStep
  <2> QED
    BY <1>2, <2>1, <2>2, <2>3, <2>4 DEF CollectionNext
<1> QED
  BY <1>1, <1>2 DEF Next, vars

\* For programs that keep the rules, loops and literals stay as both parts of the
\* invariant say (iter, next, enumerateObjectsUsingBlock:, dealloc).
THEOREM LoopsInvariance == KeepsCollectionRules => (Spec => [](PoolsInv /\ LoopsInv))
<1> SUFFICES ASSUME KeepsCollectionRules PROVE Spec => [](PoolsInv /\ LoopsInv)
  OBVIOUS
<1>1. Init => PoolsInv /\ LoopsInv
  BY PoolsInitially, LoopsInitially
<1>2. PoolsInv /\ LoopsInv /\ [Next]_vars => PoolsInv' /\ LoopsInv'
  BY PoolsNext, LoopsNext
<1> QED
  BY <1>1, <1>2, PTL DEF Spec

\* The element that a loop's body has lives: its place in the container counts.
LEMMA BodyLives ==
  ASSUME PoolsInv, LoopsInv, NEW l \in Loops, loop[l].pc = "body", loop[l].got # Nil
  PROVE  count[loop[l].got] > 0
<1> DEFINE s == loop[l].over
           p == Position(l)
           e == loop[l].got
<1>1. /\ s \in Lits /\ Good(loop[l], lit[s], mem) /\ p = PositionIn(loop[l], lit[s])
      /\ p \in Nat /\ p <= Count(s) /\ Count(s) \in Nat /\ lit[s].state = "live"
      /\ KnownProgram /\ \A i \in 1..Count(s) : mem[lit[s].cells[i]] \in Elems
  BY LoopFacts
<1>2. p > 0 /\ e = mem[lit[s].cells[p]]
  BY <1>1 DEF Good
<1>3. Shape /\ ElementsExact
  BY DEF PoolsInv
<1>4. Count(s) <= Size(s) /\ Size(s) \in Nat /\ lit[s].given = 0
  BY <1>1, <1>3, CountFacts, LiteralFacts, FormedNow DEF Formed
<1> HIDE DEF p, s, e
<1>5. p \in 1..Count(s) /\ p \in (0 + 1)..Size(s)
  BY <1>1, <1>2, <1>4
<1>6. e \in Elems
  BY <1>1, <1>2, <1>5
<1>7. p \in PlacesAt(lit, mem, s, e)
  BY <1>1, <1>2, <1>4, <1>5 DEF PlacesAt
<1> DEFINE P == [q \in Lits |-> PlacesAt(lit, mem, q, e)]
<1>8. <<s, p>> \in Joined(Lits, P)
  BY <1>1, <1>7, InJoined
<1>9. Places(e) # {}
  BY <1>8, PlacesAre
<1>10. IsFiniteSet(Places(e)) /\ Cardinality(Places(e)) \in Nat
  BY <1>3, PlacesCounted
<1>11. Cardinality(Places(e)) # 0
  BY <1>9, <1>10, FS_EmptySet
<1>12. count[e] = Held(heldBy, e) + lost[e] + Cardinality(Places(e))
  BY <1>3, <1>6, ElementsAre DEF Owned
<1>13. Held(heldBy, e) \in Nat /\ lost[e] \in Nat
  BY <1>3, <1>6 DEF Held, Shape
<1>14. count[e] > 0
  BY <1>10, <1>11, <1>12, <1>13
<1> QED
  BY <1>14 DEF e

LEMMA PrefixOf ==
  ASSUME NEW S, NEW q \in Seq(S), NEW f \in Seq(S),
         Len(q) <= Len(f), \A i \in 1..Len(q) : q[i] = f[i]
  PROVE  /\ IsPrefix(q, f)
         /\ Len(q) = Len(f) => q = f
<1> DEFINE k == Len(q)
           h == SubSeq(f, 1, k)
<1>1. k \in Nat /\ Len(f) \in Nat /\ k <= Len(f)
  OBVIOUS
<1>2. h \in Seq(S) /\ Len(h) = k /\ \A i \in 1..k : h[i] = f[i]
  BY <1>1
<1>3. SubSeq(q, 1, k) = q
  OBVIOUS
<1>4. h = q
  <2> HIDE DEF h
  <2> QED
    BY <1>2, SeqEqual
<1>5. k = Len(f) => q = f
  BY SeqEqual
<1> QED
  BY <1>1, <1>3, <1>4, <1>5 DEF IsPrefix

\* For programs that keep the rules, every loop sees the elements of an array, or the
\* keys of a dictionary, in their order, all of them if it reaches its end, and only
\* what lives, whatever other loops and threads do
\* (iter, next, enumerateObjectsUsingBlock:).
THEOREM LoopsAlwaysExact == KeepsCollectionRules => (Spec => []LoopExact)
<1> SUFFICES ASSUME KeepsCollectionRules PROVE Spec => []LoopExact
  OBVIOUS
<1>1. Spec => [](PoolsInv /\ LoopsInv)
  BY LoopsInvariance
<1>2. PoolsInv /\ LoopsInv => LoopExact
  <2> SUFFICES ASSUME PoolsInv, LoopsInv PROVE LoopExact
    OBVIOUS
  <2>1. ASSUME NEW l \in Loops, loop[l].pc # "idle"
        PROVE  /\ loop[l].pc = "fetch" => /\ lit[loop[l].over].state = "live"
                                          /\ Position(l) < Count(loop[l].over)
               /\ IsPrefix(loop[l].seen, Visited(loop[l].over))
               /\ loop[l].pc = "done" => loop[l].seen = Visited(loop[l].over)
    <3> DEFINE r == loop[l]
               s == r.over
               p == Position(l)
               f == Visited(s)
               q == r.seen
    <3>1. /\ s \in Lits /\ Good(r, lit[s], mem) /\ p = PositionIn(r, lit[s])
          /\ r \in LoopRecords /\ p \in Nat /\ p <= Count(s) /\ Count(s) \in Nat
          /\ lit[s].state = "live" /\ KnownProgram
      BY <2>1, LoopFacts
    <3>2. /\ Len(q) = p /\ \A i \in 1..p : q[i] = mem[lit[s].cells[i]]
          /\ r.pc = "fetch" => p < Count(s)
          /\ r.pc = "done" => p = Count(s)
      BY <3>1 DEF Good
    <3>3. q \in Seq(Elems)
      BY <3>1 DEF LoopRecords
    <3>4. f \in Seq(Elems) /\ Len(f) = Count(s)
      <4>1. \A i \in 1..Count(s) : mem[lit[s].cells[i]] \in Elems
        BY <2>1, LoopFacts
      <4> DEFINE n == Count(s)
      <4>2. n \in Nat /\ f \in [1..n -> Elems]
        BY <3>1, <4>1 DEF Visited
      <4> HIDE DEF n, f
      <4>3. f \in Seq(Elems) /\ Len(f) = n
        BY <4>2
      <4> QED
        BY <4>3 DEF n
    <3>5. \A i \in 1..Count(s) : f[i] = mem[lit[s].cells[i]]
      BY DEF Visited
    <3> HIDE DEF f, s, p, q, r
    <3>6. \A i \in 1..Len(q) : q[i] = f[i]
      BY <3>1, <3>2, <3>5
    <3>7. IsPrefix(q, f) /\ (Len(q) = Count(s) => q = f)
      BY <3>1, <3>2, <3>3, <3>4, <3>6, PrefixOf
    <3> QED
      BY <3>1, <3>2, <3>7 DEF f, s, p, q, r
  <2>2. LoopSafe
    BY <2>1, BodyLives DEF LoopSafe
  <2> QED
    BY <2>1, <2>2 DEF LoopExact
<1> QED
  BY <1>1, <1>2, PTL

\* Cells, positions and counters keep to their types, at every step.
THEOREM CollectionsTyped == KeepsCollectionRules => (Spec => []CollectionTypeOK)
<1> SUFFICES ASSUME KeepsCollectionRules PROVE Spec => []CollectionTypeOK
  OBVIOUS
<1>1. PoolsInv /\ LoopsInv => CollectionTypeOK
  <2> SUFFICES ASSUME PoolsInv, LoopsInv PROVE CollectionTypeOK
    OBVIOUS
  <2>1. Shape /\ KnownProgram /\ CellsExact
    BY ShapeFacts DEF PoolsInv
  <2>2. ASSUME NEW s \in Lits
        PROVE  /\ lit[s].state \in States /\ lit[s].cells \in Seq(1..PoolSize)
               /\ lit[s].idx \in 0..Count(s) /\ lit[s].given \in 0..Size(s)
    <3>1. lit[s].idx \in Nat /\ lit[s].given \in Nat /\ lit[s].idx <= Count(s)
          /\ lit[s].given <= Size(s)
      BY <2>1, ShapeFacts DEF Shape, LoopsInv
    <3>2. Count(s) \in Nat /\ Size(s) \in Nat
      BY <2>1, CountFacts, LiteralFacts
    <3> QED
      BY <2>1, <3>1, <3>2, ShapeFacts
  <2>3. used \subseteq 1..PoolSize
    <3>1. ASSUME NEW s \in HasCells PROVE Range(lit[s].cells) \subseteq 1..PoolSize
      <4>1. lit[s].cells \in Seq(1..PoolSize)
        BY <2>1, ShapeFacts DEF HasCells
      <4> DEFINE c == lit[s].cells
                 N == 1..PoolSize
      <4> HIDE DEF c, N
      <4>2. c \in Seq(N)
        BY <4>1 DEF c, N
      <4>3. \A i \in DOMAIN c : c[i] \in N
        BY <4>2
      <4>4. Range(c) \subseteq N
        BY <4>3 DEF Range
      <4> QED
        BY <4>4 DEF c, N
    <3> QED
      BY <2>1, <3>1 DEF CellsExact
  <2>4. /\ mem \in [1..PoolSize -> Elems \cup {Nil}] /\ heldBy \subseteq Elems
        /\ count \in [Elems -> Nat] /\ lost \in [Elems -> Nat]
    BY <2>1 DEF Shape
  <2>5. \A l \in Loops : loop[l].pc \in {"idle", "test", "fetch", "advance", "body", "done"}
    BY DEF LoopsInv, LoopRecords
  <2> QED
    BY <2>2, <2>3, <2>4, <2>5 DEF CollectionTypeOK, States
<1> QED
  BY <1>1, LoopsInvariance, PTL
================================================================================

------------------------------ MODULE OZArcProofs ------------------------------
(***************************************************************************)
(* Proofs about OZArc: whatever a method is made of, and however deep its  *)
(* blocks are nested, the counts are the owners.                           *)
(***************************************************************************)
EXTENDS OZArc, OZNaturals, SequenceTheorems

(***************************************************************************)
(* Counting                                                                *)
(***************************************************************************)
\* Two sets that differ in x at most.
LEMMA OneChanges ==
  ASSUME NEW S, NEW T, NEW x, IsFiniteSet(S), S \ {x} = T \ {x}
  PROVE  /\ IsFiniteSet(T) /\ Cardinality(S) \in Nat /\ Cardinality(T) \in Nat
         /\ Cardinality(T) + (IF x \in S THEN 1 ELSE 0)
            = Cardinality(S) + (IF x \in T THEN 1 ELSE 0)
<1> DEFINE R == S \ {x}
<1>1. IsFiniteSet(R) /\ Cardinality(R) \in Nat
  BY FS_RemoveElement, FS_CardinalityType
<1>2. x \notin R
  OBVIOUS
<1>3. S = (IF x \in S THEN R \cup {x} ELSE R) /\ T = (IF x \in T THEN R \cup {x} ELSE R)
  OBVIOUS
<1> HIDE DEF R
<1>4. IsFiniteSet(R \cup {x}) /\ Cardinality(R \cup {x}) = Cardinality(R) + 1
  BY <1>1, <1>2, FS_AddElement
<1> QED
  BY <1>1, <1>3, <1>4

LEMMA Parts ==
  ASSUME NEW S, NEW A, NEW B, IsFiniteSet(S), S = A \cup B, A \cap B = {}
  PROVE  /\ IsFiniteSet(A) /\ IsFiniteSet(B)
         /\ Cardinality(A) \in Nat /\ Cardinality(B) \in Nat
         /\ Cardinality(S) = Cardinality(A) + Cardinality(B)
<1>1. IsFiniteSet(A) /\ IsFiniteSet(B)
  BY FS_Subset
<1>2. Cardinality(A) \in Nat /\ Cardinality(B) \in Nat
  BY <1>1, FS_CardinalityType
<1>3. Cardinality(A \cap B) = 0
  BY FS_EmptySet
<1>4. Cardinality(A \cup B) = Cardinality(A) + Cardinality(B) - Cardinality(A \cap B)
  BY <1>1, FS_Union
<1> QED
  BY <1>1, <1>2, <1>3, <1>4

(***************************************************************************)
(* Owned and Outside as functions of what they read.                       *)
(***************************************************************************)
OwnedIn(bs, used, k, o) ==
  {s \in (1..k) \X Names : /\ s[2] \in bs[s[1]].vars \ used
                          /\ bs[s[1]].kind # "forin"
                          /\ bs[s[1]].val[s[2]] = o}

OwningIvars(iv, o) == {i \in Ivars : iv[i] = o}
OutsideIn(iv, o) == (IF o \in Held THEN 1 ELSE 0) + Cardinality(OwningIvars(iv, o))
ReturnedIn(at, rs, res, o) == IF at = 1 /\ "owning" \in rs /\ o = res THEN 1 ELSE 0

LEMMA DepthNat == TypeOK => Depth \in Nat /\ blocks \in Seq(OpenBlocks)
  BY DEF TypeOK, Depth

LEMMA OwnedFinite ==
  ASSUME NEW bs, NEW used, NEW k \in Int, NEW o
  PROVE  /\ IsFiniteSet(OwnedIn(bs, used, k, o))
         /\ Cardinality(OwnedIn(bs, used, k, o)) \in Nat
<1>1. IsFiniteSet(1..k) /\ IsFiniteSet(Names)
  BY FS_Interval, ArcAssumption DEF Names
<1>2. IsFiniteSet((1..k) \X Names)
  BY <1>1, FS_Product
<1>3. OwnedIn(bs, used, k, o) \subseteq (1..k) \X Names
  BY DEF OwnedIn
<1> QED
  BY <1>2, <1>3, FS_Subset, FS_CardinalityType

LEMMA IvarsFinite ==
  ASSUME NEW iv, NEW o
  PROVE  /\ IsFiniteSet(OwningIvars(iv, o))
         /\ Cardinality(OwningIvars(iv, o)) \in Nat
         /\ OutsideIn(iv, o) \in Nat
<1>1. IsFiniteSet(OwningIvars(iv, o))
  BY ArcAssumption, FS_Subset DEF OwningIvars
<1>2. Cardinality(OwningIvars(iv, o)) \in Nat
  BY <1>1, FS_CardinalityType
<1> QED
  BY <1>1, <1>2 DEF OutsideIn

LEMMA CountsNow ==
  ASSUME CountsKept, NEW k, k = Entered, NEW o \in Objects
  PROVE  rc[o] = OutsideIn(ivar, o) + Cardinality(OwnedIn(blocks, consumed, k, o))
                 + ReturnedIn(resume, returns, result, o)
BY SMTT(60) DEF CountsKept, Outside, Owned, Returned, OutsideIn, OwningIvars, OwnedIn, ReturnedIn

LEMMA CountsNext ==
  ASSUME NEW k, k = Entered',
         \A o \in Objects :
           rc'[o] = OutsideIn(ivar', o) + Cardinality(OwnedIn(blocks', consumed', k, o))
                    + ReturnedIn(resume', returns', result', o)
  PROVE  CountsKept'
BY ZenonT(60), SMTT(60) DEF CountsKept, Outside, Owned, Returned, OutsideIn, OwningIvars, OwnedIn, ReturnedIn

(***************************************************************************)
(* Names                                                                   *)
(***************************************************************************)
LEMMA Blocks ==
  ASSUME TypeOK, NEW d \in 1..Depth
  PROVE  /\ blocks[d] \in OpenBlocks /\ blocks[d].vars \subseteq Names
         /\ blocks[d].val \in [Names -> Objects \cup {Nil, Undeclared}]
         /\ blocks[d].kind \in Kinds /\ blocks[d].last \in {"none", "jump", "return"}
<1>1. blocks[d] \in OpenBlocks
  BY DEF TypeOK, Depth
<1> QED
  BY <1>1 DEF OpenBlocks

LEMMA MaximumSingle ==
  ASSUME NEW d \in Int
  PROVE  Maximum({d}) = d
BY DEF Maximum

\* A name stands for one variable, which the emitter tracks.
LEMMA ValueIn ==
  ASSUME TypeOK, FramesExact, NEW d \in 1..Depth, NEW n \in blocks[d].vars
  PROVE  /\ n \in Names /\ DeclaredIn(n) = {d} /\ Home(n) = d
         /\ Value(n) = blocks[d].val[n] /\ Visible(n) /\ InScope(n)
         /\ Value(n) \in Objects \cup {Nil}
<1>1. n \in Names
  BY Blocks
<1>2. \A e \in 1..Depth : n \in blocks[e].vars <=> blocks[e].val[n] # Undeclared
  BY <1>1 DEF FramesExact
<1>3. \A e \in 1..Depth : n \in blocks[e].vars => e = d
  BY DEF FramesExact
<1>4. DeclaredIn(n) = {d}
  BY <1>2, <1>3 DEF DeclaredIn
<1>5. Home(n) = d
  BY <1>4, DepthNat, MaximumSingle DEF Home
<1>6. blocks[d].val[n] \in Objects \cup {Nil}
  BY <1>1, <1>2, Blocks
<1> QED
  BY <1>1, <1>4, <1>5, <1>6 DEF Value, Visible, InScope

LEMMA VisibleIn ==
  ASSUME TypeOK, FramesExact, NEW n \in Names, Visible(n)
  PROVE  Home(n) \in 1..Depth /\ n \in blocks[Home(n)].vars
<1>1. PICK d \in 1..Depth : blocks[d].val[n] # Undeclared
  BY DEF Visible, DeclaredIn
<1>2. n \in blocks[d].vars
  BY <1>1 DEF FramesExact
<1> QED
  BY <1>2, ValueIn

(***************************************************************************)
(* Retains and releases                                                    *)
(***************************************************************************)
Ones(v, o) == IF o = v THEN 1 ELSE 0

\* Calls that only release what there is do what they should.
LEMMA RunExact ==
  ASSUME TypeOK, Live, NEW fresh \in Objects \cup {Nil}, NEW kept \in Objects \cup {Nil},
         NEW lost \in [Objects -> Nat], Run(fresh, kept, lost),
         fresh # Nil => rc[fresh] = 0,
         kept # Nil => rc[kept] > 0,
         \A o \in Objects : lost[o] <= rc[o] + Ones(fresh, o) + Ones(kept, o)
  PROVE  /\ rc' \in [Objects -> Nat] /\ dangling' = FALSE
         /\ \A o \in Objects : rc'[o] = rc[o] + Ones(fresh, o) + Ones(kept, o) - lost[o]
<1>1. rc \in [Objects -> Nat] /\ Nil \notin Objects
  BY ArcAssumption DEF TypeOK
<1>2. rc' = After(fresh, kept, lost) /\ dangling' = Strays(fresh, kept, lost)
  BY DEF Run
<1>3. ASSUME NEW o \in Objects
      PROVE  /\ One(kept)[o] = Ones(kept, o)
             /\ (IF o = fresh THEN 1 ELSE rc[o]) = rc[o] + Ones(fresh, o)
             /\ rc[o] \in Nat /\ lost[o] \in Nat
             /\ Ones(fresh, o) \in Nat /\ Ones(kept, o) \in Nat
  BY <1>1 DEF One, Ones
<1>4. ASSUME NEW o \in Objects
      PROVE  After(fresh, kept, lost)[o] = rc[o] + Ones(fresh, o) + Ones(kept, o) - lost[o]
  <2> DEFINE n == (IF o = fresh THEN 1 ELSE rc[o]) + One(kept)[o]
  <2>1. After(fresh, kept, lost)[o] = IF n > lost[o] THEN n - lost[o] ELSE 0
    BY DEF After
  <2>2. n = rc[o] + Ones(fresh, o) + Ones(kept, o)
    BY <1>3
  <2> HIDE DEF n
  <2>3. lost[o] <= n /\ n \in Nat
    BY <1>3, <2>2
  <2> QED
    BY <1>3, <2>1, <2>2, <2>3
<1>5. ~Strays(fresh, kept, lost)
  <2> SUFFICES ASSUME NEW o \in Objects,
                      \/ o = kept /\ (IF o = fresh THEN 1 ELSE rc[o]) = 0
                      \/ (IF o = fresh THEN 1 ELSE rc[o]) + One(kept)[o] < lost[o]
               PROVE  FALSE
    BY DEF Strays
  <2>1. CASE o = kept /\ (IF o = fresh THEN 1 ELSE rc[o]) = 0
    BY <1>1, <2>1
  <2>2. CASE (IF o = fresh THEN 1 ELSE rc[o]) + One(kept)[o] < lost[o]
    BY <1>3, <2>2
  <2> QED
    BY <2>1, <2>2
<1>6. DOMAIN After(fresh, kept, lost) = Objects
  BY DEF After
<1>7. \A o \in Objects : After(fresh, kept, lost)[o] \in Nat
  BY <1>3, <1>4
<1>8. After(fresh, kept, lost) \in [Objects -> Nat]
  BY <1>6, <1>7 DEF After
<1>9. Strays(fresh, kept, lost) \in BOOLEAN
  BY DEF Strays
<1> QED
  BY <1>2, <1>4, <1>5, <1>8, <1>9

\* Code that is skipped does nothing.
LEMMA RunSkipped ==
  ASSUME ~Live, NEW fresh, NEW kept, NEW lost, Run(fresh, kept, lost)
  PROVE  UNCHANGED <<rc, dangling>>
BY DEF Run

LEMMA NoneType == None \in [Objects -> Nat] /\ \A o \in Objects : None[o] = 0
  BY DEF None

LEMMA OneType ==
  ASSUME NEW v
  PROVE  One(v) \in [Objects -> Nat] /\ \A o \in Objects : One(v)[o] = Ones(v, o)
BY DEF One, Ones

\* What leaving the blocks from m on releases is what their variables own.
LEMMA ReleasesExact ==
  ASSUME TypeOK, FramesExact, NEW m \in Nat \ {0}, m <= Depth + 1,
         \A d \in m..Depth : blocks[d].kind # "forin"
  PROVE  /\ Releases(m..Depth, {}) \in [Objects -> Nat]
         /\ \A o \in Objects :
              /\ Cardinality(OwnedIn(blocks, consumed, m - 1, o)) \in Nat /\ Cardinality(OwnedIn(blocks, consumed, Depth, o)) \in Nat
              /\ Releases(m..Depth, {})[o] + Cardinality(OwnedIn(blocks, consumed, m - 1, o))
                 = Cardinality(OwnedIn(blocks, consumed, Depth, o))
<1>0. Depth \in Nat
  BY DepthNat
<1> DEFINE sent == {s \in (m..Depth) \X Names : s[2] \in blocks[s[1]].vars \ (consumed \cup {})}
           sentTo(o) == {s \in sent : Value(s[2]) = o}
<1>1. Releases(m..Depth, {}) = [o \in Objects |-> Cardinality(sentTo(o))]
  BY DEF Releases
<1>2. ASSUME NEW o \in Objects
      PROVE  /\ OwnedIn(blocks, consumed, Depth, o) = sentTo(o) \cup OwnedIn(blocks, consumed, m - 1, o)
             /\ sentTo(o) \cap OwnedIn(blocks, consumed, m - 1, o) = {}
  <2>1. \A s \in sent : s[1] \in m..Depth /\ s[1] \in 1..Depth
    BY <1>0
  <2>2. \A s \in sent : Value(s[2]) = blocks[s[1]].val[s[2]]
    BY <2>1, ValueIn
  <2>3. \A s \in (1..Depth) \X Names : s[1] \in m..Depth \/ s[1] \in 1..(m - 1)
    BY <1>0
  <2>4. (1..(m - 1)) \X Names \subseteq (1..Depth) \X Names
    BY <1>0
  <2>5. \A s \in (1..Depth) \X Names : s \in sentTo(o) <=> s[1] \in m..Depth /\ s \in OwnedIn(blocks, consumed, Depth, o)
    BY <2>1, <2>2 DEF OwnedIn
  <2>6. \A s \in (1..Depth) \X Names :
          s \in OwnedIn(blocks, consumed, m - 1, o) <=> s[1] \in 1..(m - 1) /\ s \in OwnedIn(blocks, consumed, Depth, o)
    BY <1>0 DEF OwnedIn
  <2>7. sentTo(o) \subseteq (1..Depth) \X Names /\ OwnedIn(blocks, consumed, Depth, o) \subseteq (1..Depth) \X Names
    BY <2>1 DEF OwnedIn
  <2>8. OwnedIn(blocks, consumed, m - 1, o) \subseteq (1..Depth) \X Names
    BY <2>4 DEF OwnedIn
  <2>9. \A i \in m..Depth : i \notin 1..(m - 1)
    BY <1>0
  <2> HIDE DEF sentTo
  <2> QED
    BY <2>3, <2>5, <2>6, <2>7, <2>8, <2>9
<1> HIDE DEF sentTo
<1>3. ASSUME NEW o \in Objects
      PROVE  /\ Cardinality(sentTo(o)) \in Nat
             /\ Cardinality(OwnedIn(blocks, consumed, m - 1, o)) \in Nat
             /\ Cardinality(OwnedIn(blocks, consumed, Depth, o)) = Cardinality(sentTo(o)) + Cardinality(OwnedIn(blocks, consumed, m - 1, o))
  <2> DEFINE whole == OwnedIn(blocks, consumed, Depth, o)
             left == OwnedIn(blocks, consumed, m - 1, o)
             gone == sentTo(o)
  <2>1. IsFiniteSet(whole)
    BY <1>0, OwnedFinite
  <2>2. whole = gone \cup left /\ gone \cap left = {}
    BY <1>2
  <2> HIDE DEF whole, left, gone
  <2>3. /\ Cardinality(gone) \in Nat /\ Cardinality(left) \in Nat
        /\ Cardinality(whole) = Cardinality(gone) + Cardinality(left)
    BY <2>1, <2>2, Parts
  <2> QED
    BY <2>3 DEF whole, left, gone
<1>4. \A o \in Objects : Cardinality(OwnedIn(blocks, consumed, Depth, o)) \in Nat
  BY <1>0, OwnedFinite
<1> QED
  BY <1>1, <1>3, <1>4

\* Blocks that own nothing any more are left without a release.
LEMMA ReleasesNothing ==
  ASSUME NEW ds, \A d \in ds : blocks[d].vars \subseteq consumed
  PROVE  Releases(ds, {}) \in [Objects -> Nat] /\ \A o \in Objects : Releases(ds, {})[o] = 0
<1> DEFINE sent == {s \in ds \X Names : s[2] \in blocks[s[1]].vars \ (consumed \cup {})}
<1>1. sent = {}
  OBVIOUS
<1>2. Releases(ds, {}) = [o \in Objects |-> Cardinality({s \in sent : Value(s[2]) = o})]
  BY DEF Releases
<1> HIDE DEF sent
<1>3. \A o : {s \in sent : Value(s[2]) = o} = {}
  BY <1>1
<1> QED
  BY <1>2, <1>3, FS_EmptySet

(***************************************************************************)
(* What happens to the stack of blocks                                     *)
(***************************************************************************)
\* A block whose frame has the variables that it declares.
Framed(b) ==
  /\ \A n \in Names : n \in b.vars <=> b.val[n] # Undeclared
  /\ b.kind = "forin" => \A n \in b.vars : b.val[n] \in Held \cup {Nil}

LEMMA FramedBlocks ==
  ASSUME TypeOK, FramesExact, NEW d \in 1..Depth
  PROVE  Framed(blocks[d])
BY DEF Framed, FramesExact

LEMMA FramesFrom ==
  ASSUME \A d \in 1..Depth : Framed(blocks[d]),
         \A d, e \in 1..Depth : \A n \in blocks[d].vars \cap blocks[e].vars : d = e
  PROVE  FramesExact
BY DEF Framed, FramesExact

LEMMA NotVisible ==
  ASSUME TypeOK, FramesExact, NEW n \in Names, ~Visible(n)
  PROVE  \A d \in 1..Depth : n \notin blocks[d].vars
BY DEF FramesExact, Visible, DeclaredIn

LEMMA FirstOfTwo ==
  ASSUME NEW m \in Nat, NEW k \in {1, 2}, NEW i \in 1..k, m + i < m + k
  PROVE  k = 2 /\ i = 1 /\ m + i + 1 = m + 2
OBVIOUS

LEMMA Behind ==
  ASSUME NEW m \in Nat, NEW k \in Nat
  PROVE  \A d \in 1..(m + k) : d \in 1..m \/ \E i \in 1..k : d = m + i
<1> SUFFICES ASSUME NEW d \in 1..(m + k), d \notin 1..m
             PROVE  \E i \in 1..k : d = m + i
  OBVIOUS
<1>1. d - m \in 1..k /\ d = m + (d - m)
  OBVIOUS
<1> QED
  BY <1>1

LEMMA Pushed ==
  ASSUME TypeOK, FramesExact, Nesting, Depth > 0, blocks[Depth].kind # "forin",
         NEW bs \in Seq(OpenBlocks), NEW k \in {1, 2}, k = Len(bs),
         blocks' = blocks \o bs,
         \A i \in 1..k : /\ Framed(bs[i]) /\ \A n \in bs[i].vars : ~Visible(n)
                         /\ bs[i].kind \notin {"method", "dealloc"}
                         /\ bs[i].kind \in {"forin", "switch"} => bs[i].kind \in BlockKinds,
         \A i, j \in 1..k : bs[i].vars \cap bs[j].vars # {} => i = j,
         k = 2 /\ bs[1].kind = "forin" => bs[2].kind = "loop"
  PROVE  /\ blocks' \in Seq(OpenBlocks) /\ Depth' = Depth + k
         /\ \A d \in 1..Depth : blocks'[d] = blocks[d]
         /\ \A i \in 1..k : blocks'[Depth + i] = bs[i]
         /\ FramesExact' /\ Nesting'
<1>1. Depth \in Nat /\ blocks \in Seq(OpenBlocks) /\ Depth = Len(blocks)
  BY DEF TypeOK, Depth
<1>2. /\ blocks' \in Seq(OpenBlocks) /\ Depth' = Depth + k
      /\ \A d \in 1..Depth : blocks'[d] = blocks[d]
      /\ \A i \in 1..k : blocks'[Depth + i] = bs[i]
  BY <1>1 DEF Depth
<1>3. \A d \in 1..Depth' : d \in 1..Depth \/ \E i \in 1..k : d = Depth + i
  BY SMTT(60), <1>1, <1>2
<1>4. \A d \in 1..Depth' : Framed(blocks[d])'
  <2>1. \A d \in 1..Depth : Framed(blocks'[d])
    BY <1>2, FramedBlocks
  <2>2. \A i \in 1..k : Framed(blocks'[Depth + i])
    BY <1>2
  <2>3. \A d \in 1..Depth' : Framed(blocks'[d])
    BY <1>3, <2>1, <2>2
  <2> QED
    BY <2>3 DEF Framed
<1>5. \A i \in 1..k : \A n \in bs[i].vars : \A d \in 1..Depth : n \notin blocks[d].vars
  <2> SUFFICES ASSUME NEW i \in 1..k, NEW n \in bs[i].vars
               PROVE  \A d \in 1..Depth : n \notin blocks[d].vars
    OBVIOUS
  <2>1. bs[i] \in OpenBlocks
    OBVIOUS
  <2>2. n \in Names
    BY <2>1 DEF OpenBlocks
  <2> QED
    BY <2>2, NotVisible
<1>6. ASSUME NEW d \in 1..Depth', NEW e \in 1..Depth', NEW n \in blocks'[d].vars \cap blocks'[e].vars
      PROVE  d = e
  <2>1. CASE d \in 1..Depth /\ e \in 1..Depth
    BY <1>2, <2>1 DEF FramesExact
  <2>2. CASE \E i \in 1..k : d = Depth + i
    <3>1. PICK i \in 1..k : d = Depth + i
      BY <2>2
    <3>2. n \in bs[i].vars
      BY <1>2, <3>1
    <3>3. e \notin 1..Depth
      BY <1>2, <1>5, <3>2
    <3>4. PICK j \in 1..k : e = Depth + j
      BY <1>3, <3>3
    <3>5. n \in bs[j].vars
      BY <1>2, <3>4
    <3> QED
      BY <3>1, <3>2, <3>4, <3>5
  <2>3. CASE \E j \in 1..k : e = Depth + j
    <3>1. PICK j \in 1..k : e = Depth + j
      BY <2>3
    <3>2. n \in bs[j].vars
      BY <1>2, <3>1
    <3>3. d \notin 1..Depth
      BY ZenonT(60), <1>2, <1>5, <3>2
    <3> QED
      BY <1>3, <2>2, <3>3
  <2> QED
    BY <1>3, <2>1, <2>2, <2>3
<1>7. FramesExact'
  BY <1>4, <1>6 DEF Framed, FramesExact
<1>8. ASSUME NEW d \in 1..Depth'
      PROVE  /\ blocks'[d].kind \in {"method", "dealloc"} <=> d = 1
             /\ blocks'[d].kind = "dealloc" => blocks'[d].vars = {}
             /\ blocks'[d].kind \in {"forin", "switch"} => blocks'[d].kind \in BlockKinds
             /\ blocks'[d].kind = "forin" /\ d < Depth' => blocks'[d + 1].kind = "loop"
  <2>1. CASE d \in 1..Depth
    <3>1. blocks'[d] = blocks[d]
      BY <1>2, <2>1
    <3>2. d # Depth => d + 1 \in 1..Depth /\ blocks'[d + 1] = blocks[d + 1] /\ d < Depth
      BY <1>1, <1>2, <2>1
    <3>3. d = Depth => blocks'[d].kind # "forin"
      BY <3>1
    <3>4. /\ blocks[d].kind \in {"method", "dealloc"} <=> d = 1
          /\ blocks[d].kind = "dealloc" => blocks[d].vars = {}
          /\ blocks[d].kind \in {"forin", "switch"} => blocks[d].kind \in BlockKinds
          /\ blocks[d].kind = "forin" /\ d < Depth => blocks[d + 1].kind = "loop"
      BY <2>1 DEF Nesting
    <3>5. blocks'[d].kind = "forin" => blocks'[d + 1].kind = "loop"
      BY <3>1, <3>2, <3>3, <3>4
    <3> QED
      BY <3>1, <3>4, <3>5
  <2>2. CASE \E i \in 1..k : d = Depth + i
    <3>1. PICK i \in 1..k : d = Depth + i
      BY <2>2
    <3>2. blocks'[d] = bs[i] /\ d # 1
      BY <1>1, <1>2, <3>1
    <3>3. d < Depth' => k = 2 /\ i = 1 /\ d + 1 = Depth + 2
      <4>1. Depth + i < Depth + k => k = 2 /\ i = 1 /\ Depth + i + 1 = Depth + 2
        BY <1>1, FirstOfTwo
      <4>2. d < Depth' <=> Depth + i < Depth + k
        BY <1>2, <3>1
      <4> QED
        BY <3>1, <4>1, <4>2
    <3>4. d < Depth' => blocks'[d + 1] = bs[2]
      <4>1. k = 2 => 2 \in 1..k
        OBVIOUS
      <4>2. k = 2 => blocks'[Depth + 2] = bs[2]
        BY <1>2, <4>1
      <4> QED
        BY <3>3, <4>2
    <3> QED
      BY <3>2, <3>3, <3>4
  <2> QED
    BY <1>3, <2>1, <2>2
<1>9. Nesting'
  BY <1>8 DEF Nesting
<1> QED
  BY <1>2, <1>7, <1>9

LEMMA PushedOne ==
  ASSUME TypeOK, FramesExact, Nesting, Depth > 0, blocks[Depth].kind # "forin",
         NEW bs \in Seq(OpenBlocks), Len(bs) = 1, blocks' = blocks \o bs,
         \A i \in 1..1 : /\ Framed(bs[i]) /\ \A n \in bs[i].vars : ~Visible(n)
                         /\ bs[i].kind \notin {"method", "dealloc"}
                         /\ bs[i].kind \in {"forin", "switch"} => bs[i].kind \in BlockKinds
  PROVE  /\ blocks' \in Seq(OpenBlocks) /\ Depth' = Depth + 1
         /\ \A d \in 1..Depth : blocks'[d] = blocks[d]
         /\ \A i \in 1..1 : blocks'[Depth + i] = bs[i]
         /\ FramesExact' /\ Nesting'
<1>1. \A i, j \in 1..1 : bs[i].vars \cap bs[j].vars # {} => i = j
  OBVIOUS
<1>2. PICK k \in {1, 2} : k = 1
  OBVIOUS
<1>3. k = Len(bs)
  BY <1>2
<1>4. \A i \in 1..k : /\ Framed(bs[i]) /\ \A n \in bs[i].vars : ~Visible(n)
                     /\ bs[i].kind \notin {"method", "dealloc"}
                     /\ bs[i].kind \in {"forin", "switch"} => bs[i].kind \in BlockKinds
  BY <1>2
<1>5. \A i, j \in 1..k : bs[i].vars \cap bs[j].vars # {} => i = j
  BY <1>1, <1>2
<1>6. k = 2 /\ bs[1].kind = "forin" => bs[2].kind = "loop"
  BY <1>2
<1>7. /\ blocks' \in Seq(OpenBlocks) /\ Depth' = Depth + k
      /\ \A d \in 1..Depth : blocks'[d] = blocks[d]
      /\ \A i \in 1..k : blocks'[Depth + i] = bs[i]
      /\ FramesExact' /\ Nesting'
  BY <1>3, <1>4, <1>5, <1>6, Pushed
<1> QED
  BY <1>2, <1>7

LEMMA Popped ==
  ASSUME TypeOK, FramesExact, Nesting, Depth > 0, blocks' = SubSeq(blocks, 1, Depth - 1)
  PROVE  /\ blocks' \in Seq(OpenBlocks) /\ Depth' = Depth - 1
         /\ \A d \in 1..(Depth - 1) : blocks'[d] = blocks[d]
         /\ FramesExact' /\ Nesting'
<1>1. Depth \in Nat /\ blocks \in Seq(OpenBlocks) /\ Depth = Len(blocks)
  BY DEF TypeOK, Depth
<1>2. /\ blocks' \in Seq(OpenBlocks) /\ Depth' = Depth - 1
      /\ \A d \in 1..(Depth - 1) : blocks'[d] = blocks[d]
  <2>1. \A d \in 1..(Depth - 1) : d \in DOMAIN blocks /\ blocks[d] \in OpenBlocks
    BY <1>1
  <2>2. /\ SubSeq(blocks, 1, Depth - 1) \in Seq(OpenBlocks)
        /\ Len(SubSeq(blocks, 1, Depth - 1)) = Depth - 1
        /\ \A d \in 1..(Depth - 1) : SubSeq(blocks, 1, Depth - 1)[d] = blocks[d]
    BY <1>1, <2>1, SubSeqProperties
  <2> QED
    BY <2>2 DEF Depth
<1>3. \A d \in 1..Depth' : d \in 1..Depth /\ blocks'[d] = blocks[d]
  BY <1>1, <1>2
<1>4. FramesExact'
  BY ZenonT(60), <1>3 DEF FramesExact
<1>5. \A d \in 1..Depth' : d < Depth' => d < Depth /\ blocks'[d + 1] = blocks[d + 1]
  BY <1>1, <1>2
<1>6. Nesting'
  BY ZenonT(60), <1>3, <1>5 DEF Nesting
<1> QED
  BY <1>2, <1>4, <1>6

LEMMA Changed ==
  ASSUME TypeOK, FramesExact, Nesting, NEW h \in 1..Depth, NEW b \in OpenBlocks,
         blocks' = [blocks EXCEPT ![h] = b],
         Framed(b), \A n \in b.vars : n \in blocks[h].vars \/ ~Visible(n),
         \/ b.kind = blocks[h].kind
         \/ b.kind = "else" /\ blocks[h].kind = "then",
         b.kind = "dealloc" => b.vars = {}
  PROVE  /\ blocks' \in Seq(OpenBlocks) /\ Depth' = Depth
         /\ blocks'[h] = b /\ \A d \in 1..Depth : d # h => blocks'[d] = blocks[d]
         /\ FramesExact' /\ Nesting'
<1>1. Depth \in Nat /\ blocks \in Seq(OpenBlocks) /\ Depth = Len(blocks)
  BY DEF TypeOK, Depth
<1>2. /\ blocks' \in Seq(OpenBlocks) /\ Depth' = Depth
      /\ blocks'[h] = b /\ \A d \in 1..Depth : d # h => blocks'[d] = blocks[d]
  BY <1>1 DEF Depth
<1>3. \A d \in 1..Depth' : Framed(blocks[d])'
  <2>1. \A d \in 1..Depth : Framed(blocks'[d])
    BY <1>2, FramedBlocks
  <2> QED
    BY <1>2, <2>1 DEF Framed
<1>4. \A n \in b.vars : n \in blocks[h].vars \/ \A d \in 1..Depth : n \notin blocks[d].vars
  <2>1. \A n \in b.vars : n \in Names
    BY DEF OpenBlocks
  <2> QED
    BY <2>1, NotVisible
<1>5. ASSUME NEW d \in 1..Depth', NEW e \in 1..Depth', NEW n \in blocks'[d].vars \cap blocks'[e].vars
      PROVE  d = e
  <2>1. \A i \in 1..Depth : i # h => blocks'[i].vars = blocks[i].vars
    BY <1>2
  <2>2. n \in b.vars => (d = h /\ e = h) \/ n \in blocks[h].vars
    BY <1>2, <1>4, <2>1
  <2>3. CASE n \in b.vars
    BY <1>2, <2>1, <2>2, <2>3 DEF FramesExact
  <2>4. CASE n \notin b.vars
    BY <1>2, <2>1, <2>4 DEF FramesExact
  <2> QED
    BY <2>3, <2>4
<1>6. FramesExact'
  BY <1>3, <1>5 DEF Framed, FramesExact
<1>7. ASSUME NEW d \in 1..Depth
      PROVE  /\ blocks'[d].kind \in {"method", "dealloc"} <=> d = 1
             /\ blocks'[d].kind = "dealloc" => blocks'[d].vars = {}
             /\ blocks'[d].kind \in {"forin", "switch"} => blocks'[d].kind \in BlockKinds
             /\ blocks'[d].kind = "forin" /\ d < Depth => blocks'[d + 1].kind = "loop"
  <2>1. /\ \/ blocks'[d].kind = blocks[d].kind
           \/ (blocks'[d].kind = "else" /\ blocks[d].kind = "then")
        /\ blocks'[d].kind = "dealloc" => blocks'[d].vars = {}
    <3>1. CASE d = h
      BY <1>2, <3>1
    <3>2. CASE d # h
      BY <1>2, <3>2 DEF Nesting
    <3> QED
      BY <3>1, <3>2
  <2>2. blocks'[d].kind = "forin" /\ d < Depth => blocks'[d + 1].kind = "loop"
    <3> SUFFICES ASSUME blocks'[d].kind = "forin", d < Depth PROVE blocks'[d + 1].kind = "loop"
      OBVIOUS
    <3>1. d + 1 \in 1..Depth /\ blocks[d].kind = "forin"
      BY <1>1, <2>1
    <3>2. blocks[d + 1].kind = "loop"
      BY <3>1 DEF Nesting
    <3>3. blocks'[d + 1].kind = blocks[d + 1].kind \/ blocks[d + 1].kind = "then"
      BY <1>2, <3>1
    <3> QED
      BY <3>2, <3>3
  <2> QED
    BY <2>1, <2>2 DEF Nesting
<1>8. Nesting'
  BY <1>2, <1>7 DEF Nesting
<1> QED
  BY <1>2, <1>6, <1>8

(***************************************************************************)
(* Steps that change no count                                              *)
(***************************************************************************)
\* The first j blocks own what the first k did.
LEMMA OwnedSame ==
  ASSUME NEW bs, NEW cs, NEW used, NEW spent, NEW k \in Int, NEW j \in Int, k <= j, NEW o,
         \A d \in 1..k : /\ cs[d].vars \ spent = bs[d].vars \ used
                         /\ cs[d].kind = bs[d].kind /\ cs[d].val = bs[d].val,
         \A d \in (k + 1)..j : cs[d].kind = "forin" \/ cs[d].vars \subseteq spent
  PROVE  OwnedIn(cs, spent, j, o) = OwnedIn(bs, used, k, o)
<1>1. \A d \in 1..j : d \in 1..k \/ d \in (k + 1)..j
  OBVIOUS
<1>2. \A d \in 1..k : d \in 1..j
  OBVIOUS
<1>3. ASSUME NEW s \in OwnedIn(cs, spent, j, o)
      PROVE  s \in OwnedIn(bs, used, k, o)
  <2>1. s \in (1..j) \X Names /\ s[1] \in 1..j /\ s[2] \in Names
    BY DEF OwnedIn
  <2>2. s[1] \in 1..k
    BY <1>1, <2>1 DEF OwnedIn
  <2>3. s \in (1..k) \X Names
    BY <2>1, <2>2
  <2> QED
    BY <2>2, <2>3 DEF OwnedIn
<1>4. ASSUME NEW s \in OwnedIn(bs, used, k, o)
      PROVE  s \in OwnedIn(cs, spent, j, o)
  <2>1. s \in (1..k) \X Names /\ s[1] \in 1..k /\ s[2] \in Names
    BY DEF OwnedIn
  <2>2. s \in (1..j) \X Names
    BY <1>2, <2>1
  <2> QED
    BY <2>1, <2>2 DEF OwnedIn
<1> QED
  BY <1>3, <1>4

LEMMA CountsSame ==
  ASSUME CountsKept, NEW k \in Int, NEW j \in Int, k = Entered, j = Entered', k <= j,
         UNCHANGED <<rc, ivar>>,
         \A d \in 1..k : /\ blocks'[d].vars \ consumed' = blocks[d].vars \ consumed
                         /\ blocks'[d].kind = blocks[d].kind
                         /\ blocks'[d].val = blocks[d].val,
         \A d \in (k + 1)..j : \/ blocks'[d].kind = "forin"
                               \/ blocks'[d].vars \subseteq consumed',
         \A o \in Objects : ReturnedIn(resume', returns', result', o)
                            = ReturnedIn(resume, returns, result, o)
  PROVE  CountsKept'
<1>1. ASSUME NEW o \in Objects
      PROVE  rc'[o] = OutsideIn(ivar', o) + Cardinality(OwnedIn(blocks', consumed', j, o))
                      + ReturnedIn(resume', returns', result', o)
  <2>1. OwnedIn(blocks', consumed', j, o) = OwnedIn(blocks, consumed, k, o)
    BY OwnedSame
  <2>2. rc[o] = OutsideIn(ivar, o) + Cardinality(OwnedIn(blocks, consumed, k, o))
                + ReturnedIn(resume, returns, result, o)
    BY CountsNow
  <2>3. rc'[o] = rc[o] /\ OutsideIn(ivar', o) = OutsideIn(ivar, o)
    OBVIOUS
  <2> QED
    BY <2>1, <2>2, <2>3
<1> QED
  BY <1>1, CountsNext

LEMMA EnteredInt ==
  ASSUME TypeOK
  PROVE  /\ Depth \in Nat /\ resume \in Nat /\ resume <= Depth
         /\ Entered \in Int /\ Entered <= Depth
         /\ Live => Entered = Depth
         /\ ~Live => Entered = resume - 1 /\ Entered < Depth
<1>1. Depth \in Nat
  BY DepthNat
<1>2. resume \in 0..Depth
  BY DEF TypeOK
<1> QED
  BY <1>1, <1>2 DEF Entered, Live

LEMMA PlainFits ==
  ASSUME NEW kind \in Kinds
  PROVE  /\ Plain(kind) \in OpenBlocks /\ Plain(kind).vars = {} /\ Plain(kind).kind = kind
         /\ Plain(kind).last = "none" /\ Framed(Plain(kind))
<1>1. NoValues \in [Names -> Objects \cup {Nil, Undeclared}]
      /\ \A n \in Names : NoValues[n] = Undeclared
  BY DEF NoValues
<1>2. Plain(kind) = [kind |-> kind, vars |-> {}, val |-> NoValues, last |-> "none"]
  BY DEF Plain, Block
<1> QED
  BY <1>1, <1>2 DEF OpenBlocks, Framed

\* A block begins that owns nothing, or that control does not come to.
LEMMA PushKeeps ==
  ASSUME IInv, Open, NEW bs \in Seq(OpenBlocks), NEW k \in {1, 2}, k = Len(bs),
         blocks' = blocks \o bs,
         \A i \in 1..k : /\ Framed(bs[i]) /\ \A n \in bs[i].vars : ~Visible(n)
                         /\ bs[i].kind \notin {"method", "dealloc"}
                         /\ bs[i].kind \in {"forin", "switch"} => bs[i].kind \in BlockKinds
                         /\ bs[i].last = "none",
         \A i, j \in 1..k : bs[i].vars \cap bs[j].vars # {} => i = j,
         k = 2 /\ bs[1].kind = "forin" => bs[2].kind = "loop",
         ~Live \/ \A i \in 1..k : bs[i].vars = {} \/ bs[i].kind = "forin",
         UNCHANGED <<consumed, returns, rc, ivar, result, dangling>>,
         UNCHANGED resume \/ (Live /\ resume' = Depth + k)
  PROVE  IInv'
<1>1. TypeOK /\ FramesExact /\ Nesting /\ ControlFlow /\ CountsKept /\ ~dangling
  BY DEF IInv
<1>2. Depth > 0 /\ blocks[Depth].kind # "forin" /\ blocks[Depth].last = "none"
  BY DEF Open, Top
<1>3. /\ blocks' \in Seq(OpenBlocks) /\ Depth' = Depth + k
      /\ \A d \in 1..Depth : blocks'[d] = blocks[d]
      /\ \A i \in 1..k : blocks'[Depth + i] = bs[i]
      /\ FramesExact' /\ Nesting'
  BY <1>1, <1>2, Pushed
<1>4. /\ Depth \in Nat /\ resume \in Nat /\ resume <= Depth
      /\ Entered \in Int /\ Entered <= Depth
      /\ Live => Entered = Depth
      /\ ~Live => Entered = resume - 1 /\ Entered < Depth
  BY <1>1, EnteredInt
<1>5. k \in Nat /\ k >= 1 /\ Depth' \in Nat
  BY <1>3, <1>4
<1>6. resume' \in Nat /\ resume' <= Depth' /\ (resume' # resume => resume = 0 /\ resume' > 1)
  BY <1>2, <1>3, <1>4, <1>5 DEF Live
<1>7. TypeOK'
  BY <1>1, <1>3, <1>5, <1>6 DEF TypeOK
<1>8. ControlFlow'
  <2>1. \A d \in 1..Depth' : d \in 1..Depth \/ \E i \in 1..k : d = Depth + i
    BY <1>3, <1>4, <1>5, Behind
  <2>2. \A d \in 1..Depth : blocks[d].last = "none"
    BY <1>1, <1>2, <1>4 DEF ControlFlow
  <2>3. ASSUME NEW d \in 1..Depth' PROVE blocks'[d].last = "none"
    <3>1. CASE d \in 1..Depth
      BY <1>3, <2>2, <3>1
    <3>2. CASE \E i \in 1..k : d = Depth + i
      <4>1. PICK i \in 1..k : d = Depth + i
        BY <3>2
      <4>2. blocks'[d] = bs[i]
        BY <1>3, <4>1
      <4>3. bs[i].last = "none"
        OBVIOUS
      <4> QED
        BY <4>2, <4>3
    <3> QED
      BY <2>1, <3>1, <3>2
  <2>4. resume' = 1 => resume = 1
    BY <1>6
  <2>5. resume = 1 => blocks'[1] = blocks[1]
    BY <1>3, <1>4
  <2> QED
    BY <1>1, <2>3, <2>4, <2>5 DEF ControlFlow
<1>9. CountsKept'
  <2>1. PICK e \in Int : e = Entered
    BY <1>4
  <2>2. PICK j \in Int : j = Entered' /\ e <= j /\ (~Live => j = e) /\ j <= Depth'
    <3>1. CASE ~Live
      <4>1. Entered' = Entered
        BY <3>1 DEF Entered, Live
      <4> QED
        BY <1>3, <1>4, <1>5, <2>1, <4>1
    <3>2. CASE Live /\ resume' = resume
      <4>1. Entered' = Depth + k
        BY <1>3, <3>2 DEF Entered, Live
      <4> QED
        BY <1>3, <1>4, <1>5, <2>1, <3>2, <4>1
    <3>3. CASE Live /\ resume' = Depth + k
      <4>1. Entered' = Depth + k - 1
        BY <1>4, <1>5, <3>3 DEF Entered, Live
      <4> QED
        BY <1>3, <1>4, <1>5, <2>1, <3>3, <4>1
    <3> QED
      BY <3>1, <3>2, <3>3
  <2>3. \A d \in 1..e : d \in 1..Depth
    BY <1>4, <2>1
  <2>4. ASSUME NEW d \in (e + 1)..j
        PROVE  blocks'[d].kind = "forin" \/ blocks'[d].vars \subseteq consumed'
    <3>1. Live
      BY <2>2
    <3>2. PICK i \in 1..k : d = Depth + i
      BY <1>3, <1>4, <1>5, <2>1, <2>2, <3>1
    <3> QED
      BY ZenonT(60), <1>3, <3>1, <3>2
  <2>5. \A o \in Objects : ReturnedIn(resume', returns', result', o)
                           = ReturnedIn(resume, returns, result, o)
    BY <1>6 DEF ReturnedIn
  <2> QED
    BY <1>1, <1>3, <2>1, <2>2, <2>3, <2>4, <2>5, CountsSame
<1> QED
  BY <1>1, <1>3, <1>7, <1>8, <1>9 DEF IInv

LEMMA OpenBlockKeeps ==
  ASSUME IInv, NEW kind, OpenBlock(kind)
  PROVE  IInv'
<1> DEFINE bs == <<Plain(kind)>>
<1>1. kind \in {"block", "then", "loop"} /\ kind \in Kinds
  BY DEF OpenBlock, Kinds
<1>2. /\ Plain(kind) \in OpenBlocks /\ Plain(kind).vars = {} /\ Plain(kind).kind = kind
      /\ Plain(kind).last = "none" /\ Framed(Plain(kind))
  BY <1>1, PlainFits
<1>3. bs \in Seq(OpenBlocks) /\ Len(bs) = 1 /\ \A i \in 1..1 : bs[i] = Plain(kind)
  BY <1>2
<1>4. blocks' = blocks \o bs /\ Open
  BY DEF OpenBlock, Push
<1>5. /\ UNCHANGED <<consumed, returns, rc, ivar, result, dangling>>
      /\ UNCHANGED resume \/ (Live /\ resume' = Depth + 1)
  BY DEF OpenBlock
<1>6. \A i, j \in 1..1 : i = j
  OBVIOUS
<1> HIDE DEF bs
<1> QED
  BY <1>1, <1>2, <1>3, <1>4, <1>5, <1>6, PushKeeps

LEMMA OpenSwitchKeeps ==
  ASSUME IInv, OpenSwitch
  PROVE  IInv'
<1> DEFINE bs == <<Plain("switch"), Plain("case")>>
<1>1. "switch" \in Kinds /\ "case" \in Kinds
  BY DEF Kinds
<1>2. /\ Plain("switch") \in OpenBlocks /\ Plain("switch").vars = {}
      /\ Plain("switch").kind = "switch"
      /\ Plain("switch").last = "none" /\ Framed(Plain("switch"))
  BY <1>1, PlainFits
<1>3. /\ Plain("case") \in OpenBlocks /\ Plain("case").vars = {}
      /\ Plain("case").kind = "case"
      /\ Plain("case").last = "none" /\ Framed(Plain("case"))
  BY <1>1, PlainFits
<1>4. bs \in Seq(OpenBlocks) /\ Len(bs) = 2 /\ bs[1] = Plain("switch") /\ bs[2] = Plain("case")
  BY <1>2, <1>3
<1>5. blocks' = blocks \o bs /\ Open /\ "switch" \in BlockKinds
  BY DEF OpenSwitch, Push
<1>6. /\ UNCHANGED <<consumed, returns, rc, ivar, result, dangling>>
      /\ UNCHANGED resume \/ (Live /\ resume' = Depth + 2)
  BY DEF OpenSwitch
<1>7. \A i \in 1..2 : i = 1 \/ i = 2
  OBVIOUS
<1>8. \A i \in 1..2 : bs[i].vars = {}
  BY <1>2, <1>3, <1>4, <1>7
<1>9. \A i \in 1..2 : /\ Framed(bs[i]) /\ \A n \in bs[i].vars : ~Visible(n)
                      /\ bs[i].kind \notin {"method", "dealloc"}
                      /\ bs[i].kind \in {"forin", "switch"} => bs[i].kind \in BlockKinds
                      /\ bs[i].last = "none"
  BY <1>2, <1>3, <1>4, <1>5, <1>7, <1>8
<1>10. bs[1].kind # "forin"
  BY <1>2, <1>4
<1> HIDE DEF bs
<1> QED
  BY <1>4, <1>5, <1>6, <1>8, <1>9, <1>10, PushKeeps

\* A block that declares one variable.
OneValue(n, v) == [NoValues EXCEPT ![n] = v]

LEMMA BlockFits ==
  ASSUME NEW kind \in Kinds, NEW n \in Names, NEW v \in Objects \cup {Nil},
         kind = "forin" => v \in Held \cup {Nil},
         NEW b, b = Block(kind, {n}, OneValue(n, v))
  PROVE  /\ b \in OpenBlocks /\ b.vars = {n} /\ b.kind = kind /\ b.last = "none"
         /\ b.val[n] = v /\ Framed(b)
<1> DEFINE val == OneValue(n, v)
<1>1. /\ val \in [Names -> Objects \cup {Nil, Undeclared}] /\ val[n] = v
      /\ \A m \in Names : m # n => val[m] = Undeclared
  BY DEF NoValues, OneValue
<1>2. v # Undeclared
  BY ArcAssumption DEF Undeclared
<1> HIDE DEF val
<1>3. b = [kind |-> kind, vars |-> {n}, val |-> val, last |-> "none"]
  BY DEF Block, val
<1>4. b \in OpenBlocks
  BY <1>1, <1>3 DEF OpenBlocks
<1>5. Framed(b)
  BY <1>1, <1>2, <1>3 DEF Framed
<1> QED
  BY <1>1, <1>3, <1>4, <1>5

LEMMA OpenForInKeeps ==
  ASSUME IInv, KeepsRules, NEW n, OpenForIn(n)
  PROVE  IInv'
<1>1. /\ n \in Locals /\ n \in Names /\ Open /\ "forin" \in BlockKinds /\ ~Visible(n)
      /\ UNCHANGED <<consumed, returns, rc, ivar, result, dangling>>
      /\ UNCHANGED resume \/ (Live /\ resume' = Depth + 2)
  BY DEF OpenForIn, KeepsRules, AllRules, Names
<1>2. PICK v \in Held \cup {Nil} :
        blocks' = blocks \o <<Block("forin", {n}, OneValue(n, v)), Plain("loop")>>
  BY DEF OpenForIn, Push, OneValue
<1> DEFINE b == Block("forin", {n}, OneValue(n, v))
           bs == <<b, Plain("loop")>>
<1>3. v \in Objects \cup {Nil} /\ "forin" \in Kinds /\ "loop" \in Kinds
  BY ArcAssumption DEF Kinds
<1>4. /\ b \in OpenBlocks /\ b.vars = {n} /\ b.kind = "forin" /\ b.last = "none" /\ Framed(b)
  <2>1. b = Block("forin", {n}, OneValue(n, v))
    OBVIOUS
  <2> HIDE DEF b
  <2>2. v \in Held \cup {Nil}
    OBVIOUS
  <2> QED
    BY <1>1, <1>3, <2>1, <2>2, BlockFits
<1>5. /\ Plain("loop") \in OpenBlocks /\ Plain("loop").vars = {} /\ Plain("loop").kind = "loop"
      /\ Plain("loop").last = "none" /\ Framed(Plain("loop"))
  BY <1>3, PlainFits
<1> HIDE DEF b
<1>6. bs \in Seq(OpenBlocks) /\ Len(bs) = 2 /\ bs[1] = b /\ bs[2] = Plain("loop")
  BY <1>4, <1>5
<1>7. blocks' = blocks \o bs
  BY <1>2 DEF b
<1> HIDE DEF bs
<1>8. \A i \in 1..2 : i = 1 \/ i = 2
  OBVIOUS
<1>9. \A i \in 1..2 : /\ Framed(bs[i]) /\ \A m \in bs[i].vars : ~Visible(m)
                      /\ bs[i].kind \notin {"method", "dealloc"}
                      /\ bs[i].kind \in {"forin", "switch"} => bs[i].kind \in BlockKinds
                      /\ bs[i].last = "none"
  BY <1>1, <1>4, <1>5, <1>6, <1>8
<1>10. \A i, j \in 1..2 : bs[i].vars \cap bs[j].vars # {} => i = j
  BY <1>4, <1>5, <1>6, <1>8
<1>11. \A i \in 1..2 : bs[i].vars = {} \/ bs[i].kind = "forin"
  BY <1>4, <1>5, <1>6, <1>8
<1>12. bs[2].kind = "loop"
  BY <1>5, <1>6
<1> QED
  BY <1>1, <1>6, <1>7, <1>9, <1>10, <1>11, <1>12, PushKeeps

(***************************************************************************)
(* Steps that change the counts of the owners that they change             *)
(***************************************************************************)
\* Whether variable n of block h owns o.
OwnsAt(bs, used, h, n, o) ==
  IF n \in bs[h].vars \ used /\ bs[h].kind # "forin" /\ bs[h].val[n] = o THEN 1 ELSE 0

\* The first k blocks differ in that variable at most.
SameBut(bs, cs, used, spent, k, h, n) ==
  /\ \A d \in 1..k : cs[d].kind = bs[d].kind
  /\ \A d \in 1..k : \A m \in Names : d # h \/ m # n =>
       /\ m \in cs[d].vars \ spent <=> m \in bs[d].vars \ used
       /\ cs[d].val[m] = bs[d].val[m]

LEMMA SlotChanges ==
  ASSUME NEW bs, NEW cs, NEW used, NEW spent, NEW k \in Int, NEW h \in 1..k, NEW n \in Names,
         NEW o, SameBut(bs, cs, used, spent, k, h, n)
  PROVE  /\ Cardinality(OwnedIn(cs, spent, k, o)) \in Nat
         /\ Cardinality(OwnedIn(bs, used, k, o)) \in Nat
         /\ Cardinality(OwnedIn(cs, spent, k, o)) + OwnsAt(bs, used, h, n, o)
            = Cardinality(OwnedIn(bs, used, k, o)) + OwnsAt(cs, spent, h, n, o)
<1> DEFINE x == <<h, n>>
           S == OwnedIn(bs, used, k, o)
           T == OwnedIn(cs, spent, k, o)
<1>1. \A s \in (1..k) \X Names : s # x => (s \in S <=> s \in T)
  <2> SUFFICES ASSUME NEW d \in 1..k, NEW m \in Names, d # h \/ m # n
               PROVE  <<d, m>> \in S <=> <<d, m>> \in T
    OBVIOUS
  <2> QED
    BY DEF OwnedIn, SameBut
<1>2. S \subseteq (1..k) \X Names /\ T \subseteq (1..k) \X Names
  BY DEF OwnedIn
<1>3. x \in S <=> OwnsAt(bs, used, h, n, o) = 1
  BY DEF OwnedIn, OwnsAt
<1>4. x \in T <=> OwnsAt(cs, spent, h, n, o) = 1
  BY DEF OwnedIn, OwnsAt
<1>5. OwnsAt(bs, used, h, n, o) \in {0, 1} /\ OwnsAt(cs, spent, h, n, o) \in {0, 1}
  BY DEF OwnsAt
<1>6. IsFiniteSet(S)
  BY OwnedFinite
<1> HIDE DEF S, T, x
<1>7. S \ {x} = T \ {x}
  BY <1>1, <1>2
<1>8. /\ Cardinality(S) \in Nat /\ Cardinality(T) \in Nat
      /\ Cardinality(T) + (IF x \in S THEN 1 ELSE 0)
         = Cardinality(S) + (IF x \in T THEN 1 ELSE 0)
  BY <1>6, <1>7, OneChanges
<1>9. /\ (IF x \in S THEN 1 ELSE 0) = OwnsAt(bs, used, h, n, o)
      /\ (IF x \in T THEN 1 ELSE 0) = OwnsAt(cs, spent, h, n, o)
  BY <1>3, <1>4, <1>5
<1> QED
  BY <1>8, <1>9 DEF S, T

\* The same for the ivars.
SetIn(iv, i, v) == [iv EXCEPT ![i] = v]

LEMMA IvarChanges ==
  ASSUME NEW iv \in [Ivars -> Objects \cup {Nil}], NEW i \in Ivars, NEW v, NEW o \in Objects
  PROVE  /\ OutsideIn(iv, o) \in Nat /\ OutsideIn(SetIn(iv, i, v), o) \in Nat
         /\ OutsideIn(SetIn(iv, i, v), o) + Ones(iv[i], o) = OutsideIn(iv, o) + Ones(v, o)
<1> DEFINE jv == SetIn(iv, i, v)
           S == OwningIvars(iv, o)
           T == OwningIvars(jv, o)
<1>1. S \ {i} = T \ {i}
  BY DEF OwningIvars, SetIn
<1>2. (i \in S <=> iv[i] = o) /\ (i \in T <=> v = o)
  BY DEF OwningIvars, SetIn
<1>3. IsFiniteSet(S)
  BY IvarsFinite
<1> HIDE DEF S, T
<1>4. /\ Cardinality(S) \in Nat /\ Cardinality(T) \in Nat
      /\ Cardinality(T) + (IF i \in S THEN 1 ELSE 0)
         = Cardinality(S) + (IF i \in T THEN 1 ELSE 0)
  BY <1>1, <1>3, OneChanges
<1>5. (IF i \in S THEN 1 ELSE 0) = Ones(iv[i], o) /\ (IF i \in T THEN 1 ELSE 0) = Ones(v, o)
  BY <1>2 DEF Ones
<1>6. /\ Ones(iv[i], o) \in Nat /\ Ones(v, o) \in Nat
      /\ Cardinality(T) + Ones(iv[i], o) = Cardinality(S) + Ones(v, o)
  BY <1>4, <1>5 DEF Ones
<1>7. /\ OutsideIn(iv, o) = (IF o \in Held THEN 1 ELSE 0) + Cardinality(S)
      /\ OutsideIn(jv, o) = (IF o \in Held THEN 1 ELSE 0) + Cardinality(T)
  BY DEF OutsideIn, S, T
<1> HIDE DEF jv
<1>8. OutsideIn(jv, o) + Ones(iv[i], o) = OutsideIn(iv, o) + Ones(v, o)
      /\ OutsideIn(iv, o) \in Nat /\ OutsideIn(jv, o) \in Nat
  BY <1>4, <1>6, <1>7
<1> QED
  BY <1>8 DEF jv

ReturnsAgree ==
  /\ returns' \subseteq {"owning", "scalar", "borrowed"} /\ \A r, q \in returns' : r = q
  /\ resume = 1 => returns' = returns

\* A step within the innermost block that control does not come to.
LEMMA SkippedFlow ==
  ASSUME IInv, ~Live, UNCHANGED <<resume, rc, ivar, result, dangling>>, ReturnsAgree,
         blocks' \in Seq(OpenBlocks), Depth' = Depth, FramesExact', Nesting',
         consumed' \subseteq Locals \cup Params,
         \A d \in 1..Depth : blocks'[d].kind = blocks[d].kind,
         \A d \in 1..(Depth - 1) :
           /\ blocks'[d].last = blocks[d].last /\ blocks'[d].val = blocks[d].val
           /\ blocks'[d].vars \ consumed' = blocks[d].vars \ consumed
  PROVE  IInv'
<1>1. TypeOK /\ ControlFlow /\ CountsKept /\ ~dangling
  BY DEF IInv
<1>2. /\ Depth \in Nat /\ resume \in Nat /\ resume <= Depth /\ Entered \in Int
      /\ Entered = resume - 1 /\ Entered < Depth
  BY <1>1, EnteredInt
<1>3. Entered' = Entered /\ ~Live'
  BY DEF Entered, Live
<1>4. TypeOK'
  BY <1>1 DEF TypeOK, ReturnsAgree
<1>5. ControlFlow'
  <2>1. \A d \in 1..Depth' : d < Depth' => d \in 1..(Depth - 1)
    BY <1>2
  <2>2. \A d \in 1..(Depth - 1) : d \in 1..Depth /\ d < Depth
    BY <1>2
  <2>3. \A d \in 1..Depth' : d < Depth' \/ Live' => blocks'[d].last = "none"
    BY <1>1, <1>3, <2>1, <2>2 DEF ControlFlow
  <2>4. resume = 1 => 1 \in 1..Depth
    BY <1>2
  <2>5. resume = 1 => blocks'[1].kind = blocks[1].kind
    BY <2>4
  <2> QED
    BY <1>1, <2>3, <2>5 DEF ControlFlow, ReturnsAgree
<1>6. CountsKept'
  <2>1. PICK e \in Int : e = Entered
    BY <1>2
  <2>2. \A d \in 1..e : d \in 1..(Depth - 1) /\ d \in 1..Depth
    BY <1>2, <2>1
  <2>3. \A d \in (e + 1)..e : FALSE
    OBVIOUS
  <2>4. \A o \in Objects : ReturnedIn(resume', returns', result', o)
                           = ReturnedIn(resume, returns, result, o)
    BY DEF ReturnsAgree, ReturnedIn
  <2>5. e = Entered' /\ e <= e
    BY <1>3, <2>1
  <2> QED
    BY <1>1, <2>1, <2>2, <2>3, <2>4, <2>5, CountsSame
<1> QED
  BY <1>1, <1>4, <1>5, <1>6 DEF IInv

LEMMA SkippedKeeps ==
  ASSUME IInv, ~Live, UNCHANGED <<returns, resume, rc, ivar, result, dangling>>,
         blocks' \in Seq(OpenBlocks), Depth' = Depth, FramesExact', Nesting',
         consumed' \subseteq Locals \cup Params,
         \A d \in 1..Depth : blocks'[d].kind = blocks[d].kind,
         \A d \in 1..(Depth - 1) :
           /\ blocks'[d].last = blocks[d].last /\ blocks'[d].val = blocks[d].val
           /\ blocks'[d].vars \ consumed' = blocks[d].vars \ consumed
  PROVE  IInv'
<1>1. ReturnsAgree
  BY DEF ReturnsAgree, IInv, TypeOK, ControlFlow
<1> QED
  BY <1>1, SkippedFlow

\* A step within the innermost block that control comes to.
LEMMA LiveKeeps ==
  ASSUME IInv, Live, UNCHANGED <<returns, resume, result>>, dangling' = FALSE,
         blocks' \in Seq(OpenBlocks), Depth' = Depth, FramesExact', Nesting',
         consumed' \subseteq Locals \cup Params,
         \A d \in 1..Depth : blocks'[d].last = blocks[d].last,
         rc' \in [Objects -> Nat], ivar' \in [Ivars -> Objects \cup {Nil}],
         \A o \in Objects :
           rc'[o] = OutsideIn(ivar', o) + Cardinality(OwnedIn(blocks', consumed', Depth, o))
  PROVE  IInv'
<1>1. TypeOK /\ ControlFlow
  BY DEF IInv
<1>2. resume = 0 /\ resume' = 0 /\ Live' /\ Depth \in Nat /\ Entered' = Depth
  BY <1>1, EnteredInt DEF Live, Entered
<1>3. TypeOK'
  BY <1>1 DEF TypeOK
<1>4. ControlFlow'
  BY <1>1, <1>2 DEF ControlFlow
<1>5. \A o \in Objects :
        rc'[o] = OutsideIn(ivar', o) + Cardinality(OwnedIn(blocks', consumed', Depth, o))
                 + ReturnedIn(resume', returns', result', o)
  <2>1. \A o \in Objects : ReturnedIn(resume', returns', result', o) = 0
    BY <1>2 DEF ReturnedIn
  <2>2. \A o \in Objects : rc'[o] \in Nat
    OBVIOUS
  <2> QED
    BY <2>1, <2>2
<1>6. CountsKept'
  BY <1>2, <1>5, CountsNext
<1> QED
  BY <1>3, <1>4, <1>6 DEF IInv

LEMMA LiveCounts ==
  ASSUME IInv, Live, NEW o \in Objects
  PROVE  /\ OutsideIn(ivar, o) \in Nat
         /\ Cardinality(OwnedIn(blocks, consumed, Depth, o)) \in Nat
         /\ rc[o] = OutsideIn(ivar, o) + Cardinality(OwnedIn(blocks, consumed, Depth, o))
<1>1. TypeOK /\ CountsKept /\ resume = 0
  BY DEF IInv, Live
<1>2. PICK k \in Nat : k = Depth /\ k = Entered
  BY <1>1, EnteredInt
<1>3. rc[o] = OutsideIn(ivar, o) + Cardinality(OwnedIn(blocks, consumed, k, o))
              + ReturnedIn(resume, returns, result, o)
  BY <1>1, <1>2, CountsNow
<1>4. ReturnedIn(resume, returns, result, o) = 0
  BY <1>1 DEF ReturnedIn
<1>5. OutsideIn(ivar, o) \in Nat /\ Cardinality(OwnedIn(blocks, consumed, k, o)) \in Nat
  BY IvarsFinite, OwnedFinite
<1> QED
  BY <1>2, <1>3, <1>4, <1>5

\* What an owner has is alive.
LEMMA OwnedAlive ==
  ASSUME IInv, Live, NEW d \in 1..Depth, NEW n \in blocks[d].vars \ consumed,
         NEW o \in Objects, blocks[d].kind # "forin", blocks[d].val[n] = o
  PROVE  rc[o] > 0 /\ Cardinality(OwnedIn(blocks, consumed, Depth, o)) > 0
<1>1. TypeOK /\ Depth \in Nat
  BY EnteredInt DEF IInv
<1>2. n \in Names
  BY <1>1, Blocks
<1>3. <<d, n>> \in OwnedIn(blocks, consumed, Depth, o)
  BY <1>2 DEF OwnedIn
<1>4. IsFiniteSet(OwnedIn(blocks, consumed, Depth, o))
  BY <1>1, OwnedFinite
<1>5. Cardinality(OwnedIn(blocks, consumed, Depth, o)) # 0
  BY <1>3, <1>4, FS_EmptySet
<1> QED
  BY <1>5, LiveCounts

LEMMA IvarAlive ==
  ASSUME IInv, Live, NEW i \in Ivars, NEW o \in Objects, ivar[i] = o
  PROVE  rc[o] > 0 /\ OutsideIn(ivar, o) > 0
<1>1. i \in OwningIvars(ivar, o)
  BY DEF OwningIvars
<1>2. Cardinality(OwningIvars(ivar, o)) # 0 /\ Cardinality(OwningIvars(ivar, o)) \in Nat
  BY <1>1, IvarsFinite, FS_EmptySet
<1>3. OutsideIn(ivar, o) > 0
  BY <1>2 DEF OutsideIn
<1> QED
  BY <1>3, LiveCounts

LEMMA HeldAlive ==
  ASSUME IInv, Live, NEW o \in Held
  PROVE  o \in Objects /\ rc[o] > 0 /\ OutsideIn(ivar, o) > 0
<1>1. o \in Objects
  BY ArcAssumption
<1>2. Cardinality(OwningIvars(ivar, o)) \in Nat
  BY IvarsFinite
<1>3. OutsideIn(ivar, o) > 0
  BY <1>2 DEF OutsideIn
<1> QED
  BY <1>1, <1>3, LiveCounts

(***************************************************************************)
(* Expressions                                                             *)
(***************************************************************************)
LEMMA ExprCases ==
  ASSUME NEW K, NEW e \in Exprs(K)
  PROVE  /\ e.kind \in K
         /\ \/ e.kind \in {"nil", "new", "call", "void"}
            \/ e.kind \in {"var", "send"} /\ e.of \in Names /\ Readable(e.of)
            \/ e.kind = "ivar" /\ e.of \in Ivars
<1>1. CASE e \in {[kind |-> k, of |-> Nil] : k \in K \cap {"nil", "new", "call", "void"}}
  BY <1>1
<1>2. CASE e \in {[kind |-> k, of |-> n] :
                    k \in K \cap {"var", "send"}, n \in {m \in Names : Readable(m)}}
  BY <1>2
<1>3. CASE e \in {[kind |-> "ivar", of |-> i] : i \in IF "ivar" \in K THEN Ivars ELSE {}}
  BY <1>3
<1> QED
  BY <1>1, <1>2, <1>3 DEF Exprs

\* A variable that may be read is in a frame and its object is alive.
LEMMA ReadableIn ==
  ASSUME IInv, KeepsRules, NEW n, Readable(n)
  PROVE  /\ n \in Names /\ n \in Locals \cup Params /\ n \notin consumed
         /\ Home(n) \in 1..Depth /\ n \in blocks[Home(n)].vars /\ InScope(n)
         /\ Value(n) = blocks[Home(n)].val[n] /\ Value(n) \in Objects \cup {Nil}
         /\ Live /\ Value(n) # Nil => rc[Value(n)] > 0
<1>1. /\ n \in Names /\ n \in Locals \cup Params /\ n \notin consumed /\ Visible(n)
  BY DEF Readable, KeepsRules, AllRules, Names
<1>2. TypeOK /\ FramesExact
  BY DEF IInv
<1>3. Home(n) \in 1..Depth /\ n \in blocks[Home(n)].vars
  BY <1>1, <1>2, VisibleIn
<1>4. /\ InScope(n) /\ Value(n) = blocks[Home(n)].val[n] /\ Value(n) \in Objects \cup {Nil}
  BY <1>2, <1>3, ValueIn
<1>5. ASSUME Live, Value(n) # Nil PROVE rc[Value(n)] > 0
  <2>1. CASE blocks[Home(n)].kind = "forin"
    <3>1. Value(n) \in Held
      BY <1>2, <1>3, <1>4, <1>5, <2>1 DEF FramesExact
    <3> QED
      BY <1>5, <3>1, HeldAlive
  <2>2. CASE blocks[Home(n)].kind # "forin"
    BY <1>1, <1>3, <1>4, <1>5, <2>2, OwnedAlive
  <2> QED
    BY <2>1, <2>2
<1> QED
  BY <1>1, <1>3, <1>4, <1>5

LEMMA LiveValue ==
  ASSUME IInv, KeepsRules, Live, NEW K, NEW e \in Exprs(K), NEW v \in ValuesOf(e)
  PROVE  /\ e.kind \in {"nil", "new", "call", "var", "ivar", "void"} => v \in Objects \cup {Nil}
         /\ e.kind \in {"nil", "void", "send"} => v = Nil
         /\ e.kind = "new" => v \in Objects \ (Held \cup Locks) /\ rc[v] = 0 /\ Fresh(v)
         /\ e.kind = "call" => v \in Held /\ rc[v] > 0
         /\ e.kind = "var" => v = Value(e.of) /\ (v # Nil => rc[v] > 0)
         /\ e.kind = "ivar" => v = ivar[e.of]
<1>1. CASE e.kind = "new"
  BY <1>1 DEF ValuesOf, Fresh
<1>2. CASE e.kind = "call"
  BY <1>2, HeldAlive DEF ValuesOf
<1>3. CASE e.kind = "var"
  <2>1. v = Value(e.of)
    BY <1>3 DEF ValuesOf
  <2>2. Readable(e.of)
    BY <1>3, ExprCases
  <2> QED
    BY <1>3, <2>1, <2>2, ReadableIn
<1>4. CASE e.kind = "ivar"
  <2>1. v = ivar[e.of]
    BY <1>4 DEF ValuesOf
  <2>2. e.of \in Ivars
    BY <1>4, ExprCases
  <2> QED
    BY <1>4, <2>1, <2>2 DEF IInv, TypeOK
<1>5. CASE e.kind \in {"nil", "void", "send"}
  BY <1>5 DEF ValuesOf
<1> QED
  BY <1>1, <1>2, <1>3, <1>4, <1>5

(***************************************************************************)
(* @synchronized                                                           *)
(***************************************************************************)
LEMMA PushedOwns ==
  ASSUME NEW m \in Nat, NEW bs, NEW cs, NEW used, NEW n \in Names, NEW o,
         \A d \in 1..m : cs[d] = bs[d], cs[m + 1].vars = {n}
  PROVE  /\ Cardinality(OwnedIn(bs, used, m, o)) \in Nat
         /\ Cardinality(OwnedIn(cs, used, m + 1, o))
            = Cardinality(OwnedIn(bs, used, m, o)) + OwnsAt(cs, used, m + 1, n, o)
<1> DEFINE x == <<m + 1, n>>
           S == OwnedIn(bs, used, m, o)
           T == OwnedIn(cs, used, m + 1, o)
<1>1. \A d \in 1..(m + 1) : d \in 1..m \/ d = m + 1
  OBVIOUS
<1>2. \A d \in 1..m : d \in 1..(m + 1) /\ d # m + 1
  OBVIOUS
<1>3. ASSUME NEW s \in T, s # x PROVE s \in S
  <2>1. s \in (1..(m + 1)) \X Names /\ s[2] \in cs[s[1]].vars
    BY DEF OwnedIn
  <2>2. s[1] # m + 1
    BY <1>3, <2>1
  <2>3. s[1] \in 1..m /\ s \in (1..m) \X Names
    BY <1>1, <2>1, <2>2
  <2> QED
    BY <2>3 DEF OwnedIn
<1>4. ASSUME NEW s \in S PROVE s \in T /\ s # x
  <2>1. s \in (1..m) \X Names /\ s[1] \in 1..m
    BY DEF OwnedIn
  <2>2. s \in (1..(m + 1)) \X Names /\ s[1] # m + 1
    BY <1>2, <2>1
  <2> QED
    BY <2>1, <2>2 DEF OwnedIn
<1>5. x \in T <=> OwnsAt(cs, used, m + 1, n, o) = 1
  <2>1. x \in (1..(m + 1)) \X Names
    OBVIOUS
  <2> QED
    BY <2>1 DEF OwnedIn, OwnsAt
<1>6. OwnsAt(cs, used, m + 1, n, o) \in {0, 1}
  BY DEF OwnsAt
<1>7. IsFiniteSet(S)
  BY OwnedFinite
<1> HIDE DEF S, T, x
<1>8. S \ {x} = T \ {x} /\ x \notin S
  BY <1>3, <1>4
<1>9. /\ Cardinality(S) \in Nat /\ Cardinality(T) \in Nat
      /\ Cardinality(T) + (IF x \in S THEN 1 ELSE 0)
         = Cardinality(S) + (IF x \in T THEN 1 ELSE 0)
  BY <1>7, <1>8, OneChanges
<1>10. (IF x \in S THEN 1 ELSE 0) = 0 /\ (IF x \in T THEN 1 ELSE 0) = OwnsAt(cs, used, m + 1, n, o)
  BY <1>5, <1>6, <1>8
<1>11. /\ Cardinality(S) \in Nat
       /\ Cardinality(T) = Cardinality(S) + OwnsAt(cs, used, m + 1, n, o)
  BY <1>6, <1>9, <1>10
<1> QED
  BY <1>11 DEF S, T

LEMMA OpenSyncKeeps ==
  ASSUME IInv, NEW n, OpenSync(n)
  PROVE  IInv'
<1>1. /\ n \in Syncs /\ n \in Names /\ Open /\ ~Visible(n)
      /\ UNCHANGED <<consumed, returns, resume, ivar, result, unguarded>>
  BY DEF OpenSync, Names
<1>2. /\ TypeOK /\ FramesExact /\ Nesting /\ ControlFlow /\ CountsKept /\ ~dangling
      /\ Depth > 0 /\ blocks[Depth].kind # "forin" /\ blocks[Depth].last = "none"
  BY <1>1 DEF IInv, Open, Top
<1>3. PICK v \in IF Live THEN {o \in Locks : Fresh(o)} ELSE {Nil} :
        /\ blocks' = blocks \o <<Block("sync", {n}, OneValue(n, v))>>
        /\ Run(v, Nil, None)
  BY DEF OpenSync, Push, OneValue
<1> DEFINE b == Block("sync", {n}, OneValue(n, v))
           bs == <<b>>
<1>4. v \in Objects \cup {Nil} /\ "sync" \in Kinds
  BY ArcAssumption DEF Kinds
<1>5. /\ b \in OpenBlocks /\ b.vars = {n} /\ b.kind = "sync" /\ b.last = "none"
      /\ b.val[n] = v /\ Framed(b)
  <2>1. b = Block("sync", {n}, OneValue(n, v))
    OBVIOUS
  <2> HIDE DEF b
  <2> QED
    BY <1>1, <1>4, <2>1, BlockFits
<1> HIDE DEF b
<1>6. bs \in Seq(OpenBlocks) /\ Len(bs) = 1 /\ \A i \in 1..1 : bs[i] = b
  BY <1>5
<1>7. blocks' = blocks \o bs
  BY <1>3 DEF b
<1> HIDE DEF bs
<1>8. \A i, j \in 1..1 : i = j
  OBVIOUS
<1>9. \A i \in 1..1 : /\ Framed(bs[i]) /\ \A m \in bs[i].vars : ~Visible(m)
                      /\ bs[i].kind \notin {"method", "dealloc"}
                      /\ bs[i].kind \in {"forin", "switch"} => bs[i].kind \in BlockKinds
                      /\ bs[i].last = "none"
  BY <1>1, <1>5, <1>6
<1>10. CASE ~Live
  <2>1. UNCHANGED <<rc, dangling>>
    BY <1>3, <1>10, RunSkipped
  <2> QED
    BY <1>1, <1>6, <1>7, <1>8, <1>9, <1>10, <2>1, PushKeeps
<1>11. CASE Live
  <2>1. v \in Objects /\ rc[v] = 0
    BY <1>3, <1>11, ArcAssumption DEF Fresh
  <2>2. None \in [Objects -> Nat] /\ \A o \in Objects : None[o] = 0
    BY NoneType
  <2>3. \A o \in Objects : rc[o] \in Nat /\ Ones(v, o) \in Nat /\ Ones(Nil, o) = 0
    BY <1>2, ArcAssumption DEF TypeOK, Ones
  <2>4. \A o \in Objects : None[o] <= rc[o] + Ones(v, o) + Ones(Nil, o)
    BY <2>2, <2>3
  <2>5. /\ rc' \in [Objects -> Nat] /\ dangling' = FALSE
        /\ \A o \in Objects : rc'[o] = rc[o] + Ones(v, o) + Ones(Nil, o) - None[o]
    BY <1>2, <1>3, <1>4, <1>11, <2>1, <2>2, <2>4, RunExact
  <2>6. \A o \in Objects : rc'[o] = rc[o] + Ones(v, o)
    BY <2>2, <2>3, <2>5
  <2>7. /\ blocks' \in Seq(OpenBlocks) /\ Depth' = Depth + 1
        /\ \A d \in 1..Depth : blocks'[d] = blocks[d]
        /\ \A i \in 1..1 : blocks'[Depth + i] = bs[i]
        /\ FramesExact' /\ Nesting'
    BY <1>2, <1>6, <1>7, <1>9, PushedOne
  <2>8. blocks'[Depth + 1] = b
    BY <1>6, <2>7
  <2>9. Depth \in Nat /\ resume = 0 /\ resume' = 0 /\ Entered' = Depth + 1 /\ Live'
    BY <1>1, <1>2, <1>11, <2>7, DepthNat DEF Live, Entered
  <2>10. TypeOK'
    <3>1. resume' \in 0..Depth'
      BY <2>7, <2>9
    <3> QED
      BY <1>1, <1>2, <2>5, <2>7, <3>1 DEF TypeOK
  <2>11. ControlFlow'
    <3>1. \A d \in 1..Depth' : d \in 1..Depth \/ d = Depth + 1
      BY <2>7, <2>9
    <3>2. \A d \in 1..Depth : blocks[d].last = "none"
      BY <1>2, <1>11 DEF ControlFlow
    <3>3. \A d \in 1..Depth' : blocks'[d].last = "none"
      BY <1>5, <2>7, <2>8, <3>1, <3>2
    <3> QED
      BY <1>1, <1>2, <2>9, <3>3 DEF ControlFlow
  <2>12. ASSUME NEW o \in Objects
         PROVE  rc'[o] = OutsideIn(ivar', o)
                         + Cardinality(OwnedIn(blocks', consumed', Depth + 1, o))
                         + ReturnedIn(resume', returns', result', o)
    <3>1. /\ Cardinality(OwnedIn(blocks, consumed, Depth, o)) \in Nat
          /\ Cardinality(OwnedIn(blocks', consumed, Depth + 1, o))
             = Cardinality(OwnedIn(blocks, consumed, Depth, o))
               + OwnsAt(blocks', consumed, Depth + 1, n, o)
      BY <1>1, <1>5, <2>7, <2>8, <2>9, PushedOwns
    <3>2. n \notin consumed
      BY <1>1, <1>2, ArcAssumption DEF TypeOK
    <3>3. OwnsAt(blocks', consumed, Depth + 1, n, o) = Ones(v, o)
      BY <1>5, <2>8, <3>2 DEF OwnsAt, Ones
    <3>4. /\ OutsideIn(ivar, o) \in Nat
          /\ rc[o] = OutsideIn(ivar, o) + Cardinality(OwnedIn(blocks, consumed, Depth, o))
      BY <1>11, LiveCounts
    <3>5. ReturnedIn(resume', returns', result', o) = 0
      BY <2>9 DEF ReturnedIn
    <3>6. consumed' = consumed /\ ivar' = ivar
      BY <1>1
    <3> QED
      BY <2>3, <2>6, <3>1, <3>3, <3>4, <3>5, <3>6
  <2>13. CountsKept'
    BY <2>9, <2>12, CountsNext
  <2> QED
    BY <2>5, <2>7, <2>10, <2>11, <2>13 DEF IInv
<1> QED
  BY <1>10, <1>11

(***************************************************************************)
(* Declarations and assignments                                            *)
(***************************************************************************)
\* What the code of a statement does to the counts, if its releases are owed.
RunDid(fresh, kept, lost) ==
  \A o \in Objects :
    /\ Ones(fresh, o) \in Nat /\ Ones(kept, o) \in Nat
    /\ rc'[o] = rc[o] + Ones(fresh, o) + Ones(kept, o) - lost[o]

Covered(lost) == \A o \in Objects : lost[o] <= rc[o]

LEMMA RunOf ==
  ASSUME IInv, KeepsRules, Live, NEW K, NEW e \in Exprs(K),
         e.kind \in {"nil", "new", "call", "var", "ivar", "void"}, NEW v \in ValuesOf(e),
         NEW kept \in {Nil, v}, kept # Nil => IsBorrowed(e),
         NEW lost \in [Objects -> Nat], Covered(lost), Run(New(e, v), kept, lost)
  PROVE  /\ v \in Objects \cup {Nil}
         /\ rc' \in [Objects -> Nat] /\ dangling' = FALSE
         /\ RunDid(New(e, v), kept, lost)
<1>1. TypeOK /\ rc \in [Objects -> Nat]
  BY DEF IInv, TypeOK
<1>2. v \in Objects \cup {Nil}
  BY LiveValue
<1>3. New(e, v) \in Objects \cup {Nil} /\ (New(e, v) # Nil => rc[New(e, v)] = 0)
  <2>1. CASE e.kind = "new"
    BY <1>2, <2>1, LiveValue DEF New
  <2>2. CASE e.kind # "new"
    BY <2>2 DEF New
  <2> QED
    BY <2>1, <2>2
<1>4. kept \in Objects \cup {Nil} /\ (kept # Nil => rc[kept] > 0)
  <2>1. CASE kept = Nil
    BY <2>1
  <2>2. CASE kept # Nil
    <3>1. kept = v /\ e.kind \in {"call", "var"}
      BY <2>2 DEF IsBorrowed
    <3>2. rc[v] > 0
      BY <2>2, <3>1, LiveValue
    <3> QED
      BY <1>2, <3>1, <3>2
  <2> QED
    BY <2>1, <2>2
<1>5. \A o \in Objects : rc[o] \in Nat /\ lost[o] \in Nat /\ Ones(New(e, v), o) \in Nat
                         /\ Ones(kept, o) \in Nat
  BY <1>1 DEF Ones
<1>6. \A o \in Objects : lost[o] <= rc[o] + Ones(New(e, v), o) + Ones(kept, o)
  BY <1>5 DEF Covered
<1> HIDE DEF New
<1>7. /\ rc' \in [Objects -> Nat] /\ dangling' = FALSE
      /\ \A o \in Objects : rc'[o] = rc[o] + Ones(New(e, v), o) + Ones(kept, o) - lost[o]
  BY <1>1, <1>3, <1>4, <1>6, RunExact
<1> QED
  BY <1>2, <1>5, <1>7 DEF RunDid

\* The same for code that only releases.
LEMMA Released ==
  ASSUME IInv, Live, NEW lost \in [Objects -> Nat], Covered(lost), Run(Nil, Nil, lost)
  PROVE  /\ rc' \in [Objects -> Nat] /\ dangling' = FALSE
         /\ \A o \in Objects : lost[o] \in Nat /\ rc'[o] = rc[o] - lost[o]
<1>1. TypeOK /\ rc \in [Objects -> Nat] /\ Nil \notin Objects
  BY ArcAssumption DEF IInv, TypeOK
<1>2. PICK w \in Objects \cup {Nil} : w = Nil
  OBVIOUS
<1>3. \A o \in Objects : rc[o] \in Nat /\ Ones(w, o) = 0 /\ lost[o] \in Nat /\ lost[o] <= rc[o]
  BY <1>1, <1>2 DEF Ones, Covered
<1>4. \A o \in Objects : lost[o] <= rc[o] + Ones(w, o) + Ones(w, o)
  BY <1>3
<1>5. Run(w, w, lost)
  BY <1>2
<1>6. /\ rc' \in [Objects -> Nat] /\ dangling' = FALSE
      /\ \A o \in Objects : rc'[o] = rc[o] + Ones(w, o) + Ones(w, o) - lost[o]
  BY ZenonT(60), <1>1, <1>2, <1>4, <1>5, RunExact
<1> QED
  BY <1>3, <1>6

\* A block in which n is declared and has the value v.
Bound(b, n, v) == [b EXCEPT !.vars = @ \cup {n}, !.val[n] = v]

LEMMA BoundFits ==
  ASSUME NEW b \in OpenBlocks, Framed(b), b.kind # "forin", NEW n \in Names,
         NEW v \in Objects \cup {Nil}, NEW c, c = Bound(b, n, v)
  PROVE  /\ c \in OpenBlocks /\ Framed(c) /\ c.kind = b.kind /\ c.last = b.last
         /\ c.vars = b.vars \cup {n} /\ c.val[n] = v
         /\ \A m \in Names : m # n => c.val[m] = b.val[m]
<1>1. /\ b.kind \in Kinds /\ b.vars \subseteq Names /\ b.last \in {"none", "jump", "return"}
      /\ b.val \in [Names -> Objects \cup {Nil, Undeclared}]
      /\ b = [kind |-> b.kind, vars |-> b.vars, val |-> b.val, last |-> b.last]
  BY DEF OpenBlocks
<1> DEFINE w == [b.val EXCEPT ![n] = v]
<1>2. c = [kind |-> b.kind, vars |-> b.vars \cup {n}, val |-> w, last |-> b.last]
  BY <1>1 DEF Bound
<1>3. /\ w \in [Names -> Objects \cup {Nil, Undeclared}] /\ w[n] = v
      /\ \A m \in Names : m # n => w[m] = b.val[m]
  BY <1>1
<1>4. v # Undeclared
  BY ArcAssumption DEF Undeclared
<1> HIDE DEF w
<1>5. c \in OpenBlocks
  BY <1>1, <1>2, <1>3 DEF OpenBlocks
<1>6. Framed(c)
  BY <1>2, <1>3, <1>4 DEF Framed
<1> QED
  BY <1>2, <1>3, <1>5, <1>6

LEMMA Binds ==
  ASSUME IInv, NEW h \in 1..Depth, blocks[h].kind \notin {"forin", "dealloc"}, NEW n \in Names,
         n \in blocks[h].vars \/ ~Visible(n), n \notin consumed, NEW v \in Objects \cup {Nil},
         NEW c, c = Bound(blocks[h], n, v), blocks' = [blocks EXCEPT ![h] = c]
  PROVE  /\ blocks' \in Seq(OpenBlocks) /\ Depth' = Depth /\ FramesExact' /\ Nesting'
         /\ \A d \in 1..Depth : blocks'[d].kind = blocks[d].kind /\ blocks'[d].last = blocks[d].last
         /\ \A d \in 1..Depth : d # h => blocks'[d] = blocks[d]
         /\ \A o \in Objects :
              /\ Cardinality(OwnedIn(blocks', consumed, Depth, o)) \in Nat
              /\ Cardinality(OwnedIn(blocks, consumed, Depth, o)) \in Nat
              /\ Cardinality(OwnedIn(blocks', consumed, Depth, o)) + OwnsAt(blocks, consumed, h, n, o)
                 = Cardinality(OwnedIn(blocks, consumed, Depth, o)) + Ones(v, o)
<1>1. TypeOK /\ FramesExact /\ Nesting /\ Depth \in Nat
  BY EnteredInt DEF IInv
<1>2. blocks[h] \in OpenBlocks /\ Framed(blocks[h])
  BY <1>1, Blocks, FramedBlocks
<1>3. /\ c \in OpenBlocks /\ Framed(c) /\ c.kind = blocks[h].kind /\ c.last = blocks[h].last
      /\ c.vars = blocks[h].vars \cup {n} /\ c.val[n] = v
      /\ \A m \in Names : m # n => c.val[m] = blocks[h].val[m]
  BY <1>2, BoundFits
<1>4. /\ \A m \in c.vars : m \in blocks[h].vars \/ ~Visible(m)
      /\ c.kind # "dealloc"
  BY <1>3
<1>5. /\ blocks' \in Seq(OpenBlocks) /\ Depth' = Depth
      /\ blocks'[h] = c /\ \A d \in 1..Depth : d # h => blocks'[d] = blocks[d]
      /\ FramesExact' /\ Nesting'
  BY <1>1, <1>3, <1>4, Changed
<1>6. ASSUME NEW o \in Objects
      PROVE  /\ Cardinality(OwnedIn(blocks', consumed, Depth, o)) \in Nat
             /\ Cardinality(OwnedIn(blocks, consumed, Depth, o)) \in Nat
             /\ Cardinality(OwnedIn(blocks', consumed, Depth, o)) + OwnsAt(blocks, consumed, h, n, o)
                = Cardinality(OwnedIn(blocks, consumed, Depth, o)) + Ones(v, o)
  <2>1. \A d \in 1..Depth : blocks'[d].kind = blocks[d].kind
    BY <1>3, <1>5
  <2>2. \A d \in 1..Depth : \A m \in Names : d # h \/ m # n =>
          /\ m \in blocks'[d].vars \ consumed <=> m \in blocks[d].vars \ consumed
          /\ blocks'[d].val[m] = blocks[d].val[m]
    BY <1>3, <1>5
  <2>3. OwnsAt(blocks', consumed, h, n, o) = Ones(v, o)
    BY <1>3, <1>5 DEF OwnsAt, Ones
  <2>4. PICK k \in Int : k = Depth
    BY <1>1
  <2>5. h \in 1..k
    BY <2>4
  <2>6. /\ Cardinality(OwnedIn(blocks', consumed, k, o)) \in Nat
        /\ Cardinality(OwnedIn(blocks, consumed, k, o)) \in Nat
        /\ Cardinality(OwnedIn(blocks', consumed, k, o)) + OwnsAt(blocks, consumed, h, n, o)
           = Cardinality(OwnedIn(blocks, consumed, k, o)) + OwnsAt(blocks', consumed, h, n, o)
    <3>1. SameBut(blocks, blocks', consumed, consumed, k, h, n)
      BY <2>1, <2>2, <2>4 DEF SameBut
    <3> QED
      BY <2>5, <3>1, SlotChanges
  <2> QED
    BY <2>3, <2>4, <2>6
<1> QED
  BY <1>3, <1>5, <1>6

LEMMA DeclareKeeps ==
  ASSUME IInv, KeepsRules, NEW n, NEW e, Declare(n, e)
  PROVE  IInv'
<1>1. /\ Open /\ n \in Locals /\ n \in Names /\ ~Visible(n) /\ n \notin consumed
      /\ Top.kind # "dealloc" /\ e \in Exprs(DeclFrom)
      /\ UNCHANGED <<consumed, returns, resume, ivar, result>>
  BY DEF Declare, KeepsRules, AllRules, Names
<1>2. /\ TypeOK /\ Depth \in Nat /\ Depth \in 1..Depth /\ Top = blocks[Depth]
      /\ Top.kind \notin {"forin", "dealloc"}
  BY <1>1, EnteredInt DEF IInv, Open, Top
<1>3. PICK v \in ValuesOf(e) :
        /\ Run(New(e, v), IF IsBorrowed(e) THEN v ELSE Nil, None)
        /\ blocks' = [blocks EXCEPT ![Depth].vars = @ \cup {n}, ![Depth].val[n] = v]
  BY <1>1 DEF Declare
<1>4. PICK c : c = Bound(blocks[Depth], n, v)
  OBVIOUS
<1>5. blocks' = [blocks EXCEPT ![Depth] = c]
  BY <1>2, <1>3, <1>4 DEF Bound, TypeOK, Depth
<1>6. e.kind \in {"nil", "new", "call", "var"}
  BY <1>1, ExprCases DEF KeepsRules
<1>7. v \in Objects \cup {Nil} /\ (~Live => v = Nil)
  BY <1>1, <1>6, LiveValue DEF ValuesOf
<1>8. /\ blocks' \in Seq(OpenBlocks) /\ Depth' = Depth /\ FramesExact' /\ Nesting'
      /\ \A d \in 1..Depth : blocks'[d].kind = blocks[d].kind /\ blocks'[d].last = blocks[d].last
      /\ \A d \in 1..Depth : d # Depth => blocks'[d] = blocks[d]
      /\ \A o \in Objects :
           /\ Cardinality(OwnedIn(blocks', consumed, Depth, o)) \in Nat
           /\ Cardinality(OwnedIn(blocks, consumed, Depth, o)) \in Nat
           /\ Cardinality(OwnedIn(blocks', consumed, Depth, o)) + OwnsAt(blocks, consumed, Depth, n, o)
              = Cardinality(OwnedIn(blocks, consumed, Depth, o)) + Ones(v, o)
  BY ZenonT(60), <1>1, <1>2, <1>4, <1>5, <1>7, Binds
<1>9. consumed' \subseteq Locals \cup Params
  BY <1>1, <1>2 DEF TypeOK
<1>10. CASE ~Live
  <2>1. UNCHANGED <<rc, dangling>>
    BY <1>3, <1>10, RunSkipped
  <2>2. \A d \in 1..(Depth - 1) : d \in 1..Depth /\ d # Depth
    BY <1>2
  <2>3. \A d \in 1..(Depth - 1) :
          /\ blocks'[d].last = blocks[d].last /\ blocks'[d].val = blocks[d].val
          /\ blocks'[d].vars \ consumed' = blocks[d].vars \ consumed
    BY <1>1, <1>8, <2>2
  <2> QED
    BY <1>1, <1>8, <1>9, <1>10, <2>1, <2>3, SkippedKeeps
<1>11. CASE Live
  <2>1. PICK kept \in {Nil, v} : kept = IF IsBorrowed(e) THEN v ELSE Nil
    OBVIOUS
  <2>2. kept # Nil => IsBorrowed(e)
    BY <2>1
  <2>3. None \in [Objects -> Nat] /\ \A o \in Objects : None[o] = 0 /\ rc[o] \in Nat
    BY <1>2, NoneType DEF TypeOK
  <2>4. Run(New(e, v), kept, None)
    BY <1>3, <2>1
  <2>5. /\ rc' \in [Objects -> Nat] /\ dangling' = FALSE
        /\ \A o \in Objects :
             /\ Ones(New(e, v), o) \in Nat /\ Ones(kept, o) \in Nat
             /\ rc'[o] = rc[o] + Ones(New(e, v), o) + Ones(kept, o) - None[o]
    <3>1. PICK lost \in [Objects -> Nat] : lost = None
      BY <2>3
    <3>2. Covered(lost)
      BY <2>3, <3>1 DEF Covered
    <3>3. Run(New(e, v), kept, lost)
      BY <2>4, <3>1
    <3>4. e.kind \in {"nil", "new", "call", "var", "ivar", "void"}
      BY <1>6
    <3>5. rc' \in [Objects -> Nat] /\ dangling' = FALSE /\ RunDid(New(e, v), kept, lost)
      BY <1>1, <1>11, <2>2, <3>2, <3>3, <3>4, RunOf
    <3> QED
      BY <3>1, <3>5 DEF RunDid
  <2>6. ASSUME NEW o \in Objects
        PROVE  Ones(New(e, v), o) + Ones(kept, o) = Ones(v, o)
    <3>1. Ones(Nil, o) = 0 /\ Ones(v, o) \in Nat
      BY ArcAssumption DEF Ones
    <3>2. CASE e.kind = "nil"
      <4>1. v = Nil /\ New(e, v) = Nil /\ kept = Nil
        BY <1>1, <1>11, <2>1, <3>2, LiveValue DEF New
      <4> QED
        BY <3>1, <4>1
    <3>3. CASE e.kind = "new"
      <4>1. New(e, v) = v /\ kept = Nil
        BY <2>1, <3>3 DEF New, IsBorrowed
      <4> QED
        BY <3>1, <4>1
    <3>4. CASE e.kind \in {"call", "var"}
      <4>1. New(e, v) = Nil /\ kept = v
        BY <2>1, <3>4 DEF New, IsBorrowed
      <4> QED
        BY <3>1, <4>1
    <3> QED
      BY <1>6, <3>2, <3>3, <3>4
  <2>7. ASSUME NEW o \in Objects
        PROVE  rc'[o] = OutsideIn(ivar', o) + Cardinality(OwnedIn(blocks', consumed', Depth, o))
    <3>1. /\ OutsideIn(ivar, o) \in Nat
          /\ rc[o] = OutsideIn(ivar, o) + Cardinality(OwnedIn(blocks, consumed, Depth, o))
      BY <1>11, LiveCounts
    <3>2. n \notin blocks[Depth].vars
      BY <1>1, <1>2, NotVisible DEF IInv
    <3>3. OwnsAt(blocks, consumed, Depth, n, o) = 0
      BY <3>2 DEF OwnsAt
    <3>4. rc'[o] = rc[o] + Ones(v, o) /\ Ones(v, o) \in Nat
      <4>1. Ones(v, o) \in Nat
        BY DEF Ones
      <4> QED
        BY <2>3, <2>5, <2>6, <4>1
    <3>5. consumed' = consumed /\ ivar' = ivar
      BY <1>1
    <3> QED
      BY <1>8, <3>1, <3>3, <3>4, <3>5
  <2>8. ivar' \in [Ivars -> Objects \cup {Nil}]
    BY <1>1, <1>2 DEF TypeOK
  <2> QED
    BY <1>1, <1>8, <1>9, <1>11, <2>5, <2>7, <2>8, LiveKeeps
<1> QED
  BY <1>10, <1>11

LEMMA NoForIn ==
  ASSUME IInv, KeepsRules, NEW d \in 1..Depth,
         "for-in to the end" \in Rules => blocks[d].kind # "forin"
  PROVE  blocks[d].kind # "forin"
<1> SUFFICES ASSUME blocks[d].kind = "forin" PROVE FALSE
  OBVIOUS
<1>1. blocks[d].kind \in BlockKinds
  BY DEF IInv, Nesting
<1>2. "forin" \in BlockKinds
  BY <1>1
<1> QED
  BY <1>2 DEF KeepsRules

AssignedIn(bs, h, n, v) == [bs EXCEPT ![h].val[n] = v]
PlacedIn(bs, h, b)      == [bs EXCEPT ![h] = b]

LEMMA BoundSame ==
  ASSUME TypeOK, NEW h \in 1..Depth, NEW n \in blocks[h].vars, NEW v
  PROVE  AssignedIn(blocks, h, n, v) = PlacedIn(blocks, h, Bound(blocks[h], n, v))
<1>1. blocks[h] \in OpenBlocks
  BY Blocks
<1>2. \A b \in OpenBlocks : n \in b.vars => [b EXCEPT !.val[n] = v] = Bound(b, n, v)
  <2> SUFFICES ASSUME NEW b \in OpenBlocks, n \in b.vars
               PROVE  [b EXCEPT !.val[n] = v] = Bound(b, n, v)
    OBVIOUS
  <2>1. b = [kind |-> b.kind, vars |-> b.vars, val |-> b.val, last |-> b.last]
    BY DEF OpenBlocks
  <2>2. b.vars \cup {n} = b.vars
    OBVIOUS
  <2> QED
    BY <2>1, <2>2 DEF Bound
<1>3. [blocks[h] EXCEPT !.val[n] = v] = Bound(blocks[h], n, v)
  BY <1>1, <1>2
<1> QED
  BY <1>3 DEF AssignedIn, PlacedIn

\* The counts move as the owners do.
LEMMA Balance ==
  ASSUME NEW r \in Nat, NEW out \in Nat, NEW own \in Nat, NEW new \in Nat, NEW kept \in Nat,
         NEW lost \in Nat, NEW got \in Nat, NEW ownNext \in Nat,
         r = out + own, new + kept = got, ownNext + lost = own + got
  PROVE  r + new + kept - lost = out + ownNext
OBVIOUS

\* The reference that a variable gives up is one of the object's.
LEMMA GivesUp ==
  ASSUME IInv, KeepsRules, Live, NEW n, Readable(n)
  PROVE  One(Value(n)) \in [Objects -> Nat] /\ Covered(One(Value(n)))
<1>1. Value(n) # Nil => rc[Value(n)] > 0
  BY ReadableIn
<1>2. rc \in [Objects -> Nat] /\ Nil \notin Objects
  BY ArcAssumption DEF IInv, TypeOK
<1>3. PICK w : w = Value(n)
  OBVIOUS
<1>4. One(w) \in [Objects -> Nat] /\ \A o \in Objects : One(w)[o] = Ones(w, o)
  BY OneType
<1>5. \A o \in Objects : One(w)[o] <= rc[o]
  BY <1>1, <1>2, <1>3, <1>4 DEF Ones
<1> QED
  BY <1>3, <1>4, <1>5 DEF Covered

LEMMA AssignKeeps ==
  ASSUME IInv, KeepsRules, NEW n, NEW e, Assign(n, e)
  PROVE  IInv'
<1>1. /\ Open /\ Readable(n) /\ e \in Exprs(AssignFrom)
      /\ "for-in to the end" \in Rules => ~IsLoopVar(n)
      /\ UNCHANGED <<returns, resume, ivar, result>>
  BY DEF Assign
<1>2. /\ n \in Names /\ n \notin consumed /\ Home(n) \in 1..Depth /\ n \in blocks[Home(n)].vars
      /\ InScope(n) /\ Value(n) = blocks[Home(n)].val[n] /\ Value(n) \in Objects \cup {Nil}
  BY <1>1, ReadableIn
<1>3. TypeOK /\ Depth \in Nat /\ Nesting
  BY EnteredInt DEF IInv
<1>4. PICK h \in 1..Depth : h = Home(n)
  BY <1>2
<1>5. n \in blocks[h].vars /\ blocks[h].kind \notin {"forin", "dealloc"}
  <2>1. blocks[h].kind # "forin"
    BY <1>1, <1>4, NoForIn DEF IsLoopVar
  <2>2. blocks[h].kind # "dealloc"
    BY <1>2, <1>3, <1>4 DEF Nesting
  <2> QED
    BY <1>2, <1>4, <2>1, <2>2
<1>6. e.kind \in {"nil", "new", "var"}
  BY <1>1, ExprCases DEF KeepsRules
<1>7. PICK v \in ValuesOf(e) :
        /\ Run(New(e, v), IF e.kind = "var" /\ InScope(e.of) THEN v ELSE Nil, One(Value(n)))
        /\ blocks' = IF Live THEN [blocks EXCEPT ![h].val[n] = v] ELSE blocks
  BY <1>2, <1>4 DEF Assign
<1>8. consumed' = consumed /\ consumed' \subseteq Locals \cup Params
  BY <1>2, <1>3 DEF Assign, TypeOK
<1>9. CASE ~Live
  <2>1. UNCHANGED <<rc, dangling>>
    BY <1>7, <1>9, RunSkipped
  <2>2. blocks' = blocks
    BY <1>7, <1>9
  <2>3. Depth' = Depth /\ blocks' \in Seq(OpenBlocks) /\ FramesExact' /\ Nesting'
    BY <2>2 DEF IInv, Depth, TypeOK, FramesExact, Nesting
  <2> QED
    BY <1>1, <1>8, <1>9, <2>1, <2>2, <2>3, SkippedKeeps
<1>10. CASE Live
  <2>1. v \in Objects \cup {Nil}
    BY <1>1, <1>6, <1>10, LiveValue
  <2>2. PICK c : c = Bound(blocks[h], n, v)
    OBVIOUS
  <2>3. blocks' = [blocks EXCEPT ![h] = c]
    <3>1. blocks' = [blocks EXCEPT ![h].val[n] = v]
      BY <1>7, <1>10
    <3>2. AssignedIn(blocks, h, n, v) = PlacedIn(blocks, h, Bound(blocks[h], n, v))
      BY <1>3, <1>5, BoundSame
    <3> QED
      BY <2>2, <3>1, <3>2 DEF AssignedIn, PlacedIn
  <2>4. /\ blocks' \in Seq(OpenBlocks) /\ Depth' = Depth /\ FramesExact' /\ Nesting'
        /\ \A d \in 1..Depth : blocks'[d].kind = blocks[d].kind /\ blocks'[d].last = blocks[d].last
        /\ \A o \in Objects :
             /\ Cardinality(OwnedIn(blocks', consumed, Depth, o)) \in Nat
             /\ Cardinality(OwnedIn(blocks, consumed, Depth, o)) \in Nat
             /\ Cardinality(OwnedIn(blocks', consumed, Depth, o)) + OwnsAt(blocks, consumed, h, n, o)
                = Cardinality(OwnedIn(blocks, consumed, Depth, o)) + Ones(v, o)
    BY ZenonT(60), <1>2, <1>5, <2>1, <2>2, <2>3, Binds
  <2>5. PICK kept \in {Nil, v} : kept = IF e.kind = "var" THEN v ELSE Nil
    OBVIOUS
  <2>6. kept # Nil => IsBorrowed(e)
    BY <2>5 DEF IsBorrowed
  <2>7. PICK lost \in [Objects -> Nat] : lost = One(Value(n)) /\ Covered(lost)
    BY <1>1, <1>10, GivesUp
  <2>8. Run(New(e, v), kept, lost)
    <3>1. e.kind = "var" => InScope(e.of)
      BY <1>1, ExprCases, ReadableIn
    <3> QED
      BY <1>7, <2>5, <2>7, <3>1
  <2>9. rc' \in [Objects -> Nat] /\ dangling' = FALSE /\ RunDid(New(e, v), kept, lost)
    <3>1. e.kind \in {"nil", "new", "call", "var", "ivar", "void"}
      BY <1>6
    <3> QED
      BY <1>1, <1>10, <2>6, <2>7, <2>8, <3>1, RunOf
  <2>10. ASSUME NEW o \in Objects
         PROVE  Ones(New(e, v), o) + Ones(kept, o) = Ones(v, o) /\ Ones(v, o) \in Nat
    <3>1. Ones(Nil, o) = 0 /\ Ones(v, o) \in Nat
      BY ArcAssumption DEF Ones
    <3>2. CASE e.kind = "nil"
      <4>1. v = Nil /\ New(e, v) = Nil /\ kept = Nil
        BY <1>1, <1>10, <2>5, <3>2, LiveValue DEF New
      <4> QED
        BY <3>1, <4>1
    <3>3. CASE e.kind = "new"
      <4>1. New(e, v) = v /\ kept = Nil
        BY <2>5, <3>3 DEF New
      <4> QED
        BY <3>1, <4>1
    <3>4. CASE e.kind = "var"
      <4>1. New(e, v) = Nil /\ kept = v
        BY <2>5, <3>4 DEF New
      <4> QED
        BY <3>1, <4>1
    <3> QED
      BY <1>6, <3>2, <3>3, <3>4
  <2>11. ASSUME NEW o \in Objects
         PROVE  rc'[o] = OutsideIn(ivar', o) + Cardinality(OwnedIn(blocks', consumed', Depth, o))
    <3>1. /\ OutsideIn(ivar, o) \in Nat
          /\ rc[o] = OutsideIn(ivar, o) + Cardinality(OwnedIn(blocks, consumed, Depth, o))
      BY <1>10, LiveCounts
    <3>2. OwnsAt(blocks, consumed, h, n, o) = Ones(Value(n), o)
      BY <1>2, <1>4, <1>5 DEF OwnsAt, Ones
    <3>3. lost[o] = Ones(Value(n), o) /\ Ones(Value(n), o) \in Nat
      BY <2>7, OneType DEF Ones
    <3>4. /\ rc'[o] = rc[o] + Ones(New(e, v), o) + Ones(kept, o) - lost[o]
          /\ Ones(New(e, v), o) \in Nat /\ Ones(kept, o) \in Nat
      BY <2>9 DEF RunDid
    <3>5. consumed' = consumed /\ ivar' = ivar
      BY <1>1, <1>8
    <3>6. rc[o] \in Nat /\ lost[o] \in Nat
      BY <1>3 DEF TypeOK
    <3>7. /\ Cardinality(OwnedIn(blocks', consumed, Depth, o)) \in Nat
          /\ Cardinality(OwnedIn(blocks, consumed, Depth, o)) \in Nat
          /\ Cardinality(OwnedIn(blocks', consumed, Depth, o)) + lost[o]
             = Cardinality(OwnedIn(blocks, consumed, Depth, o)) + Ones(v, o)
      BY <2>4, <3>2, <3>3
    <3>8. rc[o] + Ones(New(e, v), o) + Ones(kept, o) - lost[o]
          = OutsideIn(ivar, o) + Cardinality(OwnedIn(blocks', consumed, Depth, o))
      BY <2>10, <3>1, <3>4, <3>6, <3>7, Balance
    <3> QED
      BY <3>4, <3>5, <3>8
  <2>12. ivar' \in [Ivars -> Objects \cup {Nil}]
    BY <1>1, <1>3 DEF TypeOK
  <2> QED
    BY <1>1, <1>8, <1>10, <2>4, <2>9, <2>11, <2>12, LiveKeeps
<1> QED
  BY <1>9, <1>10

(***************************************************************************)
(* Ivars and explicit releases                                             *)
(***************************************************************************)
LEMMA BlocksSame ==
  ASSUME IInv, blocks' = blocks
  PROVE  Depth' = Depth /\ blocks' \in Seq(OpenBlocks) /\ FramesExact' /\ Nesting'
BY DEF IInv, Depth, TypeOK, FramesExact, Nesting

\* A variable of the innermost block gives its reference away.
LEMMA MovedOwns ==
  ASSUME IInv, KeepsRules, Open, NEW n, Readable(n), Home(n) = Depth
  PROVE  /\ \A d \in 1..(Depth - 1) : blocks[d].vars \ (consumed \cup {n}) = blocks[d].vars \ consumed
         /\ \A o \in Objects :
              /\ Cardinality(OwnedIn(blocks, consumed \cup {n}, Depth, o)) \in Nat
              /\ Cardinality(OwnedIn(blocks, consumed, Depth, o)) \in Nat
              /\ Cardinality(OwnedIn(blocks, consumed \cup {n}, Depth, o)) + Ones(Value(n), o)
                 = Cardinality(OwnedIn(blocks, consumed, Depth, o))
<1>1. TypeOK /\ FramesExact /\ Depth \in Nat
  BY EnteredInt DEF IInv
<1>2. /\ n \in Names /\ n \notin consumed /\ Depth \in 1..Depth /\ n \in blocks[Depth].vars
      /\ Value(n) = blocks[Depth].val[n]
  BY ReadableIn
<1>3. blocks[Depth].kind # "forin"
  BY DEF Open, Top
<1>4. \A d \in 1..Depth : n \in blocks[d].vars => d = Depth
  BY <1>1, <1>2 DEF FramesExact
<1>5. \A d \in 1..(Depth - 1) : blocks[d].vars \ (consumed \cup {n}) = blocks[d].vars \ consumed
  <2>1. \A d \in 1..(Depth - 1) : d \in 1..Depth /\ d # Depth
    BY <1>1
  <2> QED
    BY <1>4, <2>1
<1>6. PICK used : used = consumed \cup {n}
  OBVIOUS
<1>7. ASSUME NEW o \in Objects
      PROVE  /\ Cardinality(OwnedIn(blocks, used, Depth, o)) \in Nat
             /\ Cardinality(OwnedIn(blocks, consumed, Depth, o)) \in Nat
             /\ Cardinality(OwnedIn(blocks, used, Depth, o)) + Ones(Value(n), o)
                = Cardinality(OwnedIn(blocks, consumed, Depth, o))
  <2>1. PICK k \in Int : k = Depth /\ k \in 1..k
    BY <1>1, <1>2
  <2>2. SameBut(blocks, blocks, consumed, used, k, k, n)
    BY <1>4, <1>6, <2>1 DEF SameBut
  <2>3. /\ Cardinality(OwnedIn(blocks, used, k, o)) \in Nat
        /\ Cardinality(OwnedIn(blocks, consumed, k, o)) \in Nat
        /\ Cardinality(OwnedIn(blocks, used, k, o)) + OwnsAt(blocks, consumed, k, n, o)
           = Cardinality(OwnedIn(blocks, consumed, k, o)) + OwnsAt(blocks, used, k, n, o)
    BY <1>2, <2>1, <2>2, SlotChanges
  <2>4. OwnsAt(blocks, consumed, k, n, o) = Ones(Value(n), o)
    BY <1>2, <1>3, <2>1 DEF OwnsAt, Ones
  <2>5. OwnsAt(blocks, used, k, n, o) = 0 /\ Ones(Value(n), o) \in Nat
    BY <1>6 DEF OwnsAt, Ones
  <2> QED
    BY <2>1, <2>3, <2>4, <2>5
<1> QED
  BY <1>5, <1>6, <1>7

LEMMA BalanceIvar ==
  ASSUME NEW r \in Nat, NEW out \in Nat, NEW own \in Nat, NEW new \in Nat, NEW kept \in Nat,
         NEW lost \in Nat, NEW got \in Nat, NEW moved \in Nat, NEW outNext \in Nat,
         NEW ownNext \in Nat, r = out + own, ownNext + moved = own, new + kept + moved = got,
         outNext + lost = out + got
  PROVE  r + new + kept - lost = outNext + ownNext
OBVIOUS

LEMMA SetIvarKeeps ==
  ASSUME IInv, KeepsRules, NEW i \in Ivars, NEW e, SetIvar(i, e)
  PROVE  IInv'
<1>1. /\ Open /\ e \in Exprs(IvarFrom)
      /\ UNCHANGED <<blocks, returns, resume, result>>
      /\ consumed' = consumed \cup Consumes(e)
  BY DEF SetIvar
<1>2. TypeOK /\ Depth \in Nat /\ ivar \in [Ivars -> Objects \cup {Nil}] /\ rc \in [Objects -> Nat]
  BY EnteredInt DEF IInv, TypeOK
<1>3. e.kind \in {"nil", "new", "var"}
  BY <1>1, ExprCases DEF KeepsRules
<1>4. e.kind = "var" => Readable(e.of) /\ e.of \in Locals \cup Params /\ InScope(e.of)
  BY <1>1, ExprCases, ReadableIn
<1>5. \/ Consumes(e) = {} /\ (e.kind = "var" => e.of \in Params)
      \/ /\ Consumes(e) = {e.of} /\ e.kind = "var" /\ e.of \in Locals /\ e.of \notin Params
         /\ Home(e.of) = Depth
  <2>1. CASE e.kind = "var" /\ e.of \in Locals
    <3>1. Moves(e.of)
      BY <2>1 DEF SetIvar
    <3>2. Home(e.of) = Depth
      BY <3>1 DEF Moves, KeepsRules, AllRules
    <3>3. e.of \notin Params
      BY <2>1, ArcAssumption
    <3> QED
      BY <1>4, <2>1, <3>2, <3>3 DEF Consumes
  <2>2. CASE ~(e.kind = "var" /\ e.of \in Locals)
    BY <1>4, <2>2 DEF Consumes
  <2> QED
    BY <2>1, <2>2
<1>6. PICK v \in ValuesOf(e) :
        /\ Run(New(e, v), IF e.kind = "var" /\ e.of \in Params THEN v ELSE Nil, One(ivar[i]))
        /\ ivar' = IF Live THEN [ivar EXCEPT ![i] = v] ELSE ivar
  BY DEF SetIvar
<1>7. Depth' = Depth /\ blocks' \in Seq(OpenBlocks) /\ FramesExact' /\ Nesting' /\ blocks' = blocks
  BY <1>1, BlocksSame
<1>8. consumed' \subseteq Locals \cup Params
  BY <1>1, <1>2, <1>5 DEF TypeOK
<1>9. CASE ~Live
  <2>1. UNCHANGED <<rc, dangling>>
    BY <1>6, <1>9, RunSkipped
  <2>2. \A d \in 1..(Depth - 1) : blocks[d].vars \ consumed' = blocks[d].vars \ consumed
    <3>1. CASE Consumes(e) = {}
      BY <1>1, <3>1
    <3>2. CASE Consumes(e) = {e.of} /\ Home(e.of) = Depth /\ e.kind = "var"
      BY <1>1, <1>4, <3>2, MovedOwns
    <3> QED
      BY <1>5, <3>1, <3>2
  <2>3. ivar' = ivar
    BY <1>6, <1>9
  <2> QED
    BY <1>1, <1>7, <1>8, <1>9, <2>1, <2>2, <2>3, SkippedKeeps
<1>10. CASE Live
  <2>1. v \in Objects \cup {Nil} /\ (e.kind = "var" => v = Value(e.of))
    BY <1>1, <1>3, <1>10, LiveValue
  <2>2. ivar' = SetIn(ivar, i, v)
    BY <1>6, <1>10 DEF SetIn
  <2>3. ivar' \in [Ivars -> Objects \cup {Nil}]
    BY <1>2, <2>1, <2>2 DEF SetIn
  <2>4. PICK kept \in {Nil, v} : kept = IF e.kind = "var" /\ e.of \in Params THEN v ELSE Nil
    OBVIOUS
  <2>5. kept # Nil => IsBorrowed(e)
    BY <2>4 DEF IsBorrowed
  <2>6. PICK lost \in [Objects -> Nat] :
          /\ lost = One(ivar[i]) /\ Covered(lost)
          /\ \A o \in Objects : lost[o] = Ones(ivar[i], o)
    <3>1. PICK w : w = ivar[i]
      OBVIOUS
    <3>2. One(w) \in [Objects -> Nat] /\ \A o \in Objects : One(w)[o] = Ones(w, o)
      BY OneType
    <3>3. w \in Objects => rc[w] > 0
      BY <1>10, <3>1, IvarAlive
    <3>4. \A o \in Objects : One(w)[o] <= rc[o]
      BY <1>2, <3>2, <3>3 DEF Ones
    <3> QED
      BY <3>1, <3>2, <3>4 DEF Covered
  <2>7. Run(New(e, v), kept, lost)
    BY <1>6, <2>4, <2>6
  <2>8. rc' \in [Objects -> Nat] /\ dangling' = FALSE /\ RunDid(New(e, v), kept, lost)
    <3>1. e.kind \in {"nil", "new", "call", "var", "ivar", "void"}
      BY <1>3
    <3> QED
      BY <1>1, <1>10, <2>5, <2>6, <2>7, <3>1, RunOf
  <2>9. ASSUME NEW o \in Objects
        PROVE  rc'[o] = OutsideIn(ivar', o) + Cardinality(OwnedIn(blocks', consumed', Depth, o))
    <3>1. /\ OutsideIn(ivar, o) \in Nat /\ Cardinality(OwnedIn(blocks, consumed, Depth, o)) \in Nat
          /\ rc[o] = OutsideIn(ivar, o) + Cardinality(OwnedIn(blocks, consumed, Depth, o))
          /\ rc[o] \in Nat
      BY <1>2, <1>10, LiveCounts
    <3>2. /\ OutsideIn(ivar', o) \in Nat
          /\ OutsideIn(ivar', o) + lost[o] = OutsideIn(ivar, o) + Ones(v, o)
      BY <1>2, <2>2, <2>6, IvarChanges
    <3>3. /\ rc'[o] = rc[o] + Ones(New(e, v), o) + Ones(kept, o) - lost[o]
          /\ Ones(New(e, v), o) \in Nat /\ Ones(kept, o) \in Nat /\ lost[o] \in Nat
      BY <2>8 DEF RunDid
    <3>4. Ones(Nil, o) = 0 /\ Ones(v, o) \in Nat
      BY ArcAssumption DEF Ones
    <3>5. PICK moved \in Nat :
            /\ Cardinality(OwnedIn(blocks, consumed', Depth, o)) \in Nat
            /\ Cardinality(OwnedIn(blocks, consumed', Depth, o)) + moved
               = Cardinality(OwnedIn(blocks, consumed, Depth, o))
            /\ Ones(New(e, v), o) + Ones(kept, o) + moved = Ones(v, o)
      <4>1. CASE Consumes(e) = {} /\ (e.kind = "var" => e.of \in Params)
        <5>1. consumed' = consumed
          BY <1>1, <4>1
        <5>2. Ones(New(e, v), o) + Ones(kept, o) = Ones(v, o)
          <6>1. CASE e.kind = "nil"
            <7>1. v = Nil /\ New(e, v) = Nil /\ kept = Nil
              BY <1>1, <1>10, <2>4, <6>1, LiveValue DEF New
            <7> QED
              BY <3>4, <7>1
          <6>2. CASE e.kind = "new"
            <7>1. New(e, v) = v /\ kept = Nil
              BY <2>4, <6>2 DEF New
            <7> QED
              BY <3>4, <7>1
          <6>3. CASE e.kind = "var"
            <7>1. New(e, v) = Nil /\ kept = v
              BY <2>4, <4>1, <6>3 DEF New
            <7> QED
              BY <3>4, <7>1
          <6> QED
            BY <1>3, <6>1, <6>2, <6>3
        <5>3. 0 \in Nat /\ Ones(New(e, v), o) + Ones(kept, o) + 0 = Ones(v, o)
          BY <3>3, <5>2
        <5>4. Cardinality(OwnedIn(blocks, consumed', Depth, o)) + 0
              = Cardinality(OwnedIn(blocks, consumed, Depth, o))
          BY <3>1, <5>1
        <5>5. Cardinality(OwnedIn(blocks, consumed', Depth, o)) \in Nat
          BY <3>1, <5>1
        <5> QED
          BY <5>3, <5>4, <5>5
      <4>2. CASE /\ Consumes(e) = {e.of} /\ e.kind = "var" /\ e.of \notin Params
                 /\ Home(e.of) = Depth
        <5>1. consumed' = consumed \cup {e.of}
          BY <1>1, <4>2
        <5>2. /\ Cardinality(OwnedIn(blocks, consumed', Depth, o)) \in Nat
              /\ Cardinality(OwnedIn(blocks, consumed', Depth, o)) + Ones(v, o)
                 = Cardinality(OwnedIn(blocks, consumed, Depth, o))
          BY <1>1, <1>4, <2>1, <4>2, <5>1, MovedOwns
        <5>3. New(e, v) = Nil /\ kept = Nil
          BY <2>4, <4>2 DEF New
        <5>4. Ones(New(e, v), o) + Ones(kept, o) + Ones(v, o) = Ones(v, o)
          BY <3>4, <5>3
        <5> QED
          BY <3>4, <5>2, <5>4
      <4> QED
        BY <1>5, <4>1, <4>2
    <3>6. rc[o] + Ones(New(e, v), o) + Ones(kept, o) - lost[o]
          = OutsideIn(ivar', o) + Cardinality(OwnedIn(blocks, consumed', Depth, o))
      BY <3>1, <3>2, <3>3, <3>4, <3>5, BalanceIvar
    <3> QED
      BY <1>7, <3>3, <3>6
  <2> QED
    BY <1>1, <1>7, <1>8, <1>10, <2>3, <2>8, <2>9, LiveKeeps
<1> QED
  BY <1>9, <1>10

LEMMA ExplicitReleaseKeeps ==
  ASSUME IInv, KeepsRules, NEW n, ExplicitRelease(n)
  PROVE  IInv'
<1>1. /\ Open /\ Readable(n) /\ n \in Locals \cup Params
      /\ UNCHANGED <<blocks, returns, resume, ivar, result>> /\ Run(Nil, Nil, One(Value(n)))
  BY DEF ExplicitRelease, Readable
<1>2. /\ TypeOK /\ Depth \in Nat /\ ivar \in [Ivars -> Objects \cup {Nil}] /\ rc \in [Objects -> Nat]
      /\ Nil \notin Objects
  BY EnteredInt, ArcAssumption DEF IInv, TypeOK
<1>3. Home(n) = Depth
  BY <1>1 DEF ExplicitRelease, Moves, KeepsRules, AllRules
<1>4. consumed' = consumed \cup {n}
  BY <1>1, ReadableIn DEF ExplicitRelease
<1>5. Depth' = Depth /\ blocks' \in Seq(OpenBlocks) /\ FramesExact' /\ Nesting' /\ blocks' = blocks
  BY <1>1, BlocksSame
<1>6. consumed' \subseteq Locals \cup Params
  BY <1>1, <1>2, <1>4 DEF TypeOK
<1>7. /\ \A d \in 1..(Depth - 1) : blocks[d].vars \ consumed' = blocks[d].vars \ consumed
      /\ \A o \in Objects :
           /\ Cardinality(OwnedIn(blocks, consumed', Depth, o)) \in Nat
           /\ Cardinality(OwnedIn(blocks, consumed, Depth, o)) \in Nat
           /\ Cardinality(OwnedIn(blocks, consumed', Depth, o)) + Ones(Value(n), o)
              = Cardinality(OwnedIn(blocks, consumed, Depth, o))
  BY <1>1, <1>3, <1>4, MovedOwns
<1>8. CASE ~Live
  <2>1. UNCHANGED <<rc, dangling>>
    BY <1>1, <1>8, RunSkipped
  <2> QED
    BY <1>1, <1>5, <1>6, <1>7, <1>8, <2>1, SkippedKeeps
<1>9. CASE Live
  <2>1. PICK lost \in [Objects -> Nat] :
          /\ lost = One(Value(n)) /\ Covered(lost)
          /\ \A o \in Objects : lost[o] = Ones(Value(n), o)
    BY <1>1, <1>9, GivesUp, OneType
  <2>2. Run(Nil, Nil, lost)
    BY <1>1, <2>1
  <2>5. /\ rc' \in [Objects -> Nat] /\ dangling' = FALSE
        /\ \A o \in Objects : lost[o] \in Nat /\ rc'[o] = rc[o] - lost[o]
    BY <1>9, <2>1, <2>2, Released
  <2>6. ASSUME NEW o \in Objects
        PROVE  rc'[o] = OutsideIn(ivar', o) + Cardinality(OwnedIn(blocks', consumed', Depth, o))
    <3>1. /\ OutsideIn(ivar, o) \in Nat
          /\ rc[o] = OutsideIn(ivar, o) + Cardinality(OwnedIn(blocks, consumed, Depth, o))
      BY <1>9, LiveCounts
    <3>2. rc'[o] = rc[o] - lost[o] /\ lost[o] = Ones(Value(n), o) /\ lost[o] \in Nat
      BY <2>1, <2>5
    <3>3. blocks' = blocks /\ ivar' = ivar
      BY <1>1
    <3>4. /\ Cardinality(OwnedIn(blocks, consumed', Depth, o)) \in Nat
          /\ Cardinality(OwnedIn(blocks, consumed, Depth, o)) \in Nat
          /\ Cardinality(OwnedIn(blocks, consumed', Depth, o)) + lost[o]
             = Cardinality(OwnedIn(blocks, consumed, Depth, o))
      BY <1>7, <3>2
    <3> QED
      BY <3>1, <3>2, <3>3, <3>4
  <2>7. ivar' \in [Ivars -> Objects \cup {Nil}]
    BY <1>1, <1>2
  <2> QED
    BY <1>1, <1>5, <1>6, <1>9, <2>5, <2>6, <2>7, LiveKeeps
<1> QED
  BY <1>8, <1>9

LEMMA SendKeeps ==
  ASSUME IInv, KeepsRules, NEW n, Send(n)
  PROVE  IInv'
<1>1. /\ Live /\ Readable(n) /\ dangling' = (Value(n) # Nil /\ rc[Value(n)] = 0)
      /\ UNCHANGED <<blocks, consumed, returns, resume, rc, ivar, result>>
  BY DEF Send
<1>2. Value(n) # Nil => rc[Value(n)] > 0
  BY <1>1, ReadableIn
<1>3. dangling' = FALSE
  <2>1. Value(n) \in Objects \cup {Nil} /\ rc \in [Objects -> Nat]
    BY <1>1, ReadableIn DEF IInv, TypeOK
  <2>2. ~(Value(n) # Nil /\ rc[Value(n)] = 0)
    BY <1>2, <2>1
  <2> QED
    BY <1>1, <2>2, Zenon
<1>4. Depth' = Depth /\ blocks' \in Seq(OpenBlocks) /\ FramesExact' /\ Nesting' /\ blocks' = blocks
  BY <1>1, BlocksSame
<1>5. \A o \in Objects :
        rc'[o] = OutsideIn(ivar', o) + Cardinality(OwnedIn(blocks', consumed', Depth, o))
  BY <1>1, LiveCounts
<1>6. /\ consumed' \subseteq Locals \cup Params /\ rc' \in [Objects -> Nat]
      /\ ivar' \in [Ivars -> Objects \cup {Nil}]
  BY <1>1 DEF IInv, TypeOK
<1> QED
  BY <1>1, <1>3, <1>4, <1>5, <1>6, LiveKeeps

(***************************************************************************)
(* break, continue and return                                              *)
(***************************************************************************)
LEMMA MaximumIn ==
  ASSUME NEW m \in Nat, NEW S \in SUBSET (1..m), S # {}
  PROVE  Maximum(S) \in S /\ \A j \in S : j <= Maximum(S)
<1> DEFINE T == {n \in 0..m : m - n \in S}
<1>1. T \in SUBSET Nat
  OBVIOUS
<1>2. T # {}
  <2>1. PICK j \in S : TRUE
    OBVIOUS
  <2>2. m - j \in 0..m /\ m - (m - j) = j
    OBVIOUS
  <2>3. m - j \in T
    BY <2>2
  <2> QED
    BY <2>3
<1>3. PICK n \in T : \A k \in T : n <= k
  <2> HIDE DEF T
  <2> QED
    BY <1>1, <1>2, LeastNat
<1>4. n \in 0..m /\ m - n \in S
  OBVIOUS
<1>5. ASSUME NEW j \in S PROVE j <= m - n
  <2>1. m - j \in 0..m /\ m - (m - j) = j
    OBVIOUS
  <2>2. m - j \in T
    BY <2>1
  <2>3. n <= m - j
    BY <1>3, <2>2
  <2> QED
    BY <1>4, <2>1, <2>3
<1> QED
  BY <1>4, <1>5 DEF Maximum

\* A statement that ends the innermost block changes nothing but that.
LEMMA Ended ==
  ASSUME IInv, Open, NEW how \in {"jump", "return"},
         blocks' = [blocks EXCEPT ![Depth].last = how]
  PROVE  /\ blocks' \in Seq(OpenBlocks) /\ Depth' = Depth /\ FramesExact' /\ Nesting'
         /\ \A d \in 1..Depth : /\ blocks'[d].kind = blocks[d].kind
                                /\ blocks'[d].vars = blocks[d].vars
                                /\ blocks'[d].val = blocks[d].val
         /\ \A d \in 1..Depth : d # Depth => blocks'[d].last = blocks[d].last
         /\ Depth \in 1..Depth /\ blocks'[Depth].last = how
<1>1. TypeOK /\ FramesExact /\ Nesting /\ Depth \in Nat /\ Depth \in 1..Depth
  BY EnteredInt DEF IInv, Open
<1>2. blocks[Depth] \in OpenBlocks /\ Framed(blocks[Depth])
  BY <1>1, Blocks, FramedBlocks
<1>3. PICK c : c = [blocks[Depth] EXCEPT !.last = how]
  OBVIOUS
<1>4. /\ c \in OpenBlocks /\ c.kind = blocks[Depth].kind /\ c.vars = blocks[Depth].vars
      /\ c.val = blocks[Depth].val /\ c.last = how
  BY <1>2, <1>3 DEF OpenBlocks
<1>5. Framed(c) /\ (\A n \in c.vars : n \in blocks[Depth].vars \/ ~Visible(n))
      /\ (c.kind = "dealloc" => c.vars = {})
  BY <1>1, <1>2, <1>4 DEF Framed, Nesting
<1>6. blocks' = [blocks EXCEPT ![Depth] = c]
  BY <1>3
<1>7. /\ blocks' \in Seq(OpenBlocks) /\ Depth' = Depth
      /\ blocks'[Depth] = c /\ \A d \in 1..Depth : d # Depth => blocks'[d] = blocks[d]
      /\ FramesExact' /\ Nesting'
  BY <1>1, <1>4, <1>5, <1>6, Changed
<1> QED
  BY <1>1, <1>4, <1>7

\* Control leaves the blocks from m on, which release all that they own.
LEMMA LeftExact ==
  ASSUME IInv, Live, NEW m \in Nat \ {0}, m <= Depth + 1,
         \A d \in m..Depth : blocks[d].kind # "forin"
  PROVE  /\ Releases(m..Depth, {}) \in [Objects -> Nat] /\ Covered(Releases(m..Depth, {}))
         /\ \A o \in Objects :
              /\ Releases(m..Depth, {})[o] \in Nat /\ OutsideIn(ivar, o) \in Nat
              /\ Cardinality(OwnedIn(blocks, consumed, m - 1, o)) \in Nat
              /\ rc[o] - Releases(m..Depth, {})[o]
                 = OutsideIn(ivar, o) + Cardinality(OwnedIn(blocks, consumed, m - 1, o))
<1>1. TypeOK /\ FramesExact
  BY DEF IInv
<1>2. /\ Releases(m..Depth, {}) \in [Objects -> Nat]
      /\ \A o \in Objects :
           /\ Cardinality(OwnedIn(blocks, consumed, m - 1, o)) \in Nat
           /\ Cardinality(OwnedIn(blocks, consumed, Depth, o)) \in Nat
           /\ Releases(m..Depth, {})[o] + Cardinality(OwnedIn(blocks, consumed, m - 1, o))
              = Cardinality(OwnedIn(blocks, consumed, Depth, o))
  BY <1>1, ReleasesExact
<1>3. PICK lost \in [Objects -> Nat] : lost = Releases(m..Depth, {})
  BY <1>2
<1>4. ASSUME NEW o \in Objects
      PROVE  /\ lost[o] \in Nat /\ OutsideIn(ivar, o) \in Nat
             /\ Cardinality(OwnedIn(blocks, consumed, m - 1, o)) \in Nat
             /\ rc[o] - lost[o]
                = OutsideIn(ivar, o) + Cardinality(OwnedIn(blocks, consumed, m - 1, o))
             /\ lost[o] <= rc[o]
  <2>1. /\ OutsideIn(ivar, o) \in Nat
        /\ rc[o] = OutsideIn(ivar, o) + Cardinality(OwnedIn(blocks, consumed, Depth, o))
    BY LiveCounts
  <2>2. /\ Cardinality(OwnedIn(blocks, consumed, m - 1, o)) \in Nat
        /\ Cardinality(OwnedIn(blocks, consumed, Depth, o)) \in Nat
        /\ lost[o] + Cardinality(OwnedIn(blocks, consumed, m - 1, o))
           = Cardinality(OwnedIn(blocks, consumed, Depth, o))
    BY <1>2, <1>3
  <2>3. lost[o] \in Nat
    OBVIOUS
  <2> QED
    BY <2>1, <2>2, <2>3
<1>5. Covered(lost)
  BY <1>4 DEF Covered
<1> QED
  BY <1>3, <1>4, <1>5

JumpRule(target) ==
  "no break in switch" \in Rules /\ blocks[target].kind = "switch" =>
    \A d \in (target..Depth) \cup (LoopBody..Depth) : blocks[d].vars \subseteq consumed

\* Where a break or continue goes, and what it releases.
LEMMA JumpCases ==
  ASSUME IInv, KeepsRules, Open, NEW target \in JumpTargets, JumpRule(target)
  PROVE  /\ target \in 1..Depth /\ target # 1
         /\ \/ /\ LoopBody = target
               /\ \A d \in target..Depth : blocks[d].kind # "forin"
            \/ /\ \A d \in LoopBody..Depth : blocks[d].vars \subseteq consumed
               /\ \A d \in target..Depth : blocks[d].vars \subseteq consumed
<1>1. TypeOK /\ Nesting /\ Depth \in Nat
  BY EnteredInt DEF IInv
<1> DEFINE loops  == BlocksOf({"loop"})
           places == BlocksOf({"loop", "switch"})
<1>2. /\ loops \in SUBSET (1..Depth) /\ places \in SUBSET (1..Depth) /\ loops \subseteq places
      /\ \A d \in loops : blocks[d].kind = "loop"
      /\ \A d \in places : blocks[d].kind \in {"loop", "switch"}
      /\ \A d \in 1..Depth : blocks[d].kind = "loop" => d \in loops
  BY DEF BlocksOf
<1>3. PICK S \in {loops, places} : S # {} /\ target = Maximum(S)
  BY DEF JumpTargets
<1>4. target \in S /\ \A j \in S : j <= target
  BY <1>1, <1>2, <1>3, MaximumIn
<1>5. target \in places /\ target \in 1..Depth /\ blocks[target].kind \in {"loop", "switch"}
  BY <1>2, <1>4
<1>6. target # 1
  BY <1>1, <1>5 DEF Nesting
<1>7. CASE blocks[target].kind = "loop"
  <2>1. target \in loops /\ loops # {}
    BY <1>2, <1>5, <1>7
  <2>2. \A j \in loops : j <= target
    BY <1>2, <1>4
  <2>3. Maximum(loops) \in loops /\ \A j \in loops : j <= Maximum(loops)
    BY <1>1, <1>2, <2>1, MaximumIn
  <2>4. Maximum(loops) = target
    <3>1. PICK p \in 1..Depth : p = Maximum(loops)
      BY <1>2, <2>3
    <3>2. PICK q \in 1..Depth : q = target
      BY <1>5
    <3>3. p <= q /\ q <= p
      BY <2>1, <2>2, <2>3, <3>1, <3>2
    <3>4. p = q
      BY <1>1, <3>3
    <3> QED
      BY <3>1, <3>2, <3>4
  <2>5. LoopBody = target
    BY <2>1, <2>4 DEF LoopBody
  <2>6. PICK q \in Nat : q = target /\ q >= 1
    BY <1>5
  <2>7. ASSUME NEW d \in q..Depth, blocks[d].kind = "forin" PROVE FALSE
    <3>1. d \in Nat /\ d \in 1..Depth /\ d >= q
      BY <1>1, <2>6
    <3>2. d # Depth
      BY <1>1, <2>7 DEF Open, Top
    <3>3. d < Depth /\ d + 1 \in 1..Depth /\ d + 1 > q
      BY <1>1, <3>1, <3>2
    <3>4. blocks[d + 1].kind = "loop"
      BY <1>1, <2>7, <3>1, <3>3 DEF Nesting
    <3>5. d + 1 <= q
      BY <1>2, <2>2, <2>6, <3>3, <3>4
    <3> QED
      BY <2>6, <3>1, <3>3, <3>5
  <2> QED
    BY <1>5, <1>6, <2>5, <2>6, <2>7
<1>8. CASE blocks[target].kind = "switch"
  <2>1. "switch" \in BlockKinds
    <3>1. blocks[target].kind \in BlockKinds
      BY <1>1, <1>5, <1>8 DEF Nesting
    <3> QED
      BY <1>8, <3>1
  <2>2. "no break in switch" \in Rules
    BY <2>1 DEF KeepsRules
  <2> QED
    BY <1>5, <1>6, <1>8, <2>2 DEF JumpRule
<1> QED
  BY <1>5, <1>7, <1>8

LEMMA JumpKeeps ==
  ASSUME IInv, KeepsRules, NEW target, Jump(target)
  PROVE  IInv'
<1>1. /\ Open /\ target \in JumpTargets /\ Run(Nil, Nil, Releases(LoopBody..Depth, {}))
      /\ JumpRule(target)
      /\ resume' = IF Live THEN target ELSE resume
      /\ blocks' = [blocks EXCEPT ![Depth].last = "jump"]
      /\ UNCHANGED <<consumed, returns, ivar, result>>
  BY DEF Jump, JumpReleases, JumpRule
<1>2. /\ target \in 1..Depth /\ target # 1
      /\ \/ /\ LoopBody = target
            /\ \A d \in target..Depth : blocks[d].kind # "forin"
         \/ /\ \A d \in LoopBody..Depth : blocks[d].vars \subseteq consumed
            /\ \A d \in target..Depth : blocks[d].vars \subseteq consumed
  BY <1>1, JumpCases
<1>3. /\ blocks' \in Seq(OpenBlocks) /\ Depth' = Depth /\ FramesExact' /\ Nesting'
      /\ \A d \in 1..Depth : /\ blocks'[d].kind = blocks[d].kind
                             /\ blocks'[d].vars = blocks[d].vars
                             /\ blocks'[d].val = blocks[d].val
      /\ \A d \in 1..Depth : d # Depth => blocks'[d].last = blocks[d].last
  BY <1>1, Ended
<1>4. TypeOK /\ ControlFlow /\ Depth \in Nat
  BY EnteredInt DEF IInv
<1>5. \A d \in 1..(Depth - 1) : d \in 1..Depth /\ d # Depth
  BY <1>4
<1>6. CASE ~Live
  <2>1. UNCHANGED <<rc, dangling>> /\ resume' = resume
    BY <1>1, <1>6, RunSkipped
  <2>2. consumed' \subseteq Locals \cup Params
    BY <1>1, <1>4 DEF TypeOK
  <2> QED
    BY <1>1, <1>3, <1>5, <1>6, <2>1, <2>2, SkippedKeeps
<1>7. CASE Live
  <2>1. resume' = target /\ resume = 0
    BY <1>1, <1>7 DEF Live
  <2>2. PICK m \in Nat \ {0} : m = target /\ m <= Depth + 1 /\ m \in 1..Depth /\ m # 1
    BY <1>2, <1>4
  <2>3. Entered' = m - 1 /\ resume' # 0 /\ resume' # 1
    BY <2>1, <2>2 DEF Entered, Live
  <2>4. \A d \in 1..(m - 1) : d \in 1..Depth
    BY <1>4, <2>2
  <2>5. PICK lost \in [Objects -> Nat] :
          /\ lost = Releases(LoopBody..Depth, {}) /\ Covered(lost)
          /\ \A o \in Objects :
               /\ lost[o] \in Nat
               /\ rc[o] - lost[o]
                  = OutsideIn(ivar, o) + Cardinality(OwnedIn(blocks, consumed, m - 1, o))
    <3>1. CASE LoopBody = target /\ \A d \in target..Depth : blocks[d].kind # "forin"
      <4>1. \A d \in m..Depth : blocks[d].kind # "forin"
        BY <2>2, <3>1
      <4>2. /\ Releases(m..Depth, {}) \in [Objects -> Nat] /\ Covered(Releases(m..Depth, {}))
            /\ \A o \in Objects :
                 /\ Releases(m..Depth, {})[o] \in Nat /\ OutsideIn(ivar, o) \in Nat
                 /\ Cardinality(OwnedIn(blocks, consumed, m - 1, o)) \in Nat
                 /\ rc[o] - Releases(m..Depth, {})[o]
                    = OutsideIn(ivar, o) + Cardinality(OwnedIn(blocks, consumed, m - 1, o))
        BY <1>7, <2>2, <4>1, LeftExact
      <4> QED
        BY <2>2, <3>1, <4>2
    <3>2. CASE /\ \A d \in LoopBody..Depth : blocks[d].vars \subseteq consumed
               /\ \A d \in target..Depth : blocks[d].vars \subseteq consumed
      <4>1. PICK lost \in [Objects -> Nat] :
              lost = Releases(LoopBody..Depth, {}) /\ \A o \in Objects : lost[o] = 0
        BY <3>2, ReleasesNothing
      <4>2. \A o \in Objects : rc[o] \in Nat
        BY <1>4 DEF TypeOK
      <4>3. Covered(lost)
        BY <4>1, <4>2 DEF Covered
      <4>4. ASSUME NEW o \in Objects
            PROVE  rc[o] - lost[o]
                   = OutsideIn(ivar, o) + Cardinality(OwnedIn(blocks, consumed, m - 1, o))
        <5>1. OwnedIn(blocks, consumed, Depth, o) = OwnedIn(blocks, consumed, m - 1, o)
          <6>1. PICK j \in Int : j = Depth
            BY <1>4
          <6>2. PICK k \in Int : k = m - 1 /\ k <= j /\ k + 1 = m
            BY <1>4, <2>2, <6>1
          <6>3. \A d \in (k + 1)..j : blocks[d].kind = "forin" \/ blocks[d].vars \subseteq consumed
            BY <2>2, <3>2, <6>1, <6>2
          <6>4. OwnedIn(blocks, consumed, j, o) = OwnedIn(blocks, consumed, k, o)
            BY <6>2, <6>3, OwnedSame
          <6> QED
            BY <6>1, <6>2, <6>4
        <5>2. /\ OutsideIn(ivar, o) \in Nat
              /\ Cardinality(OwnedIn(blocks, consumed, Depth, o)) \in Nat
              /\ rc[o] = OutsideIn(ivar, o) + Cardinality(OwnedIn(blocks, consumed, Depth, o))
          BY <1>7, LiveCounts
        <5> QED
          BY <4>1, <5>1, <5>2
      <4> QED
        BY <4>1, <4>3, <4>4
    <3> QED
      BY <1>2, <3>1, <3>2
  <2>6. /\ rc' \in [Objects -> Nat] /\ dangling' = FALSE
        /\ \A o \in Objects : lost[o] \in Nat /\ rc'[o] = rc[o] - lost[o]
    BY <1>1, <1>7, <2>5, Released
  <2>7. TypeOK'
    <3>1. resume' \in 0..Depth'
      BY <1>2, <1>3, <1>4, <2>1
    <3> QED
      BY <1>1, <1>3, <1>4, <2>6, <3>1 DEF TypeOK
  <2>8. ControlFlow'
    <3>1. \A d \in 1..Depth : blocks[d].last = "none"
      BY <1>4, <1>7 DEF ControlFlow
    <3>2. \A d \in 1..Depth' : d < Depth' => d \in 1..Depth /\ d # Depth
      BY <1>3, <1>4
    <3>3. \A d \in 1..Depth' : d < Depth' => blocks'[d].last = "none"
      BY <1>3, <3>1, <3>2
    <3>4. ~Live'
      BY <2>3 DEF Live
    <3> QED
      BY <1>1, <1>4, <2>3, <3>3, <3>4 DEF ControlFlow
  <2>9. CountsKept'
    <3>1. PICK k \in Int : k = m - 1 /\ k = Entered'
      BY <2>2, <2>3
    <3>2. ASSUME NEW o \in Objects
          PROVE  rc'[o] = OutsideIn(ivar', o) + Cardinality(OwnedIn(blocks', consumed', k, o))
                          + ReturnedIn(resume', returns', result', o)
      <4>1. OwnedIn(blocks', consumed', k, o) = OwnedIn(blocks, consumed, k, o)
        <5>1. \A d \in 1..k : /\ blocks'[d].vars \ consumed' = blocks[d].vars \ consumed
                              /\ blocks'[d].kind = blocks[d].kind /\ blocks'[d].val = blocks[d].val
          <6>1. \A d \in 1..k : d \in 1..Depth
            BY <2>4, <3>1
          <6> QED
            BY <1>1, <1>3, <6>1
        <5>2. k <= k /\ \A d \in (k + 1)..k : FALSE
          OBVIOUS
        <5> QED
          BY <5>1, <5>2, OwnedSame
      <4>2. ReturnedIn(resume', returns', result', o) = 0
        BY <2>3 DEF ReturnedIn
      <4>3. rc'[o] = OutsideIn(ivar, o) + Cardinality(OwnedIn(blocks, consumed, k, o))
        BY <2>5, <2>6, <3>1
      <4>4. OutsideIn(ivar, o) \in Nat /\ Cardinality(OwnedIn(blocks, consumed, k, o)) \in Nat
        BY IvarsFinite, OwnedFinite
      <4>5. OutsideIn(ivar', o) = OutsideIn(ivar, o)
        BY <1>1
      <4> QED
        BY <4>1, <4>2, <4>3, <4>4, <4>5
    <3> QED
      BY <3>1, <3>2, CountsNext
  <2> QED
    BY <1>3, <2>6, <2>7, <2>8, <2>9 DEF IInv
<1> QED
  BY <1>6, <1>7

LEMMA AfterExact ==
  ASSUME IInv, NEW lost \in [Objects -> Nat], Covered(lost)
  PROVE  /\ After(Nil, Nil, lost) \in [Objects -> Nat] /\ Strays(Nil, Nil, lost) = FALSE
         /\ \A o \in Objects : After(Nil, Nil, lost)[o] = rc[o] - lost[o]
<1>1. rc \in [Objects -> Nat] /\ Nil \notin Objects
  BY ArcAssumption DEF IInv, TypeOK
<1>2. \A o \in Objects : One(Nil)[o] = 0 /\ o # Nil /\ rc[o] \in Nat /\ lost[o] \in Nat /\ lost[o] <= rc[o]
  BY <1>1 DEF One, Covered
<1>3. ASSUME NEW o \in Objects PROVE After(Nil, Nil, lost)[o] = rc[o] - lost[o]
  <2>1. After(Nil, Nil, lost)[o] = IF rc[o] + One(Nil)[o] > lost[o] THEN rc[o] + One(Nil)[o] - lost[o] ELSE 0
    BY <1>2 DEF After
  <2> QED
    BY <1>2, <2>1
<1>4. \A o \in Objects : After(Nil, Nil, lost)[o] \in Nat
  BY <1>2, <1>3
<1>5. DOMAIN After(Nil, Nil, lost) = Objects
  BY DEF After
<1>6. After(Nil, Nil, lost) \in [Objects -> Nat]
  BY <1>4, <1>5 DEF After
<1>7. ~Strays(Nil, Nil, lost)
  <2> SUFFICES ASSUME NEW o \in Objects,
                      LET n == IF o = Nil THEN 1 ELSE rc[o]
                      IN \/ o = Nil /\ n = 0
                         \/ n + One(Nil)[o] < lost[o]
               PROVE  FALSE
    BY DEF Strays
  <2>1. rc[o] + One(Nil)[o] < lost[o]
    BY <1>2
  <2> QED
    BY <1>2, <2>1
<1>8. Strays(Nil, Nil, lost) \in BOOLEAN
  BY DEF Strays
<1> QED
  BY <1>3, <1>6, <1>7, <1>8

LEMMA OneKind ==
  ASSUME NEW S \in SUBSET {"owning", "scalar", "borrowed"}, NEW x, x \in S, Cardinality(S) = 1
  PROVE  S = {x}
<1>1. IsFiniteSet({"owning"}) /\ IsFiniteSet({"scalar"}) /\ IsFiniteSet({"borrowed"})
  BY FS_Singleton
<1>2. IsFiniteSet({"owning"} \cup {"scalar"})
  BY <1>1, FS_Union
<1>3. IsFiniteSet(({"owning"} \cup {"scalar"}) \cup {"borrowed"})
  BY <1>1, <1>2, FS_Union
<1>4. S \subseteq ({"owning"} \cup {"scalar"}) \cup {"borrowed"}
  OBVIOUS
<1>5. IsFiniteSet(S)
  BY <1>3, <1>4, FS_Subset
<1>6. PICK y : S = {y}
  BY <1>5, FS_Singleton
<1> QED
  BY <1>6

LEMMA NothingOwned ==
  ASSUME NEW bs, NEW used, NEW o
  PROVE  Cardinality(OwnedIn(bs, used, 0, o)) = 0
<1>1. OwnedIn(bs, used, 0, o) = {}
  <2>1. \A d \in 1..0 : FALSE
    OBVIOUS
  <2> QED
    BY <2>1 DEF OwnedIn
<1> QED
  BY <1>1, FS_EmptySet

ReturnKind(e) == IF IsOwning(e) THEN "owning" ELSE IF IsScalar(e) THEN "scalar" ELSE "borrowed"

LEMMA ReturnKeeps ==
  ASSUME IInv, KeepsRules, NEW e, Return(e)
  PROVE  IInv'
<1>1. /\ Open /\ e \in Exprs(ReturnOf) /\ blocks[1].kind # "dealloc"
      /\ "for-in to the end" \in Rules => BlocksOf({"forin"}) = {}
      /\ returns' = returns \cup {ReturnKind(e)} /\ Cardinality(returns') = 1
      /\ blocks' = [blocks EXCEPT ![Depth].last = "return"]
      /\ UNCHANGED <<consumed, ivar>>
  BY DEF Return, ReturnKind, KeepsRules, AllRules
<1>2. /\ TypeOK /\ Nesting /\ ControlFlow /\ Depth \in Nat /\ Depth > 0 /\ 1 \in 1..Depth
      /\ \A d \in 1..Depth : d < Depth => d # Depth
  <2>1. TypeOK /\ Nesting /\ ControlFlow /\ Depth > 0
    BY <1>1 DEF IInv, Open
  <2>2. Depth \in Nat
    BY <2>1, DepthNat
  <2> QED
    BY <2>1, <2>2
<1>3. /\ blocks' \in Seq(OpenBlocks) /\ Depth' = Depth /\ FramesExact' /\ Nesting'
      /\ \A d \in 1..Depth : /\ blocks'[d].kind = blocks[d].kind
                             /\ blocks'[d].vars = blocks[d].vars
                             /\ blocks'[d].val = blocks[d].val
      /\ \A d \in 1..Depth : d # Depth => blocks'[d].last = blocks[d].last
  BY <1>1, Ended
<1>4. e.kind \in {"void", "nil", "new", "call", "ivar"} /\ (e.kind = "ivar" => e.of \in Ivars)
  BY <1>1, ExprCases DEF KeepsRules
<1>5. returns' = {ReturnKind(e)} /\ returns' \subseteq {"owning", "scalar", "borrowed"}
  <2>1. returns' \in SUBSET {"owning", "scalar", "borrowed"}
    BY <1>1, <1>2 DEF TypeOK, ReturnKind
  <2>2. ReturnKind(e) \in returns'
    BY <1>1
  <2> QED
    BY <1>1, <2>1, <2>2, OneKind
<1>6. consumed' \subseteq Locals \cup Params
  BY <1>1, <1>2 DEF TypeOK
<1>7. PICK v \in ValuesOf(e) :
        IF Live
        THEN /\ rc' = IF IsOwning(e) THEN [After(Nil, Nil, ReturnReleases(e)) EXCEPT ![v] = 1]
                      ELSE After(Nil, Nil, ReturnReleases(e))
             /\ dangling' = Strays(Nil, Nil, ReturnReleases(e))
             /\ result' = v /\ resume' = 1
        ELSE UNCHANGED <<rc, dangling, result, resume>>
  <2>1. e.kind # "send"
    BY <1>4
  <2>2. Strays(Nil, Nil, ReturnReleases(e)) \in BOOLEAN
    BY DEF Strays
  <2> QED
    BY <2>1, <2>2 DEF Return
<1>8. CASE ~Live
  <2>1. UNCHANGED <<rc, dangling, result, resume>>
    BY <1>7, <1>8
  <2>2. ReturnsAgree
    <3>1. resume = 1 => returns # {}
      BY <1>2 DEF ControlFlow
    <3>2. resume = 1 => returns' = returns
      BY <1>1, <1>5, <3>1
    <3> QED
      BY <1>5, <3>2 DEF ReturnsAgree
  <2>3. \A d \in 1..(Depth - 1) : d \in 1..Depth /\ d # Depth
    BY <1>2
  <2> QED
    BY <1>1, <1>3, <1>6, <1>8, <2>1, <2>2, <2>3, SkippedFlow
<1>9. CASE Live
  <2>1. \A d \in 1..Depth : blocks[d].kind # "forin"
    <3>1. \A d \in 1..Depth : "for-in to the end" \in Rules => blocks[d].kind # "forin"
      BY <1>1 DEF BlocksOf
    <3> QED
      BY <3>1, NoForIn
  <2>2. PICK lost \in [Objects -> Nat] :
          /\ lost = ReturnReleases(e) /\ Covered(lost)
          /\ \A o \in Objects : lost[o] \in Nat /\ rc[o] - lost[o] = OutsideIn(ivar, o)
    <3>1. ReturnReleases(e) = Releases(1..Depth, {})
      BY <1>4 DEF ReturnReleases
    <3>2. PICK m \in Nat \ {0} : m = 1 /\ m <= Depth + 1
      BY <1>2
    <3>3. \A d \in m..Depth : blocks[d].kind # "forin"
      BY <2>1, <3>2
    <3>4. /\ Releases(m..Depth, {}) \in [Objects -> Nat] /\ Covered(Releases(m..Depth, {}))
          /\ \A o \in Objects :
               /\ Releases(m..Depth, {})[o] \in Nat /\ OutsideIn(ivar, o) \in Nat
               /\ Cardinality(OwnedIn(blocks, consumed, m - 1, o)) \in Nat
               /\ rc[o] - Releases(m..Depth, {})[o]
                  = OutsideIn(ivar, o) + Cardinality(OwnedIn(blocks, consumed, m - 1, o))
      BY <1>9, <3>2, <3>3, LeftExact
    <3>5. \A o \in Objects : Cardinality(OwnedIn(blocks, consumed, m - 1, o)) = 0
      BY <3>2, NothingOwned
    <3>6. \A o \in Objects : rc[o] - Releases(m..Depth, {})[o] = OutsideIn(ivar, o)
      BY <3>4, <3>5
    <3> QED
      BY <3>1, <3>2, <3>4, <3>6
  <2>3. PICK left \in [Objects -> Nat] :
          /\ left = After(Nil, Nil, ReturnReleases(e))
          /\ \A o \in Objects : left[o] = rc[o] - lost[o] /\ left[o] = OutsideIn(ivar, o)
    <3>1. /\ After(Nil, Nil, lost) \in [Objects -> Nat]
          /\ \A o \in Objects : After(Nil, Nil, lost)[o] = rc[o] - lost[o]
      BY <2>2, AfterExact
    <3> QED
      BY <2>2, <3>1
  <2>4. dangling' = FALSE
    <3>1. Strays(Nil, Nil, lost) = FALSE
      BY <2>2, AfterExact
    <3> QED
      BY <1>7, <1>9, <2>2, <3>1
  <2>5. /\ result' = v /\ resume' = 1
        /\ rc' = IF IsOwning(e) THEN [left EXCEPT ![v] = 1] ELSE left
    BY <1>7, <1>9, <2>3
  <2>6. IsOwning(e) => v \in Objects /\ left[v] = 0
    <3> SUFFICES ASSUME IsOwning(e) PROVE v \in Objects /\ left[v] = 0
      OBVIOUS
    <3>1. e.kind = "new"
      BY DEF IsOwning
    <3>2. v \in Objects /\ rc[v] = 0
      BY <1>1, <1>9, <3>1, LiveValue
    <3>3. lost[v] \in Nat /\ left[v] \in Nat /\ left[v] = rc[v] - lost[v]
      BY <2>2, <2>3, <3>2
    <3> QED
      BY <3>2, <3>3
  <2>7. rc' \in [Objects -> Nat]
    BY <2>5, <2>6
  <2>8. "owning" \in returns' <=> IsOwning(e)
    BY <1>5 DEF ReturnKind
  <2>9. /\ "owning" \in returns' => result' # Nil
        /\ "owning" \notin returns' => result' \in Held \cup {ivar'[i] : i \in Ivars} \cup {Nil}
        /\ result' \in Objects \cup {Nil}
    <3>1. CASE IsOwning(e)
      BY <2>5, <2>6, <2>8, <3>1, ArcAssumption
    <3>2. CASE ~IsOwning(e)
      <4>1. e.kind \in {"nil", "void", "call", "ivar"}
        BY <1>4, <3>2 DEF IsOwning
      <4>2. v \in Objects \cup {Nil}
        BY <1>1, <1>9, <4>1, LiveValue
      <4>3. CASE e.kind = "call"
        BY <1>1, <1>9, <2>5, <2>8, <3>2, <4>2, <4>3, LiveValue
      <4>4. CASE e.kind = "ivar"
        <5>1. v = ivar[e.of]
          BY <1>1, <1>9, <4>4, LiveValue
        <5> QED
          BY <1>1, <1>4, <2>5, <2>8, <3>2, <4>2, <4>4, <5>1
      <4>5. CASE e.kind \in {"nil", "void"}
        <5>1. v = Nil
          BY ZenonT(60), <1>1, <1>9, <4>5, LiveValue
        <5> QED
          BY <2>5, <2>8, <3>2, <5>1
      <4> QED
        BY <4>1, <4>3, <4>4, <4>5
    <3> QED
      BY <3>1, <3>2
  <2>10. TypeOK'
    <3>1. resume' \in 0..Depth'
      BY <1>2, <1>3, <2>5
    <3>2. ivar' \in [Ivars -> Objects \cup {Nil}]
      BY <1>1, <1>2 DEF TypeOK
    <3> QED
      BY <1>3, <1>5, <1>6, <2>4, <2>7, <2>9, <3>1, <3>2 DEF TypeOK
  <2>11. ControlFlow'
    <3>1. ~Live'
      BY <2>5 DEF Live
    <3>2. \A d \in 1..Depth' : d < Depth' => blocks'[d].last = "none"
      BY <1>2, <1>3 DEF ControlFlow
    <3>3. blocks'[1].kind = "method"
      <4>1. blocks[1].kind \in {"method", "dealloc"}
        BY <1>2 DEF Nesting
      <4>2. blocks'[1].kind = blocks[1].kind
        BY <1>2, <1>3
      <4> QED
        BY <1>1, <4>1, <4>2
    <3>4. (\A r, q \in returns' : r = q) /\ returns' # {}
      BY <1>5
    <3> QED
      BY <2>9, <3>1, <3>2, <3>3, <3>4 DEF ControlFlow
  <2>12. CountsKept'
    <3>1. Entered' = 0
      BY <2>5 DEF Entered, Live
    <3>2. PICK k \in Int : k = 0 /\ k = Entered'
      BY <3>1
    <3>3. ASSUME NEW o \in Objects
          PROVE  rc'[o] = OutsideIn(ivar', o) + Cardinality(OwnedIn(blocks', consumed', k, o))
                          + ReturnedIn(resume', returns', result', o)
      <4>1. Cardinality(OwnedIn(blocks', consumed', k, o)) = 0
        BY <3>2, NothingOwned
      <4>2. ReturnedIn(resume', returns', result', o) = IF IsOwning(e) /\ o = v THEN 1 ELSE 0
        BY <2>5, <2>8 DEF ReturnedIn
      <4>3. left[o] = OutsideIn(ivar, o) /\ left[o] \in Nat /\ OutsideIn(ivar', o) = OutsideIn(ivar, o)
        BY <1>1, <2>3
      <4>4. rc'[o] = left[o] + IF IsOwning(e) /\ o = v THEN 1 ELSE 0
        <5>1. CASE IsOwning(e) /\ o = v
          BY <2>5, <2>6, <5>1
        <5>2. CASE ~(IsOwning(e) /\ o = v)
          <6>1. rc'[o] = left[o]
            BY <2>5, <2>6, <5>2
          <6> QED
            BY <4>3, <5>2, <6>1
        <5> QED
          BY <5>1, <5>2
      <4>5. OutsideIn(ivar', o) \in Nat
        BY <4>3
      <4> QED
        BY <4>1, <4>2, <4>3, <4>4, <4>5
    <3> QED
      BY <3>2, <3>3, CountsNext
  <2> QED
    BY <1>3, <2>4, <2>10, <2>11, <2>12 DEF IInv
<1> QED
  BY <1>8, <1>9

(***************************************************************************)
(* The end of a block                                                      *)
(***************************************************************************)
LEMMA EndExact ==
  ASSUME IInv, Live, Depth > 0, Top.kind # "dealloc"
  PROVE  /\ EndReleases \in [Objects -> Nat] /\ Covered(EndReleases)
         /\ \A o \in Objects :
              /\ EndReleases[o] \in Nat /\ OutsideIn(ivar, o) \in Nat
              /\ Cardinality(OwnedIn(blocks, consumed, Depth - 1, o)) \in Nat
              /\ rc[o] - EndReleases[o]
                 = OutsideIn(ivar, o) + Cardinality(OwnedIn(blocks, consumed, Depth - 1, o))
<1>1. TypeOK /\ ControlFlow /\ Depth \in Nat /\ rc \in [Objects -> Nat]
  BY EnteredInt DEF IInv, TypeOK
<1>2. PICK m \in Nat \ {0} : m = Depth /\ m <= Depth + 1 /\ m \in 1..Depth
  BY <1>1
<1>3. Top.last = "none" /\ Top = blocks[m]
  BY <1>1, <1>2 DEF ControlFlow, Top
<1>4. CASE Top.kind = "forin"
  <2>1. PICK lost \in [Objects -> Nat] : lost = EndReleases /\ \A o \in Objects : lost[o] = 0
    BY <1>4, NoneType DEF EndReleases
  <2>2. ASSUME NEW o \in Objects
        PROVE  /\ lost[o] \in Nat /\ OutsideIn(ivar, o) \in Nat
               /\ Cardinality(OwnedIn(blocks, consumed, m - 1, o)) \in Nat
               /\ rc[o] - lost[o]
                  = OutsideIn(ivar, o) + Cardinality(OwnedIn(blocks, consumed, m - 1, o))
    <3>1. OwnedIn(blocks, consumed, m, o) = OwnedIn(blocks, consumed, m - 1, o)
      <4>1. PICK k \in Int : k = m - 1 /\ k <= m /\ k + 1 = m
        BY <1>2
      <4>2. \A d \in (k + 1)..m : blocks[d].kind = "forin" \/ blocks[d].vars \subseteq consumed
        BY <1>3, <1>4, <4>1
      <4>3. OwnedIn(blocks, consumed, m, o) = OwnedIn(blocks, consumed, k, o)
        BY <4>1, <4>2, OwnedSame
      <4> QED
        BY <4>1, <4>3
    <3>2. /\ OutsideIn(ivar, o) \in Nat
          /\ Cardinality(OwnedIn(blocks, consumed, m, o)) \in Nat
          /\ rc[o] = OutsideIn(ivar, o) + Cardinality(OwnedIn(blocks, consumed, m, o))
      BY <1>2, LiveCounts
    <3> QED
      BY <2>1, <3>1, <3>2
  <2>3. Covered(lost)
    BY <1>1, <2>1 DEF Covered
  <2> QED
    BY <1>2, <2>1, <2>2, <2>3
<1>5. CASE Top.kind # "forin"
  <2>1. EndReleases = Releases(m..Depth, {})
    <3>1. m..Depth = {Depth}
      BY <1>2
    <3> QED
      BY <1>3, <1>5, <3>1 DEF EndReleases
  <2>2. \A d \in m..Depth : blocks[d].kind # "forin"
    BY <1>2, <1>3, <1>5
  <2>3. /\ Releases(m..Depth, {}) \in [Objects -> Nat] /\ Covered(Releases(m..Depth, {}))
        /\ \A o \in Objects :
             /\ Releases(m..Depth, {})[o] \in Nat /\ OutsideIn(ivar, o) \in Nat
             /\ Cardinality(OwnedIn(blocks, consumed, m - 1, o)) \in Nat
             /\ rc[o] - Releases(m..Depth, {})[o]
                = OutsideIn(ivar, o) + Cardinality(OwnedIn(blocks, consumed, m - 1, o))
    BY <1>2, <2>2, LeftExact
  <2> QED
    BY <1>2, <2>1, <2>3
<1> QED
  BY <1>4, <1>5

LEMMA LeftRuns ==
  ASSUME IInv, Live, Depth > 0, Top.kind # "dealloc", Run(Nil, Nil, EndReleases)
  PROVE  /\ rc' \in [Objects -> Nat] /\ dangling' = FALSE
         /\ \A o \in Objects :
              /\ OutsideIn(ivar, o) \in Nat
              /\ Cardinality(OwnedIn(blocks, consumed, Depth - 1, o)) \in Nat
              /\ rc'[o] = OutsideIn(ivar, o) + Cardinality(OwnedIn(blocks, consumed, Depth - 1, o))
<1>1. PICK lost \in [Objects -> Nat] :
        /\ lost = EndReleases /\ Covered(lost)
        /\ \A o \in Objects :
             /\ lost[o] \in Nat /\ OutsideIn(ivar, o) \in Nat
             /\ Cardinality(OwnedIn(blocks, consumed, Depth - 1, o)) \in Nat
             /\ rc[o] - lost[o]
                = OutsideIn(ivar, o) + Cardinality(OwnedIn(blocks, consumed, Depth - 1, o))
  BY EndExact
<1>2. /\ rc' \in [Objects -> Nat] /\ dangling' = FALSE
      /\ \A o \in Objects : lost[o] \in Nat /\ rc'[o] = rc[o] - lost[o]
  BY <1>1, Released
<1> QED
  BY <1>1, <1>2

\* The counts after the innermost block was left, with what remains of it.
LEMMA LeftCounts ==
  ASSUME NEW k \in Int, k = Depth - 1, k = Entered', UNCHANGED <<consumed, ivar>>, resume' # 1,
         \A d \in 1..k : blocks'[d] = blocks[d],
         \A o \in Objects :
              /\ OutsideIn(ivar, o) \in Nat
              /\ Cardinality(OwnedIn(blocks, consumed, Depth - 1, o)) \in Nat
              /\ rc'[o] = OutsideIn(ivar, o) + Cardinality(OwnedIn(blocks, consumed, Depth - 1, o))
  PROVE  CountsKept'
<1>1. ASSUME NEW o \in Objects
      PROVE  rc'[o] = OutsideIn(ivar', o) + Cardinality(OwnedIn(blocks', consumed', k, o))
                      + ReturnedIn(resume', returns', result', o)
  <2>1. OwnedIn(blocks', consumed', k, o) = OwnedIn(blocks, consumed, k, o)
    <3>1. k <= k /\ \A d \in (k + 1)..k : FALSE
      OBVIOUS
    <3>2. \A d \in 1..k : /\ blocks'[d].vars \ consumed' = blocks[d].vars \ consumed
                          /\ blocks'[d].kind = blocks[d].kind /\ blocks'[d].val = blocks[d].val
      OBVIOUS
    <3> QED
      BY <3>1, <3>2, OwnedSame
  <2>2. ReturnedIn(resume', returns', result', o) = 0
    BY DEF ReturnedIn
  <2>3. /\ OutsideIn(ivar, o) \in Nat
        /\ Cardinality(OwnedIn(blocks, consumed, k, o)) \in Nat
        /\ rc'[o] = OutsideIn(ivar, o) + Cardinality(OwnedIn(blocks, consumed, k, o))
    OBVIOUS
  <2>4. OutsideIn(ivar', o) = OutsideIn(ivar, o)
    OBVIOUS
  <2> QED
    BY <2>1, <2>2, <2>3, <2>4
<1> QED
  BY <1>1, CountsNext

LEMMA CloseKeeps ==
  ASSUME IInv, Close
  PROVE  IInv'
<1>1. /\ Depth > 1 /\ Run(Nil, Nil, EndReleases) /\ blocks' = SubSeq(blocks, 1, Depth - 1)
      /\ resume' = IF resume = Depth THEN 0 ELSE resume
      /\ UNCHANGED <<consumed, returns, ivar, result>>
  BY DEF Close, Nested, AtEnd
<1>2. /\ TypeOK /\ FramesExact /\ Nesting /\ ControlFlow /\ CountsKept /\ ~dangling
      /\ Depth \in Nat /\ resume \in Nat /\ resume <= Depth
  BY EnteredInt DEF IInv
<1>3. /\ blocks' \in Seq(OpenBlocks) /\ Depth' = Depth - 1
      /\ \A d \in 1..(Depth - 1) : blocks'[d] = blocks[d]
      /\ FramesExact' /\ Nesting'
  <2>1. Depth > 0
    BY <1>1, <1>2
  <2> QED
    BY <1>1, <1>2, <2>1, Popped
<1>4. /\ resume' \in 0..Depth' /\ (resume' = 1 <=> resume = 1) /\ (resume' = 1 => Depth' >= 1)
  BY <1>1, <1>2, <1>3
<1>5. ControlFlow'
  <2>1. \A d \in 1..Depth' : d \in 1..(Depth - 1) /\ d \in 1..Depth /\ d < Depth
    BY <1>2, <1>3
  <2>2. \A d \in 1..Depth' : blocks'[d].last = "none"
    BY <1>2, <1>3, <2>1 DEF ControlFlow
  <2>3. 1 \in 1..(Depth - 1)
    BY <1>1, <1>2
  <2>4. blocks'[1].kind = blocks[1].kind
    BY <1>3, <2>3
  <2> QED
    BY <1>1, <1>2, <1>4, <2>2, <2>4 DEF ControlFlow
<1>6. rc' \in [Objects -> Nat] /\ dangling' = FALSE /\ CountsKept'
  <2>1. CASE ~Live
    <3>1. UNCHANGED <<rc, dangling>>
      BY <1>1, <2>1, RunSkipped
    <3>2. PICK k \in Int : k = Entered /\ k = resume - 1 /\ k <= Depth - 1
      BY <1>2, <2>1, EnteredInt
    <3>3. Entered' = k
      BY <1>1, <1>2, <1>3, <2>1, <3>2 DEF Entered, Live
    <3>4. k <= k /\ \A d \in (k + 1)..k : FALSE
      OBVIOUS
    <3>5. \A d \in 1..k : d \in 1..(Depth - 1)
      BY <1>2, <3>2
    <3>6. \A d \in 1..k : /\ blocks'[d].vars \ consumed' = blocks[d].vars \ consumed
                          /\ blocks'[d].kind = blocks[d].kind /\ blocks'[d].val = blocks[d].val
      BY <1>1, <1>3, <3>5
    <3>7. \A o \in Objects : ReturnedIn(resume', returns', result', o)
                             = ReturnedIn(resume, returns, result, o)
      BY <1>1, <1>4 DEF ReturnedIn
    <3>8. CountsKept'
      BY <1>1, <1>2, <3>1, <3>2, <3>3, <3>4, <3>6, <3>7, CountsSame
    <3> QED
      BY <1>2, <3>1, <3>8 DEF TypeOK
  <2>2. CASE Live
    <3>1. Top.kind # "dealloc" /\ Depth > 0
      <4>1. Depth \in 1..Depth /\ Depth # 1
        BY <1>1, <1>2
      <4> QED
        BY <1>2, <4>1 DEF Nesting, Top
    <3>2. /\ rc' \in [Objects -> Nat] /\ dangling' = FALSE
          /\ \A o \in Objects :
               /\ OutsideIn(ivar, o) \in Nat
               /\ Cardinality(OwnedIn(blocks, consumed, Depth - 1, o)) \in Nat
               /\ rc'[o] = OutsideIn(ivar, o) + Cardinality(OwnedIn(blocks, consumed, Depth - 1, o))
      BY <1>1, <2>2, <3>1, LeftRuns
    <3>3. resume = 0 /\ resume' = 0
      BY <1>1, <2>2 DEF Live
    <3>4. PICK k \in Int : k = Depth - 1 /\ k = Entered'
      BY <1>2, <1>3, <3>3 DEF Entered, Live
    <3>5. \A d \in 1..k : blocks'[d] = blocks[d]
      BY <1>3, <3>4
    <3>6. resume' # 1
      BY <3>3
    <3>7. CountsKept'
      BY <1>1, <3>2, <3>4, <3>5, <3>6, LeftCounts
    <3> QED
      BY <3>2, <3>7
  <2> QED
    BY <2>1, <2>2
<1>7. TypeOK'
  BY <1>1, <1>2, <1>3, <1>4, <1>6 DEF TypeOK
<1> QED
  BY <1>3, <1>5, <1>6, <1>7 DEF IInv

LEMMA ElseKeeps ==
  ASSUME IInv, Else
  PROVE  IInv'
<1>1. /\ Depth > 1 /\ Top.kind = "then" /\ Run(Nil, Nil, EndReleases)
      /\ blocks' = [blocks EXCEPT ![Depth] = Plain("else")]
      /\ resume' = IF resume = Depth THEN 0 ELSE IF Live THEN Depth ELSE resume
      /\ UNCHANGED <<consumed, returns, ivar, result>>
  BY DEF Else, Nested
<1>2. /\ TypeOK /\ FramesExact /\ Nesting /\ ControlFlow /\ CountsKept /\ ~dangling
      /\ Depth \in Nat /\ resume \in Nat /\ resume <= Depth
  BY EnteredInt DEF IInv
<1>3. PICK b : b = Plain("else")
  OBVIOUS
<1>4. /\ b \in OpenBlocks /\ b.vars = {} /\ b.kind = "else" /\ b.last = "none" /\ Framed(b)
  <2>1. "else" \in Kinds
    BY DEF Kinds
  <2> QED
    BY <1>3, <2>1, PlainFits
<1>5. Depth \in 1..Depth /\ Depth # 1
  BY <1>1, <1>2
<1>6. /\ blocks' \in Seq(OpenBlocks) /\ Depth' = Depth
      /\ blocks'[Depth] = b /\ \A d \in 1..Depth : d # Depth => blocks'[d] = blocks[d]
      /\ FramesExact' /\ Nesting'
  <2>1. blocks' = [blocks EXCEPT ![Depth] = b]
    BY <1>1, <1>3
  <2>2. b.kind = "else" /\ blocks[Depth].kind = "then"
    BY <1>1, <1>4 DEF Top
  <2>3. (\A n \in b.vars : n \in blocks[Depth].vars \/ ~Visible(n)) /\ (b.kind = "dealloc" => b.vars = {})
    BY <1>4
  <2> QED
    BY <1>2, <1>4, <1>5, <2>1, <2>2, <2>3, Changed
<1>7. /\ resume' \in 0..Depth' /\ (resume' = 1 <=> resume = 1)
  BY <1>1, <1>2, <1>6 DEF Live
<1>8. ControlFlow'
  <2>1. \A d \in 1..Depth : d = Depth \/ d < Depth
    BY <1>2
  <2>2. \A d \in 1..Depth : blocks'[d].last = "none"
    BY <1>2, <1>4, <1>6, <2>1 DEF ControlFlow
  <2>3. 1 \in 1..Depth /\ 1 # Depth
    BY <1>1, <1>2
  <2>4. blocks'[1].kind = blocks[1].kind
    BY <1>6, <2>3
  <2> QED
    BY <1>1, <1>2, <1>6, <1>7, <2>2, <2>4 DEF ControlFlow
<1>9. rc' \in [Objects -> Nat] /\ dangling' = FALSE /\ CountsKept'
  <2>1. CASE ~Live
    <3>1. UNCHANGED <<rc, dangling>>
      BY <1>1, <2>1, RunSkipped
    <3>2. PICK k \in Int : k = Entered /\ k = resume - 1 /\ k <= Depth - 1
      BY <1>2, <2>1, EnteredInt
    <3>3. PICK j \in Int : j = Entered' /\ k <= j /\ j <= Depth /\ (j # k => k = Depth - 1)
      <4>1. CASE resume = Depth
        <5>1. Entered' = Depth
          BY <1>1, <1>6, <4>1 DEF Entered, Live
        <5> QED
          BY <1>2, <3>2, <4>1, <5>1
      <4>2. CASE resume # Depth
        <5>1. Entered' = Entered
          BY <1>1, <1>6, <2>1, <4>2 DEF Entered, Live
        <5>2. k = Entered
          BY <3>2
        <5>3. k = Entered'
          BY <5>1, <5>2, Zenon
        <5>4. k <= k /\ k <= Depth
          BY <1>2, <3>2
        <5> QED
          BY <5>3, <5>4
      <4> QED
        BY <4>1, <4>2
    <3>4. \A d \in 1..k : d \in 1..Depth /\ d # Depth
      BY <1>2, <3>2
    <3>5. \A d \in 1..k : /\ blocks'[d].vars \ consumed' = blocks[d].vars \ consumed
                          /\ blocks'[d].kind = blocks[d].kind /\ blocks'[d].val = blocks[d].val
      BY <1>1, <1>6, <3>4
    <3>6. \A d \in (k + 1)..j : d = Depth
      BY <1>2, <3>2, <3>3
    <3>7. \A d \in (k + 1)..j : blocks'[d].kind = "forin" \/ blocks'[d].vars \subseteq consumed'
      BY <1>4, <1>6, <3>6
    <3>8. \A o \in Objects : ReturnedIn(resume', returns', result', o)
                             = ReturnedIn(resume, returns, result, o)
      BY <1>1, <1>7 DEF ReturnedIn
    <3>9. CountsKept'
      BY <1>1, <1>2, <3>1, <3>2, <3>3, <3>5, <3>7, <3>8, CountsSame
    <3> QED
      BY <1>2, <3>1, <3>9 DEF TypeOK
  <2>2. CASE Live
    <3>1. Top.kind # "dealloc" /\ Depth > 0
      BY <1>1, <1>2
    <3>2. /\ rc' \in [Objects -> Nat] /\ dangling' = FALSE
          /\ \A o \in Objects :
               /\ OutsideIn(ivar, o) \in Nat
               /\ Cardinality(OwnedIn(blocks, consumed, Depth - 1, o)) \in Nat
               /\ rc'[o] = OutsideIn(ivar, o) + Cardinality(OwnedIn(blocks, consumed, Depth - 1, o))
      BY <1>1, <2>2, <3>1, LeftRuns
    <3>3. resume' = Depth /\ resume' # 0 /\ resume' # 1
      BY <1>1, <1>2, <2>2 DEF Live
    <3>4. PICK k \in Int : k = Depth - 1 /\ k = Entered'
      BY <1>2, <3>3 DEF Entered, Live
    <3>5. \A d \in 1..k : blocks'[d] = blocks[d]
      <4>1. \A d \in 1..k : d \in 1..Depth /\ d # Depth
        BY <1>2, <3>4
      <4> QED
        BY <1>6, <4>1
    <3>6. CountsKept'
      BY <1>1, <3>2, <3>3, <3>4, <3>5, LeftCounts
    <3> QED
      BY <3>2, <3>6
  <2> QED
    BY <2>1, <2>2
<1>10. TypeOK'
  BY <1>1, <1>2, <1>6, <1>7, <1>9 DEF TypeOK
<1> QED
  BY <1>6, <1>8, <1>9, <1>10 DEF IInv

(***************************************************************************)
(* The end of a method and of a dealloc                                    *)
(***************************************************************************)
\* What the rest of the program or an ivar owns has a count for it.
LEMMA OutsideAlive ==
  ASSUME NEW iv, NEW o, \/ o \in Held
                        \/ \E i \in Ivars : iv[i] = o
  PROVE  OutsideIn(iv, o) \in Nat /\ OutsideIn(iv, o) > 0
<1>1. IsFiniteSet(OwningIvars(iv, o)) /\ Cardinality(OwningIvars(iv, o)) \in Nat
  BY IvarsFinite
<1>2. CASE o \in Held
  BY <1>1, <1>2 DEF OutsideIn
<1>3. CASE \E i \in Ivars : iv[i] = o
  <2>1. OwningIvars(iv, o) # {}
    BY <1>3 DEF OwningIvars
  <2>2. Cardinality(OwningIvars(iv, o)) # 0
    BY <1>1, <2>1, FS_EmptySet
  <2> QED
    BY <1>1, <2>2 DEF OutsideIn
<1> QED
  BY <1>2, <1>3

\* Between two methods only the outside owns.
LEMMA BetweenMethods ==
  ASSUME TypeOK, blocks' = <<>>, resume' = 0, dangling' = FALSE,
         UNCHANGED <<consumed, returns>>, result' \in Objects \cup {Nil}, ControlFlow,
         rc' \in [Objects -> Nat], ivar' \in [Ivars -> Objects \cup {Nil}],
         \A o \in Objects : rc'[o] = OutsideIn(ivar', o)
  PROVE  IInv'
<1>1. Depth' = 0 /\ Entered' = 0 /\ Live'
  BY DEF Depth, Entered, Live
<1>2. \A d \in 1..0 : FALSE
  OBVIOUS
<1>3. blocks' \in Seq(OpenBlocks)
  OBVIOUS
<1>4. resume' \in 0..Depth'
  BY <1>1
<1>5. TypeOK'
  BY <1>3, <1>4 DEF TypeOK
<1>6. FramesExact' /\ Nesting'
  BY <1>1, <1>2 DEF FramesExact, Nesting
<1>7. ControlFlow'
  BY <1>1, <1>2 DEF ControlFlow
<1>8. PICK k \in Int : k = 0 /\ k = Entered'
  BY <1>1
<1>9. ASSUME NEW o \in Objects
      PROVE  rc'[o] = OutsideIn(ivar', o) + Cardinality(OwnedIn(blocks', consumed', k, o))
                      + ReturnedIn(resume', returns', result', o)
  <2>1. Cardinality(OwnedIn(blocks', consumed', k, o)) = 0
    BY <1>8, NothingOwned
  <2>2. ReturnedIn(resume', returns', result', o) = 0
    BY DEF ReturnedIn
  <2>3. OutsideIn(ivar', o) \in Nat
    BY IvarsFinite
  <2> QED
    BY <2>1, <2>2, <2>3
<1>10. CountsKept'
  BY <1>8, <1>9, CountsNext
<1> QED
  BY <1>5, <1>6, <1>7, <1>10 DEF IInv

LEMMA EndMethodKeeps ==
  ASSUME IInv, EndMethod
  PROVE  IInv'
<1>1. /\ Depth = 1 /\ Top.kind = "method" /\ blocks' = <<>> /\ resume' = 0 /\ result' = Nil
      /\ UNCHANGED <<consumed, returns, ivar>>
  BY DEF EndMethod
<1>2. /\ TypeOK /\ ControlFlow /\ CountsKept /\ rc \in [Objects -> Nat]
      /\ ivar \in [Ivars -> Objects \cup {Nil}] /\ resume \in 0..Depth
      /\ result \in Objects \cup {Nil} /\ Nil \notin Objects
  BY ArcAssumption DEF IInv, TypeOK
<1>3. /\ rc' \in [Objects -> Nat] /\ dangling' = FALSE
      /\ \A o \in Objects : rc'[o] = OutsideIn(ivar', o)
  <2>1. CASE Live
    <3>1. Run(Nil, Nil, EndReleases)
      BY <2>1 DEF EndMethod
    <3>2. Depth > 0 /\ Top.kind # "dealloc" /\ Depth - 1 = 0
      BY <1>1
    <3>3. /\ rc' \in [Objects -> Nat] /\ dangling' = FALSE
          /\ \A o \in Objects :
               /\ OutsideIn(ivar, o) \in Nat
               /\ Cardinality(OwnedIn(blocks, consumed, Depth - 1, o)) \in Nat
               /\ rc'[o] = OutsideIn(ivar, o) + Cardinality(OwnedIn(blocks, consumed, Depth - 1, o))
      BY <2>1, <3>1, <3>2, LeftRuns
    <3>4. \A o \in Objects : Cardinality(OwnedIn(blocks, consumed, Depth - 1, o)) = 0
      BY <3>2, NothingOwned
    <3>5. \A o \in Objects : rc'[o] = OutsideIn(ivar, o)
      BY <3>3, <3>4
    <3> QED
      BY <1>1, <3>3, <3>5
  <2>2. CASE ~Live
    <3>1. resume = 1
      BY <1>1, <1>2, <2>2 DEF Live
    <3>2. /\ rc' = [o \in Objects |-> IF o = result /\ returns = {"owning"} /\ rc[o] > 0
                                      THEN rc[o] - 1 ELSE rc[o]]
          /\ dangling' = (result # Nil /\ rc[result] = 0)
      BY <2>2 DEF EndMethod
    <3>3. returns = {"owning"} <=> "owning" \in returns
      BY <1>2, <3>1 DEF ControlFlow
    <3>4. ASSUME NEW o \in Objects
          PROVE  /\ rc[o] \in Nat /\ OutsideIn(ivar, o) \in Nat
                 /\ rc[o] = OutsideIn(ivar, o)
                            + (IF "owning" \in returns /\ o = result THEN 1 ELSE 0)
      <4>1. PICK k \in Int : k = 0 /\ k = Entered
        BY <2>2, <3>1 DEF Entered
      <4>2. rc[o] = OutsideIn(ivar, o) + Cardinality(OwnedIn(blocks, consumed, k, o))
                    + ReturnedIn(resume, returns, result, o)
        BY <1>2, <4>1, CountsNow
      <4>3. Cardinality(OwnedIn(blocks, consumed, k, o)) = 0
        BY <4>1, NothingOwned
      <4>4. ReturnedIn(resume, returns, result, o)
            = IF "owning" \in returns /\ o = result THEN 1 ELSE 0
        BY <3>1 DEF ReturnedIn
      <4>5. OutsideIn(ivar, o) \in Nat /\ rc[o] \in Nat
        BY <1>2, IvarsFinite
      <4> QED
        BY <4>2, <4>3, <4>4, <4>5
    <3>5. ASSUME NEW o \in Objects PROVE rc'[o] = OutsideIn(ivar, o)
      <4>1. CASE "owning" \in returns /\ o = result
        BY <3>2, <3>3, <3>4, <4>1
      <4>2. CASE ~("owning" \in returns /\ o = result)
        BY <3>2, <3>3, <3>4, <4>2
      <4> QED
        BY <4>1, <4>2
    <3>6. rc' \in [Objects -> Nat]
      <4>1. \A o \in Objects : OutsideIn(ivar, o) \in Nat
        BY IvarsFinite
      <4> QED
        BY <3>2, <3>5, <4>1
    <3>7. ~(result # Nil /\ rc[result] = 0)
      <4> SUFFICES ASSUME result # Nil PROVE rc[result] # 0
        OBVIOUS
      <4>1. result \in Objects
        BY <1>2
      <4>2. CASE "owning" \in returns
        BY <3>4, <4>1, <4>2
      <4>3. CASE "owning" \notin returns
        <5>1. result \in Held \cup {ivar[i] : i \in Ivars}
          BY <1>2, <3>1, <4>3 DEF ControlFlow
        <5>2. result \in Held \/ \E i \in Ivars : ivar[i] = result
          BY <5>1
        <5>3. OutsideIn(ivar, result) > 0
          BY <5>2, OutsideAlive
        <5> QED
          BY <3>4, <4>1, <5>3
      <4> QED
        BY <4>2, <4>3
    <3>8. dangling' = FALSE
      BY <3>2, <3>7, Zenon
    <3> QED
      BY <1>1, <3>5, <3>6, <3>8
  <2> QED
    BY <2>1, <2>2
<1>4. ivar' \in [Ivars -> Objects \cup {Nil}] /\ result' \in Objects \cup {Nil}
  BY <1>1, <1>2
<1> QED
  BY <1>1, <1>2, <1>3, <1>4, BetweenMethods

LEMMA EndDeallocKeeps ==
  ASSUME IInv, EndDealloc
  PROVE  IInv'
<1>1. /\ Depth = 1 /\ Top.kind = "dealloc" /\ blocks' = <<>> /\ resume' = 0
      /\ Run(Nil, Nil, [o \in Objects |-> Cardinality({i \in Ivars : ivar[i] = o})])
      /\ ivar' = [i \in Ivars |-> Nil]
      /\ UNCHANGED <<consumed, returns, result>>
  BY DEF EndDealloc
<1>2. /\ TypeOK /\ Nesting /\ ControlFlow /\ rc \in [Objects -> Nat]
      /\ resume \in 0..Depth
      /\ result \in Objects \cup {Nil} /\ Nil \notin Objects
  BY ArcAssumption DEF IInv, TypeOK
<1>3. Live
  <2>1. resume # 1
    BY <1>1, <1>2 DEF ControlFlow, Top
  <2> QED
    BY <1>1, <1>2, <2>1 DEF Live
<1>4. blocks[1].vars = {}
  <2>1. 1 \in 1..Depth /\ blocks[1].kind = "dealloc"
    BY <1>1 DEF Top
  <2> QED
    BY <1>2, <2>1 DEF Nesting
<1>5. PICK lost : lost = [o \in Objects |-> Cardinality({i \in Ivars : ivar[i] = o})]
  OBVIOUS
<1>6. ASSUME NEW o \in Objects
      PROVE  /\ lost[o] \in Nat
             /\ rc[o] = (IF o \in Held THEN 1 ELSE 0) + lost[o]
             /\ OutsideIn(ivar', o) = IF o \in Held THEN 1 ELSE 0
  <2>1. lost[o] = Cardinality(OwningIvars(ivar, o)) /\ Cardinality(OwningIvars(ivar, o)) \in Nat
    BY <1>5, IvarsFinite DEF OwningIvars
  <2>2. PICK k \in Int : k = 0
    OBVIOUS
  <2>3. PICK j \in Int : j = 1 /\ j = Depth /\ k <= j
    BY <1>1, <2>2
  <2>4. OwnedIn(blocks, consumed, j, o) = OwnedIn(blocks, consumed, k, o)
    <3>1. \A d \in (k + 1)..j : d = 1
      BY <2>2, <2>3
    <3>2. \A d \in (k + 1)..j : blocks[d].kind = "forin" \/ blocks[d].vars \subseteq consumed
      BY <1>4, <3>1
    <3> QED
      BY <2>3, <3>2, OwnedSame
  <2>5. Cardinality(OwnedIn(blocks, consumed, Depth, o)) = 0
    BY <2>2, <2>3, <2>4, NothingOwned
  <2>6. /\ OutsideIn(ivar, o) \in Nat
        /\ rc[o] = OutsideIn(ivar, o) + Cardinality(OwnedIn(blocks, consumed, Depth, o))
    BY <1>3, LiveCounts
  <2>7. rc[o] = OutsideIn(ivar, o)
    BY <2>5, <2>6
  <2>8. OwningIvars(ivar', o) = {}
    BY <1>1, <1>2 DEF OwningIvars
  <2>9. Cardinality(OwningIvars(ivar', o)) = 0
    BY <2>8, FS_EmptySet
  <2>10. OutsideIn(ivar', o) = (IF o \in Held THEN 1 ELSE 0) + 0
    BY <2>9 DEF OutsideIn
  <2>11. OutsideIn(ivar, o) = (IF o \in Held THEN 1 ELSE 0) + lost[o]
    BY <2>1 DEF OutsideIn
  <2> QED
    BY <2>1, <2>7, <2>10, <2>11
<1>7. lost \in [Objects -> Nat]
  BY <1>5, <1>6
<1>8. \A o \in Objects : lost[o] <= rc[o]
  BY <1>6
<1>9. Covered(lost)
  BY <1>8 DEF Covered
<1>10. /\ rc' \in [Objects -> Nat] /\ dangling' = FALSE
       /\ \A o \in Objects : lost[o] \in Nat /\ rc'[o] = rc[o] - lost[o]
  BY <1>1, <1>3, <1>5, <1>7, <1>9, Released
<1>11. \A o \in Objects : rc'[o] = OutsideIn(ivar', o)
  BY <1>6, <1>10
<1>12. ivar' \in [Ivars -> Objects \cup {Nil}] /\ result' \in Objects \cup {Nil}
  BY <1>1, <1>2
<1> QED
  BY <1>1, <1>2, <1>10, <1>11, <1>12, BetweenMethods

(***************************************************************************)
(* The beginning of a method and of a dealloc                              *)
(***************************************************************************)
\* Between two methods nothing is owned inside.
LEMMA EmptyCounts ==
  ASSUME IInv, blocks = <<>>, NEW o \in Objects
  PROVE  /\ Depth = 0 /\ resume = 0 /\ OutsideIn(ivar, o) \in Nat /\ rc[o] = OutsideIn(ivar, o)
<1>1. Depth = 0
  BY DEF Depth
<1>2. resume = 0 /\ Live
  <2>1. resume \in 0..Depth
    BY DEF IInv, TypeOK
  <2> QED
    BY <1>1, <2>1 DEF Live
<1>3. /\ OutsideIn(ivar, o) \in Nat
      /\ Cardinality(OwnedIn(blocks, consumed, Depth, o)) \in Nat
      /\ rc[o] = OutsideIn(ivar, o) + Cardinality(OwnedIn(blocks, consumed, Depth, o))
  BY <1>2, LiveCounts
<1>4. Cardinality(OwnedIn(blocks, consumed, Depth, o)) = 0
  BY <1>1, NothingOwned
<1> QED
  BY <1>1, <1>2, <1>3, <1>4

\* The parameters that have an object, as variables of the first block.
LEMMA ParamsOwn ==
  ASSUME NEW b, NEW args, NEW bs, bs = <<b>>, b.vars = Params, b.kind = "method",
         \A p \in Params : b.val[p] = args[p], NEW o
  PROVE  /\ Cardinality(OwnedIn(bs, {}, 1, o)) = Cardinality({p \in Params : args[p] = o})
         /\ Cardinality(OwnedIn(bs, {}, 1, o)) \in Nat
<1> DEFINE S == {p \in Params : args[p] = o}
           T == OwnedIn(bs, {}, 1, o)
           F == [p \in S |-> <<1, p>>]
<1>1. Params \subseteq Names /\ bs[1] = b
  BY DEF Names
<1>2. \A p \in S : <<1, p>> \in T
  <2>1. 1 \in 1..1
    OBVIOUS
  <2> QED
    BY <1>1, <2>1 DEF OwnedIn
<1>3. \A s \in T : s[2] \in S /\ s = <<1, s[2]>>
  <2>1. \A s \in T : s \in (1..1) \X Names /\ s[1] \in 1..1
    BY DEF OwnedIn
  <2>2. \A s \in T : s[1] = 1
    BY <2>1
  <2>3. \A s \in T : s = <<1, s[2]>>
    BY <2>1, <2>2
  <2>4. \A s \in T : s[2] \in S
    BY <1>1, <2>2 DEF OwnedIn
  <2> QED
    BY <2>3, <2>4
<1>4. IsFiniteSet(S)
  BY ArcAssumption, FS_Subset
<1> HIDE DEF S, T
<1>5. F \in Bijection(S, T)
  <2>1. F \in [S -> T]
    BY <1>2
  <2>2. \A p, q \in S : F[p] = F[q] => p = q
    OBVIOUS
  <2>3. \A s \in T : \E p \in S : F[p] = s
    BY <1>3
  <2> QED
    BY <2>1, <2>2, <2>3 DEF Bijection, Injection, Surjection, IsInjective
<1>6. ExistsBijection(S, T)
  BY <1>5 DEF ExistsBijection
<1>7. IsFiniteSet(T) /\ Cardinality(T) = Cardinality(S)
  BY <1>4, <1>6, FS_Bijection
<1>8. Cardinality(T) \in Nat
  BY <1>7, FS_CardinalityType
<1> QED
  BY <1>7, <1>8 DEF S, T

\* The first block of a method or dealloc, and its counts.
LEMMA Begins ==
  ASSUME IInv, blocks = <<>>, NEW b \in OpenBlocks, blocks' = <<b>>, Framed(b),
         b.kind \in {"method", "dealloc"}, b.kind = "dealloc" => b.vars = {}, b.last = "none",
         consumed' = {}, returns' = {}, result' = Nil, UNCHANGED <<resume, ivar>>,
         dangling' = FALSE, rc' \in [Objects -> Nat],
         \A o \in Objects : rc'[o] = OutsideIn(ivar, o) + Cardinality(OwnedIn(blocks', {}, 1, o))
  PROVE  IInv'
<1>1. Depth = 0 /\ resume \in 0..Depth /\ ivar \in [Ivars -> Objects \cup {Nil}]
  BY DEF IInv, TypeOK, Depth
<1>2. /\ resume' = 0 /\ Live' /\ Depth' = 1 /\ Entered' = 1 /\ blocks'[1] = b
      /\ blocks' \in Seq(OpenBlocks)
  BY <1>1 DEF Depth, Live, Entered
<1>3. \A d \in 1..Depth' : d = 1 /\ blocks'[d] = b
  BY <1>2
<1>4. TypeOK'
  <2>1. resume' \in 0..Depth' /\ ivar' \in [Ivars -> Objects \cup {Nil}]
    BY <1>1, <1>2
  <2> QED
    BY <1>2, <2>1 DEF TypeOK
<1>5. FramesExact'
  <2>1. b.kind # "forin"
    OBVIOUS
  <2> QED
    BY <1>3, <2>1 DEF FramesExact, Framed
<1>6. Nesting'
  BY <1>2, <1>3 DEF Nesting
<1>7. ControlFlow'
  BY <1>2, <1>3 DEF ControlFlow
<1>8. PICK k \in Int : k = 1 /\ k = Entered'
  BY <1>2
<1>9. ASSUME NEW o \in Objects
      PROVE  rc'[o] = OutsideIn(ivar', o) + Cardinality(OwnedIn(blocks', consumed', k, o))
                      + ReturnedIn(resume', returns', result', o)
  <2>1. ReturnedIn(resume', returns', result', o) = 0
    BY <1>2 DEF ReturnedIn
  <2>2. OutsideIn(ivar, o) \in Nat /\ Cardinality(OwnedIn(blocks', {}, k, o)) \in Nat
    BY IvarsFinite, OwnedFinite
  <2>3. rc'[o] = OutsideIn(ivar, o) + Cardinality(OwnedIn(blocks', {}, k, o))
    BY <1>8
  <2>4. ivar' = ivar /\ consumed' = {}
    OBVIOUS
  <2> QED
    BY <2>1, <2>2, <2>3, <2>4
<1>10. CountsKept'
  BY <1>8, <1>9, CountsNext
<1> QED
  BY <1>4, <1>5, <1>6, <1>7, <1>10 DEF IInv

LEMMA BeginMethodKeeps ==
  ASSUME IInv, BeginMethod
  PROVE  IInv'
<1>1. /\ blocks = <<>> /\ consumed' = {} /\ returns' = {} /\ result' = Nil
      /\ UNCHANGED <<resume, ivar>>
  BY DEF BeginMethod
<1>2. /\ ivar \in [Ivars -> Objects \cup {Nil}] /\ rc \in [Objects -> Nat]
      /\ Nil \notin Objects /\ Held \subseteq Objects /\ Undeclared \notin Objects \cup {Nil}
  BY ArcAssumption DEF IInv, TypeOK, Undeclared
<1>3. PICK args \in [Params -> Held \cup {ivar[i] : i \in Ivars} \cup {Nil}] :
        /\ blocks' = <<Block("method", Params,
                             [n \in Names |-> IF n \in Params THEN args[n] ELSE Undeclared])>>
        /\ rc' = [o \in Objects |-> rc[o] + ParamRetains(args)[o]]
        /\ dangling' = \E p \in Params : args[p] # Nil /\ rc[args[p]] = 0
  BY DEF BeginMethod
<1>4. \A p \in Params : args[p] \in Objects \cup {Nil}
  BY <1>2
<1>5. PICK val : val = [n \in Names |-> IF n \in Params THEN args[n] ELSE Undeclared]
  OBVIOUS
<1>6. PICK b : b = [kind |-> "method", vars |-> Params, val |-> val, last |-> "none"]
  OBVIOUS
<1>7. blocks' = <<b>>
  BY <1>3, <1>5, <1>6 DEF Block
<1>8. Params \subseteq Names
  BY DEF Names
<1>9. /\ val \in [Names -> Objects \cup {Nil, Undeclared}]
      /\ \A n \in Names : n \in Params <=> val[n] # Undeclared
      /\ \A p \in Params : val[p] = args[p]
  BY <1>2, <1>4, <1>5, <1>8
<1>10. b \in OpenBlocks
  BY <1>6, <1>8, <1>9 DEF OpenBlocks, Kinds
<1>11. Framed(b) /\ b.kind = "method" /\ b.last = "none" /\ b.vars = Params
       /\ \A p \in Params : b.val[p] = args[p]
  BY <1>6, <1>9 DEF Framed
<1>12. ASSUME NEW o \in Objects
       PROVE  /\ rc'[o] = OutsideIn(ivar, o) + Cardinality(OwnedIn(blocks', {}, 1, o))
              /\ rc'[o] \in Nat
  <2>1. /\ Cardinality(OwnedIn(blocks', {}, 1, o)) = Cardinality({p \in Params : args[p] = o})
        /\ Cardinality(OwnedIn(blocks', {}, 1, o)) \in Nat
    BY <1>7, <1>11, ParamsOwn
  <2>2. rc'[o] = rc[o] + Cardinality({p \in Params : args[p] = o})
    BY <1>3 DEF ParamRetains
  <2>3. rc[o] = OutsideIn(ivar, o) /\ OutsideIn(ivar, o) \in Nat
    BY <1>1, EmptyCounts
  <2> QED
    BY <2>1, <2>2, <2>3
<1>13. rc' \in [Objects -> Nat]
  BY <1>3, <1>12
<1>14. ~(\E p \in Params : args[p] # Nil /\ rc[args[p]] = 0)
  <2> SUFFICES ASSUME NEW p \in Params, args[p] # Nil, rc[args[p]] = 0 PROVE FALSE
    OBVIOUS
  <2>1. args[p] \in Objects
    BY <1>4
  <2>2. args[p] \in Held \/ \E i \in Ivars : ivar[i] = args[p]
    <3>1. args[p] \in Held \cup {ivar[i] : i \in Ivars} \cup {Nil}
      OBVIOUS
    <3> QED
      BY <3>1
  <2>3. OutsideIn(ivar, args[p]) > 0 /\ OutsideIn(ivar, args[p]) \in Nat
    BY <2>2, OutsideAlive
  <2>4. rc[args[p]] = OutsideIn(ivar, args[p])
    BY <1>1, <2>1, EmptyCounts
  <2> QED
    BY <2>3, <2>4
<1>15. dangling' = FALSE
  BY <1>3, <1>14, Zenon
<1>16. \A o \in Objects : rc'[o] = OutsideIn(ivar, o) + Cardinality(OwnedIn(blocks', {}, 1, o))
  BY <1>12
<1> QED
  BY <1>1, <1>7, <1>10, <1>11, <1>13, <1>15, <1>16, Begins

LEMMA BeginDeallocKeeps ==
  ASSUME IInv, BeginDealloc
  PROVE  IInv'
<1>1. /\ blocks = <<>> /\ blocks' = <<Plain("dealloc")>> /\ consumed' = {} /\ returns' = {}
      /\ result' = Nil /\ UNCHANGED <<resume, ivar>> /\ rc' = rc /\ dangling' = dangling
  BY DEF BeginDealloc
<1>2. rc \in [Objects -> Nat] /\ dangling = FALSE
  BY DEF IInv, TypeOK
<1>3. PICK b : b = Plain("dealloc")
  OBVIOUS
<1>4. /\ b \in OpenBlocks /\ b.vars = {} /\ b.kind = "dealloc" /\ b.last = "none" /\ Framed(b)
  <2>1. "dealloc" \in Kinds
    BY DEF Kinds
  <2> QED
    BY <1>3, <2>1, PlainFits
<1>5. blocks' = <<b>> /\ rc' \in [Objects -> Nat] /\ dangling' = FALSE
  BY <1>1, <1>2, <1>3
<1>6. \A o \in Objects : rc'[o] = OutsideIn(ivar, o) + Cardinality(OwnedIn(blocks', {}, 1, o))
  <2> SUFFICES ASSUME NEW o \in Objects
               PROVE  rc'[o] = OutsideIn(ivar, o) + Cardinality(OwnedIn(blocks', {}, 1, o))
    OBVIOUS
  <2>1. OwnedIn(blocks', {}, 1, o) = {}
    <3>1. \A d \in 1..1 : blocks'[d].vars = {}
      BY <1>4, <1>5
    <3> QED
      BY <3>1 DEF OwnedIn
  <2>2. Cardinality(OwnedIn(blocks', {}, 1, o)) = 0
    BY <2>1, FS_EmptySet
  <2>3. rc[o] = OutsideIn(ivar, o) /\ OutsideIn(ivar, o) \in Nat
    BY <1>1, EmptyCounts
  <2> QED
    BY <1>1, <2>2, <2>3
<1> QED
  BY <1>1, <1>4, <1>5, <1>6, Begins

(***************************************************************************)
(* The invariant                                                           *)
(***************************************************************************)
LEMMA Initially == Init => IInv
<1> SUFFICES ASSUME Init PROVE IInv
  OBVIOUS
<1>1. /\ blocks = <<>> /\ consumed = {} /\ returns = {} /\ resume = 0
      /\ rc = [o \in Objects |-> IF o \in Held THEN 1 ELSE 0]
      /\ ivar = [i \in Ivars |-> Nil] /\ result = Nil /\ dangling = FALSE /\ Nil \notin Objects
  BY ArcAssumption DEF Init
<1>2. Depth = 0 /\ Entered = 0 /\ Live
  BY <1>1 DEF Depth, Entered, Live
<1>3. \A d \in 1..0 : FALSE
  OBVIOUS
<1>4. TypeOK
  <2>1. blocks \in Seq(OpenBlocks) /\ resume \in 0..Depth
    BY <1>1, <1>2
  <2>2. rc \in [Objects -> Nat] /\ ivar \in [Ivars -> Objects \cup {Nil}]
    BY <1>1
  <2> QED
    BY <1>1, <2>1, <2>2 DEF TypeOK
<1>5. FramesExact /\ Nesting
  BY <1>2, <1>3 DEF FramesExact, Nesting
<1>6. ControlFlow
  BY <1>1, <1>2, <1>3 DEF ControlFlow
<1>7. CountsKept
  <2> SUFFICES ASSUME NEW o \in Objects
               PROVE  rc[o] = Outside(o) + Cardinality(Owned(Entered, o)) + Returned(o)
    BY DEF CountsKept
  <2>1. Owned(0, o) = {}
    BY <1>3 DEF Owned
  <2>2. {i \in Ivars : ivar[i] = o} = {}
    BY <1>1
  <2>3. Cardinality(Owned(Entered, o)) = 0 /\ Cardinality({i \in Ivars : ivar[i] = o}) = 0
    BY <1>2, <2>1, <2>2, FS_EmptySet
  <2>4. Returned(o) = 0
    BY <1>1 DEF Returned
  <2> QED
    BY <1>1, <2>3, <2>4 DEF Outside
<1> QED
  BY <1>1, <1>4, <1>5, <1>6, <1>7 DEF IInv

LEMMA StutterKeeps ==
  ASSUME IInv, UNCHANGED vars
  PROVE  IInv'
<1>1. /\ blocks' = blocks /\ consumed' = consumed /\ returns' = returns /\ resume' = resume
      /\ rc' = rc /\ ivar' = ivar /\ result' = result /\ dangling' = dangling
  BY DEF vars
<1>2. TypeOK' /\ FramesExact' /\ Nesting'
  BY <1>1, BlocksSame DEF IInv, TypeOK, Depth
<1>3. ControlFlow'
  BY <1>1 DEF IInv, ControlFlow, Depth, Live
<1>4. PICK k \in Int : k = Entered /\ k = Entered'
  BY <1>1, EnteredInt DEF IInv, Entered, Live, Depth
<1>5. \A o \in Objects :
        rc'[o] = OutsideIn(ivar', o) + Cardinality(OwnedIn(blocks', consumed', k, o))
                 + ReturnedIn(resume', returns', result', o)
  <2>1. CountsKept
    BY DEF IInv
  <2> QED
    BY <1>1, <1>4, <2>1, CountsNow
<1>6. CountsKept'
  BY <1>4, <1>5, CountsNext
<1> QED
  BY <1>1, <1>2, <1>3, <1>6 DEF IInv

LEMMA StatementKeeps ==
  ASSUME IInv, KeepsRules, Statement
  PROVE  IInv'
<1>1. CASE \E n \in Locals, e \in Exprs(DeclFrom) : Declare(n, e)
  BY <1>1, DeclareKeeps
<1>2. CASE \E n \in Locals \cup Params, e \in Exprs(AssignFrom) : Assign(n, e)
  BY <1>2, AssignKeeps
<1>3. CASE \E i \in Ivars, e \in Exprs(IvarFrom) : SetIvar(i, e)
  BY <1>3, SetIvarKeeps
<1>4. CASE \E n \in Locals \cup Params : ExplicitRelease(n) \/ Send(n)
  BY <1>4, ExplicitReleaseKeeps, SendKeeps
<1>5. CASE \E d \in JumpTargets : Jump(d)
  BY <1>5, JumpKeeps
<1>6. CASE \E e \in Exprs(ReturnOf) : Return(e)
  BY <1>6, ReturnKeeps
<1> QED
  BY <1>1, <1>2, <1>3, <1>4, <1>5, <1>6 DEF Statement

LEMMA StepKeeps ==
  ASSUME IInv, KeepsRules, [Next]_vars
  PROVE  IInv'
<1>1. CASE BeginMethod
  BY <1>1, BeginMethodKeeps
<1>2. CASE BeginDealloc
  BY <1>2, BeginDeallocKeeps
<1>3. CASE \E k \in BlockKinds : OpenBlock(k)
  BY <1>3, OpenBlockKeeps
<1>4. CASE OpenSwitch
  BY <1>4, OpenSwitchKeeps
<1>5. CASE \E n \in Locals : OpenForIn(n)
  BY <1>5, OpenForInKeeps
<1>6. CASE \E n \in Syncs : OpenSync(n)
  BY <1>6, OpenSyncKeeps
<1>7. CASE Statement
  BY <1>7, StatementKeeps
<1>8. CASE Close
  BY <1>8, CloseKeeps
<1>9. CASE Else
  BY <1>9, ElseKeeps
<1>10. CASE EndMethod
  BY <1>10, EndMethodKeeps
<1>11. CASE EndDealloc
  BY <1>11, EndDeallocKeeps
<1>12. CASE UNCHANGED vars
  BY <1>12, StutterKeeps
<1> QED
  BY <1>1, <1>2, <1>3, <1>4, <1>5, <1>6, <1>7, <1>8, <1>9, <1>10, <1>11, <1>12 DEF Next

LEMMA CountsFollow ==
  ASSUME IInv
  PROVE  CountsExact
<1>1. ~dangling
  BY DEF IInv
<1>2. ASSUME Live, NEW o \in Objects PROVE rc[o] = Owners(o)
  <2>1. /\ OutsideIn(ivar, o) \in Nat
        /\ rc[o] = OutsideIn(ivar, o) + Cardinality(OwnedIn(blocks, consumed, Depth, o))
    BY <1>2, LiveCounts
  <2> QED
    BY <2>1 DEF Owners, Outside, Owned, OutsideIn, OwningIvars, OwnedIn
<1> QED
  BY <1>1, <1>2 DEF CountsExact

\* The frames that the emitter keeps are the variables of the C code, control
\* comes back only to the end of a block that the walk is still in, and every
\* count is that of the owners that control has not left, at every step of the
\* walk over a method of any length and nesting (_emit_stmt and the functions
\* it calls).
THEOREM Invariance == KeepsRules => (Spec => []IInv)
<1> SUFFICES ASSUME KeepsRules PROVE Spec => []IInv
  OBVIOUS
<1>1. Init => IInv
  BY Initially
<1>2. IInv /\ [Next]_vars => IInv'
  BY StepKeeps
<1> QED
  BY <1>1, <1>2, PTL DEF Spec

\* For programs that keep the rules, with any number of objects, variables and
\* ivars, the retain and release calls that the transpiler inserts keep every
\* count equal to the number of owners: nothing leaks, nothing is freed while it
\* has an owner, and no call is sent to free memory (_emit_compound_stmt,
\* _emit_return_stmt, _emit_break_continue_releases, _emit_strong_local_assign,
\* _emit_strong_ivar_assign).
THEOREM RetainsAndReleases == KeepsRules => (Spec => []CountsExact)
<1> SUFFICES ASSUME KeepsRules PROVE Spec => []CountsExact
  OBVIOUS
<1>1. Spec => []IInv
  BY Invariance
<1>2. IInv => CountsExact
  BY CountsFollow
<1> QED
  BY <1>1, <1>2, PTL
================================================================================

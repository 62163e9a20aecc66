----------------------------- MODULE OZBuildProofs -----------------------------
(***************************************************************************)
(* Proofs about OZCycles and OZPools: the check of retain cycles is exact  *)
(* for programs with any number of files and classes, and the pools are as *)
(* large as what a program with any number of functions takes.             *)
(***************************************************************************)
EXTENDS OZBuildChecks, OZNaturals, SequenceTheorems, TLAPS

(***************************************************************************)
(* Closures                                                                *)
(***************************************************************************)
LEMMA ClosureFacts ==
  ASSUME NEW U, NEW S \in SUBSET U, NEW N, \A x \in U : N[x] \subseteq U
  PROVE  /\ S \subseteq Closure(U, S, N)
         /\ Closure(U, S, N) \subseteq U
         /\ \A x \in Closure(U, S, N) : N[x] \subseteq Closure(U, S, N)
BY DEF Closure

LEMMA ClosureLeast ==
  ASSUME NEW U, NEW S, NEW N, NEW T \in SUBSET U,
         S \subseteq T, \A x \in T : N[x] \subseteq T
  PROVE  Closure(U, S, N) \subseteq T
BY DEF Closure

LEMMA Slice ==
  ASSUME NEW S, NEW s \in Seq(S), NEW a \in 1..Len(s), NEW b \in 0..Len(s), a <= b + 1
  PROVE  /\ SubSeq(s, a, b) \in Seq(S) /\ Len(SubSeq(s, a, b)) = b - a + 1
         /\ \A i \in 1..(b - a + 1) : SubSeq(s, a, b)[i] = s[a + i - 1]
<1>1. a \in Int /\ b \in Int
  OBVIOUS
<1>2. \A i \in a..b : s[i] \in S
  OBVIOUS
<1>3. /\ SubSeq(s, a, b) \in Seq(S) /\ Len(SubSeq(s, a, b)) = IF a <= b THEN b - a + 1 ELSE 0
      /\ \A i \in 1..(b - a + 1) : SubSeq(s, a, b)[i] = s[a + i - 1]
  BY <1>1, <1>2, SubSeqProperties
<1> QED
  BY <1>3

LEMMA Prefix ==
  ASSUME NEW S, NEW s \in Seq(S), NEW b \in 0..Len(s)
  PROVE  /\ SubSeq(s, 1, b) \in Seq(S) /\ Len(SubSeq(s, 1, b)) = b
         /\ \A i \in 1..b : SubSeq(s, 1, b)[i] = s[i]
<1>1. 1 \in Int /\ b \in Int
  OBVIOUS
<1>2. \A i \in 1..b : s[i] \in S
  OBVIOUS
<1>3. /\ SubSeq(s, 1, b) \in Seq(S) /\ Len(SubSeq(s, 1, b)) = IF 1 <= b THEN b - 1 + 1 ELSE 0
      /\ \A i \in 1..(b - 1 + 1) : SubSeq(s, 1, b)[i] = s[1 + i - 1]
  BY <1>1, <1>2, SubSeqProperties
<1> QED
  BY <1>3

(***************************************************************************)
(* The sources                                                             *)
(***************************************************************************)
SourceFacts ==
  /\ code.sources \subseteq code.files
  /\ \A f \in code.files : code.interfaces[f] \in Seq(Interfaces(code.files))
  /\ \A i \in Interfaces(code.files) : i.name \in code.classes

\* A class from which a class of the Foundation may inherit.
Bare(j) == j.name \in Foundation \/ (j.fields = {} /\ j.super \notin code.classes)

FoundationFacts ==
  \A i \in Interfaces(code.files) : i.name \in Foundation =>
    /\ \A field \in i.fields : field.kind = "unretained"
    /\ \A j \in Interfaces(code.files) : j.name = i.super => Bare(j)

LEMMA FactsOfSources ==
  ASSUME code \in Sources
  PROVE  SourceFacts /\ FoundationFacts
BY SourcesAssumption DEF SourceFacts, FoundationFacts, Bare, Interfaces

LEMMA InterfacesGrow ==
  ASSUME NEW F, NEW G, F \subseteq G
  PROVE  Interfaces(F) \subseteq Interfaces(G)
BY DEF Interfaces

LEMMA ImportedFacts ==
  ASSUME SourceFacts
  PROVE  /\ code.sources \subseteq Imported
         /\ Imported \subseteq code.files
         /\ \A f \in Imported : Resolved(f) \subseteq Imported
<1> DEFINE N == [f \in code.files |-> Imports(f)]
<1>1. \A f \in code.files : N[f] \subseteq code.files
  BY DEF Imports
<1>2. code.sources \in SUBSET code.files
  BY DEF SourceFacts
<1>3. Imported = Closure(code.files, code.sources, N)
  BY DEF Imported
<1>4. \A f \in code.files : N[f] = Imports(f)
  OBVIOUS
<1>5. \A f \in code.files : Resolved(f) \subseteq Imports(f)
  BY DEF Resolved, Imports
<1> HIDE DEF N
<1> QED
  BY <1>1, <1>2, <1>3, <1>4, <1>5, ClosureFacts

(***************************************************************************)
(* Finding the files                                                       *)
(***************************************************************************)
FilesInv ==
  /\ code \in Sources
  /\ allFiles \subseteq Imported
  /\ pass = "files" =>
       /\ unread = <<>>
       /\ queue \subseteq Imported /\ code.sources \subseteq allFiles \cup queue
       /\ \A f \in allFiles : Resolved(f) \subseteq allFiles \cup queue
  /\ pass # "files" =>
       code.sources \subseteq allFiles /\ \A f \in allFiles : Resolved(f) \subseteq allFiles

\* If all imports are quoted the files that are found are those that the program has.
LEMMA AllImported ==
  ASSUME FilesInv, pass # "files",
         \A f \in code.files : \A i \in code.imports[f] : i.quoted
  PROVE  allFiles = Imported
<1>1. SourceFacts
  BY FactsOfSources DEF FilesInv
<1> DEFINE N == [f \in code.files |-> Imports(f)]
<1>2. \A f \in code.files : N[f] = Resolved(f)
  BY DEF Resolved, Imports
<1>3. Imported = Closure(code.files, code.sources, N)
  BY DEF Imported
<1> HIDE DEF N
<1>4. allFiles \in SUBSET code.files
  BY <1>1, ImportedFacts DEF FilesInv
<1>5. code.sources \subseteq allFiles /\ \A f \in allFiles : N[f] \subseteq allFiles
  BY <1>2, <1>4 DEF FilesInv
<1>6. Closure(code.files, code.sources, N) \subseteq allFiles
  BY <1>4, <1>5, ClosureLeast
<1> QED
  BY <1>3, <1>6 DEF FilesInv

(***************************************************************************)
(* Reading the interfaces                                                  *)
(***************************************************************************)
\* What is known of an interface that has been read.
HasRead(i) ==
  i.name \in Foundation \/ (i.name \in DOMAIN superOf /\ StrongRefs(i) \subseteq strong[i.name])

Unread(i) ==
  \/ \E f \in queue : i \in Range(code.interfaces[f])
  \/ i \in Range(unread)

ReadInv ==
  /\ strong \in [code.classes -> SUBSET code.classes]
  /\ \A c \in code.classes : \A d \in strong[c] :
       c \notin Foundation /\ \E i \in Interfaces(allFiles) : i.name = c /\ d \in StrongRefs(i)
  /\ \A x \in DOMAIN superOf :
       x \notin Foundation /\ \E i \in Interfaces(allFiles) : i.name = x /\ i.super = superOf[x]
  /\ pass = "files" => (\A c \in code.classes : strong[c] = {}) /\ DOMAIN superOf = {}
  /\ pass = "read" =>
       /\ queue \subseteq allFiles /\ unread \in Seq(Interfaces(allFiles))
       /\ \A i \in Interfaces(allFiles) : Unread(i) \/ HasRead(i)
  /\ pass \in {"dfs", "done"} => \A i \in Interfaces(allFiles) : HasRead(i)

LEMMA PopFileKeeps ==
  ASSUME FilesInv, ReadInv, PopFile
  PROVE  FilesInv' /\ ReadInv'
<1>1. SourceFacts
  BY FactsOfSources DEF FilesInv
<1>2. PICK f \in queue : /\ allFiles' = allFiles \cup {f}
                         /\ queue' = (queue \ {f}) \cup (Resolved(f) \ (allFiles \cup {f}))
  BY DEF PopFile
<1>3. /\ pass = "files" /\ pass' = pass /\ code' = code
      /\ unread' = unread /\ strong' = strong /\ superOf' = superOf
  BY DEF PopFile, Skip
<1>4. Imported' = Imported /\ \A g : Resolved(g)' = Resolved(g)
  BY <1>3 DEF Imported, Imports, Resolved
<1>5. f \in Imported /\ Resolved(f) \subseteq Imported
  BY <1>1, <1>3, ImportedFacts DEF FilesInv
<1>6. FilesInv'
  BY <1>2, <1>3, <1>4, <1>5 DEF FilesInv
<1>7. ReadInv'
  BY <1>3 DEF ReadInv
<1> QED
  BY <1>6, <1>7

LEMMA FilesFoundKeeps ==
  ASSUME FilesInv, ReadInv, FilesFound
  PROVE  FilesInv' /\ ReadInv'
<1>1. /\ pass = "files" /\ pass' = "read" /\ code' = code /\ queue = {} /\ queue' = allFiles
      /\ allFiles' = allFiles /\ unread' = unread /\ strong' = strong /\ superOf' = superOf
  BY DEF FilesFound, Skip
<1>2. Imported' = Imported /\ \A g : Resolved(g)' = Resolved(g)
  BY <1>1 DEF Imported, Imports, Resolved
<1>3. FilesInv'
  BY <1>1, <1>2 DEF FilesInv
<1>4. unread' \in Seq(Interfaces(allFiles))
  BY <1>1 DEF FilesInv
<1>5. \A i \in Interfaces(allFiles) : Unread(i)'
  BY <1>1 DEF Unread, Interfaces
<1>6. Interfaces(allFiles)' = Interfaces(allFiles)
  BY <1>1 DEF Interfaces
<1>7. ReadInv'
  BY <1>1, <1>4, <1>5, <1>6 DEF ReadInv
<1> QED
  BY <1>3, <1>7

\* Steps that read no more files leave what is known of them.
LEMMA FilesStay ==
  ASSUME FilesInv, pass # "files", pass' # "files", code' = code, allFiles' = allFiles
  PROVE  /\ FilesInv'
         /\ Interfaces(allFiles)' = Interfaces(allFiles)
         /\ \A i : StrongRefs(i)' = StrongRefs(i)
<1>1. Imported' = Imported /\ \A g : Resolved(g)' = Resolved(g)
  BY DEF Imported, Imports, Resolved
<1>2. Interfaces(allFiles)' = Interfaces(allFiles)
  BY DEF Interfaces
<1>3. \A i : StrongRefs(i)' = StrongRefs(i)
  BY <1>2 DEF StrongRefs, Known
<1> QED
  BY <1>1, <1>2, <1>3 DEF FilesInv

LEMMA ReadFileKeeps ==
  ASSUME FilesInv, ReadInv, ReadFile
  PROVE  FilesInv' /\ ReadInv'
<1>1. /\ pass = "read" /\ pass' = "read" /\ code' = code /\ unread = <<>>
      /\ allFiles' = allFiles /\ strong' = strong /\ superOf' = superOf
  BY DEF ReadFile, Skip
<1>2. PICK f \in queue : queue' = queue \ {f} /\ unread' = code.interfaces[f]
  BY DEF ReadFile
<1>3. /\ FilesInv' /\ Interfaces(allFiles)' = Interfaces(allFiles)
      /\ \A i : StrongRefs(i)' = StrongRefs(i)
  BY <1>1, FilesStay
<1>4. f \in allFiles /\ f \in code.files
  BY <1>1, <1>2, FactsOfSources, ImportedFacts DEF FilesInv, ReadInv
<1>5. unread' \in Seq(Interfaces(allFiles))
  <2>1. code.interfaces[f] \in Seq(Interfaces(code.files))
    BY <1>4, FactsOfSources DEF FilesInv, SourceFacts
  <2>2. \A k \in 1..Len(code.interfaces[f]) : code.interfaces[f][k] \in Interfaces(allFiles)
    BY <1>4, <2>1 DEF Interfaces, Range
  <2> QED
    BY <1>2, <2>1, <2>2
<1>6. \A i \in Interfaces(allFiles) : Unread(i)' \/ HasRead(i)'
  <2>1. ASSUME NEW i \in Interfaces(allFiles)
        PROVE  Unread(i)' \/ HasRead(i)'
    <3>1. i \notin Range(unread)
      BY <1>1 DEF Range
    <3>2. HasRead(i) => HasRead(i)'
      BY <1>1, <1>3 DEF HasRead
    <3>3. Unread(i) => Unread(i)'
      BY <1>1, <1>2, <3>1 DEF Unread
    <3> QED
      BY <1>1, <3>2, <3>3 DEF ReadInv
  <2> QED
    BY <2>1
<1>7. queue' \subseteq allFiles
  BY <1>1, <1>2 DEF ReadInv
<1>8. ReadInv'
  BY <1>1, <1>3, <1>5, <1>6, <1>7 DEF ReadInv
<1> QED
  BY <1>3, <1>8

LEMMA CollectKeeps ==
  ASSUME FilesInv, ReadInv, CollectInterface
  PROVE  FilesInv' /\ ReadInv'
<1>0. PICK i : i = Head(unread)
  OBVIOUS
<1>1. /\ pass = "read" /\ pass' = "read" /\ code' = code /\ allFiles' = allFiles
      /\ queue' = queue /\ unread # <<>> /\ unread' = Tail(unread)
  BY DEF CollectInterface
<1>2. /\ FilesInv' /\ Interfaces(allFiles)' = Interfaces(allFiles)
      /\ \A j : StrongRefs(j)' = StrongRefs(j)
  BY <1>1, FilesStay
<1>3. unread \in Seq(Interfaces(allFiles))
  BY <1>1 DEF ReadInv
<1>4. /\ i \in Interfaces(allFiles) /\ unread' \in Seq(Interfaces(allFiles))
      /\ \A k \in 1..Len(unread) : unread[k] = i \/ unread[k] \in Range(unread')
  <2>1. /\ unread[1] = i /\ Len(unread') = Len(unread) - 1 /\ Len(unread) >= 1
        /\ \A k \in 1..Len(unread') : unread'[k] = unread[k + 1]
    BY <1>0, <1>1, <1>3
  <2>2. i \in Interfaces(allFiles) /\ unread' \in Seq(Interfaces(allFiles))
    BY <1>0, <1>1, <1>3
  <2>3. ASSUME NEW k \in 1..Len(unread), k # 1
        PROVE  unread[k] \in Range(unread')
    <3>1. k - 1 \in 1..Len(unread') /\ unread'[k - 1] = unread[k]
      BY <1>3, <2>1, <2>3
    <3> QED
      BY <2>2, <3>1 DEF Range
  <2> QED
    BY <2>1, <2>2, <2>3
<1>5. i.name \in code.classes
  <2>1. allFiles \subseteq code.files
    BY FactsOfSources, ImportedFacts DEF FilesInv
  <2> QED
    BY <1>4, <2>1, FactsOfSources, InterfacesGrow DEF FilesInv, SourceFacts
<1>6. StrongRefs(i) \subseteq code.classes
  <2>1. allFiles \subseteq code.files
    BY FactsOfSources, ImportedFacts DEF FilesInv
  <2>2. Known \subseteq code.classes
    BY <2>1, FactsOfSources, InterfacesGrow DEF FilesInv, SourceFacts, Known
  <2> QED
    BY <2>2 DEF StrongRefs
<1>7. \/ i.name \in Foundation /\ superOf' = superOf /\ strong' = strong
      \/ /\ i.name \notin Foundation
         /\ superOf' = [c \in DOMAIN superOf \cup {i.name} |->
                          IF c \in DOMAIN superOf THEN superOf[c] ELSE i.super]
         /\ strong' = [strong EXCEPT ![i.name] = @ \cup StrongRefs(i)]
  BY <1>0 DEF CollectInterface
<1>8. \A j \in Interfaces(allFiles) : Unread(j) => Unread(j)' \/ j = i
  BY <1>1, <1>3, <1>4 DEF Unread, Range
<1>9. strong' \in [code.classes -> SUBSET code.classes]
  BY <1>5, <1>6, <1>7 DEF ReadInv
<1>10. /\ HasRead(i)'
       /\ \A j \in Interfaces(allFiles) : HasRead(j) => HasRead(j)'
  <2>1. \A j : HasRead(j)' <=> (j.name \in Foundation \/ (j.name \in DOMAIN superOf'
                                 /\ StrongRefs(j) \subseteq strong'[j.name]))
    BY <1>2 DEF HasRead
  <2>2. CASE i.name \in Foundation
    BY <1>7, <2>1, <2>2 DEF HasRead
  <2>3. CASE i.name \notin Foundation
    <3>1. DOMAIN superOf' = DOMAIN superOf \cup {i.name}
      BY <1>7, <2>3
    <3>2. /\ strong'[i.name] = strong[i.name] \cup StrongRefs(i)
          /\ \A c \in code.classes \ {i.name} : strong'[c] = strong[c]
      BY <1>5, <1>7, <2>3 DEF ReadInv
    <3>3. \A x \in DOMAIN superOf : x \in code.classes
      <4>1. \A x \in DOMAIN superOf : \E j \in Interfaces(allFiles) : j.name = x
        BY DEF ReadInv
      <4>2. allFiles \subseteq code.files
        BY FactsOfSources, ImportedFacts DEF FilesInv
      <4> QED
        BY <4>1, <4>2, FactsOfSources, InterfacesGrow DEF FilesInv, SourceFacts
    <3> QED
      BY <2>1, <3>1, <3>2, <3>3 DEF HasRead
  <2> QED
    BY <2>2, <2>3
<1>11. \A j \in Interfaces(allFiles) : Unread(j)' \/ HasRead(j)'
  BY <1>1, <1>8, <1>10 DEF ReadInv
<1>12. \A c \in code.classes : \A d \in strong'[c] :
         c \notin Foundation /\ \E j \in Interfaces(allFiles) : j.name = c /\ d \in StrongRefs(j)
  BY <1>4, <1>5, <1>7 DEF ReadInv
<1>13. \A x \in DOMAIN superOf' :
         x \notin Foundation /\ \E j \in Interfaces(allFiles) : j.name = x /\ j.super = superOf'[x]
  BY <1>4, <1>7 DEF ReadInv
<1> QED
  BY <1>1, <1>2, <1>4, <1>9, <1>11, <1>12, <1>13 DEF ReadInv

\* Once all interfaces are read what is known of them stays.
LEMMA ReadStays ==
  ASSUME FilesInv, ReadInv, pass \in {"read", "dfs"}, pass' \in {"dfs", "done"},
         pass = "read" => queue = {} /\ unread = <<>>,
         code' = code, allFiles' = allFiles, superOf' = superOf, strong' = strong
  PROVE  FilesInv' /\ ReadInv'
<1>1. /\ FilesInv' /\ Interfaces(allFiles)' = Interfaces(allFiles)
      /\ \A i : StrongRefs(i)' = StrongRefs(i)
  BY FilesStay
<1>2. \A i \in Interfaces(allFiles) : HasRead(i)
  <2>1. CASE pass = "read"
    <3>1. \A i : ~Unread(i)
      BY <2>1 DEF Unread, Range
    <3> QED
      BY <2>1, <3>1 DEF ReadInv
  <2> QED
    BY <2>1 DEF ReadInv
<1>3. \A i \in Interfaces(allFiles) : HasRead(i)'
  BY <1>1, <1>2 DEF HasRead
<1> QED
  BY <1>1, <1>3 DEF ReadInv

(***************************************************************************)
(* The search                                                              *)
(***************************************************************************)
Edges == [code.classes -> SUBSET code.classes]

LEMMA ReferencesFit ==
  ASSUME ReadInv, NEW c \in code.classes
  PROVE  References(c) \subseteq code.classes
<1> DEFINE U == [x \in code.classes |->
                   IF x \in DOMAIN superOf THEN {superOf[x]} \cap code.classes ELSE {}]
<1>1. \A x \in code.classes : U[x] \subseteq code.classes
  OBVIOUS
<1>2. U[c] \in SUBSET code.classes
  BY <1>1
<1>3. Inherited(c) = UNION {strong[a] : a \in Closure(code.classes, U[c], U)}
  BY DEF Inherited
<1> HIDE DEF U
<1>4. Closure(code.classes, U[c], U) \subseteq code.classes
  BY <1>1, <1>2, ClosureFacts
<1> QED
  BY <1>3, <1>4 DEF References, ReadInv

LEMMA NoReferences ==
  ASSUME ReadInv, NEW c \in code.classes, \A x \in code.classes : strong[x] = {}
  PROVE  References(c) = {}
<1> DEFINE U == [x \in code.classes |->
                   IF x \in DOMAIN superOf THEN {superOf[x]} \cap code.classes ELSE {}]
<1>1. \A x \in code.classes : U[x] \subseteq code.classes
  OBVIOUS
<1>2. U[c] \in SUBSET code.classes
  BY <1>1
<1>3. Inherited(c) = UNION {strong[a] : a \in Closure(code.classes, U[c], U)}
  BY DEF Inherited
<1> HIDE DEF U
<1>4. Closure(code.classes, U[c], U) \subseteq code.classes
  BY <1>1, <1>2, ClosureFacts
<1> QED
  BY <1>3, <1>4 DEF References

\* The path is one of the graph, and the grey classes are those on it.
PathExact ==
  /\ path \in Seq(code.classes)
  /\ \A i, j \in 1..Len(path) : path[i] = path[j] => i = j
  /\ \A c \in code.classes : color[c] = Gray <=> \E i \in 1..Len(path) : path[i] = c
  /\ \A i \in 1..Len(path) : i + 1 <= Len(path) => path[i + 1] \in graph[path[i]]

\* d follows c on the path.
Follow(c, d) == \E i \in 1..Len(path) : i + 1 <= Len(path) /\ path[i] = c /\ path[i + 1] = d

\* What the search has looked at is black, or next on the path.
LookedAt ==
  /\ \A c \in code.classes : left[c] \subseteq graph[c]
  /\ \A c \in code.classes : color[c] = White => left[c] = graph[c]
  /\ \A c \in code.classes : color[c] = Black => left[c] = {}
  /\ cycles = {} => \A c \in code.classes : \A d \in graph[c] \ left[c] :
                      color[d] = Black \/ Follow(c, d)

\* A set of classes each of which refers to one of them.
Round(T, refs) == T # {} /\ \A c \in T : refs[c] \cap T # {}

BlackOnes == {c \in code.classes : color[c] = Black}

\* Unless a cycle was found there is none among the black classes.
NoBlackRound == cycles = {} => \A T \in SUBSET BlackOnes : ~Round(T, graph)

SearchTyped ==
  /\ graph \in Edges /\ left \in Edges
  /\ color \in [code.classes -> {White, Gray, Black}]
  /\ White # Gray /\ White # Black /\ Gray # Black

Searches == SearchTyped /\ PathExact /\ LookedAt /\ NoBlackRound

\* What a reported cycle is.
IsCycle(s, refs) ==
  /\ s \in Seq(code.classes) /\ IsInjective(s)
  /\ \A i \in DOMAIN s : s[(i % Len(s)) + 1] \in refs[s[i]]

SearchInv ==
  /\ pass \in {"files", "read"} => cycles = {} /\ path = <<>>
  /\ pass = "dfs" => Searches /\ graph = [c \in code.classes |-> References(c)]
  /\ pass \in {"dfs", "done"} =>
       \A s \in cycles : IsCycle(s, [c \in code.classes |-> References(c)])
  /\ pass = "done" /\ cycles = {} =>
       \A T \in SUBSET code.classes : ~Round(T, [c \in code.classes |-> References(c)])

\* A white class is entered: it is the end of the path, and left of its predecessor.
LEMMA EnterKeeps ==
  ASSUME Searches, NEW n \in code.classes, color[n] = White, Enter(n),
         code' = code, graph' = graph, cycles' = cycles,
         \/ path = <<>> /\ left' = left
         \/ /\ path # <<>> /\ n \in left[path[Len(path)]]
            /\ left' = [left EXCEPT ![path[Len(path)]] = @ \ {n}]
  PROVE  Searches'
<1> DEFINE N == Len(path)
<1>1. /\ N \in Nat /\ path \in Seq(code.classes)
      /\ color' = [color EXCEPT ![n] = Gray] /\ path' = Append(path, n)
  BY DEF Enter, Searches, PathExact
<1>2. /\ path' \in Seq(code.classes) /\ Len(path') = N + 1 /\ path'[N + 1] = n
      /\ \A i \in 1..N : path'[i] = path[i] /\ path[i] \in code.classes
  BY <1>1
<1>3. /\ color' \in [code.classes -> {White, Gray, Black}] /\ color'[n] = Gray
      /\ \A c \in code.classes \ {n} : color'[c] = color[c]
  BY <1>1 DEF Searches, SearchTyped
<1>4. left' \in Edges /\ \A c \in code.classes : left'[c] \subseteq left[c]
  BY DEF Searches, SearchTyped, Edges
<1>5. N > 0 => /\ path[N] \in code.classes /\ path[N] # n /\ n \in graph[path[N]]
               /\ left'[path[N]] = left[path[N]] \ {n}
  <2>1. N > 0 => path[N] \in code.classes /\ color[path[N]] = Gray /\ path # <<>>
    BY <1>1, <1>2 DEF Searches, PathExact
  <2> QED
    BY <2>1 DEF Searches, SearchTyped, LookedAt, Edges
<1>6. /\ N = 0 => left' = left
      /\ \A c \in code.classes : (N > 0 => c # path[N]) => left'[c] = left[c]
  BY <1>1 DEF Searches, SearchTyped, Edges
<1>7. SearchTyped'
  BY <1>3, <1>4 DEF Searches, SearchTyped, Edges
<1>8. \A i \in 1..N : path[i] # n
  BY <1>2 DEF Searches, SearchTyped, PathExact
<1>9. PathExact'
  <2>1. \A i, j \in 1..(N + 1) : path'[i] = path'[j] => i = j
    BY <1>1, <1>2, <1>8 DEF Searches, PathExact
  <2>2. \A c \in code.classes : color'[c] = Gray <=> \E i \in 1..(N + 1) : path'[i] = c
    <3>1. ASSUME NEW c \in code.classes
          PROVE  color'[c] = Gray <=> \E i \in 1..(N + 1) : path'[i] = c
      <4>1. CASE c = n
        BY <1>1, <1>2, <1>3, <4>1
      <4>2. CASE c # n
        <5>1. color'[c] = Gray <=> \E i \in 1..N : path[i] = c
          BY <1>3, <4>2 DEF Searches, PathExact
        <5> QED
          BY <1>1, <1>2, <4>2, <5>1
      <4> QED
        BY <4>1, <4>2
    <3> QED
      BY <3>1
  <2>3. \A i \in 1..(N + 1) : i + 1 <= N + 1 => path'[i + 1] \in graph[path'[i]]
    BY <1>1, <1>2, <1>5 DEF Searches, PathExact
  <2> QED
    BY <1>2, <2>1, <2>2, <2>3 DEF PathExact
<1>10. \A c, d : Follow(c, d) => Follow(c, d)'
  BY <1>1, <1>2 DEF Follow
<1>11. LookedAt'
  <2>1. \A c \in code.classes : left'[c] \subseteq graph[c]
    BY <1>4 DEF Searches, LookedAt
  <2>2. \A c \in code.classes : color'[c] = White => left'[c] = graph[c]
    <3>1. ASSUME NEW c \in code.classes, color'[c] = White
          PROVE  left'[c] = graph[c]
      <4>1. c # n /\ color[c] = White
        BY <1>3, <3>1 DEF Searches, SearchTyped
      <4>2. N > 0 => color[path[N]] = Gray
        BY <1>1, <1>2 DEF Searches, PathExact
      <4>3. N > 0 => c # path[N]
        BY <4>1, <4>2 DEF Searches, SearchTyped
      <4> QED
        BY <1>6, <4>1, <4>3 DEF Searches, LookedAt
    <3> QED
      BY <3>1
  <2>3. \A c \in code.classes : color'[c] = Black => left'[c] = {}
    <3>1. ASSUME NEW c \in code.classes, color'[c] = Black
          PROVE  left'[c] = {}
      <4>1. color[c] = Black
        BY <1>3, <3>1 DEF Searches, SearchTyped
      <4> QED
        BY <1>4, <4>1 DEF Searches, LookedAt
    <3> QED
      BY <3>1
  <2>4. ASSUME cycles = {}, NEW c \in code.classes, NEW d \in graph[c] \ left'[c]
        PROVE  color'[d] = Black \/ Follow(c, d)'
    <3>0. d \in code.classes
      BY DEF Searches, SearchTyped, Edges
    <3>1. CASE d \in left[c]
      <4>1. N > 0 /\ c = path[N] /\ d = n
        BY <1>1, <1>5, <1>6, <2>4, <3>1
      <4> QED
        BY <1>1, <1>2, <4>1 DEF Follow
    <3>2. CASE d \notin left[c]
      <4>1. color[d] = Black \/ Follow(c, d)
        BY <2>4, <3>2 DEF Searches, LookedAt
      <4>2. color[d] = Black => d # n
        BY DEF Searches, SearchTyped
      <4> QED
        BY <1>3, <1>10, <3>0, <4>1, <4>2
    <3> QED
      BY <3>1, <3>2
  <2> QED
    BY <2>1, <2>2, <2>3, <2>4 DEF LookedAt
<1>12. NoBlackRound'
  <2>1. BlackOnes' = BlackOnes
    BY <1>3 DEF BlackOnes, Searches, SearchTyped
  <2> QED
    BY <2>1 DEF Searches, NoBlackRound, Round
<1> QED
  BY <1>7, <1>9, <1>11, <1>12 DEF Searches

\* Only what is left of the end of the path changes: the search looked at a class that
\* it has left, or found a cycle.
LEMMA LookKeeps ==
  ASSUME Searches, path # <<>>, NEW n \in left[path[Len(path)]],
         code' = code, graph' = graph, color' = color, path' = path,
         left' = [left EXCEPT ![path[Len(path)]] = @ \ {n}],
         (color[n] = Black /\ cycles' = cycles) \/ cycles' # {}
  PROVE  Searches'
<1>1. Len(path) \in Nat /\ Len(path) > 0 /\ path[Len(path)] \in code.classes
  BY DEF Searches, PathExact
<1>2. color[path[Len(path)]] = Gray
  BY <1>1 DEF Searches, PathExact
<1>3. /\ left' \in Edges /\ \A c \in code.classes : left'[c] \subseteq left[c]
      /\ \A c \in code.classes : color[c] # Gray => left'[c] = left[c]
      /\ \A c \in code.classes : left[c] \subseteq left'[c] \cup {n}
  BY <1>1, <1>2 DEF Searches, SearchTyped, Edges
<1>4. SearchTyped' /\ PathExact'
  BY <1>3 DEF Searches, SearchTyped, PathExact, Edges
<1>5. LookedAt'
  <2>1. \A c \in code.classes : left'[c] \subseteq graph[c]
    BY <1>3 DEF Searches, LookedAt
  <2>2. \A c \in code.classes : color'[c] = White => left'[c] = graph[c]
    BY <1>3 DEF Searches, SearchTyped, LookedAt
  <2>3. \A c \in code.classes : color'[c] = Black => left'[c] = {}
    BY <1>3 DEF Searches, SearchTyped, LookedAt
  <2>4. ASSUME cycles' = {}, NEW c \in code.classes, NEW d \in graph[c] \ left'[c]
        PROVE  color'[d] = Black \/ Follow(c, d)'
    <3>1. CASE d = n
      BY <2>4, <3>1
    <3>2. CASE d # n
      <4>1. cycles = {} /\ d \notin left[c]
        BY <1>3, <2>4, <3>2
      <4> QED
        BY <4>1 DEF Searches, LookedAt, Follow
    <3> QED
      BY <3>1, <3>2
  <2> QED
    BY <2>1, <2>2, <2>3, <2>4 DEF LookedAt
<1>6. NoBlackRound'
  BY DEF Searches, NoBlackRound, BlackOnes, Round
<1> QED
  BY <1>4, <1>5, <1>6 DEF Searches

\* The path from a grey class on, to which its end refers, is a cycle.
LEMMA CycleFound ==
  ASSUME Searches, path # <<>>, NEW n \in graph[path[Len(path)]], color[n] = Gray,
         n \in code.classes
  PROVE  IsCycle(CycleTo(n), graph)
<1> DEFINE N == Len(path)
           k == CHOOSE i \in DOMAIN path : path[i] = n
           s == SubSeq(path, k, N)
<1>1. path \in Seq(code.classes) /\ N \in Nat /\ DOMAIN path = 1..N
  BY DEF Searches, PathExact
<1>2. k \in 1..N /\ path[k] = n
  <2>1. \E i \in DOMAIN path : path[i] = n
    BY <1>1 DEF Searches, PathExact
  <2> QED
    BY <1>1, <2>1
<1> HIDE DEF k
<1>3. /\ s \in Seq(code.classes) /\ Len(s) = N - k + 1 /\ DOMAIN s = 1..(N - k + 1)
      /\ \A i \in 1..(N - k + 1) : s[i] = path[k + i - 1]
  <2>1. k \in 1..Len(path) /\ N \in 0..Len(path) /\ k <= N + 1
    BY <1>1, <1>2
  <2>2. /\ SubSeq(path, k, N) \in Seq(code.classes) /\ Len(SubSeq(path, k, N)) = N - k + 1
        /\ \A i \in 1..(N - k + 1) : SubSeq(path, k, N)[i] = path[k + i - 1]
    <3> HIDE DEF N
    <3> QED
      BY <1>1, <2>1, Slice
  <2> QED
    BY <1>1, <1>2, <2>2
<1> HIDE DEF s
<1>4. IsInjective(s)
  <2>1. ASSUME NEW i \in 1..(N - k + 1), NEW j \in 1..(N - k + 1), s[i] = s[j]
        PROVE  i = j
    <3>1. k + i - 1 \in 1..N /\ k + j - 1 \in 1..N
      BY <1>1, <1>2
    <3>2. k + i - 1 = k + j - 1
      BY SMTT(60), <1>3, <2>1, <3>1 DEF Searches, PathExact
    <3> QED
      BY <1>1, <1>2, <3>2
  <2> QED
    BY <1>3, <2>1 DEF IsInjective
<1>5. ASSUME NEW i \in 1..(N - k + 1)
      PROVE  s[(i % Len(s)) + 1] \in graph[s[i]]
  <2>1. CASE i = N - k + 1
    <3>1. s[i] = path[N]
      BY <1>1, <1>2, <1>3, <2>1
    <3>2. i % Len(s) = 0
      BY <1>1, <1>2, <1>3, <2>1
    <3>3. s[1] = n
      BY <1>1, <1>2, <1>3
    <3> QED
      BY <3>1, <3>2, <3>3
  <2>2. CASE i # N - k + 1
    <3>1. i % Len(s) = i
      <4>1. Len(s) = N - k + 1 /\ N \in Nat /\ k \in 1..N
        BY <1>1, <1>2, <1>3
      <4> HIDE DEF N
      <4>2. i \in Nat /\ i < Len(s) /\ Len(s) \in Nat
        BY <2>2, <4>1
      <4> QED
        BY <4>2
    <3>2. s[i] = path[k + i - 1] /\ s[i + 1] = path[(k + i - 1) + 1]
      <4>1. i + 1 \in 1..(N - k + 1) /\ k + (i + 1) - 1 = (k + i - 1) + 1
        BY <1>1, <1>2, <2>2
      <4>2. s[i + 1] = path[k + (i + 1) - 1] /\ s[i] = path[k + i - 1]
        BY <1>3, <4>1
      <4> QED
        BY <4>1, <4>2
    <3>3. k + i - 1 \in 1..N /\ (k + i - 1) + 1 <= N
      BY <1>1, <1>2, <2>2
    <3> QED
      BY <3>1, <3>2, <3>3 DEF Searches, PathExact
  <2> QED
    BY <2>1, <2>2
<1>6. CycleTo(n) = s
  BY DEF CycleTo, s, k
<1> QED
  BY <1>3, <1>4, <1>5, <1>6 DEF IsCycle

\* A class that is left when all it refers to is black becomes black itself.
LEMMA LeaveKeeps ==
  ASSUME Searches, path # <<>>, left[path[Len(path)]] = {},
         code' = code, graph' = graph, left' = left, cycles' = cycles,
         color' = [color EXCEPT ![path[Len(path)]] = Black],
         path' = SubSeq(path, 1, Len(path) - 1)
  PROVE  Searches'
<1> DEFINE N == Len(path)
<1>0. PICK n : n = path[N]
  OBVIOUS
<1>1. /\ N \in Nat /\ N > 0 /\ path \in Seq(code.classes) /\ n \in code.classes
      /\ color[n] = Gray
  BY <1>0 DEF Searches, PathExact
<1>2. /\ path' \in Seq(code.classes) /\ Len(path') = N - 1
      /\ \A i \in 1..(N - 1) : path'[i] = path[i]
  <2> DEFINE M == N - 1
  <2>1. path' = SubSeq(path, 1, M) /\ M \in 0..Len(path)
    BY <1>1
  <2> HIDE DEF M
  <2>2. /\ SubSeq(path, 1, M) \in Seq(code.classes) /\ Len(SubSeq(path, 1, M)) = M
        /\ \A i \in 1..M : SubSeq(path, 1, M)[i] = path[i]
    BY <1>1, <2>1, Prefix
  <2> QED
    BY <2>1, <2>2 DEF M
<1>3. /\ color' \in [code.classes -> {White, Gray, Black}] /\ color'[n] = Black
      /\ \A c \in code.classes \ {n} : color'[c] = color[c]
  BY <1>0, <1>1 DEF Searches, SearchTyped
<1>4. SearchTyped'
  BY <1>3 DEF Searches, SearchTyped, Edges
<1>5. \A i \in 1..(N - 1) : path[i] # n
  BY <1>0, <1>1 DEF Searches, PathExact
<1>6. PathExact'
  <2>1. \A i, j \in 1..(N - 1) : path'[i] = path'[j] => i = j
    BY <1>1, <1>2 DEF Searches, PathExact
  <2>2. \A c \in code.classes : color'[c] = Gray <=> \E i \in 1..(N - 1) : path'[i] = c
    <3>1. ASSUME NEW c \in code.classes
          PROVE  color'[c] = Gray <=> \E i \in 1..(N - 1) : path'[i] = c
      <4>1. CASE c = n
        BY <1>2, <1>3, <1>5, <4>1 DEF Searches, SearchTyped
      <4>2. CASE c # n
        <5>1. color'[c] = Gray <=> \E i \in 1..N : path[i] = c
          BY <1>3, <4>2 DEF Searches, PathExact
        <5> QED
          BY <1>0, <1>1, <1>2, <4>2, <5>1
      <4> QED
        BY <4>1, <4>2
    <3> QED
      BY <3>1
  <2>3. \A i \in 1..(N - 1) : i + 1 <= N - 1 => path'[i + 1] \in graph[path'[i]]
    BY <1>1, <1>2 DEF Searches, PathExact
  <2> QED
    BY <1>2, <2>1, <2>2, <2>3 DEF PathExact
<1>7. ASSUME NEW c, NEW d, Follow(c, d)
      PROVE  Follow(c, d)' \/ d = n
  <2>1. PICK i \in 1..N : i + 1 <= N /\ path[i] = c /\ path[i + 1] = d
    BY <1>7 DEF Follow
  <2>2. CASE i + 1 = N
    BY <1>0, <2>1, <2>2
  <2>3. CASE i + 1 # N
    <3>1. i \in 1..(N - 1) /\ i + 1 \in 1..(N - 1)
      BY <1>1, <2>1, <2>3
    <3> QED
      BY <1>2, <2>1, <3>1 DEF Follow
  <2> QED
    BY <2>2, <2>3
<1>8. LookedAt'
  <2>1. \A c \in code.classes : color'[c] = White => left'[c] = graph[c]
    BY <1>3 DEF Searches, SearchTyped, LookedAt
  <2>2. \A c \in code.classes : color'[c] = Black => left'[c] = {}
    BY <1>0, <1>3 DEF Searches, SearchTyped, LookedAt
  <2>3. ASSUME cycles = {}, NEW c \in code.classes, NEW d \in graph[c] \ left[c]
        PROVE  color'[d] = Black \/ Follow(c, d)'
    <3>1. d \in code.classes
      BY DEF Searches, SearchTyped, Edges
    <3>2. color[d] = Black \/ Follow(c, d)
      BY <2>3 DEF Searches, LookedAt
    <3> QED
      BY <1>3, <1>7, <3>1, <3>2
  <2> QED
    BY <2>1, <2>2, <2>3 DEF Searches, LookedAt
<1>9. ASSUME cycles = {}, NEW T \in SUBSET BlackOnes', Round(T, graph)
      PROVE  FALSE
  <2>1. BlackOnes' = BlackOnes \cup {n} /\ n \notin BlackOnes
    BY <1>1, <1>3 DEF BlackOnes, Searches, SearchTyped
  <2>2. \A c \in BlackOnes : graph[c] \subseteq BlackOnes
    <3>1. ASSUME NEW c \in BlackOnes, NEW d \in graph[c]
          PROVE  d \in BlackOnes
      <4>1. c \in code.classes /\ color[c] = Black /\ left[c] = {} /\ d \in code.classes
        BY DEF BlackOnes, Searches, SearchTyped, LookedAt, Edges
      <4>2. ~Follow(c, d)
        BY <4>1 DEF Follow, Searches, SearchTyped, PathExact
      <4> QED
        BY <1>9, <4>1, <4>2 DEF BlackOnes, Searches, LookedAt
    <3> QED
      BY <3>1
  <2>3. graph[n] \subseteq BlackOnes
    <3>1. ASSUME NEW d \in graph[n]
          PROVE  d \in BlackOnes
      <4>1. left[n] = {} /\ d \in code.classes
        BY <1>0, <1>1 DEF Searches, SearchTyped, Edges
      <4>2. ~Follow(n, d)
        BY <1>1, <1>5 DEF Follow
      <4> QED
        BY <1>1, <1>9, <4>1, <4>2 DEF BlackOnes, Searches, LookedAt
    <3> QED
      BY <3>1
  <2>4. Round(T \ {n}, graph) /\ T \ {n} \subseteq BlackOnes
    BY <1>9, <2>1, <2>2, <2>3 DEF Round
  <2> QED
    BY <1>9, <2>4 DEF Searches, NoBlackRound
<1>10. NoBlackRound'
  BY <1>9 DEF NoBlackRound, Round
<1> QED
  BY <1>4, <1>6, <1>8, <1>10 DEF Searches

LEMMA ReferencesStay ==
  ASSUME code' = code, superOf' = superOf, strong' = strong
  PROVE  \A c : References(c)' = References(c)
BY DEF References, Inherited

\* The steps of the search, and what it concludes.
LEMMA SearchKeeps ==
  ASSUME ReadInv, SearchInv, DfsRoot \/ DfsNeighbour \/ DfsLeave
  PROVE  SearchInv'
<1> DEFINE R == [c \in code.classes |-> References(c)]
<1>1. /\ pass = "dfs" /\ pass' = "dfs" /\ graph' = graph /\ code' = code
      /\ superOf' = superOf /\ strong' = strong
  BY DEF DfsRoot, DfsNeighbour, DfsLeave, Search
<1>2. Searches /\ graph = R /\ \A s \in cycles : IsCycle(s, R)
  BY <1>1 DEF SearchInv
<1>3. R' = R
  BY <1>1, ReferencesStay
<1>4. \A s : IsCycle(s, R) => IsCycle(s, R)'
  BY <1>1, <1>3 DEF IsCycle
<1>5. Searches' /\ \A s \in cycles' : IsCycle(s, R)
  <2>1. CASE DfsRoot
    <3>1. PICK n \in code.classes : color[n] = White /\ Enter(n)
      BY <2>1 DEF DfsRoot
    <3>2. cycles' = cycles /\ left' = left /\ path = <<>>
      BY <2>1 DEF DfsRoot
    <3> HIDE DEF R
    <3>3. Searches'
      BY <1>1, <1>2, <3>1, <3>2, EnterKeeps
    <3> QED
      BY <1>2, <3>2, <3>3
  <2>2. CASE DfsNeighbour
    <3> HIDE DEF R
    <3>1. PICK n \in left[path[Len(path)]] :
            /\ path # <<>> /\ left' = [left EXCEPT ![path[Len(path)]] = @ \ {n}]
            /\ \/ color[n] = Gray /\ cycles' = cycles \cup {CycleTo(n)} /\ UNCHANGED <<color, path>>
               \/ color[n] = White /\ Enter(n) /\ UNCHANGED cycles
               \/ color[n] = Black /\ UNCHANGED <<color, path, cycles>>
      BY <2>2 DEF DfsNeighbour, Last
    <3>2. path[Len(path)] \in code.classes
      <4>1. path \in Seq(code.classes) /\ path # <<>>
        BY <1>2, <3>1 DEF Searches, PathExact
      <4> QED
        BY <4>1
    <3>3. n \in graph[path[Len(path)]] /\ n \in code.classes
      BY <1>2, <3>1, <3>2 DEF Searches, SearchTyped, LookedAt, Edges
    <3>4. CASE color[n] = Gray /\ cycles' = cycles \cup {CycleTo(n)} /\ UNCHANGED <<color, path>>
      <4>1. Searches'
        BY <1>1, <1>2, <3>1, <3>4, LookKeeps
      <4>2. IsCycle(CycleTo(n), R)
        BY <1>2, <3>1, <3>3, <3>4, CycleFound
      <4> QED
        BY <1>2, <3>4, <4>1, <4>2
    <3>5. CASE color[n] = White /\ Enter(n) /\ UNCHANGED cycles
      <4>1. Searches'
        BY <1>1, <1>2, <3>1, <3>3, <3>5, EnterKeeps
      <4> QED
        BY <1>2, <3>5, <4>1
    <3>6. CASE color[n] = Black /\ UNCHANGED <<color, path, cycles>>
      <4>1. Searches'
        BY <1>1, <1>2, <3>1, <3>6, LookKeeps
      <4> QED
        BY <1>2, <3>6, <4>1
    <3> QED
      BY <3>1, <3>4, <3>5, <3>6
  <2>3. CASE DfsLeave
    <3> HIDE DEF R
    <3>1. /\ path # <<>> /\ left[path[Len(path)]] = {} /\ left' = left /\ cycles' = cycles
          /\ color' = [color EXCEPT ![path[Len(path)]] = Black]
          /\ path' = SubSeq(path, 1, Len(path) - 1)
      BY <2>3 DEF DfsLeave, Last, Front
    <3>2. Searches'
      BY <1>1, <1>2, <3>1, LeaveKeeps
    <3> QED
      BY <1>2, <3>1, <3>2
  <2> QED
    BY <2>1, <2>2, <2>3
<1> QED
  BY <1>1, <1>2, <1>3, <1>4, <1>5 DEF SearchInv

LEMMA BuildGraphKeeps ==
  ASSUME ReadInv, SearchInv, BuildGraph
  PROVE  SearchInv'
<1> DEFINE R == [c \in code.classes |-> References(c)]
<1>1. /\ pass = "read" /\ code' = code /\ superOf' = superOf /\ strong' = strong
      /\ path' = path /\ cycles' = cycles /\ path = <<>> /\ cycles = {}
  BY DEF BuildGraph, SearchInv
<1>2. R' = R
  BY <1>1, ReferencesStay
<1>3. \A c \in code.classes : R[c] = References(c) /\ R[c] \subseteq code.classes
  BY ReferencesFit
<1>4. CASE \A c \in code.classes : strong[c] = {}
  <2>1. pass' = "done"
    BY <1>4 DEF BuildGraph
  <2>2. \A c \in code.classes : R[c] = {}
    BY <1>4, NoReferences
  <2> HIDE DEF R
  <2>3. \A T \in SUBSET code.classes : ~Round(T, R)
    BY <2>2 DEF Round
  <2> QED
    BY <1>1, <1>2, <2>1, <2>3 DEF SearchInv, R, Round
<1>5. CASE ~\A c \in code.classes : strong[c] = {}
  <2>1. /\ pass' = "dfs" /\ graph' = R /\ left' = R
        /\ color' = [c \in code.classes |-> White]
    BY <1>5 DEF BuildGraph
  <2> HIDE DEF R
  <2>2. SearchTyped'
    BY <1>1, <1>3, <2>1 DEF SearchTyped, Edges, White, Gray, Black, R
  <2>3. PathExact'
    BY <1>1, <2>1 DEF PathExact, White, Gray
  <2>4. LookedAt'
    BY <1>1, <2>1 DEF LookedAt, White, Black
  <2>5. NoBlackRound'
    BY <1>1, <2>1 DEF NoBlackRound, BlackOnes, Round, White, Black
  <2> QED
    BY <1>1, <1>2, <2>1, <2>2, <2>3, <2>4, <2>5 DEF SearchInv, Searches, R
<1> QED
  BY <1>4, <1>5

LEMMA ReportKeeps ==
  ASSUME ReadInv, SearchInv, Report
  PROVE  SearchInv'
<1> DEFINE R == [c \in code.classes |-> References(c)]
<1>1. /\ pass = "dfs" /\ pass' = "done" /\ path = <<>> /\ cycles' = cycles /\ code' = code
      /\ superOf' = superOf /\ strong' = strong
      /\ \A c \in code.classes : graph[c] = {} \/ color[c] # White
  BY DEF Report
<1>2. Searches /\ graph = R /\ \A s \in cycles : IsCycle(s, R)
  BY <1>1 DEF SearchInv
<1>3. R' = R
  BY <1>1, ReferencesStay
<1> HIDE DEF R
<1>4. \A c \in code.classes : graph[c] = {} \/ color[c] = Black
  BY <1>1, <1>2 DEF Searches, SearchTyped, PathExact
<1>5. ASSUME cycles = {}, NEW T \in SUBSET code.classes
      PROVE  ~Round(T, graph)
  <2>1. Round(T, graph) => T \subseteq BlackOnes
    BY <1>4 DEF Round, BlackOnes
  <2> QED
    BY <1>2, <1>5, <2>1 DEF Searches, NoBlackRound
<1>6. \A s : IsCycle(s, R) => IsCycle(s, R)'
  BY <1>1, <1>3 DEF IsCycle
<1>7. cycles' = {} => \A T \in SUBSET code.classes : ~Round(T, R)'
  BY <1>1, <1>2, <1>3, <1>5 DEF Round
<1> QED
  BY <1>1, <1>2, <1>6, <1>7 DEF SearchInv, R

(***************************************************************************)
(* What the references mean                                                *)
(***************************************************************************)
Up == [x \in code.classes |-> IF x \in DOMAIN superOf THEN {superOf[x]} \cap code.classes ELSE {}]
Above(c) == Closure(code.classes, Up[c], Up)

LEMMA AboveFacts ==
  ASSUME NEW c \in code.classes
  PROVE  /\ Inherited(c) = UNION {strong[a] : a \in Above(c)}
         /\ Up[c] \subseteq Above(c) /\ Above(c) \subseteq code.classes
         /\ \A x \in Above(c) : Up[x] \subseteq Above(c)
<1>1. \A x \in code.classes : Up[x] \subseteq code.classes
  BY DEF Up
<1>2. Up[c] \in SUBSET code.classes
  BY <1>1
<1>3. Inherited(c) = UNION {strong[a] : a \in Above(c)}
  BY DEF Inherited, Above, Up
<1> QED
  BY <1>1, <1>2, <1>3, ClosureFacts DEF Above

LEMMA AncestorFacts ==
  ASSUME NEW c \in code.classes
  PROVE  /\ c \in Ancestors(c) /\ Ancestors(c) \subseteq code.classes
         /\ \A x \in Ancestors(c) : Superclasses(x) \subseteq Ancestors(c)
<1> DEFINE N == [x \in code.classes |-> Superclasses(x)]
<1>1. \A x \in code.classes : N[x] \subseteq code.classes /\ N[x] = Superclasses(x)
  BY DEF Superclasses
<1>2. {c} \in SUBSET code.classes /\ Ancestors(c) = Closure(code.classes, {c}, N)
  BY DEF Ancestors
<1> HIDE DEF N
<1>3. \A x \in code.classes : N[x] \subseteq code.classes
  BY <1>1
<1> DEFINE S == {c}
<1>4. S \in SUBSET code.classes
  OBVIOUS
<1> HIDE DEF S
<1>5. /\ S \subseteq Closure(code.classes, S, N)
      /\ Closure(code.classes, S, N) \subseteq code.classes
      /\ \A x \in Closure(code.classes, S, N) : N[x] \subseteq Closure(code.classes, S, N)
  BY <1>3, <1>4, ClosureFacts
<1> QED
  BY <1>1, <1>2, <1>5 DEF S

LEMMA ReadFacts ==
  ASSUME FilesInv, ReadInv
  PROVE  /\ SourceFacts /\ FoundationFacts
         /\ Interfaces(allFiles) \subseteq Declared
         /\ Declared \subseteq Interfaces(code.files)
BY FactsOfSources, ImportedFacts, InterfacesGrow DEF FilesInv, Declared

\* Whatever the graph refers to may be held.
LEMMA ReferencesHeld ==
  ASSUME FilesInv, ReadInv, NEW c \in code.classes
  PROVE  References(c) \subseteq Holds(c)
<1>1. CASE c \in Foundation
  <2>1. strong[c] = {}
    BY <1>1 DEF ReadInv
  <2>2. Up[c] = {}
    BY <1>1 DEF Up, ReadInv
  <2>3. Above(c) \subseteq {}
    BY <2>2, ClosureLeast DEF Above
  <2> QED
    BY <2>1, <2>3, AboveFacts DEF References
<1>2. CASE c \notin Foundation
  <2>1. ASSUME NEW x \in code.classes
        PROVE  Up[x] \subseteq Superclasses(x)
    <3>1. SUFFICES ASSUME x \in DOMAIN superOf, superOf[x] \in code.classes
                   PROVE  superOf[x] \in Superclasses(x)
      BY DEF Up
    <3>2. PICK i \in Interfaces(allFiles) : i.name = x /\ i.super = superOf[x]
      BY <3>1 DEF ReadInv
    <3> QED
      BY <3>1, <3>2, ReadFacts DEF Superclasses
  <2>2. Above(c) \subseteq Ancestors(c)
    <3>1. Ancestors(c) \in SUBSET code.classes /\ Up[c] \subseteq Ancestors(c)
      BY <2>1, AncestorFacts
    <3>2. \A x \in Ancestors(c) : Up[x] \subseteq Ancestors(c)
      BY <2>1, AncestorFacts
    <3> QED
      BY <3>1, <3>2, ClosureLeast DEF Above
  <2>3. ASSUME NEW a \in Ancestors(c), NEW d \in strong[a]
        PROVE  d \in Holds(c)
    <3>1. a \in code.classes /\ d \in code.classes
      BY AncestorFacts DEF ReadInv
    <3>2. PICK i \in Interfaces(allFiles) : i.name = a /\ d \in StrongRefs(i)
      BY <3>1 DEF ReadInv
    <3>3. PICK f \in i.fields : f.kind = "strong" /\ f.target = d
      BY <3>2 DEF StrongRefs
    <3>4. d \in Held(f)
      BY <3>1, <3>3 DEF Held
    <3>5. i \in Declared
      BY ReadFacts
    <3> QED
      BY <1>2, <3>2, <3>3, <3>4, <3>5 DEF Holds
  <2> QED
    BY <2>2, <2>3, AboveFacts, AncestorFacts DEF References
<1> QED
  BY <1>1, <1>2

\* A class whose interfaces give nothing to what inherits from it.
Empty(x) ==
  x \in Foundation \/ \A j \in Declared : j.name = x => j.fields = {} /\ j.super \notin code.classes

\* The classes above c that the check does not see are empty.
LEMMA AncestorsSeen ==
  ASSUME FilesInv, ReadInv, pass = "done", Visible, NEW c \in code.classes
  PROVE  \A a \in Ancestors(c) : a = c \/ a \in Above(c) \/ Empty(a)
<1> DEFINE N == [x \in code.classes |-> Superclasses(x)]
           T == {x \in code.classes : x = c \/ x \in Above(c) \/ Empty(x)}
<1>1. \A x \in code.classes : N[x] = Superclasses(x)
  OBVIOUS
<1>2. Ancestors(c) = Closure(code.classes, {c}, N)
  BY DEF Ancestors
<1> HIDE DEF N
<1>3. Declared = Interfaces(allFiles)
  <2>1. \A f \in code.files : \A i \in code.imports[f] : i.quoted
    BY DEF Visible
  <2> QED
    BY <2>1, AllImported DEF Declared
<1>4. ASSUME NEW x \in T, NEW y \in Superclasses(x)
      PROVE  y \in T
  <2>1. PICK j \in Declared : j.name = x /\ j.super = y /\ y \in code.classes
    BY DEF Superclasses
  <2>2. CASE x \in Foundation
    <3>1. \A k \in Declared : k.name = y => Bare(k)
      BY <2>1, <2>2, ReadFacts DEF FoundationFacts
    <3>2. Empty(y)
      BY <3>1 DEF Empty, Bare
    <3> QED
      BY <2>1, <3>2
  <2>3. CASE x \notin Foundation /\ (x = c \/ x \in Above(c))
    <3>1. x \in DOMAIN superOf
      BY <1>3, <2>1, <2>3 DEF ReadInv, HasRead
    <3>2. PICK i \in Interfaces(allFiles) : i.name = x /\ i.super = superOf[x]
      BY <3>1 DEF ReadInv
    <3>3. superOf[x] = y
      BY <1>3, <2>1, <3>2 DEF Visible
    <3>4. y \in Up[x]
      BY <2>1, <3>1, <3>3 DEF Up
    <3>5. y \in Above(c)
      BY <2>3, <3>4, AboveFacts
    <3> QED
      BY <2>1, <3>5
  <2>4. CASE x \notin Foundation /\ Empty(x)
    BY <2>1, <2>4 DEF Empty
  <2> QED
    BY <2>2, <2>3, <2>4
<1>5. T \in SUBSET code.classes /\ {c} \subseteq T
  OBVIOUS
<1> HIDE DEF T
<1>6. \A x \in T : N[x] \subseteq T
  BY <1>1, <1>4, <1>5
<1>7. Ancestors(c) \subseteq T
  BY <1>2, <1>5, <1>6, ClosureLeast
<1> QED
  BY <1>7 DEF T

\* What a class of a program that the check can see may hold is in the graph.
LEMMA HeldReferenced ==
  ASSUME FilesInv, ReadInv, pass = "done", Visible,
         NEW c \in code.classes \ Foundation, NEW d \in Holds(c), d \in Known
  PROVE  d \in References(c) /\ d \notin Foundation
<1>1. PICK i \in Declared : i.name \in Ancestors(c) /\ \E f \in i.fields : d \in Held(f)
  BY DEF Holds
<1>2. PICK f \in i.fields : d \in Held(f)
  BY <1>1
<1>3. f.kind = "strong" /\ f.target \notin Foundation
  <2>1. f \in UNION {j.fields : j \in Declared}
    OBVIOUS
  <2> QED
    BY <1>2, <2>1 DEF Visible, Held
<1>4. d = f.target /\ d \in code.classes
  BY <1>2, <1>3 DEF Held, Visible
<1>5. d \in StrongRefs(i)
  BY <1>3, <1>4 DEF StrongRefs
<1>6. Declared = Interfaces(allFiles)
  <2>1. \A g \in code.files : \A j \in code.imports[g] : j.quoted
    BY DEF Visible
  <2> QED
    BY <2>1, AllImported DEF Declared
<1>7. i.name \notin Foundation
  <2>1. i \in Interfaces(code.files)
    BY ReadFacts
  <2> QED
    BY <1>3, <2>1, ReadFacts DEF FoundationFacts
<1>8. d \in strong[i.name]
  BY <1>5, <1>6, <1>7 DEF ReadInv, HasRead
<1>9. i.name = c \/ i.name \in Above(c)
  BY <1>1, <1>7, AncestorsSeen DEF Empty
<1> QED
  BY <1>3, <1>4, <1>8, <1>9, AboveFacts DEF References

\* A class that holds anything has an interface.
LEMMA HolderKnown ==
  ASSUME FilesInv, ReadInv, pass = "done", Visible,
         NEW c \in code.classes \ Foundation, Holds(c) # {}
  PROVE  c \in Known
<1>1. PICK i \in Declared : i.name \in Ancestors(c)
  BY DEF Holds
<1>2. Declared = Interfaces(allFiles)
  <2>1. \A f \in code.files : \A j \in code.imports[f] : j.quoted
    BY DEF Visible
  <2> QED
    BY <2>1, AllImported DEF Declared
<1>3. SUFFICES ASSUME i.name # c, \A j \in Declared : j.name # c
               PROVE  FALSE
  BY <1>1, <1>2 DEF Known
<1> DEFINE N == [x \in code.classes |-> Superclasses(x)]
<1>4. N[c] = {} /\ {c} \in SUBSET code.classes
  BY <1>3 DEF Superclasses
<1>5. Ancestors(c) = Closure(code.classes, {c}, N)
  BY DEF Ancestors
<1> HIDE DEF N
<1> DEFINE S == {c}
<1>6. S \in SUBSET code.classes /\ S \subseteq S /\ \A x \in S : N[x] \subseteq S
  BY <1>4
<1>7. Ancestors(c) = Closure(code.classes, S, N)
  BY <1>5
<1> HIDE DEF S
<1>8. Closure(code.classes, S, N) \subseteq S
  BY <1>6, ClosureLeast
<1> QED
  BY <1>1, <1>3, <1>7, <1>8 DEF S

(***************************************************************************)
(* The check is exact                                                      *)
(***************************************************************************)
CyclesInv == FilesInv /\ ReadInv /\ SearchInv

\* If nothing was found, nothing leaks.
LEMMA NothingMissed ==
  ASSUME CyclesInv, pass = "done", cycles = {}, Visible
  PROVE  ~MayLeak
<1> SUFFICES ASSUME NEW S \in SUBSET code.classes, Cyclic(S)
             PROVE  FALSE
  BY DEF MayLeak
<1> DEFINE T == S \ Foundation
           R == [c \in code.classes |-> References(c)]
<1>1. \A c \in S \cap Foundation : Holds(c) \cap S \subseteq T
  BY DEF Holds
<1>2. T \in SUBSET code.classes /\ T # {}
  BY <1>1 DEF Cyclic
<1>3. \A c \in T : c \in Known
  <2>1. ASSUME NEW c \in T
        PROVE  c \in Known
    <3>1. c \in code.classes \ Foundation /\ Holds(c) # {}
      BY DEF Cyclic
    <3> QED
      BY <3>1, HolderKnown DEF CyclesInv
  <2> QED
    BY <2>1
<1>4. ASSUME NEW c \in T
      PROVE  R[c] \cap T # {}
  <2>1. PICK d \in Holds(c) : d \in S
    BY DEF Cyclic
  <2>2. c \in code.classes \ Foundation
    OBVIOUS
  <2>3. d \notin Foundation
    <3>1. PICK i \in Declared : \E f \in i.fields : d \in Held(f)
      BY <2>2 DEF Holds
    <3>2. PICK f \in i.fields : d \in Held(f)
      BY <3>1
    <3>3. f \in UNION {j.fields : j \in Declared}
      OBVIOUS
    <3> QED
      BY <3>2, <3>3 DEF Visible, Held
  <2>4. d \in Known
    BY <1>3, <2>1, <2>3
  <2>5. d \in References(c)
    BY <2>2, <2>4, HeldReferenced DEF CyclesInv
  <2> QED
    BY <2>1, <2>2, <2>3, <2>5
<1> HIDE DEF T
<1>5. Round(T, R)
  BY <1>2, <1>4 DEF Round
<1> QED
  BY <1>2, <1>5 DEF CyclesInv, SearchInv

LEMMA ExactFromInv ==
  ASSUME CyclesInv
  PROVE  CyclesExact
<1>1. CyclesFound
  BY NothingMissed DEF CyclesFound, Failed
<1>2. ASSUME pass = "done", NEW s \in cycles
      PROVE  /\ IsInjective(s)
             /\ \A i \in DOMAIN s : s[(i % Len(s)) + 1] \in Holds(s[i])
  <2> DEFINE R == [c \in code.classes |-> References(c)]
  <2>1. IsCycle(s, R)
    BY <1>2 DEF CyclesInv, SearchInv
  <2>2. ASSUME NEW i \in DOMAIN s
        PROVE  s[(i % Len(s)) + 1] \in Holds(s[i])
    <3>1. s[i] \in code.classes
      BY <2>1 DEF IsCycle
    <3>2. s[(i % Len(s)) + 1] \in R[s[i]]
      BY <2>1 DEF IsCycle
    <3>3. R[s[i]] = References(s[i])
      BY <3>1
    <3> QED
      BY <3>1, <3>2, <3>3, ReferencesHeld DEF CyclesInv
  <2> QED
    BY <2>1, <2>2 DEF IsCycle
<1>3. CyclesReal
  BY <1>2 DEF CyclesReal
<1>4. ASSUME pass = "dfs"
      PROVE  {c \in code.classes : color[c] = Gray} = Range(path)
  <2>1. PathExact
    BY <1>4 DEF CyclesInv, SearchInv, Searches
  <2>2. \A i \in 1..Len(path) : path[i] \in code.classes
    BY <2>1 DEF PathExact
  <2>3. Range(path) = {path[i] : i \in 1..Len(path)}
    BY <2>1 DEF PathExact, Range
  <2> QED
    BY <2>1, <2>2, <2>3 DEF PathExact
<1> QED
  BY <1>1, <1>3, <1>4 DEF CyclesExact

LEMMA CyclesInitInv ==
  ASSUME CyclesInit
  PROVE  CyclesInv
<1>1. /\ code \in Sources /\ pass = "files" /\ queue = code.sources /\ allFiles = {}
      /\ unread = <<>> /\ superOf = <<>> /\ strong = [c \in code.classes |-> {}]
      /\ path = <<>> /\ cycles = {}
  BY DEF CyclesInit
<1>2. FilesInv
  BY <1>1, FactsOfSources, ImportedFacts DEF FilesInv
<1>3. DOMAIN superOf = {}
  BY <1>1
<1>4. ReadInv
  BY <1>1, <1>3 DEF ReadInv
<1>5. SearchInv
  BY <1>1 DEF SearchInv
<1> QED
  BY <1>2, <1>4, <1>5 DEF CyclesInv

LEMMA CyclesStep ==
  ASSUME CyclesInv, CyclesNext
  PROVE  CyclesInv'
<1>1. CASE PopFile
  <2>1. pass = "files" /\ pass' = "files" /\ cycles' = cycles /\ path' = path
    BY <1>1 DEF PopFile, Skip
  <2> QED
    BY <1>1, <2>1, PopFileKeeps DEF CyclesInv, SearchInv
<1>2. CASE FilesFound
  <2>1. pass = "files" /\ pass' = "read" /\ cycles' = cycles /\ path' = path
    BY <1>2 DEF FilesFound, Skip
  <2> QED
    BY <1>2, <2>1, FilesFoundKeeps DEF CyclesInv, SearchInv
<1>3. CASE ReadFile
  <2>1. pass = "read" /\ pass' = "read" /\ cycles' = cycles /\ path' = path
    BY <1>3 DEF ReadFile, Skip
  <2> QED
    BY <1>3, <2>1, ReadFileKeeps DEF CyclesInv, SearchInv
<1>4. CASE CollectInterface
  <2>1. pass = "read" /\ pass' = "read" /\ cycles' = cycles /\ path' = path
    BY <1>4 DEF CollectInterface
  <2> QED
    BY <1>4, <2>1, CollectKeeps DEF CyclesInv, SearchInv
<1>5. CASE BuildGraph
  <2>1. /\ pass = "read" /\ pass' \in {"dfs", "done"} /\ queue = {} /\ unread = <<>>
        /\ code' = code /\ allFiles' = allFiles /\ superOf' = superOf /\ strong' = strong
    BY <1>5 DEF BuildGraph
  <2>2. FilesInv' /\ ReadInv'
    BY <2>1, ReadStays DEF CyclesInv
  <2> QED
    BY <1>5, <2>2, BuildGraphKeeps DEF CyclesInv
<1>6. CASE DfsRoot \/ DfsNeighbour \/ DfsLeave
  <2>1. /\ pass = "dfs" /\ pass' = "dfs"
        /\ code' = code /\ allFiles' = allFiles /\ superOf' = superOf /\ strong' = strong
    BY <1>6 DEF DfsRoot, DfsNeighbour, DfsLeave, Search
  <2>2. FilesInv' /\ ReadInv'
    BY <2>1, ReadStays DEF CyclesInv
  <2> QED
    BY <1>6, <2>2, SearchKeeps DEF CyclesInv
<1>7. CASE Report
  <2>1. /\ pass = "dfs" /\ pass' = "done"
        /\ code' = code /\ allFiles' = allFiles /\ superOf' = superOf /\ strong' = strong
    BY <1>7 DEF Report
  <2>2. FilesInv' /\ ReadInv'
    BY <2>1, ReadStays DEF CyclesInv
  <2> QED
    BY <1>7, <2>2, ReportKeeps DEF CyclesInv
<1> QED
  BY <1>1, <1>2, <1>3, <1>4, <1>5, <1>6, <1>7 DEF CyclesNext

LEMMA CyclesStutter ==
  ASSUME CyclesInv, UNCHANGED cyclesVars
  PROVE  CyclesInv'
<1>1. /\ code' = code /\ pass' = pass /\ queue' = queue /\ allFiles' = allFiles
      /\ unread' = unread /\ superOf' = superOf /\ strong' = strong /\ graph' = graph
      /\ color' = color /\ path' = path /\ left' = left /\ cycles' = cycles
  BY DEF cyclesVars
<1>2. FilesInv'
  BY <1>1 DEF CyclesInv, FilesInv, Imported, Imports, Resolved
<1>3. ReadInv'
  BY <1>1 DEF CyclesInv, ReadInv, HasRead, Unread, StrongRefs, Known, Interfaces
<1>4. \A c : References(c)' = References(c)
  BY <1>1, ReferencesStay
<1>5. SearchInv'
  <2> DEFINE R == [c \in code.classes |-> References(c)]
  <2>1. R' = R
    BY <1>1, <1>4
  <2>2. Searches => SearchTyped' /\ PathExact'
    BY <1>1 DEF Searches, SearchTyped, Edges, PathExact
  <2>3. Searches => LookedAt'
    BY <1>1 DEF Searches, LookedAt, Follow
  <2>4. Searches => NoBlackRound'
    BY <1>1 DEF Searches, NoBlackRound, BlackOnes, Round
  <2>5. Searches => Searches'
    BY <2>2, <2>3, <2>4 DEF Searches
  <2> HIDE DEF R
  <2>6. \A s : IsCycle(s, R) => IsCycle(s, R)'
    BY <1>1, <2>1 DEF IsCycle
  <2>7. \A T : Round(T, R)' <=> Round(T, R)
    BY <2>1 DEF Round
  <2> QED
    BY <1>1, <2>1, <2>5, <2>6, <2>7 DEF CyclesInv, SearchInv, R
<1> QED
  BY <1>2, <1>3, <1>5 DEF CyclesInv

(***************************************************************************)
(* Sums                                                                    *)
(***************************************************************************)
\* r has the sum of w over every subset of its domain.
Sums(r, w) ==
  /\ r \in [SUBSET DOMAIN w -> Nat] /\ r[{}] = 0
  /\ \A s \in SUBSET DOMAIN w : \A x \in s : r[s] = w[x] + r[s \ {x}]

Pick(s) == CHOOSE x \in s : TRUE

\* r is the function by which Total is defined.
Folds(r, w) ==
  r = [s \in SUBSET DOMAIN w |-> IF s = {} THEN 0 ELSE w[Pick(s)] + r[s \ {Pick(s)}]]

LEMMA TotalUnfolds ==
  ASSUME NEW w
  PROVE  Total(w) = (CHOOSE r : Folds(r, w))[DOMAIN w]
BY DEF Total, FoldFunction, FoldFunctionOnSet, MapThenFoldSet, Folds, Pick

LEMMA SetsBySize ==
  ASSUME NEW S, IsFiniteSet(S), NEW B \in SUBSET SUBSET S, B # {}
  PROVE  \E s \in B : /\ IsFiniteSet(s) /\ Cardinality(s) \in Nat
                      /\ \A t \in B : Cardinality(s) <= Cardinality(t)
<1> DEFINE N == {Cardinality(s) : s \in B}
<1>1. \A s \in B : IsFiniteSet(s) /\ Cardinality(s) \in Nat
  BY FS_Subset, FS_CardinalityType
<1>2. N \in SUBSET Nat /\ N # {}
  BY <1>1
<1>3. PICK n \in N : \A m \in N : n <= m
  <2> HIDE DEF N
  <2> QED
    BY <1>2, LeastNat
<1> QED
  BY <1>1, <1>3

LEMMA Smaller ==
  ASSUME NEW S, IsFiniteSet(S), NEW s \in SUBSET S, NEW x \in s
  PROVE  /\ s \ {x} \in SUBSET S
         /\ Cardinality(s) \in Nat /\ Cardinality(s \ {x}) \in Nat
         /\ Cardinality(s \ {x}) = Cardinality(s) - 1
<1>1. IsFiniteSet(s)
  BY FS_Subset
<1> QED
  BY <1>1, FS_RemoveElement, FS_CardinalityType

LEMMA FoldExists ==
  ASSUME NEW w, IsFiniteSet(DOMAIN w), \A x \in DOMAIN w : w[x] \in Nat
  PROVE  \E r : Folds(r, w)
<1> DEFINE D == DOMAIN w
           Some(n) == {s \in SUBSET D : Cardinality(s) <= n}
           Upto(n, r) == \A s \in Some(n) :
                           r[s] = IF s = {} THEN 0 ELSE w[Pick(s)] + r[s \ {Pick(s)}]
           T == {n \in Nat : ~\E r : Upto(n, r)}
<1>1. \A s \in SUBSET D : Cardinality(s) \in Nat /\ (s # {} => Pick(s) \in s)
  BY FS_Subset, FS_CardinalityType DEF Pick
<1>2. T = {}
  <2> SUFFICES ASSUME T # {} PROVE FALSE
    OBVIOUS
  <2>1. PICK n \in T : \A m \in T : n <= m
    <3>1. T \in SUBSET Nat
      OBVIOUS
    <3> HIDE DEF T
    <3> QED
      BY <3>1, LeastNat
  <2>2. PICK r : \A s \in SUBSET D : Cardinality(s) < n =>
                   r[s] = IF s = {} THEN 0 ELSE w[Pick(s)] + r[s \ {Pick(s)}]
    <3>1. CASE n = 0
      BY <1>1, <3>1
    <3>2. CASE n # 0
      <4>1. n - 1 \in Nat /\ n - 1 \notin T
        <5>1. n \in Nat /\ n - 1 \in Nat
          BY <2>1, <3>2
        <5> HIDE DEF T
        <5> QED
          BY <2>1, <5>1
      <4>2. PICK r : Upto(n - 1, r)
        BY <4>1
      <4>3. \A s \in SUBSET D : Cardinality(s) < n => s \in Some(n - 1)
        BY <1>1, <4>1
      <4> QED
        BY <4>2, <4>3
    <3> QED
      BY <3>1, <3>2
  <2> DEFINE q == [s \in SUBSET D |-> IF Cardinality(s) < n THEN r[s]
                     ELSE IF s = {} THEN 0 ELSE w[Pick(s)] + r[s \ {Pick(s)}]]
  <2>3. ASSUME NEW s \in SUBSET D, Cardinality(s) <= n
        PROVE  q[s] = IF s = {} THEN 0 ELSE w[Pick(s)] + q[s \ {Pick(s)}]
    <3>1. q[s] = IF s = {} THEN 0 ELSE w[Pick(s)] + r[s \ {Pick(s)}]
      BY <2>2
    <3>2. CASE s = {}
      BY <3>1, <3>2
    <3>3. CASE s # {}
      <4>1. Pick(s) \in s
        BY <1>1, <3>3
      <4>2. Cardinality(s \ {Pick(s)}) < n /\ s \ {Pick(s)} \in SUBSET D
        BY <1>1, <2>1, <2>3, <4>1, Smaller
      <4> HIDE DEF D
      <4>3. q[s \ {Pick(s)}] = r[s \ {Pick(s)}]
        BY <4>2
      <4> HIDE DEF q
      <4> QED
        BY <3>1, <3>3, <4>3
    <3> QED
      BY <3>2, <3>3
  <2>4. Upto(n, q)
    <3> HIDE DEF q
    <3> QED
      BY <2>3
  <2> QED
    BY <2>1, <2>4
<1>3. Cardinality(D) \in Nat /\ \A s \in SUBSET D : s \in Some(Cardinality(D))
  BY FS_Subset, FS_CardinalityType
<1>4. PICK r : Upto(Cardinality(D), r)
  BY <1>2, <1>3
<1>5. \A s \in SUBSET D : r[s] = IF s = {} THEN 0 ELSE w[Pick(s)] + r[s \ {Pick(s)}]
  BY <1>3, <1>4
<1> DEFINE q == [s \in SUBSET D |-> r[s]]
<1>6. \A s \in SUBSET D : s \ {Pick(s)} \in SUBSET D
  OBVIOUS
<1>7. \A s \in SUBSET D : q[s] = r[s] /\ q[s \ {Pick(s)}] = r[s \ {Pick(s)}]
  BY <1>6
<1>8. q = [s \in SUBSET D |-> q[s]]
  OBVIOUS
<1> HIDE DEF q
<1>9. \A s \in SUBSET D : q[s] = IF s = {} THEN 0 ELSE w[Pick(s)] + q[s \ {Pick(s)}]
  BY <1>5, <1>7
<1> QED
  BY <1>8, <1>9 DEF Folds

LEMMA TotalSums ==
  ASSUME NEW w, IsFiniteSet(DOMAIN w), \A x \in DOMAIN w : w[x] \in Nat
  PROVE  \E r : Sums(r, w) /\ Total(w) = r[DOMAIN w]
<1> DEFINE D == DOMAIN w
<1>1. PICK r : r = CHOOSE q : Folds(q, w)
  OBVIOUS
<1>2. Folds(r, w) /\ Total(w) = r[D]
  BY <1>1, FoldExists, TotalUnfolds
<1>3. /\ r = [s \in SUBSET D |-> r[s]]
      /\ \A s \in SUBSET D : r[s] = IF s = {} THEN 0 ELSE w[Pick(s)] + r[s \ {Pick(s)}]
  BY <1>2 DEF Folds
<1>4. \A s \in SUBSET D : s # {} => Pick(s) \in s
  BY DEF Pick
<1>5. \A s \in SUBSET D : r[s] \in Nat
  <2> DEFINE B == {s \in SUBSET D : r[s] \notin Nat}
  <2> SUFFICES ASSUME B # {} PROVE FALSE
    OBVIOUS
  <2>1. PICK s \in B : \A t \in B : Cardinality(s) <= Cardinality(t)
    <3>1. B \in SUBSET SUBSET D
      OBVIOUS
    <3> HIDE DEF B
    <3> QED
      BY <3>1, SetsBySize
  <2>2. s # {}
    <3>1. r[{}] = 0
      BY <1>3
    <3>2. r[s] \notin Nat
      BY <2>1
    <3> QED
      BY <3>1, <3>2
  <2>3. s \ {Pick(s)} \notin B /\ s \ {Pick(s)} \in SUBSET D
    BY <1>4, <2>1, <2>2, Smaller
  <2>4. r[s] = w[Pick(s)] + r[s \ {Pick(s)}]
    BY <1>3, <2>1, <2>2
  <2>5. w[Pick(s)] \in Nat
    BY <1>4, <2>1, <2>2
  <2> QED
    BY <2>1, <2>3, <2>4, <2>5
<1>6. \A s \in SUBSET D : \A x \in s : r[s] = w[x] + r[s \ {x}]
  <2> DEFINE Splits(s) == \A x \in s : r[s] = w[x] + r[s \ {x}]
             B == {s \in SUBSET D : ~Splits(s)}
  <2> SUFFICES ASSUME B # {} PROVE FALSE
    OBVIOUS
  <2>1. PICK s \in B : \A t \in B : Cardinality(s) <= Cardinality(t)
    <3>1. B \in SUBSET SUBSET D
      OBVIOUS
    <3> HIDE DEF B
    <3> QED
      BY <3>1, SetsBySize
  <2>2. PICK x \in s : r[s] # w[x] + r[s \ {x}]
    BY <2>1
  <2>3. PICK p \in s : p = Pick(s)
    BY <1>4, <2>1, <2>2
  <2>4. r[s] = w[p] + r[s \ {p}]
    BY <1>3, <2>1, <2>3
  <2>5. x # p
    BY <2>2, <2>4
  <2>6. Splits(s \ {p}) /\ Splits(s \ {x}) /\ s \ {p} \in SUBSET D /\ s \ {x} \in SUBSET D
    <3>1. \A y \in s : s \ {y} \notin B /\ s \ {y} \in SUBSET D
      BY <2>1, Smaller
    <3> QED
      BY <3>1
  <2>7. x \in s \ {p} /\ p \in s \ {x} /\ (s \ {p}) \ {x} = (s \ {x}) \ {p}
    BY <2>5
  <2>8. /\ r[s \ {p}] = w[x] + r[(s \ {p}) \ {x}]
        /\ r[s \ {x}] = w[p] + r[(s \ {p}) \ {x}]
    BY <2>6, <2>7
  <2>9. w[x] \in Nat /\ w[p] \in Nat /\ r[(s \ {p}) \ {x}] \in Nat
    BY <1>5, <2>1, <2>6
  <2> QED
    BY <2>2, <2>4, <2>8, <2>9
<1>7. r[{}] = 0
  BY <1>3
<1>8. r \in [SUBSET D -> Nat]
  BY <1>3, <1>5
<1> QED
  BY <1>2, <1>6, <1>7, <1>8 DEF Sums

LEMMA TotalType ==
  ASSUME NEW w, IsFiniteSet(DOMAIN w), \A x \in DOMAIN w : w[x] \in Nat
  PROVE  Total(w) \in Nat /\ (DOMAIN w = {} => Total(w) = 0)
<1>1. PICK r : Sums(r, w) /\ Total(w) = r[DOMAIN w]
  BY TotalSums
<1> QED
  BY <1>1 DEF Sums

LEMMA SumsAgree ==
  ASSUME NEW w, IsFiniteSet(DOMAIN w), NEW v, NEW r, NEW q, Sums(r, w), Sums(q, v),
         NEW S \in SUBSET DOMAIN w, S \subseteq DOMAIN v, \A x \in S : w[x] = v[x]
  PROVE  r[S] = q[S]
<1> DEFINE B == {s \in SUBSET S : r[s] # q[s]}
<1> SUFFICES ASSUME B # {} PROVE FALSE
  OBVIOUS
<1>0. IsFiniteSet(S)
  BY FS_Subset
<1>1. PICK s \in B : \A t \in B : Cardinality(s) <= Cardinality(t)
  <2>1. B \in SUBSET SUBSET S
    OBVIOUS
  <2> HIDE DEF B
  <2> QED
    BY <1>0, <2>1, SetsBySize
<1>2. PICK x \in s : TRUE
  BY <1>1 DEF Sums
<1>3. s \ {x} \notin B /\ s \ {x} \in SUBSET S
  BY <1>0, <1>1, Smaller
<1>4. r[s \ {x}] = q[s \ {x}]
  BY <1>3
<1>5. r[s] = w[x] + r[s \ {x}] /\ q[s] = v[x] + q[s \ {x}]
  BY <1>1 DEF Sums
<1> QED
  BY <1>1, <1>4, <1>5

\* A sum without one of its summands.
Without(w, x) == [y \in DOMAIN w \ {x} |-> w[y]]

LEMMA TotalSplit ==
  ASSUME NEW w, IsFiniteSet(DOMAIN w), \A y \in DOMAIN w : w[y] \in Nat, NEW x \in DOMAIN w
  PROVE  Total(w) = w[x] + Total(Without(w, x)) /\ Total(Without(w, x)) \in Nat
<1> DEFINE v == Without(w, x)
           S == DOMAIN w \ {x}
<1>1. IsFiniteSet(S) /\ DOMAIN v = S /\ \A y \in S : v[y] = w[y]
  BY FS_Subset DEF Without
<1>2. PICK r : Sums(r, w) /\ Total(w) = r[DOMAIN w]
  BY TotalSums
<1> HIDE DEF v
<1>3. PICK q : Sums(q, v) /\ Total(v) = q[S]
  BY <1>1, TotalSums
<1>4. r[S] = q[S]
  BY <1>1, <1>2, <1>3, SumsAgree
<1>5. r[DOMAIN w] = w[x] + r[S]
  BY <1>2 DEF Sums
<1>6. Total(v) \in Nat
  BY <1>1, TotalType
<1> QED
  BY <1>2, <1>3, <1>4, <1>5, <1>6 DEF v

LEMMA TotalChange ==
  ASSUME NEW S, IsFiniteSet(S), NEW w \in [S -> Nat], NEW v \in [S -> Nat], NEW x \in S,
         \A y \in S : y # x => w[y] = v[y]
  PROVE  Total(w) - w[x] = Total(v) - v[x]
<1>1. Without(w, x) = Without(v, x)
  BY DEF Without
<1>2. Total(w) = w[x] + Total(Without(w, x)) /\ Total(Without(w, x)) \in Nat
  BY TotalSplit
<1>3. Total(v) = v[x] + Total(Without(v, x)) /\ Total(Without(v, x)) \in Nat
  BY TotalSplit
<1> QED
  BY <1>1, <1>2, <1>3

LEMMA TotalZero ==
  ASSUME NEW S, IsFiniteSet(S)
  PROVE  Total([x \in S |-> 0]) = 0
<1> DEFINE w == [x \in S |-> 0]
           B == {s \in SUBSET S : Total([x \in s |-> 0]) # 0}
<1> SUFFICES ASSUME B # {} PROVE FALSE
  OBVIOUS
<1>1. PICK s \in B : \A t \in B : Cardinality(s) <= Cardinality(t)
  <2>1. B \in SUBSET SUBSET S
    OBVIOUS
  <2> HIDE DEF B
  <2> QED
    BY <2>1, SetsBySize
<1> DEFINE v == [x \in s |-> 0]
<1>2. IsFiniteSet(s) /\ DOMAIN v = s /\ \A x \in s : v[x] = 0
  BY <1>1, FS_Subset
<1>3. PICK x \in s : TRUE
  <2> SUFFICES ASSUME s = {} PROVE FALSE
    OBVIOUS
  <2>1. Total(v) # 0
    BY <1>1
  <2> HIDE DEF v
  <2> QED
    BY <1>2, <2>1, TotalType
<1>4. s \ {x} \notin B
  BY <1>1, Smaller
<1>5. Total([y \in s \ {x} |-> 0]) = 0
  BY <1>1, <1>4
<1>6. Without(v, x) = [y \in s \ {x} |-> 0]
  BY DEF Without
<1>7. Total(v) # 0
  BY <1>1
<1> HIDE DEF v
<1> QED
  BY <1>2, <1>3, <1>5, <1>6, <1>7, TotalSplit

(***************************************************************************)
(* What a function allocates, with all that it calls                       *)
(***************************************************************************)
BodyTyped == IsFiniteSet(Funcs) /\ \A f \in Funcs : body[f] \in Seq(Range(body[f]))

\* What effective has for one set of visited functions.
Level(e, visited, c) ==
  [g \in Funcs |->
     IF g \in visited THEN 0
     ELSE Allocs(g, c) + Total([h \in Funcs |-> Calls(g, h) * e[visited \cup {g}][h]])]

\* e is the function that effective_allocs recurs through.
Deepens(e, c) == e = [visited \in SUBSET Funcs |-> Level(e, visited, c)]

LEMMA EffectiveUnfolds ==
  ASSUME NEW f \in Funcs, NEW c
  PROVE  EffectiveAllocs(f, c) = (CHOOSE e : Deepens(e, c))[{}][f]
BY DEF EffectiveAllocs, Deepens, Level

LEMMA NodesTyped ==
  ASSUME BodyTyped, NEW f \in Funcs
  PROVE  /\ Len(body[f]) \in Nat /\ DOMAIN body[f] = 1..Len(body[f])
         /\ IsFiniteSet(DOMAIN body[f])
<1>1. Len(body[f]) \in Nat /\ DOMAIN body[f] = 1..Len(body[f])
  BY DEF BodyTyped
<1> QED
  BY <1>1, FS_Interval

LEMMA CountsTyped ==
  ASSUME BodyTyped, NEW f \in Funcs
  PROVE  /\ \A c : Allocs(f, c) \in Nat
         /\ \A h : Calls(f, h) \in Nat
<1>1. IsFiniteSet(DOMAIN body[f])
  BY NodesTyped
<1>2. \A S \in SUBSET DOMAIN body[f] : Cardinality(S) \in Nat
  BY <1>1, FS_Subset, FS_CardinalityType
<1> QED
  BY <1>2 DEF Allocs, Calls

\* The sum over the calls of g, if what is called has numbers.
LEMMA CalleesTyped ==
  ASSUME BodyTyped, NEW g \in Funcs, NEW E \in [Funcs -> Nat]
  PROVE  /\ [h \in Funcs |-> Calls(g, h) * E[h]] \in [Funcs -> Nat]
         /\ Total([h \in Funcs |-> Calls(g, h) * E[h]]) \in Nat
<1> DEFINE w == [h \in Funcs |-> Calls(g, h) * E[h]]
<1>1. \A h \in Funcs : Calls(g, h) \in Nat /\ E[h] \in Nat
  BY CountsTyped
<1>2. \A h \in Funcs : Calls(g, h) * E[h] \in Nat
  BY <1>1
<1>3. w \in [Funcs -> Nat]
  BY <1>2
<1>4. IsFiniteSet(Funcs)
  BY DEF BodyTyped
<1> HIDE DEF w
<1>5. Total(w) \in Nat
  BY <1>3, <1>4, TotalType
<1> QED
  BY <1>3, <1>5 DEF w

LEMMA LevelTyped ==
  ASSUME BodyTyped, NEW c, NEW v \in SUBSET Funcs, NEW e,
         \A g \in Funcs \ v : e[v \cup {g}] \in [Funcs -> Nat]
  PROVE  Level(e, v, c) \in [Funcs -> Nat]
<1>1. ASSUME NEW g \in Funcs
      PROVE  Level(e, v, c)[g] \in Nat
  <2>1. CASE g \in v
    BY <2>1 DEF Level
  <2>2. CASE g \notin v
    <3> DEFINE E == e[v \cup {g}]
    <3>1. E \in [Funcs -> Nat]
      BY <2>2
    <3>2. Level(e, v, c)[g] = Allocs(g, c) + Total([h \in Funcs |-> Calls(g, h) * E[h]])
      BY <2>2 DEF Level
    <3> HIDE DEF E
    <3> QED
      BY <3>1, <3>2, CountsTyped, CalleesTyped
  <2> QED
    BY <2>1, <2>2
<1> QED
  BY <1>1 DEF Level

LEMMA LevelSame ==
  ASSUME NEW c, NEW v, NEW e, NEW q,
         \A g \in Funcs \ v : e[v \cup {g}] = q[v \cup {g}]
  PROVE  Level(e, v, c) = Level(q, v, c)
<1>1. ASSUME NEW g \in Funcs
      PROVE  Level(e, v, c)[g] = Level(q, v, c)[g]
  <2>1. CASE g \in v
    BY <2>1 DEF Level
  <2>2. CASE g \notin v
    <3>1. [h \in Funcs |-> Calls(g, h) * e[v \cup {g}][h]]
            = [h \in Funcs |-> Calls(g, h) * q[v \cup {g}][h]]
      BY <2>2
    <3> QED
      BY <2>2, <3>1 DEF Level
  <2> QED
    BY <2>1, <2>2
<1>2. \A z : Level(z, v, c) = [g \in Funcs |-> Level(z, v, c)[g]]
  BY DEF Level
<1>3. [g \in Funcs |-> Level(e, v, c)[g]] = [g \in Funcs |-> Level(q, v, c)[g]]
  BY <1>1
<1> QED
  BY <1>2, <1>3

LEMMA EffectiveExists ==
  ASSUME BodyTyped, NEW c
  PROVE  \E e : Deepens(e, c)
<1> DEFINE Below(n, e) == \A s \in SUBSET Funcs :
                            Cardinality(s) < n => e[Funcs \ s] = Level(e, Funcs \ s, c)
           T == {n \in Nat : ~\E e : Below(n, e)}
<1>1. IsFiniteSet(Funcs)
  BY DEF BodyTyped
<1>2. \A s \in SUBSET Funcs : Cardinality(s) \in Nat
  BY <1>1, FS_Subset, FS_CardinalityType
<1>3. T = {}
  <2> SUFFICES ASSUME T # {} PROVE FALSE
    OBVIOUS
  <2>1. PICK n \in T : \A m \in T : n <= m
    <3>1. T \in SUBSET Nat
      OBVIOUS
    <3> HIDE DEF T
    <3> QED
      BY <3>1, LeastNat
  <2>2. n \in Nat /\ ~\E e : Below(n, e)
    BY <2>1
  <2>3. n # 0
    BY <1>2, <2>2
  <2>4. n - 1 \in Nat /\ n - 1 \notin T
    <3>1. n - 1 \in Nat
      BY <2>2, <2>3
    <3> HIDE DEF T
    <3> QED
      BY <2>1, <2>2, <3>1
  <2>5. PICK e : Below(n - 1, e)
    BY <2>4
  <2> DEFINE q == [v \in SUBSET Funcs |->
                     IF Cardinality(Funcs \ v) < n - 1 THEN e[v] ELSE Level(e, v, c)]
  <2>6. ASSUME NEW s \in SUBSET Funcs, Cardinality(s) < n
        PROVE  q[Funcs \ s] = Level(q, Funcs \ s, c)
    <3> DEFINE v == Funcs \ s
    <3>1. v \in SUBSET Funcs /\ Funcs \ v = s
      OBVIOUS
    <3>2. q[v] = Level(e, v, c)
      BY <2>5, <3>1
    <3>3. ASSUME NEW g \in Funcs \ v
          PROVE  e[v \cup {g}] = q[v \cup {g}]
      <4>1. g \in s /\ v \cup {g} \in SUBSET Funcs /\ Funcs \ (v \cup {g}) = s \ {g}
        OBVIOUS
      <4>2. Cardinality(s \ {g}) < n - 1
        BY <1>1, <2>2, <2>6, <4>1, Smaller
      <4> HIDE DEF v
      <4> QED
        BY <4>1, <4>2
    <3> HIDE DEF q, v
    <3>4. Level(e, v, c) = Level(q, v, c)
      BY <3>3, LevelSame
    <3> QED
      BY <3>2, <3>4 DEF v
  <2>7. Below(n, q)
    <3> HIDE DEF q
    <3> QED
      BY <2>6
  <2> QED
    BY <2>2, <2>7
<1>4. Cardinality(Funcs) + 1 \in Nat
  BY <1>2
<1>5. PICK e : Below(Cardinality(Funcs) + 1, e)
  BY <1>3, <1>4
<1>6. ASSUME NEW v \in SUBSET Funcs
      PROVE  e[v] = Level(e, v, c)
  <2>1. Funcs \ v \in SUBSET Funcs /\ Funcs \ (Funcs \ v) = v
    OBVIOUS
  <2>2. Cardinality(Funcs \ v) <= Cardinality(Funcs)
    BY <1>1, FS_Subset
  <2>3. Cardinality(Funcs \ v) < Cardinality(Funcs) + 1
    BY <1>2, <2>1, <2>2
  <2> QED
    BY <1>5, <2>1, <2>3
<1> DEFINE q == [v \in SUBSET Funcs |-> e[v]]
<1>7. ASSUME NEW v \in SUBSET Funcs
      PROVE  q[v] = Level(q, v, c)
  <2>1. \A g \in Funcs \ v : v \cup {g} \in SUBSET Funcs
    OBVIOUS
  <2>2. \A g \in Funcs \ v : e[v \cup {g}] = q[v \cup {g}]
    BY <2>1
  <2>3. q[v] = e[v]
    OBVIOUS
  <2> HIDE DEF q
  <2>4. Level(e, v, c) = Level(q, v, c)
    BY <2>2, LevelSame
  <2> QED
    BY <1>6, <2>3, <2>4
<1>8. q = [v \in SUBSET Funcs |-> q[v]]
  OBVIOUS
<1> HIDE DEF q
<1>9. q = [v \in SUBSET Funcs |-> Level(q, v, c)]
  BY <1>7, <1>8
<1> QED
  BY <1>9 DEF Deepens

LEMMA EffectiveValues ==
  ASSUME BodyTyped, NEW c, NEW e, Deepens(e, c)
  PROVE  \A v \in SUBSET Funcs : e[v] = Level(e, v, c) /\ e[v] \in [Funcs -> Nat]
<1>1. IsFiniteSet(Funcs)
  BY DEF BodyTyped
<1>2. \A v \in SUBSET Funcs : e[v] = Level(e, v, c)
  BY DEF Deepens
<1> DEFINE B == {s \in SUBSET Funcs : e[Funcs \ s] \notin [Funcs -> Nat]}
<1>3. B = {}
  <2> SUFFICES ASSUME B # {} PROVE FALSE
    OBVIOUS
  <2>1. PICK s \in B : \A t \in B : Cardinality(s) <= Cardinality(t)
    <3>1. B \in SUBSET SUBSET Funcs
      OBVIOUS
    <3> HIDE DEF B
    <3> QED
      BY <1>1, <3>1, SetsBySize
  <2> DEFINE v == Funcs \ s
  <2>2. s \in SUBSET Funcs /\ v \in SUBSET Funcs /\ e[v] \notin [Funcs -> Nat]
    BY <2>1
  <2>3. ASSUME NEW g \in Funcs \ v
        PROVE  e[v \cup {g}] \in [Funcs -> Nat]
    <3>1. g \in s /\ v \cup {g} = Funcs \ (s \ {g})
      BY <2>2
    <3>2. s \ {g} \in SUBSET Funcs /\ Cardinality(s \ {g}) = Cardinality(s) - 1
          /\ Cardinality(s) \in Nat
      BY <1>1, <2>2, <3>1, Smaller
    <3>3. s \ {g} \notin B
      <4> HIDE DEF B
      <4> QED
        BY <2>1, <3>2
    <3> QED
      BY <3>1, <3>2, <3>3
  <2> HIDE DEF v
  <2>4. Level(e, v, c) \in [Funcs -> Nat]
    BY <2>2, <2>3, LevelTyped
  <2>5. e[v] = Level(e, v, c)
    BY <1>2, <2>2
  <2> QED
    BY <2>2, <2>4, <2>5
<1>4. ASSUME NEW v \in SUBSET Funcs
      PROVE  e[v] \in [Funcs -> Nat]
  <2>1. Funcs \ v \notin B /\ Funcs \ v \in SUBSET Funcs /\ Funcs \ (Funcs \ v) = v
    BY <1>3
  <2> QED
    BY <2>1
<1> QED
  BY <1>2, <1>4

\* A numbering in which what is called comes later.
Ranked(rank) ==
  rank \in Ranks /\ \A f, g \in Funcs : Calls(f, g) > 0 => rank[f] < rank[g]

LEMMA VisitedUnseen ==
  ASSUME BodyTyped, NEW c, NEW e, Deepens(e, c), NEW rank, Ranked(rank),
         NEW g \in Funcs, NEW v \in SUBSET Funcs, \A x \in v : rank[x] < rank[g]
  PROVE  e[v][g] = e[{}][g]
<1> DEFINE N == Cardinality(Funcs)
           Lower(w, h) == \A x \in w : rank[x] < rank[h]
           Same(h) == \A w \in SUBSET Funcs : Lower(w, h) => e[w][h] = e[{}][h]
           T == {n \in Nat : \E h \in Funcs : rank[h] = N - n /\ ~Same(h)}
<1>1. N \in Nat
  BY FS_CardinalityType DEF BodyTyped
<1>2. \A h \in Funcs : rank[h] \in 1..N
  BY DEF Ranked, Ranks
<1>3. T = {}
  <2> SUFFICES ASSUME T # {} PROVE FALSE
    OBVIOUS
  <2>1. PICK n \in T : \A m \in T : n <= m
    <3>1. T \in SUBSET Nat
      OBVIOUS
    <3> HIDE DEF T
    <3> QED
      BY <3>1, LeastNat
  <2>2. PICK h \in Funcs : rank[h] = N - n /\ ~Same(h)
    BY <2>1
  <2>3. n \in Nat
    BY <2>1
  <2>4. ASSUME NEW k \in Funcs, rank[h] < rank[k] PROVE Same(k)
    <3> DEFINE m == N - rank[k]
    <3>1. m \in Nat /\ m < n /\ rank[k] = N - m
      BY <1>1, <1>2, <2>2, <2>3, <2>4
    <3>2. m \notin T
      <4> HIDE DEF T, m
      <4> QED
        BY <2>1, <2>3, <3>1
    <3> HIDE DEF m
    <3> QED
      BY <3>1, <3>2
  <2>5. PICK w \in SUBSET Funcs : Lower(w, h) /\ e[w][h] # e[{}][h]
    BY <2>2
  <2>6. h \notin w
    BY <1>1, <1>2, <2>5
  <2>7. w \cup {h} \in SUBSET Funcs /\ {h} \in SUBSET Funcs /\ {} \in SUBSET Funcs
    OBVIOUS
  <2>8. ASSUME NEW k \in Funcs
        PROVE  Calls(h, k) * e[w \cup {h}][k] = Calls(h, k) * e[{h}][k]
    <3>1. Calls(h, k) \in Nat
      BY CountsTyped
    <3>2. e[w \cup {h}][k] \in Nat /\ e[{h}][k] \in Nat
      BY <2>7, EffectiveValues
    <3>3. CASE Calls(h, k) = 0
      BY <3>2, <3>3
    <3>4. CASE Calls(h, k) > 0
      <4>1. rank[h] < rank[k]
        BY <3>4 DEF Ranked
      <4>2. Lower({h}, k)
        BY <4>1
      <4>3. Lower(w \cup {h}, k)
        BY <1>2, <2>5, <4>1
      <4>4. Same(k)
        BY <2>4, <4>1
      <4> HIDE DEF Lower
      <4>5. e[w \cup {h}][k] = e[{}][k] /\ e[{h}][k] = e[{}][k]
        BY <2>7, <4>2, <4>3, <4>4
      <4> QED
        BY <4>5
    <3> QED
      BY <3>1, <3>3, <3>4
  <2>9. [k \in Funcs |-> Calls(h, k) * e[w \cup {h}][k]]
          = [k \in Funcs |-> Calls(h, k) * e[{h}][k]]
    BY <2>8
  <2>10. /\ e[w][h] = Allocs(h, c) + Total([k \in Funcs |-> Calls(h, k) * e[w \cup {h}][k]])
         /\ e[{}][h] = Allocs(h, c) + Total([k \in Funcs |-> Calls(h, k) * e[{} \cup {h}][k]])
    <3>1. \A u \in SUBSET Funcs : e[u] = Level(e, u, c)
      BY EffectiveValues
    <3>2. e[w] = Level(e, w, c) /\ e[{}] = Level(e, {}, c)
      BY <2>7, <3>1
    <3>3. Level(e, w, c)[h]
            = Allocs(h, c) + Total([k \in Funcs |-> Calls(h, k) * e[w \cup {h}][k]])
      BY <2>6 DEF Level
    <3>4. Level(e, {}, c)[h]
            = Allocs(h, c) + Total([k \in Funcs |-> Calls(h, k) * e[{} \cup {h}][k]])
      BY DEF Level
    <3> QED
      BY <3>2, <3>3, <3>4
  <2>11. {} \cup {h} = {h}
    OBVIOUS
  <2> QED
    BY <2>5, <2>9, <2>10, <2>11
<1>4. Same(g)
  <2> DEFINE m == N - rank[g]
  <2>1. m \in Nat /\ rank[g] = N - m
    BY <1>1, <1>2
  <2>2. m \notin T
    BY <1>3
  <2> HIDE DEF m, Same
  <2> QED
    BY <2>1, <2>2
<1> QED
  BY <1>4

LEMMA EffectiveNat ==
  ASSUME BodyTyped, NEW f, NEW c
  PROVE  EffectiveAllocs(f, c) \in Nat
<1>1. CASE f \notin Funcs
  BY <1>1 DEF EffectiveAllocs
<1>2. CASE f \in Funcs
  <2>1. PICK e : e = CHOOSE x : Deepens(x, c)
    OBVIOUS
  <2>2. Deepens(e, c)
    BY <2>1, EffectiveExists
  <2>3. {} \in SUBSET Funcs
    OBVIOUS
  <2>4. e[{}] \in [Funcs -> Nat]
    BY <2>2, <2>3, EffectiveValues
  <2> QED
    BY <1>2, <2>1, <2>4, EffectiveUnfolds
<1> QED
  BY <1>1, <1>2

\* Without recursion a function allocates what its own allocs do and what each of its
\* calls does.
LEMMA EffectiveIs ==
  ASSUME BodyTyped, NEW rank, Ranked(rank), NEW f \in Funcs, NEW c
  PROVE  EffectiveAllocs(f, c)
           = Allocs(f, c) + Total([h \in Funcs |-> Calls(f, h) * EffectiveAllocs(h, c)])
<1>1. PICK e : e = CHOOSE x : Deepens(x, c)
  OBVIOUS
<1>2. Deepens(e, c)
  BY <1>1, EffectiveExists
<1>3. \A h \in Funcs : EffectiveAllocs(h, c) = e[{}][h]
  BY <1>1, EffectiveUnfolds
<1>4. {} \in SUBSET Funcs /\ {f} \in SUBSET Funcs /\ {} \cup {f} = {f}
  OBVIOUS
<1>5. ASSUME NEW h \in Funcs
      PROVE  Calls(f, h) * e[{f}][h] = Calls(f, h) * e[{}][h]
  <2>1. Calls(f, h) \in Nat /\ e[{f}][h] \in Nat /\ e[{}][h] \in Nat
    BY <1>2, <1>4, CountsTyped, EffectiveValues
  <2>2. CASE Calls(f, h) = 0
    BY <2>1, <2>2
  <2>3. CASE Calls(f, h) > 0
    <3>1. \A x \in {f} : rank[x] < rank[h]
      BY <2>3 DEF Ranked
    <3> DEFINE v == {f}
    <3> HIDE DEF v
    <3>2. e[v][h] = e[{}][h]
      BY <1>2, <1>4, <3>1, VisitedUnseen DEF v
    <3> QED
      BY <3>2 DEF v
  <2> QED
    BY <2>1, <2>2, <2>3
<1>6. [h \in Funcs |-> Calls(f, h) * e[{f}][h]]
        = [h \in Funcs |-> Calls(f, h) * EffectiveAllocs(h, c)]
  BY <1>3, <1>5
<1>7. e[{}][f] = Allocs(f, c) + Total([h \in Funcs |-> Calls(f, h) * e[{f}][h]])
  <2>1. e[{}] = Level(e, {}, c)
    BY <1>2, <1>4, EffectiveValues
  <2>2. Level(e, {}, c)[f]
          = Allocs(f, c) + Total([h \in Funcs |-> Calls(f, h) * e[{} \cup {f}][h]])
    BY DEF Level
  <2> QED
    BY <1>4, <2>1, <2>2
<1> QED
  BY <1>3, <1>6, <1>7

(***************************************************************************)
(* What the threads still have to allocate                                 *)
(***************************************************************************)
\* The allocs and calls of f from its kth node on.
AllocsFrom(f, k, c) ==
  Cardinality({i \in DOMAIN body[f] :
                 i >= k /\ body[f][i].kind = "alloc" /\ body[f][i].class = c})

CallsFrom(f, k, g) ==
  Cardinality({i \in DOMAIN body[f] :
                 i >= k /\ body[f][i].kind = "call" /\ body[f][i].seen = g})

Through(f, k, c) == [h \in Funcs |-> CallsFrom(f, k, h) * EffectiveAllocs(h, c)]
Owed(f, k, c) == AllocsFrom(f, k, c) + Total(Through(f, k, c))
OwedIn(s, c) == Total([i \in DOMAIN s |-> Owed(s[i].func, s[i].at, c)])
OwedBy(t, c) == IF t \in DOMAIN stacks THEN OwedIn(stacks[t], c) ELSE 0

\* What each thread allocates from its start to its end.
Promised(t, c) == IF t \in DOMAIN stacks THEN EffectiveAllocs(t, c) ELSE 0
Threads == IF Funcs \cap Started # {} THEN Started ELSE DOMAIN stacks

\* A call, if every node runs once.
Frames == {fr \in [func : Funcs, at : Nat \ {0}, left : {0, 1}] :
             /\ fr.at <= Len(body[fr.func]) + 1
             /\ fr.left = IF fr.at <= Len(body[fr.func]) THEN 1 ELSE 0}

StackInv(s) ==
  /\ s \in Seq(Frames)
  /\ \A rank : Ranked(rank) => \A i \in DOMAIN s : i <= rank[s[i].func]

Balanced ==
  \A c \in Pooled : taken[c] + Total([t \in Threads |-> OwedBy(t, c)])
                      = Total([t \in Threads |-> Promised(t, c)])

StacksInv == \A t \in DOMAIN stacks : StackInv(stacks[t])

StartedRight ==
  IF Funcs \cap Started # {} THEN DOMAIN stacks = Funcs \cap Started
  ELSE \E f \in Funcs : DOMAIN stacks = {f}

PoolsInv ==
  /\ body \in Programs
  /\ counts # <<>> =>
       /\ counts = PoolCounts
       /\ taken \in [Pooled -> Nat]
       /\ StartedRight
       /\ Seen => StacksInv /\ Balanced

LEMMA ProgramTyped ==
  ASSUME body \in Programs
  PROVE  BodyTyped
BY PoolsAssumption DEF BodyTyped, Funcs

LEMMA FromTyped ==
  ASSUME BodyTyped, NEW f \in Funcs, NEW k
  PROVE  /\ \A c : AllocsFrom(f, k, c) \in Nat
         /\ \A h : CallsFrom(f, k, h) \in Nat
<1>1. IsFiniteSet(DOMAIN body[f])
  BY NodesTyped
<1>2. \A S \in SUBSET DOMAIN body[f] : Cardinality(S) \in Nat
  BY <1>1, FS_Subset, FS_CardinalityType
<1> QED
  BY <1>2 DEF AllocsFrom, CallsFrom

LEMMA OwedTyped ==
  ASSUME BodyTyped, NEW f \in Funcs, NEW k, NEW c
  PROVE  /\ Through(f, k, c) \in [Funcs -> Nat]
         /\ Total(Through(f, k, c)) \in Nat
         /\ Owed(f, k, c) \in Nat
<1>1. \A h \in Funcs : CallsFrom(f, k, h) \in Nat /\ EffectiveAllocs(h, c) \in Nat
  BY FromTyped, EffectiveNat
<1>2. \A h \in Funcs : CallsFrom(f, k, h) * EffectiveAllocs(h, c) \in Nat
  BY <1>1
<1>3. Through(f, k, c) \in [Funcs -> Nat]
  BY <1>2 DEF Through
<1>4. IsFiniteSet(Funcs)
  BY DEF BodyTyped
<1>5. Total(Through(f, k, c)) \in Nat
  BY <1>3, <1>4, TotalType
<1> QED
  BY <1>3, <1>5, FromTyped DEF Owed

LEMMA OwedAtStart ==
  ASSUME BodyTyped, NEW rank, Ranked(rank), NEW f \in Funcs, NEW c
  PROVE  Owed(f, 1, c) = EffectiveAllocs(f, c)
<1>1. \A i \in DOMAIN body[f] : i >= 1
  BY NodesTyped
<1>2. AllocsFrom(f, 1, c) = Allocs(f, c)
  BY <1>1 DEF AllocsFrom, Allocs
<1>3. \A h : CallsFrom(f, 1, h) = Calls(f, h)
  BY <1>1 DEF CallsFrom, Calls
<1>4. Through(f, 1, c) = [h \in Funcs |-> Calls(f, h) * EffectiveAllocs(h, c)]
  BY <1>3 DEF Through
<1> QED
  BY <1>2, <1>4, EffectiveIs DEF Owed

LEMMA OwedAtEnd ==
  ASSUME BodyTyped, NEW f \in Funcs, NEW k \in Nat, k > Len(body[f]), NEW c
  PROVE  Owed(f, k, c) = 0
<1>1. \A i \in DOMAIN body[f] : ~(i >= k)
  BY NodesTyped
<1>2. AllocsFrom(f, k, c) = 0 /\ \A h : CallsFrom(f, k, h) = 0
  BY <1>1, FS_EmptySet DEF AllocsFrom, CallsFrom
<1>3. \A h \in Funcs : CallsFrom(f, k, h) * EffectiveAllocs(h, c) = 0
  BY <1>2, EffectiveNat
<1>4. Through(f, k, c) = [h \in Funcs |-> 0]
  BY <1>3 DEF Through
<1>5. Total(Through(f, k, c)) = 0
  BY <1>4, TotalZero DEF BodyTyped
<1> QED
  BY <1>2, <1>5 DEF Owed

\* What one node takes away.
One(b) == IF b THEN 1 ELSE 0

LEMMA FromNext ==
  ASSUME BodyTyped, NEW f \in Funcs, NEW k \in DOMAIN body[f], NEW c, NEW h
  PROVE  /\ AllocsFrom(f, k, c) = AllocsFrom(f, k + 1, c)
              + One(body[f][k].kind = "alloc" /\ body[f][k].class = c)
         /\ CallsFrom(f, k, h) = CallsFrom(f, k + 1, h)
              + One(body[f][k].kind = "call" /\ body[f][k].seen = h)
<1> DEFINE D == DOMAIN body[f]
           A(j) == {i \in D : i >= j /\ body[f][i].kind = "alloc" /\ body[f][i].class = c}
           C(j) == {i \in D : i >= j /\ body[f][i].kind = "call" /\ body[f][i].seen = h}
<1>1. D \in SUBSET Nat /\ IsFiniteSet(D) /\ k \in Nat
  BY NodesTyped
<1>2. \A j : IsFiniteSet(A(j)) /\ IsFiniteSet(C(j))
  BY <1>1, FS_Subset
<1>3. Cardinality(A(k)) = Cardinality(A(k + 1))
        + One(body[f][k].kind = "alloc" /\ body[f][k].class = c)
  <2>1. CASE body[f][k].kind = "alloc" /\ body[f][k].class = c
    <3>1. A(k) = A(k + 1) \cup {k} /\ k \notin A(k + 1)
      BY <1>1, <2>1
    <3>2. Cardinality(A(k)) = Cardinality(A(k + 1)) + 1
      BY ZenonT(60), <1>2, <3>1, FS_AddElement
    <3> QED
      BY <2>1, <3>2 DEF One
  <2>2. CASE ~(body[f][k].kind = "alloc" /\ body[f][k].class = c)
    <3>1. A(k) = A(k + 1)
      BY <1>1, <2>2
    <3>2. Cardinality(A(k)) \in Nat
      BY <1>2, FS_CardinalityType
    <3>3. One(body[f][k].kind = "alloc" /\ body[f][k].class = c) = 0
      BY <2>2 DEF One
    <3> HIDE DEF A
    <3> QED
      BY <3>1, <3>2, <3>3
  <2> QED
    BY <2>1, <2>2
<1>4. Cardinality(C(k)) = Cardinality(C(k + 1))
        + One(body[f][k].kind = "call" /\ body[f][k].seen = h)
  <2>1. CASE body[f][k].kind = "call" /\ body[f][k].seen = h
    <3>1. C(k) = C(k + 1) \cup {k} /\ k \notin C(k + 1)
      BY <1>1, <2>1
    <3>2. Cardinality(C(k)) = Cardinality(C(k + 1)) + 1
      BY ZenonT(60), <1>2, <3>1, FS_AddElement
    <3> QED
      BY <2>1, <3>2 DEF One
  <2>2. CASE ~(body[f][k].kind = "call" /\ body[f][k].seen = h)
    <3>1. C(k) = C(k + 1)
      BY <1>1, <2>2
    <3>2. Cardinality(C(k)) \in Nat
      BY <1>2, FS_CardinalityType
    <3>3. One(body[f][k].kind = "call" /\ body[f][k].seen = h) = 0
      BY <2>2 DEF One
    <3> HIDE DEF C
    <3> QED
      BY <3>1, <3>2, <3>3
  <2> QED
    BY <2>1, <2>2
<1> QED
  BY <1>3, <1>4 DEF AllocsFrom, CallsFrom

LEMMA AfterAlloc ==
  ASSUME BodyTyped, NEW f \in Funcs, NEW k \in DOMAIN body[f], NEW c,
         body[f][k].kind = "alloc"
  PROVE  Owed(f, k, c) = Owed(f, k + 1, c) + One(body[f][k].class = c)
<1>1. AllocsFrom(f, k, c) = AllocsFrom(f, k + 1, c) + One(body[f][k].class = c)
  BY FromNext DEF One
<1>2. \A h \in Funcs : CallsFrom(f, k, h) = CallsFrom(f, k + 1, h)
  <2> SUFFICES ASSUME NEW h \in Funcs PROVE CallsFrom(f, k, h) = CallsFrom(f, k + 1, h)
    OBVIOUS
  <2>1. CallsFrom(f, k, h) = CallsFrom(f, k + 1, h) + 0
    BY FromNext DEF One
  <2> QED
    BY <2>1, FromTyped
<1>3. Through(f, k, c) = Through(f, k + 1, c)
  BY <1>2 DEF Through
<1>4. /\ AllocsFrom(f, k + 1, c) \in Nat /\ Total(Through(f, k + 1, c)) \in Nat
      /\ One(body[f][k].class = c) \in Nat
  BY FromTyped, OwedTyped DEF One
<1> QED
  BY <1>1, <1>3, <1>4 DEF Owed

LEMMA AfterCall ==
  ASSUME BodyTyped, NEW f \in Funcs, NEW k \in DOMAIN body[f], NEW c,
         body[f][k].kind = "call"
  PROVE  Owed(f, k, c) = Owed(f, k + 1, c)
           + IF body[f][k].seen \in Funcs THEN EffectiveAllocs(body[f][k].seen, c) ELSE 0
<1> DEFINE g == body[f][k].seen
           w == Through(f, k, c)
           v == Through(f, k + 1, c)
<1>1. AllocsFrom(f, k, c) = AllocsFrom(f, k + 1, c)
  <2>1. AllocsFrom(f, k, c) = AllocsFrom(f, k + 1, c) + 0
    BY FromNext DEF One
  <2> QED
    BY <2>1, FromTyped
<1>2. \A h \in Funcs : CallsFrom(f, k, h) = CallsFrom(f, k + 1, h) + One(g = h)
  BY FromNext DEF One
<1>3. \A h \in Funcs : h # g => w[h] = v[h]
  <2> SUFFICES ASSUME NEW h \in Funcs, h # g PROVE w[h] = v[h]
    OBVIOUS
  <2>1. CallsFrom(f, k, h) = CallsFrom(f, k + 1, h)
    BY <1>2, FromTyped DEF One
  <2> QED
    BY <2>1 DEF Through
<1>4. w \in [Funcs -> Nat] /\ v \in [Funcs -> Nat] /\ IsFiniteSet(Funcs)
  BY OwedTyped DEF BodyTyped
<1>5. AllocsFrom(f, k + 1, c) \in Nat /\ Total(w) \in Nat /\ Total(v) \in Nat
  BY FromTyped, OwedTyped
<1>6. CASE g \in Funcs
  <2>1. w[g] = v[g] + EffectiveAllocs(g, c)
    <3>1. CallsFrom(f, k, g) = CallsFrom(f, k + 1, g) + 1
      BY <1>2, <1>6 DEF One
    <3>2. CallsFrom(f, k + 1, g) \in Nat /\ EffectiveAllocs(g, c) \in Nat
      BY FromTyped, EffectiveNat
    <3>3. \A a, b, x \in Nat : a = b + 1 => a * x = b * x + x
      OBVIOUS
    <3>4. w[g] = CallsFrom(f, k, g) * EffectiveAllocs(g, c)
          /\ v[g] = CallsFrom(f, k + 1, g) * EffectiveAllocs(g, c)
      BY <1>6 DEF Through
    <3>5. CallsFrom(f, k, g) \in Nat
      BY FromTyped
    <3> HIDE DEF w, v, g
    <3> QED
      BY <3>1, <3>2, <3>3, <3>4, <3>5
  <2> HIDE DEF w, v, g
  <2>2. Total(w) - w[g] = Total(v) - v[g]
    BY <1>3, <1>4, <1>6, TotalChange
  <2>3. w[g] \in Nat /\ v[g] \in Nat /\ EffectiveAllocs(g, c) \in Nat
    BY <1>4, <1>6, EffectiveNat
  <2>4. Total(w) = Total(v) + EffectiveAllocs(g, c)
    BY <1>5, <2>1, <2>2, <2>3
  <2>5. Owed(f, k, c) = AllocsFrom(f, k, c) + Total(w)
        /\ Owed(f, k + 1, c) = AllocsFrom(f, k + 1, c) + Total(v)
    BY DEF Owed, w, v
  <2>6. Owed(f, k, c) = Owed(f, k + 1, c) + EffectiveAllocs(g, c)
    BY <1>1, <1>5, <2>3, <2>4, <2>5
  <2> QED
    BY <1>6, <2>6 DEF g
<1>7. CASE g \notin Funcs
  <2>1. w = v
    BY <1>3, <1>4, <1>7
  <2> QED
    BY <1>1, <1>5, <1>7, <2>1 DEF Owed
<1> QED
  BY <1>6, <1>7

LEMMA FrameOwes ==
  ASSUME BodyTyped, NEW s \in Seq(Frames), NEW c
  PROVE  /\ Len(s) \in Nat /\ DOMAIN s = 1..Len(s) /\ IsFiniteSet(DOMAIN s)
         /\ \A i \in DOMAIN s : s[i] \in Frames /\ s[i].func \in Funcs
                                /\ Owed(s[i].func, s[i].at, c) \in Nat
         /\ OwedIn(s, c) \in Nat
<1>1. Len(s) \in Nat /\ DOMAIN s = 1..Len(s)
  OBVIOUS
<1>2. IsFiniteSet(DOMAIN s)
  BY <1>1, FS_Interval
<1>3. \A i \in DOMAIN s : s[i] \in Frames /\ s[i].func \in Funcs
  BY <1>1 DEF Frames
<1>4. \A i \in DOMAIN s : Owed(s[i].func, s[i].at, c) \in Nat
  BY <1>3, OwedTyped
<1> DEFINE w == [i \in DOMAIN s |-> Owed(s[i].func, s[i].at, c)]
<1>5. DOMAIN w = DOMAIN s /\ \A i \in DOMAIN s : w[i] \in Nat
  BY <1>4
<1> HIDE DEF w
<1>6. Total(w) \in Nat
  BY <1>2, <1>5, TotalType
<1> QED
  BY <1>1, <1>2, <1>3, <1>4, <1>6 DEF OwedIn, w

LEMMA OwedAppend ==
  ASSUME BodyTyped, NEW s \in Seq(Frames), NEW fr \in Frames, NEW c
  PROVE  OwedIn(Append(s, fr), c) = OwedIn(s, c) + Owed(fr.func, fr.at, c)
<1> DEFINE r == Append(s, fr)
           n == Len(s) + 1
           w == [i \in DOMAIN r |-> Owed(r[i].func, r[i].at, c)]
           v == [i \in DOMAIN s |-> Owed(s[i].func, s[i].at, c)]
<1>1. /\ r \in Seq(Frames) /\ DOMAIN r = 1..n /\ n \in Nat /\ r[n] = fr
      /\ DOMAIN s = 1..Len(s) /\ Len(s) \in Nat
      /\ \A i \in 1..Len(s) : r[i] = s[i]
  OBVIOUS
<1>2. (1..n) \ {n} = 1..Len(s) /\ n \in 1..n
  BY <1>1
<1> HIDE DEF r
<1>3. /\ IsFiniteSet(DOMAIN r)
      /\ \A i \in DOMAIN r : Owed(r[i].func, r[i].at, c) \in Nat
      /\ OwedIn(s, c) \in Nat
  BY <1>1, FrameOwes
<1>4. w[n] = Owed(fr.func, fr.at, c)
  BY <1>1, <1>2
<1>5. DOMAIN w = DOMAIN r /\ \A i \in DOMAIN w : w[i] \in Nat
  BY <1>3
<1>6. Without(w, n) = v
  <2>1. \A i \in 1..Len(s) : w[i] = v[i] /\ i \in 1..n
    BY <1>1
  <2>2. DOMAIN w \ {n} = 1..Len(s) /\ DOMAIN v = 1..Len(s)
    BY <1>1, <1>2
  <2>3. v = [i \in 1..Len(s) |-> v[i]]
    BY <1>1
  <2> HIDE DEF w, v, n
  <2> QED
    BY <2>1, <2>2, <2>3 DEF Without
<1>7. OwedIn(r, c) = Total(w) /\ OwedIn(s, c) = Total(v)
  BY DEF OwedIn
<1> HIDE DEF w, v, n
<1>8. Total(w) = w[n] + Total(v)
  BY <1>1, <1>2, <1>3, <1>5, <1>6, TotalSplit
<1>9. w[n] \in Nat /\ Total(v) \in Nat
  BY <1>1, <1>2, <1>3, <1>5, <1>7
<1> QED
  BY <1>4, <1>7, <1>8, <1>9 DEF r

LEMMA OwedEmpty ==
  ASSUME NEW c
  PROVE  OwedIn(<<>>, c) = 0
<1> DEFINE w == [i \in DOMAIN <<>> |-> Owed(<<>>[i].func, <<>>[i].at, c)]
<1>1. DOMAIN w = {}
  OBVIOUS
<1> HIDE DEF w
<1>2. Total(w) = 0
  BY <1>1, TotalType, FS_EmptySet
<1> QED
  BY <1>2 DEF OwedIn, w

(***************************************************************************)
(* What does not change with the body                                      *)
(***************************************************************************)
LEMMA EffectiveStays ==
  ASSUME body' = body
  PROVE  \A f, c : EffectiveAllocs(f, c)' = EffectiveAllocs(f, c)
BY DEF EffectiveAllocs, Allocs, Calls, Funcs

LEMMA OwedStays ==
  ASSUME body' = body
  PROVE  /\ \A f, k, c : Owed(f, k, c)' = Owed(f, k, c)
         /\ \A s, c : OwedIn(s, c)' = OwedIn(s, c)
<1>1. ASSUME NEW f, NEW k, NEW c
      PROVE  Owed(f, k, c)' = Owed(f, k, c)
  <2>1. AllocsFrom(f, k, c)' = AllocsFrom(f, k, c)
    BY DEF AllocsFrom
  <2>2. \A h : CallsFrom(f, k, h)' = CallsFrom(f, k, h)
    BY DEF CallsFrom
  <2>3. Through(f, k, c)' = Through(f, k, c)
    BY <2>2, EffectiveStays DEF Through, Funcs
  <2> QED
    BY <2>1, <2>3 DEF Owed
<1>2. ASSUME NEW s, NEW c
      PROVE  OwedIn(s, c)' = OwedIn(s, c)
  <2>1. [i \in DOMAIN s |-> Owed(s[i].func, s[i].at, c)]'
          = [i \in DOMAIN s |-> Owed(s[i].func, s[i].at, c)]
    BY <1>1
  <2> QED
    BY <2>1 DEF OwedIn
<1> QED
  BY <1>1, <1>2

LEMMA CountsStay ==
  ASSUME body' = body
  PROVE  PoolCounts' = PoolCounts
BY DEF PoolCounts, Allocating, EffectiveAllocs, Allocs, Calls, Funcs

LEMMA StackStays ==
  ASSUME body' = body
  PROVE  /\ Seen' <=> Seen
         /\ \A rank : Ranked(rank)' <=> Ranked(rank)
         /\ Frames' = Frames
         /\ \A s : StackInv(s)' <=> StackInv(s)
<1>1. Seen' <=> Seen
  BY DEF Seen, Ranks, Funcs, Calls
<1>2. ASSUME NEW rank
      PROVE  Ranked(rank)' <=> Ranked(rank)
  BY DEF Ranked, Ranks, Funcs, Calls
<1>3. Frames' = Frames
  BY DEF Frames, Funcs
<1>4. ASSUME NEW s
      PROVE  StackInv(s)' <=> StackInv(s)
  BY <1>2, <1>3 DEF StackInv
<1> QED
  BY <1>1, <1>2, <1>3, <1>4

LEMMA SeenRanked ==
  ASSUME Seen
  PROVE  \E rank : Ranked(rank)
BY DEF Seen, Ranked

(***************************************************************************)
(* The steps                                                               *)
(***************************************************************************)
LEMMA FrameTyped ==
  ASSUME BodyTyped, Seen, NEW f \in Funcs
  PROVE  Frame(f) \in Frames
<1>1. Len(body[f]) \in Nat /\ DOMAIN body[f] = 1..Len(body[f]) /\ body[f] \in Seq(Range(body[f]))
  BY NodesTyped DEF BodyTyped
<1>2. CASE body[f] = <<>>
  <2>1. Len(body[f]) = 0
    BY <1>2
  <2>2. Frame(f) = [func |-> f, at |-> 1, left |-> 0]
    BY <1>2 DEF Frame
  <2> QED
    BY <2>1, <2>2 DEF Frames
<1>3. CASE body[f] # <<>>
  <2>1. Len(body[f]) >= 1
    BY <1>1, <1>3
  <2>2. body[f][1].times = 1
    BY <1>1, <2>1 DEF Seen
  <2>3. Frame(f) = [func |-> f, at |-> 1, left |-> 1]
    BY <1>3, <2>2 DEF Frame
  <2> QED
    BY <1>1, <2>1, <2>3 DEF Frames
<1> QED
  BY <1>2, <1>3

\* The stack of a thread that starts.
LEMMA StartOwes ==
  ASSUME BodyTyped, Seen, NEW f \in Funcs
  PROVE  /\ StackInv(<<Frame(f)>>)
         /\ \A c : OwedIn(<<Frame(f)>>, c) = EffectiveAllocs(f, c)
<1>1. Frame(f) \in Frames /\ Frame(f).func = f /\ Frame(f).at = 1
  BY FrameTyped DEF Frame
<1>2. PICK fr \in Frames : fr = Frame(f)
  BY <1>1
<1>3. <<fr>> \in Seq(Frames) /\ <<>> \in Seq(Frames) /\ <<fr>> = Append(<<>>, fr)
  OBVIOUS
<1>4. StackInv(<<fr>>)
  <2>1. ASSUME NEW rank, Ranked(rank), NEW i \in DOMAIN <<fr>>
        PROVE  i <= rank[<<fr>>[i].func]
    <3>1. i = 1 /\ <<fr>>[i].func = f
      BY <1>1, <1>2
    <3>2. rank[f] \in 1..Cardinality(Funcs)
      BY <2>1 DEF Ranked, Ranks
    <3> QED
      BY <3>1, <3>2
  <2> QED
    BY <1>3, <2>1 DEF StackInv
<1>5. ASSUME NEW c
      PROVE  OwedIn(<<fr>>, c) = EffectiveAllocs(f, c)
  <2>1. OwedIn(<<fr>>, c) = OwedIn(<<>>, c) + Owed(f, 1, c)
    BY ZenonT(60), <1>1, <1>2, <1>3, OwedAppend
  <2>2. Owed(f, 1, c) = EffectiveAllocs(f, c)
    BY SeenRanked, OwedAtStart
  <2> QED
    BY <2>1, <2>2, OwedEmpty, EffectiveNat
<1> QED
  BY <1>2, <1>4, <1>5

LEMMA SeqJoin ==
  ASSUME NEW S, NEW s \in Seq(S), NEW r \in Seq(S), NEW e \in S,
         Len(s) = Len(r) + 1, \A i \in 1..Len(r) : r[i] = s[i], s[Len(s)] = e
  PROVE  Append(r, e) = s
<1>1. Append(r, e) \in Seq(S) /\ Len(Append(r, e)) = Len(s)
  OBVIOUS
<1>2. ASSUME NEW i \in 1..Len(s)
      PROVE  Append(r, e)[i] = s[i]
  <2>1. CASE i = Len(s)
    BY <2>1
  <2>2. CASE i # Len(s)
    <3>1. i \in 1..Len(r)
      BY <2>2
    <3> QED
      BY <3>1
  <2> QED
    BY <2>1, <2>2
<1> QED
  BY <1>1, <1>2

\* A stack that is not empty, taken apart.
LEMMA StackParts ==
  ASSUME BodyTyped, NEW s, StackInv(s), s # <<>>
  PROVE  /\ Front(s) \in Seq(Frames) /\ Last(s) \in Frames /\ Last(s).func \in Funcs
         /\ s = Append(Front(s), Last(s)) /\ StackInv(Front(s))
         /\ Len(Front(s)) = Len(s) - 1
<1>1. s \in Seq(Frames) /\ Len(s) \in Nat /\ Len(s) >= 1 /\ DOMAIN s = 1..Len(s)
  BY DEF StackInv
<1>2. Last(s) = s[Len(s)] /\ Last(s) \in Frames
  BY <1>1 DEF Last
<1>3. /\ Front(s) \in Seq(Frames) /\ Len(Front(s)) = Len(s) - 1
      /\ \A i \in 1..(Len(s) - 1) : Front(s)[i] = s[i]
  <2>1. Len(s) - 1 \in 0..Len(s)
    BY <1>1
  <2> QED
    BY <1>1, <2>1, Prefix DEF Front
<1>4. s = Append(Front(s), Last(s))
  <2> DEFINE r == Front(s)
             fr == Last(s)
  <2>1. /\ r \in Seq(Frames) /\ Len(r) = Len(s) - 1 /\ fr \in Frames /\ fr = s[Len(s)]
        /\ \A i \in 1..(Len(s) - 1) : r[i] = s[i]
    BY <1>2, <1>3
  <2> HIDE DEF r, fr
  <2>2. Len(s) = Len(r) + 1 /\ \A i \in 1..Len(r) : r[i] = s[i]
    BY <1>1, <2>1
  <2>3. Append(r, fr) = s
    BY <1>1, <2>1, <2>2, SeqJoin
  <2> QED
    BY <2>3 DEF r, fr
<1>5. StackInv(Front(s))
  <2>1. ASSUME NEW rank, Ranked(rank), NEW i \in DOMAIN Front(s)
        PROVE  i <= rank[Front(s)[i].func]
    <3>1. i \in 1..(Len(s) - 1) /\ i \in DOMAIN s
      BY <1>1, <1>3
    <3> QED
      BY <1>3, <2>1, <3>1 DEF StackInv
  <2> QED
    BY <1>3, <2>1 DEF StackInv
<1>6. Last(s).func \in Funcs
  BY <1>2 DEF Frames
<1> QED
  BY <1>2, <1>3, <1>4, <1>5, <1>6

\* A stack may have one more call if it is of a function that comes later.
LEMMA StackGrows ==
  ASSUME NEW s, StackInv(s), NEW fr \in Frames,
         \A rank : Ranked(rank) => Len(s) + 1 <= rank[fr.func]
  PROVE  StackInv(Append(s, fr))
<1>1. s \in Seq(Frames) /\ Len(s) \in Nat /\ DOMAIN s = 1..Len(s)
  BY DEF StackInv
<1> DEFINE r == Append(s, fr)
<1>2. /\ r \in Seq(Frames) /\ DOMAIN r = 1..(Len(s) + 1) /\ r[Len(s) + 1] = fr
      /\ \A i \in 1..Len(s) : r[i] = s[i]
  BY <1>1
<1> HIDE DEF r
<1>3. ASSUME NEW rank, Ranked(rank), NEW i \in DOMAIN r
      PROVE  i <= rank[r[i].func]
  <2>1. CASE i = Len(s) + 1
    BY <1>2, <1>3, <2>1
  <2>2. CASE i # Len(s) + 1
    <3>1. i \in DOMAIN s /\ r[i] = s[i]
      BY <1>1, <1>2, <2>2
    <3> QED
      BY <1>3, <3>1 DEF StackInv
  <2> QED
    BY <2>1, <2>2
<1> QED
  BY <1>2, <1>3 DEF StackInv, r

\* A thread stands with frame fr, of node k of f, on the calls r, and the node's
\* run leaves the frame new.
Stands(t, r, fr, new, f, k) ==
  /\ stacks[t] = Append(r, fr) /\ Advance(t) = Append(r, new)
  /\ r \in Seq(Frames) /\ StackInv(r) /\ Len(r) + 1 = Len(stacks[t])
  /\ fr \in Frames /\ fr.func = f /\ fr.at = k
  /\ new \in Frames /\ new.func = f /\ new.at = k + 1
  /\ f \in Funcs /\ k \in DOMAIN body[f] /\ Node(t) = body[f][k]
  /\ StackInv(Append(r, new))

\* When a node has run, the thread stands at the next one.
LEMMA AdvanceIs ==
  ASSUME BodyTyped, Seen, NEW t, StackInv(stacks[t]), Busy(t)
  PROVE  \E r, fr, new, f, k : Stands(t, r, fr, new, f, k)
<1> DEFINE s == stacks[t]
           r == Front(s)
           fr == Last(s)
           f == fr.func
           k == fr.at
           new == [func |-> f, at |-> k + 1,
                   left |-> IF k + 1 > Len(body[f]) THEN 0 ELSE body[f][k + 1].times]
<1>1. s # <<>> /\ fr.left > 0
  BY DEF Busy
<1>2. /\ r \in Seq(Frames) /\ fr \in Frames /\ f \in Funcs
      /\ s = Append(r, fr) /\ StackInv(r) /\ Len(r) = Len(s) - 1
  BY <1>1, StackParts
<1>3. fr.left = 1 /\ k \in Nat \ {0} /\ k <= Len(body[f])
  BY <1>1, <1>2 DEF Frames
<1>4. Len(body[f]) \in Nat /\ DOMAIN body[f] = 1..Len(body[f])
  BY <1>2, NodesTyped
<1>5. k \in DOMAIN body[f] /\ Node(t) = body[f][k]
  BY <1>3, <1>4 DEF Node
<1>6. Advance(t) = Append(r, new)
  BY <1>3 DEF Advance
<1>7. fr \in [func : Funcs, at : Nat \ {0}, left : {0, 1}]
  BY <1>2 DEF Frames
<1>8. new \in Frames /\ new.func = f /\ new.at = k + 1
  <2> DEFINE l == IF k + 1 > Len(body[f]) THEN 0 ELSE body[f][k + 1].times
  <2>1. l = IF k + 1 <= Len(body[f]) THEN 1 ELSE 0
    <3>1. CASE k + 1 <= Len(body[f])
      <4>1. k + 1 \in DOMAIN body[f]
        BY <1>3, <1>4, <3>1
      <4>2. body[f][k + 1].times = 1
        BY <1>2, <4>1 DEF Seen
      <4> QED
        BY <1>3, <1>4, <3>1, <4>2
    <3>2. CASE ~(k + 1 <= Len(body[f]))
      BY <1>3, <1>4, <3>2
    <3> QED
      BY <3>1, <3>2
  <2>2. new = [func |-> f, at |-> k + 1, left |-> l]
    OBVIOUS
  <2> HIDE DEF l, new
  <2>3. k + 1 \in Nat \ {0} /\ k + 1 <= Len(body[f]) + 1
    BY <1>3, <1>4
  <2> QED
    BY <1>2, <2>1, <2>2, <2>3 DEF Frames
<1> HIDE DEF new, r, fr
<1>9. StackInv(Append(r, new))
  <2>1. ASSUME NEW rank, Ranked(rank)
        PROVE  Len(r) + 1 <= rank[new.func]
    <3>1. Len(s) \in DOMAIN s /\ s[Len(s)] = fr /\ Len(r) + 1 = Len(s)
      BY <1>2
    <3>2. Len(s) <= rank[s[Len(s)].func]
      BY <2>1, <3>1 DEF StackInv
    <3> QED
      BY <1>8, <3>1, <3>2
  <2> QED
    BY <1>2, <1>8, <2>1, StackGrows
<1>10. Len(r) + 1 = Len(s)
  <2>1. Len(s) \in Nat
    BY DEF StackInv
  <2> QED
    BY <1>2, <2>1
<1>11. Stands(t, r, fr, new, f, k)
  BY <1>2, <1>5, <1>6, <1>8, <1>9, <1>10 DEF Stands
<1> QED
  BY <1>11

LEMMA ThreadsFacts ==
  ASSUME BodyTyped, StartedRight
  PROVE  /\ IsFiniteSet(Threads) /\ DOMAIN stacks \subseteq Threads
         /\ DOMAIN stacks \subseteq Funcs
         /\ Funcs \cap Started # {} => Threads = Started
         /\ Funcs \cap Started = {} => \E f \in Funcs : Threads = {f} /\ DOMAIN stacks = {f}
<1>1. IsFiniteSet(Started)
  BY PoolsAssumption, FS_Singleton, FS_Union DEF Started
<1>2. CASE Funcs \cap Started # {}
  BY <1>1, <1>2 DEF StartedRight, Threads
<1>3. CASE Funcs \cap Started = {}
  BY <1>3, FS_Singleton DEF StartedRight, Threads
<1> QED
  BY <1>2, <1>3

LEMMA OwedByTyped ==
  ASSUME BodyTyped, StacksInv, NEW t, NEW c
  PROVE  OwedBy(t, c) \in Nat
<1>1. CASE t \in DOMAIN stacks
  <2>1. stacks[t] \in Seq(Frames)
    BY <1>1 DEF StacksInv, StackInv
  <2> QED
    BY <1>1, <2>1, FrameOwes DEF OwedBy
<1>2. CASE t \notin DOMAIN stacks
  BY <1>2 DEF OwedBy
<1> QED
  BY <1>1, <1>2

\* A step of one thread keeps the balance if its stack and what is taken do.
LEMMA ThreadStep ==
  ASSUME BodyTyped, StartedRight, StacksInv, Balanced, taken \in [Pooled -> Nat],
         body' = body, NEW t \in DOMAIN stacks, NEW s, StackInv(s),
         stacks' = [stacks EXCEPT ![t] = s], taken' \in [Pooled -> Nat],
         \A c \in Pooled : taken'[c] + OwedIn(s, c) = taken[c] + OwedIn(stacks[t], c)
  PROVE  StacksInv' /\ Balanced' /\ StartedRight'
<1>1. /\ DOMAIN stacks' = DOMAIN stacks /\ stacks'[t] = s
      /\ \A u \in DOMAIN stacks : u # t => stacks'[u] = stacks[u]
  OBVIOUS
<1>2. StartedRight'
  BY <1>1 DEF StartedRight, Funcs
<1>3. StacksInv'
  <2> SUFFICES ASSUME NEW u \in DOMAIN stacks' PROVE StackInv(stacks[u])'
    BY DEF StacksInv
  <2>1. StackInv(stacks'[u])
    BY <1>1 DEF StacksInv
  <2> HIDE DEF StackInv
  <2>2. PICK q : q = stacks'[u]
    OBVIOUS
  <2>3. StackInv(q) /\ (StackInv(q)' <=> StackInv(q))
    BY <2>1, <2>2, StackStays
  <2> QED
    BY <2>2, <2>3 DEF StackInv
<1>4. Threads' = Threads
  BY <1>1 DEF Threads, Funcs
<1>5. ASSUME NEW c \in Pooled
      PROVE  taken'[c] + Total([u \in Threads |-> OwedBy(u, c)'])
               = Total([u \in Threads |-> Promised(u, c)'])
  <2> DEFINE w == [u \in Threads |-> OwedBy(u, c)]
             v == [u \in Threads |-> OwedBy(u, c)']
  <2>1. \A u : OwedBy(u, c) \in Nat
    BY OwedByTyped
  <2>2. ASSUME NEW u
        PROVE  OwedBy(u, c)' = IF u = t THEN OwedIn(s, c) ELSE OwedBy(u, c)
    <3>1. \A q : OwedIn(q, c)' = OwedIn(q, c)
      BY OwedStays
    <3>2. OwedBy(u, c)' = IF u \in DOMAIN stacks THEN OwedIn(stacks'[u], c) ELSE 0
      <4>1. PICK q : q = stacks'[u]
        OBVIOUS
      <4>2. OwedIn(q, c)' = OwedIn(stacks[u], c)'
        BY <4>1
      <4> QED
        BY <1>1, <3>1, <4>1, <4>2 DEF OwedBy
    <3> QED
      BY <1>1, <3>2 DEF OwedBy
  <2>3. OwedIn(s, c) \in Nat
    BY FrameOwes DEF StackInv
  <2>4. \A u : OwedBy(u, c)' \in Nat
    BY <2>1, <2>2, <2>3
  <2>5. IsFiniteSet(Threads) /\ t \in Threads
    BY ThreadsFacts
  <2>6. w \in [Threads -> Nat] /\ v \in [Threads -> Nat]
    BY <2>1, <2>4
  <2>7. \A u \in Threads : u # t => w[u] = v[u]
    BY <2>2
  <2>8. w[t] = OwedIn(stacks[t], c) /\ v[t] = OwedIn(s, c)
    BY <2>2, <2>5 DEF OwedBy
  <2>9. taken[c] + Total(w) = Total([u \in Threads |-> Promised(u, c)])
    BY DEF Balanced
  <2>10. [u \in Threads |-> Promised(u, c)'] = [u \in Threads |-> Promised(u, c)]
    BY <1>1, EffectiveStays DEF Promised
  <2> HIDE DEF w, v
  <2>11. Total(w) - w[t] = Total(v) - v[t]
    BY <2>5, <2>6, <2>7, TotalChange
  <2>12. Total(w) \in Nat /\ Total(v) \in Nat /\ w[t] \in Nat /\ v[t] \in Nat
    BY <2>5, <2>6, TotalType
  <2>13. taken'[c] + v[t] = taken[c] + w[t] /\ taken[c] \in Nat /\ taken'[c] \in Nat
    BY <2>8
  <2>14. taken'[c] + Total(v) = taken[c] + Total(w)
    BY <2>11, <2>12, <2>13
  <2> QED
    BY <2>9, <2>10, <2>14 DEF v
<1>6. Balanced'
  BY <1>4, <1>5 DEF Balanced
<1> QED
  BY <1>2, <1>3, <1>6

LEMMA AllocKeeps ==
  ASSUME BodyTyped, Seen, StartedRight, StacksInv, Balanced, taken \in [Pooled -> Nat],
         NEW t \in DOMAIN stacks, Alloc(t)
  PROVE  StacksInv' /\ Balanced' /\ StartedRight' /\ taken' \in [Pooled -> Nat]
<1>1. StackInv(stacks[t])
  BY DEF StacksInv
<1> Busy(t)
  BY DEF Alloc
<1>0. PICK r, fr, new, f, k : Stands(t, r, fr, new, f, k)
  BY <1>1, AdvanceIs
<1>2. /\ stacks[t] = Append(r, fr) /\ Advance(t) = Append(r, new)
      /\ r \in Seq(Frames) /\ StackInv(r) /\ Len(r) + 1 = Len(stacks[t])
      /\ fr \in Frames /\ fr.func = f /\ fr.at = k
      /\ new \in Frames /\ new.func = f /\ new.at = k + 1
      /\ f \in Funcs /\ k \in DOMAIN body[f] /\ Node(t) = body[f][k]
      /\ StackInv(Append(r, new))
  BY <1>0 DEF Stands
<1>3. /\ body' = body /\ stacks' = [stacks EXCEPT ![t] = Append(r, new)]
      /\ body[f][k].kind = "alloc"
      /\ taken' = [c \in Pooled |-> taken[c] + IF c = body[f][k].class THEN 1 ELSE 0]
  BY <1>2 DEF Alloc
<1>4. taken' \in [Pooled -> Nat]
  BY <1>3
<1>5. ASSUME NEW c \in Pooled
      PROVE  taken'[c] + OwedIn(Append(r, new), c) = taken[c] + OwedIn(stacks[t], c)
  <2>1. /\ OwedIn(stacks[t], c) = OwedIn(r, c) + Owed(f, k, c)
        /\ OwedIn(Append(r, new), c) = OwedIn(r, c) + Owed(f, k + 1, c)
    BY <1>2, OwedAppend
  <2>2. Owed(f, k, c) = Owed(f, k + 1, c) + One(body[f][k].class = c)
    BY <1>2, <1>3, AfterAlloc
  <2>3. taken'[c] = taken[c] + One(body[f][k].class = c)
    BY <1>3 DEF One
  <2>4. OwedIn(r, c) \in Nat /\ Owed(f, k + 1, c) \in Nat /\ One(body[f][k].class = c) \in Nat
    BY <1>2, FrameOwes, OwedTyped DEF One
  <2> QED
    BY <2>1, <2>2, <2>3, <2>4
<1> QED
  BY <1>2, <1>3, <1>4, <1>5, ThreadStep

LEMMA CallKeeps ==
  ASSUME BodyTyped, Seen, StartedRight, StacksInv, Balanced, taken \in [Pooled -> Nat],
         NEW t \in DOMAIN stacks, Call(t)
  PROVE  StacksInv' /\ Balanced' /\ StartedRight' /\ taken' \in [Pooled -> Nat]
<1>1. StackInv(stacks[t])
  BY DEF StacksInv
<1> Busy(t)
  BY DEF Call
<1>0. PICK r, fr, new, f, k : Stands(t, r, fr, new, f, k)
  BY <1>1, AdvanceIs
<1>2. /\ stacks[t] = Append(r, fr) /\ Advance(t) = Append(r, new)
      /\ r \in Seq(Frames) /\ StackInv(r) /\ Len(r) + 1 = Len(stacks[t])
      /\ fr \in Frames /\ fr.func = f /\ fr.at = k
      /\ new \in Frames /\ new.func = f /\ new.at = k + 1
      /\ f \in Funcs /\ k \in DOMAIN body[f] /\ Node(t) = body[f][k]
      /\ StackInv(Append(r, new))
  BY <1>0 DEF Stands
<1> DEFINE g == body[f][k].seen
           q == Append(r, new)
<1>3. /\ body' = body /\ taken' = taken /\ body[f][k].kind = "call"
      /\ body[f][k].runs = g
  BY <1>2 DEF Call, Seen
<1>4. /\ g \notin Funcs => stacks' = [stacks EXCEPT ![t] = q]
      /\ g \in Funcs /\ Len(stacks[t]) <= Cardinality(Funcs)
           => stacks' = [stacks EXCEPT ![t] = Append(q, Frame(g))]
  BY <1>2, <1>3 DEF Call
<1>5. ASSUME NEW c
      PROVE  /\ OwedIn(stacks[t], c) = OwedIn(q, c)
                  + IF g \in Funcs THEN EffectiveAllocs(g, c) ELSE 0
             /\ OwedIn(q, c) \in Nat
  <2>1. /\ OwedIn(stacks[t], c) = OwedIn(r, c) + Owed(f, k, c)
        /\ OwedIn(q, c) = OwedIn(r, c) + Owed(f, k + 1, c)
    BY <1>2, OwedAppend
  <2>2. Owed(f, k, c) = Owed(f, k + 1, c)
          + IF g \in Funcs THEN EffectiveAllocs(g, c) ELSE 0
    BY <1>2, <1>3, AfterCall
  <2>3. OwedIn(r, c) \in Nat /\ Owed(f, k + 1, c) \in Nat /\ EffectiveAllocs(g, c) \in Nat
    BY <1>2, FrameOwes, OwedTyped, EffectiveNat
  <2> HIDE DEF g, q
  <2> QED
    BY <2>1, <2>2, <2>3
<1>6. StackInv(q) /\ q \in Seq(Frames)
  BY <1>2 DEF StackInv
<1>7. CASE g \notin Funcs
  <2>1. \A c \in Pooled : taken'[c] + OwedIn(q, c) = taken[c] + OwedIn(stacks[t], c)
    BY <1>3, <1>5, <1>7
  <2> HIDE DEF q, g
  <2> QED
    BY <1>3, <1>4, <1>6, <1>7, <2>1, ThreadStep
<1>8. CASE g \in Funcs
  <2>1. Len(q) = Len(stacks[t]) /\ Len(q) \in Nat
    BY <1>2
  <2>2. Calls(f, g) > 0
    <3> DEFINE S == {i \in DOMAIN body[f] : body[f][i].kind = "call" /\ body[f][i].seen = g}
    <3>1. k \in S
      BY <1>2, <1>3
    <3>2. IsFiniteSet(S)
      BY <1>2, NodesTyped, FS_Subset
    <3>3. Cardinality(S) \in Nat /\ Cardinality(S) # 0
      BY <3>1, <3>2, FS_EmptySet, FS_CardinalityType
    <3> QED
      BY <3>3 DEF Calls
  <2>3. ASSUME NEW rank, Ranked(rank)
        PROVE  Len(q) + 1 <= rank[g] /\ Len(q) <= Cardinality(Funcs)
    <3>1. q[Len(q)] = new /\ Len(q) \in DOMAIN q
      BY <1>2
    <3>2. Len(q) <= rank[f]
      BY <1>2, <1>6, <2>3, <3>1 DEF StackInv
    <3>3. rank[f] < rank[g] /\ rank[f] \in 1..Cardinality(Funcs) /\ rank[g] \in 1..Cardinality(Funcs)
      BY <1>2, <1>8, <2>2, <2>3 DEF Ranked, Ranks
    <3>4. Cardinality(Funcs) \in Nat
      BY FS_CardinalityType DEF BodyTyped
    <3> HIDE DEF q, g
    <3> QED
      BY <2>1, <3>2, <3>3, <3>4
  <2>4. Len(stacks[t]) <= Cardinality(Funcs)
    BY <2>1, <2>3, SeenRanked
  <2>5. Frame(g) \in Frames /\ Frame(g).func = g /\ Frame(g).at = 1
    BY <1>8, FrameTyped DEF Frame
  <2>6. PICK h \in Frames : h = Frame(g)
    BY <2>5
  <2> HIDE DEF q, g
  <2>7. StackInv(Append(q, h))
    BY <1>6, <2>3, <2>5, <2>6, StackGrows
  <2>8. ASSUME NEW c \in Pooled
        PROVE  taken'[c] + OwedIn(Append(q, h), c) = taken[c] + OwedIn(stacks[t], c)
    <3>1. OwedIn(Append(q, h), c) = OwedIn(q, c) + Owed(g, 1, c)
      BY <1>6, <2>5, <2>6, OwedAppend
    <3>2. Owed(g, 1, c) = EffectiveAllocs(g, c)
      BY <1>8, SeenRanked, OwedAtStart
    <3> QED
      BY <1>3, <1>5, <1>8, <3>1, <3>2
  <2>9. stacks' = [stacks EXCEPT ![t] = Append(q, h)]
    BY <1>4, <1>8, <2>4, <2>6
  <2> QED
    BY <1>3, <2>7, <2>8, <2>9, ThreadStep
<1> QED
  BY <1>7, <1>8

LEMMA ReturnKeeps ==
  ASSUME BodyTyped, Seen, StartedRight, StacksInv, Balanced, taken \in [Pooled -> Nat],
         NEW t \in DOMAIN stacks, Return(t)
  PROVE  StacksInv' /\ Balanced' /\ StartedRight' /\ taken' \in [Pooled -> Nat]
<1> DEFINE s == stacks[t]
           r == Front(s)
           fr == Last(s)
<1>1. StackInv(s) /\ s # <<>> /\ ~(fr.left > 0)
  BY DEF StacksInv, Return, Busy
<1>2. /\ r \in Seq(Frames) /\ fr \in Frames /\ fr.func \in Funcs
      /\ s = Append(r, fr) /\ StackInv(r)
  BY <1>1, StackParts
<1>3. body' = body /\ taken' = taken /\ stacks' = [stacks EXCEPT ![t] = r]
  BY DEF Return
<1>4. fr.at \in Nat /\ fr.at > Len(body[fr.func])
  <2>1. fr.left = IF fr.at <= Len(body[fr.func]) THEN 1 ELSE 0
    BY <1>2 DEF Frames
  <2>2. fr.at \in Nat /\ Len(body[fr.func]) \in Nat
    BY <1>2, NodesTyped DEF Frames
  <2> HIDE DEF fr
  <2> QED
    BY <1>1, <2>1, <2>2
<1> HIDE DEF r, fr
<1>5. ASSUME NEW c \in Pooled
      PROVE  taken'[c] + OwedIn(r, c) = taken[c] + OwedIn(s, c)
  <2>1. OwedIn(s, c) = OwedIn(r, c) + Owed(fr.func, fr.at, c)
    BY <1>2, OwedAppend
  <2>2. Owed(fr.func, fr.at, c) = 0
    BY <1>2, <1>4, OwedAtEnd
  <2>3. OwedIn(r, c) \in Nat
    BY <1>2, FrameOwes
  <2> HIDE DEF s
  <2> QED
    BY <1>3, <2>1, <2>2, <2>3
<1> QED
  BY <1>2, <1>3, <1>5, ThreadStep

LEMMA PoolsGenerated ==
  ASSUME body \in Programs, Generate
  PROVE  PoolsInv'
<1>1. BodyTyped
  BY ProgramTyped
<1>2. body' = body /\ counts' = PoolCounts /\ taken' = [c \in Pooled |-> 0]
  BY DEF Generate
<1>3. PoolCounts' = PoolCounts
  BY <1>2, CountsStay
<1>4. taken' \in [Pooled -> Nat]
  BY <1>2
<1>5. /\ DOMAIN stacks' \subseteq Funcs
      /\ \A t \in DOMAIN stacks' : stacks'[t] = <<Frame(t)>>
  <2>1. CASE Funcs \cap Started # {}
    BY <2>1 DEF Generate
  <2>2. CASE Funcs \cap Started = {}
    <3>1. PICK f \in Funcs : stacks' = [g \in {f} |-> <<Frame(f)>>]
      BY <2>2 DEF Generate
    <3> QED
      BY <3>1
  <2> QED
    BY <2>1, <2>2
<1>6. StartedRight'
  <2>1. CASE Funcs \cap Started # {}
    BY <1>2, <2>1 DEF Generate, StartedRight, Funcs
  <2>2. CASE Funcs \cap Started = {}
    <3>1. PICK f \in Funcs : stacks' = [g \in {f} |-> <<Frame(f)>>]
      BY <2>2 DEF Generate
    <3>2. DOMAIN stacks' = {f}
      BY <3>1
    <3> QED
      BY <1>2, <2>2, <3>2 DEF StartedRight, Funcs
  <2> QED
    BY <2>1, <2>2
<1>7. ASSUME Seen
      PROVE  StacksInv' /\ Balanced'
  <2>1. ASSUME NEW t \in DOMAIN stacks'
        PROVE  StackInv(stacks[t])' /\ \A c : OwedIn(stacks[t], c)' = EffectiveAllocs(t, c)
    <3>1. t \in Funcs /\ stacks'[t] = <<Frame(t)>>
      BY <1>5
    <3>2. PICK s : s = <<Frame(t)>>
      OBVIOUS
    <3>3. StackInv(s) /\ \A c : OwedIn(s, c) = EffectiveAllocs(t, c)
      BY <1>1, <1>7, <3>1, <3>2, StartOwes
    <3>4. StackInv(s)' /\ \A c : OwedIn(s, c)' = EffectiveAllocs(t, c)
      BY <1>2, <3>3, StackStays, OwedStays
    <3>5. stacks'[t] = s
      BY <3>1, <3>2
    <3> QED
      BY <3>4, <3>5
  <2>2. StacksInv'
    BY <2>1 DEF StacksInv
  <2>3. ASSUME NEW c \in Pooled
        PROVE  taken'[c] + Total([t \in Threads' |-> OwedBy(t, c)'])
                 = Total([t \in Threads' |-> Promised(t, c)'])
    <3> DEFINE w == [t \in Threads' |-> OwedBy(t, c)']
               v == [t \in Threads' |-> Promised(t, c)']
    <3>1. ASSUME NEW t
          PROVE  OwedBy(t, c)' = Promised(t, c)' /\ Promised(t, c)' \in Nat
      <4>1. EffectiveAllocs(t, c)' = EffectiveAllocs(t, c) /\ EffectiveAllocs(t, c) \in Nat
        BY <1>1, <1>2, EffectiveStays, EffectiveNat
      <4>2. CASE t \in DOMAIN stacks'
        BY <2>1, <4>1, <4>2 DEF OwedBy, Promised
      <4>3. CASE t \notin DOMAIN stacks'
        BY <4>3 DEF OwedBy, Promised
      <4> QED
        BY <4>2, <4>3
    <3>2. w = v
      BY <3>1
    <3>3. IsFiniteSet(Threads')
      <4>1. IsFiniteSet(Started)
        BY PoolsAssumption, FS_Singleton, FS_Union DEF Started
      <4>2. \A f : IsFiniteSet({f})
        BY FS_Singleton
      <4> QED
        BY <1>6, <4>1, <4>2 DEF StartedRight, Threads
    <3>4. DOMAIN v = Threads' /\ \A t \in Threads' : v[t] \in Nat
      BY <3>1
    <3> HIDE DEF w, v
    <3>5. Total(v) \in Nat
      BY <3>3, <3>4, TotalType
    <3>6. taken'[c] = 0
      BY <1>2
    <3> QED
      BY <3>2, <3>5, <3>6 DEF w, v
  <2> QED
    BY <2>2, <2>3 DEF Balanced
<1>8. Seen' <=> Seen
  BY <1>2, StackStays
<1> QED
  BY <1>2, <1>3, <1>4, <1>6, <1>7, <1>8 DEF PoolsInv

LEMMA ThreadStepKeeps ==
  ASSUME PoolsInv, counts # <<>>, NEW t \in DOMAIN stacks, Alloc(t) \/ Call(t) \/ Return(t)
  PROVE  PoolsInv'
<1>1. BodyTyped
  BY ProgramTyped DEF PoolsInv
<1>2. /\ counts = PoolCounts /\ taken \in [Pooled -> Nat] /\ StartedRight
      /\ Seen => StacksInv /\ Balanced
  BY DEF PoolsInv
<1>3. body' = body /\ counts' = counts
  BY DEF Alloc, Call, Return
<1>4. PoolCounts' = PoolCounts
  BY <1>3, CountsStay
<1>5. taken' \in [Pooled -> Nat]
  BY <1>2 DEF Alloc, Call, Return
<1>6. StartedRight'
  <2>1. DOMAIN stacks' = DOMAIN stacks
    BY DEF Alloc, Call, Return
  <2> QED
    BY <1>2, <1>3, <2>1 DEF StartedRight, Funcs
<1>7. ASSUME Seen
      PROVE  StacksInv' /\ Balanced'
  BY <1>1, <1>2, <1>7, AllocKeeps, CallKeeps, ReturnKeeps
<1>8. Seen' <=> Seen
  BY <1>3, StackStays
<1> QED
  BY <1>2, <1>3, <1>4, <1>5, <1>6, <1>7, <1>8 DEF PoolsInv

LEMMA PoolsStep ==
  ASSUME PoolsInv, PoolsNext
  PROVE  PoolsInv'
<1>1. CASE Generate
  BY <1>1, PoolsGenerated DEF PoolsInv
<1>2. CASE \E t \in DOMAIN stacks : Alloc(t) \/ Call(t) \/ Return(t)
  <2>1. PICK t \in DOMAIN stacks : Alloc(t) \/ Call(t) \/ Return(t)
    BY <1>2
  <2>2. CASE counts # <<>>
    BY <2>1, <2>2, ThreadStepKeeps
  <2>3. CASE counts = <<>>
    <3>1. body' = body /\ counts' = counts
      BY <2>1 DEF Alloc, Call, Return
    <3> QED
      BY <2>3, <3>1 DEF PoolsInv
  <2> QED
    BY <2>2, <2>3
<1> QED
  BY <1>1, <1>2 DEF PoolsNext

LEMMA PoolsStutter ==
  ASSUME PoolsInv, UNCHANGED poolsVars
  PROVE  PoolsInv'
<1>1. body' = body /\ counts' = counts /\ stacks' = stacks /\ taken' = taken
  BY DEF poolsVars
<1>2. Funcs' = Funcs /\ Allocating' = Allocating
  BY <1>1 DEF Funcs, Allocating
<1>3. \A f, c : EffectiveAllocs(f, c)' = EffectiveAllocs(f, c)
  BY <1>1, EffectiveStays
<1>4. PoolCounts' = PoolCounts
  BY <1>1, CountsStay
<1>5. StartedRight' <=> StartedRight
  BY <1>1, <1>2 DEF StartedRight
<1>6. StacksInv' <=> StacksInv
  <2>1. \A s : StackInv(s)' <=> StackInv(s)
    BY <1>1, StackStays
  <2>2. ASSUME NEW t
        PROVE  StackInv(stacks[t])' <=> StackInv(stacks[t])
    <3>1. PICK s : s = stacks[t]
      OBVIOUS
    <3>2. s = stacks'[t]
      BY <1>1, <3>1
    <3> QED
      BY <2>1, <3>1, <3>2
  <2> QED
    BY <1>1, <2>2 DEF StacksInv
<1>7. Balanced' <=> Balanced
  <2>1. ASSUME NEW t, NEW c
        PROVE  OwedBy(t, c)' = OwedBy(t, c) /\ Promised(t, c)' = Promised(t, c)
    <3>1. PICK s : s = stacks[t]
      OBVIOUS
    <3>2. s = stacks'[t]
      BY <1>1, <3>1
    <3>3. OwedIn(s, c)' = OwedIn(s, c)
      BY <1>1, OwedStays
    <3> QED
      BY <1>1, <1>3, <3>1, <3>2, <3>3 DEF OwedBy, Promised
  <2>2. Threads' = Threads
    BY <1>1, <1>2 DEF Threads
  <2> QED
    BY <1>1, <2>1, <2>2 DEF Balanced
<1>8. Seen' <=> Seen
  BY <1>1, StackStays
<1> QED
  BY <1>1, <1>4, <1>5, <1>6, <1>7, <1>8 DEF PoolsInv

(***************************************************************************)
(* The pools are right                                                     *)
(***************************************************************************)
SumFor(c) == Total([f \in Started |-> EffectiveAllocs(f, c)])
Most(c) == CHOOSE n \in {0} \cup {EffectiveAllocs(f, c) : f \in Allocating} :
             \A f \in Allocating : EffectiveAllocs(f, c) <= n

LEMMA CountsAre ==
  /\ (\E c \in Classes : SumFor(c) > 0) => PoolCounts = [c \in Pooled |-> SumFor(c)]
  /\ ~(\E c \in Classes : SumFor(c) > 0)
       => PoolCounts = [c \in Pooled |-> IF c \in PoolNames THEN Most(c) ELSE 0]
<1> DEFINE sum == [c \in Classes |-> SumFor(c)]
<1>1. \A c \in Classes : sum[c] = SumFor(c)
  OBVIOUS
<1>2. PoolCounts = IF \E c \in Classes : sum[c] > 0 THEN Restrict(sum, Pooled)
                   ELSE [c \in Pooled |-> IF c \in PoolNames THEN Most(c) ELSE 0]
  BY DEF PoolCounts, SumFor, Most
<1>3. Restrict(sum, Pooled) = [c \in Pooled |-> SumFor(c)]
  BY <1>1, PoolsAssumption DEF Restrict
<1> HIDE DEF sum
<1> QED
  BY <1>1, <1>2, <1>3

LEMMA SumTyped ==
  ASSUME BodyTyped, NEW c
  PROVE  SumFor(c) \in Nat
<1> DEFINE w == [f \in Started |-> EffectiveAllocs(f, c)]
<1>1. IsFiniteSet(Started)
  BY PoolsAssumption, FS_Singleton, FS_Union DEF Started
<1>2. DOMAIN w = Started /\ \A f \in Started : w[f] \in Nat
  BY EffectiveNat
<1> HIDE DEF w
<1>3. Total(w) \in Nat
  BY <1>1, <1>2, TotalType
<1> QED
  BY <1>3 DEF SumFor, w

LEMMA MostIs ==
  ASSUME BodyTyped, NEW c
  PROVE  Most(c) \in Nat /\ \A f \in Allocating : EffectiveAllocs(f, c) <= Most(c)
<1> DEFINE E(f) == EffectiveAllocs(f, c)
           T == {n \in Nat : \A f \in Allocating : E(f) <= n}
           w == [f \in Funcs |-> E(f)]
<1>1. \A f : E(f) \in Nat
  BY EffectiveNat
<1>2. Allocating \subseteq Funcs /\ IsFiniteSet(Funcs)
  BY DEF Allocating, BodyTyped
<1>3. DOMAIN w = Funcs /\ \A f \in Funcs : w[f] = E(f)
  OBVIOUS
<1> HIDE DEF w, E
<1>4. Total(w) \in Nat
  BY <1>1, <1>2, <1>3, TotalType
<1>5. ASSUME NEW f \in Funcs
      PROVE  E(f) <= Total(w)
  <2>1. Total(w) = w[f] + Total(Without(w, f)) /\ Total(Without(w, f)) \in Nat
    BY <1>1, <1>2, <1>3, TotalSplit
  <2> QED
    BY <1>1, <1>3, <2>1
<1>6. Total(w) \in T
  BY <1>2, <1>4, <1>5
<1>7. PICK n \in T : \A m \in T : n <= m
  <2>1. T \in SUBSET Nat
    OBVIOUS
  <2> HIDE DEF T
  <2> QED
    BY <1>6, <2>1, LeastNat
<1>8. n \in {0} \cup {E(f) : f \in Allocating}
  <2> SUFFICES ASSUME n # 0, \A f \in Allocating : E(f) # n PROVE FALSE
    OBVIOUS
  <2>1. n \in Nat /\ n - 1 \in Nat
    BY <1>7
  <2>2. \A f \in Allocating : E(f) <= n - 1
    BY <1>1, <1>7, <2>1
  <2>3. n - 1 \in T
    BY <2>1, <2>2
  <2> HIDE DEF T
  <2> QED
    BY <1>7, <2>1, <2>3
<1>9. \A f \in Allocating : E(f) <= n
  BY <1>7
<1>10. PICK m : m = Most(c)
  OBVIOUS
<1>11. m \in {0} \cup {E(f) : f \in Allocating} /\ \A f \in Allocating : E(f) <= m
  BY <1>8, <1>9, <1>10 DEF Most, E
<1>12. m \in Nat
  BY <1>1, <1>11
<1> QED
  BY <1>10, <1>11, <1>12 DEF E

\* What is taken in the end is what was promised.
LEMMA TakenBound ==
  ASSUME PoolsInv, counts # <<>>, Seen, NEW c \in Pooled
  PROVE  /\ taken[c] \in Nat /\ Total([t \in Threads |-> Promised(t, c)]) \in Nat
         /\ taken[c] <= Total([t \in Threads |-> Promised(t, c)])
         /\ (\A t \in DOMAIN stacks : stacks[t] = <<>>)
              => taken[c] = Total([t \in Threads |-> Promised(t, c)])
<1> DEFINE w == [t \in Threads |-> OwedBy(t, c)]
           v == [t \in Threads |-> Promised(t, c)]
<1>1. BodyTyped /\ StartedRight /\ StacksInv
  BY ProgramTyped DEF PoolsInv
<1>2. taken[c] \in Nat /\ taken[c] + Total(w) = Total(v)
  BY DEF PoolsInv, Balanced
<1>3. IsFiniteSet(Threads)
  BY <1>1, ThreadsFacts
<1>4. DOMAIN w = Threads /\ \A t \in Threads : w[t] \in Nat
  BY <1>1, OwedByTyped
<1>5. ASSUME \A t \in DOMAIN stacks : stacks[t] = <<>>
      PROVE  Total(w) = 0
  <2>1. \A t : OwedBy(t, c) = 0
    BY <1>5, OwedEmpty DEF OwedBy
  <2>2. w = [t \in Threads |-> 0]
    BY <2>1
  <2> QED
    BY <1>3, <2>2, TotalZero
<1> HIDE DEF w, v
<1>6. Total(w) \in Nat
  BY <1>3, <1>4, TotalType
<1> QED
  BY <1>2, <1>5, <1>6 DEF v

\* What was promised is the sum, or what the one function allocates.
LEMMA PromisedIs ==
  ASSUME BodyTyped, StartedRight, NEW c
  PROVE  /\ Funcs \cap Started # {}
              => Total([t \in Threads |-> Promised(t, c)]) = SumFor(c)
         /\ Funcs \cap Started = {} =>
              /\ SumFor(c) = 0
              /\ \E f \in Funcs : /\ DOMAIN stacks = {f}
                                  /\ Total([t \in Threads |-> Promised(t, c)])
                                       = EffectiveAllocs(f, c)
<1> DEFINE v == [t \in Threads |-> Promised(t, c)]
<1>1. ASSUME Funcs \cap Started # {}
      PROVE  Total(v) = SumFor(c)
  <2>1. Threads = Started /\ DOMAIN stacks = Funcs \cap Started
    BY <1>1 DEF Threads, StartedRight
  <2>2. \A t \in Started : Promised(t, c) = EffectiveAllocs(t, c)
    BY <2>1 DEF Promised, EffectiveAllocs
  <2>3. v = [f \in Started |-> EffectiveAllocs(f, c)]
    BY <2>1, <2>2
  <2> QED
    BY <2>3 DEF SumFor
<1>2. ASSUME Funcs \cap Started = {}
      PROVE  SumFor(c) = 0
  <2>1. \A f \in Started : EffectiveAllocs(f, c) = 0
    BY <1>2 DEF EffectiveAllocs
  <2>2. [f \in Started |-> EffectiveAllocs(f, c)] = [f \in Started |-> 0]
    BY <2>1
  <2>3. IsFiniteSet(Started)
    BY PoolsAssumption, FS_Singleton, FS_Union DEF Started
  <2> QED
    BY <2>2, <2>3, TotalZero DEF SumFor
<1>3. ASSUME Funcs \cap Started = {}
      PROVE  \E f \in Funcs : DOMAIN stacks = {f} /\ Total(v) = EffectiveAllocs(f, c)
  <2>1. PICK f \in Funcs : Threads = {f} /\ DOMAIN stacks = {f}
    BY <1>3, ThreadsFacts
  <2>2. DOMAIN v = {f} /\ v[f] = EffectiveAllocs(f, c) /\ IsFiniteSet(DOMAIN v)
    BY <2>1, FS_Singleton DEF Promised
  <2> HIDE DEF v
  <2>3. Total(v) = v[f] + Total(Without(v, f)) /\ Total(Without(v, f)) \in Nat
    BY <2>2, EffectiveNat, TotalSplit
  <2>4. DOMAIN Without(v, f) = {}
    BY <2>2 DEF Without
  <2>5. Total(Without(v, f)) = 0
    BY <2>4, TotalType, FS_EmptySet
  <2> QED
    BY <2>1, <2>2, <2>3, <2>5, EffectiveNat
<1> HIDE DEF v
<1> QED
  BY <1>1, <1>2, <1>3 DEF v

LEMMA PoolsRight ==
  ASSUME PoolsInv
  PROVE  PoolsExact
<1> SUFFICES ASSUME counts # <<>>, Seen PROVE PoolsExact
  BY DEF PoolsExact, PoolsLast, PoolsTight
<1>1. BodyTyped /\ StartedRight /\ counts = PoolCounts
  BY ProgramTyped DEF PoolsInv
<1> DEFINE Y(c) == Total([t \in Threads |-> Promised(t, c)])
<1>2. ASSUME NEW c \in Pooled
      PROVE  /\ taken[c] \in Nat /\ Y(c) \in Nat /\ taken[c] <= Y(c)
             /\ (\A t \in DOMAIN stacks : stacks[t] = <<>>) => taken[c] = Y(c)
  BY TakenBound
<1>3. ASSUME NEW c
      PROVE  /\ Funcs \cap Started # {} => Y(c) = SumFor(c)
             /\ Funcs \cap Started = {} =>
                  /\ SumFor(c) = 0
                  /\ \E f \in Funcs : DOMAIN stacks = {f} /\ Y(c) = EffectiveAllocs(f, c)
  BY <1>1, PromisedIs
<1> HIDE DEF Y
<1>4. \A c : SumFor(c) \in Nat
  BY <1>1, SumTyped
<1>5. ASSUME NEW c \in Pooled
      PROVE  \/ taken[c] <= counts[c]
             \/ Funcs \cap Started = {} /\ (counts[c] = 0 \/ ~(DOMAIN stacks \subseteq Allocating))
  <2>1. c \in Classes
    BY PoolsAssumption
  <2>2. Most(c) \in Nat /\ \A f \in Allocating : EffectiveAllocs(f, c) <= Most(c)
    BY <1>1, MostIs
  <2>3. CASE Funcs \cap Started # {}
    <3>1. taken[c] <= SumFor(c) /\ taken[c] \in Nat
      BY <1>2, <1>3, <2>3
    <3>2. CASE \E d \in Classes : SumFor(d) > 0
      <4>1. counts[c] = SumFor(c)
        BY <1>1, <3>2, CountsAre
      <4> QED
        BY <3>1, <4>1
    <3>3. CASE ~\E d \in Classes : SumFor(d) > 0
      <4>1. counts[c] = IF c \in PoolNames THEN Most(c) ELSE 0
        BY <1>1, <3>3, CountsAre
      <4>2. SumFor(c) = 0
        BY <1>4, <2>1, <3>3
      <4>3. counts[c] \in Nat
        BY <2>2, <4>1
      <4> QED
        BY <3>1, <4>2, <4>3
    <3> QED
      BY <3>2, <3>3
  <2>4. CASE Funcs \cap Started = {}
    <3>1. ~\E d \in Classes : SumFor(d) > 0
      BY <1>3, <2>4
    <3>2. counts[c] = IF c \in PoolNames THEN Most(c) ELSE 0
      BY <1>1, <3>1, CountsAre
    <3>3. PICK f \in Funcs : DOMAIN stacks = {f} /\ Y(c) = EffectiveAllocs(f, c)
      BY <1>3, <2>4
    <3>4. CASE f \notin Allocating
      BY <2>4, <3>3, <3>4
    <3>5. CASE f \in Allocating /\ c \in PoolNames
      <4>1. EffectiveAllocs(f, c) <= Most(c) /\ taken[c] <= EffectiveAllocs(f, c)
        BY <1>2, <2>2, <3>3, <3>5
      <4>2. taken[c] \in Nat /\ EffectiveAllocs(f, c) \in Nat
        BY <1>1, <1>2, EffectiveNat
      <4>3. taken[c] <= Most(c)
        BY <2>2, <4>1, <4>2
      <4> QED
        BY <3>2, <3>5, <4>3
    <3>6. CASE c \notin PoolNames
      BY <2>4, <3>2, <3>6
    <3> QED
      BY <3>4, <3>5, <3>6
  <2> QED
    BY <2>3, <2>4
<1>6. PoolsLast
  BY <1>5 DEF PoolsLast
<1>7. PoolsTight
  <2> SUFFICES ASSUME NEW d \in Pooled, taken[d] > 0, Funcs \cap Started # {},
                      \A t \in DOMAIN stacks : stacks[t] = <<>>, NEW c \in Pooled
               PROVE  taken[c] >= counts[c]
    BY DEF PoolsTight
  <2>1. \A x \in Pooled : taken[x] = SumFor(x)
    BY <1>2, <1>3
  <2>2. \E x \in Classes : SumFor(x) > 0
    BY <2>1, PoolsAssumption
  <2>3. counts[c] = SumFor(c)
    BY <1>1, <2>2, CountsAre
  <2> QED
    BY <1>4, <2>1, <2>3
<1> QED
  BY <1>6, <1>7 DEF PoolsExact


(***************************************************************************)
(* Both tools                                                              *)
(***************************************************************************)
BuildInv ==
  /\ tool = "cycles" => CyclesInv
  /\ tool # "cycles" => pass = "idle"
  /\ tool = "pools" => PoolsInv
  /\ tool # "pools" => counts = <<>>

\* What the cycle check knows after each step (collect_class_info, detect_cycles): which
\* files it found, what of their interfaces it has read, and that a class is left only
\* when all it refers to has been left, unless a cycle was found.
THEOREM BuildInvariance == Spec => []BuildInv
<1>1. Init => BuildInv
  <2> SUFFICES ASSUME Init
               PROVE  BuildInv
    OBVIOUS
  <2>1. CASE tool = "cycles" /\ CyclesInit /\ NoBody
    BY <2>1, CyclesInitInv DEF BuildInv, NoBody
  <2>2. CASE tool = "pools" /\ PoolsInit /\ NoCode
    BY <2>2 DEF BuildInv, NoCode, PoolsInit, PoolsInv
  <2> QED
    BY <2>1, <2>2 DEF Init
<1>2. BuildInv /\ [Next]_vars => BuildInv'
  <2> SUFFICES ASSUME BuildInv, [Next]_vars
               PROVE  BuildInv'
    OBVIOUS
  <2>1. tool' = tool
    BY DEF Next, vars
  <2>2. CASE tool = "cycles" /\ CyclesNext /\ UNCHANGED poolsVars
    <3>1. CyclesInv' /\ counts' = counts
      BY <2>2, CyclesStep DEF BuildInv, poolsVars
    <3> QED
      BY <2>1, <2>2, <3>1 DEF BuildInv
  <2>3. CASE tool = "pools" /\ PoolsNext /\ UNCHANGED cyclesVars
    <3>1. PoolsInv' /\ pass' = pass
      BY <2>3, PoolsStep DEF BuildInv, cyclesVars
    <3> QED
      BY <2>1, <2>3, <3>1 DEF BuildInv
  <2>4. CASE UNCHANGED vars
    <3>1. UNCHANGED cyclesVars /\ UNCHANGED poolsVars
      BY <2>4 DEF vars
    <3>2. tool = "cycles" => CyclesInv'
      BY <3>1, CyclesStutter DEF BuildInv
    <3>3. tool = "pools" => PoolsInv'
      BY <3>1, PoolsStutter DEF BuildInv
    <3>4. pass' = pass /\ counts' = counts
      BY <3>1 DEF cyclesVars, poolsVars
    <3> QED
      BY <2>1, <3>2, <3>3, <3>4 DEF BuildInv
  <2> QED
    BY <2>2, <2>3, <2>4 DEF Next
<1> QED
  BY <1>1, <1>2, PTL DEF Spec

\* For any number of files and classes, in whatever order files are read and references
\* followed, the check fails for every program that it can see may leak a cycle, reports
\* nothing but cycles, and its colours are right (main, detect_cycles, report_cycles).
THEOREM CheckExact == Spec => []CyclesExact
<1>1. BuildInv => CyclesExact
  <2> SUFFICES ASSUME BuildInv
               PROVE  CyclesExact
    OBVIOUS
  <2>1. CASE tool = "cycles"
    BY <2>1, ExactFromInv DEF BuildInv
  <2>2. CASE tool # "cycles"
    BY <2>2 DEF BuildInv, CyclesExact, CyclesFound, CyclesReal
  <2> QED
    BY <2>1, <2>2
<1> QED
  BY <1>1, BuildInvariance, PTL

\* For any number of functions, classes and threads: if the walk sees what is called and
\* there is no recursion, no pool is exhausted though nothing is ever freed, and when
\* the threads have ended every block of every pool has been taken (effective_allocs,
\* compute_pool_counts).
THEOREM PoolsAlwaysExact == Spec => []PoolsExact
<1>1. BuildInv => PoolsExact
  <2> SUFFICES ASSUME BuildInv
               PROVE  PoolsExact
    OBVIOUS
  <2>1. CASE tool = "pools"
    BY <2>1, PoolsRight DEF BuildInv
  <2>2. CASE tool # "pools"
    BY <2>2 DEF BuildInv, PoolsExact, PoolsLast, PoolsTight
  <2> QED
    BY <2>1, <2>2
<1> QED
  BY <1>1, BuildInvariance, PTL
================================================================================

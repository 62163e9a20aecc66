--------------------------- MODULE OZFoundationProofs ---------------------------
(***************************************************************************)
(* Proofs about strings, numbers and logging: a string keeps its           *)
(* terminator and implements a text; every result is the real one to its   *)
(* last place and is printed rounded, for sizes and mantissas of any width *)
(* and any number of decimals.  At the end, the types of all parts.        *)
(***************************************************************************)
EXTENDS OZCollectionsProofs

(***************************************************************************)
(* The mutable string                                                      *)
(***************************************************************************)
Bytes == Characters \cup {End, Junk}
Limit == 2^Width
Half  == 2^(Width - 1)

\* A string that fits into half the memory, and never itself as an argument.
KeepsStringRules == AllStringRules \subseteq StringRules

StringInv == StringTypeOK /\ Terminated /\ Writing

(***************************************************************************)
(* Numbers and buffers                                                     *)
(***************************************************************************)
LEMMA Sizes ==
  /\ Limit \in Nat /\ Half \in Nat /\ Half > 0 /\ Limit = 2 * Half
  /\ Smallest \in Nat /\ Smallest > 0 /\ Smallest < Limit
BY StringAssumption DEF Limit, Half

LEMMA NoWrap ==
  ASSUME NEW n \in Nat, n < Limit
  PROVE  Unsigned(n) = n
BY Sizes DEF Unsigned, Limit

LEMMA TextsAre ==
  ASSUME NEW s \in Strings
  PROVE  /\ s \in Seq(Characters) /\ Len(s) \in Nat
         /\ \A i \in 1..Len(s) : s[i] \in Characters
         /\ s # Itself
BY StringAssumption

\* A function on 1..n is a sequence.
LEMMA IsSequence ==
  ASSUME NEW n \in Nat, NEW f, f = [i \in 1..n |-> f[i]],
         \A i \in 1..n : f[i] \in Bytes
  PROVE  f \in Seq(Bytes) /\ Len(f) = n
<1>1. f \in [1..n -> Bytes]
  OBVIOUS
<1> QED
  BY <1>1

LEMMA CopyIs ==
  ASSUME NEW b \in Seq(Bytes), NEW c \in Seq(Bytes), NEW k \in Nat,
         k + Len(c) <= Len(b)
  PROVE  /\ Copy(b, k, c) \in Seq(Bytes)
         /\ Len(Copy(b, k, c)) = Len(b)
         /\ \A i \in 1..Len(b) :
              Copy(b, k, c)[i] = IF i \in (k + 1)..(k + Len(c)) THEN c[i - k] ELSE b[i]
<1> DEFINE f == Copy(b, k, c)
<1>1. Len(b) \in Nat /\ Len(c) \in Nat
  OBVIOUS
<1>2. f = [i \in 1..Len(b) |-> IF i \in (k + 1)..(k + Len(c)) THEN c[i - k] ELSE b[i]]
  <2>1. (IF k + Len(c) > Len(b) THEN k + Len(c) ELSE Len(b)) = Len(b)
    BY <1>1
  <2> QED
    BY <2>1 DEF Copy
<1>3. \A i \in 1..Len(b) : f[i] = IF i \in (k + 1)..(k + Len(c)) THEN c[i - k] ELSE b[i]
  BY <1>2
<1>4. ASSUME NEW i \in 1..Len(b) PROVE f[i] \in Bytes
  <2>1. CASE i \in (k + 1)..(k + Len(c))
    <3>1. i - k \in 1..Len(c)
      BY <2>1, <1>1
    <3>2. c[i - k] \in Bytes
      BY <3>1
    <3> QED
      BY <3>2, <2>1, <1>3
  <2>2. CASE i \notin (k + 1)..(k + Len(c))
    BY <2>2, <1>3
  <2> QED
    BY <2>1, <2>2
<1>5. f = [i \in 1..Len(b) |-> f[i]]
  BY <1>2
<1> HIDE DEF f
<1>6. f \in Seq(Bytes) /\ Len(f) = Len(b)
  BY <1>1, <1>4, <1>5, IsSequence
<1> QED
  BY <1>3, <1>6 DEF f

LEMMA BufferIs ==
  ASSUME NEW n \in Nat
  PROVE  Buffer(n) \in Seq(Bytes) /\ Len(Buffer(n)) = n
<1>1. Buffer(n) \in [1..n -> Bytes]
  BY DEF Buffer, Bytes
<1> QED
  BY <1>1

LEMMA WithEnd ==
  ASSUME NEW s \in Seq(Characters)
  PROVE  /\ s \o <<End>> \in Seq(Bytes) /\ Len(s \o <<End>>) = Len(s) + 1
         /\ \A i \in 1..Len(s) : (s \o <<End>>)[i] = s[i]
         /\ (s \o <<End>>)[Len(s) + 1] = End
<1>1. s \in Seq(Bytes) /\ <<End>> \in Seq(Bytes)
  BY DEF Bytes
<1> QED
  BY <1>1

(***************************************************************************)
(* The text in the buffer                                                  *)
(***************************************************************************)
TextOf(p, d, n) == IF p = "none" THEN NULL ELSE SubSeq(d, 1, n)

\* A buffer with n characters and a terminator after them.
Holds(d, n) == /\ d \in Seq(Bytes) /\ n \in Nat /\ n < Len(d)
               /\ d[n + 1] = End
               /\ \A i \in 1..n : d[i] \in Characters

LEMMA HeldText ==
  ASSUME NEW d, NEW n, Holds(d, n)
  PROVE  /\ SubSeq(d, 1, n) \in Seq(Characters) /\ Len(SubSeq(d, 1, n)) = n
         /\ \A i \in 1..n : SubSeq(d, 1, n)[i] = d[i]
         /\ SubSeq(d, 1, n) # NULL
<1>1. n \in Int /\ n \in Nat /\ \A i \in 1..n : d[i] \in Characters
  BY DEF Holds
<1>2. /\ SubSeq(d, 1, n) \in Seq(Characters)
      /\ Len(SubSeq(d, 1, n)) = IF 1 <= n THEN n - 1 + 1 ELSE 0
      /\ \A i \in 1..(n - 1 + 1) : SubSeq(d, 1, n)[i] = d[1 + i - 1]
  BY <1>1, SubSeqProperties
<1>3. \A i \in 1..n : SubSeq(d, 1, n)[i] = d[i]
  BY <1>1, <1>2
<1> QED
  BY <1>1, <1>2, <1>3, StringAssumption

\* Copying a text and a terminator behind the first k characters.
LEMMA Filled ==
  ASSUME NEW b \in Seq(Bytes), NEW k \in Nat, NEW s \in Seq(Characters),
         k + Len(s) < Len(b), \A i \in 1..k : b[i] \in Characters,
         NEW d, d = Copy(b, k, s \o <<End>>)
  PROVE  /\ Holds(d, k + Len(s)) /\ Len(d) = Len(b)
         /\ \A i \in 1..k : d[i] = b[i]
         /\ \A i \in 1..Len(s) : d[k + i] = s[i]
<1> DEFINE c == s \o <<End>>
<1>1. /\ c \in Seq(Bytes) /\ Len(c) = Len(s) + 1
      /\ \A i \in 1..Len(s) : c[i] = s[i]
      /\ c[Len(s) + 1] = End
  BY WithEnd
<1>2. Len(s) \in Nat /\ Len(b) \in Nat
  OBVIOUS
<1>3. d = Copy(b, k, c)
  OBVIOUS
<1> HIDE DEF c
<1>4. k + Len(c) <= Len(b)
  BY <1>1, <1>2
<1>5. /\ d \in Seq(Bytes) /\ Len(d) = Len(b)
      /\ \A i \in 1..Len(b) :
           d[i] = IF i \in (k + 1)..(k + Len(c)) THEN c[i - k] ELSE b[i]
  <2>1. /\ Copy(b, k, c) \in Seq(Bytes)
        /\ Len(Copy(b, k, c)) = Len(b)
        /\ \A i \in 1..Len(b) :
             Copy(b, k, c)[i] = IF i \in (k + 1)..(k + Len(c)) THEN c[i - k] ELSE b[i]
    BY <1>1, <1>4, CopyIs
  <2> QED
    BY <2>1, <1>3
<1>6. \A i \in 1..k : d[i] = b[i]
  <2> TAKE i \in 1..k
  <2>1. i \in 1..Len(b) /\ i \notin (k + 1)..(k + Len(c))
    BY <1>1, <1>2
  <2> QED
    BY <2>1, <1>5
<1>7. \A i \in 1..(Len(s) + 1) : d[k + i] = c[i]
  <2> TAKE i \in 1..(Len(s) + 1)
  <2>1. k + i \in 1..Len(b) /\ k + i \in (k + 1)..(k + Len(c)) /\ (k + i) - k = i
    BY <1>1, <1>2
  <2> QED
    BY <2>1, <1>5
<1>8. \A i \in 1..Len(s) : d[k + i] = s[i]
  BY <1>1, <1>2, <1>7
<1>9. d[(k + Len(s)) + 1] = End
  <2>1. Len(s) + 1 \in 1..(Len(s) + 1) /\ (k + Len(s)) + 1 = k + (Len(s) + 1)
    BY <1>2
  <2> QED
    BY <2>1, <1>1, <1>7
<1>10. ASSUME NEW i \in 1..(k + Len(s)) PROVE d[i] \in Characters
  <2>1. CASE i \in 1..k
    BY <2>1, <1>6
  <2>2. CASE i \notin 1..k
    <3>1. i - k \in 1..Len(s) /\ k + (i - k) = i
      BY <2>2, <1>2
    <3>2. d[i] = s[i - k] /\ s[i - k] \in Characters
      BY <3>1, <1>8
    <3> QED
      BY <3>2
  <2> QED
    BY <2>1, <2>2
<1> QED
  BY <1>2, <1>5, <1>6, <1>8, <1>9, <1>10 DEF Holds

\* Then the text is the first k characters and the copied ones.
LEMMA FilledText ==
  ASSUME NEW b \in Seq(Bytes), NEW k \in Nat, NEW s \in Seq(Characters),
         k + Len(s) < Len(b), \A i \in 1..k : b[i] \in Characters,
         NEW d, d = Copy(b, k, s \o <<End>>)
  PROVE  SubSeq(d, 1, k + Len(s)) = SubSeq(b, 1, k) \o s
<1> DEFINE n == k + Len(s)
           t == SubSeq(d, 1, n)
           u == SubSeq(b, 1, k)
<1>1. /\ Holds(d, n)
      /\ \A i \in 1..k : d[i] = b[i]
      /\ \A i \in 1..Len(s) : d[k + i] = s[i]
  BY Filled
<1>2. t \in Seq(Characters) /\ Len(t) = n /\ \A i \in 1..n : t[i] = d[i]
  BY <1>1, HeldText
<1>3. /\ u \in Seq(Characters) /\ Len(u) = k /\ \A i \in 1..k : u[i] = b[i]
  <2>1. /\ u \in Seq(Characters)
        /\ Len(u) = IF 1 <= k THEN k - 1 + 1 ELSE 0
        /\ \A i \in 1..(k - 1 + 1) : u[i] = b[1 + i - 1]
    BY SubSeqProperties
  <2> QED
    BY <2>1
<1>4. Len(s) \in Nat /\ n = k + Len(s)
  OBVIOUS
<1> HIDE DEF n, t, u
<1>5. /\ u \o s \in Seq(Characters) /\ Len(u \o s) = n
      /\ \A i \in 1..n : (u \o s)[i] = IF i <= k THEN u[i] ELSE s[i - k]
  BY <1>3, <1>4, ConcatProperties
<1>6. ASSUME NEW i \in 1..n PROVE t[i] = (u \o s)[i]
  <2>1. CASE i <= k
    <3>1. i \in 1..k
      BY <2>1, <1>4
    <3> QED
      BY <3>1, <2>1, <1>1, <1>2, <1>3, <1>5
  <2>2. CASE ~(i <= k)
    <3>1. i - k \in 1..Len(s) /\ k + (i - k) = i
      BY <2>2, <1>4
    <3>2. d[i] = s[i - k]
      BY <3>1, <1>1
    <3> QED
      BY <3>2, <2>2, <1>2, <1>5
  <2> QED
    BY <2>1, <2>2
<1>7. t = u \o s
  BY <1>2, <1>5, <1>6, SeqEqual
<1> QED
  BY <1>7 DEF t, u, n

(***************************************************************************)
(* The invariant between and inside methods                                *)
(***************************************************************************)
LEMMA HeldNow ==
  ASSUME StringInv, phase # "none"
  PROVE  /\ Holds(data, length) /\ Len(data) = capacity
         /\ capacity \in Nat /\ capacity < Limit /\ capacity > 0
<1>1. /\ data \in Seq(Bytes) /\ Len(data) = capacity
      /\ length \in Nat /\ capacity \in 0..(Limit - 1)
      /\ length < capacity /\ data[length + 1] = End
      /\ \A i \in 1..length : data[i] \notin {End, Junk}
  BY Sizes DEF StringInv, StringTypeOK, Terminated, Bytes, Limit
<1>2. capacity \in Nat /\ capacity < Limit /\ capacity > 0
  BY <1>1, Sizes
<1>3. \A i \in 1..length : data[i] \in Characters
  <2> TAKE i \in 1..length
  <2>1. i \in 1..Len(data)
    BY <1>1, <1>2
  <2> QED
    BY <2>1, <1>1 DEF Bytes
<1> QED
  BY <1>1, <1>2, <1>3 DEF Holds

LEMMA HeldKeeps ==
  ASSUME Holds(data', length'), Len(data') = capacity', capacity' < Limit,
         newCapacity' \in 0..(Limit - 1), phase' \in {"idle", "grow", "copy"}
  PROVE  StringTypeOK' /\ Terminated'
<1>1. /\ data' \in Seq(Bytes) /\ length' \in Nat /\ length' < Len(data')
      /\ data'[length' + 1] = End /\ \A i \in 1..length' : data'[i] \in Characters
  BY DEF Holds
<1>2. length' \in 0..(Limit - 1) /\ capacity' \in 0..(Limit - 1)
  BY <1>1, Sizes
<1>3. \A i \in 1..length' : data'[i] \notin {End, Junk}
  BY <1>1, StringAssumption
<1>4. StringTypeOK'
  BY <1>1, <1>2 DEF StringTypeOK, Bytes, Limit
<1>5. Terminated'
  BY <1>1, <1>3 DEF Terminated
<1> QED
  BY <1>4, <1>5

LEMMA IdleKeeps ==
  ASSUME phase' = "idle", newCapacity' \in 0..(Limit - 1), Holds(data', length'),
         Len(data') = capacity', capacity' < Limit
  PROVE  StringInv'
<1>1. StringTypeOK' /\ Terminated'
  BY HeldKeeps
<1>2. Writing'
  BY DEF Writing
<1> QED
  BY <1>1, <1>2 DEF StringInv

TextNow  == TextOf(phase, data, length)
TextThen == TextOf(phase', data', length')
TextNext == Text!Create \/ Text!Extend \/ Text!Replace \/ Text!Destroy

LEMMA TextSteps ==
  /\ Text!Create  <=> TextNow = NULL /\ TextThen \in Strings \cup {<<>>}
  /\ Text!Extend  <=> TextNow # NULL /\ \E s \in Strings : TextThen = TextNow \o s
  /\ Text!Replace <=> TextNow # NULL /\ TextThen \in Strings \cup {<<>>}
  /\ Text!Destroy <=> TextNow # NULL /\ TextThen = NULL
BY DEF Text!Create, Text!Extend, Text!Replace, Text!Destroy, TextNow, TextThen, TextOf

LEMMA TextHeld ==
  ASSUME StringInv, phase # "none"
  PROVE  TextNow = SubSeq(data, 1, length) /\ TextNow # NULL
<1>1. Holds(data, length)
  BY HeldNow
<1>2. SubSeq(data, 1, length) # NULL
  BY <1>1, HeldText
<1> QED
  BY <1>2 DEF TextNow, TextOf

\* What a step has to show: the invariant again, and a step of the text.
Correct == StringInv' /\ (TextNext \/ TextThen = TextNow)

(***************************************************************************)
(* Creation                                                                *)
(***************************************************************************)
LEMMA StutterCorrect ==
  ASSUME StringInv, UNCHANGED stringVars
  PROVE  Correct
<1>1. /\ phase' = phase /\ data' = data /\ length' = length /\ capacity' = capacity
      /\ at' = at /\ src' = src /\ newCapacity' = newCapacity
  BY DEF stringVars
<1>2. StringInv'
  BY <1>1 DEF StringInv, StringTypeOK, Terminated, Writing
<1>3. TextThen = TextNow
  BY <1>1 DEF TextThen, TextNow
<1> QED
  BY <1>2, <1>3 DEF Correct

LEMMA StartCorrect ==
  ASSUME StringInv, phase = "none", NEW s \in Strings \cup {<<>>},
         NEW n \in Nat, Len(s) < n, n < Limit, Start(s, n)
  PROVE  Correct
<1>1. CASE UNCHANGED stringVars
  BY <1>1, StutterCorrect
<1>2. CASE /\ phase' = "idle"
           /\ data' = Copy(Buffer(n), 0, s \o <<End>>)
           /\ length' = Len(s) /\ capacity' = n
           /\ UNCHANGED <<at, src, newCapacity>>
  <2>1. s \in Seq(Characters) /\ Len(s) \in Nat /\ 0 + Len(s) = Len(s)
    <3>1. s \in Seq(Characters)
      <4>1. CASE s \in Strings
        BY <4>1, TextsAre
      <4>2. CASE s = <<>>
        BY <4>2
      <4> QED
        BY <4>1, <4>2
    <3> QED
      BY <3>1
  <2>2. Buffer(n) \in Seq(Bytes) /\ Len(Buffer(n)) = n
    BY BufferIs
  <2>3. /\ Holds(data', 0 + Len(s)) /\ Len(data') = n
        /\ SubSeq(data', 1, 0 + Len(s)) = SubSeq(Buffer(n), 1, 0) \o s
    <3> DEFINE b == Buffer(n)
               d == data'
    <3>1. b \in Seq(Bytes) /\ Len(b) = n /\ d = Copy(b, 0, s \o <<End>>)
      BY <1>2, <2>2
    <3>2. 0 + Len(s) < Len(b) /\ 0 \in Nat /\ \A i \in 1..0 : b[i] \in Characters
      BY <2>1, <2>2
    <3> HIDE DEF b, d
    <3>3. Holds(d, 0 + Len(s)) /\ Len(d) = Len(b)
      BY <2>1, <3>1, <3>2, Filled
    <3>4. SubSeq(d, 1, 0 + Len(s)) = SubSeq(b, 1, 0) \o s
      BY <2>1, <3>1, <3>2, FilledText
    <3> QED
      BY <3>1, <3>3, <3>4 DEF b, d
  <2>4. newCapacity' \in 0..(Limit - 1)
    BY <1>2 DEF StringInv, StringTypeOK, Limit
  <2>5. StringInv'
    BY <1>2, <2>1, <2>3, <2>4, IdleKeeps
  <2>6. SubSeq(Buffer(n), 1, 0) = <<>>
    BY SubSeqEmpty
  <2>7. <<>> \o s = s
    BY <2>1, ConcatEmptySeq
  <2>8. TextThen = s
    BY <1>2, <2>1, <2>3, <2>6, <2>7 DEF TextThen, TextOf
  <2>9. TextNow = NULL
    BY DEF TextNow, TextOf
  <2> QED
    BY <2>5, <2>8, <2>9, TextSteps DEF Correct, TextNext
<1> QED
  BY <1>1, <1>2 DEF Start

LEMMA InitWithCStringCorrect ==
  ASSUME KeepsStringRules, StringInv, InitWithCString
  PROVE  Correct
<1>1. PICK s \in Strings : 2 * Len(s) < Limit /\ Start(s, FirstCapacity(Len(s)))
  BY DEF InitWithCString, KeepsStringRules, AllStringRules, Limit
<1>2. Len(s) \in Nat
  BY TextsAre
<1> DEFINE n == FirstCapacity(Len(s))
<1>3. n \in Nat /\ Len(s) < n /\ n < Limit
  <2>1. CASE Len(s) < Smallest
    BY <2>1, <1>2, Sizes DEF FirstCapacity
  <2>2. CASE ~(Len(s) < Smallest)
    <3>1. Len(s) * 2 \in Nat /\ Len(s) * 2 < Limit /\ Len(s) < Len(s) * 2
      BY <1>1, <1>2, <2>2, Sizes
    <3>2. Unsigned(Len(s) * 2) = Len(s) * 2
      BY <3>1, NoWrap
    <3> QED
      BY <3>1, <3>2, <2>2 DEF FirstCapacity
  <2> QED
    BY <2>1, <2>2
<1> HIDE DEF n
<1>4. Start(s, n)
  BY <1>1 DEF n
<1>5. phase = "none"
  BY DEF InitWithCString
<1> QED
  BY <1>3, <1>4, <1>5, StartCorrect

LEMMA InitWithCapacityCorrect ==
  ASSUME StringInv, InitWithCapacity
  PROVE  Correct
<1>1. PICK n \in Capacities : Start(<<>>, IF n < Smallest THEN Smallest ELSE n)
  BY DEF InitWithCapacity
<1>2. n \in Nat /\ n < Limit
  BY StringAssumption, Sizes DEF Limit
<1> DEFINE m == IF n < Smallest THEN Smallest ELSE n
<1>3. m \in Nat /\ 0 < m /\ m < Limit
  BY <1>2, Sizes
<1> HIDE DEF m
<1>4. Start(<<>>, m)
  BY <1>1 DEF m
<1>5. Len(<<>>) = 0 /\ phase = "none"
  BY DEF InitWithCapacity
<1> QED
  BY <1>3, <1>4, <1>5, StartCorrect

(***************************************************************************)
(* appendCString: and setString:                                           *)
(***************************************************************************)
\* A step that leaves the characters alone.
LEMMA SameText ==
  ASSUME StringInv, phase # "none", phase' \in {"idle", "grow", "copy"},
         UNCHANGED <<data, length, capacity>>, newCapacity' \in 0..(Limit - 1)
  PROVE  /\ StringTypeOK' /\ Terminated'
         /\ TextThen = TextNow
<1>1. Holds(data, length) /\ Len(data) = capacity /\ capacity < Limit
  BY HeldNow
<1>2. StringTypeOK' /\ Terminated'
  BY <1>1, HeldKeeps
<1>3. TextThen = TextNow
  BY DEF TextThen, TextNow, TextOf
<1> QED
  BY <1>2, <1>3

LEMMA WriteCorrect ==
  ASSUME KeepsStringRules, StringInv, phase = "idle",
         NEW s \in Strings, NEW k \in {0, length}, Write(s, k)
  PROVE  Correct
<1>1. s # Itself /\ Len(s) \in Nat /\ Length(s) = Len(s)
  BY TextsAre DEF Length
<1>2. length \in Nat /\ k \in Nat /\ capacity \in Nat /\ capacity < Limit
  BY HeldNow DEF Holds
<1>3. /\ k + Len(s) + 1 <= Half
      /\ at' = k /\ src' = s /\ newCapacity' = capacity
      /\ phase' = IF Unsigned(Unsigned(k + Len(s)) + 1) > capacity THEN "grow" ELSE "copy"
      /\ UNCHANGED <<data, length, capacity>>
  BY <1>1 DEF Write, KeepsStringRules, AllStringRules, Half
<1>4. Unsigned(Unsigned(k + Len(s)) + 1) = k + Len(s) + 1
  <2>1. k + Len(s) \in Nat /\ k + Len(s) + 1 \in Nat /\ k + Len(s) + 1 < Limit
        /\ k + Len(s) < Limit
    BY <1>1, <1>2, <1>3, Sizes
  <2> QED
    BY <2>1, NoWrap
<1>5. phase' \in {"grow", "copy"} /\ newCapacity' \in 0..(Limit - 1)
  BY <1>2, <1>3, Sizes
<1>6. StringTypeOK' /\ Terminated' /\ TextThen = TextNow
  BY <1>3, <1>5, SameText
<1>7. Writing'
  <2>1. src' \in Strings /\ at' \in {0, length'} /\ at' + Len(src') + 1 <= Half
        /\ newCapacity' >= capacity'
    BY <1>1, <1>2, <1>3
  <2>2. phase' = "copy" => newCapacity' > at' + Len(src')
    BY <1>1, <1>2, <1>3, <1>4
  <2> QED
    BY <2>1, <2>2 DEF Writing, Half
<1> QED
  BY <1>6, <1>7 DEF Correct, StringInv

LEMMA AppendCorrect ==
  ASSUME KeepsStringRules, StringInv, AppendCString
  PROVE  Correct
<1>1. PICK s \in Strings : Write(s, length)
  BY DEF AppendCString, Arguments, KeepsStringRules, AllStringRules
<1> QED
  BY <1>1, WriteCorrect DEF AppendCString

LEMMA SetStringCorrect ==
  ASSUME KeepsStringRules, StringInv, SetString
  PROVE  Correct
<1>1. PICK s \in Strings : Write(s, 0)
  BY DEF SetString, Arguments, KeepsStringRules, AllStringRules
<1> QED
  BY <1>1, WriteCorrect DEF SetString

LEMMA SetNothingCorrect ==
  ASSUME StringInv, SetNothing
  PROVE  Correct
<1>1. /\ phase = "idle" /\ phase' = "idle" /\ length' = 0
      /\ data' = [data EXCEPT ![1] = End]
      /\ capacity' = capacity /\ newCapacity' = newCapacity
  BY DEF SetNothing
<1>2. /\ data \in Seq(Bytes) /\ Len(data) = capacity
      /\ capacity \in Nat /\ capacity < Limit /\ capacity > 0
  BY <1>1, HeldNow DEF Holds
<1>3. data' \in Seq(Bytes) /\ Len(data') = capacity /\ data'[0 + 1] = End
  BY <1>1, <1>2 DEF Bytes
<1>4. Holds(data', 0)
  BY <1>2, <1>3 DEF Holds
<1>5. newCapacity' \in 0..(Limit - 1)
  BY <1>1 DEF StringInv, StringTypeOK, Limit
<1>6. StringInv'
  BY <1>1, <1>2, <1>3, <1>4, <1>5, IdleKeeps
<1>7. TextThen = <<>>
  BY <1>1, SubSeqEmpty DEF TextThen, TextOf
<1>8. Text!Replace
  BY <1>1, <1>7, TextHeld, TextSteps
<1> QED
  BY <1>6, <1>8 DEF Correct, TextNext

\* A capacity that is too small is less than half the memory.
LEMMA DoubleCorrect ==
  ASSUME StringInv, Double
  PROVE  Correct
<1>1. phase = "grow" /\ UNCHANGED <<data, length, capacity, at, src>>
  BY DEF Double
<1>2. /\ src \in Strings /\ at \in {0, length} /\ at + Len(src) + 1 <= Half
      /\ newCapacity >= capacity
  BY <1>1 DEF StringInv, Writing, Half
<1>3. src # Itself /\ Len(src) \in Nat /\ Length(src) = Len(src)
  BY <1>2, TextsAre DEF Length
<1>4. /\ length \in Nat /\ at \in Nat /\ capacity \in Nat
      /\ newCapacity \in Nat /\ newCapacity < Limit
  <2>1. length \in Nat /\ capacity \in Nat
    BY <1>1, HeldNow DEF Holds
  <2>2. newCapacity \in 0..(Limit - 1)
    BY DEF StringInv, StringTypeOK, Limit
  <2> QED
    BY <1>2, <2>1, <2>2, Sizes
<1>5. Needed = at + Len(src) + 1
  <2>1. /\ at + Len(src) \in Nat /\ at + Len(src) + 1 \in Nat
        /\ at + Len(src) < Limit /\ at + Len(src) + 1 < Limit
    BY <1>2, <1>3, <1>4, Sizes
  <2> QED
    BY <1>3, <2>1, NoWrap DEF Needed
<1>6. CASE newCapacity < Needed
  <2>1. newCapacity' = Unsigned(newCapacity * 2) /\ phase' = "grow"
    BY <1>1, <1>6 DEF Double
  <2>2. newCapacity * 2 \in Nat /\ newCapacity * 2 < Limit /\ newCapacity * 2 >= newCapacity
    BY <1>2, <1>3, <1>4, <1>5, <1>6, Sizes
  <2>3. newCapacity' = newCapacity * 2
    BY <2>1, <2>2, NoWrap
  <2>4. newCapacity' \in 0..(Limit - 1) /\ newCapacity' >= capacity'
    BY <1>1, <1>2, <1>4, <2>2, <2>3, Sizes
  <2>5. StringTypeOK' /\ Terminated' /\ TextThen = TextNow
    BY <1>1, <2>1, <2>4, SameText
  <2>6. Writing'
    BY <1>1, <1>2, <2>1, <2>4 DEF Writing, Half
  <2> QED
    BY <2>5, <2>6 DEF Correct, StringInv
<1>7. CASE ~(newCapacity < Needed)
  <2>1. newCapacity' = newCapacity /\ phase' = "copy"
    BY <1>7 DEF Double
  <2>2. newCapacity' \in 0..(Limit - 1)
    BY <1>4, <2>1, Sizes
  <2>3. newCapacity > at + Len(src)
    BY <1>3, <1>4, <1>5, <1>7
  <2>4. StringTypeOK' /\ Terminated' /\ TextThen = TextNow
    BY <1>1, <2>1, <2>2, SameText
  <2>5. Writing'
    BY <1>1, <1>2, <2>1, <2>3 DEF Writing, Half
  <2> QED
    BY <2>4, <2>5 DEF Correct, StringInv
<1> QED
  BY <1>6, <1>7

LEMMA OutOfMemoryCorrect ==
  ASSUME StringInv, OutOfMemory
  PROVE  Correct
<1>1. /\ phase = "copy" /\ phase' = "idle" /\ newCapacity' = 0
      /\ UNCHANGED <<data, length, capacity>>
  BY DEF OutOfMemory, Idle
<1>2. newCapacity' \in 0..(Limit - 1)
  BY <1>1, Sizes
<1>3. StringTypeOK' /\ Terminated' /\ TextThen = TextNow
  BY <1>1, <1>2, SameText
<1>4. Writing'
  BY <1>1 DEF Writing
<1> QED
  BY <1>3, <1>4 DEF Correct, StringInv

\* The buffer that is copied to has the characters in front of the position.
LEMMA MovedIs ==
  ASSUME StringInv, phase = "copy"
  PROVE  /\ Moved \in Seq(Bytes) /\ Len(Moved) = newCapacity
         /\ at \in Nat /\ at <= length
         /\ \A i \in 1..at : Moved[i] = data[i] /\ Moved[i] \in Characters
<1>1. /\ src \in Strings /\ at \in {0, length} /\ newCapacity > at + Len(src)
      /\ newCapacity >= capacity
  BY DEF StringInv, Writing
<1>2. /\ data \in Seq(Bytes) /\ Len(data) = capacity /\ length \in Nat
      /\ length < capacity /\ capacity \in Nat
      /\ \A i \in 1..length : data[i] \in Characters
  BY HeldNow DEF Holds
<1>3. at \in Nat /\ at <= length /\ Len(src) \in Nat
  BY <1>1, <1>2, TextsAre
<1>4. newCapacity \in Nat
  BY Sizes DEF StringInv, StringTypeOK, Limit
<1>5. CASE newCapacity = capacity
  BY <1>2, <1>3, <1>5 DEF Moved
<1>6. CASE newCapacity # capacity
  <2> DEFINE c == SubSeq(data, 1, at)
             b == Buffer(newCapacity)
  <2>1. /\ c \in Seq(Bytes) /\ Len(c) = at /\ \A i \in 1..at : c[i] = data[i]
    <3>1. \A i \in 1..at : data[i] \in Bytes
      BY <1>2, <1>3 DEF Bytes
    <3>2. /\ c \in Seq(Bytes)
          /\ Len(c) = IF 1 <= at THEN at - 1 + 1 ELSE 0
          /\ \A i \in 1..(at - 1 + 1) : c[i] = data[1 + i - 1]
      BY <1>3, <3>1, SubSeqProperties
    <3> QED
      BY <1>3, <3>2
  <2>2. b \in Seq(Bytes) /\ Len(b) = newCapacity
    BY <1>4, BufferIs
  <2>3. Moved = Copy(b, 0, c)
    BY <1>6 DEF Moved
  <2> HIDE DEF b, c
  <2>4. 0 + Len(c) <= Len(b)
    BY <1>1, <1>2, <1>3, <1>4, <2>1, <2>2
  <2>5. /\ Copy(b, 0, c) \in Seq(Bytes) /\ Len(Copy(b, 0, c)) = Len(b)
        /\ \A i \in 1..Len(b) :
             Copy(b, 0, c)[i] = IF i \in (0 + 1)..(0 + Len(c)) THEN c[i - 0] ELSE b[i]
    BY <2>1, <2>2, <2>4, CopyIs
  <2>6. \A i \in 1..at : Copy(b, 0, c)[i] = data[i]
    <3> TAKE i \in 1..at
    <3>1. i \in 1..Len(b) /\ i \in (0 + 1)..(0 + Len(c)) /\ i - 0 = i
      BY <1>3, <2>1, <2>4, <2>2, <1>4
    <3> QED
      BY <3>1, <2>1, <2>5
  <2> QED
    BY <1>2, <1>3, <2>2, <2>3, <2>5, <2>6
<1> QED
  BY <1>5, <1>6

LEMMA SameStart ==
  ASSUME NEW b, NEW d, NEW n \in Nat,
         \A i \in 1..n : b[i] = d[i] /\ b[i] \in Characters
  PROVE  SubSeq(b, 1, n) = SubSeq(d, 1, n)
<1>1. \A i \in 1..n : d[i] \in Characters
  OBVIOUS
<1>2. /\ SubSeq(b, 1, n) \in Seq(Characters)
      /\ Len(SubSeq(b, 1, n)) = IF 1 <= n THEN n - 1 + 1 ELSE 0
      /\ \A i \in 1..(n - 1 + 1) : SubSeq(b, 1, n)[i] = b[1 + i - 1]
  BY SubSeqProperties
<1>3. /\ SubSeq(d, 1, n) \in Seq(Characters)
      /\ Len(SubSeq(d, 1, n)) = IF 1 <= n THEN n - 1 + 1 ELSE 0
      /\ \A i \in 1..(n - 1 + 1) : SubSeq(d, 1, n)[i] = d[1 + i - 1]
  BY <1>1, SubSeqProperties
<1>4. \A i \in 1..n : SubSeq(b, 1, n)[i] = SubSeq(d, 1, n)[i]
  BY <1>2, <1>3
<1> QED
  BY <1>2, <1>3, <1>4, SeqEqual

LEMMA FinishCorrect ==
  ASSUME StringInv, Finish
  PROVE  Correct
<1>1. /\ phase = "copy" /\ phase' = "idle" /\ newCapacity' = 0
      /\ data' = Copy(Moved, at, Source)
      /\ length' = Unsigned(at + Length(src)) /\ capacity' = newCapacity
  BY DEF Finish, Idle
<1>2. /\ src \in Strings /\ at \in {0, length} /\ at + Len(src) + 1 <= Half
      /\ newCapacity > at + Len(src)
  BY <1>1 DEF StringInv, Writing, Half
<1>3. src \in Seq(Characters) /\ src # Itself /\ Len(src) \in Nat
  BY <1>2, TextsAre
<1>4. Source = src \o <<End>> /\ Length(src) = Len(src)
  BY <1>3 DEF Source, Length
<1> DEFINE b == Moved
           d == data'
<1>5. /\ b \in Seq(Bytes) /\ Len(b) = newCapacity /\ at \in Nat /\ at <= length
      /\ \A i \in 1..at : b[i] = data[i] /\ b[i] \in Characters
  BY <1>1, MovedIs
<1>6. d = Copy(b, at, src \o <<End>>)
  BY <1>1, <1>4
<1>7. length' = at + Len(src)
  <2>1. at + Len(src) \in Nat /\ at + Len(src) < Limit
    BY <1>2, <1>3, <1>5, Sizes
  <2> QED
    BY <2>1, <1>1, <1>4, NoWrap
<1>8. newCapacity \in Nat /\ newCapacity < Limit
  BY Sizes DEF StringInv, StringTypeOK, Limit
<1> HIDE DEF b, d
<1>9. at + Len(src) < Len(b) /\ \A i \in 1..at : b[i] \in Characters
  BY <1>2, <1>3, <1>5, <1>8
<1>10. Holds(d, at + Len(src)) /\ Len(d) = Len(b)
  BY <1>3, <1>5, <1>6, <1>9, Filled
<1>11. SubSeq(d, 1, at + Len(src)) = SubSeq(b, 1, at) \o src
  BY <1>3, <1>5, <1>6, <1>9, FilledText
<1>12. StringInv'
  <2>1. newCapacity' \in 0..(Limit - 1)
    BY <1>1, Sizes
  <2> QED
    BY <1>1, <1>5, <1>7, <1>8, <1>10, <2>1, IdleKeeps DEF d
<1>13. TextThen = SubSeq(b, 1, at) \o src
  BY <1>1, <1>7, <1>11 DEF d, TextThen, TextOf
<1>14. TextNow = SubSeq(data, 1, length) /\ TextNow # NULL
  BY <1>1, TextHeld
<1>15. CASE at = 0
  <2>1. SubSeq(b, 1, at) = <<>>
    BY <1>15, SubSeqEmpty
  <2>2. <<>> \o src = src
    BY <1>3, ConcatEmptySeq
  <2>3. TextThen = src
    BY <1>13, <2>1, <2>2
  <2> QED
    BY <1>2, <1>12, <1>14, <2>3, TextSteps DEF Correct, TextNext
<1>16. CASE at = length
  <2>1. SubSeq(b, 1, at) = SubSeq(data, 1, length)
    BY <1>5, <1>16, SameStart
  <2> QED
    BY <1>2, <1>12, <1>13, <1>14, <2>1, TextSteps DEF Correct, TextNext
<1> QED
  BY <1>2, <1>12, <1>15, <1>16

LEMMA DeallocCorrect ==
  ASSUME StringInv, Dealloc
  PROVE  Correct
<1>1. /\ phase = "idle" /\ phase' = "none" /\ data' = <<>> /\ length' = 0
      /\ capacity' = 0 /\ newCapacity' = newCapacity
  BY DEF Dealloc
<1>2. newCapacity' \in 0..(Limit - 1)
  BY <1>1 DEF StringInv, StringTypeOK, Limit
<1>3. StringInv'
  <2>1. data' \in Seq(Bytes) /\ Len(data') = 0
    BY <1>1
  <2> QED
    BY <1>1, <1>2, <2>1, Sizes
       DEF StringInv, StringTypeOK, Terminated, Writing, Bytes, Limit
<1>4. TextThen = NULL /\ TextNow # NULL
  BY <1>1, TextHeld DEF TextThen, TextOf
<1> QED
  BY <1>3, <1>4, TextSteps DEF Correct, TextNext

(***************************************************************************)
(* The specification                                                       *)
(***************************************************************************)
LEMMA StringStep ==
  ASSUME KeepsStringRules, StringInv, [StringNext]_stringVars
  PROVE  Correct
BY InitWithCStringCorrect, InitWithCapacityCorrect, AppendCorrect, SetNothingCorrect,
   SetStringCorrect, DoubleCorrect, FinishCorrect, OutOfMemoryCorrect, DeallocCorrect,
   StutterCorrect DEF StringNext

\* Only a program that uses strings changes one.
LEMMA StepCorrect ==
  ASSUME KeepsStringRules, StringInv, [Next]_vars
  PROVE  Correct
<1>1. [StringNext]_stringVars
  BY DEF Next, vars
<1> QED
  BY <1>1, StringStep

LEMMA Initially ==
  ASSUME Init
  PROVE  StringInv /\ Text!TextInit
<1>1. /\ phase = "none" /\ data = <<>> /\ length = 0 /\ capacity = 0 /\ newCapacity = 0
  BY DEF Init, StringInit
<1>2. data \in Seq(Bytes) /\ Len(data) = 0
  BY <1>1
<1> QED
  BY <1>1, <1>2, Sizes
     DEF StringInv, StringTypeOK, Terminated, Writing, Bytes, Limit, Text!TextInit

\* Lengths, capacities and the buffer agree at every step.
THEOREM StringInvariance == KeepsStringRules => (Spec => []StringInv)
<1> SUFFICES ASSUME KeepsStringRules PROVE Spec => []StringInv
  OBVIOUS
<1>1. Init => StringInv
  BY Initially
<1>2. StringInv /\ [Next]_vars => StringInv'
  BY StepCorrect DEF Correct
<1> QED
  BY <1>1, <1>2, PTL DEF Spec

\* For strings that fit into half the memory and arguments other than the string
\* itself, the terminator is at _length and nowhere before it whenever a method can
\* begin, for every width of the sizes and every sequence of calls
\* (initWithCString:, appendCString:, setString:).
THEOREM AlwaysTerminated == KeepsStringRules => (Spec => []Terminated)
<1> SUFFICES ASSUME KeepsStringRules PROVE Spec => []Terminated
  OBVIOUS
<1>1. Spec => []StringInv
  BY StringInvariance
<1>2. StringInv => Terminated
  BY DEF StringInv
<1> QED
  BY <1>1, <1>2, PTL

\* Under the same rules the buffer implements a text: every step of a method, also
\* one for which there is no memory, extends, replaces or destroys the text at once
\* or leaves it alone (OZMutableString.m).
THEOREM StringRefinement == KeepsStringRules => (Spec => ImplementsText)
<1> SUFFICES ASSUME KeepsStringRules PROVE Spec => ImplementsText
  OBVIOUS
<1>1. Spec => []StringInv
  BY StringInvariance
<1>2. Init => Text!TextInit
  BY Initially
<1>3. StringInv /\ [Next]_vars =>
        [TextNext]_(IF phase = "none" THEN NULL ELSE SubSeq(data, 1, length))
  BY StepCorrect DEF Correct, TextThen, TextNow, TextOf
<1> QED
  BY <1>1, <1>2, <1>3, PTL DEF Spec, ImplementsText, Text!TextSpec, TextNext

(***************************************************************************)
(* Powers of two                                                           *)
(***************************************************************************)
LEMMA Widths ==
  /\ NumberWidth \in Nat /\ Point \in Nat /\ Point >= 1 /\ NumberWidth = Point + 1
  /\ \A n \in 0..(2 * NumberWidth) : 2^(n + 1) = 2 * 2^n
BY NumberAssumption DEF Point

LEMMA Powers ==
  ASSUME NEW n \in 0..(2 * NumberWidth)
  PROVE  2^n \in Nat /\ 2^n > 0 /\ 2^(n + 1) = 2 * 2^n
<1> DEFINE T == {k \in 0..(2 * NumberWidth) : ~(2^k \in Nat /\ 2^k > 0)}
<1>1. T = {}
  <2>1. SUFFICES ASSUME T # {} PROVE FALSE
    OBVIOUS
  <2>2. T \in SUBSET Nat
    BY Widths
  <2>3. PICK k \in T : \A m \in T : k <= m
    BY <2>1, <2>2, LeastNat
  <2>4. k # 0
    <3>1. SUFFICES ASSUME k = 0 PROVE FALSE
      OBVIOUS
    <3>2. 2^k = 2^0 /\ 2^0 = 1
      BY <3>1
    <3>3. 2^k \in Nat /\ 2^k > 0
      BY <3>2
    <3> QED
      BY <2>3, <3>3
  <2>5. k - 1 \in 0..(2 * NumberWidth) /\ k - 1 \notin T /\ (k - 1) + 1 = k
    BY <2>2, <2>3, <2>4, Widths
  <2>6. 2^(k - 1) \in Nat /\ 2^(k - 1) > 0
    BY <2>5
  <2>7. 2^((k - 1) + 1) = 2 * 2^(k - 1)
    BY <2>5, Widths
  <2>8. 2^k = 2 * 2^(k - 1)
    BY <2>5, <2>7
  <2>9. 2^k \in Nat /\ 2^k > 0
    BY <2>6, <2>8
  <2> QED
    BY <2>3, <2>9
<1> QED
  BY <1>1, Widths

LEMMA PowerSum ==
  ASSUME NEW a \in Nat, NEW b \in Nat, a + b <= 2 * NumberWidth
  PROVE  2^(a + b) = 2^a * 2^b
<1> DEFINE T == {k \in 0..b : 2^(a + k) # 2^a * 2^k}
<1>1. T = {}
  <2>1. SUFFICES ASSUME T # {} PROVE FALSE
    OBVIOUS
  <2>2. PICK k \in T : \A m \in T : k <= m
    <3>1. T \in SUBSET Nat
      OBVIOUS
    <3> QED
      BY <2>1, <3>1, LeastNat
  <2>3. k \in Nat /\ k <= b /\ 2^(a + k) # 2^a * 2^k
    OBVIOUS
  <2>4. k # 0
    <3>1. SUFFICES ASSUME k = 0 PROVE FALSE
      OBVIOUS
    <3>2. 2^0 = 1 /\ a + 0 = a
      OBVIOUS
    <3>3. 2^a \in Nat
      BY Powers, Widths
    <3>4. 2^a = 2^a * 1
      BY <3>3
    <3> QED
      BY <2>3, <3>1, <3>2, <3>4
  <2>5. k - 1 \in 0..b /\ k - 1 \notin T /\ (k - 1) + 1 = k /\ (a + (k - 1)) + 1 = a + k
    BY <2>2, <2>3, <2>4
  <2>6. 2^(a + (k - 1)) = 2^a * 2^(k - 1)
    BY <2>5
  <2>7. k - 1 \in 0..(2 * NumberWidth) /\ a + (k - 1) \in 0..(2 * NumberWidth)
        /\ a \in 0..(2 * NumberWidth)
    BY <2>3, <2>4, Widths
  <2>8. /\ 2^((k - 1) + 1) = 2 * 2^(k - 1)
        /\ 2^((a + (k - 1)) + 1) = 2 * 2^(a + (k - 1))
    BY <2>7, Powers
  <2>9. 2^k = 2 * 2^(k - 1) /\ 2^(a + k) = 2 * (2^a * 2^(k - 1))
    BY <2>5, <2>6, <2>8
  <2>10. 2^a \in Nat /\ 2^(k - 1) \in Nat
    BY <2>7, Powers
  <2> DEFINE x == 2^a
             y == 2^(k - 1)
  <2>11. 2 * (x * y) = x * (2 * y)
    <3> HIDE DEF x, y
    <3>1. ASSUME x \in Nat, y \in Nat PROVE 2 * (x * y) = x * (2 * y)
      BY <3>1
    <3> QED
      BY <2>10, <3>1 DEF x, y
  <2> QED
    BY <2>3, <2>9, <2>11
<1> QED
  BY <1>1

\* A whole is made of two powers.
LEMMA Halved ==
  ASSUME NEW s \in Nat, s <= Point, NEW k, k = Point - s
  PROVE  /\ k \in Nat /\ 2^s \in Nat /\ 2^s > 0 /\ 2^k \in Nat /\ 2^k > 0
         /\ 2^Point = 2^s * 2^k /\ 2^s <= 2^Point /\ 2^Point \in Nat /\ 2^Point > 0
         /\ 2^(Point + 1) = 2 * 2^Point /\ 2^(s + 1) = 2 * 2^s
<1>1. k \in Nat /\ s + k = Point /\ s + k <= 2 * NumberWidth
  BY Widths
<1>2. /\ s \in 0..(2 * NumberWidth) /\ k \in 0..(2 * NumberWidth)
      /\ Point \in 0..(2 * NumberWidth)
  BY <1>1, Widths
<1>3. /\ 2^s \in Nat /\ 2^s > 0 /\ 2^k \in Nat /\ 2^k > 0 /\ 2^Point \in Nat /\ 2^Point > 0
      /\ 2^(Point + 1) = 2 * 2^Point /\ 2^(s + 1) = 2 * 2^s
  BY <1>2, Powers
<1>4. 2^Point = 2^s * 2^k
  <2>1. 2^(s + k) = 2^s * 2^k
    BY <1>1, PowerSum
  <2> QED
    BY <1>1, <2>1
<1> DEFINE x == 2^s
           y == 2^k
<1>5. x <= x * y
  <2> HIDE DEF x, y
  <2>1. ASSUME x \in Nat, y \in Nat, y > 0 PROVE x <= x * y
    BY <2>1
  <2> QED
    BY <1>3, <2>1 DEF x, y
<1> QED
  BY <1>1, <1>3, <1>4, <1>5

(***************************************************************************)
(* Products and quotients                                                  *)
(***************************************************************************)
LEMMA DivMod ==
  ASSUME NEW a \in Int, NEW b \in Nat, b > 0
  PROVE  a \div b \in Int /\ a % b \in Nat /\ a = (a \div b) * b + (a % b) /\ a % b < b
OBVIOUS

LEMMA Scales ==
  ASSUME NEW a \in Int, NEW b \in Int, NEW c \in Nat
  PROVE  /\ a * c \in Int
         /\ a <= b => a * c <= b * c
         /\ a < b /\ c > 0 => a * c < b * c
OBVIOUS

LEMMA ScalesBack ==
  ASSUME NEW a \in Int, NEW b \in Int, NEW c \in Nat, c > 0, a * c < b * c
  PROVE  a < b
<1>1. a >= b => b * c <= a * c
  BY Scales
<1> QED
  BY <1>1, Scales

LEMMA MagnitudeOf ==
  ASSUME NEW i \in Int
  PROVE  /\ Magnitude(i) \in Nat
         /\ i = Magnitude(i) \/ i = -Magnitude(i)
         /\ i >= 0 => Magnitude(i) = i
         /\ i < 0 => Magnitude(i) = -i
BY DEF Magnitude

(***************************************************************************)
(* Numbers                                                                 *)
(***************************************************************************)
LEMMA Ends ==
  /\ Highest = 2^Point - 1 /\ Lowest = -(2^Point)
  /\ Highest \in Int /\ Lowest \in Int /\ 2^Point \in Nat /\ 2^Point > 0
<1>1. 2^Point \in Nat /\ 2^Point > 0
  BY Widths, Halved
<1> QED
  BY <1>1 DEF Highest, Lowest

LEMMA NumberFacts ==
  ASSUME NEW n \in Numbers, NEW r, r = n.raw, NEW s, s = n.shift
  PROVE  /\ r \in Int /\ s \in Nat /\ s <= Point
         /\ -(2^Point) <= r /\ r < 2^Point
         /\ 2^s \in Nat /\ 2^s > 0 /\ 2^s <= 2^Point /\ Value(n) = r * 2^s
<1>1. r \in Lowest..Highest /\ s \in 0..Point
  BY DEF Numbers
<1>2. s \in Nat /\ s <= Point
  BY <1>1, Widths
<1> QED
  BY <1>1, <1>2, Ends, Halved DEF Value

LEMMA IsNumber ==
  ASSUME NEW r \in Int, NEW s \in Nat, s <= Point, -(2^Point) <= r, r < 2^Point
  PROVE  [raw |-> r, shift |-> s] \in Numbers
<1>1. r \in Lowest..Highest
  BY Ends
<1>2. s \in 0..Point
  BY Widths
<1> QED
  BY <1>1, <1>2 DEF Numbers

\* What ResultExact says of the number n and the fraction x.
Near(n, x) ==
  LET gap == Value(n) * x.den - x.num
  IN CASE x.num >= 2^Point * 2^Point * x.den -> n = [raw |-> Highest, shift |-> Point]
       [] x.num < Lowest * 2^Point * x.den   -> n = [raw |-> Lowest, shift |-> Point]
       [] OTHER -> Magnitude(gap) < 2^n.shift * x.den

\* A number in the range that is near the fraction i / d.
LEMMA NearWithin ==
  ASSUME NEW n, NEW i \in Int, NEW d \in Nat, d > 0, NEW x, x.num = i, x.den = d,
         NEW v \in Int, v = Value(n), NEW u \in Nat, u = 2^n.shift, NEW H, H = 2^Point,
         i < H * H * d, -(H * H * d) <= i,
         -(u * d) < v * d - i, v * d - i < u * d
  PROVE  Near(n, x)
<1>1. H \in Nat /\ Lowest = -H
  BY Ends
<1>2. H * H * d \in Int /\ Lowest * H * d = -(H * H * d)
  BY <1>1
<1>3. ~(i >= H * H * d) /\ ~(i < Lowest * H * d)
  BY <1>2
<1>4. v * d - i \in Int /\ u * d \in Int
  OBVIOUS
<1> DEFINE g == v * d - i
           w == u * d
<1>5. Magnitude(g) < w
  <2>1. g \in Int /\ w \in Int /\ -w < g /\ g < w
    BY <1>4
  <2> HIDE DEF g, w
  <2> QED
    BY <2>1 DEF Magnitude
<1> QED
  BY <1>3, <1>5 DEF Near

LEMMA NearHighest ==
  ASSUME NEW n, n = [raw |-> Highest, shift |-> Point], NEW i \in Int, NEW d \in Nat, d > 0,
         NEW x, x.num = i, x.den = d, NEW H, H = 2^Point, i >= H * H * d
  PROVE  Near(n, x)
<1>1. H \in Nat /\ Lowest = -H /\ H > 0
  BY Ends
<1>2. Lowest * H * d = -(H * H * d) /\ H * H * d >= 0
  BY <1>1
<1>3. i >= H * H * d /\ ~(i < Lowest * H * d)
  BY <1>1, <1>2
<1> QED
  BY <1>3 DEF Near

LEMMA NearLowest ==
  ASSUME NEW n, n = [raw |-> Lowest, shift |-> Point], NEW i \in Int, NEW d \in Nat, d > 0,
         NEW x, x.num = i, x.den = d, NEW H, H = 2^Point, i < -(H * H * d)
  PROVE  Near(n, x)
<1>1. H \in Nat /\ Lowest = -H /\ H > 0
  BY Ends
<1>2. Lowest * H * d = -(H * H * d) /\ H * H * d >= 0
  BY <1>1
<1>3. ~(i >= H * H * d) /\ i < Lowest * H * d
  BY <1>1, <1>2
<1> QED
  BY <1>3 DEF Near

(***************************************************************************)
(* Numbers from integers and floats                                        *)
(***************************************************************************)
LEMMA Bits ==
  ASSUME NEW i \in Nat, NEW b, b = BitsForMag(i)
  PROVE  /\ b \in Nat /\ b <= Point
         /\ i < 2^Point => i < 2^b
         /\ i >= 2^Point => b = Point
         /\ i > 0 => 2^(b - 1) <= i /\ b > 0
<1>1. CASE i = 0
  <2>1. 2^0 = 1
    OBVIOUS
  <2>2. b = 0 /\ 2^b = 2^0 /\ 2^Point > 0
    BY <1>1, Ends DEF BitsForMag
  <2> QED
    BY <1>1, <2>1, <2>2, Widths
<1>2. CASE i # 0 /\ i >= 2^Point
  <2>1. b = Point /\ b \in Nat /\ b > 0
    BY <1>2, Widths, Ends DEF BitsForMag
  <2>2. 2^(b - 1) \in Nat /\ 2^(b - 1) <= 2^Point
    BY <2>1, Halved
  <2> QED
    BY <1>2, <2>1, <2>2, Widths, Ends
<1>3. CASE i # 0 /\ ~(i >= 2^Point)
  <2>1. 2^Point \in Nat /\ i < 2^Point
    BY <1>3, Ends
  <2> DEFINE T == {k \in 0..Point : i < 2^k}
  <2>2. Point \in T /\ T \in SUBSET Nat
    BY <2>1, Widths
  <2>3. PICK k \in T : \A m \in T : k <= m
    BY <2>2, LeastNat
  <2>4. k # 0
    <3>1. SUFFICES ASSUME k = 0 PROVE FALSE
      OBVIOUS
    <3>2. 2^k = 2^0 /\ 2^0 = 1
      BY <3>1
    <3> QED
      BY <1>3, <3>2
  <2>5. k \in 1..Point /\ k - 1 \in 0..Point /\ k - 1 \notin T
    BY <2>2, <2>3, <2>4, Widths
  <2>6. 2^(k - 1) \in Nat /\ 2^k \in Nat
    BY <2>5, Widths, Powers
  <2>7. i \in 2^(k - 1)..(2^k - 1)
    BY <2>3, <2>5, <2>6
  <2>8. b = CHOOSE c \in 1..Point : i \in 2^(c - 1)..(2^c - 1)
    BY <1>3 DEF BitsForMag
  <2>9. b \in 1..Point /\ i \in 2^(b - 1)..(2^b - 1)
    BY <2>5, <2>7, <2>8
  <2>10. b \in Nat /\ b <= Point
    BY <2>9, Widths
  <2>11. 2^b \in Nat
    BY <2>10, Halved
  <2> QED
    BY <1>3, <2>1, <2>9, <2>10, <2>11
<1> QED
  BY <1>1, <1>2, <1>3

LEMMA FromIntegerNear ==
  ASSUME NEW i \in Int, Lowest <= i, i <= Highest, NEW n, n = FromInt32(i),
         NEW x, x = Fraction(i * 2^Point, 1)
  PROVE  n \in Numbers /\ Near(n, x)
<1> DEFINE H == 2^Point
           m == Magnitude(i)
           b == BitsForMag(m)
           k == Point - b
           U == 2^b
           K == 2^k
           r == i * K
<1>1. H \in Nat /\ H > 0 /\ -H <= i /\ i < H
  BY Ends
<1>2. m \in Nat /\ m <= H /\ (m = H => i = -H) /\ (m < H => -m <= i /\ i <= m)
  BY <1>1, MagnitudeOf
<1>3. /\ b \in Nat /\ b <= Point /\ (m < H => m < U) /\ (m >= H => b = Point)
  BY <1>2, Bits
<1>4. U \in Nat /\ U > 0 /\ K \in Nat /\ K > 0 /\ H = U * K /\ k \in Nat
  BY <1>3, Halved
<1>5. n = [raw |-> r, shift |-> b]
  BY DEF FromInt32
<1>6. -H <= r /\ r < H /\ r \in Int
  <2>1. CASE m < H
    <3>1. m < U /\ -m <= i /\ i <= m
      BY <1>2, <1>3, <2>1
    <3>2. i < U /\ -U < i
      BY <1>2, <1>4, <3>1
    <3>3. i * K < U * K /\ (-U) * K < i * K /\ i * K \in Int
      BY <1>4, <3>2, Scales
    <3>4. (-U) * K = -(U * K)
      BY <1>4
    <3> QED
      BY <1>4, <3>3, <3>4
  <2>2. CASE m >= H
    <3>1. i = -H /\ b = Point
      BY <1>1, <1>2, <1>3, <2>2
    <3>2. k = 0
      BY <3>1, Widths
    <3>3. K = 2^0
      BY <3>2, Zenon
    <3>4. K = 1
      BY <3>3
    <3>5. r = i
      BY <3>4
    <3> QED
      BY <1>1, <3>1, <3>5
  <2> QED
    BY <1>1, <1>2, <2>1, <2>2
<1>7. n \in Numbers
  BY <1>3, <1>5, <1>6, IsNumber
<1>8. r * U = i * H
  <2>1. ASSUME NEW p \in Int, NEW q \in Int PROVE (i * p) * q = i * (q * p)
    OBVIOUS
  <2> QED
    BY <1>4, <2>1
<1>9. Value(n) = i * H /\ n.shift = b
  BY <1>5, <1>8 DEF Value
<1>10. x.num = i * H /\ x.den = 1
  BY DEF Fraction, Magnitude
<1>11. i * H < H * H /\ -(H * H) <= i * H /\ i * H \in Int
  <2>1. (-H) * H = -(H * H)
    BY <1>1
  <2> QED
    BY <1>1, <2>1, Scales
<1> DEFINE z == i * H
<1>12. Near(n, x)
  <2>1. /\ z \in Int /\ x.num = z /\ x.den = 1 /\ z = Value(n) /\ U = 2^n.shift
        /\ z < H * H * 1 /\ -(H * H * 1) <= z
    BY <1>1, <1>9, <1>10, <1>11
  <2>2. -(U * 1) < z * 1 - z /\ z * 1 - z < U * 1
    BY <1>4, <2>1
  <2> HIDE DEF z, U
  <2> QED
    BY <1>4, <2>1, <2>2, NearWithin
<1> QED
  BY <1>7, <1>12

LEMMA TowardsZeroOf ==
  ASSUME NEW i \in Int, NEW d \in Nat, d > 0, NEW r, r = TowardsZero(i, d),
         NEW H \in Nat, Magnitude(i) < H * d
  PROVE  /\ r \in Int /\ -H <= r /\ r < H
         /\ -d < r * d - i /\ r * d - i < d
<1>1. CASE i < 0
  <2> DEFINE q == (-i) \div d
  <2>1. q \in Int /\ -i = q * d + ((-i) % d) /\ (-i) % d \in Nat /\ (-i) % d < d
    BY <1>1, DivMod
  <2>2. q * d < H * d /\ r = -q
    BY <1>1, <2>1 DEF Magnitude, TowardsZero
  <2>3. q < H
    BY <2>1, <2>2, ScalesBack
  <2>4. q >= 0
    BY <1>1
  <2>5. r * d = -(q * d) /\ q * d \in Int
    BY <2>1, <2>2
  <2> HIDE DEF q
  <2> QED
    BY <1>1, <2>1, <2>2, <2>3, <2>4, <2>5
<1>2. CASE i >= 0
  <2> DEFINE q == i \div d
  <2>1. q \in Int /\ i = q * d + (i % d) /\ i % d \in Nat /\ i % d < d
    BY DivMod
  <2>2. q * d < H * d /\ r = q
    BY <1>2, <2>1 DEF Magnitude, TowardsZero
  <2>3. q < H
    BY <2>1, <2>2, ScalesBack
  <2>4. q >= 0
    BY <1>2
  <2>5. r * d = q * d /\ q * d \in Int
    BY <2>1, <2>2
  <2> HIDE DEF q
  <2> QED
    BY <2>1, <2>2, <2>3, <2>4, <2>5
<1> QED
  BY <1>1, <1>2

LEMMA FromFloatNear ==
  ASSUME NEW f \in Int, Magnitude(f) < 2^(2 * Point), NEW n, n = FromFloat(f),
         NEW x, x = Fraction(f, 2)
  PROVE  n \in Numbers /\ Near(n, x)
<1> DEFINE H == 2^Point
           m == Magnitude(f)
           w == m \div 2^NumberWidth
           b == BitsForMag(w)
           k == Point - b
           U == 2^b
           K == 2^k
           r == TowardsZero(f, 2 * U)
<1>1. H \in Nat /\ H > 0 /\ Point \in Nat /\ Point >= 1
  BY Ends, Widths
<1>2. 2^NumberWidth = 2 * H /\ 2^(2 * Point) = H * H
  <2>1. NumberWidth = Point + 1 /\ 2^(Point + 1) = 2 * 2^Point
    BY Widths, Halved
  <2>2. Point + Point <= 2 * NumberWidth /\ 2 * Point = Point + Point
    BY Widths
  <2>3. 2^(Point + Point) = 2^Point * 2^Point
    BY <2>2, Widths, PowerSum
  <2> QED
    BY <2>1, <2>2, <2>3
<1>3. m \in Nat /\ m < H * H
  BY <1>2, MagnitudeOf
<1>4. /\ w \in Nat /\ m = w * (2 * H) + (m % (2 * H)) /\ m % (2 * H) \in Nat
      /\ m % (2 * H) < 2 * H
  <2>1. w = m \div (2 * H) /\ 2 * H \in Nat /\ 2 * H > 0
    BY <1>1, <1>2
  <2> HIDE DEF w, m, H
  <2>2. w \in Int /\ w >= 0
    BY <1>3, <2>1
  <2> QED
    BY <1>3, <2>1, <2>2, DivMod
<1>5. 2 * w < H
  <2>1. (2 * w) * H <= m
    <3> HIDE DEF w, m, H
    <3>1. w * (2 * H) = (2 * w) * H
      BY <1>1, <1>4
    <3>2. w * (2 * H) \in Int
      BY <1>1, <1>4
    <3> QED
      BY <1>4, <3>1, <3>2
  <2> HIDE DEF w, m, H
  <2>2. (2 * w) * H \in Int /\ H * H \in Int /\ 2 * w \in Int
    BY <1>1, <1>4
  <2>3. (2 * w) * H < H * H
    BY <1>3, <2>1, <2>2
  <2> QED
    BY <1>1, <2>2, <2>3, ScalesBack
<1>6. b \in Nat /\ b <= Point /\ w < U /\ (w > 0 => 2^(b - 1) <= w /\ b > 0)
  <2>1. w < 2^Point
    BY <1>1, <1>4, <1>5
  <2> QED
    BY <1>4, <2>1, Bits
<1>7. b < Point
  <2>1. SUFFICES ASSUME b = Point PROVE FALSE
    BY <1>1, <1>6
  <2>2. w > 0
    <3>1. SUFFICES ASSUME w = 0 PROVE FALSE
      BY <1>4
    <3>2. b = 0
      BY <3>1 DEF BitsForMag
    <3> QED
      BY <1>1, <2>1, <3>2
  <2>3. 2^(b - 1) <= w /\ b - 1 \in Nat /\ b - 1 <= Point /\ (b - 1) + 1 = b
    <3>1. 2^(b - 1) <= w /\ b > 0
      BY <1>6, <2>2
    <3> HIDE DEF b
    <3> QED
      BY <1>1, <1>6, <3>1
  <2>4. 2^((b - 1) + 1) = 2 * 2^(b - 1) /\ 2^(b - 1) \in Nat
    BY <2>3, Halved
  <2>5. H = 2 * 2^(b - 1)
    BY <2>1, <2>3, <2>4
  <2> QED
    BY <1>4, <1>5, <2>3, <2>4, <2>5
<1>8. U \in Nat /\ U > 0 /\ K \in Nat /\ K > 0 /\ H = U * K /\ k \in Nat
  BY <1>6, Halved
<1>9. n = [raw |-> r, shift |-> b]
  BY <1>1, <1>6, <1>7 DEF FromFloat
<1>10. m < H * (2 * U) /\ 2 * U \in Nat /\ 2 * U > 0
  <2> HIDE DEF w, m, H, U
  <2>1. w + 1 <= U /\ w + 1 \in Int
    BY <1>4, <1>6, <1>8
  <2>2. (w + 1) * (2 * H) <= U * (2 * H)
    BY <1>1, <1>8, <2>1, Scales
  <2>3. (w + 1) * (2 * H) = w * (2 * H) + 2 * H
    BY <1>1, <1>4
  <2>4. U * (2 * H) = H * (2 * U) /\ H * (2 * U) \in Int /\ w * (2 * H) \in Int
    <3>1. H \in Int /\ U \in Int /\ w \in Int
      BY <1>1, <1>4, <1>8
    <3>2. ASSUME NEW h \in Int, NEW u \in Int
          PROVE  u * (2 * h) = h * (2 * u) /\ h * (2 * u) \in Int /\ u * (2 * h) \in Int
      OBVIOUS
    <3> QED
      BY <3>1, <3>2
  <2>5. m < w * (2 * H) + 2 * H
    BY <1>1, <1>4, <2>4
  <2> QED
    BY <1>1, <1>3, <1>8, <2>2, <2>3, <2>4, <2>5
<1>11. /\ r \in Int /\ -H <= r /\ r < H
       /\ -(2 * U) < r * (2 * U) - f /\ r * (2 * U) - f < 2 * U
  <2>1. Magnitude(f) < H * (2 * U)
    BY <1>10
  <2> HIDE DEF m, H, U
  <2> QED
    BY <1>1, <1>10, <2>1, TowardsZeroOf
<1>12. n \in Numbers
  BY <1>6, <1>9, <1>11, IsNumber
<1>13. Value(n) = r * U /\ n.shift = b
  BY <1>9 DEF Value
<1>14. x.num = f /\ x.den = 2
  BY DEF Fraction, Magnitude
<1> DEFINE v == r * U
<1>15. f < H * H * 2 /\ -(H * H * 2) <= f
  <2>1. -(H * H) <= f /\ f <= H * H /\ H * H \in Nat
    <3>1. H * H \in Nat
      BY <1>1
    <3> HIDE DEF H
    <3> QED
      BY <1>3, <3>1, MagnitudeOf DEF m
  <2> DEFINE z == H * H
  <2>2. -(z * 2) <= f /\ f < z * 2
    <3>1. -z <= f /\ f <= z /\ z \in Nat /\ z > 0
      BY <1>1, <2>1
    <3> HIDE DEF z
    <3> QED
      BY <3>1
  <2> QED
    BY <2>2
<1>16. Near(n, x)
  <2>1. v \in Int /\ v = Value(n) /\ U = 2^n.shift
    BY <1>8, <1>11, <1>13
  <2>2. v * 2 = r * (2 * U)
    <3> HIDE DEF r, U
    <3> QED
      BY <1>8, <1>11
  <2>3. -(U * 2) < v * 2 - f /\ v * 2 - f < U * 2
    <3> HIDE DEF r, U
    <3> QED
      BY <1>8, <1>11, <2>1, <2>2
  <2> HIDE DEF v, U, H, r
  <2> QED
    BY <1>8, <1>14, <1>15, <2>1, <2>3, NearWithin DEF H
<1> QED
  BY <1>12, <1>16

(***************************************************************************)
(* Sums and differences                                                    *)
(***************************************************************************)
LEMMA ShiftBelow ==
  ASSUME NEW s \in Nat, s < Point, NEW U, U = 2^s, NEW H, H = 2^Point
  PROVE  U \in Nat /\ U > 0 /\ 2 * U <= H /\ 2^(s + 1) = 2 * U /\ H \in Nat
<1>1. s + 1 \in Nat /\ s + 1 <= Point /\ s <= Point
  BY Widths
<1>2. 2^(s + 1) <= 2^Point
  BY <1>1, Halved
<1> QED
  BY <1>1, <1>2, Halved

\* The sum i of two mantissas is an error e below the value of the terms.
LEMMA RenormalizedNear ==
  ASSUME NEW i \in Int, NEW s \in Nat, s <= Point, NEW U, U = 2^s, NEW H, H = 2^Point,
         -(2 * H) <= i, i < 2 * H, NEW e \in Int, -U < e, e < U,
         i = -(2 * H) => e >= 0,
         NEW n, n = Renormalized(i, s), NEW x, x.num = i * U + e, x.den = 1
  PROVE  n \in Numbers /\ Near(n, x)
<1> DEFINE V == i * U + e
<1>1. /\ U \in Nat /\ U > 0 /\ U <= H /\ H \in Nat /\ H > 0
      /\ Highest = H - 1 /\ Lowest = -H
  BY Halved, Ends
<1>2. i * U \in Int /\ V \in Int /\ x.num = V /\ H * H * 1 = H * H /\ H * H \in Nat
  <2>1. i * U \in Int /\ H * H \in Nat
    BY <1>1
  <2> QED
    BY <2>1
<1>3. CASE -H <= i /\ i < H
  <2>1. n = [raw |-> i, shift |-> s]
    <3>1. InRange(i) /\ Clamp(i) = i
      BY <1>1, <1>3 DEF InRange, Clamp
    <3> QED
      BY <3>1 DEF Renormalized
  <2>2. n \in Numbers /\ n.shift = s /\ n.raw = i
    BY <1>3, <2>1, IsNumber
  <2>3. Value(n) = i * U
    BY <2>2 DEF Value
  <2>4. V < H * H
    <3>1. (i + 1) * U <= H * U /\ U * H <= H * H
      BY <1>1, <1>3, Scales
    <3>2. (i + 1) * U = i * U + U /\ U * H = H * U
      BY <1>1
    <3>3. H * U \in Int
      BY <1>1
    <3> QED
      BY <1>1, <1>2, <3>1, <3>2, <3>3
  <2>5. CASE -(H * H) <= V
    <3> DEFINE v == i * U
    <3>1. v \in Int /\ v = Value(n) /\ U = 2^n.shift /\ V = v + e
      BY <1>2, <2>2, <2>3
    <3>2. -(U * 1) < v * 1 - V /\ v * 1 - V < U * 1
      <4> HIDE DEF v, V
      <4> QED
        BY <1>1, <1>2, <3>1
    <3> HIDE DEF v, V
    <3>3. Near(n, x)
      BY <1>1, <1>2, <2>4, <2>5, <3>1, <3>2, NearWithin
    <3> QED
      BY <2>2, <3>3
  <2>6. CASE V < -(H * H)
    <3>1. s = Point
      <4>1. SUFFICES ASSUME s < Point PROVE FALSE
        BY Widths
      <4>2. 2 * U <= H
        BY <4>1, ShiftBelow
      <4>3. (-H) * U <= i * U /\ (2 * U) * H <= H * H
        BY <1>1, <1>3, <4>2, Scales
      <4>4. (-H) * U = -(H * U) /\ (2 * U) * H = H * U + H * U /\ H * U \in Int
        BY <1>1
      <4>5. U * 1 <= U * H /\ U * H = H * U
        BY <1>1
      <4> QED
        BY <1>1, <1>2, <2>6, <4>3, <4>4, <4>5
    <3>2. i = -H
      <4>1. SUFFICES ASSUME i # -H PROVE FALSE
        OBVIOUS
      <4>2. -H + 1 <= i
        BY <1>1, <1>3, <4>1
      <4>3. (-H + 1) * U <= i * U
        BY <1>1, <4>2, Scales
      <4>4. U = H
        BY <3>1
      <4>5. (-H + 1) * U = -(H * H) + H
        BY <1>1, <4>4
      <4> QED
        BY <1>1, <1>2, <2>6, <4>3, <4>4, <4>5
    <3>3. n = [raw |-> Lowest, shift |-> Point]
      BY <1>1, <2>1, <3>1, <3>2
    <3> HIDE DEF V
    <3>4. Near(n, x)
      BY <1>2, <2>6, <3>3, NearLowest
    <3> QED
      BY <2>2, <3>4
  <2> QED
    BY <1>2, <2>5, <2>6
<1>4. CASE ~(-H <= i /\ i < H) /\ s = Point
  <2>1. ~InRange(i) /\ U = H
    BY <1>1, <1>4 DEF InRange
  <2>2. CASE i >= H
    <3>1. n = [raw |-> Highest, shift |-> Point]
      <4>1. Clamp(i) = Highest
        BY <1>1, <2>2 DEF Clamp
      <4> QED
        BY <1>4, <2>1, <4>1 DEF Renormalized
    <3>2. n \in Numbers /\ n.shift = Point /\ n.raw = H - 1
      BY <1>1, <3>1, IsNumber, Widths
    <3>3. V > H * H - H
      <4>1. H * U <= i * U
        BY <1>1, <2>2, Scales
      <4> QED
        BY <1>1, <1>2, <2>1, <4>1
    <3>4. CASE V >= H * H
      <4> HIDE DEF V
      <4>1. Near(n, x)
        BY <1>2, <3>1, <3>4, NearHighest
      <4> QED
        BY <3>2, <4>1
    <3>5. CASE V < H * H
      <4> DEFINE v == (H - 1) * H
      <4>1. v = H * H - H /\ v \in Int /\ v = Value(n) /\ H = 2^n.shift
        <5>1. v = H * H - H /\ v \in Int
          BY <1>1
        <5>2. v = Value(n) /\ H = 2^n.shift
          BY <3>2 DEF Value
        <5> QED
          BY <5>1, <5>2
      <4>2. -(H * 1) < v * 1 - V /\ v * 1 - V < H * 1 /\ -(H * H) <= V
        <5> HIDE DEF v, V
        <5> QED
          BY <1>1, <1>2, <3>3, <3>5, <4>1
      <4> HIDE DEF v, V
      <4>3. Near(n, x)
        BY <1>1, <1>2, <3>5, <4>1, <4>2, NearWithin
      <4> QED
        BY <3>2, <4>3
    <3> QED
      BY <1>2, <3>4, <3>5
  <2>3. CASE i < -H
    <3>1. n = [raw |-> Lowest, shift |-> Point]
      <4>1. Clamp(i) = Lowest
        BY <1>1, <2>3 DEF Clamp
      <4> QED
        BY <1>4, <2>1, <4>1 DEF Renormalized
    <3>2. n \in Numbers
      BY <1>1, <3>1, IsNumber, Widths
    <3>3. V < -(H * H)
      <4>1. (i + 1) * U <= (-H) * U
        BY <1>1, <2>3, Scales
      <4>2. (i + 1) * U = i * U + U /\ (-H) * U = -(H * H)
        BY <1>1, <2>1
      <4> QED
        BY <1>1, <1>2, <4>1, <4>2
    <3> HIDE DEF V
    <3>4. Near(n, x)
      BY <1>2, <3>1, <3>3, NearLowest
    <3> QED
      BY <3>2, <3>4
  <2> QED
    BY <1>1, <1>4, <2>2, <2>3
<1>5. CASE ~(-H <= i /\ i < H) /\ s < Point
  <2> DEFINE q == i \div 2
  <2>1. q \in Int /\ i = q * 2 + (i % 2) /\ i % 2 \in {0, 1} /\ -H <= q /\ q < H
    BY <1>1
  <2>2. n = [raw |-> q, shift |-> s + 1]
    <3>1. ~InRange(i) /\ s # Point
      BY <1>1, <1>5, Widths DEF InRange
    <3> QED
      BY <3>1 DEF Renormalized
  <2>3. s + 1 \in Nat /\ s + 1 <= Point /\ 2 * U <= H /\ 2^(s + 1) = 2 * U
    BY <1>5, Widths, ShiftBelow
  <2>4. n \in Numbers /\ n.shift = s + 1 /\ n.raw = q
    <3> HIDE DEF q
    <3> QED
      BY <2>1, <2>2, <2>3, IsNumber
  <2> DEFINE v == q * (2 * U)
  <2>5. v = Value(n) /\ 2 * U = 2^n.shift
    BY <2>3, <2>4 DEF Value
  <2>6. v \in Int /\ (i * U = v \/ i * U = v + U)
    <3> HIDE DEF q
    <3>1. i = 2 * q \/ i = 2 * q + 1
      BY <2>1
    <3>2. (2 * q) * U = v /\ (2 * q + 1) * U = v + U /\ v \in Int
      BY <1>1, <2>1
    <3> QED
      BY <3>1, <3>2
  <2>7. V < H * H
    <3>1. (i + 1) * U <= (2 * H) * U /\ (2 * U) * H <= H * H
      BY <1>1, <2>3, Scales
    <3>2. (i + 1) * U = i * U + U /\ (2 * H) * U = (2 * U) * H
      BY <1>1
    <3>3. (2 * U) * H \in Int
      BY <1>1
    <3> QED
      BY <1>1, <1>2, <3>1, <3>2, <3>3
  <2>8. -(H * H) <= V
    <3>1. (2 * U) * H <= H * H /\ (2 * U) * H \in Int /\ (2 * U) * H = (2 * H) * U
      BY <1>1, <2>3, Scales
    <3>2. CASE i = -(2 * H)
      <4>1. i * U = -((2 * H) * U)
        BY <1>1, <3>2
      <4> QED
        BY <1>1, <1>2, <3>1, <3>2, <4>1
    <3>3. CASE i # -(2 * H)
      <4>1. -(2 * H) + 1 <= i
        BY <1>1, <3>3
      <4>2. (-(2 * H) + 1) * U <= i * U
        BY <1>1, <4>1, Scales
      <4>3. (-(2 * H) + 1) * U = -((2 * H) * U) + U
        BY <1>1
      <4> QED
        BY <1>1, <1>2, <3>1, <4>2, <4>3
    <3> QED
      BY <3>2, <3>3
  <2>9. -((2 * U) * 1) < v * 1 - V /\ v * 1 - V < (2 * U) * 1
    <3> DEFINE w == i * U
    <3>1. V = w + e /\ w \in Int /\ (w = v \/ w = v + U)
      BY <1>2, <2>6
    <3> HIDE DEF v, V, w
    <3> QED
      BY <1>1, <2>6, <3>1
  <2>10. Near(n, x)
    <3> DEFINE u == 2 * U
    <3>1. u \in Nat /\ u = 2^n.shift /\ -(u * 1) < v * 1 - V /\ v * 1 - V < u * 1
      BY <1>1, <2>5, <2>9
    <3> HIDE DEF v, V, u
    <3> QED
      BY <1>1, <1>2, <2>5, <2>6, <2>7, <2>8, <3>1, NearWithin
  <2> QED
    BY <2>4, <2>10
<1> QED
  BY <1>3, <1>4, <1>5, Widths

\* A mantissa is brought to a larger shift.
LEMMA AlignedOf ==
  ASSUME NEW n \in Numbers, NEW s \in Nat, n.shift <= s, s <= Point, NEW U, U = 2^s,
         NEW r, r = Aligned(n, s), NEW v, v = Value(n)
  PROVE  /\ r \in Int /\ -(2^Point) <= r /\ r < 2^Point /\ v \in Int
         /\ \E e \in Nat : e < U /\ v = r * U + e /\ (n.shift = s => e = 0)
<1> DEFINE a == n.raw
           t == n.shift
           k == s - t
           T == 2^t
           K == 2^k
           H == 2^Point
           q == a \div K
           e == (a % K) * T
<1>1. /\ a \in Int /\ t \in Nat /\ t <= Point /\ -H <= a /\ a < H
      /\ T \in Nat /\ T > 0 /\ v = a * T
  BY NumberFacts
<1>2. k \in Nat /\ k <= Point /\ t + k = s /\ t + k <= 2 * NumberWidth
  BY <1>1, Widths
<1>3. K \in Nat /\ K > 0 /\ U = T * K /\ U \in Nat /\ H \in Nat
  <2>1. 2^(t + k) = 2^t * 2^k
    BY <1>1, <1>2, PowerSum
  <2>2. 2^k \in Nat /\ 2^k > 0 /\ U \in Nat
    BY <1>2, Halved
  <2> QED
    BY <1>2, <2>1, <2>2, Ends
<1>4. r = q
  BY DEF Aligned
<1>5. q \in Int /\ a % K \in Nat /\ a = q * K + (a % K) /\ a % K < K
  <2> HIDE DEF K, a
  <2> QED
    BY <1>1, <1>3, DivMod
<1>6. -H <= q /\ q < H
  <2> HIDE DEF K, a, q, H
  <2>1. q * K <= a /\ a < (q + 1) * K
    <3>1. (q + 1) * K = q * K + K /\ q * K \in Int
      BY <1>3, <1>5
    <3> QED
      BY <1>1, <1>3, <1>5, <3>1
  <2>2. H * 1 <= H * K /\ (-H) * K = -(H * K) /\ H * K \in Int /\ H * 1 = H
    BY <1>3
  <2>3. q < H
    <3>1. q * K < H * K
      BY <1>1, <1>3, <1>5, <2>1, <2>2
    <3> QED
      BY <1>3, <1>5, <3>1, ScalesBack
  <2>4. -H < q + 1
    <3>1. (-H) * K < (q + 1) * K
      BY <1>1, <1>3, <1>5, <2>1, <2>2
    <3> QED
      BY <1>3, <1>5, <3>1, ScalesBack
  <2> QED
    BY <1>3, <1>5, <2>3, <2>4
<1>7. e \in Nat /\ e < U
  <2> DEFINE m == a % K
  <2>1. m \in Nat /\ m < K
    BY <1>5
  <2> HIDE DEF m, K, T
  <2>2. m * T < K * T /\ K * T = T * K /\ m * T \in Nat
    BY <1>1, <1>3, <2>1, Scales
  <2> QED
    BY <1>3, <2>2 DEF m
<1>8. v = r * U + e
  <2> DEFINE m == a % K
  <2>1. m \in Nat /\ a = q * K + m
    BY <1>5
  <2> HIDE DEF m, K, T, q
  <2>2. (q * K + m) * T = q * (T * K) + m * T
    BY <1>1, <1>3, <1>5, <2>1
  <2> HIDE DEF a
  <2> QED
    BY <1>1, <1>3, <1>4, <2>1, <2>2 DEF m
<1>9. t = s => e = 0
  <2>1. SUFFICES ASSUME t = s PROVE e = 0
    OBVIOUS
  <2>2. k = 0
    BY <1>1, <2>1
  <2>3. K = 2^0
    BY <2>2, Zenon
  <2>4. K = 1
    BY <2>3
  <2>5. a % K = 0
    BY <1>1, <2>4
  <2> HIDE DEF K, a
  <2> QED
    BY <1>1, <2>5
<1>10. v \in Int /\ n.shift = t
  <2> HIDE DEF a, T
  <2> QED
    BY <1>1
<1>11. \E c \in Nat : c < U /\ v = r * U + c /\ (n.shift = s => c = 0)
  <2>1. e \in Nat /\ e < U /\ v = r * U + e /\ (n.shift = s => e = 0)
    BY <1>7, <1>8, <1>9
  <2> HIDE DEF e, t
  <2> QED
    BY <2>1
<1> HIDE DEF q, H
<1> QED
  BY <1>4, <1>5, <1>6, <1>10, <1>11 DEF H

LEMMA SumTerms ==
  ASSUME NEW a \in Numbers, NEW b \in Numbers, NEW s, s = AlignedShift(a, b)
  PROVE  /\ s \in Nat /\ s <= Point /\ a.shift <= s /\ b.shift <= s
         /\ a.shift = s \/ b.shift = s
<1>1. a.shift \in Nat /\ a.shift <= Point /\ b.shift \in Nat /\ b.shift <= Point
  BY NumberFacts
<1> QED
  BY <1>1 DEF AlignedShift

LEMMA AddedNear ==
  ASSUME NEW a \in Numbers, NEW b \in Numbers, NEW n, n = Added(a, b),
         NEW x, x = Fraction(Value(a) + Value(b), 1)
  PROVE  n \in Numbers /\ Near(n, x)
<1> DEFINE s == AlignedShift(a, b)
           U == 2^s
           H == 2^Point
           p == Aligned(a, s)
           q == Aligned(b, s)
<1>1. s \in Nat /\ s <= Point /\ a.shift <= s /\ b.shift <= s /\ (a.shift = s \/ b.shift = s)
  BY SumTerms
<1>2. U \in Nat /\ U > 0 /\ H \in Nat
  BY <1>1, Halved
<1>3. /\ p \in Int /\ -H <= p /\ p < H /\ Value(a) \in Int
      /\ \E e \in Nat : e < U /\ Value(a) = p * U + e /\ (a.shift = s => e = 0)
  <2> HIDE DEF s
  <2> QED
    BY <1>1, AlignedOf
<1>4. /\ q \in Int /\ -H <= q /\ q < H /\ Value(b) \in Int
      /\ \E e \in Nat : e < U /\ Value(b) = q * U + e /\ (b.shift = s => e = 0)
  <2> HIDE DEF s
  <2> QED
    BY <1>1, AlignedOf
<1>5. PICK e \in Nat : e < U /\ Value(a) = p * U + e /\ (a.shift = s => e = 0)
  BY <1>3
<1>6. PICK d \in Nat : d < U /\ Value(b) = q * U + d /\ (b.shift = s => d = 0)
  BY <1>4
<1>7. e + d \in Int /\ e + d >= 0 /\ e + d < U
  BY <1>1, <1>2, <1>5, <1>6
<1>8. x.num = Value(a) + Value(b) /\ x.den = 1
  BY DEF Fraction, Magnitude
<1>9. n = Renormalized(p + q, s)
  BY DEF Added
<1>10. /\ p + q \in Int /\ -(2 * H) <= p + q /\ p + q < 2 * H
       /\ Value(a) + Value(b) = (p + q) * U + (e + d)
  <2> HIDE DEF p, q, U, H
  <2>1. (p + q) * U = p * U + q * U /\ p * U \in Int /\ q * U \in Int
    BY <1>2, <1>3, <1>4
  <2> QED
    BY <1>2, <1>3, <1>4, <1>5, <1>6, <2>1
<1> DEFINE i == p + q
           g == e + d
<1>11. /\ i \in Int /\ -(2 * H) <= i /\ i < 2 * H /\ g \in Int /\ -U < g /\ g < U /\ g >= 0
       /\ x.num = i * U + g /\ n = Renormalized(i, s)
  BY <1>2, <1>7, <1>8, <1>9, <1>10
<1> HIDE DEF i, g, s
<1> QED
  BY <1>1, <1>8, <1>11, RenormalizedNear

LEMMA SubtractedNear ==
  ASSUME NEW a \in Numbers, NEW b \in Numbers, NEW n, n = Subtracted(a, b),
         NEW x, x = Fraction(Value(a) - Value(b), 1)
  PROVE  n \in Numbers /\ Near(n, x)
<1> DEFINE s == AlignedShift(a, b)
           U == 2^s
           H == 2^Point
           p == Aligned(a, s)
           q == Aligned(b, s)
<1>1. s \in Nat /\ s <= Point /\ a.shift <= s /\ b.shift <= s /\ (a.shift = s \/ b.shift = s)
  BY SumTerms
<1>2. U \in Nat /\ U > 0 /\ H \in Nat
  BY <1>1, Halved
<1>3. /\ p \in Int /\ -H <= p /\ p < H /\ Value(a) \in Int
      /\ \E e \in Nat : e < U /\ Value(a) = p * U + e /\ (a.shift = s => e = 0)
  <2> HIDE DEF s
  <2> QED
    BY <1>1, AlignedOf
<1>4. /\ q \in Int /\ -H <= q /\ q < H /\ Value(b) \in Int
      /\ \E e \in Nat : e < U /\ Value(b) = q * U + e /\ (b.shift = s => e = 0)
  <2> HIDE DEF s
  <2> QED
    BY <1>1, AlignedOf
<1>5. PICK e \in Nat : e < U /\ Value(a) = p * U + e /\ (a.shift = s => e = 0)
  BY <1>3
<1>6. PICK d \in Nat : d < U /\ Value(b) = q * U + d /\ (b.shift = s => d = 0)
  BY <1>4
<1>7. e - d \in Int /\ -U < e - d /\ e - d < U
  BY <1>1, <1>2, <1>5, <1>6
<1>8. x.num = Value(a) - Value(b) /\ x.den = 1
  BY DEF Fraction, Magnitude
<1>9. n = Renormalized(p - q, s)
  BY DEF Subtracted
<1>10. /\ p - q \in Int /\ -(2 * H) < p - q /\ p - q < 2 * H
       /\ Value(a) - Value(b) = (p - q) * U + (e - d)
  <2> HIDE DEF p, q, U, H
  <2>1. (p - q) * U = p * U - q * U /\ p * U \in Int /\ q * U \in Int
    BY <1>2, <1>3, <1>4
  <2> QED
    BY <1>2, <1>3, <1>4, <1>5, <1>6, <2>1
<1> DEFINE i == p - q
           g == e - d
<1>11. /\ i \in Int /\ -(2 * H) <= i /\ i # -(2 * H) /\ i < 2 * H /\ g \in Int /\ -U < g /\ g < U
       /\ x.num = i * U + g /\ n = Renormalized(i, s)
  BY <1>2, <1>7, <1>8, <1>9, <1>10
<1> HIDE DEF i, g, s
<1> QED
  BY <1>1, <1>8, <1>11, RenormalizedNear

(***************************************************************************)
(* Products                                                                *)
(***************************************************************************)
LEMMA SignedInRange ==
  ASSUME NEW i \in Int, -(2^Point) <= i, i < 2^Point
  PROVE  Signed(i) = i
<1> DEFINE H == 2^Point
<1>1. H \in Nat /\ H > 0 /\ 2^NumberWidth = 2 * H
  BY Ends, Widths, Halved
<1>2. Signed(i) = ((i + H) % (2 * H)) - H
  BY <1>1 DEF Signed
<1> HIDE DEF H
<1>3. -H <= i /\ i < H
  BY DEF H
<1>4. (i + H) % (2 * H) = i + H
  BY <1>1, <1>3
<1> QED
  BY <1>1, <1>2, <1>4

\* Only the two lowest mantissas have a product that does not fit.
LEMMA ProductBounds ==
  ASSUME NEW H \in Nat, H > 0, NEW a \in Int, NEW b \in Int,
         -H <= a, a < H, -H <= b, b < H, a # -H \/ b # -H
  PROVE  a * b \in Int /\ a * b < H * H /\ -(H * H) <= a * b
<1>1. ASSUME NEW p \in Int, NEW q \in Int, -H <= p, p < H, -H < q, q < H
      PROVE  p * q < H * H /\ -(H * H) <= p * q
  <2>1. H * H \in Nat /\ p * q \in Int
    OBVIOUS
  <2>2. CASE q >= 0
    <3>1. p * q <= H * q /\ (-H) * q <= p * q /\ q * H < H * H
      BY <1>1, <2>2, Scales
    <3>2. H * q = q * H /\ (-H) * q = -(q * H) /\ q * H \in Int
      OBVIOUS
    <3> QED
      BY <2>1, <3>1, <3>2
  <2>3. CASE q < 0
    <3> DEFINE r == -q
    <3>1. r \in Nat /\ r < H
      BY <1>1, <2>3
    <3>2. p * r <= H * r /\ (-H) * r <= p * r /\ r * H < H * H
      BY <1>1, <3>1, Scales
    <3>3. p * r = -(p * q)
      OBVIOUS
    <3> HIDE DEF r
    <3>4. H * r = r * H /\ (-H) * r = -(r * H) /\ r * H \in Int
      BY <3>1
    <3> QED
      BY <2>1, <3>2, <3>3, <3>4
  <2> QED
    BY <1>1, <2>2, <2>3
<1>2. a * b \in Int /\ a * b = b * a
  OBVIOUS
<1>3. CASE b # -H
  <2>1. -H < b
    BY <1>3
  <2> QED
    BY <1>1, <1>2, <2>1
<1>4. CASE a # -H
  <2>1. -H < a
    BY <1>4
  <2>2. b * a < H * H /\ -(H * H) <= b * a
    BY <1>1, <2>1
  <2> QED
    BY <1>2, <2>2
<1> QED
  BY <1>3, <1>4

LEMMA MultipliedNear ==
  ASSUME NEW a \in Numbers, NEW b \in Numbers, NEW n, n = Multiplied(a, b),
         a.shift + b.shift <= Point, a.raw # Lowest \/ b.raw # Lowest,
         NEW x, x = Fraction(Value(a) * Value(b), 2^Point)
  PROVE  n \in Numbers /\ Near(n, x)
<1> DEFINE H == 2^Point
           p == a.raw * b.raw
           q == p \div H
           s == a.shift + b.shift
           A == 2^a.shift
           B == 2^b.shift
           U == 2^s
<1>1. /\ a.raw \in Int /\ a.shift \in Nat /\ a.shift <= Point /\ -H <= a.raw /\ a.raw < H
      /\ A \in Nat /\ A > 0 /\ Value(a) = a.raw * A
  BY NumberFacts
<1>2. /\ b.raw \in Int /\ b.shift \in Nat /\ b.shift <= Point /\ -H <= b.raw /\ b.raw < H
      /\ B \in Nat /\ B > 0 /\ Value(b) = b.raw * B
  BY NumberFacts
<1>3. H \in Nat /\ H > 0 /\ Lowest = -H
  BY Ends
<1>4. p \in Int /\ p < H * H /\ -(H * H) <= p
  <2>1. a.raw # -H \/ b.raw # -H
    BY <1>3
  <2> HIDE DEF H
  <2> QED
    BY <1>1, <1>2, <1>3, <2>1, ProductBounds
<1>5. s \in Nat /\ s <= Point /\ s <= 2 * NumberWidth /\ U \in Nat /\ U > 0 /\ U <= H
  BY <1>1, <1>2, Widths, Halved
<1>6. U = A * B
  BY <1>1, <1>2, <1>5, PowerSum
<1>7. q \in Int /\ p % H \in Nat /\ p = q * H + (p % H) /\ p % H < H
  <2> HIDE DEF p, H
  <2> QED
    BY <1>3, <1>4, DivMod
<1>8. -H <= q /\ q < H
  <2> HIDE DEF p, q, H
  <2>1. q * H \in Int /\ q * H <= p /\ p < (q + 1) * H /\ H * H \in Nat /\ (-H) * H = -(H * H)
    <3>1. (q + 1) * H = q * H + H /\ q * H \in Int
      BY <1>3, <1>7
    <3> QED
      BY <1>3, <1>4, <1>7, <3>1
  <2>2. q < H
    <3>1. q * H < H * H
      BY <1>4, <2>1
    <3> QED
      BY <1>3, <1>7, <3>1, ScalesBack
  <2>3. -H < q + 1
    <3>1. (-H) * H < (q + 1) * H
      BY <1>3, <1>4, <1>7, <2>1
    <3> QED
      BY <1>3, <1>7, <3>1, ScalesBack
  <2> QED
    BY <1>3, <1>7, <2>2, <2>3
<1>9. n = [raw |-> q, shift |-> s]
  <2>1. Signed(q) = q
    <3> HIDE DEF q
    <3> QED
      BY <1>7, <1>8, SignedInRange
  <2>2. ~(a.shift + b.shift > Point)
    BY <1>5, Widths
  <2> QED
    BY <2>1, <2>2 DEF Multiplied
<1>10. n \in Numbers /\ n.shift = s /\ n.raw = q
  <2> HIDE DEF q, s
  <2> QED
    BY <1>5, <1>7, <1>8, <1>9, IsNumber
<1> DEFINE v == q * U
           y == p * U
           m == p % H
<1>11. v \in Int /\ v = Value(n) /\ y \in Int
  <2>1. v = Value(n)
    BY <1>10 DEF Value
  <2> HIDE DEF q, p, U
  <2> QED
    BY <1>4, <1>5, <1>7, <2>1
<1>12. x.num = y /\ x.den = H
  <2>1. Value(a) * Value(b) = y
    <3>1. ASSUME NEW i \in Int, NEW j \in Int, NEW k \in Int, NEW l \in Int
          PROVE  (i * k) * (j * l) = (i * j) * (k * l)
      OBVIOUS
    <3>2. (a.raw * A) * (b.raw * B) = (a.raw * b.raw) * (A * B)
      BY <1>1, <1>2, <3>1
    <3> QED
      BY <1>1, <1>2, <1>6, <3>2
  <2>2. ~(H < 0) /\ Magnitude(H) = H
    BY <1>3 DEF Magnitude
  <2> QED
    BY <2>1, <2>2 DEF Fraction
<1>13. v * H - y = -(m * U) /\ m * U < U * H /\ m * U \in Nat /\ U * H \in Nat /\ U * H > 0
  <2>1. m \in Nat /\ m < H /\ p = q * H + m
    BY <1>7
  <2> HIDE DEF p, q, U, H, m
  <2>2. (q * H + m) * U = (q * U) * H + m * U /\ (q * U) * H \in Int /\ m * U \in Nat
    BY <1>3, <1>5, <1>7, <2>1
  <2>3. m * U < H * U /\ H * U = U * H /\ U * H \in Nat /\ U * H > 0
    BY <1>3, <1>5, <2>1, Scales
  <2> QED
    BY <2>1, <2>2, <2>3
<1>14. y < H * H * H /\ -(H * H * H) <= y
  <2> HIDE DEF p, U, H
  <2> DEFINE Q == H * H
  <2>1. Q \in Nat
    BY <1>3
  <2> HIDE DEF Q
  <2>2. -Q <= p /\ p < Q
    BY <1>4 DEF Q
  <2>3. p * U < Q * U /\ (-Q) * U <= p * U /\ U * Q <= H * Q
    BY <1>3, <1>4, <1>5, <2>1, <2>2, Scales
  <2>4. U * Q = Q * U /\ (-Q) * U = -(Q * U) /\ H * Q = Q * H /\ Q * U \in Int /\ Q * H \in Int
    BY <1>3, <1>5, <2>1
  <2>5. y < Q * H /\ -(Q * H) <= y
    BY <1>4, <1>5, <2>3, <2>4
  <2> QED
    BY <2>5 DEF Q
<1>15. Near(n, x)
  <2> DEFINE g == m * U
             w == U * H
  <2>1. v * H \in Int /\ v * H - y = -g /\ g \in Nat /\ g < w /\ w \in Nat /\ w > 0
    <3> HIDE DEF v, H, g, w
    <3> QED
      BY <1>3, <1>11, <1>13 DEF g, w
  <2>2. -w < v * H - y /\ v * H - y < w
    <3> HIDE DEF v, H, g, w, y
    <3> QED
      BY <1>11, <2>1
  <2>3. U = 2^n.shift
    BY <1>10
  <2> HIDE DEF v, H, y, U
  <2> QED
    BY <1>3, <1>5, <1>11, <1>12, <1>14, <2>2, <2>3, NearWithin DEF H
<1> QED
  BY <1>10, <1>15

(***************************************************************************)
(* Quotients                                                               *)
(***************************************************************************)
\* The rounded quotient, cut off at the highest mantissa.
Rounded(z, y) == (z \div y) + (IF 2 * (z % y) >= y THEN 1 ELSE 0)

LEMMA RoundedQuotient ==
  ASSUME NEW z \in Nat, NEW y \in Nat, y > 0, NEW H \in Nat, H > 0, Highest = H - 1,
         Lowest = -H, z < H * y,
         NEW c, c = Clamp(Rounded(z, y))
  PROVE  c \in Nat /\ c < H /\ -y < c * y - z /\ c * y - z < y
<1> DEFINE q == z \div y
           m == z % y
<1>1. q \in Int /\ m \in Nat /\ z = q * y + m /\ m < y /\ q >= 0
  BY DivMod
<1> DEFINE r == Rounded(z, y)
<1>2. r = q + (IF 2 * m >= y THEN 1 ELSE 0)
  BY DEF Rounded
<1> HIDE DEF q, m, r
<1>3. q < H
  <2>1. q * y <= z /\ q * y \in Int /\ H * y \in Int
    BY <1>1
  <2>2. q * y < H * y
    BY <2>1
  <2> QED
    BY <1>1, <2>2, ScalesBack
<1>4. (q + 1) * y = q * y + y /\ q * y \in Int
  BY <1>1
<1>5. c = q \/ (c = q + 1 /\ 2 * m >= y /\ q + 1 < H)
  <2>1. c = Clamp(r)
    BY DEF r
  <2> QED
    BY <1>1, <1>2, <1>3, <2>1 DEF Clamp
<1>6. CASE c = q
  BY <1>1, <1>3, <1>4, <1>6
<1>7. CASE c = q + 1 /\ 2 * m >= y /\ q + 1 < H
  BY <1>1, <1>4, <1>7
<1> QED
  BY <1>5, <1>6, <1>7

\* The sign that div: gives its result.
LEMMA SignOfQuotient ==
  ASSUME NEW a \in Numbers, NEW b \in Numbers, b.raw # 0,
         NEW g, g = IF (a.raw < 0) # (b.raw < 0) THEN -1 ELSE 1,
         NEW p, p = Magnitude(Value(a)), NEW y, y = Magnitude(Value(b)),
         NEW H, H = 2^Point, NEW x, x = Fraction(Value(a) * H, Value(b))
  PROVE  /\ p \in Nat /\ y \in Nat /\ y > 0 /\ H \in Nat
         /\ x.den = y
         /\ (g = 1 /\ x.num = p * H) \/ (g = -1 /\ x.num = -(p * H))
<1> DEFINE v == Value(a)
           w == Value(b)
           A == 2^a.shift
           B == 2^b.shift
<1>1. a.raw \in Int /\ A \in Nat /\ A > 0 /\ v = a.raw * A /\ H \in Nat
  BY NumberFacts, Ends
<1>2. b.raw \in Int /\ B \in Nat /\ B > 0 /\ w = b.raw * B
  BY NumberFacts
<1>3. ASSUME NEW r \in Int, NEW k \in Nat, k > 0
      PROVE  r * k \in Int /\ (r < 0 <=> r * k < 0) /\ (r = 0 <=> r * k = 0)
  BY <1>3
<1>4. v \in Int /\ (a.raw < 0 <=> v < 0) /\ w \in Int /\ (b.raw < 0 <=> w < 0) /\ w # 0
  <2>1. v \in Int /\ (a.raw < 0 <=> v < 0)
    <3> HIDE DEF A
    <3> QED
      BY <1>1, <1>3
  <2>2. w \in Int /\ (b.raw < 0 <=> w < 0) /\ w # 0
    <3> HIDE DEF B
    <3> QED
      BY <1>2, <1>3
  <2> QED
    BY <2>1, <2>2
<1> HIDE DEF v, w, A, B
<1>5. g = IF (v < 0) # (w < 0) THEN -1 ELSE 1
  <2>1. CASE a.raw < 0 /\ b.raw < 0
    BY <1>4, <2>1
  <2>2. CASE a.raw < 0 /\ ~(b.raw < 0)
    BY <1>4, <2>2
  <2>3. CASE ~(a.raw < 0) /\ b.raw < 0
    BY <1>4, <2>3
  <2>4. CASE ~(a.raw < 0) /\ ~(b.raw < 0)
    BY <1>4, <2>4
  <2> QED
    BY <2>1, <2>2, <2>3, <2>4
<1>6. p = Magnitude(v) /\ y = Magnitude(w)
  BY DEF v, w
<1>7. x.num = (IF w < 0 THEN -(v * H) ELSE v * H) /\ x.den = Magnitude(w)
  BY DEF Fraction, v, w
<1>8. p \in Nat /\ y \in Nat /\ y > 0 /\ x.den = y
  BY <1>4, <1>6, <1>7 DEF Magnitude
<1>9. v * H \in Int /\ (-v) * H = -(v * H)
  BY <1>1, <1>4
<1> DEFINE t == v * H
<1>10. p * H = IF v < 0 THEN -t ELSE t
  BY <1>6, <1>9 DEF Magnitude
<1>11. x.num = IF w < 0 THEN -t ELSE t
  BY <1>7
<1>12. CASE v < 0
  <2>1. p * H = -t /\ t \in Int
    BY <1>9, <1>10, <1>12
  <2> HIDE DEF t
  <2>2. CASE w < 0
    BY <1>1, <1>5, <1>8, <1>11, <1>12, <2>1, <2>2
  <2>3. CASE ~(w < 0)
    BY <1>1, <1>5, <1>8, <1>11, <1>12, <2>1, <2>3
  <2> QED
    BY <2>2, <2>3
<1>13. CASE ~(v < 0)
  <2>1. p * H = t /\ t \in Int
    BY <1>9, <1>10, <1>13
  <2> HIDE DEF t
  <2>2. CASE w < 0
    BY <1>1, <1>5, <1>8, <1>11, <1>13, <2>1, <2>2
  <2>3. CASE ~(w < 0)
    BY <1>1, <1>5, <1>8, <1>11, <1>13, <2>1, <2>3
  <2> QED
    BY <2>2, <2>3
<1> QED
  BY <1>12, <1>13

\* A quotient that fits, with its sign g.
LEMMA QuotientNear ==
  ASSUME NEW g \in {-1, 1}, NEW p \in Nat, NEW y \in Nat, y > 0, NEW H, H = 2^Point,
         NEW w, w = p \div y, w < H, NEW s, s = BitsForMag(w),
         NEW z, z = p * 2^(Point - s),
         NEW c, c = Clamp(Rounded(z, y)),
         NEW n, n = [raw |-> g * c, shift |-> s],
         NEW x, x.num = g * (p * H), x.den = y
  PROVE  n \in Numbers /\ Near(n, x)
<1> DEFINE k == Point - s
           U == 2^s
           K == 2^k
<1>1. /\ w \in Nat /\ p = w * y + (p % y) /\ p % y \in Nat /\ p % y < y
      /\ H \in Nat /\ H > 0 /\ Highest = H - 1 /\ Lowest = -H
  <2>1. w \in Int /\ w >= 0
    OBVIOUS
  <2> QED
    BY <2>1, DivMod, Ends
<1>2. s \in Nat /\ s <= Point /\ w < U
  BY <1>1, Bits
<1>3. U \in Nat /\ U > 0 /\ K \in Nat /\ K > 0 /\ H = U * K /\ k \in Nat /\ U <= H
  BY <1>2, Halved
<1>4. z = p * K
  OBVIOUS
<1> HIDE DEF U, K, k
<1>5. z \in Nat /\ z < H * y
  <2>1. p < U * y
    <3>1. (w + 1) * y <= U * y
      BY <1>1, <1>2, <1>3, Scales
    <3>2. (w + 1) * y = w * y + y /\ w * y \in Int /\ U * y \in Int
      BY <1>1, <1>3
    <3> QED
      BY <1>1, <3>1, <3>2
  <2>2. p * K < (U * y) * K
    BY <1>3, <2>1, Scales
  <2>3. (U * y) * K = (U * K) * y
    BY <1>3
  <2> QED
    BY <1>3, <1>4, <2>2, <2>3
<1>6. c \in Nat /\ c < H /\ -y < c * y - z /\ c * y - z < y
  BY <1>1, <1>5, RoundedQuotient
<1> DEFINE r == g * c
<1>7. r \in Int /\ -H <= r /\ r < H
  BY <1>1, <1>6
<1>8. n \in Numbers /\ n.shift = s /\ n.raw = r
  <2>1. n = [raw |-> r, shift |-> s]
    OBVIOUS
  <2> HIDE DEF r
  <2> QED
    BY <1>2, <1>7, <2>1, IsNumber
<1> DEFINE v == r * U
           i == g * (p * H)
           f == c * y - z
<1>9. v \in Int /\ v = Value(n) /\ U = 2^n.shift
  <2>1. v = Value(n) /\ U = 2^n.shift
    BY <1>8 DEF Value, U
  <2> HIDE DEF r
  <2> QED
    BY <1>3, <1>7, <2>1
<1>10. p * H = z * U /\ p * H \in Nat
  <2>1. p * (U * K) = (p * K) * U /\ p * (U * K) \in Nat
    BY <1>3
  <2> QED
    BY <1>3, <1>4, <2>1
<1>11. i \in Int /\ i < H * H * y /\ -(H * H * y) <= i
  <2>1. z * U < (H * y) * U /\ U * (H * y) <= H * (H * y)
    <3>1. H * y \in Nat
      BY <1>1
    <3> QED
      BY <1>1, <1>3, <1>5, <3>1, Scales
  <2>2. (H * y) * U = U * (H * y) /\ H * (H * y) = H * H * y
    BY <1>1, <1>3
  <2>3. (H * y) * U \in Int /\ H * H * y \in Nat /\ z * U \in Nat
    BY <1>1, <1>3, <1>5
  <2> DEFINE t == p * H
             e == H * H * y
  <2>4. t \in Nat /\ e \in Nat /\ t < e
    BY <1>10, <2>1, <2>2, <2>3
  <2>5. g * t \in Int /\ g * t < e /\ -e <= g * t
    <3> HIDE DEF t, e
    <3> QED
      BY <2>4
  <2> QED
    BY <2>5
<1>12. v * y - i = (g * f) * U /\ f \in Int /\ -y < f /\ f < y
  <2>1. c * y \in Int /\ f \in Int /\ -y < f /\ f < y
    BY <1>5, <1>6
  <2>2. ASSUME NEW a \in Int, NEW b \in Int
        PROVE  ((g * c) * a) * y - g * (b * a) = (g * (c * y - b)) * a
    BY <1>6
  <2>3. ((g * c) * U) * y - g * (z * U) = (g * (c * y - z)) * U
    BY <1>3, <1>5, <2>2
  <2>4. i = g * (z * U)
    BY <1>10
  <2> QED
    BY <2>1, <2>3, <2>4
<1>13. -(U * y) < v * y - i /\ v * y - i < U * y
  <2> DEFINE h == g * f
  <2>1. h \in Int /\ -y < h /\ h < y /\ v * y - i = h * U
    <3>1. v * y - i = h * U
      BY <1>12
    <3> HIDE DEF f, v, i
    <3> QED
      BY <1>12, <3>1
  <2> HIDE DEF h
  <2>2. h * U < y * U /\ (-y) * U < h * U
    BY <1>3, <2>1, Scales
  <2>3. y * U = U * y /\ (-y) * U = -(U * y)
    BY <1>3
  <2> QED
    BY <2>1, <2>2, <2>3
<1>14. x.num = i /\ x.den = y
  OBVIOUS
<1>15. Near(n, x)
  <2> HIDE DEF v, i
  <2> QED
    BY <1>3, <1>9, <1>11, <1>13, <1>14, NearWithin
<1> QED
  BY <1>8, <1>15

LEMMA FractionTyped ==
  ASSUME NEW i \in Int, NEW d \in Int, d # 0, NEW x, x = Fraction(i, d)
  PROVE  x.num \in Int /\ x.den \in Nat \ {0}
BY DEF Fraction, Magnitude

LEMMA DividedNear ==
  ASSUME NEW a \in Numbers, NEW b \in Numbers, NEW n, n = Divided(a, b),
         NEW x, x = IF b.raw = 0 THEN Fraction(0, 1) ELSE Fraction(Value(a) * 2^Point, Value(b))
  PROVE  n \in Numbers /\ Near(n, x)
<1> DEFINE H == 2^Point
<1>1. H \in Nat /\ H > 0 /\ Highest = H - 1 /\ Lowest = -H
  BY Ends
<1>2. CASE b.raw = 0
  <2>1. n = [raw |-> 0, shift |-> 0] /\ x.num = 0 /\ x.den = 1
    BY <1>2 DEF Divided, Fraction, Magnitude
  <2>2. n \in Numbers /\ n.raw = 0 /\ n.shift = 0
    BY <1>1, <2>1, IsNumber, Widths
  <2>3. 2^n.shift = 2^0
    BY <2>2
  <2>4. 2^n.shift = 1 /\ 2^n.shift \in Nat
    BY <2>3
  <2>5. Value(n) = 0
    BY <2>2, <2>4 DEF Value
  <2> DEFINE u == 2^n.shift
             o == 0
             d == 1
  <2>6. /\ o \in Int /\ d \in Nat /\ d > 0 /\ x.num = o /\ x.den = d /\ o = Value(n)
        /\ u \in Nat /\ u = 2^n.shift /\ H = 2^Point
    BY <2>1, <2>4, <2>5
  <2>7. o < H * H * d /\ -(H * H * d) <= o
    BY <1>1
  <2>8. -(u * d) < o * d - o /\ o * d - o < u * d
    BY <2>4
  <2> HIDE DEF u, H, o, d
  <2>9. Near(n, x)
    BY <2>6, <2>7, <2>8, NearWithin
  <2> QED
    BY <2>2, <2>9
<1>3. CASE b.raw # 0
  <2> DEFINE g == IF (a.raw < 0) # (b.raw < 0) THEN -1 ELSE 1
             p == Magnitude(Value(a))
             y == Magnitude(Value(b))
             w == p \div y
             s == BitsForMag(w)
             z == p * 2^(Point - s)
             c == Clamp(Rounded(z, y))
  <2>1. x = Fraction(Value(a) * H, Value(b))
    BY <1>3
  <2>2. /\ p \in Nat /\ y \in Nat /\ y > 0 /\ x.den = y
        /\ (g = 1 /\ x.num = p * H) \/ (g = -1 /\ x.num = -(p * H))
    BY <1>3, <2>1, SignOfQuotient
  <2>3. n = IF w > Highest THEN [raw |-> IF g < 0 THEN Lowest ELSE Highest, shift |-> Point]
            ELSE [raw |-> g * c, shift |-> s]
    BY <1>3 DEF Divided, Rounded
  <2> HIDE DEF g, p, y, c, s
  <2>4. w \in Int /\ w >= 0 /\ w * y <= p /\ w * y \in Int
    <3>1. w \in Int /\ p = w * y + (p % y) /\ p % y \in Nat
      BY <2>2, DivMod
    <3>2. w >= 0
      BY <2>2
    <3> HIDE DEF w
    <3>3. w * y \in Int
      BY <2>2, <3>1
    <3> QED
      BY <2>2, <3>1, <3>2, <3>3
  <2>5. CASE w > Highest
    <3> HIDE DEF w, H
    <3> DEFINE t == p * H
               e == H * H * y
    <3>1. t \in Int /\ e \in Int /\ t >= e
      <4>1. H * y <= w * y
        BY <1>1, <2>2, <2>4, <2>5, Scales
      <4>2. H * y \in Int
        BY <1>1, <2>2
      <4>3. H * y <= p
        BY <2>2, <2>4, <4>1, <4>2
      <4>4. (H * y) * H <= p * H
        BY <1>1, <2>2, <4>2, <4>3, Scales
      <4>5. (H * y) * H = e /\ e \in Int /\ t \in Int
        BY <1>1, <2>2
      <4> QED
        BY <4>4, <4>5
    <3>2. CASE g = 1
      <4>1. n = [raw |-> Highest, shift |-> Point]
        BY <2>3, <2>5, <3>2
      <4>2. n \in Numbers
        BY <1>1, <4>1, IsNumber, Widths DEF H
      <4>3. x.num = t /\ x.den = y
        BY <2>2, <3>2
      <4> HIDE DEF t
      <4>4. Near(n, x)
        BY <2>2, <3>1, <4>1, <4>3, NearHighest DEF H
      <4> QED
        BY <4>2, <4>4
    <3>3. CASE g = -1
      <4>1. n = [raw |-> Lowest, shift |-> Point]
        BY <2>3, <2>5, <3>3
      <4>2. n \in Numbers /\ n.raw = -H /\ n.shift = Point
        BY <1>1, <4>1, IsNumber, Widths DEF H
      <4> DEFINE i == -t
      <4>3. x.num = i /\ x.den = y /\ i \in Int /\ i <= -e
        BY <2>2, <3>1, <3>3
      <4>4. CASE i < -e
        <5> HIDE DEF i
        <5>1. Near(n, x)
          BY <2>2, <4>1, <4>3, <4>4, NearLowest DEF H
        <5> QED
          BY <4>2, <5>1
      <4>5. CASE i = -e
        <5> DEFINE v == (-H) * H
        <5>1. v \in Int /\ v = Value(n) /\ H = 2^n.shift /\ v * y = -e
          <6>1. v = Value(n) /\ H = 2^n.shift
            BY <4>2 DEF Value, H
          <6> QED
            BY <1>1, <2>2, <6>1
        <5>2. e > 0 /\ H * y > 0 /\ H * y \in Int
          <6>1. H * y > 0 /\ H * H > 0 /\ H * H \in Int
            BY <1>1, <2>2
          <6> QED
            BY <1>1, <2>2, <6>1
        <5>3. -(H * y) < v * y - i /\ v * y - i < H * y
          <6> HIDE DEF v, e, i
          <6> QED
            BY <3>1, <4>3, <4>5, <5>1, <5>2
        <5>4. i < e /\ -e <= i
          <6> HIDE DEF e, i
          <6> QED
            BY <3>1, <4>3, <4>5, <5>2
        <5> HIDE DEF i, v
        <5>5. Near(n, x)
          BY <1>1, <2>2, <4>3, <5>1, <5>3, <5>4, NearWithin DEF H
        <5> QED
          BY <4>2, <5>5
      <4> QED
        BY <3>1, <4>3, <4>4, <4>5
    <3> QED
      BY <2>2, <3>2, <3>3
  <2>6. CASE ~(w > Highest)
    <3>1. w < H
      BY <1>1, <2>4, <2>6
    <3>2. n = [raw |-> g * c, shift |-> s]
      BY <2>3, <2>6
    <3>3. g \in {-1, 1} /\ x.num = g * (p * H)
      <4>1. p * H \in Int
        BY <1>1, <2>2
      <4> QED
        BY <2>2, <4>1
    <3>4. c = Clamp(Rounded(z, y)) /\ s = BitsForMag(w) /\ z = p * 2^(Point - s)
      BY DEF c, s
    <3> HIDE DEF H, z, w
    <3>5. w = p \div y /\ H = 2^Point
      BY DEF w, H
    <3> QED
      BY <2>2, <3>1, <3>2, <3>3, <3>4, <3>5, QuotientNear
  <2> QED
    BY <2>5, <2>6
<1> QED
  BY <1>2, <1>3

(***************************************************************************)
(* The specification                                                       *)
(***************************************************************************)
\* What the callers of the arithmetic keep to.
KeepsNumberRules == AllNumberRules \subseteq NumberRules

Exact(n, x) == x # NoNumber => Near(n, x) /\ x.num \in Int /\ x.den \in Nat \ {0}

NumberInv ==
  /\ left \in Numbers \cup {NoNumber} /\ right \in Numbers \cup {NoNumber}
  /\ right # NoNumber => left # NoNumber
  /\ Exact(left, asked)

LEMMA BecomesExact ==
  ASSUME NEW n \in Numbers, NEW i \in Int, NEW d \in Int, d # 0, NEW x, x = Fraction(i, d),
         Near(n, x), Becomes(n, x)
  PROVE  NumberInv'
<1>1. x.num \in Int /\ x.den \in Nat \ {0}
  BY FractionTyped
<1>2. Exact(n, x)
  BY <1>1 DEF Exact
<1>3. left' = n /\ right' = NoNumber /\ asked' = x
  BY DEF Becomes
<1>4. Exact(n, x)'
  BY <1>2, <1>3
<1> QED
  BY <1>2, <1>3 DEF NumberInv

LEMMA ValueOf ==
  ASSUME NEW n \in Numbers
  PROVE  Value(n) \in Int /\ 2^Point \in Int /\ (n.raw # 0 => Value(n) # 0)
<1> DEFINE r == n.raw
           U == 2^n.shift
<1>1. r \in Int /\ U \in Nat /\ U > 0 /\ Value(n) = r * U
  BY NumberFacts
<1>2. r * U \in Int /\ (r # 0 => r * U # 0)
  <2> HIDE DEF r, U
  <2> QED
    BY <1>1
<1> QED
  BY <1>1, <1>2, Ends

LEMMA FixedWithStep ==
  ASSUME KeepsNumberRules, NumberInv,
         FixedWithInt32 \/ FixedWithUnsignedInt \/ FixedWithFloat \/ FixedWithRaw
  PROVE  NumberInv'
<1> DEFINE H == 2^Point
<1>1. H \in Int /\ AllNumberRules \subseteq NumberRules /\ 1 \in Int /\ 2 \in Int
  BY Ends DEF KeepsNumberRules
<1>2. CASE FixedWithInt32
  <2>1. PICK i \in Lowest..Highest : Becomes(FromInt32(i), Fraction(i * H, 1))
    BY <1>2 DEF FixedWithInt32
  <2> DEFINE n == FromInt32(i)
             x == Fraction(i * H, 1)
  <2>2. i \in Int /\ Lowest <= i /\ i <= Highest /\ i * H \in Int
    BY <1>1, Ends
  <2>3. n \in Numbers /\ Near(n, x)
    BY <2>2, FromIntegerNear
  <2> QED
    BY <1>1, <2>1, <2>2, <2>3, BecomesExact
<1>3. CASE FixedWithUnsignedInt
  <2>1. PICK i \in 0..(2^NumberWidth - 1) :
          InRange(i) /\ Becomes(FromInt32(Signed(i)), Fraction(i * H, 1))
    BY <1>1, <1>3 DEF FixedWithUnsignedInt, AllNumberRules
  <2>2. i \in Int /\ Lowest <= i /\ i <= Highest /\ i * H \in Int /\ -H <= i /\ i < H
    BY <1>1, <2>1, Ends DEF InRange
  <2>3. Signed(i) = i
    BY <2>2, SignedInRange
  <2> DEFINE n == FromInt32(i)
             x == Fraction(i * H, 1)
  <2>4. n \in Numbers /\ Near(n, x)
    BY <2>2, FromIntegerNear
  <2>5. Becomes(n, x)
    BY <2>1, <2>3
  <2> QED
    BY <1>1, <2>2, <2>4, <2>5, BecomesExact
<1>4. CASE FixedWithFloat
  <2>1. PICK f \in Floats :
          Magnitude(f) < 2^(2 * Point) /\ Becomes(FromFloat(f), Fraction(f, 2))
    BY <1>1, <1>4 DEF FixedWithFloat, AllNumberRules
  <2> DEFINE n == FromFloat(f)
             x == Fraction(f, 2)
  <2>2. f \in Int
    BY NumberAssumption
  <2>3. n \in Numbers /\ Near(n, x)
    BY <2>1, <2>2, FromFloatNear
  <2> QED
    BY <1>1, <2>1, <2>2, <2>3, BecomesExact
<1>5. CASE FixedWithRaw
  <2>1. PICK n \in Numbers :
          \/ left = NoNumber /\ Becomes(n, NoNumber)
          \/ /\ left # NoNumber /\ right = NoNumber /\ asked = NoNumber
             /\ right' = n /\ UNCHANGED <<left, asked>>
    BY <1>5 DEF FixedWithRaw
  <2>2. CASE left = NoNumber /\ Becomes(n, NoNumber)
    <3>1. left' = n /\ right' = NoNumber /\ asked' = NoNumber
      BY <2>2 DEF Becomes
    <3>2. Exact(left, asked)'
      BY <3>1 DEF Exact
    <3> QED
      BY <3>1, <3>2 DEF NumberInv
  <2>3. CASE /\ left # NoNumber /\ right = NoNumber /\ asked = NoNumber
             /\ right' = n /\ UNCHANGED <<left, asked>>
    <3>1. Exact(left, asked)'
      BY <2>3 DEF Exact
    <3> QED
      BY <2>3, <3>1 DEF NumberInv
  <2> QED
    BY <2>1, <2>2, <2>3
<1> QED
  BY <1>2, <1>3, <1>4, <1>5

LEMMA CalculationStep ==
  ASSUME KeepsNumberRules, NumberInv, Add \/ Subtract \/ Multiply \/ Divide
  PROVE  NumberInv'
<1> DEFINE H == 2^Point
           va == Value(left)
           vb == Value(right)
<1>1. left \in Numbers /\ right \in Numbers
  BY DEF NumberInv, Add, Subtract, Multiply, Divide
<1>2. va \in Int /\ vb \in Int /\ H \in Int /\ H # 0 /\ H > 0 /\ (right.raw # 0 => vb # 0)
  BY <1>1, ValueOf, Ends
<1>3. va + vb \in Int /\ va - vb \in Int /\ va * vb \in Int /\ va * H \in Int
      /\ 1 \in Int /\ 0 \in Int
  <2> HIDE DEF va, vb, H
  <2> QED
    BY <1>2
<1>4. CASE Add
  <2> DEFINE n == Added(left, right)
             x == Fraction(va + vb, 1)
  <2>1. Becomes(n, x)
    BY <1>4 DEF Add
  <2>2. n \in Numbers /\ Near(n, x)
    BY <1>1, AddedNear
  <2> QED
    BY <1>3, <2>1, <2>2, BecomesExact
<1>5. CASE Subtract
  <2> DEFINE n == Subtracted(left, right)
             x == Fraction(va - vb, 1)
  <2>1. Becomes(n, x)
    BY <1>5 DEF Subtract
  <2>2. n \in Numbers /\ Near(n, x)
    BY <1>1, SubtractedNear
  <2> QED
    BY <1>3, <2>1, <2>2, BecomesExact
<1>6. CASE Multiply
  <2> DEFINE n == Multiplied(left, right)
             x == Fraction(va * vb, H)
  <2>1. Becomes(n, x)
    BY <1>6 DEF Multiply
  <2>2. left.shift + right.shift <= Point /\ (left.raw # Lowest \/ right.raw # Lowest)
    BY <1>6 DEF Multiply, KeepsNumberRules, AllNumberRules
  <2>3. n \in Numbers /\ Near(n, x)
    BY <1>1, <2>2, MultipliedNear
  <2> QED
    BY <1>2, <1>3, <2>1, <2>3, BecomesExact
<1>7. CASE Divide
  <2> DEFINE n == Divided(left, right)
             x == IF right.raw = 0 THEN Fraction(0, 1) ELSE Fraction(va * H, vb)
  <2>1. Becomes(n, x)
    BY <1>7 DEF Divide
  <2>2. n \in Numbers /\ Near(n, x)
    BY <1>1, DividedNear
  <2>3. CASE right.raw = 0
    <3>1. x = Fraction(0, 1)
      BY <2>3
    <3> HIDE DEF n, x
    <3> QED
      BY <1>3, <2>1, <2>2, <3>1, BecomesExact
  <2>4. CASE right.raw # 0
    <3>1. x = Fraction(va * H, vb)
      BY <2>4
    <3> HIDE DEF n, x
    <3> QED
      BY <1>2, <1>3, <2>1, <2>2, <2>4, <3>1, BecomesExact
  <2> QED
    BY <2>3, <2>4
<1> QED
  BY <1>4, <1>5, <1>6, <1>7

\* Numbers keep to their widths and results are exact, at every step.
THEOREM NumberInvariance == KeepsNumberRules => (Spec => []NumberInv)
<1> SUFFICES ASSUME KeepsNumberRules PROVE Spec => []NumberInv
  OBVIOUS
<1>1. Init => NumberInv
  <2> SUFFICES ASSUME Init PROVE NumberInv
    OBVIOUS
  <2>1. left = NoNumber /\ right = NoNumber /\ asked = NoNumber
    BY DEF Init, NumberInit
  <2> QED
    BY <2>1 DEF NumberInv, Exact
<1>2. NumberInv /\ [Next]_vars => NumberInv'
  <2> SUFFICES ASSUME NumberInv, [Next]_vars PROVE NumberInv'
    OBVIOUS
  <2>1. CASE NumberNext
    <3>1. CASE UseResult
      <4>1. left' = left /\ right' = right /\ asked' = NoNumber
        BY <3>1 DEF UseResult
      <4>2. Exact(left, asked)'
        BY <4>1 DEF Exact
      <4> QED
        BY <4>1, <4>2 DEF NumberInv
    <3> QED
      BY <2>1, <3>1, FixedWithStep, CalculationStep DEF NumberNext
  <2>2. CASE UNCHANGED numberVars
    <3>1. left' = left /\ right' = right /\ asked' = asked
      BY <2>2 DEF numberVars
    <3>2. Exact(left, asked)'
      BY <3>1 DEF NumberInv, Exact, Near, Value, Highest, Lowest, Point
    <3> QED
      BY <3>1, <3>2 DEF NumberInv
  <2> QED
    BY <2>1, <2>2 DEF Next, vars
<1> QED
  BY <1>1, <1>2, PTL DEF Spec

\* Within the rules every number that a factory makes of an integer or a float, and
\* every sum, difference, product and quotient, is less than one unit of its own last
\* place away from the real result, or the end of the range when that lies outside, for
\* mantissas of every width (OZQ31.m).
THEOREM ResultsAlwaysExact == KeepsNumberRules => (Spec => []ResultExact)
<1> SUFFICES ASSUME KeepsNumberRules PROVE Spec => []ResultExact
  OBVIOUS
<1>1. NumberInv => ResultExact
  <2> SUFFICES ASSUME NumberInv, asked # NoNumber PROVE Near(left, asked)
    BY DEF ResultExact, Near
  <2> QED
    BY DEF NumberInv, Exact
<1>2. Spec => []NumberInv
  BY NumberInvariance
<1> QED
  BY <1>1, <1>2, PTL

(***************************************************************************)
(* Digits as one number                                                    *)
(***************************************************************************)
\* f has the numbers that the first digits of d make.
Reads(f, d) ==
  /\ f \in [0..Len(d) -> Nat] /\ f[0] = 0
  /\ \A k \in 1..Len(d) : f[k] = 10 * f[k - 1] + d[k]

LEMMA ReadingExists ==
  ASSUME NEW d \in Seq(Nat)
  PROVE  \E f : Reads(f, d)
<1> DEFINE Upto(n, f) == /\ f \in [0..n -> Nat] /\ f[0] = 0
                         /\ \A k \in 1..n : f[k] = 10 * f[k - 1] + d[k]
           T == {n \in 0..Len(d) : ~\E f : Upto(n, f)}
<1>1. T = {}
  <2>1. SUFFICES ASSUME T # {} PROVE FALSE
    OBVIOUS
  <2>2. PICK n \in T : \A m \in T : n <= m
    <3>1. T \in SUBSET Nat
      OBVIOUS
    <3> QED
      BY <2>1, <3>1, LeastNat
  <2>3. n \in 0..Len(d) /\ ~\E f : Upto(n, f)
    BY <2>2
  <2>4. n # 0
    <3>1. Upto(0, [k \in 0..0 |-> 0])
      OBVIOUS
    <3> QED
      BY <2>3, <3>1
  <2>5. n - 1 \in 0..Len(d) /\ n - 1 \notin T
    <3>1. n \in Nat /\ n - 1 \in 0..Len(d)
      BY <2>3, <2>4
    <3> HIDE DEF T
    <3>2. n - 1 \notin T
      BY <2>2, <3>1
    <3> QED
      BY <3>1, <3>2
  <2>6. PICK f : Upto(n - 1, f)
    BY <2>5
  <2> DEFINE g == [k \in 0..n |-> IF k = n THEN 10 * f[n - 1] + d[n] ELSE f[k]]
  <2>7. d[n] \in Nat /\ f[n - 1] \in Nat
    BY <2>3, <2>4, <2>6
  <2>8. Upto(n, g)
    <3>1. g \in [0..n -> Nat]
      <4>1. \A k \in 0..n : k # n => f[k] \in Nat
        BY <2>3, <2>6
      <4> QED
        BY <2>7, <4>1
    <3>2. g[0] = 0
      BY <2>3, <2>4, <2>6
    <3>3. ASSUME NEW k \in 1..n PROVE g[k] = 10 * g[k - 1] + d[k]
      <4>1. g[k - 1] = f[k - 1]
        BY <2>3
      <4>2. CASE k = n
        BY <2>3, <4>1, <4>2
      <4>3. CASE k # n
        <5>1. k \in 1..(n - 1) /\ g[k] = f[k]
          BY <2>3, <4>3
        <5> QED
          BY <2>6, <4>1, <5>1
      <4> QED
        BY <4>2, <4>3
    <3> QED
      BY <3>1, <3>2, <3>3
  <2> QED
    BY <2>3, <2>8
<1>2. Len(d) \in 0..Len(d)
  OBVIOUS
<1>3. PICK f : Upto(Len(d), f)
  BY <1>1, <1>2
<1> QED
  BY <1>3 DEF Reads

LEMMA ReadIs ==
  ASSUME NEW d \in Seq(Nat), NEW f, Reads(f, d)
  PROVE  Read(d) = f[Len(d)]
<1> DEFINE n == Len(d)
           Makes(g) == g = [k \in 0..n |-> IF k = 0 THEN 0 ELSE 10 * g[k - 1] + d[k]]
           r == CHOOSE g : Makes(g)
<1>1. n \in Nat
  OBVIOUS
<1>2. Makes(f)
  BY DEF Reads
<1>3. Makes(r)
  BY <1>2
<1>4. Read(d) = r[n]
  BY DEF Read
<1> HIDE DEF r
<1>5. r[0] = 0 /\ \A k \in 1..n : r[k] = 10 * r[k - 1] + d[k]
  BY SMTT(60), <1>1, <1>3
<1> DEFINE T == {k \in 0..n : r[k] # f[k]}
<1>6. T = {}
  <2>1. SUFFICES ASSUME T # {} PROVE FALSE
    OBVIOUS
  <2>2. PICK k \in T : \A m \in T : k <= m
    <3>1. T \in SUBSET Nat
      OBVIOUS
    <3> QED
      BY <2>1, <3>1, LeastNat
  <2>3. k # 0
    BY <1>5 DEF Reads
  <2>4. k \in 1..n /\ k - 1 \in 0..n /\ k - 1 \notin T
    BY <1>1, <2>2, <2>3
  <2>5. r[k - 1] = f[k - 1]
    BY <2>4
  <2>6. r[k] = f[k]
    BY <1>5, <2>4, <2>5 DEF Reads
  <2> QED
    BY <2>2, <2>6
<1> QED
  BY <1>1, <1>4, <1>6

(***************************************************************************)
(* Powers of ten                                                           *)
(***************************************************************************)
LEMMA Tens ==
  ASSUME NEW n \in 0..MostDigits
  PROVE  10^n \in Nat /\ 10^n > 0 /\ 10^(n + 1) = 10 * 10^n
<1> DEFINE T == {k \in 0..MostDigits : ~(10^k \in Nat /\ 10^k > 0)}
<1>1. MostDigits \in Nat /\ \A k \in 0..MostDigits : 10^(k + 1) = 10 * 10^k
  BY LogAssumption
<1>2. T = {}
  <2>1. SUFFICES ASSUME T # {} PROVE FALSE
    OBVIOUS
  <2>2. PICK k \in T : \A m \in T : k <= m
    <3>1. T \in SUBSET Nat
      OBVIOUS
    <3> QED
      BY <2>1, <3>1, LeastNat
  <2>3. k # 0
    <3>1. SUFFICES ASSUME k = 0 PROVE FALSE
      OBVIOUS
    <3>2. 10^k = 10^0 /\ 10^0 = 1
      BY <3>1
    <3> QED
      BY <2>2, <3>2
  <2>4. k - 1 \in 0..MostDigits /\ k - 1 \notin T /\ (k - 1) + 1 = k
    BY <1>1, <2>2, <2>3
  <2>5. 10^((k - 1) + 1) = 10 * 10^(k - 1) /\ 10^(k - 1) \in Nat /\ 10^(k - 1) > 0
    BY <1>1, <2>4
  <2>6. 10^k = 10 * 10^(k - 1)
    BY <2>4, <2>5
  <2> QED
    BY <2>2, <2>5, <2>6
<1> QED
  BY <1>1, <1>2

LEMMA TenSum ==
  ASSUME NEW a \in Nat, NEW b \in Nat, a + b <= MostDigits
  PROVE  10^(a + b) = 10^a * 10^b
<1> DEFINE T == {k \in 0..b : 10^(a + k) # 10^a * 10^k}
<1>0. MostDigits \in Nat
  BY LogAssumption
<1>1. T = {}
  <2>1. SUFFICES ASSUME T # {} PROVE FALSE
    OBVIOUS
  <2>2. PICK k \in T : \A m \in T : k <= m
    <3>1. T \in SUBSET Nat
      OBVIOUS
    <3> QED
      BY <2>1, <3>1, LeastNat
  <2>3. k \in Nat /\ k <= b /\ 10^(a + k) # 10^a * 10^k
    OBVIOUS
  <2>4. a \in 0..MostDigits /\ 10^a \in Nat
    BY <1>0, Tens
  <2>5. k # 0
    <3>1. SUFFICES ASSUME k = 0 PROVE FALSE
      OBVIOUS
    <3>2. 10^0 = 1 /\ a + 0 = a
      OBVIOUS
    <3>3. 10^a = 10^a * 1
      BY <2>4
    <3> QED
      BY <2>3, <3>1, <3>2, <3>3
  <2>6. k - 1 \in 0..b /\ k - 1 \notin T /\ (k - 1) + 1 = k /\ (a + (k - 1)) + 1 = a + k
    BY <2>2, <2>3, <2>5
  <2>7. 10^(a + (k - 1)) = 10^a * 10^(k - 1)
    BY <2>6
  <2>8. k - 1 \in 0..MostDigits /\ a + (k - 1) \in 0..MostDigits
    BY <1>0, <2>3, <2>5
  <2>9. /\ 10^((k - 1) + 1) = 10 * 10^(k - 1)
        /\ 10^((a + (k - 1)) + 1) = 10 * 10^(a + (k - 1)) /\ 10^(k - 1) \in Nat
    BY <2>8, Tens
  <2>10. 10^k = 10 * 10^(k - 1) /\ 10^(a + k) = 10 * (10^a * 10^(k - 1))
    BY <2>6, <2>7, <2>9
  <2> DEFINE x == 10^a
             y == 10^(k - 1)
  <2>11. 10 * (x * y) = x * (10 * y)
    <3> HIDE DEF x, y
    <3>1. ASSUME x \in Nat, y \in Nat PROVE 10 * (x * y) = x * (10 * y)
      BY <3>1
    <3> QED
      BY <2>4, <2>9, <3>1 DEF x, y
  <2> QED
    BY <2>3, <2>10, <2>11
<1> QED
  BY <1>1

(***************************************************************************)
(* Long division                                                           *)
(***************************************************************************)
LEMMA ModIs ==
  ASSUME NEW x \in Int, NEW a \in Int, NEW b \in Nat, NEW K \in Nat, b < K, x = a * K + b
  PROVE  x % K = b /\ x \div K = a
<1>1. x = (x \div K) * K + (x % K) /\ x \div K \in Int /\ x % K \in Nat /\ x % K < K /\ K > 0
  BY DivMod
<1> DEFINE q == x \div K
           m == x % K
<1>2. q \in Int /\ m \in Nat /\ m < K /\ q * K + m = a * K + b
  BY <1>1
<1> HIDE DEF q, m
<1>3. q = a
  <2>1. CASE q < a
    <3>1. (q + 1) * K <= a * K /\ (q + 1) * K = q * K + K /\ q * K \in Int /\ a * K \in Int
      BY <1>2, <2>1, Scales
    <3> QED
      BY <1>2, <3>1
  <2>2. CASE a < q
    <3>1. (a + 1) * K <= q * K /\ (a + 1) * K = a * K + K /\ q * K \in Int /\ a * K \in Int
      BY <1>2, <2>2, Scales
    <3> QED
      BY <1>2, <3>1
  <2> QED
    BY <1>2, <2>1, <2>2
<1>4. m = b
  <2>1. a * K \in Int
    OBVIOUS
  <2> QED
    BY <1>2, <1>3, <2>1
<1> QED
  BY <1>3, <1>4 DEF q, m

\* The rest before place i.
Rest(n, i) ==
  LET unit == 2^(Point - n.shift) IN ((Magnitude(n.raw) % unit) * 10^i) % unit

Unit(n) == 2^(Point - n.shift)

LEMMA UnitFacts ==
  ASSUME NEW n \in Numbers
  PROVE  /\ Unit(n) \in Nat /\ Unit(n) > 0 /\ 2^Point = 2^n.shift * Unit(n)
         /\ 2^n.shift \in Nat /\ 2^n.shift > 0
         /\ Magnitude(n.raw) \in Nat
         /\ Magnitude(n.raw) \div Unit(n) \in Nat
         /\ Magnitude(n.raw) % Unit(n) \in Nat /\ Magnitude(n.raw) % Unit(n) < Unit(n)
         /\ Magnitude(n.raw) = (Magnitude(n.raw) \div Unit(n)) * Unit(n) + (Magnitude(n.raw) % Unit(n))
<1> DEFINE K == Unit(n)
           M == Magnitude(n.raw)
<1>1. n.raw \in Int /\ n.shift \in Nat /\ n.shift <= Point
  BY NumberFacts
<1>2. /\ K \in Nat /\ K > 0 /\ 2^Point = 2^n.shift * K
      /\ 2^n.shift \in Nat /\ 2^n.shift > 0
  BY <1>1, Halved DEF Unit
<1>3. M \in Nat
  BY <1>1, MagnitudeOf
<1> HIDE DEF K, M
<1>4. M \div K \in Int /\ M % K \in Nat /\ M % K < K /\ M = (M \div K) * K + (M % K)
  BY <1>2, <1>3, DivMod
<1>5. M \div K \in Nat
  BY <1>2, <1>3, <1>4
<1> QED
  BY <1>2, <1>3, <1>4, <1>5 DEF K, M

\* One digit more.
LEMMA LongDivision ==
  ASSUME NEW X \in Nat, NEW K \in Nat, K > 0, NEW r, r = X % K, NEW q, q = (10 * r) \div K,
         NEW e, e = (10 * X) % K
  PROVE  q \in 0..9 /\ r \in Nat /\ r < K /\ 10 * r = q * K + e
<1> DEFINE a == X \div K
           b == (10 * r) % K
<1>1. r \in Nat /\ r < K /\ X = a * K + r /\ a \in Int
  <2>1. X \in Int
    OBVIOUS
  <2> QED
    BY <2>1, DivMod
<1> HIDE DEF a
<1>2. q \in Int /\ b \in Nat /\ b < K /\ 10 * r = q * K + b
  <2>1. 10 * r \in Int
    BY <1>1
  <2> QED
    BY <2>1, DivMod
<1> HIDE DEF b
<1>3. 10 * X = (10 * a + q) * K + b
  <2>1. (10 * a + q) * K = 10 * (a * K) + q * K /\ a * K \in Int /\ q * K \in Int
    BY <1>1, <1>2
  <2> QED
    BY <1>1, <1>2, <2>1
<1>4. e = b
  <2>1. 10 * X \in Int /\ 10 * a + q \in Int
    BY <1>1, <1>2
  <2> QED
    BY SMTT(60), <1>2, <1>3, <2>1, ModIs
<1>5. q \in 0..9
  <2>1. q * K < 10 * K /\ (-1) * K < q * K
    <3>1. q * K \in Int
      BY <1>2
    <3> QED
      BY <1>1, <1>2, <3>1
  <2>2. q < 10 /\ -1 < q
    BY <1>2, <2>1, ScalesBack
  <2> QED
    BY <1>2, <2>2
<1> QED
  BY <1>1, <1>2, <1>4, <1>5

LEMMA NextDigit ==
  ASSUME NEW n \in Numbers, NEW i \in 0..MostDigits, NEW K, K = Unit(n)
  PROVE  /\ Digit(n, i) \in 0..9 /\ Rest(n, i) \in Nat /\ Rest(n, i) < K
         /\ 10 * Rest(n, i) = Digit(n, i) * K + Rest(n, i + 1)
<1> DEFINE R == Magnitude(n.raw) % K
           P == 10^i
           X == R * P
           r == Rest(n, i)
           q == Digit(n, i)
           e == Rest(n, i + 1)
<1>1. K \in Nat /\ K > 0 /\ R \in Nat
  BY UnitFacts
<1>2. P \in Nat /\ 10^(i + 1) = 10 * P
  BY Tens
<1>3. r = X % K /\ q = (10 * r) \div K /\ e = (R * (10 * P)) % K
  BY <1>2 DEF Rest, Digit, Unit
<1>4. X \in Nat /\ R * (10 * P) = 10 * X
  <2> HIDE DEF R, P
  <2> QED
    BY <1>1, <1>2
<1>5. e = (10 * X) % K
  BY <1>3, <1>4
<1> HIDE DEF X, r, q, e
<1>6. q \in 0..9 /\ r \in Nat /\ r < K /\ 10 * r = q * K + e
  BY <1>1, <1>3, <1>4, <1>5, LongDivision
<1> QED
  BY <1>6 DEF r, q, e

(***************************************************************************)
(* The digits, and the carry among them                                    *)
(***************************************************************************)
Plain(n, digits) == [i \in 1..digits |-> Digit(n, i - 1)]

Carry(n, digits, i) == IF Carries(n, digits, i) THEN 1 ELSE 0

LEMMA DigitsFit ==
  ASSUME NEW n \in Numbers, NEW D \in 0..MostDigits
  PROVE  /\ \A i \in 0..D : Digit(n, i) \in 0..9
         /\ Plain(n, D) \in Seq(Nat) /\ Len(Plain(n, D)) = D
         /\ \A i \in 1..D : Plain(n, D)[i] = Digit(n, i - 1)
         /\ Decimals(n, D) \in Seq(Nat) /\ Len(Decimals(n, D)) = D
         /\ \A i \in 1..D : Decimals(n, D)[i] = (Digit(n, i - 1) + Carry(n, D, i - 1)) % 10
<1>1. MostDigits \in Nat /\ D \in Nat
  BY LogAssumption
<1>2. \A i \in 0..D : Digit(n, i) \in 0..9
  BY <1>1, NextDigit
<1>3. \A i \in 1..D : Digit(n, i - 1) \in 0..9
  BY <1>1, <1>2
<1>4. Plain(n, D) \in [1..D -> Nat]
  BY <1>3 DEF Plain
<1>5. \A i \in 1..D : (Digit(n, i - 1) + Carry(n, D, i - 1)) % 10 \in Nat
  <2> TAKE i \in 1..D
  <2>1. Digit(n, i - 1) \in Int /\ Carry(n, D, i - 1) \in Int
    BY <1>3 DEF Carry
  <2> QED
    BY <2>1
<1>6. Decimals(n, D) = [i \in 1..D |-> (Digit(n, i - 1) + Carry(n, D, i - 1)) % 10]
  BY DEF Decimals, Carry
<1>7. Decimals(n, D) \in [1..D -> Nat]
  BY <1>5, <1>6
<1>8. \A v \in [1..D -> Nat] : v \in Seq(Nat) /\ Len(v) = D
  BY <1>1
<1> QED
  BY <1>2, <1>4, <1>6, <1>7, <1>8 DEF Plain

\* The first k digits and the rest are the fraction.
LEMMA PlainReads ==
  ASSUME NEW n \in Numbers, NEW D \in 0..MostDigits, NEW f, Reads(f, Plain(n, D)),
         NEW k \in 0..D
  PROVE  (Magnitude(n.raw) % Unit(n)) * 10^k = f[k] * Unit(n) + Rest(n, k)
<1> DEFINE K == Unit(n)
           R == Magnitude(n.raw) % K
           Splits(j) == R * 10^j = f[j] * K + Rest(n, j)
           T == {j \in 0..D : ~Splits(j)}
<1>1. MostDigits \in Nat /\ D \in Nat /\ K \in Nat /\ K > 0 /\ R \in Nat /\ R < K
  BY LogAssumption, UnitFacts
<1>2. T = {}
  <2>1. SUFFICES ASSUME T # {} PROVE FALSE
    OBVIOUS
  <2>2. PICK j \in T : \A i \in T : j <= i
    <3>1. T \in SUBSET Nat
      OBVIOUS
    <3> QED
      BY <2>1, <3>1, LeastNat
  <2>3. j \in 0..D /\ ~Splits(j)
    OBVIOUS
  <2>4. j # 0
    <3>1. 10^0 = 1 /\ f[0] = 0
      BY DEF Reads
    <3>2. Rest(n, 0) = R
      <4>1. Rest(n, 0) = (R * 10^0) % K
        BY DEF Rest, Unit
      <4> HIDE DEF R, K
      <4>2. R * 10^0 = R /\ R = 0 * K + R
        BY <1>1, <3>1
      <4>3. R % K = R
        BY <1>1, <4>2, ModIs
      <4> QED
        BY <4>1, <4>2, <4>3
    <3> HIDE DEF R, K
    <3>3. R * 10^0 = f[0] * K + Rest(n, 0)
      BY <1>1, <3>1, <3>2
    <3> QED
      BY <2>3, <3>3
  <2>5. j - 1 \in 0..D /\ j - 1 \notin T /\ (j - 1) + 1 = j /\ j \in 1..D
    <3>1. j - 1 \in 0..D /\ (j - 1) + 1 = j /\ j \in 1..D /\ ~(j <= j - 1)
      BY <1>1, <2>3, <2>4
    <3> HIDE DEF T
    <3> QED
      BY <2>2, <3>1
  <2>6. R * 10^(j - 1) = f[j - 1] * K + Rest(n, j - 1)
    BY <2>5
  <2>7. j - 1 \in 0..MostDigits
    BY <1>1, <2>5
  <2>8. 10^((j - 1) + 1) = 10 * 10^(j - 1) /\ 10^(j - 1) \in Nat
    BY <2>7, Tens
  <2>9. /\ Digit(n, j - 1) \in 0..9 /\ Rest(n, j - 1) \in Nat
        /\ 10 * Rest(n, j - 1) = Digit(n, j - 1) * K + Rest(n, (j - 1) + 1)
    BY <2>7, NextDigit
  <2>10. /\ f[j] = 10 * f[j - 1] + Digit(n, j - 1) /\ f[j - 1] \in Nat
    <3>1. Len(Plain(n, D)) = D /\ Plain(n, D)[j] = Digit(n, j - 1)
      BY <2>5, DigitsFit
    <3> QED
      BY <2>5, <3>1 DEF Reads
  <2> DEFINE x == f[j - 1]
             q == Digit(n, j - 1)
             p == 10^(j - 1)
             r == Rest(n, j - 1)
             e == Rest(n, j)
  <2>11. /\ x \in Nat /\ q \in Nat /\ p \in Nat /\ r \in Nat /\ f[j] = 10 * x + q
         /\ 10^j = 10 * p /\ R * p = x * K + r /\ 10 * r = q * K + e
    BY <2>5, <2>6, <2>8, <2>9, <2>10
  <2>12. R * (10 * p) = (10 * x + q) * K + e
    <3> HIDE DEF R, K, x, q, p, r, e
    <3>1. R * (10 * p) = 10 * (R * p) /\ (10 * x + q) * K = 10 * (x * K) + q * K
      BY <1>1, <2>11
    <3>2. x * K \in Nat /\ q * K \in Nat
      BY <1>1, <2>11
    <3>3. R * p = x * K + r /\ 10 * r = q * K + e
      BY <2>11
    <3> DEFINE a == x * K
               b == q * K
               c == R * p
    <3>4. e = 10 * r - b /\ c = a + r
      <4> HIDE DEF a, b, c
      <4>1. a \in Nat /\ b \in Nat /\ c = a + r /\ 10 * r = b + e
        BY <3>2, <3>3 DEF a, b, c
      <4>2. e \in Int
        BY <1>1, <2>3, NextDigit DEF e
      <4> QED
        BY <2>11, <4>1, <4>2
    <3> HIDE DEF a, b, c
    <3>5. 10 * c = (10 * a + b) + e
      BY <2>11, <3>2, <3>4 DEF a, b
    <3> QED
      BY <3>1, <3>5 DEF a, b, c
  <2> QED
    BY <2>3, <2>11, <2>12
<1> QED
  BY <1>2

\* A carry is what a nine and a carry make.
LEMMA CarryMoves ==
  ASSUME NEW n \in Numbers, NEW D \in 0..MostDigits, NEW i \in 0..(D - 1)
  PROVE  Digit(n, i) + Carry(n, D, i) = 10 * Carry(n, D, i - 1) + Decimals(n, D)[i + 1]
<1> DEFINE q == Digit(n, i)
           c == Carry(n, D, i)
           b == Carry(n, D, i - 1)
           v == Decimals(n, D)[i + 1]
<1>1. D \in Nat /\ i \in Nat /\ i \in 0..D /\ (i - 1) + 1 = i /\ i + 1 \in 1..D /\ (i + 1) - 1 = i
  BY LogAssumption
<1>2. q \in 0..9 /\ v = (q + c) % 10
  BY <1>1, DigitsFit
<1>3. Carries(n, D, i - 1) <=> Carries(n, D, i) /\ q = 9
  <2>1. Carries(n, D, i - 1) <=>
          RoundsUp(n, D) /\ \A j \in i..(D - 1) : Digit(n, j) = 9
    BY <1>1 DEF Carries
  <2>2. Carries(n, D, i) <=>
          RoundsUp(n, D) /\ \A j \in (i + 1)..(D - 1) : Digit(n, j) = 9
    BY DEF Carries
  <2>3. \A j : j \in i..(D - 1) <=> j = i \/ j \in (i + 1)..(D - 1)
    BY <1>1
  <2> QED
    BY <2>1, <2>2, <2>3
<1>4. c \in {0, 1} /\ b = IF c = 1 /\ q = 9 THEN 1 ELSE 0
  BY <1>3 DEF Carry
<1> HIDE DEF q, c, b, v
<1>5. q + c = 10 * b + v
  <2>1. CASE c = 1 /\ q = 9
    BY <1>2, <1>4, <2>1
  <2>2. CASE ~(c = 1 /\ q = 9)
    <3>1. b = 0 /\ q + c \in 0..9
      BY <1>2, <1>4, <2>2
    <3>2. (q + c) % 10 = q + c
      BY <3>1
    <3> QED
      BY <1>2, <3>1, <3>2
  <2> QED
    BY <2>1, <2>2
<1> QED
  BY <1>5 DEF q, c, b, v

LEMMA CarriedReads ==
  ASSUME NEW n \in Numbers, NEW D \in 0..MostDigits, NEW f, Reads(f, Plain(n, D)),
         NEW g, Reads(g, Decimals(n, D)), NEW k \in 0..D
  PROVE  f[k] + Carry(n, D, k - 1) = g[k] + 10^k * Carry(n, D, -1)
<1> DEFINE w == Carry(n, D, -1)
           Agrees(j) == f[j] + Carry(n, D, j - 1) = g[j] + 10^j * w
           T == {j \in 0..D : ~Agrees(j)}
<1>1. MostDigits \in Nat /\ D \in Nat /\ w \in Nat
  BY LogAssumption DEF Carry
<1>2. T = {}
  <2>1. SUFFICES ASSUME T # {} PROVE FALSE
    OBVIOUS
  <2>2. PICK j \in T : \A i \in T : j <= i
    <3>1. T \in SUBSET Nat
      OBVIOUS
    <3> QED
      BY <2>1, <3>1, LeastNat
  <2>3. j \in 0..D /\ ~Agrees(j)
    OBVIOUS
  <2>4. j # 0
    <3>1. 10^0 = 1 /\ f[0] = 0 /\ g[0] = 0 /\ 0 - 1 = -1
      BY DEF Reads
    <3> HIDE DEF w
    <3>2. 10^0 * w = w
      BY <1>1, <3>1
    <3>3. Carry(n, D, 0 - 1) = w
      BY <3>1 DEF w
    <3>4. Agrees(0)
      BY <1>1, <3>1, <3>2, <3>3
    <3> HIDE DEF Agrees
    <3> QED
      BY <2>3, <3>4
  <2>5. j - 1 \in 0..D /\ j - 1 \notin T /\ (j - 1) + 1 = j /\ j \in 1..D /\ j - 1 \in 0..(D - 1)
    <3>1. j - 1 \in 0..D /\ (j - 1) + 1 = j /\ j \in 1..D /\ ~(j <= j - 1)
          /\ j - 1 \in 0..(D - 1)
      BY <1>1, <2>3, <2>4
    <3> HIDE DEF T
    <3> QED
      BY <2>2, <3>1
  <2>6. f[j - 1] + Carry(n, D, (j - 1) - 1) = g[j - 1] + 10^(j - 1) * w
    BY <2>5
  <2>7. j - 1 \in 0..MostDigits
    BY <1>1, <2>5
  <2>8. 10^((j - 1) + 1) = 10 * 10^(j - 1) /\ 10^(j - 1) \in Nat
    BY <2>7, Tens
  <2>9. Digit(n, j - 1) + Carry(n, D, j - 1)
          = 10 * Carry(n, D, (j - 1) - 1) + Decimals(n, D)[(j - 1) + 1]
    BY <2>5, CarryMoves
  <2> DEFINE x == f[j - 1]
             y == g[j - 1]
             q == Digit(n, j - 1)
             c == Carry(n, D, j - 1)
             b == Carry(n, D, (j - 1) - 1)
             v == Decimals(n, D)[j]
             p == 10^(j - 1)
  <2>10. /\ x \in Nat /\ y \in Nat /\ f[j] = 10 * x + q /\ g[j] = 10 * y + v
         /\ q \in Nat /\ v \in Nat /\ c \in Nat /\ b \in Nat
    <3>1. Len(Plain(n, D)) = D /\ Plain(n, D)[j] = q /\ Len(Decimals(n, D)) = D
      BY <2>5, DigitsFit
    <3>2. q \in 0..9 /\ Decimals(n, D) \in Seq(Nat)
      BY <2>5, DigitsFit
    <3>3. v \in Nat
      BY <2>5, <3>1, <3>2
    <3>4. c \in Nat /\ b \in Nat
      BY DEF Carry
    <3>5. x \in Nat /\ y \in Nat /\ f[j] = 10 * x + q /\ g[j] = 10 * y + v
      BY <2>5, <3>1 DEF Reads
    <3>6. q \in Nat
      BY <3>2
    <3> HIDE DEF x, y, q, c, b, v
    <3> QED
      BY <3>3, <3>4, <3>5, <3>6
  <2>11. x + b = y + p * w /\ q + c = 10 * b + v /\ 10^j = 10 * p /\ p \in Nat
    BY <2>5, <2>6, <2>8, <2>9
  <2>12. f[j] + c = g[j] + 10^j * w
    <3> DEFINE z == p * w
    <3>1. (10 * p) * w = 10 * z /\ z \in Nat
      <4> HIDE DEF p, w
      <4> QED
        BY <1>1, <2>11
    <3>2. 10^j * w = 10 * z
      BY <2>11, <3>1
    <3>3. x + b = y + z
      BY <2>11
    <3> HIDE DEF x, y, q, c, b, v, z
    <3>4. (10 * x + q) + c = (10 * y + v) + 10 * z
      BY <2>10, <2>11, <3>1, <3>3
    <3> QED
      BY <2>10, <3>2, <3>4
  <2> QED
    BY <2>3, <2>12
<1> QED
  BY <1>2

(***************************************************************************)
(* Zeros at the end                                                        *)
(***************************************************************************)
LEMMA TrimmedIs ==
  ASSUME NEW d \in Seq(Nat), NEW t, t = Trimmed(d)
  PROVE  /\ t \in Seq(Nat) /\ Len(t) <= Len(d)
         /\ \A i \in 1..Len(t) : t[i] = d[i]
         /\ \A i \in (Len(t) + 1)..Len(d) : d[i] = 0
         /\ t # <<>> => t[Len(t)] # 0
<1> DEFINE Ends0(k) == /\ \A i \in (k + 1)..Len(d) : d[i] = 0
                       /\ k = 0 \/ d[k] # 0
           T == {k \in 0..Len(d) : \A i \in (k + 1)..Len(d) : d[i] = 0}
           L == CHOOSE k \in 0..Len(d) : Ends0(k)
<1>1. \E k \in 0..Len(d) : Ends0(k)
  <2>1. Len(d) \in T /\ T \in SUBSET Nat
    OBVIOUS
  <2>2. PICK k \in T : \A m \in T : k <= m
    BY <2>1, LeastNat
  <2>3. ASSUME k # 0, d[k] = 0 PROVE FALSE
    <3>1. k - 1 \in 0..Len(d)
      BY <2>3
    <3>2. \A i \in ((k - 1) + 1)..Len(d) : d[i] = 0
      <4> TAKE i \in ((k - 1) + 1)..Len(d)
      <4>1. i = k \/ i \in (k + 1)..Len(d)
        BY <2>3
      <4> QED
        BY <2>3, <4>1
    <3>3. k - 1 \in T /\ k \in Nat
      BY <3>1, <3>2
    <3> HIDE DEF T
    <3> QED
      BY <2>2, <3>3
  <2>4. Ends0(k)
    BY <2>3
  <2> QED
    BY <2>4
<1>2. L \in 0..Len(d) /\ Ends0(L)
  BY <1>1
<1>3. t = SubSeq(d, 1, L)
  BY DEF Trimmed
<1> HIDE DEF L
<1>4. t \in Seq(Nat) /\ Len(t) = L /\ \A i \in 1..L : t[i] = d[i]
  BY <1>2, <1>3
<1>5. t # <<>> => L # 0
  BY <1>4
<1> QED
  BY <1>2, <1>4, <1>5

LEMMA TrimmedReads ==
  ASSUME NEW d \in Seq(Nat), Len(d) <= MostDigits, NEW g, Reads(g, d), NEW t, t = Trimmed(d),
         NEW z, z = Len(d) - Len(t)
  PROVE  z \in Nat /\ Read(t) \in Nat /\ g[Len(d)] = Read(t) * 10^z
<1> DEFINE L == Len(t)
           D == Len(d)
           h == [k \in 0..L |-> g[k]]
<1>1. /\ t \in Seq(Nat) /\ L \in Nat /\ D \in Nat /\ L <= D /\ MostDigits \in Nat
      /\ \A i \in 1..L : t[i] = d[i]
      /\ \A i \in (L + 1)..D : d[i] = 0
  BY TrimmedIs, LogAssumption
<1>2. Reads(h, t)
  <2>1. h \in [0..L -> Nat] /\ h[0] = 0
    BY <1>1 DEF Reads
  <2>2. ASSUME NEW k \in 1..L PROVE h[k] = 10 * h[k - 1] + t[k]
    <3>1. k \in 1..D /\ k - 1 \in 0..L /\ k \in 0..L
      BY <1>1
    <3>2. g[k] = 10 * g[k - 1] + d[k]
      BY <3>1 DEF Reads
    <3>3. h[k] = g[k] /\ h[k - 1] = g[k - 1] /\ t[k] = d[k]
      BY <1>1, <3>1
    <3> QED
      BY <3>2, <3>3
  <2> QED
    BY <2>1, <2>2 DEF Reads
<1>3. Read(t) = g[L] /\ g[L] \in Nat
  <2>1. Read(t) = h[L]
    BY <1>1, <1>2, ReadIs
  <2> QED
    BY <1>1, <2>1 DEF Reads
<1>4. z \in Nat /\ L + z = D
  BY <1>1
<1> DEFINE T == {j \in 0..z : g[L + j] # g[L] * 10^j}
<1>5. T = {}
  <2>1. SUFFICES ASSUME T # {} PROVE FALSE
    OBVIOUS
  <2>2. PICK j \in T : \A i \in T : j <= i
    <3>1. T \in SUBSET Nat
      OBVIOUS
    <3> QED
      BY <2>1, <3>1, LeastNat
  <2>3. j \in 0..z /\ g[L + j] # g[L] * 10^j
    OBVIOUS
  <2>4. j # 0
    <3>1. SUFFICES ASSUME j = 0 PROVE FALSE
      OBVIOUS
    <3>2. 10^0 = 1 /\ L + 0 = L
      BY <1>1
    <3>3. g[L] = g[L] * 1
      BY <1>3
    <3> QED
      BY <2>3, <3>1, <3>2, <3>3
  <2>5. /\ j - 1 \in 0..z /\ j - 1 \notin T /\ (j - 1) + 1 = j
        /\ L + j \in 1..D /\ L + j \in (L + 1)..D /\ (L + j) - 1 = L + (j - 1)
    <3>1. /\ j - 1 \in 0..z /\ (j - 1) + 1 = j /\ ~(j <= j - 1)
          /\ L + j \in 1..D /\ L + j \in (L + 1)..D /\ (L + j) - 1 = L + (j - 1)
      BY <1>1, <1>4, <2>3, <2>4
    <3> HIDE DEF T
    <3> QED
      BY <2>2, <3>1
  <2>6. g[L + (j - 1)] = g[L] * 10^(j - 1)
    BY <2>5
  <2>7. g[L + j] = 10 * g[L + (j - 1)] + d[L + j] /\ d[L + j] = 0
    BY <1>1, <2>5 DEF Reads
  <2>8. j - 1 \in 0..MostDigits
    BY <1>1, <1>4, <2>5
  <2>9. 10^((j - 1) + 1) = 10 * 10^(j - 1) /\ 10^(j - 1) \in Nat
    BY <2>8, Tens
  <2> DEFINE a == g[L]
             p == 10^(j - 1)
  <2>10. a \in Nat /\ p \in Nat /\ 10^j = 10 * p /\ g[L + j] = 10 * (a * p) + 0
    BY <1>3, <2>5, <2>6, <2>7, <2>9
  <2>11. 10 * (a * p) + 0 = a * (10 * p)
    <3> HIDE DEF a, p
    <3> QED
      BY <2>10
  <2>12. g[L + j] = a * 10^j
    BY <2>10, <2>11
  <2> QED
    BY <2>3, <2>12
<1>6. g[L + z] = g[L] * 10^z
  <2>1. z \in 0..z
    BY <1>4
  <2> QED
    BY <1>5, <2>1
<1> QED
  BY <1>3, <1>4, <1>6

(***************************************************************************)
(* What is printed                                                         *)
(***************************************************************************)
\* A number M / K has the digits x, which make h and the carry c, a rest r after them
\* that u rounds, and Z for the zeros that are not written.
Rounding(M, K, W, R, E, S, Z, x, r, u, h, c) ==
  /\ {M, K, W, R, E, S, Z, x, r, h, c} \subseteq Nat
  /\ M = W * K + R /\ S * Z = E /\ R * E = x * K + r /\ x + u = h * Z + E * c
  /\ r < K /\ ((u = 1 /\ 2 * r >= K) \/ (u = 0 /\ 2 * r <= K))

LEMMA RoundedNear ==
  ASSUME NEW M, NEW K, NEW W, NEW R, NEW E, NEW S, NEW Z, NEW x, NEW r, NEW u, NEW h, NEW c,
         Rounding(M, K, W, R, E, S, Z, x, r, u, h, c),
         NEW B \in Nat, NEW H, H = B * K,
         NEW real, real = (M * B) * S, NEW text, text = ((W + c) * S + h) * H
  PROVE  real \in Int /\ text \in Int /\ 2 * E * Magnitude(real - text) <= S * H
<1> SUFFICES ASSUME M \in Nat, K \in Nat, W \in Nat, R \in Nat, E \in Nat, S \in Nat, Z \in Nat,
                    x \in Nat, r \in Nat, h \in Nat, c \in Nat, u \in {0, 1},
                    NEW y \in Nat, y = h * Z, M = W * K + R, S * Z = E, R * E = x * K + r,
                    x + u = y + E * c, r < K, u = 1 => 2 * r >= K, u = 0 => 2 * r <= K
             PROVE  real \in Int /\ text \in Int /\ 2 * E * Magnitude(real - text) <= S * H
  <2>1. h \in Nat /\ Z \in Nat => h * Z \in Nat
    OBVIOUS
  <2> QED
    BY <2>1 DEF Rounding
<1> DEFINE D == r - u * K
           G == real - text
           A == (W + c) * S + h
<1>1. D \in Int /\ 2 * D <= K /\ -K <= 2 * D
  OBVIOUS
<1>2. H \in Nat /\ A \in Nat /\ real \in Int /\ text \in Int /\ text = A * H /\ G \in Int
  <2>1. H \in Nat /\ A \in Nat /\ M * B \in Nat
    OBVIOUS
  <2> DEFINE C == M * B
  <2>2. C \in Nat /\ real = C * S /\ text = A * H
    BY <2>1
  <2> HIDE DEF A, C
  <2>3. real \in Int /\ text \in Int
    BY <2>1, <2>2
  <2> QED
    BY <2>1, <2>2, <2>3
<1>3. A * Z = W * E + (x + u)
  <2>1. A * Z = ((W + c) * S) * Z + h * Z
    OBVIOUS
  <2>2. ((W + c) * S) * Z = (W + c) * (S * Z)
    OBVIOUS
  <2>3. (W + c) * E = W * E + E * c
    OBVIOUS
  <2>4. A * Z = (W * E + E * c) + y
    BY <2>1, <2>2, <2>3
  <2>5. W * E \in Nat /\ E * c \in Nat
    OBVIOUS
  <2> HIDE DEF A
  <2> QED
    BY <2>4, <2>5
<1>4. M * E = (W * E) * K + (x * K + r)
  <2>1. (W * K + R) * E = (W * K) * E + R * E /\ (W * K) * E = (W * E) * K
    OBVIOUS
  <2> QED
    BY <2>1
<1>5. (A * Z) * K = (W * E) * K + (x * K + u * K)
  <2>1. (W * E + (x + u)) * K = (W * E) * K + (x * K + u * K)
    <3>1. W * E \in Nat
      OBVIOUS
    <3> QED
      BY <3>1
  <2> HIDE DEF A
  <2> QED
    BY <1>3, <2>1
<1>6. M * E - (A * Z) * K = D
  <2> DEFINE p == (W * E) * K
             q == x * K
             s == u * K
  <2>1. p \in Nat /\ q \in Nat /\ s \in Nat
    <3>1. W * E \in Nat
      OBVIOUS
    <3> QED
      BY <3>1
  <2>2. M * E = p + (q + r) /\ (A * Z) * K = p + (q + s) /\ D = r - s
    BY <1>4, <1>5
  <2> HIDE DEF p, q, s, A, D
  <2> QED
    BY <2>1, <2>2
<1>7. G * Z = B * D
  <2>1. real * Z = (M * E) * B
    <3>1. ((M * B) * S) * Z = (M * (S * Z)) * B
      OBVIOUS
    <3> QED
      BY <3>1
  <2>2. text * Z = ((A * Z) * K) * B
    <3> HIDE DEF A
    <3>1. (A * (B * K)) * Z = ((A * Z) * K) * B
      BY <1>2
    <3> QED
      BY <1>2, <3>1
  <2>3. G * Z = real * Z - text * Z
    BY <1>2
  <2> DEFINE p == M * E
             q == (A * Z) * K
  <2>4. p \in Int /\ q \in Int
    <3> HIDE DEF A
    <3>1. A * Z \in Nat /\ M * E \in Nat
      BY <1>2
    <3> QED
      BY <3>1
  <2>5. real * Z = p * B /\ text * Z = q * B /\ p - q = D
    BY <1>6, <2>1, <2>2
  <2> HIDE DEF p, q, G, D, A
  <2>6. p * B - q * B = B * (p - q)
    BY <2>4
  <2> QED
    BY <2>3, <2>5, <2>6
<1> DEFINE g == Magnitude(G)
<1>8. g \in Nat /\ (g = G \/ g = -G)
  <2> HIDE DEF G
  <2> QED
    BY <1>2, MagnitudeOf
<1>9. (2 * g) * Z <= H
  <2> HIDE DEF G, g, D
  <2>1. B * (2 * D) <= B * K /\ B * (-(2 * D)) <= B * K
    <3>1. 2 * D <= K /\ -(2 * D) <= K /\ 2 * D \in Int /\ -(2 * D) \in Int
      BY <1>1
    <3>2. \A a \in Int : a <= K => B * a <= B * K
      OBVIOUS
    <3> QED
      BY <3>1, <3>2
  <2>2. B * (2 * D) = 2 * (B * D) /\ B * (-(2 * D)) = -(2 * (B * D)) /\ B * D \in Int
    BY <1>1
  <2>3. (2 * g) * Z = 2 * (B * D) \/ (2 * g) * Z = -(2 * (B * D))
    <3>1. CASE g = G
      <4>1. (2 * G) * Z = 2 * (G * Z)
        BY <1>2
      <4> QED
        BY <1>7, <3>1, <4>1
    <3>2. CASE g = -G
      <4>1. (2 * (-G)) * Z = -(2 * (G * Z))
        BY <1>2
      <4> QED
        BY <1>7, <3>2, <4>1
    <3> QED
      BY <1>8, <3>1, <3>2
  <2> QED
    BY <1>2, <2>1, <2>2, <2>3
<1>10. 2 * E * g <= S * H
  <2> HIDE DEF G, g
  <2>1. 2 * E * g = ((2 * g) * Z) * S
    <3>1. 2 * (S * Z) * g = ((2 * g) * Z) * S
      BY <1>8
    <3> QED
      BY <3>1
  <2>2. (2 * g) * Z \in Int
    BY <1>8
  <2>3. ((2 * g) * Z) * S <= H * S /\ H * S = S * H
    BY <1>2, <1>9, <2>2, Scales
  <2> QED
    BY <2>1, <2>3
<1> QED
  BY <1>2, <1>10

\* What LoggedExactly says of the text of the number n.
Prints(n, precision, text) ==
  LET d     == text.decimals
      scale == 10^Len(d)
      real  == Magnitude(Value(n)) * scale
      is    == (text.whole * scale + Read(d)) * 2^Point
      unit  == 10^Digits(precision)
  IN /\ text.negative <=> n.raw < 0
     /\ d # <<>> => d[Len(d)] # 0
     /\ Len(d) <= Digits(precision)
     /\ IF Digits(precision) = 0
        THEN is <= real /\ real < is + 2^Point
        ELSE 2 * unit * Magnitude(real - is) <= scale * 2^Point

LEMMA MagnitudeOfValue ==
  ASSUME NEW n \in Numbers
  PROVE  Magnitude(Value(n)) = Magnitude(n.raw) * 2^n.shift
<1> DEFINE r == n.raw
           B == 2^n.shift
<1>1. r \in Int /\ B \in Nat /\ B > 0 /\ Value(n) = r * B
  BY NumberFacts
<1> HIDE DEF r, B
<1>2. CASE r < 0
  <2>1. r * B < 0 * B /\ 0 * B = 0 /\ -(r * B) = (-r) * B
    BY <1>1, <1>2, Scales
  <2>2. Value(n) < 0 /\ Magnitude(r) = -r
    BY <1>1, <1>2, <2>1 DEF Magnitude
  <2>3. Magnitude(Value(n)) = -(r * B)
    BY <1>1, <2>2 DEF Magnitude
  <2> QED
    BY <2>1, <2>2, <2>3 DEF r, B
<1>3. CASE ~(r < 0)
  <2>1. r * B \in Nat
    BY <1>1, <1>3
  <2>2. Magnitude(r) = r /\ Magnitude(r * B) = r * B
    BY <1>3, <2>1 DEF Magnitude
  <2> QED
    BY <1>1, <2>2 DEF r, B
<1> QED
  BY <1>2, <1>3

LEMMA DigitsOf ==
  ASSUME NEW p \in Int
  PROVE  Digits(p) \in 0..MostDigits
BY LogAssumption DEF Digits

LEMMA ToStrPrints ==
  ASSUME NEW n \in Numbers, NEW p \in Int, NEW s, s = ToStr(n, p)
  PROVE  Prints(n, p, s)
<1> DEFINE D == Digits(p)
           v == Decimals(n, D)
           d == Trimmed(v)
           K == Unit(n)
           B == 2^n.shift
           M == Magnitude(n.raw)
           W == M \div K
           R == M % K
           H == 2^Point
           c == Carry(n, D, -1)
           L == Len(d)
           S == 10^L
           real == (M * B) * S
           is == ((W + c) * S + Read(d)) * H
<1>1. D \in 0..MostDigits /\ MostDigits \in Nat
  BY DigitsOf, LogAssumption
<1>2. s.whole = W + c /\ s.decimals = d
  BY DEF ToStr, Whole, Carry, Unit
<1>0. s.negative <=> n.raw < 0
  BY DEF ToStr
<1>3. v \in Seq(Nat) /\ Len(v) = D
  <2> HIDE DEF D
  <2> QED
    BY <1>1, DigitsFit
<1>4. /\ d \in Seq(Nat) /\ L <= D /\ L \in Nat
      /\ d # <<>> => d[L] # 0
  <2> HIDE DEF v, D
  <2>1. d \in Seq(Nat) /\ Len(d) <= Len(v) /\ (d # <<>> => d[Len(d)] # 0)
    BY <1>3, TrimmedIs
  <2> QED
    BY <1>3, <2>1
<1>5. /\ K \in Nat /\ K > 0 /\ H = B * K /\ B \in Nat /\ B > 0 /\ M \in Nat
      /\ W \in Nat /\ R \in Nat /\ R < K /\ M = W * K + R
  BY UnitFacts, NumberFacts
<1>6. Magnitude(Value(n)) * S = real
  BY MagnitudeOfValue
<1>7. c \in Nat
  BY DEF Carry
<1>10. SUFFICES IF D = 0 THEN is <= real /\ real < is + H
                ELSE 2 * 10^D * Magnitude(real - is) <= S * H
  <2> SUFFICES ASSUME IF D = 0 THEN is <= real /\ real < is + H
                      ELSE 2 * 10^D * Magnitude(real - is) <= S * H
               PROVE  Prints(n, p, s)
    OBVIOUS
  <2>1. /\ 10^Len(s.decimals) = S
        /\ Magnitude(Value(n)) * 10^Len(s.decimals) = real
        /\ (s.whole * 10^Len(s.decimals) + Read(s.decimals)) * 2^Point = is
    BY <1>2, <1>6
  <2>2. /\ s.decimals # <<>> => s.decimals[Len(s.decimals)] # 0
        /\ Len(s.decimals) <= Digits(p)
    BY <1>2, <1>4
  <2> HIDE DEF real, is, S, d, c, v
  <2> QED
    BY <1>0, <2>1, <2>2 DEF Prints
<1>8. CASE D = 0
  <2>1. c = 0
    BY <1>8 DEF Carry, Carries, RoundsUp
  <2>2. L = 0 /\ d = <<>>
    BY <1>4, <1>8
  <2>3. S = 10^0
    BY <2>2
  <2>4. S = 1
    BY <2>3
  <2>5. Read(d) = 0
    <3> DEFINE f == [k \in 0..0 |-> 0]
    <3>1. Reads(f, <<>>)
      BY DEF Reads
    <3>2. <<>> \in Seq(Nat) /\ Len(<<>>) = 0
      OBVIOUS
    <3>3. Read(<<>>) = f[0]
      BY <3>1, <3>2, ReadIs
    <3> QED
      BY <2>2, <3>3
  <2>6. is <= real /\ real < is + H
    <3> DEFINE a == Read(d)
    <3>1. a = 0
      BY <2>5
    <3> HIDE DEF a, S, c, W, R, K, B, M, H
    <3>2. is = W * H /\ real = M * B
      BY <1>5, <2>1, <2>4, <3>1 DEF a
    <3>3. M * B = W * (B * K) + R * B
      BY <1>5
    <3>4. R * B < K * B /\ K * B = H /\ R * B \in Nat
      BY <1>5, Scales
    <3>5. W * H \in Nat /\ H \in Nat
      BY <1>5
    <3> DEFINE x == R * B
               y == W * H
    <3>6. is = y /\ real = y + x /\ x < H /\ x \in Nat /\ y \in Nat
      BY <1>5, <3>2, <3>3, <3>4, <3>5
    <3> HIDE DEF x, y, is, real
    <3> QED
      BY <3>5, <3>6
  <2> QED
    BY <1>8, <2>6
<1>9. CASE D # 0
  <2> DEFINE E == 10^D
             z == D - L
             Z == 10^z
             h == Read(d)
             y == h * Z
  <2>1. PICK f : Reads(f, Plain(n, D))
    <3>1. Plain(n, D) \in Seq(Nat)
      BY <1>1, DigitsFit
    <3> QED
      BY <3>1, ReadingExists
  <2>2. PICK g : Reads(g, v)
    BY <1>3, ReadingExists
  <2> DEFINE x == f[D]
             r == Rest(n, D)
             u == Carry(n, D, D - 1)
  <2>3. R * E = x * K + r /\ x \in Nat
    <3>1. D \in 0..D
      BY <1>1
    <3>2. R * E = x * K + r
      BY <1>1, <2>1, <3>1, PlainReads
    <3>3. x \in Nat
      <4>1. Len(Plain(n, D)) = D
        BY <1>1, DigitsFit
      <4> QED
        BY <2>1, <3>1, <4>1 DEF Reads
    <3> QED
      BY <3>2, <3>3
  <2>4. x + u = g[D] + E * c
    <3>1. D \in 0..D
      BY <1>1
    <3> HIDE DEF D, v
    <3> QED
      BY <1>1, <2>1, <2>2, <3>1, CarriedReads DEF v
  <2>5. z \in Nat /\ h \in Nat /\ g[D] = y
    <3>1. Len(v) <= MostDigits /\ z = Len(v) - Len(d)
      BY <1>1, <1>3
    <3> HIDE DEF D, v, z
    <3>2. z \in Nat /\ Read(d) \in Nat /\ g[Len(v)] = Read(d) * 10^z
      BY <1>3, <2>2, <3>1, TrimmedReads
    <3> QED
      BY <1>3, <3>2
  <2>6. E \in Nat /\ S \in Nat /\ Z \in Nat /\ S * Z = E
    <3>1. L + z = D /\ L + z <= MostDigits /\ L \in 0..MostDigits /\ z \in 0..MostDigits
      <4>1. D \in Nat /\ MostDigits \in Nat /\ D <= MostDigits
        BY <1>1
      <4>2. L \in Nat
        BY <1>4
      <4>3. z = D - L /\ z \in Nat
        BY <2>5
      <4> HIDE DEF D, L, z
      <4> QED
        BY <4>1, <4>2, <4>3
    <3> HIDE DEF D, L, z
    <3>2. 10^(L + z) = 10^L * 10^z
      BY <1>4, <2>5, <3>1, TenSum
    <3> QED
      BY <1>1, <3>1, <3>2, Tens
  <2>7. r \in Nat /\ r < K /\ (u = 1 => 2 * r >= K) /\ (u = 0 => 2 * r <= K) /\ u \in {0, 1}
    <3> DEFINE q == Digit(n, D)
               e == Rest(n, D + 1)
    <3>1. q \in 0..9 /\ r \in Nat /\ r < K /\ 10 * r = q * K + e
      BY <1>1, NextDigit
    <3>2. u = IF q >= 5 THEN 1 ELSE 0
      <4>1. (D - 1) + 1 = D /\ D > 0 /\ ~\E j \in D..(D - 1) : TRUE
        BY <1>1, <1>9
      <4>2. Carries(n, D, D - 1) <=> q >= 5
        BY <4>1 DEF Carries, RoundsUp
      <4> QED
        BY <4>2 DEF Carry
    <3>3. e \in Nat /\ e < K
      <4> DEFINE X == R * 10^(D + 1)
      <4>1. e = X % K
        BY DEF Rest, Unit
      <4>2. X \in Int
        <5>1. 10^(D + 1) \in Nat /\ R \in Int
          <6>1. R \in Int
            BY <1>5
          <6> HIDE DEF D, R
          <6>2. 10^D \in Nat /\ 10^(D + 1) = 10 * 10^D
            BY <1>1, Tens
          <6> QED
            BY <6>1, <6>2
        <5> DEFINE P == 10^(D + 1)
        <5>2. P \in Nat
          BY <5>1
        <5> HIDE DEF P, R
        <5> QED
          BY <5>1, <5>2 DEF P
      <4> HIDE DEF X, K
      <4> QED
        BY <1>5, <4>1, <4>2, DivMod
    <3> HIDE DEF q, e, r, K, u
    <3>4. CASE q >= 5
      <4>1. 5 * K <= q * K /\ q * K \in Int
        BY <1>5, <3>1, <3>4, Scales
      <4> QED
        BY SMTT(60), <1>5, <3>1, <3>2, <3>3, <3>4, <4>1
    <3>5. CASE ~(q >= 5)
      <4>1. (q + 1) * K <= 5 * K /\ (q + 1) * K = q * K + K /\ q * K \in Int
        BY <1>5, <3>1, <3>5, Scales
      <4> QED
        BY SMTT(60), <1>5, <3>1, <3>2, <3>3, <3>5, <4>1
    <3> QED
      BY <3>4, <3>5
  <2>8. 2 * E * Magnitude(real - is) <= S * H
    <3>1. x + u = y + E * c /\ is = ((W + c) * S + h) * H
      BY <2>4, <2>5
    <3>2. y = h * Z /\ y \in Nat
      <4>1. y = h * Z
        OBVIOUS
      <4> HIDE DEF h, Z
      <4> QED
        BY <2>5, <2>6, <4>1
    <3>3. real = (M * B) * S
      OBVIOUS
    <3>4. r \in Nat /\ r < K /\ u \in {0, 1} /\ (u = 1 => 2 * r >= K) /\ (u = 0 => 2 * r <= K)
      BY <2>7
    <3>5. E \in Nat /\ S \in Nat /\ Z \in Nat /\ S * Z = E
      BY <2>6
    <3>6. R * E = x * K + r /\ x \in Nat /\ h \in Nat
      BY <2>3, <2>5
    <3> HIDE DEF real, is, x, y, u, r, h, Z, E, S, c, W, R, M, K, B, H
    <3>7. Rounding(M, K, W, R, E, S, Z, x, r, u, h, c)
      BY <1>5, <1>7, <3>1, <3>2, <3>4, <3>5, <3>6 DEF Rounding
    <3> QED
      BY <1>5, <3>1, <3>3, <3>7, RoundedNear
  <2> QED
    BY <1>9, <2>8
<1> QED
  BY <1>8, <1>9

(***************************************************************************)
(* The precision                                                           *)
(***************************************************************************)
\* One thread logs at a time.
KeepsLogRules == AllLogRules \subseteq LogRules

\* What a thread at l prints, with the static variable q.
Logs(l, q) ==
  \/ l.step = "quiet"
  \/ /\ l.step = "set" /\ l.number \in Numbers /\ l.precision \in Precisions
     /\ q = l.precision
     /\ DOMAIN l = {"step", "number", "precision", "text"}
  \/ /\ l.step = "written" /\ l.number \in Numbers /\ l.precision \in Precisions
     /\ l.text = ToStr(l.number, l.precision)

\* The static variable is the precision of the one thread that logs.
LogInv ==
  /\ DOMAIN logging = Loggers
  /\ \A t \in Loggers : Logs(logging[t], logPrecision)
  /\ \A t, u \in Loggers : logging[t].step # "quiet" /\ logging[u].step # "quiet" => t = u

LEMMA LogInitInv == LogInit => LogInv
BY DEF LogInit, LogInv, Logs, Quiet

LEMMA LogSet ==
  ASSUME KeepsLogRules, LogInv, NEW t \in Loggers, SetPrecision(t)
  PROVE  LogInv'
<1>1. \A u \in Loggers : logging[u].step = "quiet"
  BY DEF KeepsLogRules, AllLogRules, SetPrecision
<1>2. PICK n \in Numbers, p \in Precisions :
        /\ logging' = [logging EXCEPT ![t] = [step |-> "set", number |-> n,
                                              precision |-> p, text |-> NoText]]
        /\ logPrecision' = p
  BY DEF SetPrecision
<1>3. DOMAIN logging' = Loggers /\ \A u \in Loggers \ {t} : logging'[u] = logging[u]
  BY <1>2 DEF LogInv
<1>4. logging'[t] = [step |-> "set", number |-> n, precision |-> p, text |-> NoText]
  BY <1>2 DEF LogInv
<1>5. Logs(logging'[t], logPrecision')
  BY <1>2, <1>4 DEF Logs
<1>6. \A u \in Loggers \ {t} : logging'[u].step = "quiet"
  BY <1>1, <1>3
<1>7. \A u \in Loggers : Logs(logging'[u], logPrecision')
  BY <1>5, <1>6 DEF Logs
<1> QED
  BY <1>3, <1>6, <1>7 DEF LogInv

LEMMA LogDescription ==
  ASSUME LogInv, NEW t \in Loggers, CDescription(t)
  PROVE  LogInv'
<1>1. /\ logging[t].step = "set" /\ logging[t].number \in Numbers
      /\ logging[t].precision \in Precisions /\ logPrecision = logging[t].precision
      /\ DOMAIN logging[t] = {"step", "number", "precision", "text"}
  BY DEF CDescription, LogInv, Logs
<1> DEFINE l == [logging[t] EXCEPT !.step = "written",
                                   !.text = ToStr(logging[t].number, logPrecision)]
<1>2. logging' = [logging EXCEPT ![t] = l] /\ logPrecision' = logPrecision
  BY DEF CDescription, LogInv
<1>3. /\ l.step = "written" /\ l.number = logging[t].number
      /\ l.precision = logging[t].precision /\ l.text = ToStr(l.number, l.precision)
  BY <1>1
<1> HIDE DEF l
<1>4. DOMAIN logging' = Loggers /\ logging'[t] = l
  BY <1>2 DEF LogInv
<1>5. \A u \in Loggers \ {t} : logging'[u] = logging[u] /\ logging[u].step = "quiet"
  BY <1>1, <1>2 DEF LogInv
<1>6. Logs(l, logPrecision')
  BY <1>1, <1>3 DEF Logs
<1>7. \A u \in Loggers : Logs(logging'[u], logPrecision')
  BY <1>4, <1>5, <1>6 DEF Logs
<1> QED
  BY <1>4, <1>5, <1>7 DEF LogInv

LEMMA LogReset ==
  ASSUME LogInv, NEW t \in Loggers, ResetPrecision(t)
  PROVE  LogInv'
<1>1. logging[t].step = "written"
  BY DEF ResetPrecision
<1>2. DOMAIN logging' = Loggers /\ logging'[t].step = "quiet"
  BY DEF ResetPrecision, LogInv, Quiet
<1>3. \A u \in Loggers \ {t} : logging'[u].step = "quiet"
  BY <1>1 DEF ResetPrecision, LogInv
<1> QED
  BY <1>2, <1>3 DEF LogInv, Logs

\* Under the rule of one thread that logs at a time, the static variable holds the precision
\* of the format that thread prints until its text is written, and a text is that of the
\* thread's own number and precision (OZLog's precision, cDescription).
THEOREM LogInvariance == KeepsLogRules => (Spec => []LogInv)
<1> SUFFICES ASSUME KeepsLogRules
             PROVE  Spec => []LogInv
  OBVIOUS
<1>1. Init => LogInv
  BY LogInitInv DEF Init
<1>2. LogInv /\ [Next]_vars => LogInv'
  <2> SUFFICES ASSUME LogInv, [Next]_vars
               PROVE  LogInv'
    OBVIOUS
  <2>1. CASE UNCHANGED logVars
    BY <2>1 DEF logVars, LogInv
  <2>2. CASE LogNext
    BY <2>2, LogSet, LogDescription, LogReset DEF LogNext
  <2> QED
    BY <2>1, <2>2 DEF Next, vars
<1> QED
  BY <1>1, <1>2, PTL DEF Spec

\* Under that rule a thread prints its number rounded to the decimals of its own format, cut
\* off if it has none, whatever the width of numbers and however many decimals there may be
\* (_oz_q31_to_str, OZLog).
THEOREM AlwaysLoggedExactly == KeepsLogRules => (Spec => []LoggedExactly)
<1> SUFFICES ASSUME KeepsLogRules
             PROVE  Spec => []LoggedExactly
  OBVIOUS
<1>1. LogInv => LoggedExactly
  <2> SUFFICES ASSUME LogInv, NEW t \in Loggers, logging[t].step = "written"
               PROVE  Prints(logging[t].number, logging[t].precision, logging[t].text)
    BY DEF LoggedExactly, Prints
  <2> QED
    BY LogAssumption, ToStrPrints DEF LogInv, Logs
<1> QED
  BY <1>1, LogInvariance, PTL

(***************************************************************************)
(* The types                                                               *)
(***************************************************************************)
\* Positions, lengths, capacities, mantissas and shifts keep to their widths, in
\* programs of any text, for sizes and mantissas of any width.
THEOREM AlwaysTyped ==
  KeepsCollectionRules /\ KeepsStringRules /\ KeepsNumberRules => (Spec => []TypeOK)
<1> SUFFICES ASSUME KeepsCollectionRules, KeepsStringRules, KeepsNumberRules
             PROVE  Spec => []TypeOK
  OBVIOUS
<1>1. Spec => []CollectionTypeOK
  BY CollectionsTyped
<1>2. Spec => []StringInv
  BY StringInvariance
<1>3. Spec => []NumberInv
  BY NumberInvariance
<1>4. StringInv => StringTypeOK
  BY DEF StringInv
<1>5. NumberInv => NumberTypeOK
  <2> SUFFICES ASSUME NumberInv PROVE NumberTypeOK
    OBVIOUS
  <2>1. {left, right} \subseteq Numbers \cup {NoNumber}
    BY DEF NumberInv
  <2>2. asked # NoNumber => asked.num \in Int /\ asked.den \in Nat \ {0}
    BY DEF NumberInv, Exact
  <2> QED
    BY <2>1, <2>2 DEF NumberTypeOK
<1>6. CollectionTypeOK /\ StringTypeOK /\ NumberTypeOK => TypeOK
  BY DEF TypeOK
<1> QED
  BY <1>1, <1>2, <1>3, <1>4, <1>5, <1>6, PTL
================================================================================

---------------------------- MODULE OZMutableString ----------------------------
(***************************************************************************)
(* OZMutableString: characters and a terminator in a buffer that doubles,  *)
(* with sizes that are unsigned integers of Width bits.                    *)
(***************************************************************************)
EXTENDS Naturals, Sequences

CONSTANTS
  Strings,     \* the C strings and the immutable strings of the program
  Capacities,  \* what initWithCapacity: is given
  Smallest,    \* the least capacity, 16 in the code
  Width,
  StringRules,
  Itself,      \* a string that is given to its own method
  NULL

AllStringRules == {"fits", "not itself"}

End  == "end"
Junk == "junk"

Characters == UNION {{s[i] : i \in 1..Len(s)} : s \in Strings}

\* The powers are arithmetic that the provers do not know.
ASSUME StringAssumption ==
  /\ Smallest \in Nat \ {0} /\ Width \in Nat \ {0} /\ Smallest < 2^Width
  /\ 2^(Width - 1) \in Nat \ {0} /\ 2^Width = 2 * 2^(Width - 1)
  /\ Capacities \subseteq 0..(2^Width - 1)
  /\ Strings \subseteq Seq(Characters) /\ {End, Junk} \cap Characters = {}
  /\ NULL \notin Seq(Characters) /\ Itself \notin Strings
  /\ StringRules \subseteq AllStringRules

VARIABLES
  phase,     \* "none", "idle", "grow" or "copy"
  data,      \* what is in the buffer
  length, capacity,
  at, src,   \* where the running method copies to, and its argument
  newCapacity

stringVars == <<phase, data, length, capacity, at, src, newCapacity>>

Unsigned(n) == n % 2^Width
Buffer(n) == [i \in 1..n |-> Junk]

\* memcpy to an offset of the buffer.
Copy(buffer, offset, chars) ==
  [i \in 1..(IF offset + Len(chars) > Len(buffer) THEN offset + Len(chars) ELSE Len(buffer)) |->
     IF i \in (offset + 1)..(offset + Len(chars)) THEN chars[i - offset] ELSE buffer[i]]

StringInit ==
  /\ phase = "none" /\ data = <<>> /\ length = 0 /\ capacity = 0
  /\ at = 0 /\ src = NULL /\ newCapacity = 0

(***************************************************************************)
(* Creation                                                                *)
(***************************************************************************)
\* Without memory the initializers return nil.
Start(s, n) ==
  \/ /\ phase' = "idle"
     /\ data' = Copy(Buffer(n), 0, s \o <<End>>)
     /\ length' = Len(s) /\ capacity' = n
     /\ UNCHANGED <<at, src, newCapacity>>
  \/ UNCHANGED stringVars

FirstCapacity(n) == IF n < Smallest THEN Smallest ELSE Unsigned(n * 2)

InitWithCString ==
  /\ phase = "none"
  /\ \E s \in Strings :
       /\ "fits" \in StringRules => 2 * Len(s) < 2^Width
       /\ Start(s, FirstCapacity(Len(s)))

InitWithCapacity ==
  /\ phase = "none"
  /\ \E n \in Capacities : Start(<<>>, IF n < Smallest THEN Smallest ELSE n)

(***************************************************************************)
(* appendCString: and setString:                                           *)
(***************************************************************************)
\* The text that a method reads, and its length.
Length(s) == IF s = Itself THEN length ELSE Len(s)

\* A method writes s at an offset; the buffer grows if it is too small.
Write(s, offset) ==
  LET needed == Unsigned(Unsigned(offset + Length(s)) + 1)
  IN /\ "fits" \in StringRules => offset + Length(s) + 1 <= 2^(Width - 1)
     /\ at' = offset /\ src' = s
     /\ newCapacity' = capacity
     /\ phase' = IF needed > capacity THEN "grow" ELSE "copy"
     /\ UNCHANGED <<data, length, capacity>>

Arguments == Strings \cup (IF "not itself" \in StringRules THEN {} ELSE {Itself})

\* NULL and the empty string return at once.
AppendCString ==
  /\ phase = "idle"
  /\ \E s \in Arguments : Length(s) > 0 /\ Write(s, length)

\* Mutant: the terminator stays where it was.
SetNothingLengthOnly ==
  /\ phase = "idle"
  /\ length' = 0
  /\ UNCHANGED <<phase, data, capacity, at, src, newCapacity>>

\* setString:nil.
SetNothing ==
  /\ phase = "idle"
  /\ data' = [data EXCEPT ![1] = End] /\ length' = 0
  /\ UNCHANGED <<phase, capacity, at, src, newCapacity>>

SetString ==
  /\ phase = "idle"
  /\ \E s \in Arguments : Write(s, 0)

Needed == Unsigned(Unsigned(at + Length(src)) + 1)

\* Mutant: the loop compares with the length without the terminator.
DoubleShort ==
  /\ phase = "grow"
  /\ IF newCapacity < Unsigned(at + Length(src))
     THEN newCapacity' = Unsigned(newCapacity * 2) /\ UNCHANGED phase
     ELSE phase' = "copy" /\ UNCHANGED newCapacity
  /\ UNCHANGED <<data, length, capacity, at, src>>

\* Mutant: the loop doubles what the string has.
DoubleAgain ==
  /\ phase = "grow"
  /\ IF newCapacity < Needed
     THEN newCapacity' = Unsigned(capacity * 2) /\ UNCHANGED phase
     ELSE phase' = "copy" /\ UNCHANGED newCapacity
  /\ UNCHANGED <<data, length, capacity, at, src>>

Double ==
  /\ phase = "grow"
  /\ IF newCapacity < Needed
     THEN newCapacity' = Unsigned(newCapacity * 2) /\ UNCHANGED phase
     ELSE phase' = "copy" /\ UNCHANGED newCapacity
  /\ UNCHANGED <<data, length, capacity, at, src>>

\* What is copied.  The string itself is gone when the buffer has grown, and
\* else its terminator is overwritten before it is copied.
Source ==
  IF src # Itself THEN src \o <<End>>
  ELSE IF newCapacity > capacity THEN Buffer(length + 1)
  ELSE IF at = 0 THEN SubSeq(data, 1, length + 1)
  ELSE SubSeq(data, 1, length) \o <<data[1]>>

\* Mutant: appending loses what was there when the buffer grows.
MovedNothing == Buffer(newCapacity)

\* A buffer that has grown has the old characters in front of the new ones.
Moved == IF newCapacity = capacity THEN data
         ELSE Copy(Buffer(newCapacity), 0, SubSeq(data, 1, at))

Idle == /\ phase' = "idle" /\ at' = 0 /\ src' = NULL /\ newCapacity' = 0

Finish ==
  /\ phase = "copy"
  /\ data' = Copy(Moved, at, Source)
  /\ length' = Unsigned(at + Length(src)) /\ capacity' = newCapacity
  /\ Idle

\* malloc fails, and the method returns.
OutOfMemory ==
  /\ phase = "copy" /\ newCapacity > capacity
  /\ Idle
  /\ UNCHANGED <<data, length, capacity>>

Dealloc ==
  /\ phase = "idle"
  /\ phase' = "none" /\ data' = <<>> /\ length' = 0 /\ capacity' = 0
  /\ UNCHANGED <<at, src, newCapacity>>

StringNext ==
  \/ InitWithCString \/ InitWithCapacity
  \/ AppendCString \/ SetNothing \/ SetString
  \/ Double \/ Finish \/ OutOfMemory \/ Dealloc

\* A method that has begun goes on.
StringFairness == WF_stringVars(Double \/ Finish \/ OutOfMemory)

(***************************************************************************)
(* Type correctness                                                        *)
(***************************************************************************)
\* Lengths and capacities are unsigned integers of Width bits.
StringTypeOK ==
  /\ phase \in {"none", "idle", "grow", "copy"}
  /\ {length, capacity, newCapacity} \subseteq 0..(2^Width - 1)
  /\ data \in Seq(Characters \cup {End, Junk}) /\ Len(data) = capacity

(***************************************************************************)
(* Properties                                                              *)
(***************************************************************************)
\* Between methods the terminator is at _length, inside the buffer, and there
\* is none before it: strlen, cString and length agree (appendCString:,
\* setString:).
Terminated ==
  phase # "none" => /\ length < capacity
                    /\ data[length + 1] = End
                    /\ \A i \in 1..length : data[i] \notin {End, Junk}

\* A method that runs writes a text to the start or the end of the string, and
\* the buffer that it copies to has room for the text and a terminator.
Writing ==
  phase \in {"grow", "copy"} =>
    /\ src \in Strings /\ at \in {0, length}
    /\ at + Len(src) + 1 <= 2^(Width - 1)
    /\ newCapacity >= capacity
    /\ phase = "copy" => newCapacity > at + Len(src)

\* The characters are those of a text that is extended and replaced at once.
Text == INSTANCE OZText
  WITH text <- IF phase = "none" THEN NULL ELSE SubSeq(data, 1, length), NoText <- NULL
ImplementsText == Text!TextSpec

\* The loop that doubles the capacity ends.
DoublingEnds == phase = "grow" ~> phase # "grow"
=============================================================================

--------------------------------- MODULE OZLog ---------------------------------
(***************************************************************************)
(* OZLog(): the precision of a %@ is handed to the number's cDescription   *)
(* in a static variable.                                                   *)
(***************************************************************************)
EXTENDS OZQ31, Sequences

CONSTANTS
  Loggers,      \* threads that log
  Precisions,   \* of the formats; -1 is none
  MostDigits,   \* 14 in the code
  LogRules,
  NoText

AllLogRules == {"one logger"}

\* The last conjunct is what the powers of ten are.
ASSUME LogAssumption ==
  /\ MostDigits \in Nat \ {0} /\ Precisions \subseteq Int
  /\ \A n \in 0..MostDigits : 10^(n + 1) = 10 * 10^n

VARIABLES
  logPrecision,  \* the static variable
  logging        \* what each thread prints, and how far it is

logVars == <<logPrecision, logging>>

Quiet == [step |-> "quiet", number |-> NoNumber, precision |-> -1, text |-> NoText]

(***************************************************************************)
(* _oz_q31_to_str()                                                        *)
(***************************************************************************)
\* cDescription replaces no precision by the most; the conversion clamps.
Digits(precision) ==
  IF precision < 0 \/ precision > MostDigits THEN MostDigits ELSE precision

\* The digit at place i, counted from 0.
Digit(n, i) ==
  LET unit == 2^(Point - n.shift)
      rest == ((Magnitude(n.raw) % unit) * 10^i) % unit
  IN (10 * rest) \div unit

RoundsUp(n, digits) == digits > 0 /\ Digit(n, digits) >= 5

\* The carry reaches place i if only nines follow it.
Carries(n, digits, i) ==
  RoundsUp(n, digits) /\ \A j \in (i + 1)..(digits - 1) : Digit(n, j) = 9

\* Mutant: the carry stops at the point.
WholeAlone(n, digits) == Magnitude(n.raw) \div 2^(Point - n.shift)

Whole(n, digits) ==
  (Magnitude(n.raw) \div 2^(Point - n.shift)) + (IF Carries(n, digits, -1) THEN 1 ELSE 0)

Decimals(n, digits) ==
  [i \in 1..digits |-> (Digit(n, i - 1) + (IF Carries(n, digits, i - 1) THEN 1 ELSE 0)) % 10]

\* Zeros at the end are not written.
Trimmed(decimals) ==
  SubSeq(decimals, 1,
         CHOOSE k \in 0..Len(decimals) :
           /\ \A i \in (k + 1)..Len(decimals) : decimals[i] = 0
           /\ k = 0 \/ decimals[k] # 0)

ToStr(n, precision) ==
  [negative |-> n.raw < 0,
   whole |-> Whole(n, Digits(precision)),
   decimals |-> Trimmed(Decimals(n, Digits(precision)))]

(***************************************************************************)
(* OZLog(), as far as it prints a number                                   *)
(***************************************************************************)
LogInit == logPrecision = -1 /\ logging = [t \in Loggers |-> Quiet]

SetPrecision(t) ==
  /\ logging[t].step = "quiet"
  /\ "one logger" \in LogRules => \A u \in Loggers : logging[u].step = "quiet"
  /\ \E n \in Numbers, p \in Precisions :
       /\ logging' = [logging EXCEPT ![t] = [step |-> "set", number |-> n,
                                             precision |-> p, text |-> NoText]]
       /\ logPrecision' = p

CDescription(t) ==
  /\ logging[t].step = "set"
  /\ logging' = [logging EXCEPT ![t].step = "written",
                                ![t].text = ToStr(logging[t].number, logPrecision)]
  /\ UNCHANGED logPrecision

ResetPrecision(t) ==
  /\ logging[t].step = "written"
  /\ logging' = [logging EXCEPT ![t] = Quiet]
  /\ logPrecision' = -1

LogNext == \E t \in Loggers : SetPrecision(t) \/ CDescription(t) \/ ResetPrecision(t)

(***************************************************************************)
(* Properties                                                              *)
(***************************************************************************)
\* Decimals read as an integer.
Read(decimals) ==
  LET read[k \in 0..Len(decimals)] ==
        IF k = 0 THEN 0 ELSE 10 * read[k - 1] + decimals[k]
  IN read[Len(decimals)]

\* Every thread prints its number rounded to the decimals of its own format (cut off
\* if it has none), and no zero at the end (_oz_q31_to_str, OZLog).
LoggedExactly ==
  \A t \in Loggers : logging[t].step = "written" =>
    LET l     == logging[t]
        d     == l.text.decimals
        scale == 10^Len(d)
        real  == Magnitude(Value(l.number)) * scale        \* in units of 2^-Point / scale
        text  == (l.text.whole * scale + Read(d)) * 2^Point
        unit  == 10^Digits(l.precision)
    IN /\ l.text.negative <=> l.number.raw < 0
       /\ d # <<>> => d[Len(d)] # 0
       /\ Len(d) <= Digits(l.precision)
       /\ IF Digits(l.precision) = 0
          THEN text <= real /\ real < text + 2^Point
          ELSE 2 * unit * Magnitude(real - text) <= scale * 2^Point
=============================================================================

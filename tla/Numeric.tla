------------------------------ MODULE Numeric ------------------------------
(***************************************************************************)
(* str_to_int8 ... str_to_uint64 of src/common/numeric.c: a text to an     *)
(* integer of a given type, by way of strtoll or strtoull.  Texts are      *)
(* sequences of bytes.                                                     *)
(***************************************************************************)
EXTENDS Integers, Sequences, FiniteSets

CONSTANT Width      \* the bits of each integer type; of long long, those of INT64

SignedTypes == {"INT8", "INT16", "INT32", "INT64"}
UnsignedTypes == {"UINT8", "UINT16", "UINT32", "UINT64"}
IntegerTypes == SignedTypes \cup UnsignedTypes

ASSUME WidthAssumption ==
  /\ \A t \in IntegerTypes : Width[t] \in Nat \ {0} /\ Width[t] <= Width["INT64"]
  /\ Width["UINT64"] = Width["INT64"]

TypeMin(t) == IF t \in SignedTypes THEN -(2 ^ (Width[t] - 1)) ELSE 0
TypeMax(t) == IF t \in SignedTypes THEN 2 ^ (Width[t] - 1) - 1 ELSE 2 ^ Width[t] - 1

PLUS_SIGN == 43
MINUS_SIGN == 45
Numeral(c) == c \in 48..57
IsSpace(c) == c = 32 \/ c \in 9..13

\* Where the run of characters of a class that begins at i ends.
RunEnd(text, i, InClass(_)) ==
  CHOOSE j \in i .. Len(text) + 1 :
    /\ \A k \in i .. j - 1 : InClass(text[k])
    /\ j <= Len(text) => ~InClass(text[j])

DecimalValue(digits) ==
  LET value[n \in 0 .. Len(digits)] ==
        IF n = 0 THEN 0 ELSE 10 * value[n - 1] + digits[n] - 48
  IN  value[Len(digits)]

\* What strtoll and strtoull find: white space, a sign, and digits.
Number(text) ==
  LET sign == RunEnd(text, 1, IsSpace)
      signed == sign <= Len(text) /\ text[sign] \in {PLUS_SIGN, MINUS_SIGN}
      first == IF signed THEN sign + 1 ELSE sign
      last == RunEnd(text, first, Numeral) - 1
  IN  [found |-> first <= last,
       negative |-> signed /\ text[sign] = MINUS_SIGN,
       magnitude |-> DecimalValue(SubSeq(text, first, last))]

\* strtoll: the number; ERANGE when a long long cannot hold it.
Strtoll(text) ==
  LET n == Number(text)
      value == IF n.negative THEN -n.magnitude ELSE n.magnitude
  IN  [found |-> n.found, value |-> value,
       erange |-> value \notin TypeMin("INT64") .. TypeMax("INT64")]

\* strtoull: the magnitude decides on ERANGE, and a minus negates the unsigned value.
Strtoull(text) ==
  LET n == Number(text)
  IN  [found |-> n.found,
       value |-> IF n.negative THEN (-n.magnitude) % 2 ^ Width["UINT64"] ELSE n.magnitude,
       erange |-> n.magnitude > TypeMax("UINT64")]

Failed(status) == [status |-> status, value |-> 0]

\* Slip: the minimum itself is refused.
InRangeStrict(t, value) ==
  IF TypeMin(t) >= value THEN Failed("EXCEEDS_MIN")
  ELSE IF TypeMax(t) < value THEN Failed("EXCEEDS_MAX")
  ELSE [status |-> "OK", value |-> value]

\* The checks against the type's own bounds.  For an unsigned type the first one
\* compares an unsigned value with 0, and never fails.
InRange(t, value) ==
  IF TypeMin(t) > value THEN Failed("EXCEEDS_MIN")
  ELSE IF TypeMax(t) < value THEN Failed("EXCEEDS_MAX")
  ELSE [status |-> "OK", value |-> value]

\* str_to_<t>: *out is written only when the status is OK.
Convert(t, text) ==
  LET dirty == IF t \in SignedTypes THEN Strtoll(text) ELSE Strtoull(text)
  IN  IF ~dirty.found THEN Failed("INVALID")
      ELSE IF dirty.erange THEN Failed("EXCEEDS_RANGE")
      ELSE InRange(t, dirty.value)

-----------------------------------------------------------------------------
(* The reference *)

\* The number that the digits of a text spell: each times its power of ten.
Spelled(text) ==
  LET digits == {i \in DOMAIN text : Numeral(text[i])}
      ten[n \in 0 .. Len(text)] == IF n = 0 THEN 1 ELSE 10 * ten[n - 1]
      Weight(i) == ten[Cardinality({j \in digits : j > i})]
      sum[i \in 0 .. Len(text)] ==
        IF i = 0 THEN 0
        ELSE sum[i - 1] + (IF i \in digits THEN (text[i] - 48) * Weight(i) ELSE 0)
  IN  sum[Len(text)]

=============================================================================

---------------------------- MODULE Numeric_proofs ----------------------------
(***************************************************************************)
(* The conversions of a text to an integer, for all texts and all widths:  *)
(* what strtoll and strtoull find in a numeral is the number it spells,    *)
(* and the result says exactly when the type cannot hold it.               *)
(***************************************************************************)
EXTENDS Numeric, Recursion_proofs, FiniteSetTheorems, SequenceTheorems

(***************************************************************************)
(* Powers of two                                                           *)
(***************************************************************************)

\* A power of two counts the subsets of an interval.
LEMMA PowerCounts ==
  ASSUME NEW n \in Nat
  PROVE  /\ IsFiniteSet(SUBSET (1 .. n))
         /\ 2 ^ n = Cardinality(SUBSET (1 .. n))
         /\ 2 ^ n \in Nat
  <1>1. IsFiniteSet(1 .. n) /\ Cardinality(1 .. n) = n
    <2>1. 1 \in Int /\ n \in Int
      OBVIOUS
    <2>2. Cardinality(1 .. n) = IF 1 > n THEN 0 ELSE n - 1 + 1
      BY <2>1, FS_Interval
    <2>3. QED
      BY <2>1, <2>2, FS_Interval
  <1>2. IsFiniteSet(SUBSET (1 .. n)) /\ Cardinality(SUBSET (1 .. n)) = 2 ^ n
    BY <1>1, FS_SUBSET
  <1>3. QED
    BY <1>2, FS_CardinalityType

\* So it is positive, and grows with its exponent.
LEMMA PowersGrow ==
  ASSUME NEW m \in Nat, NEW n \in Nat, m <= n
  PROVE  2 ^ m \in Nat /\ 2 ^ n \in Nat /\ 1 <= 2 ^ m /\ 2 ^ m <= 2 ^ n
  <1>1. ASSUME NEW i \in Nat, NEW j \in Nat, i <= j PROVE 2 ^ i <= 2 ^ j
    <2>1. SUBSET (1 .. i) \in SUBSET SUBSET (1 .. j)
      BY <1>1
    <2>2. Cardinality(SUBSET (1 .. i)) <= Cardinality(SUBSET (1 .. j))
      BY <2>1, PowerCounts, FS_Subset
    <2>3. QED
      BY <2>2, PowerCounts
  <1>2. 2 ^ 0 = 1
    OBVIOUS
  <1>3. 2 ^ 0 <= 2 ^ m
    <2>1. 0 \in Nat /\ 0 <= m
      OBVIOUS
    <2>2. QED
      BY <1>1, <2>1
  <1>4. 2 ^ m <= 2 ^ n
    BY <1>1
  <1>5. QED
    BY <1>2, <1>3, <1>4, PowerCounts

(***************************************************************************)
(* The widths of the types                                                 *)
(***************************************************************************)

\* No type holds what long long, or the unsigned one, does not.
LEMMA RangesNest ==
  ASSUME NEW t \in IntegerTypes
  PROVE  /\ TypeMin(t) \in Int /\ TypeMax(t) \in Int
         /\ TypeMin(t) <= 0 /\ 0 <= TypeMax(t)
         /\ t \in SignedTypes => /\ TypeMin("INT64") <= TypeMin(t)
                                 /\ TypeMax(t) <= TypeMax("INT64")
         /\ t \notin SignedTypes => TypeMin(t) = 0 /\ TypeMax(t) <= TypeMax("UINT64")
         /\ 2 ^ Width["UINT64"] \in Nat \ {0}
  <1>1. /\ Width[t] \in Nat \ {0} /\ Width["INT64"] \in Nat \ {0} /\ Width[t] <= Width["INT64"]
        /\ Width["UINT64"] = Width["INT64"]
    BY WidthAssumption DEF IntegerTypes, SignedTypes, UnsignedTypes
  <1>2. "INT64" \in SignedTypes /\ "UINT64" \notin SignedTypes
    BY DEF SignedTypes
  <1> DEFINE w == Width[t]
             l == Width["INT64"]
  <1>3. w - 1 \in Nat /\ l - 1 \in Nat /\ w \in Nat /\ l \in Nat /\ w - 1 <= l - 1 /\ w <= l
    BY <1>1
  <1> DEFINE a == 2 ^ (w - 1)
             b == 2 ^ (l - 1)
             c == 2 ^ w
             d == 2 ^ l
  <1>4. /\ a \in Nat /\ b \in Nat /\ c \in Nat /\ d \in Nat
        /\ 1 <= a /\ a <= b /\ 1 <= c /\ c <= d
    <2> HIDE DEF w, l
    <2>1. QED
      BY <1>3, PowersGrow
  <1>5. /\ t \in SignedTypes => TypeMin(t) = -a /\ TypeMax(t) = a - 1
        /\ t \notin SignedTypes => TypeMin(t) = 0 /\ TypeMax(t) = c - 1
        /\ TypeMin("INT64") = -b /\ TypeMax("INT64") = b - 1 /\ TypeMax("UINT64") = d - 1
        /\ 2 ^ Width["UINT64"] = d
    BY <1>1, <1>2 DEF TypeMin, TypeMax
  <1> HIDE DEF a, b, c, d, w, l
  <1>6. QED
    BY <1>4, <1>5

(***************************************************************************)
(* The value of digits                                                     *)
(***************************************************************************)

\* The loops of DecimalValue and Spelled: the value of the first n digits, a power of ten, and
\* the weighted sum over the first i characters.
IsValue(digits, value) ==
  /\ value[0] = 0
  /\ \A n \in 1 .. Len(digits) : value[n] = 10 * value[n - 1] + digits[n] - 48
  /\ \A n \in 0 .. Len(digits) : value[n] \in Int

IsTen(ten, N) ==
  /\ ten[0] = 1
  /\ \A n \in 1 .. N : ten[n] = 10 * ten[n - 1]
  /\ \A n \in 0 .. N : ten[n] \in Int

\* DecimalValue runs the first of them.
LEMMA DecimalRuns ==
  ASSUME NEW digits \in Seq(Int)
  PROVE  \E value : IsValue(digits, value) /\ DecimalValue(digits) = value[Len(digits)]
  <1> DEFINE L == Len(digits)
             Next == [xi \in Int \X (1 .. L) |-> 10 * xi[1] + digits[xi[2]] - 48]
             value == CHOOSE f : f = [n \in 0 .. L |->
                                       IF n = 0 THEN 0 ELSE 10 * f[n - 1] + digits[n] - 48]
  <1>1. L \in Nat /\ \A i \in 1 .. L : digits[i] \in Int
    OBVIOUS
  <1>2. DecimalValue(digits) = value[L]
    BY DEF DecimalValue
  <1>3. \A x \in Int : \A i \in 1 .. L :
          Next[<<x, i>>] = 10 * x + digits[i] - 48 /\ Next[<<x, i>>] \in Int
    BY <1>1
  <1> HIDE DEF Next, L
  <1>4. PICK f : /\ f = [i \in 0 .. L |-> IF i = 0 THEN 0 ELSE Next[<<f[i - 1], i>>]]
                 /\ f \in [0 .. L -> Int]
    <2>1. 0 \in Int
      OBVIOUS
    <2>2. \A x \in Int : \A i \in 1 .. L : Next[<<x, i>>] \in Int
      BY <1>3
    <2>3. Loops(L, Int, 0, Next)
      BY <1>1, <2>1, <2>2, LoopExists
    <2>4. QED
      BY <2>3 DEF Loops
  <1>5. f = [n \in 0 .. L |-> IF n = 0 THEN 0 ELSE 10 * f[n - 1] + digits[n] - 48]
    <2>1. \A n \in 0 .. L : n # 0 => n - 1 \in 0 .. L /\ n \in 1 .. L
      BY <1>1
    <2>2. \A n \in 0 .. L : n # 0 => Next[<<f[n - 1], n>>] = 10 * f[n - 1] + digits[n] - 48
      BY <1>3, <1>4, <2>1
    <2>3. QED
      BY <1>4, <2>2
  <1>6. value = [n \in 0 .. L |-> IF n = 0 THEN 0 ELSE 10 * value[n - 1] + digits[n] - 48]
    BY <1>5
  <1> HIDE DEF value
  <1>7. value[0] = 0 /\ \A n \in 1 .. L : value[n] = 10 * value[n - 1] + digits[n] - 48
    <2>1. 0 \in 0 .. L /\ \A n \in 1 .. L : n \in 0 .. L /\ n # 0
      BY <1>1
    <2>2. QED
      BY <1>6, <2>1
  <1>8. \A n \in 0 .. L : value[n] \in Int
    <2>1. ASSUME NEW n \in 1 .. L, value[n - 1] \in Int PROVE value[n] \in Int
      <3>1. value[n] = 10 * value[n - 1] + digits[n] - 48 /\ digits[n] \in Int
        BY <1>1, <1>7
      <3>2. \A x, y \in Int : 10 * x + y - 48 \in Int
        OBVIOUS
      <3>3. QED
        BY <2>1, <3>1, <3>2
    <2>2. value[0] \in Int
      BY <1>7
    <2>3. \A n \in 1 .. L : value[n - 1] \in Int => value[n] \in Int
      BY <2>1
    <2>4. QED
      BY <1>1, <2>2, <2>3, LoopStays
  <1>9. QED
    BY <1>2, <1>7, <1>8 DEF IsValue, L


\* There are powers of ten up to any exponent.
LEMMA TensExist ==
  ASSUME NEW N \in Nat
  PROVE  \E ten : /\ ten = [n \in 0 .. N |-> IF n = 0 THEN 1 ELSE 10 * ten[n - 1]]
                  /\ IsTen(ten, N)
  <1> DEFINE Next == [xi \in Int \X (1 .. N) |-> 10 * xi[1]]
  <1>1. \A x \in Int : \A i \in 1 .. N : Next[<<x, i>>] = 10 * x /\ Next[<<x, i>>] \in Int
    OBVIOUS
  <1> HIDE DEF Next
  <1>2. PICK f : /\ f = [i \in 0 .. N |-> IF i = 0 THEN 1 ELSE Next[<<f[i - 1], i>>]]
                 /\ f \in [0 .. N -> Int]
    <2>1. 1 \in Int
      OBVIOUS
    <2>2. \A x \in Int : \A i \in 1 .. N : Next[<<x, i>>] \in Int
      BY <1>1
    <2>3. Loops(N, Int, 1, Next)
      BY <2>1, <2>2, LoopExists
    <2>4. QED
      BY <2>3 DEF Loops
  <1>3. f = [n \in 0 .. N |-> IF n = 0 THEN 1 ELSE 10 * f[n - 1]]
    <2>1. \A n \in 0 .. N : n # 0 => n - 1 \in 0 .. N /\ n \in 1 .. N
      OBVIOUS
    <2>2. \A n \in 0 .. N : n # 0 => Next[<<f[n - 1], n>>] = 10 * f[n - 1]
      BY <1>1, <1>2, <2>1
    <2>3. QED
      BY <1>2, <2>2
  <1>4. IsTen(f, N)
    <2>1. 0 \in 0 .. N /\ \A n \in 1 .. N : n \in 0 .. N /\ n # 0
      OBVIOUS
    <2>2. f[0] = 1 /\ \A n \in 1 .. N : f[n] = 10 * f[n - 1]
      BY <1>3, <2>1
    <2>3. \A n \in 0 .. N : f[n] \in Int
      BY <1>2
    <2>4. QED
      BY <2>2, <2>3 DEF IsTen
  <1>5. QED
    BY <1>3, <1>4

\* The weighted sum of the digits of a text that are its characters from a to b.
IsSum(s, a, b, ten, sum) ==
  /\ sum[0] = 0
  /\ \A i \in 1 .. Len(s) :
       sum[i] = sum[i - 1] + (IF i \in a .. b THEN (s[i] - 48) * ten[b - i] ELSE 0)
  /\ \A i \in 0 .. Len(s) : sum[i] \in Int

\* The digits of a text, if they are its characters from a to b.
DigitsAre(s, a, b) ==
  /\ a \in 1 .. Len(s) + 1 /\ b \in 0 .. Len(s) /\ a <= b + 1
  /\ \A i \in 1 .. Len(s) : Numeral(s[i]) <=> i \in a .. b

\* Spelled runs such a sum: behind the digit i there are b - i more.
LEMMA SpelledRuns ==
  ASSUME NEW s \in Seq(Int), NEW a \in Int, NEW b \in Int, DigitsAre(s, a, b)
  PROVE  \E ten, sum : IsTen(ten, Len(s)) /\ IsSum(s, a, b, ten, sum) /\ Spelled(s) = sum[Len(s)]
  <1> DEFINE N == Len(s)
             digits == {i \in DOMAIN s : Numeral(s[i])}
             ten == CHOOSE f : f = [n \in 0 .. N |-> IF n = 0 THEN 1 ELSE 10 * f[n - 1]]
             Weight(i) == ten[Cardinality({j \in digits : j > i})]
             sum == CHOOSE f : f = [i \in 0 .. N |->
                      IF i = 0 THEN 0
                      ELSE f[i - 1] + (IF i \in digits THEN (s[i] - 48) * Weight(i) ELSE 0)]
  <1>1. N \in Nat /\ DOMAIN s = 1 .. N /\ \A i \in 1 .. N : s[i] \in Int
    OBVIOUS
  <1>2. Spelled(s) = sum[N]
    BY DEF Spelled
  <1>3. digits = a .. b
    BY <1>1 DEF DigitsAre
  <1>4. /\ ten = [n \in 0 .. N |-> IF n = 0 THEN 1 ELSE 10 * ten[n - 1]]
        /\ IsTen(ten, N)
    <2>1. PICK f : /\ f = [n \in 0 .. N |-> IF n = 0 THEN 1 ELSE 10 * f[n - 1]]
                   /\ IsTen(f, N)
      BY <1>1, TensExist
    <2>2. ten = [n \in 0 .. N |-> IF n = 0 THEN 1 ELSE 10 * ten[n - 1]]
      BY <2>1
    <2> HIDE DEF ten
    <2>3. ten[0] = 1 /\ \A n \in 1 .. N : ten[n] = 10 * ten[n - 1]
      <3>1. 0 \in 0 .. N /\ \A n \in 1 .. N : n \in 0 .. N /\ n # 0
        BY <1>1
      <3>2. QED
        BY <2>2, <3>1
    <2>4. \A n \in 0 .. N : ten[n] \in Int
      <3>1. \A n \in 1 .. N : ten[n - 1] \in Int => ten[n] \in Int
        BY <2>3
      <3>2. ten[0] \in Int
        BY <2>3
      <3>3. QED
        BY <1>1, <3>1, <3>2, LoopStays
    <2>5. QED
      BY <2>2, <2>3, <2>4 DEF IsTen
  <1> HIDE DEF ten, digits
  <1>5. ASSUME NEW i \in a .. b PROVE Weight(i) = ten[b - i]
    <2>1. i \in Int /\ b \in Int /\ i + 1 \in Int /\ i <= b
      OBVIOUS
    <2>2. {j \in digits : j > i} = (i + 1) .. b
      BY <1>3
    <2>3. Cardinality((i + 1) .. b) = IF i + 1 > b THEN 0 ELSE b - (i + 1) + 1
      BY <2>1, FS_Interval
    <2>4. Cardinality((i + 1) .. b) = b - i
      BY <2>1, <2>3
    <2>5. QED
      BY <2>2, <2>4
  <1>6. \A i \in 1 .. N : i \in a .. b => b - i \in 0 .. N
    BY <1>1 DEF DigitsAre
  <1> DEFINE Gain == [i \in 1 .. N |-> IF i \in a .. b THEN (s[i] - 48) * ten[b - i] ELSE 0]
  <1>7. ASSUME NEW i \in 1 .. N
        PROVE  /\ Gain[i] = IF i \in a .. b THEN (s[i] - 48) * ten[b - i] ELSE 0
               /\ Gain[i] = IF i \in digits THEN (s[i] - 48) * Weight(i) ELSE 0
               /\ Gain[i] \in Int
    <2>1. Gain[i] = IF i \in a .. b THEN (s[i] - 48) * ten[b - i] ELSE 0
      OBVIOUS
    <2>2. Gain[i] = IF i \in digits THEN (s[i] - 48) * Weight(i) ELSE 0
      BY <1>3, <1>5
    <2>3. Gain[i] \in Int
      <3>1. CASE i \in a .. b
        <4>1. ten[b - i] \in Int /\ s[i] \in Int
          BY <1>1, <1>4, <1>6, <3>1 DEF IsTen
        <4>2. \A x, y \in Int : (x - 48) * y \in Int
          OBVIOUS
        <4>3. QED
          BY <2>1, <3>1, <4>1, <4>2
      <3>2. CASE i \notin a .. b
        BY <2>1, <3>2
      <3>3. QED
        BY <3>1, <3>2
    <2>4. QED
      BY <2>1, <2>2, <2>3
  <1> HIDE DEF Gain, Weight
  <1>8. sum = [i \in 0 .. N |->
                 IF i = 0 THEN 0
                 ELSE sum[i - 1] + (IF i \in digits THEN (s[i] - 48) * Weight(i) ELSE 0)]
    <2> DEFINE Next == [xi \in Int \X (1 .. N) |-> xi[1] + Gain[xi[2]]]
    <2>1. \A x \in Int : \A i \in 1 .. N :
            Next[<<x, i>>] = x + Gain[i] /\ Next[<<x, i>>] \in Int
      BY <1>7
    <2> HIDE DEF Next
    <2>2. PICK f : /\ f = [i \in 0 .. N |-> IF i = 0 THEN 0 ELSE Next[<<f[i - 1], i>>]]
                   /\ f \in [0 .. N -> Int]
      <3>1. 0 \in Int
        OBVIOUS
      <3>2. \A x \in Int : \A i \in 1 .. N : Next[<<x, i>>] \in Int
        BY <2>1
      <3>3. Loops(N, Int, 0, Next)
        BY <1>1, <3>1, <3>2, LoopExists
      <3>4. QED
        BY <3>3 DEF Loops
    <2>3. \A i \in 0 .. N : i # 0 => i - 1 \in 0 .. N /\ i \in 1 .. N
      BY <1>1
    <2>4. \A i \in 0 .. N : i # 0 =>
            Next[<<f[i - 1], i>>]
              = f[i - 1] + (IF i \in digits THEN (s[i] - 48) * Weight(i) ELSE 0)
      <3> SUFFICES ASSUME NEW i \in 0 .. N, i # 0
                   PROVE  Next[<<f[i - 1], i>>]
                            = f[i - 1] + (IF i \in digits THEN (s[i] - 48) * Weight(i) ELSE 0)
        OBVIOUS
      <3>1. i \in 1 .. N /\ f[i - 1] \in Int
        BY <2>2, <2>3
      <3>2. Next[<<f[i - 1], i>>] = f[i - 1] + Gain[i]
        BY <2>1, <3>1
      <3>3. Gain[i] = IF i \in digits THEN (s[i] - 48) * Weight(i) ELSE 0
        BY <1>7, <3>1
      <3>4. QED
        BY <3>2, <3>3
    <2>5. f = [i \in 0 .. N |->
                 IF i = 0 THEN 0
                 ELSE f[i - 1] + (IF i \in digits THEN (s[i] - 48) * Weight(i) ELSE 0)]
      BY <2>2, <2>4
    <2>6. QED
      BY <2>5
  <1> HIDE DEF sum
  <1>9. sum[0] = 0 /\ \A i \in 1 .. N : sum[i] = sum[i - 1] + Gain[i]
    <2>1. 0 \in 0 .. N /\ \A i \in 1 .. N : i \in 0 .. N /\ i # 0
      BY <1>1
    <2>2. QED
      BY <1>7, <1>8, <2>1
  <1>10. \A i \in 0 .. N : sum[i] \in Int
    <2>1. ASSUME NEW i \in 1 .. N, sum[i - 1] \in Int PROVE sum[i] \in Int
      <3>1. sum[i] = sum[i - 1] + Gain[i] /\ Gain[i] \in Int
        BY <1>7, <1>9
      <3>2. QED
        BY <2>1, <3>1
    <2>2. sum[0] \in Int
      BY <1>9
    <2>3. QED
      BY <1>1, <2>1, <2>2, LoopStays
  <1>11. IsSum(s, a, b, ten, sum)
    BY <1>7, <1>9, <1>10 DEF IsSum
  <1>12. QED
    BY <1>2, <1>4, <1>11

\* The sum of the weighted digits is the value that the loop over them computes.
LEMMA SpelledIsValue ==
  ASSUME NEW s \in Seq(Int), NEW a \in Int, NEW b \in Int, DigitsAre(s, a, b)
  PROVE  Spelled(s) = DecimalValue(SubSeq(s, a, b))
  <1> DEFINE N == Len(s)
             m == b - a + 1
             digits == SubSeq(s, a, b)
  <1>1. N \in Nat /\ m \in 0 .. N /\ a \in 1 .. N + 1 /\ b \in 0 .. N /\ a <= b + 1
    BY DEF DigitsAre
  <1>2. digits \in Seq(Int) /\ Len(digits) = m /\ \A n \in 1 .. m : digits[n] = s[a - 1 + n]
    <2>1. \A i \in a .. b : s[i] \in Int
      BY <1>1
    <2>2. digits \in Seq(Int) /\ Len(digits) = IF a <= b THEN b - a + 1 ELSE 0
      BY <1>1, <2>1, SubSeqProperties
    <2>3. Len(digits) = m
      BY <1>1, <2>2
    <2>4. ASSUME NEW n \in 1 .. m PROVE digits[n] = s[a - 1 + n]
      <3>1. a <= b /\ n \in 1 .. (b - a + 1) /\ a + n - 1 = a - 1 + n
        BY <1>1
      <3>2. digits[n] = s[a + n - 1]
        BY <1>1, <2>1, <3>1, SubSeqProperties
      <3>3. QED
        BY <3>1, <3>2
    <2>5. QED
      BY <2>2, <2>3, <2>4
  <1>3. PICK ten, sum : IsTen(ten, N) /\ IsSum(s, a, b, ten, sum) /\ Spelled(s) = sum[N]
    BY SpelledRuns
  <1> HIDE DEF digits
  <1>4. PICK value : IsValue(digits, value) /\ DecimalValue(digits) = value[m]
    BY <1>2, DecimalRuns
  <1>5. \A i \in 1 .. N : s[i] \in Int
    OBVIOUS
  <1> HIDE DEF N, m
  <1>6. /\ sum[0] = 0 /\ \A i \in 0 .. N : sum[i] \in Int
        /\ \A i \in 1 .. N : i \in a .. b => sum[i] = sum[i - 1] + (s[i] - 48) * ten[b - i]
        /\ \A i \in 1 .. N : i \notin a .. b => sum[i] = sum[i - 1]
    <2>1. \A x \in Int : x + 0 = x
      OBVIOUS
    <2>2. \A i \in 1 .. N : i - 1 \in 0 .. N
      BY <1>1
    <2>3. QED
      BY <1>3, <2>1, <2>2 DEF IsSum, N
  <1>7. \A i \in 0 .. a - 1 : sum[i] = 0
    <2> DEFINE P == {i \in Nat : sum[i] = 0}
    <2>1. 0 \in P
      BY <1>6
    <2>2. ASSUME NEW i \in 0 .. (a - 1) - 1, i \in P PROVE i + 1 \in P
      <3>1. i + 1 \in 1 .. N /\ i + 1 \notin a .. b /\ (i + 1) - 1 = i
        BY <1>1
      <3>2. QED
        BY <1>6, <2>2, <3>1
    <2>3. a - 1 \in Nat
      BY <1>1
    <2> HIDE DEF P
    <2>4. \A i \in 0 .. a - 1 : i \in P
      BY <2>1, <2>2, <2>3, NumbersUpTo
    <2>5. QED
      BY <2>4 DEF P
  <1>8. \A n \in 0 .. m : sum[a - 1 + n] = value[n] * ten[m - n]
    <2> DEFINE P == {n \in 0 .. m : sum[a - 1 + n] = value[n] * ten[m - n]}
    <2>1. 0 \in P
      <3>1. a - 1 \in 0 .. a - 1 /\ a - 1 + 0 = a - 1 /\ 0 \in 0 .. m /\ m - 0 = m /\ m \in 0 .. N
        BY <1>1
      <3>2. value[0] = 0 /\ ten[m] \in Int
        BY <1>3, <1>4, <3>1 DEF IsValue, IsTen
      <3>3. QED
        BY <1>7, <3>1, <3>2
    <2>2. ASSUME NEW n \in 0 .. m - 1, n \in P PROVE n + 1 \in P
      <3> DEFINE i == a + n
                 t == ten[m - (n + 1)]
                 v == value[n]
                 d == digits[n + 1]
      <3>1. /\ i \in 1 .. N /\ i \in a .. b /\ i - 1 = a - 1 + n /\ a - 1 + (n + 1) = i
            /\ b - i = m - (n + 1) /\ n + 1 \in 0 .. m /\ n + 1 \in 1 .. m /\ (n + 1) - 1 = n
            /\ m - n \in 1 .. N /\ (m - n) - 1 = m - (n + 1) /\ m - (n + 1) \in 0 .. N /\ n \in 0 .. m
        BY <1>1 DEF m
      <3>2. sum[i] = sum[i - 1] + (s[i] - 48) * t /\ d = s[i] /\ d \in Int
        <4>1. sum[i] = sum[i - 1] + (s[i] - 48) * ten[b - i]
          BY <1>6, <3>1
        <4>2. d = s[i]
          BY <1>2, <3>1
        <4>3. s[i] \in Int
          BY <1>5, <3>1
        <4>4. QED
          BY <3>1, <4>1, <4>2, <4>3
      <3>3. sum[i - 1] = v * ten[m - n] /\ ten[m - n] = 10 * t /\ t \in Int
        BY <1>3, <2>2, <3>1 DEF IsTen
      <3>4. v \in Int /\ value[n + 1] = 10 * v + d - 48
        BY <1>2, <1>4, <3>1 DEF IsValue
      <3> HIDE DEF i, t, v, d
      <3> DEFINE old == v * (10 * t) + (d - 48) * t
                 new == (10 * v + d - 48) * t
      <3>5. v \in Int /\ d \in Int /\ t \in Int
        BY <3>2, <3>3, <3>4
      <3>6. old = new
        BY <3>5
      <3>7. sum[i] = value[n + 1] * t
        <4>1. sum[i] = old
          BY <3>2, <3>3
        <4>2. new = value[n + 1] * t
          BY <3>4
        <4> HIDE DEF old, new
        <4>3. QED
          BY <3>6, <4>1, <4>2, Zenon
      <3>8. QED
        BY <3>1, <3>7 DEF t
    <2>3. m \in Nat
      BY <1>1
    <2> HIDE DEF P
    <2>4. \A n \in 0 .. m : n \in P
      BY <2>1, <2>2, <2>3, NumbersUpTo
    <2>5. QED
      BY <2>4 DEF P
  <1>9. sum[b] = value[m]
    <2>1. m \in 0 .. m /\ a - 1 + m = b /\ m - m = 0
      BY <1>1 DEF m
    <2>2. ten[0] = 1 /\ value[m] \in Int
      BY <1>2, <1>3, <1>4, <2>1 DEF IsTen, IsValue
    <2>3. sum[b] = value[m] * 1
      BY <1>8, <2>1, <2>2
    <2>4. QED
      BY <2>2, <2>3
  <1>10. \A i \in 0 .. N - b : sum[b + i] = sum[b]
    <2> DEFINE P == {i \in Nat : sum[b + i] = sum[b]}
    <2>1. 0 \in P
      BY <1>1
    <2>2. ASSUME NEW i \in 0 .. (N - b) - 1, i \in P PROVE i + 1 \in P
      <3>1. b + (i + 1) \in 1 .. N /\ b + (i + 1) \notin a .. b /\ (b + (i + 1)) - 1 = b + i
        BY <1>1
      <3>2. QED
        BY <1>6, <2>2, <3>1
    <2>3. N - b \in Nat
      BY <1>1
    <2> HIDE DEF P
    <2>4. \A i \in 0 .. N - b : i \in P
      BY <2>1, <2>2, <2>3, NumbersUpTo
    <2>5. QED
      BY <2>4 DEF P
  <1>11. sum[N] = sum[b]
    <2>1. N - b \in 0 .. N - b /\ b + (N - b) = N
      BY <1>1
    <2>2. QED
      BY <1>10, <2>1
  <1>12. QED
    BY <1>3, <1>4, <1>9, <1>11 DEF digits


(***************************************************************************)
(* A number in a text                                                      *)
(***************************************************************************)

\* The value of digits is not negative.
LEMMA ValueNatural ==
  ASSUME NEW digits \in Seq(48 .. 57)
  PROVE  DecimalValue(digits) \in Nat
  <1> DEFINE L == Len(digits)
  <1>1. L \in Nat /\ \A i \in 1 .. L : digits[i] \in 48 .. 57
    OBVIOUS
  <1>2. digits \in Seq(Int)
    <2>1. \A x \in 48 .. 57 : x \in Int
      OBVIOUS
    <2>2. QED
      BY <1>1, <2>1
  <1>3. PICK value : IsValue(digits, value) /\ DecimalValue(digits) = value[L]
    BY <1>2, DecimalRuns
  <1> HIDE DEF L
  <1>4. value[0] \in Nat
    BY <1>3 DEF IsValue
  <1>5. ASSUME NEW n \in 1 .. L, value[n - 1] \in Nat PROVE value[n] \in Nat
    <2>1. value[n] = 10 * value[n - 1] + digits[n] - 48 /\ digits[n] \in 48 .. 57
      BY <1>1, <1>3 DEF IsValue, L
    <2>2. \A x \in Nat : \A y \in 48 .. 57 : 10 * x + y - 48 \in Nat
      OBVIOUS
    <2>3. QED
      BY <1>5, <2>1, <2>2
  <1>6. \A n \in 0 .. L : value[n] \in Nat
    BY <1>1, <1>4, <1>5, LoopStays
  <1>7. QED
    BY <1>1, <1>3, <1>6

\* White space up to p, a sign at p or none, digits from a to b, and no digit behind them.
NumeralAt(text, p, a, b) ==
  /\ p \in 1 .. Len(text) /\ ~IsSpace(text[p])
  /\ \A k \in 1 .. p - 1 : IsSpace(text[k])
  /\ a = IF text[p] \in {PLUS_SIGN, MINUS_SIGN} THEN p + 1 ELSE p
  /\ a \in 1 .. Len(text) /\ b \in a .. Len(text)
  /\ \A k \in a .. b : Numeral(text[k])
  /\ b < Len(text) => ~Numeral(text[b + 1])

\* What is found in it.
LEMMA NumberFound ==
  ASSUME NEW text \in Seq(Int), NEW p \in Int, NEW a \in Int, NEW b \in Int,
         NumeralAt(text, p, a, b)
  PROVE  /\ Number(text) = [found |-> TRUE, negative |-> text[p] = MINUS_SIGN,
                            magnitude |-> DecimalValue(SubSeq(text, a, b))]
         /\ DecimalValue(SubSeq(text, a, b)) \in Nat
  <1> DEFINE N == Len(text)
  <1>1. /\ N \in Nat /\ p \in 1 .. N /\ a \in 1 .. N /\ b \in a .. N
        /\ \A k \in 1 .. N : text[k] \in Int
    BY DEF NumeralAt
  <1>2. RunEnd(text, 1, IsSpace) = p
    <2> DEFINE End(j) == /\ \A k \in 1 .. j - 1 : IsSpace(text[k])
                         /\ j <= Len(text) => ~IsSpace(text[j])
    <2>1. p \in 1 .. N + 1 /\ End(p)
      BY <1>1 DEF NumeralAt
    <2>2. ASSUME NEW j \in 1 .. N + 1, End(j) PROVE j = p
      <3>1. ~ (j < p)
        <4>1. j < p => j \in 1 .. p - 1 /\ j <= N
          BY <1>1
        <4>2. QED
          BY <2>2, <4>1 DEF NumeralAt
      <3>2. ~ (p < j)
        <4>1. p < j => p \in 1 .. j - 1
          BY <1>1
        <4>2. QED
          BY <2>2, <4>1 DEF NumeralAt
      <3>3. QED
        BY <1>1, <3>1, <3>2
    <2> HIDE DEF End
    <2>3. p = CHOOSE j \in 1 .. N + 1 : End(j)
      BY <2>1, <2>2
    <2>4. QED
      BY <2>3 DEF RunEnd, End
  <1>3. RunEnd(text, a, Numeral) = b + 1
    <2> DEFINE End(j) == /\ \A k \in a .. j - 1 : Numeral(text[k])
                         /\ j <= Len(text) => ~Numeral(text[j])
    <2>1. b + 1 \in a .. N + 1 /\ End(b + 1)
      <3>1. (b + 1) - 1 = b /\ (b + 1 <= N <=> b < N)
        BY <1>1
      <3>2. QED
        BY <1>1, <3>1 DEF NumeralAt
    <2>2. ASSUME NEW j \in a .. N + 1, End(j) PROVE j = b + 1
      <3>1. ~ (j < b + 1)
        <4>1. j < b + 1 => j \in a .. b /\ j <= N
          BY <1>1
        <4>2. QED
          BY <2>2, <4>1 DEF NumeralAt
      <3>2. ~ (b + 1 < j)
        <4>1. b + 1 < j => b + 1 \in a .. j - 1 /\ b < N
          BY <1>1
        <4>2. QED
          BY <2>2, <4>1 DEF NumeralAt
      <3>3. QED
        BY <1>1, <3>1, <3>2
    <2> HIDE DEF End
    <2>3. b + 1 = CHOOSE j \in a .. N + 1 : End(j)
      BY <2>1, <2>2
    <2>4. QED
      BY <2>3 DEF RunEnd, End
  <1>4. p <= Len(text) /\ (b + 1) - 1 = b /\ a <= b
    BY <1>1
  <1>5. /\ a = IF text[p] \in {PLUS_SIGN, MINUS_SIGN} THEN p + 1 ELSE p
        /\ text[p] = MINUS_SIGN => text[p] \in {PLUS_SIGN, MINUS_SIGN}
    BY DEF NumeralAt
  <1>6. Number(text) = [found |-> TRUE, negative |-> text[p] = MINUS_SIGN,
                        magnitude |-> DecimalValue(SubSeq(text, a, b))]
    BY <1>2, <1>3, <1>4, <1>5 DEF Number
  <1>7. SubSeq(text, a, b) \in Seq(48 .. 57)
    <2>1. \A k \in a .. b : text[k] \in 48 .. 57
      BY DEF NumeralAt, Numeral
    <2>2. QED
      BY <2>1, SubSeqProperties
  <1>8. QED
    BY <1>6, <1>7, ValueNatural

\* A text without digits holds no number.
LEMMA NoNumber ==
  ASSUME NEW text \in Seq(Int), \A k \in 1 .. Len(text) : ~Numeral(text[k])
  PROVE  Number(text).found = FALSE
  <1> DEFINE N == Len(text)
             sign == RunEnd(text, 1, IsSpace)
             signed == sign <= Len(text) /\ text[sign] \in {PLUS_SIGN, MINUS_SIGN}
             first == IF signed THEN sign + 1 ELSE sign
             last == RunEnd(text, first, Numeral) - 1
  <1>1. N \in Nat
    OBVIOUS
  <1>2. sign \in 1 .. N + 1
    <2> DEFINE T == {j \in 1 .. N + 1 : j <= N => ~IsSpace(text[j])}
               End(j) == /\ \A k \in 1 .. j - 1 : IsSpace(text[k])
                         /\ j <= Len(text) => ~IsSpace(text[j])
    <2>1. T \in SUBSET Nat /\ N + 1 \in T
      BY <1>1
    <2>2. PICK j \in T : \A n \in T : j <= n
      <3> HIDE DEF T
      <3>1. QED
        BY <2>1, LeastNumber
    <2>3. ASSUME NEW k \in 1 .. j - 1 PROVE IsSpace(text[k])
      <3>1. k \in 1 .. N + 1 /\ ~ (j <= k)
        BY <1>1
      <3>2. k \notin T
        BY <2>2, <3>1
      <3>3. QED
        BY <3>1, <3>2
    <2>4. j \in 1 .. N + 1 /\ End(j)
      BY <2>3
    <2>5. sign = CHOOSE i \in 1 .. N + 1 : End(i)
      BY DEF RunEnd
    <2> HIDE DEF End, sign
    <2>6. QED
      BY <2>4, <2>5
  <1> HIDE DEF sign
  <1>3. first \in 1 .. N + 1
    BY <1>1, <1>2
  <1> HIDE DEF first
  <1>4. RunEnd(text, first, Numeral) = first
    <2> DEFINE End(j) == /\ \A k \in first .. j - 1 : Numeral(text[k])
                         /\ j <= Len(text) => ~Numeral(text[j])
    <2>1. first \in first .. N + 1 /\ End(first)
      BY <1>1, <1>3
    <2>2. ASSUME NEW j \in first .. N + 1, End(j) PROVE j = first
      <3>1. first < j => first \in first .. j - 1 /\ first \in 1 .. N
        BY <1>1, <1>3
      <3>2. ~ (first < j)
        BY <2>2, <3>1
      <3>3. QED
        BY <1>3, <3>2
    <2> HIDE DEF End
    <2>3. first = CHOOSE j \in first .. N + 1 : End(j)
      BY <2>1, <2>2
    <2>4. QED
      BY <2>3 DEF RunEnd, End
  <1>5. ~ (first <= last)
    BY <1>3, <1>4
  <1>6. Number(text).found <=> first <= last
    BY DEF Number, sign, first
  <1>7. Number(text).found \in BOOLEAN
    BY DEF Number
  <1>8. QED
    BY <1>5, <1>6, <1>7

(***************************************************************************)
(* The conversions                                                         *)
(***************************************************************************)

\* A text without digits is invalid.
LEMMA ConvertNothing ==
  ASSUME NEW t, NEW text \in Seq(Int), \A k \in 1 .. Len(text) : ~Numeral(text[k])
  PROVE  Convert(t, text) = Failed("INVALID")
  <1>1. Number(text).found = FALSE
    BY NoNumber
  <1>2. Strtoll(text).found = FALSE /\ Strtoull(text).found = FALSE
    BY <1>1 DEF Strtoll, Strtoull
  <1>3. QED
    BY <1>2 DEF Convert

\* What a conversion says of a number: its value, or why the type cannot hold it.
SaysOf(t, n, answer) ==
  IF n \in TypeMin(t) .. TypeMax(t)
  THEN answer = [status |-> "OK", value |-> n]
  ELSE \/ answer = Failed("EXCEEDS_MIN") /\ n < TypeMin(t)
       \/ answer = Failed("EXCEEDS_MAX") /\ n > TypeMax(t)
       \/ answer = Failed("EXCEEDS_RANGE")

\* The value of a numeral.
ValueAt(text, p, a, b) ==
  IF text[p] = MINUS_SIGN THEN -DecimalValue(SubSeq(text, a, b))
  ELSE DecimalValue(SubSeq(text, a, b))

\* The checks against the type's bounds.
LEMMA InRangeSays ==
  ASSUME NEW t \in IntegerTypes, NEW n \in Int
  PROVE  SaysOf(t, n, InRange(t, n))
  <1>1. TypeMin(t) \in Int /\ TypeMax(t) \in Int
    BY RangesNest
  <1>2. QED
    BY <1>1 DEF SaysOf, InRange

\* A conversion answers with the number of the text, unless it is negative and the type is not.
LEMMA ConvertSays ==
  ASSUME NEW t \in IntegerTypes, NEW text \in Seq(Int), NEW p \in Int, NEW a \in Int, NEW b \in Int,
         NumeralAt(text, p, a, b),
         ValueAt(text, p, a, b) >= 0 \/ t \in SignedTypes
  PROVE  ValueAt(text, p, a, b) \in Int /\ SaysOf(t, ValueAt(text, p, a, b), Convert(t, text))
  <1> DEFINE m == DecimalValue(SubSeq(text, a, b))
             neg == text[p] = MINUS_SIGN
             n == IF neg THEN -m ELSE m
  <1>1. Number(text) = [found |-> TRUE, negative |-> neg, magnitude |-> m] /\ m \in Nat
    BY NumberFound
  <1>2. ValueAt(text, p, a, b) = n
    BY DEF ValueAt
  <1> HIDE DEF m, neg
  <1>3. n \in Int
    BY <1>1
  <1>4. /\ TypeMin(t) \in Int /\ TypeMax(t) \in Int /\ TypeMin(t) <= 0 /\ 0 <= TypeMax(t)
        /\ t \in SignedTypes => TypeMin("INT64") <= TypeMin(t) /\ TypeMax(t) <= TypeMax("INT64")
        /\ t \notin SignedTypes => TypeMin(t) = 0 /\ TypeMax(t) <= TypeMax("UINT64")
        /\ 2 ^ Width["UINT64"] \in Nat \ {0}
    BY RangesNest
  <1>5. TypeMin("INT64") \in Int /\ TypeMax("INT64") \in Int /\ TypeMax("UINT64") \in Int
    BY RangesNest DEF IntegerTypes, SignedTypes, UnsignedTypes
  <1>6. CASE t \in SignedTypes
    <2>1. /\ Strtoll(text).found = TRUE /\ Strtoll(text).value = n
          /\ Strtoll(text).erange <=> n \notin TypeMin("INT64") .. TypeMax("INT64")
      <3> DEFINE x == IF Number(text).negative THEN -Number(text).magnitude
                      ELSE Number(text).magnitude
      <3>1. Number(text).found = TRUE /\ Number(text).magnitude = m /\ (Number(text).negative <=> neg)
        BY <1>1
      <3>2. x = n
        BY <3>1
      <3> DEFINE out == x \notin TypeMin("INT64") .. TypeMax("INT64")
      <3>3. /\ Strtoll(text) = [found |-> Number(text).found, value |-> x, erange |-> out]
            /\ out \in BOOLEAN
        BY DEF Strtoll
      <3> HIDE DEF x, n, out
      <3>4. Strtoll(text).found = TRUE /\ Strtoll(text).value = n
        BY <3>1, <3>2, <3>3
      <3>5. Strtoll(text).erange = out
        BY <3>3
      <3>6. Strtoll(text).erange <=> out
        BY <3>5
      <3>7. QED
        BY <3>2, <3>4, <3>6 DEF out
    <2>2. CASE n \in TypeMin("INT64") .. TypeMax("INT64")
      <3>1. Convert(t, text) = InRange(t, n)
        BY <1>6, <2>1, <2>2 DEF Convert
      <3>2. QED
        BY <1>2, <1>3, <3>1, InRangeSays
    <2>3. CASE n \notin TypeMin("INT64") .. TypeMax("INT64")
      <3>1. Convert(t, text) = Failed("EXCEEDS_RANGE")
        BY <1>6, <2>1, <2>3 DEF Convert
      <3>2. n \notin TypeMin(t) .. TypeMax(t)
        <4>1. \A x, lo, hi, l, h \in Int :
                lo <= l /\ h <= hi /\ x \notin lo .. hi => x \notin l .. h
          OBVIOUS
        <4> HIDE DEF n
        <4>2. QED
          BY <1>3, <1>4, <1>5, <1>6, <2>3, <4>1
      <3>3. QED
        BY <1>2, <1>3, <3>1, <3>2 DEF SaysOf
    <2>4. QED
      BY <2>2, <2>3
  <1>7. CASE t \notin SignedTypes
    <2>1. n = m
      <3>1. n >= 0
        BY <1>2, <1>7
      <3>2. QED
        BY <1>1, <3>1
    <2>2. Strtoull(text).found = TRUE /\ Strtoull(text).erange = (m > TypeMax("UINT64"))
      BY <1>1 DEF Strtoull
    <2>3. Strtoull(text).value = m
      <3>1. CASE neg
        <4>1. m = 0 /\ -m = 0
          BY <1>1, <2>1, <3>1
        <4>2. 0 % 2 ^ Width["UINT64"] = 0
          <5>1. \A x \in Nat \ {0} : 0 % x = 0
            OBVIOUS
          <5>2. QED
            BY <1>4, <5>1
        <4>3. Strtoull(text).value = (-m) % 2 ^ Width["UINT64"]
          BY <1>1, <3>1 DEF Strtoull
        <4>4. QED
          BY <4>1, <4>2, <4>3
      <3>2. CASE ~neg
        BY <1>1, <3>2 DEF Strtoull
      <3>3. QED
        BY <3>1, <3>2
    <2>4. CASE m > TypeMax("UINT64")
      <3>1. Convert(t, text) = Failed("EXCEEDS_RANGE")
        BY <1>7, <2>2, <2>4 DEF Convert
      <3>2. n \notin TypeMin(t) .. TypeMax(t)
        BY <1>1, <1>4, <1>5, <1>7, <2>1, <2>4
      <3>3. QED
        BY <1>2, <1>3, <3>1, <3>2 DEF SaysOf
    <2>5. CASE ~ (m > TypeMax("UINT64"))
      <3>1. Convert(t, text) = InRange(t, m)
        BY <1>7, <2>2, <2>3, <2>5 DEF Convert
      <3>2. QED
        BY <1>2, <1>3, <2>1, <3>1, InRangeSays
    <2>6. QED
      BY <2>4, <2>5
  <1>8. QED
    BY <1>6, <1>7

=============================================================================

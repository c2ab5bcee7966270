--------------------------- MODULE PureCalls_proofs ---------------------------
(***************************************************************************)
(* The functions without state, for every argument: a conversion yields    *)
(* the number that its text denotes, or says why the type cannot hold it;  *)
(* a normalized path stays what it is and leads where the path led; a      *)
(* stack trace fills its buffer with the beginning of the whole trace.     *)
(***************************************************************************)
EXTENDS PureCalls, Numeric_proofs

(***************************************************************************)
(* Conversions                                                             *)
(***************************************************************************)

\* The text that is converted.
NumeralText(n) == n.sign \o n.digits \o n.tail

\* What stands where in it.
LEMMA TextLaidOut ==
  ASSUME NEW n \in Numerals
  PROVE  /\ NumeralText(n) \in Seq(Int)
         /\ Len(NumeralText(n)) = Len(n.sign) + Len(n.digits) + Len(n.tail)
         /\ \A k \in 1 .. Len(n.sign) : NumeralText(n)[k] = n.sign[k]
         /\ \A k \in 1 .. Len(n.digits) : NumeralText(n)[Len(n.sign) + k] = n.digits[k]
         /\ \A k \in 1 .. Len(n.tail) :
              NumeralText(n)[Len(n.sign) + Len(n.digits) + k] = n.tail[k]
  <1> DEFINE s == n.sign
             d == n.digits
             r == n.tail
  <1>1. s \in Seq(Int) /\ d \in Seq(Int) /\ r \in Seq(Int)
    <2>1. s \in Seq(Int) /\ d \in Seq(48..57) /\ r \in Seq(Int)
      BY ArgumentsAssumption
    <2>2. 48..57 \subseteq Int
      OBVIOUS
    <2> HIDE DEF s, d, r
    <2>3. d \in Seq(Int)
      BY <2>1, <2>2, SeqMonotonic
    <2>4. QED
      BY <2>1, <2>3
  <1>2. NumeralText(n) = (s \o d) \o r
    BY DEF NumeralText
  <1> HIDE DEF s, d, r
  <1>3. /\ s \o d \in Seq(Int) /\ Len(s \o d) = Len(s) + Len(d)
        /\ \A k \in 1 .. Len(s) + Len(d) :
             (s \o d)[k] = IF k <= Len(s) THEN s[k] ELSE d[k - Len(s)]
    BY <1>1, ConcatProperties
  <1> DEFINE sd == s \o d
  <1>4. /\ sd \o r \in Seq(Int) /\ Len(sd \o r) = Len(sd) + Len(r)
        /\ \A k \in 1 .. Len(sd) + Len(r) :
             (sd \o r)[k] = IF k <= Len(sd) THEN sd[k] ELSE r[k - Len(sd)]
    BY <1>1, <1>3, ConcatProperties
  <1> HIDE DEF sd
  <1>5. Len(s) \in Nat /\ Len(d) \in Nat /\ Len(r) \in Nat
    BY <1>1
  <1>6. Len(sd) = Len(s) + Len(d)
    BY <1>3 DEF sd
  <1>7. ASSUME NEW k \in 1 .. Len(s) PROVE (sd \o r)[k] = s[k]
    <2>1. k \in 1 .. Len(s) + Len(d) /\ k \in 1 .. Len(sd) + Len(r) /\ k <= Len(s) /\ k <= Len(sd)
      BY <1>5, <1>6
    <2>2. sd[k] = s[k]
      BY <1>3, <2>1 DEF sd
    <2>3. QED
      BY <1>4, <2>1, <2>2
  <1>8. ASSUME NEW k \in 1 .. Len(d) PROVE (sd \o r)[Len(s) + k] = d[k]
    <2> DEFINE i == Len(s) + k
    <2>1. /\ i \in 1 .. Len(s) + Len(d) /\ i \in 1 .. Len(sd) + Len(r) /\ ~ (i <= Len(s))
          /\ i <= Len(sd) /\ i - Len(s) = k
      BY <1>5, <1>6
    <2> HIDE DEF i
    <2>2. sd[i] = d[k]
      BY <1>3, <2>1 DEF sd
    <2>3. (sd \o r)[i] = d[k]
      BY <1>4, <2>1, <2>2
    <2>4. QED
      BY <2>3 DEF i
  <1>9. ASSUME NEW k \in 1 .. Len(r) PROVE (sd \o r)[Len(s) + Len(d) + k] = r[k]
    <2> DEFINE i == Len(s) + Len(d) + k
    <2>1. i \in 1 .. Len(sd) + Len(r) /\ ~ (i <= Len(sd)) /\ i - Len(sd) = k
      BY <1>5, <1>6
    <2> HIDE DEF i
    <2>2. (sd \o r)[i] = r[k]
      BY <1>4, <2>1
    <2>3. QED
      BY <2>2 DEF i
  <1>10. NumeralText(n) = sd \o r
    BY <1>2 DEF sd
  <1>11. QED
    BY <1>4, <1>6, <1>7, <1>8, <1>9, <1>10 DEF s, d, r

\* The digits spell their value.
LEMMA DigitsSpell ==
  ASSUME NEW digits \in Seq(48..57)
  PROVE  Spelled(digits) = DecimalValue(digits)
  <1> DEFINE D == Len(digits)
  <1>1. D \in Nat /\ \A i \in 1 .. D : digits[i] \in 48..57
    OBVIOUS
  <1>2. digits \in Seq(Int)
    <2>1. \A x \in 48..57 : x \in Int
      OBVIOUS
    <2>2. QED
      BY <1>1, <2>1
  <1>3. DigitsAre(digits, 1, D)
    <2>1. 1 \in 1 .. D + 1 /\ D \in 0 .. D /\ 1 <= D + 1
      BY <1>1
    <2>2. \A i \in 1 .. D : Numeral(digits[i])
      BY <1>1 DEF Numeral
    <2>3. QED
      BY <2>1, <2>2 DEF DigitsAre
  <1>4. Spelled(digits) = DecimalValue(SubSeq(digits, 1, D))
    BY <1>1, <1>2, <1>3, SpelledIsValue
  <1>5. SubSeq(digits, 1, D) = digits
    BY <1>2, SubSeqFull
  <1>6. QED
    BY <1>4, <1>5

\* Where strtoll finds the sign of a numeral, or its first digit.
SignPlace(n) ==
  IF Len(n.sign) > 0 /\ n.sign[Len(n.sign)] \in {PLUS_SIGN, MINUS_SIGN}
  THEN Len(n.sign) ELSE Len(n.sign) + 1

\* The text is a numeral, and denotes what its parts do.
LEMMA TextIsNumeral ==
  ASSUME NEW n \in Numerals, n.digits # <<>>
  PROVE  LET a == Len(n.sign) + 1
             b == Len(n.sign) + Len(n.digits)
         IN  /\ NumeralAt(NumeralText(n), SignPlace(n), a, b)
             /\ ValueAt(NumeralText(n), SignPlace(n), a, b) = Denoted(n.sign, n.digits)
  <1> DEFINE s == n.sign
             d == n.digits
             r == n.tail
             t == NumeralText(n)
             p == SignPlace(n)
             S == Len(s)
             D == Len(d)
             R == Len(r)
             a == S + 1
             b == S + D
             signed == S > 0 /\ s[S] \in {PLUS_SIGN, MINUS_SIGN}
  <1>1. /\ t \in Seq(Int) /\ Len(t) = S + D + R
        /\ \A k \in 1 .. S : t[k] = s[k]
        /\ \A k \in 1 .. D : t[S + k] = d[k]
        /\ \A k \in 1 .. R : t[S + D + k] = r[k]
    BY TextLaidOut
  <1>2. /\ s \in Seq(Int) /\ d \in Seq(48..57) /\ r \in Seq(Int)
        /\ \A i \in DOMAIN s : IsSpace(s[i]) \/ (i = Len(s) /\ s[i] \in {PLUS_SIGN, MINUS_SIGN})
        /\ \A i \in DOMAIN r : ~Numeral(r[i])
    BY ArgumentsAssumption
  <1>3. p = IF signed THEN S ELSE S + 1
    BY DEF SignPlace
  <1>4. s = <<>> <=> S = 0
    <2> HIDE DEF s
    <2>1. QED
      BY <1>2, EmptySeq
  <1>5. D > 0
    <2> HIDE DEF d
    <2>1. D = 0 => d = <<>>
      BY <1>2, EmptySeq
    <2>2. d # <<>>
      BY DEF d
    <2>3. QED
      BY <1>2, <2>1, <2>2
  <1> HIDE DEF s, d, r, t, p
  <1>6. S \in Nat /\ D \in Nat /\ R \in Nat
    BY <1>2
  <1>7. \A k \in 1 .. D : d[k] \in 48..57
    BY <1>2
  <1>8. /\ \A k \in 1 .. S : IsSpace(s[k]) \/ (k = S /\ s[k] \in {PLUS_SIGN, MINUS_SIGN})
        /\ \A k \in 1 .. R : ~Numeral(r[k])
    BY <1>2
  <1> HIDE DEF S, D, R
  <1>9. \A k \in a .. b : t[k] \in 48..57
    <2> SUFFICES ASSUME NEW k \in a .. b PROVE t[k] \in 48..57
      OBVIOUS
    <2>1. k - S \in 1 .. D /\ S + (k - S) = k
      BY <1>6
    <2>2. QED
      BY <1>1, <1>7, <2>1
  <1>10. t[a] \in 48..57
    <2>1. a \in a .. b
      BY <1>5, <1>6
    <2>2. QED
      BY <1>9, <2>1
  <1>11. \A c \in 48..57 : ~IsSpace(c) /\ c \notin {PLUS_SIGN, MINUS_SIGN} /\ c # MINUS_SIGN
    BY DEF IsSpace, PLUS_SIGN, MINUS_SIGN
  <1>12. \A c \in {PLUS_SIGN, MINUS_SIGN} : ~IsSpace(c)
    BY DEF IsSpace, PLUS_SIGN, MINUS_SIGN
  <1>13. /\ p \in 1 .. Len(t) /\ ~IsSpace(t[p])
         /\ a = IF t[p] \in {PLUS_SIGN, MINUS_SIGN} THEN p + 1 ELSE p
         /\ t[p] = MINUS_SIGN <=> s # <<>> /\ s[S] = MINUS_SIGN
    <2>1. CASE signed
      <3>1. p = S /\ S \in 1 .. S /\ p \in 1 .. Len(t) /\ a = p + 1
        BY <1>1, <1>3, <1>5, <1>6, <2>1
      <3>2. t[p] = s[S]
        BY <1>1, <3>1
      <3>3. s # <<>>
        BY <1>4, <1>6, <2>1
      <3>4. QED
        BY <1>12, <2>1, <3>1, <3>2, <3>3
    <2>2. CASE ~signed
      <3>1. p = a /\ p \in 1 .. Len(t)
        BY <1>1, <1>3, <1>5, <1>6, <2>2
      <3>2. ~ (s # <<>> /\ s[S] = MINUS_SIGN)
        <4>1. S # 0 => S > 0
          BY <1>6
        <4>2. QED
          BY <1>4, <2>2, <4>1
      <3>3. QED
        BY <1>10, <1>11, <3>1, <3>2
    <2>3. QED
      BY <2>1, <2>2
  <1>14. \A k \in 1 .. p - 1 : IsSpace(t[k])
    <2> SUFFICES ASSUME NEW k \in 1 .. p - 1 PROVE IsSpace(t[k])
      OBVIOUS
    <2>1. k \in 1 .. S /\ (signed => k # S)
      BY <1>3, <1>6
    <2>2. ~signed => k # S \/ ~ (s[k] \in {PLUS_SIGN, MINUS_SIGN})
      BY <2>1
    <2>3. IsSpace(s[k])
      BY <1>8, <2>1, <2>2
    <2>4. QED
      BY <1>1, <2>1, <2>3
  <1>15. a \in 1 .. Len(t) /\ b \in a .. Len(t)
    BY <1>1, <1>5, <1>6
  <1>16. b < Len(t) => ~Numeral(t[b + 1])
    <2>1. b < Len(t) => 1 \in 1 .. R
      BY <1>1, <1>6
    <2>2. QED
      BY <1>1, <1>8, <2>1
  <1>17. NumeralAt(t, p, a, b)
    <2>1. \A k \in a .. b : Numeral(t[k])
      BY <1>9 DEF Numeral
    <2> HIDE DEF a, b
    <2>2. QED
      BY <1>13, <1>14, <1>15, <1>16, <2>1 DEF NumeralAt
  <1>18. SubSeq(t, a, b) = d
    <2>1. \A i \in a .. b : t[i] \in Int
      BY <1>9
    <2>2. a \in Int /\ b \in Int /\ a <= b /\ b - a + 1 = D
      BY <1>5, <1>6
    <2>3. /\ SubSeq(t, a, b) \in Seq(Int) /\ Len(SubSeq(t, a, b)) = D
          /\ \A i \in 1 .. D : SubSeq(t, a, b)[i] = t[a + i - 1]
      <3> HIDE DEF a, b
      <3>1. QED
        BY <2>1, <2>2, SubSeqProperties
    <2>4. \A i \in 1 .. D : a + i - 1 = S + i
      BY <1>6
    <2>5. \A i \in 1 .. D : SubSeq(t, a, b)[i] = d[i]
      BY <1>1, <2>3, <2>4
    <2>6. d \in Seq(Int) /\ Len(d) = D
      <3>1. 48..57 \subseteq Int
        OBVIOUS
      <3>2. d \in Seq(Int)
        BY <1>2, <3>1, SeqMonotonic
      <3>3. QED
        BY <3>2 DEF D
    <2> DEFINE u == SubSeq(t, a, b)
    <2> HIDE DEF u
    <2>7. u \in Seq(Int) /\ Len(u) = Len(d) /\ \A i \in 1 .. Len(u) : u[i] = d[i]
      BY <2>3, <2>5, <2>6 DEF u
    <2>8. u = d
      BY <2>6, <2>7, SeqEqual
    <2>9. QED
      BY <2>8 DEF u
  <1>19. Spelled(d) = DecimalValue(d)
    BY <1>2, DigitsSpell
  <1>20. ValueAt(t, p, a, b) = Denoted(s, d)
    <2>1. ValueAt(t, p, a, b) = IF t[p] = MINUS_SIGN THEN -DecimalValue(d) ELSE DecimalValue(d)
      BY <1>18 DEF ValueAt
    <2>2. Denoted(s, d) = IF s # <<>> /\ s[S] = MINUS_SIGN THEN -Spelled(d) ELSE Spelled(d)
      BY DEF Denoted, S
    <2>3. QED
      BY <1>13, <1>19, <2>1, <2>2
  <1>21. QED
    BY <1>17, <1>20 DEF s, d, t, p, S, D


(***************************************************************************)
(* Traces                                                                  *)
(***************************************************************************)

\* One text is the beginning of another.
Begins(s, whole) == Len(s) <= Len(whole) /\ \A k \in 1 .. Len(s) : s[k] = whole[k]

\* A character of a trace: its frame, and its place in the frame's line.
Mark == Nat \X Nat

\* How much of a line a frame shows.
Shown(n) == IF n < 0 THEN 0 ELSE n

\* The loop of WholeTrace.
IsWhole(frames, lines) ==
  /\ lines[0] = <<>>
  /\ \A i \in 1 .. Len(frames) : lines[i] = lines[i - 1] \o Text(i, Shown(frames[i]))
  /\ \A i \in 0 .. Len(frames) : lines[i] \in Seq(Mark)

\* A line is a text.
LEMMA TextIsText ==
  ASSUME NEW i \in Nat, NEW n \in Nat
  PROVE  /\ Text(i, n) \in Seq(Mark) /\ Len(Text(i, n)) = n
         /\ \A k \in 1 .. n : Text(i, n)[k] = <<i, k>>
  <1>1. \A k \in 1 .. n : <<i, k>> \in Mark
    BY DEF Mark
  <1>2. QED
    BY <1>1 DEF Text

LEMMA WholeRuns ==
  ASSUME NEW frames \in Seq(Int)
  PROVE  \E lines : IsWhole(frames, lines) /\ WholeTrace(frames) = lines[Len(frames)]
  <1> DEFINE N == Len(frames)
             Next1 == [xi \in Seq(Mark) \X (1 .. N) |-> xi[1] \o Text(xi[2], Shown(frames[xi[2]]))]
             lines == CHOOSE f : f = [i \in 0 .. N |->
                        IF i = 0 THEN <<>>
                        ELSE f[i - 1] \o Text(i, IF frames[i] < 0 THEN 0 ELSE frames[i])]
  <1>1. N \in Nat /\ \A i \in 1 .. N : frames[i] \in Int
    OBVIOUS
  <1>2. WholeTrace(frames) = lines[N]
    BY DEF WholeTrace
  <1> HIDE DEF N
  <1>3. ASSUME NEW x \in Seq(Mark), NEW i \in 1 .. N
        PROVE  /\ Next1[<<x, i>>] = x \o Text(i, Shown(frames[i]))
               /\ Next1[<<x, i>>] \in Seq(Mark)
    <2>1. Shown(frames[i]) \in Nat /\ i \in Nat
      BY <1>1 DEF Shown
    <2>2. Text(i, Shown(frames[i])) \in Seq(Mark)
      BY <2>1, TextIsText
    <2>3. Next1[<<x, i>>] = x \o Text(i, Shown(frames[i]))
      OBVIOUS
    <2>4. QED
      BY <2>2, <2>3, ConcatProperties
  <1> HIDE DEF Next1
  <1>4. PICK f : /\ f = [i \in 0 .. N |-> IF i = 0 THEN <<>> ELSE Next1[<<f[i - 1], i>>]]
                 /\ f \in [0 .. N -> Seq(Mark)]
    <2>1. <<>> \in Seq(Mark)
      OBVIOUS
    <2>2. \A x \in Seq(Mark) : \A i \in 1 .. N : Next1[<<x, i>>] \in Seq(Mark)
      BY <1>3
    <2>3. Loops(N, Seq(Mark), <<>>, Next1)
      BY <1>1, <2>1, <2>2, LoopExists
    <2>4. QED
      BY <2>3 DEF Loops
  <1>5. f = [i \in 0 .. N |->
               IF i = 0 THEN <<>>
               ELSE f[i - 1] \o Text(i, IF frames[i] < 0 THEN 0 ELSE frames[i])]
    <2>1. \A i \in 0 .. N : i # 0 => i - 1 \in 0 .. N /\ i \in 1 .. N
      BY <1>1
    <2>2. \A i \in 0 .. N : i # 0 =>
            Next1[<<f[i - 1], i>>] = f[i - 1] \o Text(i, IF frames[i] < 0 THEN 0 ELSE frames[i])
      BY <1>3, <1>4, <2>1 DEF Shown
    <2>3. QED
      BY <1>4, <2>2
  <1>6. lines = [i \in 0 .. N |->
                   IF i = 0 THEN <<>>
                   ELSE lines[i - 1] \o Text(i, IF frames[i] < 0 THEN 0 ELSE frames[i])]
    BY <1>5
  <1> HIDE DEF lines
  <1>7. lines[0] = <<>> /\ \A i \in 1 .. N : lines[i] = lines[i - 1] \o Text(i, Shown(frames[i]))
    <2>1. 0 \in 0 .. N /\ \A i \in 1 .. N : i \in 0 .. N /\ i # 0
      BY <1>1
    <2>2. QED
      BY <1>6, <2>1 DEF Shown
  <1>8. \A i \in 0 .. N : lines[i] \in Seq(Mark)
    <2>1. ASSUME NEW i \in 1 .. N, lines[i - 1] \in Seq(Mark) PROVE lines[i] \in Seq(Mark)
      <3>1. lines[i] = Next1[<<lines[i - 1], i>>]
        BY <1>3, <1>7, <2>1
      <3>2. QED
        BY <1>3, <2>1, <3>1
    <2>2. lines[0] \in Seq(Mark)
      BY <1>7
    <2>3. QED
      BY <1>1, <2>1, <2>2, LoopStays
  <1>9. QED
    BY <1>2, <1>7, <1>8 DEF IsWhole, N


\* The characters that the loop of Sprint takes from a line: the line's own, and in front of
\* LINE_LENGTH no others.
Copied(i, n) == [k \in 1..n |-> IF k < LINE_LENGTH THEN <<i, k>> ELSE <<0, k>>]

LEMMA CopiedIsText ==
  ASSUME NEW i \in Nat, NEW n \in Nat
  PROVE  /\ Copied(i, n) \in Seq(Mark) /\ Len(Copied(i, n)) = n
         /\ n < LINE_LENGTH => \A k \in 1 .. n : Copied(i, n)[k] = <<i, k>>
  <1>1. \A k \in 1 .. n : <<i, k>> \in Mark /\ <<0, k>> \in Mark
    BY DEF Mark
  <1>2. LINE_LENGTH \in Nat
    BY LineAssumption
  <1>3. Copied(i, n) \in Seq(Mark) /\ Len(Copied(i, n)) = n
    BY <1>1 DEF Copied
  <1>4. ASSUME n < LINE_LENGTH, NEW k \in 1 .. n PROVE Copied(i, n)[k] = <<i, k>>
    <2>1. k < LINE_LENGTH
      BY <1>2, <1>4
    <2>2. QED
      BY <2>1 DEF Copied
  <1>5. QED
    BY <1>3, <1>4

\* One turn of the loop, from the buffer b and frame i, into a buffer of room bytes.
Turn(frames, room, b, i) ==
  IF b.full \/ frames[i] <= 0 THEN b
  ELSE IF Fits(Len(b.text), frames[i], room)
  THEN [b EXCEPT !.text = @ \o Copied(i, frames[i])]
  ELSE [text |-> b.text \o Copied(i, room - Len(b.text) - 1), full |-> TRUE]

\* The loop leaves room for the terminating NUL.
Buffers(room) == {b \in [text : Seq(Mark), full : BOOLEAN] : Len(b.text) < room}

LEMMA TurnFits ==
  ASSUME NEW frames \in Seq(Int), NEW room \in Nat, NEW b \in Buffers(room),
         NEW i \in 1 .. Len(frames)
  PROVE  Turn(frames, room, b, i) \in Buffers(room)
  <1> DEFINE n == frames[i]
             written == Len(b.text)
  <1>1. /\ b \in [text : Seq(Mark), full : BOOLEAN] /\ b.text \in Seq(Mark)
        /\ written \in Nat /\ written < room
    BY DEF Buffers
  <1>2. n \in Int /\ i \in Nat
    OBVIOUS
  <1>3. CASE b.full \/ n <= 0
    BY <1>3 DEF Turn
  <1>4. CASE ~(b.full \/ n <= 0) /\ Fits(written, n, room)
    <2> DEFINE more == Copied(i, n)
               s == b.text
    <2>1. n \in Nat /\ written + n < room
      BY <1>2, <1>4 DEF Fits
    <2>2. more \in Seq(Mark) /\ Len(more) = n
      BY <1>2, <2>1, CopiedIsText
    <2>3. Turn(frames, room, b, i) = [b EXCEPT !.text = s \o more]
      BY <1>4 DEF Turn
    <2> HIDE DEF more, s
    <2>4. s \in Seq(Mark) /\ Len(s) = written
      BY <1>1 DEF s
    <2>5. s \o more \in Seq(Mark) /\ Len(s \o more) = Len(s) + Len(more)
      BY <2>2, <2>4, ConcatProperties
    <2> DEFINE new == s \o more
    <2> HIDE DEF new
    <2>6. new \in Seq(Mark) /\ Len(new) < room
      BY <2>1, <2>2, <2>4, <2>5 DEF new
    <2>7. [b EXCEPT !.text = new] \in [text : Seq(Mark), full : BOOLEAN]
      BY <1>1, <2>6
    <2>8. [b EXCEPT !.text = new].text = new
      BY <1>1
    <2>9. QED
      BY <2>3, <2>6, <2>7, <2>8 DEF Buffers, new
  <1>5. CASE ~(b.full \/ n <= 0) /\ ~Fits(written, n, room)
    <2> DEFINE left == room - written - 1
               more == Copied(i, left)
               s == b.text
    <2>1. left \in Nat /\ written + left < room
      BY <1>1
    <2> HIDE DEF left
    <2>2. more \in Seq(Mark) /\ Len(more) = left
      BY <1>2, <2>1, CopiedIsText
    <2>3. Turn(frames, room, b, i) = [text |-> s \o more, full |-> TRUE]
      BY <1>5 DEF Turn, left
    <2> HIDE DEF more, s
    <2>4. s \in Seq(Mark) /\ Len(s) = written
      BY <1>1 DEF s
    <2>5. s \o more \in Seq(Mark) /\ Len(s \o more) = Len(s) + Len(more)
      BY <2>2, <2>4, ConcatProperties
    <2> DEFINE new == s \o more
    <2> HIDE DEF new
    <2>6. new \in Seq(Mark) /\ Len(new) < room
      BY <2>1, <2>2, <2>4, <2>5 DEF new
    <2>7. QED
      BY <2>3, <2>6 DEF Buffers, new
  <1>6. QED
    BY <1>3, <1>4, <1>5

\* The loop of Sprint.
IsBuf(frames, room, buf) ==
  /\ buf[0] = [text |-> <<>>, full |-> FALSE]
  /\ \A i \in 1 .. Len(frames) : buf[i] = Turn(frames, room, buf[i - 1], i)
  /\ \A i \in 0 .. Len(frames) : buf[i] \in Buffers(room)

LEMMA SprintRuns ==
  ASSUME NEW frames \in Seq(Int), NEW room \in Nat \ {0}
  PROVE  \E buf : IsBuf(frames, room, buf) /\ Sprint(frames, room) = buf[Len(frames)].text
  <1> DEFINE N == Len(frames)
             start == [text |-> <<>>, full |-> FALSE]
             Next1 == [xi \in Buffers(room) \X (1 .. N) |-> Turn(frames, room, xi[1], xi[2])]
             buf == CHOOSE f : f = [i \in 0 .. N |->
                      IF i = 0 THEN [text |-> <<>>, full |-> FALSE]
                      ELSE LET b == f[i - 1]
                               n == frames[i]
                               written == Len(b.text)
                           IN  IF b.full \/ n <= 0 THEN b
                               ELSE IF Fits(written, n, room)
                               THEN [b EXCEPT !.text = @ \o [k \in 1..n |->
                                       IF k < LINE_LENGTH THEN <<i, k>> ELSE <<0, k>>]]
                               ELSE [text |-> b.text \o [k \in 1..(room - written - 1) |->
                                       IF k < LINE_LENGTH THEN <<i, k>> ELSE <<0, k>>],
                                     full |-> TRUE]]
  <1>1. N \in Nat
    OBVIOUS
  <1>2. Sprint(frames, room) = buf[N].text
    <2>1. room # 0
      OBVIOUS
    <2>2. QED
      BY <2>1 DEF Sprint
  <1> HIDE DEF N
  <1>3. ASSUME NEW x \in Buffers(room), NEW i \in 1 .. N
        PROVE  Next1[<<x, i>>] = Turn(frames, room, x, i) /\ Next1[<<x, i>>] \in Buffers(room)
    <2>1. Turn(frames, room, x, i) \in Buffers(room)
      BY TurnFits DEF N
    <2>2. QED
      BY <2>1
  <1> HIDE DEF Next1
  <1>4. start \in Buffers(room)
    <2>1. <<>> \in Seq(Mark) /\ Len(<<>>) = 0 /\ 0 < room
      OBVIOUS
    <2>2. QED
      BY <2>1 DEF Buffers
  <1>5. PICK f : /\ f = [i \in 0 .. N |-> IF i = 0 THEN start ELSE Next1[<<f[i - 1], i>>]]
                 /\ f \in [0 .. N -> Buffers(room)]
    <2>1. \A x \in Buffers(room) : \A i \in 1 .. N : Next1[<<x, i>>] \in Buffers(room)
      BY <1>3
    <2> HIDE DEF start
    <2>2. Loops(N, Buffers(room), start, Next1)
      BY <1>1, <1>4, <2>1, LoopExists
    <2>3. QED
      BY <2>2 DEF Loops
  <1>6. f = [i \in 0 .. N |-> IF i = 0 THEN start ELSE Turn(frames, room, f[i - 1], i)]
    <2>1. \A i \in 0 .. N : i # 0 => i - 1 \in 0 .. N /\ i \in 1 .. N
      BY <1>1
    <2>2. \A i \in 0 .. N : i # 0 => Next1[<<f[i - 1], i>>] = Turn(frames, room, f[i - 1], i)
      BY <1>3, <1>5, <2>1
    <2>3. QED
      BY <1>5, <2>2
  <1>7. buf = CHOOSE g : g = [i \in 0 .. N |->
                IF i = 0 THEN start ELSE Turn(frames, room, g[i - 1], i)]
    BY DEF Turn, Copied
  <1> HIDE DEF buf, start
  <1>8. buf = [i \in 0 .. N |-> IF i = 0 THEN start ELSE Turn(frames, room, buf[i - 1], i)]
    BY <1>6, <1>7
  <1>9. buf[0] = start /\ \A i \in 1 .. N : buf[i] = Turn(frames, room, buf[i - 1], i)
    <2>1. 0 \in 0 .. N /\ \A i \in 1 .. N : i \in 0 .. N /\ i # 0
      BY <1>1
    <2>2. QED
      BY <1>8, <2>1
  <1>10. \A i \in 0 .. N : buf[i] \in Buffers(room)
    <2>1. ASSUME NEW i \in 1 .. N, buf[i - 1] \in Buffers(room) PROVE buf[i] \in Buffers(room)
      BY <1>9, <2>1, TurnFits DEF N
    <2>2. QED
      BY <1>1, <1>4, <1>9, <2>1, LoopStays
  <1>11. QED
    BY <1>2, <1>9, <1>10 DEF IsBuf, N, start


\* What the buffer holds of the trace so far: all of it, or what fits.
Keeps(b, whole, room) ==
  /\ Begins(b.text, whole)
  /\ ~b.full => Len(b.text) = Len(whole)
  /\ b.full => Len(b.text) = room - 1 /\ room <= Len(whole)

\* The whole trace goes on behind what the buffer holds.
LEMMA BeginsStay ==
  ASSUME NEW s \in Seq(Mark), NEW w \in Seq(Mark), NEW more \in Seq(Mark), Begins(s, w)
  PROVE  Begins(s, w \o more) /\ Len(w) <= Len(w \o more)
  <1>1. /\ Len(w \o more) = Len(w) + Len(more)
        /\ \A k \in 1 .. Len(w) + Len(more) :
             (w \o more)[k] = IF k <= Len(w) THEN w[k] ELSE more[k - Len(w)]
    BY ConcatProperties
  <1>2. Len(s) \in Nat /\ Len(w) \in Nat /\ Len(more) \in Nat
    OBVIOUS
  <1>3. Len(s) <= Len(w) /\ \A k \in 1 .. Len(s) : s[k] = w[k]
    BY DEF Begins
  <1>4. ASSUME NEW k \in 1 .. Len(s) PROVE s[k] = (w \o more)[k]
    <2>1. k \in 1 .. Len(w) + Len(more) /\ k <= Len(w)
      BY <1>2, <1>3
    <2>2. QED
      BY <1>1, <1>3, <2>1
  <1>5. Len(w) <= Len(w \o more) /\ Len(s) <= Len(w \o more)
    BY <1>1, <1>2, <1>3
  <1>6. QED
    BY <1>4, <1>5 DEF Begins

\* Both grow by the same characters.
LEMMA BeginsGrow ==
  ASSUME NEW w \in Seq(Mark), NEW more \in Seq(Mark), NEW copy \in Seq(Mark), Begins(copy, more)
  PROVE  Begins(w \o copy, w \o more)
  <1>1. /\ Len(w \o more) = Len(w) + Len(more)
        /\ \A k \in 1 .. Len(w) + Len(more) :
             (w \o more)[k] = IF k <= Len(w) THEN w[k] ELSE more[k - Len(w)]
    BY ConcatProperties
  <1>2. /\ Len(w \o copy) = Len(w) + Len(copy)
        /\ \A k \in 1 .. Len(w) + Len(copy) :
             (w \o copy)[k] = IF k <= Len(w) THEN w[k] ELSE copy[k - Len(w)]
    BY ConcatProperties
  <1>3. Len(w) \in Nat /\ Len(more) \in Nat /\ Len(copy) \in Nat
    OBVIOUS
  <1>4. Len(copy) <= Len(more) /\ \A k \in 1 .. Len(copy) : copy[k] = more[k]
    BY DEF Begins
  <1>5. ASSUME NEW k \in 1 .. Len(w \o copy) PROVE (w \o copy)[k] = (w \o more)[k]
    <2>1. k \in 1 .. Len(w) + Len(copy) /\ k \in 1 .. Len(w) + Len(more)
      BY <1>2, <1>3, <1>4
    <2>2. ~ (k <= Len(w)) => k - Len(w) \in 1 .. Len(copy)
      BY <1>3, <2>1
    <2>3. QED
      BY <1>1, <1>2, <1>4, <2>1, <2>2
  <1>6. Len(w \o copy) <= Len(w \o more)
    BY <1>1, <1>2, <1>3, <1>4
  <1>7. QED
    BY <1>5, <1>6 DEF Begins

\* A turn keeps it, for a line that is not itself cut short.
LEMMA TurnKeeps ==
  ASSUME NEW frames \in Seq(Int), NEW room \in Nat, NEW b \in Buffers(room), NEW w \in Seq(Mark),
         NEW i \in 1 .. Len(frames), frames[i] < LINE_LENGTH, Keeps(b, w, room)
  PROVE  Keeps(Turn(frames, room, b, i), w \o Text(i, Shown(frames[i])), room)
  <1> DEFINE n == frames[i]
             more == Text(i, Shown(frames[i]))
             s == b.text
             whole == w \o more
             t == Turn(frames, room, b, i)
  <1>1. /\ b \in [text : Seq(Mark), full : BOOLEAN] /\ s \in Seq(Mark)
        /\ Len(s) \in Nat /\ Len(s) < room
    BY DEF Buffers
  <1>2. n \in Int /\ i \in Nat /\ Shown(n) \in Nat /\ n < LINE_LENGTH
    BY DEF Shown
  <1>3. /\ more \in Seq(Mark) /\ Len(more) = Shown(n)
        /\ \A k \in 1 .. Shown(n) : more[k] = <<i, k>>
    BY <1>2, TextIsText
  <1>4. Begins(s, w) /\ (~b.full => Len(s) = Len(w))
        /\ (b.full => Len(s) = room - 1 /\ room <= Len(w))
    BY DEF Keeps
  <1> HIDE DEF more, s, t
  <1>5. Begins(s, whole) /\ Len(w) <= Len(whole)
    BY <1>1, <1>3, <1>4, BeginsStay
  <1>6. whole \in Seq(Mark) /\ Len(whole) = Len(w) + Len(more)
    BY <1>3, ConcatProperties
  <1>7. Len(w) \in Nat /\ Len(whole) \in Nat
    BY <1>6
  <1> HIDE DEF whole
  <1>8. CASE b.full
    <2>1. t = b
      BY <1>8 DEF t, Turn
    <2>2. room <= Len(whole)
      BY <1>4, <1>5, <1>7, <1>8
    <2>3. Keeps(b, whole, room)
      BY <1>4, <1>5, <1>8, <2>2 DEF Keeps, s
    <2>4. QED
      BY <2>1, <2>3 DEF t, whole, more
  <1>9. CASE ~b.full /\ n <= 0
    <2>1. t = b
      BY <1>9 DEF t, Turn
    <2>2. Len(more) = 0
      BY <1>2, <1>3, <1>9 DEF Shown
    <2>3. Len(whole) = Len(s)
      BY <1>4, <1>6, <1>7, <1>9, <2>2
    <2>4. Keeps(b, whole, room)
      BY <1>5, <1>9, <2>3 DEF Keeps, s
    <2>5. QED
      BY <2>1, <2>4 DEF t, whole, more
  <1>10. CASE ~b.full /\ ~(n <= 0)
    <2>1. n \in Nat /\ Shown(n) = n /\ Len(more) = n
      BY <1>2, <1>3, <1>10 DEF Shown
    <2>2. s = w
      <3>1. Len(s) = Len(w) /\ \A k \in 1 .. Len(s) : s[k] = w[k]
        BY <1>4, <1>10 DEF Begins
      <3>2. QED
        BY <1>1, <3>1, SeqEqual
    <2>3. CASE Fits(Len(s), n, room)
      <3> DEFINE copy == Copied(i, n)
      <3>1. copy \in Seq(Mark) /\ Len(copy) = n /\ \A k \in 1 .. n : copy[k] = <<i, k>>
        BY <1>2, <2>1, CopiedIsText
      <3>2. t = [b EXCEPT !.text = s \o copy]
        BY <1>10, <2>3 DEF t, Turn, s
      <3> HIDE DEF copy
      <3>3. Begins(copy, more)
        <4>1. Len(copy) <= Len(more)
          BY <2>1, <3>1
        <4>2. \A k \in 1 .. n : copy[k] = more[k]
          BY <1>3, <2>1, <3>1
        <4>3. QED
          BY <3>1, <4>1, <4>2 DEF Begins
      <3>4. Begins(w \o copy, whole)
        BY <1>3, <3>1, <3>3, BeginsGrow DEF whole
      <3>5. Len(w \o copy) = Len(w) + Len(copy)
        BY <3>1, ConcatProperties
      <3>6. Len(w \o copy) = Len(whole)
        BY <1>6, <2>1, <3>1, <3>5
      <3>7. t.text = w \o copy /\ (t.full <=> b.full)
        BY <1>1, <2>2, <3>2
      <3>8. Keeps(t, whole, room)
        BY <1>10, <3>4, <3>6, <3>7 DEF Keeps
      <3>9. QED
        BY <3>8 DEF t, whole, more
    <2>4. CASE ~Fits(Len(s), n, room)
      <3> DEFINE left == room - Len(s) - 1
                 copy == Copied(i, left)
      <3>1. left \in Nat /\ left < n /\ left < LINE_LENGTH
        <4>1. LINE_LENGTH \in Nat
          BY LineAssumption
        <4>2. Len(s) + n >= room
          BY <1>1, <2>1, <2>4 DEF Fits
        <4>3. QED
          BY <1>1, <1>2, <2>1, <4>1, <4>2
      <3> HIDE DEF left
      <3>2. copy \in Seq(Mark) /\ Len(copy) = left /\ \A k \in 1 .. left : copy[k] = <<i, k>>
        BY <1>2, <3>1, CopiedIsText
      <3>3. t = [text |-> s \o copy, full |-> TRUE]
        BY <1>10, <2>4 DEF t, Turn, s, left
      <3> HIDE DEF copy
      <3>4. Begins(copy, more)
        <4>1. \A k \in 1 .. left : k \in 1 .. n
          BY <2>1, <3>1
        <4>2. left <= n
          BY <2>1, <3>1
        <4>3. QED
          BY <1>3, <2>1, <3>2, <4>1, <4>2 DEF Begins
      <3>5. Begins(w \o copy, whole)
        BY <1>3, <3>2, <3>4, BeginsGrow DEF whole
      <3>6. Len(w \o copy) = Len(w) + Len(copy)
        BY <3>2, ConcatProperties
      <3>7. Len(w \o copy) = room - 1 /\ room <= Len(whole)
        <4>1. Len(w) + left = room - 1
          BY <1>1, <2>2 DEF left
        <4>2. Len(whole) = Len(w) + n
          BY <1>6, <2>1
        <4>3. QED
          BY <1>7, <2>1, <3>1, <3>2, <3>6, <4>1, <4>2
      <3>8. t.text = w \o copy /\ t.full = TRUE
        BY <2>2, <3>3
      <3>9. Keeps(t, whole, room)
        BY <3>5, <3>7, <3>8 DEF Keeps
      <3>10. QED
        BY <3>9 DEF t, whole, more
    <2>5. QED
      BY <2>3, <2>4
  <1>11. QED
    BY <1>8, <1>9, <1>10

\* The buffer holds the beginning of the whole trace.
LEMMA SprintFits ==
  ASSUME NEW frames \in Seq(Int), NEW room \in Nat, \A i \in DOMAIN frames : frames[i] < LINE_LENGTH
  PROVE  LET whole == WholeTrace(frames)
         IN  Sprint(frames, room) = SubSeq(whole, 1, IF Len(whole) < room THEN Len(whole)
                                                     ELSE IF room = 0 THEN 0 ELSE room - 1)
  <1> DEFINE N == Len(frames)
             whole == WholeTrace(frames)
             last == IF Len(whole) < room THEN Len(whole) ELSE IF room = 0 THEN 0 ELSE room - 1
  <1>1. N \in Nat /\ DOMAIN frames = 1 .. N
    OBVIOUS
  <1>2. PICK lines : IsWhole(frames, lines) /\ whole = lines[N]
    BY WholeRuns
  <1> HIDE DEF whole
  <1>3. whole \in Seq(Mark) /\ Len(whole) \in Nat
    <2>1. N \in 0 .. N
      BY <1>1
    <2>2. whole \in Seq(Mark)
      BY <1>2, <2>1 DEF IsWhole
    <2>3. QED
      BY <2>2
  <1>4. CASE room = 0
    <2>1. Sprint(frames, room) = <<>>
      BY <1>4 DEF Sprint
    <2>2. last = 0
      BY <1>3, <1>4
    <2>3. SubSeq(whole, 1, 0) = <<>>
      BY SubSeqEmpty
    <2>4. QED
      BY <2>1, <2>2, <2>3 DEF whole
  <1>5. CASE room # 0
    <2>1. PICK buf : IsBuf(frames, room, buf) /\ Sprint(frames, room) = buf[N].text
      BY <1>5, SprintRuns
    <2>2. \A i \in 0 .. N : Keeps(buf[i], lines[i], room)
      <3> DEFINE P == {i \in 0 .. N : Keeps(buf[i], lines[i], room)}
      <3>1. 0 \in P
        <4>1. buf[0].text = <<>> /\ buf[0].full = FALSE /\ lines[0] = <<>>
          BY <1>2, <2>1 DEF IsBuf, IsWhole
        <4>2. Len(<<>>) = 0 /\ 0 \in 0 .. N
          BY <1>1
        <4>3. QED
          BY <4>1, <4>2 DEF Keeps, Begins
      <3>2. ASSUME NEW i \in 0 .. N - 1, i \in P PROVE i + 1 \in P
        <4>1. i + 1 \in 1 .. N /\ (i + 1) - 1 = i /\ i + 1 \in 0 .. N /\ i \in 0 .. N
          BY <1>1
        <4>2. buf[i + 1] = Turn(frames, room, buf[i], i + 1) /\ buf[i] \in Buffers(room)
          BY <2>1, <4>1 DEF IsBuf
        <4>3. /\ lines[i + 1] = lines[i] \o Text(i + 1, Shown(frames[i + 1]))
              /\ lines[i] \in Seq(Mark)
          BY <1>2, <4>1 DEF IsWhole
        <4>4. frames[i + 1] < LINE_LENGTH
          BY <1>1, <4>1
        <4>5. Keeps(buf[i], lines[i], room)
          BY <3>2
        <4>6. Keeps(buf[i + 1], lines[i + 1], room)
          BY <4>1, <4>2, <4>3, <4>4, <4>5, TurnKeeps
        <4>7. QED
          BY <4>1, <4>6
      <3> HIDE DEF P
      <3>3. \A i \in 0 .. N : i \in P
        BY <1>1, <3>1, <3>2, NumbersUpTo
      <3>4. QED
        BY <3>3 DEF P
    <2> DEFINE b == buf[N]
               s == b.text
    <2>3. Keeps(b, whole, room) /\ b \in Buffers(room)
      <3>1. N \in 0 .. N
        BY <1>1
      <3>2. QED
        BY <1>2, <2>1, <2>2, <3>1 DEF IsBuf
    <2> HIDE DEF b
    <2>4. s \in Seq(Mark) /\ Len(s) \in Nat /\ Len(s) < room
      BY <2>3 DEF Buffers
    <2>5. Begins(s, whole) /\ Len(s) = last
      BY <1>3, <1>5, <2>3, <2>4 DEF Keeps
    <2> HIDE DEF s, last
    <2>6. Len(s) <= Len(whole) /\ \A k \in 1 .. Len(s) : s[k] = whole[k]
      BY <2>5 DEF Begins
    <2> DEFINE u == SubSeq(whole, 1, Len(s))
    <2>7. u \in Seq(Mark) /\ Len(u) = Len(s) /\ \A k \in 1 .. Len(s) : u[k] = whole[k]
      <3>1. \A k \in 1 .. Len(s) : whole[k] \in Mark
        <4>1. \A k \in 1 .. Len(s) : k \in 1 .. Len(whole)
          BY <1>3, <2>4, <2>6
        <4>2. QED
          BY <1>3, <4>1, ElementOfSeq
      <3>2. /\ u \in Seq(Mark) /\ Len(u) = IF 1 <= Len(s) THEN Len(s) - 1 + 1 ELSE 0
            /\ \A k \in 1 .. Len(s) - 1 + 1 : u[k] = whole[1 + k - 1]
        BY <2>4, <3>1, SubSeqProperties
      <3>3. Len(s) - 1 + 1 = Len(s) /\ (~ (1 <= Len(s)) => Len(s) = 0)
        BY <2>4
      <3>4. \A k \in 1 .. Len(s) : 1 + k - 1 = k
        BY <2>4
      <3> HIDE DEF u
      <3>5. QED
        BY <3>2, <3>3, <3>4
    <2> HIDE DEF u
    <2>8. s = u
      BY <2>4, <2>6, <2>7, SeqEqual
    <2>9. QED
      BY <2>1, <2>5, <2>8 DEF u, s, b, last, whole
  <1>6. QED
    BY <1>4, <1>5

(***************************************************************************)
(* Paths                                                                   *)
(***************************************************************************)

\* What strtok has of a piece while it reads it, and a piece.
OpenName == Seq({c \in Int : ~IsSeparator(c)})
Name == {s \in OpenName : s # <<>>}

Scans == [pieces : Seq(Name), open : OpenName]
Start == [pieces |-> <<>>, open |-> <<>>]

\* The turns of the four loops.
ReadTurn == [xia \in Scans \X Nat \X Int |-> ReadByte(xia[1], xia[3])]

KeptTurn ==
  [xia \in Seq(Name) \X Nat \X Name |->
     IF xia[2] = 1 \/ ~IsDot(xia[3]) THEN Append(xia[1], xia[3]) ELSE xia[1]]

RebuiltTurn ==
  [xia \in Seq(Int) \X Nat \X Name |->
     IF xia[2] = 1 THEN xia[1] \o xia[3] ELSE Append(xia[1], OS_PATH_SEPARATOR) \o xia[3]]

NamesTurn ==
  [xia \in Seq(Name) \X Nat \X Name |->
     IF xia[3] # <<PERIOD>> THEN Append(xia[1], xia[3]) ELSE xia[1]]

\* A name is an open piece that is not empty; the first byte of it is no separator.
LEMMA NamesAre ==
  /\ <<>> \in OpenName
  /\ \A x \in OpenName : x \in Seq(Int) /\ Len(x) \in Nat
  /\ \A x \in Name : x \in OpenName /\ x \in Seq(Int) /\ x # <<>> /\ Len(x) \in Nat \ {0}
  /\ \A x \in OpenName : x # <<>> => x \in Name
  /\ \A x \in Name : ~IsSeparator(x[1])
  <1>1. \A x \in OpenName : x \in Seq(Int) /\ Len(x) \in Nat
    <2> DEFINE B == {c \in Int : ~IsSeparator(c)}
    <2>1. B \subseteq Int
      OBVIOUS
    <2> HIDE DEF B
    <2>2. \A x \in Seq(B) : x \in Seq(Int)
      BY <2>1, SeqMonotonic
    <2>3. \A x \in OpenName : x \in Seq(Int)
      BY <2>2 DEF OpenName, B
    <2>4. QED
      BY <2>3
  <1>2. \A x \in Name : x \in OpenName /\ x # <<>>
    BY DEF Name
  <1>3. \A x \in Name : Len(x) \in Nat \ {0}
    BY <1>1, <1>2, EmptySeq
  <1>4. \A x \in Name : ~IsSeparator(x[1])
    <2> SUFFICES ASSUME NEW x \in Name PROVE ~IsSeparator(x[1])
      OBVIOUS
    <2>1. 1 \in 1 .. Len(x)
      BY <1>3
    <2>2. x[1] \in {c \in Int : ~IsSeparator(c)}
      BY <1>2, <2>1, ElementOfSeq DEF OpenName
    <2>3. QED
      BY <2>2
  <1>5. <<>> \in OpenName
    BY DEF OpenName
  <1>6. QED
    BY <1>1, <1>2, <1>3, <1>4, <1>5 DEF Name

\* A name grows by what is no separator.
LEMMA OpenGrows ==
  ASSUME NEW x \in OpenName, NEW c \in Int, ~IsSeparator(c)
  PROVE  /\ Append(x, c) \in Name /\ Len(Append(x, c)) = Len(x) + 1
         /\ x # <<>> => Append(x, c)[1] = x[1]
  <1> DEFINE y == Append(x, c)
  <1>1. x \in Seq(Int) /\ Len(x) \in Nat
    BY NamesAre
  <1>2. /\ y \in Seq(Int) /\ y # <<>> /\ Len(y) = Len(x) + 1
        /\ \A i \in 1 .. Len(x) : y[i] = x[i]
        /\ y[Len(x) + 1] = c
    BY <1>1, AppendProperties
  <1> HIDE DEF y
  <1>3. y \in OpenName
    BY AppendProperties DEF OpenName, y
  <1>4. y \in Name
    BY <1>2, <1>3 DEF Name
  <1>5. x # <<>> => 1 \in 1 .. Len(x)
    BY <1>1, EmptySeq
  <1>6. QED
    BY <1>2, <1>4, <1>5 DEF y

\* Closing a piece and reading a byte.
LEMMA ReadKeeps ==
  ASSUME NEW scan \in Scans, NEW c \in Int
  PROVE  /\ Closed(scan) \in Scans /\ ReadByte(scan, c) \in Scans
         /\ IsSeparator(c) => ReadByte(scan, c) = Closed(scan)
         /\ ~IsSeparator(c) => ReadByte(scan, c) = [pieces |-> scan.pieces, open |-> Append(scan.open, c)]
         /\ Closed(scan).pieces = IF scan.open = <<>> THEN scan.pieces ELSE Append(scan.pieces, scan.open)
         /\ Closed(scan).open = <<>>
  <1>1. scan.pieces \in Seq(Name) /\ scan.open \in OpenName
    BY DEF Scans
  <1>2. /\ Closed(scan).pieces = IF scan.open = <<>> THEN scan.pieces ELSE Append(scan.pieces, scan.open)
        /\ Closed(scan).open = <<>>
    BY DEF Closed
  <1>3. Closed(scan) \in Scans
    <2>1. CASE scan.open = <<>>
      BY <2>1 DEF Closed
    <2>2. CASE scan.open # <<>>
      <3>1. scan.open \in Name
        BY <1>1, <2>2, NamesAre
      <3>2. Append(scan.pieces, scan.open) \in Seq(Name)
        BY <1>1, <3>1, AppendProperties
      <3>3. Closed(scan) = [pieces |-> Append(scan.pieces, scan.open), open |-> <<>>]
        BY <2>2 DEF Closed
      <3>4. QED
        BY <3>2, <3>3, NamesAre DEF Scans
    <2>3. QED
      BY <2>1, <2>2
  <1>4. ASSUME ~IsSeparator(c)
        PROVE  /\ ReadByte(scan, c) = [pieces |-> scan.pieces, open |-> Append(scan.open, c)]
               /\ ReadByte(scan, c) \in Scans
    <2>1. Append(scan.open, c) \in OpenName
      BY <1>1, <1>4, OpenGrows, NamesAre
    <2>2. ReadByte(scan, c) = [scan EXCEPT !.open = Append(scan.open, c)]
      BY <1>4 DEF ReadByte
    <2>3. \A z : [scan EXCEPT !.open = z] = [pieces |-> scan.pieces, open |-> z]
      BY DEF Scans
    <2>4. QED
      BY <1>1, <2>1, <2>2, <2>3 DEF Scans
  <1>5. IsSeparator(c) => ReadByte(scan, c) = Closed(scan)
    BY DEF ReadByte
  <1>6. QED
    BY <1>2, <1>3, <1>4, <1>5

\* Each turn yields a value of its loop.
LEMMA TurnsStay ==
  /\ Stays(ReadTurn, Scans, Int) /\ Start \in Scans
  /\ Stays(KeptTurn, Seq(Name), Name) /\ Stays(RebuiltTurn, Seq(Int), Name)
  /\ Stays(NamesTurn, Seq(Name), Name)
  <1>1. Stays(ReadTurn, Scans, Int)
    <2> SUFFICES ASSUME NEW x \in Scans, NEW i \in Nat, NEW c \in Int
                 PROVE  ReadTurn[<<x, i, c>>] \in Scans
      BY DEF Stays
    <2>1. ReadTurn[<<x, i, c>>] = ReadByte(x, c)
      BY DEF ReadTurn
    <2>2. QED
      BY <2>1, ReadKeeps
  <1>2. Start \in Scans
    <2>1. <<>> \in Seq(Name)
      OBVIOUS
    <2>2. QED
      BY <2>1, NamesAre DEF Scans, Start
  <1>3. Stays(KeptTurn, Seq(Name), Name)
    <2> SUFFICES ASSUME NEW x \in Seq(Name), NEW i \in Nat, NEW n \in Name
                 PROVE  KeptTurn[<<x, i, n>>] \in Seq(Name)
      BY DEF Stays
    <2>1. KeptTurn[<<x, i, n>>] = IF i = 1 \/ ~IsDot(n) THEN Append(x, n) ELSE x
      BY DEF KeptTurn
    <2>2. QED
      BY <2>1, AppendProperties
  <1>4. Stays(RebuiltTurn, Seq(Int), Name)
    <2> SUFFICES ASSUME NEW x \in Seq(Int), NEW i \in Nat, NEW n \in Name
                 PROVE  RebuiltTurn[<<x, i, n>>] \in Seq(Int)
      BY DEF Stays
    <2>1. RebuiltTurn[<<x, i, n>>] = IF i = 1 THEN x \o n ELSE Append(x, OS_PATH_SEPARATOR) \o n
      BY DEF RebuiltTurn
    <2>2. n \in Seq(Int) /\ OS_PATH_SEPARATOR \in Int
      BY NamesAre, PathAssumption DEF SLASH, BACKSLASH
    <2>3. Append(x, OS_PATH_SEPARATOR) \in Seq(Int)
      BY <2>2, AppendProperties
    <2>4. QED
      BY <2>1, <2>2, <2>3, ConcatProperties
  <1>5. Stays(NamesTurn, Seq(Name), Name)
    <2> SUFFICES ASSUME NEW x \in Seq(Name), NEW i \in Nat, NEW n \in Name
                 PROVE  NamesTurn[<<x, i, n>>] \in Seq(Name)
      BY DEF Stays
    <2>1. NamesTurn[<<x, i, n>>] = IF n # <<PERIOD>> THEN Append(x, n) ELSE x
      BY DEF NamesTurn
    <2>2. QED
      BY <2>1, AppendProperties
  <1>6. QED
    BY <1>1, <1>2, <1>3, <1>4, <1>5

\* The four operators are the loops of these turns.
LEMMA ScanRuns ==
  ASSUME NEW p \in Seq(Int)
  PROVE  RunsTo(ReadTurn, Start, p, Scanned(p))
  <1> DEFINE N == Len(p)
             f == CHOOSE f : f = [i \in 0 .. N |->
                    IF i = 0 THEN [pieces |-> <<>>, open |-> <<>>] ELSE ReadByte(f[i - 1], p[i])]
  <1>1. Scanned(p) = f[N]
    BY DEF Scanned
  <1>2. N \in Nat /\ \A i \in 1 .. N : p[i] \in Int /\ i \in Nat
    BY ElementOfSeq
  <1>3. PICK h : /\ h = [i \in 0 .. N |-> IF i = 0 THEN Start ELSE ReadTurn[<<h[i - 1], i, p[i]>>]]
                 /\ h \in [0 .. N -> Scans]
    <2>1. Runs(ReadTurn, Scans, Start, p)
      BY TurnsStay, RunExists
    <2>2. QED
      BY <2>1 DEF Runs
  <1> HIDE DEF N
  <1>4. \A x \in Scans : \A i \in 1 .. N : ReadTurn[<<x, i, p[i]>>] = ReadByte(x, p[i])
    BY <1>2 DEF ReadTurn
  <1>5. h = [i \in 0 .. N |->
               IF i = 0 THEN [pieces |-> <<>>, open |-> <<>>] ELSE ReadByte(h[i - 1], p[i])]
    <2>1. \A i \in 0 .. N : i # 0 => i \in 1 .. N /\ h[i - 1] \in Scans
      BY <1>2, <1>3
    <2>2. \A i \in 0 .. N : i # 0 => ReadTurn[<<h[i - 1], i, p[i]>>] = ReadByte(h[i - 1], p[i])
      BY <1>4, <2>1
    <2>3. QED
      BY <1>3, <2>2 DEF Start
  <1>6. f = [i \in 0 .. N |->
               IF i = 0 THEN [pieces |-> <<>>, open |-> <<>>] ELSE ReadByte(f[i - 1], p[i])]
    BY <1>5
  <1> HIDE DEF f
  <1>7. f[0] = Start /\ \A i \in 1 .. N : f[i] = ReadByte(f[i - 1], p[i])
    <2>1. 0 \in 0 .. N /\ \A i \in 1 .. N : i \in 0 .. N /\ i # 0
      BY <1>2
    <2>2. QED
      BY <1>6, <2>1 DEF Start
  <1>8. \A i \in 0 .. N : f[i] \in Scans
    <2>1. \A i \in 1 .. N : f[i - 1] \in Scans => f[i] \in Scans
      BY <1>2, <1>7, ReadKeeps
    <2>2. f[0] \in Scans
      BY <1>7, TurnsStay
    <2>3. QED
      BY <1>2, <2>1, <2>2, LoopStays
  <1>9. \A i \in 1 .. N : f[i] = ReadTurn[<<f[i - 1], i, p[i]>>]
    <2>1. \A i \in 1 .. N : i - 1 \in 0 .. N
      BY <1>2
    <2>2. QED
      BY <1>4, <1>7, <1>8, <2>1
  <1>10. QED
    BY <1>1, <1>7, <1>9 DEF RunsTo, N

\* The loop of Kept.
LEMMA KeptRuns ==
  ASSUME NEW ps \in Seq(Name)
  PROVE  RunsTo(KeptTurn, <<>>, ps, Kept(ps))
  <1> DEFINE N == Len(ps)
             f == CHOOSE f : f = [i \in 0 .. N |->
                    IF i = 0 THEN <<>>
                    ELSE IF i = 1 \/ ~IsDot(ps[i]) THEN Append(f[i - 1], ps[i])
                    ELSE f[i - 1]]
             Body(x, i) == IF i = 1 \/ ~IsDot(ps[i]) THEN Append(x, ps[i]) ELSE x
  <1>1. Kept(ps) = f[N]
    BY DEF Kept
  <1>2. N \in Nat /\ \A i \in 1 .. N : ps[i] \in Name /\ i \in Nat
    BY ElementOfSeq
  <1>3. PICK h : /\ h = [i \in 0 .. N |-> IF i = 0 THEN <<>> ELSE KeptTurn[<<h[i - 1], i, ps[i]>>]]
                 /\ h \in [0 .. N -> Seq(Name)]
    <2>1. <<>> \in Seq(Name)
      OBVIOUS
    <2>2. Runs(KeptTurn, Seq(Name), <<>>, ps)
      BY <2>1, TurnsStay, RunExists
    <2>3. QED
      BY <2>2 DEF Runs
  <1> HIDE DEF N
  <1>4. \A x \in Seq(Name) : \A i \in 1 .. N : KeptTurn[<<x, i, ps[i]>>] = Body(x, i)
    BY <1>2 DEF KeptTurn
  <1>5. h = [i \in 0 .. N |-> IF i = 0 THEN <<>> ELSE Body(h[i - 1], i)]
    <2>1. \A i \in 0 .. N : i # 0 => i \in 1 .. N /\ h[i - 1] \in Seq(Name)
      BY <1>2, <1>3
    <2> HIDE DEF Body
    <2>2. \A i \in 0 .. N : i # 0 => KeptTurn[<<h[i - 1], i, ps[i]>>] = Body(h[i - 1], i)
      BY <1>4, <2>1
    <2>3. QED
      BY <1>3, <2>2
  <1>6. f = [i \in 0 .. N |-> IF i = 0 THEN <<>> ELSE Body(f[i - 1], i)]
    BY <1>5
  <1> HIDE DEF f
  <1>7. f[0] = <<>> /\ \A i \in 1 .. N : f[i] = Body(f[i - 1], i)
    <2>1. 0 \in 0 .. N /\ \A i \in 1 .. N : i \in 0 .. N /\ i # 0
      BY <1>2
    <2> HIDE DEF Body
    <2>2. QED
      BY <1>6, <2>1
  <1>8. \A i \in 0 .. N : f[i] \in Seq(Name)
    <2> HIDE DEF Body
    <2>1. \A x \in Seq(Name) : \A i \in 1 .. N : Body(x, i) \in Seq(Name)
      <3>1. \A x \in Seq(Name) : \A i \in 1 .. N : KeptTurn[<<x, i, ps[i]>>] \in Seq(Name)
        BY <1>2, TurnsStay DEF Stays
      <3>2. QED
        BY <1>4, <3>1
    <2>2. \A i \in 1 .. N : f[i - 1] \in Seq(Name) => f[i] \in Seq(Name)
      BY <1>7, <2>1
    <2>3. f[0] \in Seq(Name)
      BY <1>7
    <2>4. QED
      BY <1>2, <2>2, <2>3, LoopStays
  <1>9. \A i \in 1 .. N : f[i] = KeptTurn[<<f[i - 1], i, ps[i]>>]
    <2>1. \A i \in 1 .. N : i - 1 \in 0 .. N
      BY <1>2
    <2> HIDE DEF Body
    <2>2. QED
      BY <1>4, <1>7, <1>8, <2>1
  <1>10. QED
    BY <1>1, <1>7, <1>9 DEF RunsTo, N

\* The loop of Rebuilt.
LEMMA RebuiltRuns ==
  ASSUME NEW ps \in Seq(Name)
  PROVE  RunsTo(RebuiltTurn, <<>>, ps, Rebuilt(ps))
  <1> DEFINE N == Len(ps)
             f == CHOOSE f : f = [i \in 0 .. N |->
                    IF i = 0 THEN <<>>
                    ELSE IF i = 1 THEN f[i - 1] \o ps[i]
                    ELSE Append(f[i - 1], OS_PATH_SEPARATOR) \o ps[i]]
             Body(x, i) == IF i = 1 THEN x \o ps[i] ELSE Append(x, OS_PATH_SEPARATOR) \o ps[i]
  <1>1. Rebuilt(ps) = f[N]
    BY DEF Rebuilt
  <1>2. N \in Nat /\ \A i \in 1 .. N : ps[i] \in Name /\ i \in Nat
    BY ElementOfSeq
  <1>3. PICK h : /\ h = [i \in 0 .. N |-> IF i = 0 THEN <<>> ELSE RebuiltTurn[<<h[i - 1], i, ps[i]>>]]
                 /\ h \in [0 .. N -> Seq(Int)]
    <2>1. <<>> \in Seq(Int)
      OBVIOUS
    <2>2. Runs(RebuiltTurn, Seq(Int), <<>>, ps)
      BY <2>1, TurnsStay, RunExists
    <2>3. QED
      BY <2>2 DEF Runs
  <1> HIDE DEF N
  <1>4. \A x \in Seq(Int) : \A i \in 1 .. N : RebuiltTurn[<<x, i, ps[i]>>] = Body(x, i)
    BY <1>2 DEF RebuiltTurn
  <1>5. h = [i \in 0 .. N |-> IF i = 0 THEN <<>> ELSE Body(h[i - 1], i)]
    <2>1. \A i \in 0 .. N : i # 0 => i \in 1 .. N /\ h[i - 1] \in Seq(Int)
      BY <1>2, <1>3
    <2> HIDE DEF Body
    <2>2. \A i \in 0 .. N : i # 0 => RebuiltTurn[<<h[i - 1], i, ps[i]>>] = Body(h[i - 1], i)
      BY <1>4, <2>1
    <2>3. QED
      BY <1>3, <2>2
  <1>6. f = [i \in 0 .. N |-> IF i = 0 THEN <<>> ELSE Body(f[i - 1], i)]
    BY <1>5
  <1> HIDE DEF f
  <1>7. f[0] = <<>> /\ \A i \in 1 .. N : f[i] = Body(f[i - 1], i)
    <2>1. 0 \in 0 .. N /\ \A i \in 1 .. N : i \in 0 .. N /\ i # 0
      BY <1>2
    <2> HIDE DEF Body
    <2>2. QED
      BY <1>6, <2>1
  <1>8. \A i \in 0 .. N : f[i] \in Seq(Int)
    <2> HIDE DEF Body
    <2>1. \A x \in Seq(Int) : \A i \in 1 .. N : Body(x, i) \in Seq(Int)
      <3>1. \A x \in Seq(Int) : \A i \in 1 .. N : RebuiltTurn[<<x, i, ps[i]>>] \in Seq(Int)
        BY <1>2, TurnsStay DEF Stays
      <3>2. QED
        BY <1>4, <3>1
    <2>2. \A i \in 1 .. N : f[i - 1] \in Seq(Int) => f[i] \in Seq(Int)
      BY <1>7, <2>1
    <2>3. f[0] \in Seq(Int)
      BY <1>7
    <2>4. QED
      BY <1>2, <2>2, <2>3, LoopStays
  <1>9. \A i \in 1 .. N : f[i] = RebuiltTurn[<<f[i - 1], i, ps[i]>>]
    <2>1. \A i \in 1 .. N : i - 1 \in 0 .. N
      BY <1>2
    <2> HIDE DEF Body
    <2>2. QED
      BY <1>4, <1>7, <1>8, <2>1
  <1>10. QED
    BY <1>1, <1>7, <1>9 DEF RunsTo, N

\* The loop of NamesOf.
LEMMA NamesRun ==
  ASSUME NEW ps \in Seq(Name)
  PROVE  RunsTo(NamesTurn, <<>>, ps, NamesOf(ps))
  <1> DEFINE N == Len(ps)
             f == CHOOSE f : f = [i \in 0 .. N |->
                    IF i = 0 THEN <<>>
                    ELSE IF ps[i] # <<PERIOD>> THEN Append(f[i - 1], ps[i])
                    ELSE f[i - 1]]
             Body(x, i) == IF ps[i] # <<PERIOD>> THEN Append(x, ps[i]) ELSE x
  <1>1. NamesOf(ps) = f[N]
    BY DEF NamesOf
  <1>2. N \in Nat /\ \A i \in 1 .. N : ps[i] \in Name /\ i \in Nat
    BY ElementOfSeq
  <1>3. PICK h : /\ h = [i \in 0 .. N |-> IF i = 0 THEN <<>> ELSE NamesTurn[<<h[i - 1], i, ps[i]>>]]
                 /\ h \in [0 .. N -> Seq(Name)]
    <2>1. <<>> \in Seq(Name)
      OBVIOUS
    <2>2. Runs(NamesTurn, Seq(Name), <<>>, ps)
      BY <2>1, TurnsStay, RunExists
    <2>3. QED
      BY <2>2 DEF Runs
  <1> HIDE DEF N
  <1>4. \A x \in Seq(Name) : \A i \in 1 .. N : NamesTurn[<<x, i, ps[i]>>] = Body(x, i)
    BY <1>2 DEF NamesTurn
  <1>5. h = [i \in 0 .. N |-> IF i = 0 THEN <<>> ELSE Body(h[i - 1], i)]
    <2>1. \A i \in 0 .. N : i # 0 => i \in 1 .. N /\ h[i - 1] \in Seq(Name)
      BY <1>2, <1>3
    <2> HIDE DEF Body
    <2>2. \A i \in 0 .. N : i # 0 => NamesTurn[<<h[i - 1], i, ps[i]>>] = Body(h[i - 1], i)
      BY <1>4, <2>1
    <2>3. QED
      BY <1>3, <2>2
  <1>6. f = [i \in 0 .. N |-> IF i = 0 THEN <<>> ELSE Body(f[i - 1], i)]
    BY <1>5
  <1> HIDE DEF f
  <1>7. f[0] = <<>> /\ \A i \in 1 .. N : f[i] = Body(f[i - 1], i)
    <2>1. 0 \in 0 .. N /\ \A i \in 1 .. N : i \in 0 .. N /\ i # 0
      BY <1>2
    <2> HIDE DEF Body
    <2>2. QED
      BY <1>6, <2>1
  <1>8. \A i \in 0 .. N : f[i] \in Seq(Name)
    <2> HIDE DEF Body
    <2>1. \A x \in Seq(Name) : \A i \in 1 .. N : Body(x, i) \in Seq(Name)
      <3>1. \A x \in Seq(Name) : \A i \in 1 .. N : NamesTurn[<<x, i, ps[i]>>] \in Seq(Name)
        BY <1>2, TurnsStay DEF Stays
      <3>2. QED
        BY <1>4, <3>1
    <2>2. \A i \in 1 .. N : f[i - 1] \in Seq(Name) => f[i] \in Seq(Name)
      BY <1>7, <2>1
    <2>3. f[0] \in Seq(Name)
      BY <1>7
    <2>4. QED
      BY <1>2, <2>2, <2>3, LoopStays
  <1>9. \A i \in 1 .. N : f[i] = NamesTurn[<<f[i - 1], i, ps[i]>>]
    <2>1. \A i \in 1 .. N : i - 1 \in 0 .. N
      BY <1>2
    <2> HIDE DEF Body
    <2>2. QED
      BY <1>4, <1>7, <1>8, <2>1
  <1>10. QED
    BY <1>1, <1>7, <1>9 DEF RunsTo, N

\* What is read of nothing, and of a byte more.
LEMMA ScannedGrows ==
  /\ Scanned(<<>>) = Start
  /\ \A p \in Seq(Int) : Scanned(p) \in Scans
  /\ \A p \in Seq(Int) : \A c \in Int : Scanned(Append(p, c)) = ReadByte(Scanned(p), c)
  <1>1. \A p \in Seq(Int) : Scanned(p) \in Scans
    BY ScanRuns, TurnsStay, RunStays
  <1>2. Scanned(<<>>) = Start
    <2>1. <<>> \in Seq(Int)
      OBVIOUS
    <2>2. RunsTo(ReadTurn, Start, <<>>, Scanned(<<>>))
      BY <2>1, ScanRuns
    <2>3. RunsTo(ReadTurn, Start, <<>>, Start)
      BY RunEmpty
    <2>4. QED
      BY <2>1, <2>2, <2>3, RunUnique
  <1>3. ASSUME NEW p \in Seq(Int), NEW c \in Int
        PROVE  Scanned(Append(p, c)) = ReadByte(Scanned(p), c)
    <2>1. Append(p, c) \in Seq(Int) /\ Len(p) + 1 \in Nat
      BY AppendProperties
    <2>2. RunsTo(ReadTurn, Start, Append(p, c), ReadTurn[<<Scanned(p), Len(p) + 1, c>>])
      BY ScanRuns, RunAppend
    <2>3. RunsTo(ReadTurn, Start, Append(p, c), Scanned(Append(p, c)))
      BY <2>1, ScanRuns
    <2>4. ReadTurn[<<Scanned(p), Len(p) + 1, c>>] = ReadByte(Scanned(p), c)
      BY <1>1, <2>1 DEF ReadTurn
    <2>5. ReadTurn[<<Scanned(p), Len(p) + 1, c>>] = Scanned(Append(p, c))
      <3> DEFINE t == Append(p, c)
                 y == ReadTurn[<<Scanned(p), Len(p) + 1, c>>]
                 z == Scanned(Append(p, c))
      <3>1. t \in Seq(Int)
        BY <2>1
      <3>2. RunsTo(ReadTurn, Start, t, y) /\ RunsTo(ReadTurn, Start, t, z)
        BY <2>2, <2>3
      <3> HIDE DEF t, y, z
      <3>3. y = z
        BY <3>1, <3>2, RunUnique
      <3>4. QED
        BY <3>3 DEF y, z
    <2>6. QED
      BY <2>4, <2>5
  <1>4. QED
    BY <1>1, <1>2, <1>3

\* The parts that are kept of nothing, and of a component more.
LEMMA KeptGrows ==
  /\ Kept(<<>>) = <<>>
  /\ \A ps \in Seq(Name) : Kept(ps) \in Seq(Name)
  /\ \A ps \in Seq(Name) : \A x \in Name :
       Kept(Append(ps, x)) = IF ps = <<>> \/ ~IsDot(x) THEN Append(Kept(ps), x) ELSE Kept(ps)
  <1>0. <<>> \in Seq(Name)
    OBVIOUS
  <1>1. \A ps \in Seq(Name) : Kept(ps) \in Seq(Name)
    BY <1>0, KeptRuns, TurnsStay, RunStays
  <1>2. Kept(<<>>) = <<>>
    <2>1. RunsTo(KeptTurn, <<>>, <<>>, Kept(<<>>))
      BY <1>0, KeptRuns
    <2>2. RunsTo(KeptTurn, <<>>, <<>>, <<>>)
      BY RunEmpty
    <2>3. QED
      BY <1>0, <2>1, <2>2, RunUnique
  <1>3. ASSUME NEW ps \in Seq(Name), NEW x \in Name
        PROVE  Kept(Append(ps, x)) = IF ps = <<>> \/ ~IsDot(x) THEN Append(Kept(ps), x) ELSE Kept(ps)
    <2>1. Append(ps, x) \in Seq(Name) /\ Len(ps) + 1 \in Nat /\ (Len(ps) + 1 = 1 <=> ps = <<>>)
      BY AppendProperties, EmptySeq
    <2>2. RunsTo(KeptTurn, <<>>, Append(ps, x), KeptTurn[<<Kept(ps), Len(ps) + 1, x>>])
      BY KeptRuns, RunAppend
    <2>3. RunsTo(KeptTurn, <<>>, Append(ps, x), Kept(Append(ps, x)))
      BY <2>1, KeptRuns
    <2>4. KeptTurn[<<Kept(ps), Len(ps) + 1, x>>] =
            IF ps = <<>> \/ ~IsDot(x) THEN Append(Kept(ps), x) ELSE Kept(ps)
      BY <1>1, <2>1 DEF KeptTurn
    <2>5. KeptTurn[<<Kept(ps), Len(ps) + 1, x>>] = Kept(Append(ps, x))
      <3> DEFINE t == Append(ps, x)
                 y == KeptTurn[<<Kept(ps), Len(ps) + 1, x>>]
                 z == Kept(Append(ps, x))
      <3>1. t \in Seq(Name)
        BY <2>1
      <3>2. RunsTo(KeptTurn, <<>>, t, y) /\ RunsTo(KeptTurn, <<>>, t, z)
        BY <2>2, <2>3
      <3> HIDE DEF t, y, z
      <3>3. y = z
        BY <3>1, <3>2, RunUnique
      <3>4. QED
        BY <3>3 DEF y, z
    <2>6. QED
      BY <2>4, <2>5
  <1>4. QED
    BY <1>1, <1>2, <1>3

\* The path that is rebuilt from nothing, and from a part more.
LEMMA RebuiltGrows ==
  /\ Rebuilt(<<>>) = <<>>
  /\ \A ps \in Seq(Name) : Rebuilt(ps) \in Seq(Int)
  /\ \A ps \in Seq(Name) : \A x \in Name :
       Rebuilt(Append(ps, x)) = IF ps = <<>> THEN x ELSE Append(Rebuilt(ps), OS_PATH_SEPARATOR) \o x
  <1>0. <<>> \in Seq(Name) /\ <<>> \in Seq(Int)
    OBVIOUS
  <1>1. \A ps \in Seq(Name) : Rebuilt(ps) \in Seq(Int)
    BY <1>0, RebuiltRuns, TurnsStay, RunStays
  <1>2. Rebuilt(<<>>) = <<>>
    <2>1. RunsTo(RebuiltTurn, <<>>, <<>>, Rebuilt(<<>>))
      BY <1>0, RebuiltRuns
    <2>2. RunsTo(RebuiltTurn, <<>>, <<>>, <<>>)
      BY RunEmpty
    <2>3. QED
      BY <1>0, <2>1, <2>2, RunUnique
  <1>3. ASSUME NEW ps \in Seq(Name), NEW x \in Name
        PROVE  Rebuilt(Append(ps, x)) = IF ps = <<>> THEN x ELSE Append(Rebuilt(ps), OS_PATH_SEPARATOR) \o x
    <2>1. Append(ps, x) \in Seq(Name) /\ Len(ps) + 1 \in Nat /\ (Len(ps) + 1 = 1 <=> ps = <<>>)
      BY AppendProperties, EmptySeq
    <2>2. RunsTo(RebuiltTurn, <<>>, Append(ps, x), RebuiltTurn[<<Rebuilt(ps), Len(ps) + 1, x>>])
      BY RebuiltRuns, RunAppend
    <2>3. RunsTo(RebuiltTurn, <<>>, Append(ps, x), Rebuilt(Append(ps, x)))
      BY <2>1, RebuiltRuns
    <2>4. RebuiltTurn[<<Rebuilt(ps), Len(ps) + 1, x>>] =
            IF ps = <<>> THEN Rebuilt(ps) \o x ELSE Append(Rebuilt(ps), OS_PATH_SEPARATOR) \o x
      BY <1>1, <2>1 DEF RebuiltTurn
    <2>5. ps = <<>> => Rebuilt(ps) \o x = x
      BY <1>2, NamesAre, ConcatEmptySeq
    <2>6. RebuiltTurn[<<Rebuilt(ps), Len(ps) + 1, x>>] = Rebuilt(Append(ps, x))
      <3> DEFINE t == Append(ps, x)
                 y == RebuiltTurn[<<Rebuilt(ps), Len(ps) + 1, x>>]
                 z == Rebuilt(Append(ps, x))
      <3>1. t \in Seq(Name)
        BY <2>1
      <3>2. RunsTo(RebuiltTurn, <<>>, t, y) /\ RunsTo(RebuiltTurn, <<>>, t, z)
        BY <2>2, <2>3
      <3> HIDE DEF t, y, z
      <3>3. y = z
        BY <3>1, <3>2, RunUnique
      <3>4. QED
        BY <3>3 DEF y, z
    <2>7. QED
      BY <2>4, <2>5, <2>6
  <1>4. QED
    BY <1>1, <1>2, <1>3

\* The names of nothing, and of a component more.
LEMMA NamesGrow ==
  /\ NamesOf(<<>>) = <<>>
  /\ \A ps \in Seq(Name) : \A x \in Name :
       NamesOf(Append(ps, x)) = IF x # <<PERIOD>> THEN Append(NamesOf(ps), x) ELSE NamesOf(ps)
  <1>0. <<>> \in Seq(Name)
    OBVIOUS
  <1>1. \A ps \in Seq(Name) : NamesOf(ps) \in Seq(Name)
    BY <1>0, NamesRun, TurnsStay, RunStays
  <1>2. NamesOf(<<>>) = <<>>
    <2>1. RunsTo(NamesTurn, <<>>, <<>>, NamesOf(<<>>))
      BY <1>0, NamesRun
    <2>2. RunsTo(NamesTurn, <<>>, <<>>, <<>>)
      BY RunEmpty
    <2>3. QED
      BY <1>0, <2>1, <2>2, RunUnique
  <1>3. ASSUME NEW ps \in Seq(Name), NEW x \in Name
        PROVE  NamesOf(Append(ps, x)) = IF x # <<PERIOD>> THEN Append(NamesOf(ps), x) ELSE NamesOf(ps)
    <2>1. Append(ps, x) \in Seq(Name) /\ Len(ps) + 1 \in Nat
      BY AppendProperties
    <2>2. RunsTo(NamesTurn, <<>>, Append(ps, x), NamesTurn[<<NamesOf(ps), Len(ps) + 1, x>>])
      BY NamesRun, RunAppend
    <2>3. RunsTo(NamesTurn, <<>>, Append(ps, x), NamesOf(Append(ps, x)))
      BY <2>1, NamesRun
    <2>4. NamesTurn[<<NamesOf(ps), Len(ps) + 1, x>>] =
            IF x # <<PERIOD>> THEN Append(NamesOf(ps), x) ELSE NamesOf(ps)
      BY <1>1, <2>1 DEF NamesTurn
    <2>5. NamesTurn[<<NamesOf(ps), Len(ps) + 1, x>>] = NamesOf(Append(ps, x))
      <3> DEFINE t == Append(ps, x)
                 y == NamesTurn[<<NamesOf(ps), Len(ps) + 1, x>>]
                 z == NamesOf(Append(ps, x))
      <3>1. t \in Seq(Name)
        BY <2>1
      <3>2. RunsTo(NamesTurn, <<>>, t, y) /\ RunsTo(NamesTurn, <<>>, t, z)
        BY <2>2, <2>3
      <3> HIDE DEF t, y, z
      <3>3. y = z
        BY <3>1, <3>2, RunUnique
      <3>4. QED
        BY <3>3 DEF y, z
    <2>6. QED
      BY <2>4, <2>5
  <1>4. QED
    BY <1>2, <1>3

\* Behind a separator, or at the beginning, a name is read as the open piece.
LEMMA NameRead ==
  ASSUME NEW q \in Seq(Int), Scanned(q).open = <<>>
  PROVE  \A x \in OpenName : Scanned(q \o x) = [pieces |-> Scanned(q).pieces, open |-> x]
  <1> DEFINE B == {c \in Int : ~IsSeparator(c)}
             ps == Scanned(q).pieces
             P == {x \in OpenName : Scanned(q \o x) = [pieces |-> ps, open |-> x]}
  <1>1. Scanned(q) \in Scans
    BY ScannedGrows
  <1>2. <<>> \in P
    <2>1. q \o <<>> = q
      BY ConcatEmptySeq
    <2>2. Scanned(q) = [pieces |-> ps, open |-> <<>>]
      BY <1>1 DEF Scans
    <2>3. QED
      BY <2>1, <2>2, NamesAre
  <1> HIDE DEF ps
  <1>3. ASSUME NEW x \in OpenName, NEW c \in B, x \in P PROVE Append(x, c) \in P
    <2>1. c \in Int /\ ~IsSeparator(c) /\ x \in Seq(Int)
      BY NamesAre
    <2>2. Append(x, c) \in OpenName
      BY <2>1, OpenGrows, NamesAre
    <2>3. q \o Append(x, c) = Append(q \o x, c) /\ q \o x \in Seq(Int)
      <3>1. <<c>> \in Seq(Int) /\ q \o x \in Seq(Int)
        BY <2>1, ConcatProperties
      <3>2. Append(x, c) = x \o <<c>> /\ Append(q \o x, c) = (q \o x) \o <<c>>
        BY <2>1, <3>1, AppendIsConcat
      <3>3. (q \o x) \o <<c>> = q \o (x \o <<c>>)
        BY <2>1, <3>1, ConcatAssociative
      <3>4. QED
        BY <3>1, <3>2, <3>3
    <2>4. Scanned(Append(q \o x, c)) = ReadByte(Scanned(q \o x), c)
      BY <2>1, <2>3, ScannedGrows
    <2>5. Scanned(q \o x) = [pieces |-> ps, open |-> x] /\ Scanned(q \o x) \in Scans
      BY <1>3, <2>3, ScannedGrows
    <2>6. ReadByte(Scanned(q \o x), c) = [pieces |-> ps, open |-> Append(x, c)]
      <3> DEFINE sc == Scanned(q \o x)
      <3>1. sc \in Scans /\ sc.pieces = ps /\ sc.open = x
        BY <2>5
      <3> HIDE DEF sc
      <3>2. ReadByte(sc, c) = [pieces |-> sc.pieces, open |-> Append(sc.open, c)]
        BY <2>1, <3>1, ReadKeeps
      <3>3. ReadByte(sc, c) = [pieces |-> ps, open |-> Append(x, c)]
        BY <3>1, <3>2
      <3>4. QED
        BY <3>3 DEF sc
    <2>7. Scanned(q \o Append(x, c)) = [pieces |-> ps, open |-> Append(x, c)]
      BY <2>3, <2>4, <2>6
    <2>8. QED
      BY <2>2, <2>7
  <1>4. \A x \in OpenName : x \in P
    <2>1. OpenName = Seq(B)
      BY DEF OpenName
    <2> HIDE DEF P, B
    <2>2. \A x \in Seq(B) : x \in P
      BY <1>2, <1>3, <2>1, SequencesGrow
    <2>3. QED
      BY <2>1, <2>2
  <1>5. QED
    BY <1>4 DEF ps

\* A rebuilt path is read as the parts it was rebuilt from.
LEMMA RebuiltRead ==
  \A ps \in Seq(Name) : \A x \in Name : Scanned(Rebuilt(Append(ps, x))) = [pieces |-> ps, open |-> x]
  <1> DEFINE P == {ps \in Seq(Name) :
                     \A x \in Name : Scanned(Rebuilt(Append(ps, x))) = [pieces |-> ps, open |-> x]}
  <1>0. <<>> \in Seq(Name) /\ <<>> \in Seq(Int)
    OBVIOUS
  <1>1. <<>> \in P
    <2> SUFFICES ASSUME NEW x \in Name
                 PROVE  Scanned(Rebuilt(Append(<<>>, x))) = [pieces |-> <<>>, open |-> x]
      BY <1>0
    <2>2. Rebuilt(Append(<<>>, x)) = x
      BY <1>0, RebuiltGrows
    <2>3. x \in OpenName /\ <<>> \o x = x
      BY NamesAre, ConcatEmptySeq
    <2>4. Scanned(<<>>).open = <<>> /\ Scanned(<<>>).pieces = <<>>
      BY ScannedGrows DEF Start
    <2>5. Scanned(<<>> \o x) = [pieces |-> Scanned(<<>>).pieces, open |-> x]
      BY <1>0, <2>3, <2>4, NameRead
    <2>6. QED
      BY <2>2, <2>3, <2>4, <2>5
  <1>2. ASSUME NEW ps \in Seq(Name), NEW y \in Name, ps \in P PROVE Append(ps, y) \in P
    <2> DEFINE qs == Append(ps, y)
               r == Rebuilt(qs)
               u == Append(r, OS_PATH_SEPARATOR)
    <2>1. qs \in Seq(Name) /\ qs # <<>>
      BY AppendProperties
    <2>2. Scanned(r) = [pieces |-> ps, open |-> y]
      BY <1>2
    <2>3. y \in Name /\ y # <<>> /\ y \in OpenName
      BY NamesAre
    <2> HIDE DEF qs
    <2>4. r \in Seq(Int)
      BY <2>1, RebuiltGrows
    <2> HIDE DEF r
    <2>5. OS_PATH_SEPARATOR \in Int /\ IsSeparator(OS_PATH_SEPARATOR)
      BY PathAssumption DEF IsSeparator, SLASH, BACKSLASH
    <2>6. u \in Seq(Int)
      BY <2>4, <2>5, AppendProperties
    <2>7. Scanned(u) = Closed(Scanned(r)) /\ Scanned(r) \in Scans
      BY <2>4, <2>5, ScannedGrows, ReadKeeps
    <2>8. Scanned(u).pieces = qs /\ Scanned(u).open = <<>>
      BY <2>2, <2>3, <2>7 DEF Closed, qs
    <2> HIDE DEF u
    <2>9. ASSUME NEW x \in Name PROVE Scanned(Rebuilt(Append(qs, x))) = [pieces |-> qs, open |-> x]
      <3>1. Rebuilt(Append(qs, x)) = u \o x
        BY <2>1, RebuiltGrows DEF u, r
      <3>2. x \in OpenName
        BY NamesAre
      <3>3. Scanned(u \o x) = [pieces |-> Scanned(u).pieces, open |-> x]
        BY <2>6, <2>8, <3>2, NameRead
      <3>4. QED
        BY <2>8, <3>1, <3>3
    <2>10. QED
      BY <2>1, <2>9 DEF qs
  <1>3. \A ps \in Seq(Name) : ps \in P
    <2> HIDE DEF P
    <2>1. QED
      BY <1>1, <1>2, SequencesGrow
  <1>4. QED
    BY <1>3

\* The components of a rebuilt path are its parts.
LEMMA ComponentsOfRebuilt ==
  \A ps \in Seq(Name) : Components(Rebuilt(ps)) = ps
  <1> DEFINE P == {ps \in Seq(Name) : Components(Rebuilt(ps)) = ps}
  <1>1. <<>> \in P
    <2>1. Rebuilt(<<>>) = <<>> /\ Scanned(<<>>) = Start
      BY RebuiltGrows, ScannedGrows
    <2>2. Components(Rebuilt(<<>>)) = <<>>
      BY <2>1 DEF Components, Closed, Start
    <2>3. QED
      BY <2>2
  <1>2. ASSUME NEW ps \in Seq(Name), NEW x \in Name, ps \in P PROVE Append(ps, x) \in P
    <2>1. Scanned(Rebuilt(Append(ps, x))) = [pieces |-> ps, open |-> x] /\ x # <<>>
      BY RebuiltRead, NamesAre
    <2>2. Components(Rebuilt(Append(ps, x))) = Append(ps, x)
      BY <2>1 DEF Components, Closed
    <2>3. QED
      BY <2>2, AppendProperties
  <1>3. \A ps \in Seq(Name) : ps \in P
    <2> HIDE DEF P
    <2>1. QED
      BY <1>1, <1>2, SequencesGrow
  <1>4. QED
    BY <1>3

\* How long a rebuilt path is, and that it is relative.
LEMMA RebuiltLooks ==
  /\ \A ps \in Seq(Name) : Len(Rebuilt(ps)) \in Nat
  /\ \A ps \in Seq(Name) : ps # <<>> => Rebuilt(ps) # <<>> /\ ~IsSeparator(Rebuilt(ps)[1])
  /\ \A ps \in Seq(Name) : \A x \in Name :
       Len(Rebuilt(Append(ps, x))) = IF ps = <<>> THEN Len(x) ELSE Len(Rebuilt(ps)) + 1 + Len(x)
  <1>1. \A ps \in Seq(Name) : Rebuilt(ps) \in Seq(Int) /\ Len(Rebuilt(ps)) \in Nat
    BY RebuiltGrows
  <1>2. ASSUME NEW ps \in Seq(Name), NEW x \in Name
        PROVE  /\ Len(Rebuilt(Append(ps, x))) =
                    IF ps = <<>> THEN Len(x) ELSE Len(Rebuilt(ps)) + 1 + Len(x)
               /\ ps # <<>> /\ Rebuilt(ps) # <<>> =>
                    Rebuilt(Append(ps, x))[1] = Rebuilt(ps)[1]
    <2> DEFINE r == Rebuilt(ps)
               u == Append(r, OS_PATH_SEPARATOR)
               w == u \o x
    <2>1. r \in Seq(Int) /\ Len(r) \in Nat /\ x \in Seq(Int) /\ Len(x) \in Nat /\ OS_PATH_SEPARATOR \in Int
      BY <1>1, NamesAre, PathAssumption DEF SLASH, BACKSLASH
    <2>2. Rebuilt(Append(ps, x)) = IF ps = <<>> THEN x ELSE w
      BY RebuiltGrows
    <2> HIDE DEF r
    <2>3. u \in Seq(Int) /\ Len(u) = Len(r) + 1 /\ \A i \in 1 .. Len(r) : u[i] = r[i]
      BY <2>1, AppendProperties
    <2> HIDE DEF u
    <2>4. /\ Len(w) = Len(u) + Len(x)
          /\ \A i \in 1 .. Len(u) + Len(x) : w[i] = IF i <= Len(u) THEN u[i] ELSE x[i - Len(u)]
      BY <2>1, <2>3, ConcatProperties
    <2> HIDE DEF w
    <2>5. Len(w) = Len(r) + 1 + Len(x)
      BY <2>1, <2>3, <2>4
    <2>6. r # <<>> => w[1] = r[1]
      <3> SUFFICES ASSUME r # <<>> PROVE w[1] = r[1]
        OBVIOUS
      <3>1. Len(r) # 0
        BY <2>1, EmptySeq
      <3>2. 1 \in 1 .. Len(r) /\ 1 \in 1 .. Len(u) + Len(x) /\ 1 <= Len(u)
        BY <2>1, <2>3, <3>1
      <3>3. QED
        BY <2>3, <2>4, <3>2
    <2>7. QED
      BY <2>2, <2>5, <2>6 DEF r
  <1> DEFINE P == {ps \in Seq(Name) :
                     ps # <<>> => Rebuilt(ps) # <<>> /\ ~IsSeparator(Rebuilt(ps)[1])}
  <1>3. <<>> \in P
    OBVIOUS
  <1>4. ASSUME NEW ps \in Seq(Name), NEW x \in Name, ps \in P PROVE Append(ps, x) \in P
    <2> DEFINE r == Rebuilt(Append(ps, x))
    <2>1. Append(ps, x) \in Seq(Name)
      BY AppendProperties
    <2>2. r \in Seq(Int) /\ Len(r) \in Nat
      BY <1>1, <2>1
    <2>3. r # <<>>
      <3>1. Len(x) \in Nat \ {0}
        BY NamesAre
      <3>2. Len(r) = IF ps = <<>> THEN Len(x) ELSE Len(Rebuilt(ps)) + 1 + Len(x)
        BY <1>2
      <3>3. Len(Rebuilt(ps)) \in Nat
        BY <1>1
      <3> HIDE DEF r
      <3>4. Len(r) # 0
        BY <3>1, <3>2, <3>3
      <3>5. QED
        BY <3>4, EmptySeq
    <2>4. ~IsSeparator(r[1])
      <3>1. CASE ps = <<>>
        <4>1. r = x
          BY <3>1, RebuiltGrows
        <4>2. QED
          BY <4>1, NamesAre
      <3>2. CASE ps # <<>>
        BY <1>2, <1>4, <3>2
      <3>3. QED
        BY <3>1, <3>2
    <2>5. QED
      BY <2>1, <2>3, <2>4
  <1>5. \A ps \in Seq(Name) : ps \in P
    <2> HIDE DEF P
    <2>1. QED
      BY <1>3, <1>4, SequencesGrow
  <1>6. QED
    BY <1>1, <1>2, <1>5

\* The bytes that a scan has needed, with a separator behind each piece.
Used(scan) ==
  Len(Rebuilt(scan.pieces)) + (IF scan.pieces = <<>> THEN 0 ELSE 1) + Len(scan.open)

\* A path is no longer when it is rebuilt from all its components ...
LEMMA RebuiltFits ==
  ASSUME NEW p \in Seq(Int)
  PROVE  Components(p) \in Seq(Name) /\ Len(Rebuilt(Components(p))) <= Len(p)
  <1> DEFINE P == {q \in Seq(Int) : Used(Scanned(q)) <= Len(q)}
  <1>1. <<>> \in P
    <2>1. Scanned(<<>>).pieces = <<>> /\ Scanned(<<>>).open = <<>>
      BY ScannedGrows DEF Start
    <2>2. Len(Rebuilt(<<>>)) = 0 /\ Len(<<>>) = 0
      BY RebuiltGrows
    <2>3. Used(Scanned(<<>>)) = Len(Rebuilt(<<>>)) + 0 + Len(<<>>)
      BY <2>1 DEF Used
    <2>4. QED
      BY <2>2, <2>3
  <1>2. ASSUME NEW q \in Seq(Int), NEW c \in Int, q \in P PROVE Append(q, c) \in P
    <2> DEFINE sc == Scanned(q)
               ps == sc.pieces
               x == sc.open
               R == Len(Rebuilt(ps))
               L == Len(q)
               next == Scanned(Append(q, c))
    <2>1. sc \in Scans /\ ps \in Seq(Name) /\ x \in OpenName
      BY ScannedGrows DEF Scans
    <2>2. next = ReadByte(sc, c)
      BY ScannedGrows
    <2>3. Used(sc) = R + (IF ps = <<>> THEN 0 ELSE 1) + Len(x)
      BY DEF Used
    <2>4. Append(q, c) \in Seq(Int) /\ Len(Append(q, c)) = L + 1
      BY AppendProperties
    <2>5. Used(sc) <= L /\ L \in Nat
      BY <1>2
    <2> HIDE DEF sc, ps, x, next, L
    <2>6. R \in Nat /\ Len(x) \in Nat
      BY <2>1, RebuiltLooks, NamesAre
    <2>7. ps = <<>> => R = 0
      <3>1. Rebuilt(<<>>) = <<>> /\ Len(<<>>) = 0
        BY RebuiltGrows
      <3>2. QED
        BY <3>1
    <2>8. Used(next) <= L + 1
      <3>1. CASE ~IsSeparator(c)
        <4>1. next = [pieces |-> ps, open |-> Append(x, c)]
          BY <2>1, <2>2, <3>1, ReadKeeps DEF ps, x
        <4>2. Len(Append(x, c)) = Len(x) + 1
          BY <2>1, <3>1, OpenGrows
        <4>3. Used(next) = R + (IF ps = <<>> THEN 0 ELSE 1) + (Len(x) + 1)
          BY <4>1, <4>2 DEF Used
        <4> HIDE DEF R
        <4>4. QED
          BY <2>3, <2>5, <2>6, <4>3
      <3>2. CASE IsSeparator(c) /\ x = <<>>
        <4>1. next = sc
          BY <2>2, <3>2 DEF ReadByte, Closed, x
        <4>2. Used(sc) \in Int
          <5> HIDE DEF R
          <5>1. QED
            BY <2>3, <2>6
        <4>3. QED
          BY <2>5, <4>1, <4>2
      <3>3. CASE IsSeparator(c) /\ x # <<>>
        <4>1. next = [pieces |-> Append(ps, x), open |-> <<>>]
          BY <2>2, <3>3 DEF ReadByte, Closed, x, ps
        <4>2. x \in Name
          BY <2>1, <3>3, NamesAre
        <4>3. Append(ps, x) # <<>>
          BY <2>1, <4>2, AppendProperties
        <4>4. Len(Rebuilt(Append(ps, x))) = IF ps = <<>> THEN Len(x) ELSE R + 1 + Len(x)
          BY <2>1, <4>2, RebuiltLooks
        <4>5. Used(next) = (IF ps = <<>> THEN Len(x) ELSE R + 1 + Len(x)) + 1 + 0
          BY <4>1, <4>3, <4>4 DEF Used
        <4> HIDE DEF R
        <4>6. QED
          BY <2>3, <2>5, <2>6, <2>7, <4>5
      <3>4. QED
        BY <3>1, <3>2, <3>3
    <2>9. QED
      BY <2>4, <2>8 DEF next
  <1>3. p \in P
    <2> HIDE DEF P
    <2>1. \A q \in Seq(Int) : q \in P
      BY <1>1, <1>2, SequencesGrow
    <2>2. QED
      BY <2>1
  <1> DEFINE ps == Scanned(p).pieces
             x == Scanned(p).open
             R == Len(Rebuilt(ps))
             cs == Components(p)
             L == Len(p)
  <1>4. ps \in Seq(Name) /\ x \in OpenName
    BY ScannedGrows DEF Scans
  <1>5. cs = IF x = <<>> THEN ps ELSE Append(ps, x)
    BY DEF Components, Closed
  <1>6. R + (IF ps = <<>> THEN 0 ELSE 1) + Len(x) <= L /\ L \in Nat
    <2>1. Used(Scanned(p)) <= L /\ L \in Nat
      BY <1>3
    <2>2. Used(Scanned(p)) = R + (IF ps = <<>> THEN 0 ELSE 1) + Len(x)
      BY DEF Used
    <2> HIDE DEF R, ps, x, L
    <2>3. QED
      BY <2>1, <2>2
  <1> HIDE DEF ps, x, cs, L
  <1>7. R \in Nat /\ Len(x) \in Nat
    BY <1>4, RebuiltLooks, NamesAre
  <1>8. cs \in Seq(Name) /\ Len(Rebuilt(cs)) <= L
    <2>1. CASE x = <<>>
      <3>1. Len(Rebuilt(cs)) = R /\ cs \in Seq(Name)
        BY <1>4, <1>5, <2>1
      <3> HIDE DEF R
      <3>2. QED
        BY <1>6, <1>7, <3>1
    <2>2. CASE x # <<>>
      <3>1. x \in Name
        BY <1>4, <2>2, NamesAre
      <3>2. cs = Append(ps, x)
        BY <1>5, <2>2
      <3>3. Len(Rebuilt(cs)) = IF ps = <<>> THEN Len(x) ELSE R + 1 + Len(x)
        BY <1>4, <3>1, <3>2, RebuiltLooks
      <3>4. cs \in Seq(Name)
        BY <1>4, <3>1, <3>2, AppendProperties
      <3> HIDE DEF R
      <3>5. QED
        BY <1>6, <1>7, <3>3, <3>4
    <2>3. QED
      BY <2>1, <2>2
  <1>9. QED
    BY <1>8 DEF cs, L

\* ... nor when it is rebuilt from those that are kept; what is kept once is kept again.
LEMMA KeptShrinks ==
  \A ps \in Seq(Name) :
    /\ Kept(ps) = <<>> <=> ps = <<>>
    /\ Len(Rebuilt(Kept(ps))) <= Len(Rebuilt(ps))
    /\ Kept(Kept(ps)) = Kept(ps)
  <1> DEFINE P == {ps \in Seq(Name) : /\ Kept(ps) = <<>> <=> ps = <<>>
                                      /\ Len(Rebuilt(Kept(ps))) <= Len(Rebuilt(ps))
                                      /\ Kept(Kept(ps)) = Kept(ps)}
  <1>1. <<>> \in P
    <2>1. Kept(<<>>) = <<>> /\ Rebuilt(<<>>) = <<>> /\ Len(<<>>) = 0
      BY KeptGrows, RebuiltGrows
    <2>2. QED
      BY <2>1
  <1>2. ASSUME NEW ps \in Seq(Name), NEW x \in Name, ps \in P PROVE Append(ps, x) \in P
    <2> DEFINE ks == Kept(ps)
               qs == Append(ps, x)
               js == Kept(qs)
               R == Len(Rebuilt(ps))
               K == Len(Rebuilt(ks))
    <2>1. ks \in Seq(Name) /\ qs \in Seq(Name) /\ qs # <<>>
      BY KeptGrows, AppendProperties
    <2>2. /\ ks = <<>> <=> ps = <<>>
          /\ K <= R
          /\ Kept(ks) = ks
      BY <1>2
    <2>3. js = IF ps = <<>> \/ ~IsDot(x) THEN Append(ks, x) ELSE ks
      BY KeptGrows
    <2>4. Len(Rebuilt(qs)) = IF ps = <<>> THEN Len(x) ELSE R + 1 + Len(x)
      BY RebuiltLooks
    <2> HIDE DEF ks, qs, js
    <2>5. R \in Nat /\ K \in Nat /\ Len(x) \in Nat
      BY <2>1, RebuiltLooks, NamesAre
    <2>6. CASE ps = <<>> \/ ~IsDot(x)
      <3>1. js = Append(ks, x) /\ js # <<>>
        BY <2>1, <2>3, <2>6, AppendProperties
      <3>2. Len(Rebuilt(js)) = IF ks = <<>> THEN Len(x) ELSE K + 1 + Len(x)
        BY <2>1, <3>1, RebuiltLooks
      <3>3. Len(Rebuilt(js)) <= Len(Rebuilt(qs))
        <4> HIDE DEF R, K
        <4>1. QED
          BY <2>2, <2>4, <2>5, <3>2
      <3>4. Kept(js) = js
        <4>1. Kept(Append(ks, x)) = IF ks = <<>> \/ ~IsDot(x) THEN Append(Kept(ks), x) ELSE Kept(ks)
          BY <2>1, KeptGrows
        <4>2. QED
          BY <2>2, <2>6, <3>1, <4>1
      <3>5. QED
        BY <2>1, <3>1, <3>3, <3>4 DEF qs, js
    <2>7. CASE ~(ps = <<>> \/ ~IsDot(x))
      <3>1. js = ks /\ js # <<>> /\ Kept(js) = js
        BY <2>2, <2>3, <2>7
      <3>2. Len(Rebuilt(js)) <= Len(Rebuilt(qs))
        <4>1. Len(Rebuilt(js)) = K
          BY <3>1
        <4> HIDE DEF R, K
        <4>2. QED
          BY <2>2, <2>4, <2>5, <2>7, <4>1
      <3>3. QED
        BY <2>1, <3>1, <3>2 DEF qs, js
    <2>8. QED
      BY <2>6, <2>7
  <1>3. \A ps \in Seq(Name) : ps \in P
    <2> HIDE DEF P
    <2>1. QED
      BY <1>1, <1>2, SequencesGrow
  <1>4. QED
    BY <1>3

\* No component behind the first begins with a dot but "." itself.
PlainComponents(ps) == \A i \in 2 .. Len(ps) : IsDot(ps[i]) => ps[i] = <<PERIOD>>

\* Then dropping the dots drops no name.
LEMMA NamesStay ==
  \A ps \in Seq(Name) : PlainComponents(ps) => NamesOf(Kept(ps)) = NamesOf(ps)
  <1> DEFINE P == {ps \in Seq(Name) : PlainComponents(ps) => NamesOf(Kept(ps)) = NamesOf(ps)}
  <1>1. <<>> \in P
    <2>1. Kept(<<>>) = <<>>
      BY KeptGrows
    <2>2. QED
      BY <2>1
  <1>2. ASSUME NEW ps \in Seq(Name), NEW x \in Name, ps \in P PROVE Append(ps, x) \in P
    <2> DEFINE ks == Kept(ps)
               qs == Append(ps, x)
    <2>1. /\ qs \in Seq(Name) /\ Len(qs) = Len(ps) + 1 /\ qs[Len(ps) + 1] = x
          /\ \A i \in 1 .. Len(ps) : qs[i] = ps[i]
      BY AppendProperties
    <2>2. ks \in Seq(Name)
      BY KeptGrows
    <2>3. Kept(qs) = IF ps = <<>> \/ ~IsDot(x) THEN Append(ks, x) ELSE ks
      BY KeptGrows
    <2>4. NamesOf(qs) = IF x # <<PERIOD>> THEN Append(NamesOf(ps), x) ELSE NamesOf(ps)
      BY NamesGrow
    <2> HIDE DEF qs
    <2>5. ASSUME PlainComponents(qs) PROVE NamesOf(Kept(qs)) = NamesOf(qs)
      <3>1. Len(ps) \in Nat
        OBVIOUS
      <3>2. PlainComponents(ps)
        <4>1. \A i \in 2 .. Len(ps) : i \in 1 .. Len(ps) /\ i \in 2 .. Len(qs)
          BY <2>1, <3>1
        <4>2. QED
          BY <2>1, <2>5, <4>1 DEF PlainComponents
      <3>3. NamesOf(ks) = NamesOf(ps)
        BY <1>2, <3>2
      <3> HIDE DEF ks
      <3>4. CASE ps = <<>> \/ ~IsDot(x)
        <4>1. NamesOf(Append(ks, x)) =
                IF x # <<PERIOD>> THEN Append(NamesOf(ks), x) ELSE NamesOf(ks)
          BY <2>2, NamesGrow
        <4>2. Kept(qs) = Append(ks, x)
          BY <2>3, <3>4
        <4>3. CASE x = <<PERIOD>>
          BY <2>4, <3>3, <4>1, <4>2, <4>3
        <4>4. CASE x # <<PERIOD>>
          BY <2>4, <3>3, <4>1, <4>2, <4>4
        <4>5. QED
          BY <4>3, <4>4
      <3>5. CASE ~(ps = <<>> \/ ~IsDot(x))
        <4>1. Len(ps) # 0
          BY <3>5, EmptySeq
        <4>2. Len(ps) + 1 \in 2 .. Len(qs)
          BY <2>1, <3>1, <4>1
        <4>3. x = <<PERIOD>>
          BY <2>1, <2>5, <3>5, <4>2 DEF PlainComponents
        <4>4. QED
          BY <2>3, <2>4, <3>3, <3>5, <4>3
      <3>6. QED
        BY <3>4, <3>5
    <2>6. QED
      BY <2>1, <2>5 DEF qs
  <1>3. \A ps \in Seq(Name) : ps \in P
    <2> HIDE DEF P
    <2>1. QED
      BY <1>1, <1>2, SequencesGrow
  <1>4. QED
    BY <1>3

\* What os_path_normalize gives for any path.
LEMMA NormalizeSettles ==
  ASSUME NEW path \in Seq(Int)
  PROVE  /\ Len(Normalize(path)) < OS_MAX_PATH_LENGTH
         /\ Normalize(Normalize(path)) = Normalize(path)
         /\ Plain(path) => Location(Normalize(path)) = Location(path)
  <1> DEFINE M == OS_MAX_PATH_LENGTH
             copy == WorkingCopy(path)
             ps == Components(copy)
             ks == Kept(ps)
             r == Rebuilt(ks)
             n == Normalize(path)
             dot == <<PERIOD>>
  <1>1. M \in Nat /\ M >= 2
    BY PathAssumption
  <1>2. \A p \in Seq(Int) : Len(p) < M => WorkingCopy(p) = p
    <2>1. \A p \in Seq(Int) : Len(p) < M => WorkingCopy(p) = SubSeq(p, 1, Len(p))
      BY DEF WorkingCopy
    <2>2. QED
      BY <2>1, SubSeqFull
  <1>3. copy \in Seq(Int) /\ Len(copy) < M
    <2>1. CASE Len(path) < M
      <3>1. copy = path
        BY <1>2, <2>1
      <3>2. QED
        BY <2>1, <3>1
    <2>2. CASE ~(Len(path) < M)
      <3>1. copy = SubSeq(path, 1, M - 1)
        BY <2>2 DEF WorkingCopy
      <3>2. Len(path) \in Nat /\ M - 1 \in 1 .. Len(path)
        BY <1>1, <2>2
      <3>3. \A i \in 1 .. M - 1 : path[i] \in Int
        <4>1. \A i \in 1 .. M - 1 : i \in 1 .. Len(path)
          BY <1>1, <3>2
        <4>2. QED
          BY <4>1, ElementOfSeq
      <3>4. SubSeq(path, 1, M - 1) \in Seq(Int) /\ Len(SubSeq(path, 1, M - 1)) = M - 1
        <4> HIDE DEF M
        <4>1. QED
          BY <1>1, <3>2, <3>3
      <3>5. QED
        BY <1>1, <3>1, <3>4
    <2>3. QED
      BY <2>1, <2>2
  <1> HIDE DEF copy
  <1>4. ps \in Seq(Name) /\ Len(Rebuilt(ps)) <= Len(copy)
    BY <1>3, RebuiltFits
  <1>5. n = IF r = <<>> THEN dot ELSE r
    BY DEF Normalize, copy
  <1>6. Plain(path) => copy = path /\ (path # <<>> => ~IsSeparator(path[1])) /\ PlainComponents(ps)
    BY <1>2 DEF Plain, PlainComponents, copy
  <1>7. /\ ks \in Seq(Name) /\ (ks = <<>> <=> ps = <<>>) /\ Kept(ks) = ks
        /\ Len(r) <= Len(Rebuilt(ps))
    BY <1>4, KeptGrows, KeptShrinks
  <1>8. PlainComponents(ps) => NamesOf(ks) = NamesOf(ps)
    BY <1>4, NamesStay
  <1>9. Components(r) = ks /\ (ks # <<>> => r # <<>> /\ ~IsSeparator(r[1]))
    BY <1>7, ComponentsOfRebuilt, RebuiltLooks
  <1>10. r \in Seq(Int) /\ (ks = <<>> => r = <<>>)
    BY <1>7, RebuiltGrows
  <1>11. Location(path) = [absolute |-> path # <<>> /\ IsSeparator(path[1]), names |-> NamesOf(Components(path))]
    BY DEF Location
  <1>12. Location(n) = [absolute |-> n # <<>> /\ IsSeparator(n[1]), names |-> NamesOf(Components(n))]
    BY DEF Location
  <1>13. Normalize(n) = LET rebuilt == Rebuilt(Kept(Components(WorkingCopy(n))))
                        IN  IF rebuilt = <<>> THEN dot ELSE rebuilt
    BY DEF Normalize
  <1>14. Plain(path) => NamesOf(Components(path)) = NamesOf(ks)
    BY <1>6, <1>8
  <1>15. Len(r) < M
    <2>1. Len(r) \in Nat /\ Len(Rebuilt(ps)) \in Nat /\ Len(copy) \in Nat
      BY <1>3, <1>4, <1>10, RebuiltLooks
    <2>2. QED
      BY <1>1, <1>3, <1>4, <1>7, <2>1
  <1> HIDE DEF ps, ks, r, n, M
  <1>16. CASE ks # <<>>
    <2>1. n = r /\ r # <<>> /\ ~IsSeparator(r[1])
      BY <1>5, <1>9, <1>16
    <2>2. WorkingCopy(n) = n
      BY <1>2, <1>10, <1>15, <2>1
    <2>3. Normalize(n) = n
      <3>1. Rebuilt(Kept(Components(WorkingCopy(n)))) = r
        BY <1>7, <1>9, <2>1, <2>2 DEF r
      <3>2. QED
        BY <1>13, <2>1, <3>1
    <2>4. Plain(path) => Location(n) = Location(path)
      BY <1>6, <1>9, <1>11, <1>12, <1>14, <2>1
    <2>5. QED
      BY <1>15, <2>1, <2>3, <2>4 DEF n, M
  <1>17. CASE ks = <<>>
    <2>1. n = dot
      BY <1>5, <1>10, <1>17
    <2>2. /\ PERIOD \in Int /\ ~IsSeparator(PERIOD) /\ dot \in Seq(Int) /\ Len(dot) = 1
          /\ dot # <<>> /\ dot[1] = PERIOD
      BY DEF PERIOD, SLASH, BACKSLASH, IsSeparator
    <2>3. dot \in Name
      <3>1. <<>> \in OpenName /\ <<>> \in Seq(Int)
        BY NamesAre
      <3>2. Append(<<>>, PERIOD) \in Name
        BY <2>2, <3>1, OpenGrows
      <3>3. Append(<<>>, PERIOD) = dot
        OBVIOUS
      <3>4. QED
        BY <3>2, <3>3
    <2> HIDE DEF dot
    <2> DEFINE ds == Append(<<>>, dot)
    <2>4. <<>> \in Seq(Name)
      OBVIOUS
    <2>5. /\ ds \in Seq(Name) /\ Rebuilt(ds) = dot
          /\ Kept(ds) = ds
          /\ NamesOf(ds) = NamesOf(<<>>)
      <3>1. ds \in Seq(Name) /\ Rebuilt(ds) = dot
        BY <2>3, <2>4, AppendProperties, RebuiltGrows
      <3>2. Kept(ds) = ds
        <4>1. Kept(ds) = Append(Kept(<<>>), dot)
          BY <2>3, <2>4, KeptGrows
        <4>2. Kept(<<>>) = <<>>
          BY KeptGrows
        <4>3. QED
          BY <4>1, <4>2
      <3>3. NamesOf(ds) = NamesOf(<<>>)
        BY <2>3, <2>4, NamesGrow DEF dot
      <3>4. QED
        BY <3>1, <3>2, <3>3
    <2> HIDE DEF ds
    <2>6. Components(dot) = ds
      BY <2>5, ComponentsOfRebuilt
    <2>7. WorkingCopy(dot) = dot
      <3>1. 1 < M
        BY <1>1
      <3>2. QED
        BY <1>2, <2>2, <3>1 DEF dot
    <2>8. Normalize(n) = n
      <3>1. Rebuilt(Kept(Components(WorkingCopy(n)))) = dot
        BY <2>1, <2>5, <2>6, <2>7
      <3>2. QED
        BY <1>13, <2>1, <3>1
    <2>9. ~(n # <<>> /\ IsSeparator(n[1]))
      BY <2>1, <2>2 DEF dot
    <2>10. Plain(path) => Location(n) = Location(path)
      <3>1. NamesOf(Components(n)) = NamesOf(ks)
        BY <1>17, <2>1, <2>5, <2>6
      <3>2. QED
        BY <1>6, <1>11, <1>12, <1>14, <2>9, <3>1
    <2>11. Len(n) < M
      <3>1. Len(n) = 1
        BY <2>1, <2>2 DEF dot
      <3>2. QED
        BY <1>1, <3>1
    <2>12. QED
      BY <2>8, <2>10, <2>11 DEF n, M
  <1>18. QED
    BY <1>16, <1>17

(***************************************************************************)
(* Words                                                                   *)
(***************************************************************************)

\* Texts that agree up to a place and behind it are one.
LEMMA TwoPieces ==
  ASSUME NEW C, NEW u \in Seq(C), NEW v \in Seq(C), NEW n \in Nat, n <= Len(u), Len(u) = Len(v),
         SubSeq(u, 1, n) = SubSeq(v, 1, n), SubSeq(u, n + 1, Len(u)) = SubSeq(v, n + 1, Len(v))
  PROVE  u = v
  <1> DEFINE L == Len(u)
  <1>1. L \in Nat /\ Len(v) = L
    OBVIOUS
  <1>2. \A i \in 1 .. L : u[i] \in C /\ v[i] \in C
    BY ElementOfSeq
  <1> HIDE DEF L
  <1>3. ASSUME NEW i \in 1 .. L PROVE u[i] = v[i]
    <2>1. CASE i <= n
      <3>1. i \in 1 .. n - 1 + 1 /\ 1 + i - 1 = i /\ \A k \in 1 .. n : k \in 1 .. L
        BY <1>1, <2>1 DEF L
      <3>2. \A k \in 1 .. n : u[k] \in C /\ v[k] \in C
        BY <1>2, <3>1
      <3>3. SubSeq(u, 1, n)[i] = u[i] /\ SubSeq(v, 1, n)[i] = v[i]
        BY <3>1, <3>2, SubSeqProperties
      <3>4. QED
        BY <3>3
    <2>2. CASE ~ (i <= n)
      <3> DEFINE k == i - n
      <3>1. /\ k \in 1 .. L - (n + 1) + 1 /\ n + 1 + k - 1 = i
            /\ n + 1 \in Int /\ \A j \in n + 1 .. L : j \in 1 .. L
        BY <1>1, <2>2
      <3>2. \A j \in n + 1 .. L : u[j] \in C /\ v[j] \in C
        BY <1>2, <3>1
      <3> HIDE DEF k
      <3>3. SubSeq(u, n + 1, L)[k] = u[i] /\ SubSeq(v, n + 1, L)[k] = v[i]
        BY <1>1, <3>1, <3>2, SubSeqProperties
      <3>4. SubSeq(u, n + 1, L) = SubSeq(v, n + 1, L)
        BY <1>1 DEF L
      <3>5. QED
        BY <3>3, <3>4
    <2>3. QED
      BY <2>1, <2>2
  <1>4. QED
    BY <1>1, <1>3, SeqEqual DEF L

\* A comparison behind a prefix that both have compares the whole.
LEMMA InferSays ==
  ASSUME NEW C, NEW w \in Seq(C), NEW spelling \in Seq(C), NEW p \in Seq(C), NEW n, Len(p) = n,
         Starts(w, p), Starts(spelling, p), NEW t
  PROVE  Infer(w, n, t, spelling) # IDENT => Infer(w, n, t, spelling) = t /\ w = spelling
  <1> SUFFICES ASSUME Infer(w, n, t, spelling) # IDENT
               PROVE  Infer(w, n, t, spelling) = t /\ w = spelling
    OBVIOUS
  <1>1. /\ Len(w) = Len(spelling) /\ From(w, n + 1) = From(spelling, n + 1)
        /\ Infer(w, n, t, spelling) = t
    BY DEF Infer
  <1>2. n \in Nat
    OBVIOUS
  <1>3. n <= Len(w) /\ SubSeq(w, 1, n) = SubSeq(spelling, 1, n)
    BY <1>2 DEF Starts
  <1>4. SubSeq(w, n + 1, Len(w)) = SubSeq(spelling, n + 1, Len(spelling))
    BY <1>1 DEF From
  <1>5. w = spelling
    BY <1>1, <1>2, <1>3, <1>4, TwoPieces
  <1>6. QED
    BY <1>1, <1>5

\* The words of the trie and its letters are sequences of characters.
LEMMA LettersAreTexts ==
  ASSUME NEW Character, STRING = Seq(Character)
  PROVE  /\ \A t \in DOMAIN VALUE : t # IDENT /\ Spellings(t) \subseteq Seq(Character)
         /\ \A l \in DOMAIN Straight :
              /\ l \in Seq(Character) /\ Len(l) = 1 /\ Straight[l] \in DOMAIN VALUE
              /\ Starts(VALUE[Straight[l]], l)
         /\ \A p \in Prefixes :
              /\ p[1] \in Seq(Character) /\ Len(p[1]) = p[2] /\ p[3] \in DOMAIN VALUE
              /\ \A spelling \in Spellings(p[3]) : Starts(spelling, p[1])
  <1>1. \A x : x \in STRING <=> x \in Seq(Character)
    OBVIOUS
  <1>2. QED
    BY <1>1, LettersAssumption, Zenon

\* What a word is taken for, it spells.
Spelt(w, t) == t # IDENT => t \in DOMAIN VALUE /\ w \in Spellings(t)

LEMMA PrefixSays ==
  ASSUME NEW Character, STRING = Seq(Character), NEW w \in Seq(Character), NEW p \in Prefixes, Starts(w, p[1])
  PROVE  /\ Spelt(w, Value(w, p[2], p[3]))
         /\ p[3] \in DOMAIN ALT => Spelt(w, Either(w, p[2], p[3]))
  <1> DEFINE q == p[1]
             n == p[2]
             t == p[3]
             long == VALUE[t]
  <1>1. /\ q \in Seq(Character) /\ Len(q) = n /\ t \in DOMAIN VALUE
        /\ \A spelling \in Spellings(t) : Starts(spelling, q) /\ spelling \in Seq(Character)
    BY LettersAreTexts
  <1>2. Starts(w, q)
    OBVIOUS
  <1>3. Value(w, n, t) = Infer(w, n, t, long)
    BY DEF Value
  <1>4. Either(w, n, t) = IF Value(w, n, t) = t THEN t ELSE Infer(w, n, t, ALT[t])
    BY DEF Either
  <1> HIDE DEF q, n, t
  <1>5. long \in Spellings(t)
    BY DEF Spellings
  <1>6. t \in DOMAIN ALT => ALT[t] \in Spellings(t)
    BY DEF Spellings
  <1> HIDE DEF long
  <1>7. \A spelling \in Spellings(t) :
          Infer(w, n, t, spelling) # IDENT => Infer(w, n, t, spelling) = t /\ w = spelling
    <2> SUFFICES ASSUME NEW spelling \in Spellings(t)
                 PROVE  Infer(w, n, t, spelling) # IDENT => Infer(w, n, t, spelling) = t /\ w = spelling
      OBVIOUS
    <2>1. spelling \in Seq(Character) /\ Starts(spelling, q)
      BY <1>1
    <2>2. q \in Seq(Character) /\ Len(q) = n
      BY <1>1
    <2>3. QED
      BY <1>2, <2>1, <2>2, InferSays
  <1>8. t # IDENT
    BY <1>1, LettersAreTexts
  <1>9. Spelt(w, Value(w, n, t)) /\ (Value(w, n, t) = t => w \in Spellings(t))
    <2>1. Infer(w, n, t, long) # IDENT => Infer(w, n, t, long) = t /\ w = long
      BY <1>5, <1>7
    <2>2. QED
      BY <1>1, <1>3, <1>5, <1>8, <2>1 DEF Spelt
  <1>10. t \in DOMAIN ALT => Spelt(w, Either(w, n, t))
    <2>1. t \in DOMAIN ALT =>
            (Infer(w, n, t, ALT[t]) # IDENT => Infer(w, n, t, ALT[t]) = t /\ w = ALT[t])
      BY <1>6, <1>7
    <2>2. QED
      BY <1>1, <1>4, <1>6, <1>9, <2>1 DEF Spelt
  <1>11. QED
    BY <1>9, <1>10 DEF n, t

\* A letter that leads straight to a keyword.
LEMMA StraightSays ==
  ASSUME NEW Character, STRING = Seq(Character), NEW w \in Seq(Character), Len(w) > 1,
         Letter(w, 1) \in DOMAIN Straight
  PROVE  Spelt(w, Value(w, 1, Straight[Letter(w, 1)]))
  <1> DEFINE l == Letter(w, 1)
             t == Straight[l]
             long == VALUE[t]
  <1>1. /\ l \in Seq(Character) /\ Len(l) = 1 /\ t \in DOMAIN VALUE /\ Starts(long, l)
    BY LettersAreTexts
  <1>2. w \in Seq(Character)
    OBVIOUS
  <1>3. Starts(w, l)
    <2>1. SubSeq(w, 1, 1) = l
      BY DEF Letter
    <2>2. Len(w) \in Nat
      BY <1>2
    <2>3. Len(w) >= 1
      BY <2>2
    <2> HIDE DEF l
    <2>4. QED
      BY <1>1, <2>1, <2>3 DEF Starts
  <1> HIDE DEF l, t
  <1>4. Value(w, 1, t) = Infer(w, 1, t, long) /\ long \in Spellings(t)
    BY DEF Value, Spellings
  <1> HIDE DEF long
  <1>5. long \in Seq(Character) /\ t # IDENT
    BY <1>1, <1>4, LettersAreTexts
  <1>6. Infer(w, 1, t, long) # IDENT => Infer(w, 1, t, long) = t /\ w = long
    <2>1. l \in Seq(Character) /\ Len(l) = 1 /\ Starts(long, l)
      BY <1>1
    <2>2. QED
      BY <1>3, <1>5, <2>1, InferSays
  <1>7. Spelt(w, Value(w, 1, t))
    BY <1>1, <1>4, <1>6 DEF Spelt
  <1>8. QED
    BY <1>7 DEF l, t

\* Of a word that is not misread, the trie finds only what it spells.
LEMMA TrieSays ==
  ASSUME NEW Character, STRING = Seq(Character), NEW w \in Seq(Character), ~Misread(w)
  PROVE  Spelt(w, IdentifierType(w))
  <1>0. Spelt(w, IDENT)
    BY DEF Spelt
  <1>1. Starts(w, "const") => Spelt(w, HandleC(w))
    <2> SUFFICES ASSUME Starts(w, "const") PROVE Spelt(w, HandleC(w))
      OBVIOUS
    <2>1. <<"const", 5, "TOK_CONSTANT">> \in Prefixes
      BY DEF Prefixes
    <2>2. Spelt(w, Value(w, 5, "TOK_CONSTANT"))
      BY <2>1, PrefixSays
    <2>3. Len(w) = 5 => Spelt(w, "TOK_CONSTANT")
      <3> SUFFICES ASSUME Len(w) = 5 PROVE Spelt(w, "TOK_CONSTANT")
        OBVIOUS
      <3>1. Len("const") = 5
        BY <2>1, LettersAreTexts
      <3>2. w \in Seq(Character)
        OBVIOUS
      <3>3. w = SubSeq(w, 1, 5)
        BY <3>2, SubSeqFull
      <3>4. w = "const"
        BY <3>1, <3>3 DEF Starts
      <3>5. "const" \in Spellings("TOK_CONSTANT") /\ "TOK_CONSTANT" \in DOMAIN VALUE
        BY DEF Spellings, VALUE, ALT
      <3>6. QED
        BY <3>4, <3>5 DEF Spelt
    <2>4. QED
      BY <2>2, <2>3 DEF HandleC
  <1>2. Spelt(w, HandleC(w))
    <2>1. <<"cont", 4, "TOK_CONTINUE">> \in Prefixes
      BY DEF Prefixes
    <2>2. Starts(w, "cont") => Spelt(w, Value(w, 4, "TOK_CONTINUE"))
      BY <2>1, PrefixSays
    <2>3. QED
      BY <1>0, <1>1, <2>2 DEF HandleC
  <1>3. Spelt(w, HandleD(w))
    <2>1. CASE Starts(w, "def") /\ Len(w) = 3
      <3>1. <<"def", 3, "TOK_DEFINE">> \in Prefixes
        BY DEF Prefixes
      <3>2. Len("def") = 3
        BY <3>1, LettersAreTexts
      <3>3. w \in Seq(Character)
        OBVIOUS
      <3>4. w = SubSeq(w, 1, 3)
        BY <2>1, <3>3, SubSeqFull
      <3>5. w = "def"
        BY <2>1, <3>2, <3>4 DEF Starts
      <3>6. "def" \in Spellings("TOK_DEFINE") /\ "TOK_DEFINE" \in DOMAIN VALUE
        BY DEF Spellings, VALUE, ALT
      <3>7. HandleD(w) = "TOK_DEFINE"
        BY <2>1 DEF HandleD
      <3>8. QED
        BY <3>5, <3>6, <3>7 DEF Spelt
    <2>2. CASE Starts(w, "def") /\ Len(w) # 3
      <3>1. HandleD(w) = Infer(w, 4, "TOK_DEFINE", VALUE["TOK_DEFINE"])
        BY <2>2 DEF HandleD, Value
      <3>2. HandleD(w) # IDENT => Len(w) = 6 /\ From(w, 5) = "ne" /\ HandleD(w) = "TOK_DEFINE"
        <4>1. 4 + 1 = 5
          OBVIOUS
        <4>2. QED
          BY <3>1, <4>1, LettersAssumption DEF Infer
      <3>3. Len(w) = 6 /\ From(w, 5) = "ne" => w = "define"
        BY <2>2 DEF Misread
      <3>4. "define" \in Spellings("TOK_DEFINE") /\ "TOK_DEFINE" \in DOMAIN VALUE
        BY DEF Spellings, VALUE
      <3>5. QED
        BY <3>2, <3>3, <3>4 DEF Spelt
    <2>3. CASE ~Starts(w, "def") /\ Starts(w, "do")
      <3>1. w = "do" /\ HandleD(w) = "TOK_DO"
        BY <2>3 DEF Misread, HandleD
      <3>2. "do" \in Spellings("TOK_DO") /\ "TOK_DO" \in DOMAIN VALUE
        BY DEF Spellings, VALUE
      <3>3. QED
        BY <3>1, <3>2 DEF Spelt
    <2>4. CASE ~Starts(w, "def") /\ ~Starts(w, "do")
      BY <1>0, <2>4 DEF HandleD
    <2>5. QED
      BY <2>1, <2>2, <2>3, <2>4
  <1>4. Spelt(w, HandleE(w))
    <2>1. <<"el", 2, "TOK_ELSE">> \in Prefixes
      BY DEF Prefixes
    <2>2. Starts(w, "el") => Spelt(w, Value(w, 2, "TOK_ELSE"))
      BY <2>1, PrefixSays
    <2>3. QED
      BY <1>0, <2>2 DEF HandleE
  <1>5. Spelt(w, HandleF(w))
    <2>1. /\ <<"fa", 2, "TOK_FALSE">> \in Prefixes /\ <<"fo", 2, "TOK_FOR">> \in Prefixes
          /\ <<"fu", 2, "TOK_FUNC">> \in Prefixes /\ "TOK_FUNC" \in DOMAIN ALT
      BY DEF Prefixes, ALT
    <2>2. Starts(w, "fa") => Spelt(w, Value(w, 2, "TOK_FALSE"))
      BY <2>1, PrefixSays
    <2>3. Starts(w, "fo") => Spelt(w, Value(w, 2, "TOK_FOR"))
      BY <2>1, PrefixSays
    <2>4. Starts(w, "fu") => Spelt(w, Either(w, 2, "TOK_FUNC"))
      BY <2>1, PrefixSays
    <2>5. \/ Starts(w, "fa") /\ HandleF(w) = Value(w, 2, "TOK_FALSE")
          \/ Starts(w, "fo") /\ HandleF(w) = Value(w, 2, "TOK_FOR")
          \/ Starts(w, "fu") /\ HandleF(w) = Either(w, 2, "TOK_FUNC")
          \/ HandleF(w) = IDENT
      BY DEF HandleF
    <2>6. QED
      BY <1>0, <2>2, <2>3, <2>4, <2>5
  <1>6. Spelt(w, HandleI(w))
    <2>1. <<"is", 2, "TOK_IS_SET">> \in Prefixes
      BY DEF Prefixes
    <2>2. Starts(w, "is") => Spelt(w, Value(w, 2, "TOK_IS_SET"))
      BY <2>1, PrefixSays
    <2>3. Starts(w, "if") => Spelt(w, "TOK_IF")
      <3>1. Starts(w, "if") => w = "if"
        BY DEF Misread
      <3>2. "if" \in Spellings("TOK_IF") /\ "TOK_IF" \in DOMAIN VALUE
        BY DEF Spellings, VALUE
      <3>3. QED
        BY <3>1, <3>2 DEF Spelt
    <2>4. \/ Starts(w, "if") /\ HandleI(w) = "TOK_IF"
          \/ Starts(w, "is") /\ HandleI(w) = Value(w, 2, "TOK_IS_SET")
          \/ HandleI(w) = IDENT
      BY DEF HandleI
    <2>5. QED
      BY <1>0, <2>2, <2>3, <2>4
  <1>7. Letter(w, 1) = "v" /\ Len(w) > 1 => Spelt(w, Either(w, 1, "TOK_VARIABLE"))
    <2> SUFFICES ASSUME Letter(w, 1) = "v", Len(w) > 1 PROVE Spelt(w, Either(w, 1, "TOK_VARIABLE"))
      OBVIOUS
    <2>1. <<"v", 1, "TOK_VARIABLE">> \in Prefixes /\ "TOK_VARIABLE" \in DOMAIN ALT
      BY DEF Prefixes, ALT
    <2>2. Len("v") = 1
      BY <2>1, LettersAreTexts
    <2>3. w \in Seq(Character)
      OBVIOUS
    <2>4. Starts(w, "v")
      BY <2>2, <2>3 DEF Starts, Letter
    <2>5. QED
      BY <2>1, <2>4, PrefixSays
  <1>8. \/ IdentifierType(w) = IDENT
        \/ /\ Len(w) > 1 /\ Letter(w, 1) \in DOMAIN Straight
           /\ IdentifierType(w) = Value(w, 1, Straight[Letter(w, 1)])
        \/ Len(w) > 1 /\ Letter(w, 1) = "v" /\ IdentifierType(w) = Either(w, 1, "TOK_VARIABLE")
        \/ IdentifierType(w) \in {HandleC(w), HandleD(w), HandleE(w), HandleF(w), HandleI(w)}
    BY DEF IdentifierType
  <1>9. QED
    BY <1>0, <1>2, <1>3, <1>4, <1>5, <1>6, <1>7, <1>8, StraightSays

(***************************************************************************)
(* Options                                                                 *)
(***************************************************************************)

\* A text begins with another where they agree at every place of the other.
LEMMA BeginsAt ==
  ASSUME NEW C, NEW s \in Seq(C), NEW p \in Seq(C)
  PROVE  BeginsWith(s, p) <=> Len(s) >= Len(p) /\ \A i \in 1 .. Len(p) : s[i] = p[i]
  <1> DEFINE n == Len(p)
  <1>1. n \in Nat /\ Len(s) \in Nat
    OBVIOUS
  <1>2. (\A i \in 1 .. Len(s) : s[i] \in C) /\ (\A i \in 1 .. n : p[i] \in C)
    BY ElementOfSeq
  <1> HIDE DEF n
  <1>3. CASE Len(s) >= n
    <2>1. \A k \in 1 .. n : s[k] \in C
      <3>1. \A k \in 1 .. n : k \in 1 .. Len(s)
        BY <1>1, <1>3
      <3>2. QED
        BY <1>2, <3>1
    <2>2. Len(SubSeq(s, 1, n)) = n /\ \A i \in 1 .. n : SubSeq(s, 1, n)[i] = s[i]
      <3>1. n - 1 + 1 = n /\ (1 <= n + 1) /\ \A i \in 1 .. n : 1 + i - 1 = i
        BY <1>1
      <3>2. /\ Len(SubSeq(s, 1, n)) = n - 1 + 1
            /\ \A i \in 1 .. n - 1 + 1 : SubSeq(s, 1, n)[i] = s[1 + i - 1]
        BY <1>1, <2>1, <3>1, SubSeqProperties
      <3>3. QED
        BY <3>1, <3>2
    <2>3. SubSeq(s, 1, n) \in Seq(C)
      BY <1>1, <2>1, SubSeqProperties
    <2>4. SubSeq(s, 1, n) = p <=> \A i \in 1 .. n : s[i] = p[i]
      BY <2>2, <2>3, SeqEqual DEF n
    <2>5. QED
      BY <1>3, <2>4 DEF BeginsWith, n
  <1>4. CASE ~ (Len(s) >= n)
    BY <1>4 DEF BeginsWith, n
  <1>5. QED
    BY <1>3, <1>4

\* Behind a place, a text holds what it held.
LEMMA TailAt ==
  ASSUME NEW C, NEW s \in Seq(C), NEW n \in Nat, n <= Len(s)
  PROVE  /\ ArgFrom(s, n + 1) \in Seq(C) /\ Len(ArgFrom(s, n + 1)) = Len(s) - n
         /\ \A j \in 1 .. Len(s) - n : ArgFrom(s, n + 1)[j] = s[n + j]
  <1> DEFINE L == Len(s)
  <1>1. L \in Nat
    OBVIOUS
  <1>2. \A i \in 1 .. L : s[i] \in C
    BY ElementOfSeq
  <1>3. n <= L
    OBVIOUS
  <1>4. ArgFrom(s, n + 1) = SubSeq(s, n + 1, L)
    BY DEF ArgFrom
  <1> HIDE DEF L
  <1>5. /\ n + 1 \in Int /\ L \in Int /\ n + 1 <= L + 1 /\ L - (n + 1) + 1 = L - n
        /\ \A k \in n + 1 .. L : k \in 1 .. L
        /\ \A j \in 1 .. L - n : n + 1 + j - 1 = n + j
    BY <1>1, <1>3
  <1>6. \A k \in n + 1 .. L : s[k] \in C
    BY <1>2, <1>5
  <1>7. /\ SubSeq(s, n + 1, L) \in Seq(C)
        /\ Len(SubSeq(s, n + 1, L)) = L - (n + 1) + 1
        /\ \A i \in 1 .. L - (n + 1) + 1 : SubSeq(s, n + 1, L)[i] = s[n + 1 + i - 1]
    BY <1>5, <1>6, SubSeqProperties
  <1>8. QED
    BY <1>4, <1>5, <1>7 DEF L

\* A text begins with two pieces where it begins with the first and goes on with the second.
LEMMA BeginsBoth ==
  ASSUME NEW C, NEW s \in Seq(C), NEW p \in Seq(C), NEW r \in Seq(C)
  PROVE  BeginsWith(s, p \o r) <=> BeginsWith(s, p) /\ BeginsWith(ArgFrom(s, Len(p) + 1), r)
  <1> DEFINE n == Len(p)
             m == Len(r)
             L == Len(s)
             tail == ArgFrom(s, n + 1)
             both == p \o r
  <1>1. n \in Nat /\ m \in Nat /\ L \in Nat
    OBVIOUS
  <1>2. both \in Seq(C) /\ Len(both) = n + m
    BY ConcatProperties
  <1>3. \A i \in 1 .. n + m : both[i] = IF i <= n THEN p[i] ELSE r[i - n]
    BY ConcatProperties
  <1>4. BeginsWith(s, p) <=> L >= n /\ \A i \in 1 .. n : s[i] = p[i]
    BY BeginsAt
  <1> HIDE DEF both
  <1>5. BeginsWith(s, both) <=> L >= n + m /\ \A i \in 1 .. n + m : s[i] = both[i]
    <2>1. BeginsWith(s, both) <=> L >= Len(both) /\ \A i \in 1 .. Len(both) : s[i] = both[i]
      BY <1>2, BeginsAt
    <2>2. QED
      BY <1>2, <2>1
  <1>6. ASSUME L >= n
        PROVE  BeginsWith(tail, r) <=> L - n >= m /\ \A j \in 1 .. m : s[n + j] = r[j]
    <2>1. n <= Len(s)
      BY <1>1, <1>6
    <2> HIDE DEF n
    <2>2. /\ tail \in Seq(C) /\ Len(tail) = L - n
          /\ \A j \in 1 .. L - n : tail[j] = s[n + j]
      BY <1>1, <2>1, TailAt
    <2> HIDE DEF tail
    <2>3. BeginsWith(tail, r) <=> Len(tail) >= m /\ \A i \in 1 .. m : tail[i] = r[i]
      BY <2>2, BeginsAt
    <2> HIDE DEF m, L
    <2>4. L - n >= m => \A j \in 1 .. m : j \in 1 .. L - n
      BY <1>1
    <2>5. QED
      BY <2>2, <2>3, <2>4
  <1> HIDE DEF n, m, L, tail
  <1>7. L >= n + m <=> L >= n /\ L - n >= m
    BY <1>1
  <1>8. /\ \A i \in 1 .. n : both[i] = p[i]
        /\ \A j \in 1 .. m : both[n + j] = r[j]
    <2>1. \A i \in 1 .. n : i \in 1 .. n + m /\ i <= n
      BY <1>1
    <2>2. ASSUME NEW j \in 1 .. m PROVE both[n + j] = r[j]
      <3> DEFINE i == n + j
      <3>1. i \in 1 .. n + m /\ ~(i <= n) /\ i - n = j
        BY <1>1
      <3> HIDE DEF i
      <3>2. both[i] = r[i - n]
        BY <1>3, <3>1
      <3>3. QED
        BY <3>1, <3>2 DEF i
    <2>3. \A i \in 1 .. n : both[i] = p[i]
      BY <1>3, <2>1
    <2>4. QED
      BY <2>2, <2>3
  <1>9. (\A i \in 1 .. n + m : s[i] = both[i])
          <=> (\A i \in 1 .. n : s[i] = p[i]) /\ (\A j \in 1 .. m : s[n + j] = r[j])
    <2>1. \A i \in 1 .. n + m : i \in 1 .. n \/ \E j \in 1 .. m : n + j = i
      <3>1. \A i \in 1 .. n + m : i \in 1 .. n \/ (i - n \in 1 .. m /\ n + (i - n) = i)
        BY <1>1
      <3>2. QED
        BY <3>1
    <2>2. /\ \A i \in 1 .. n : i \in 1 .. n + m
          /\ \A j \in 1 .. m : n + j \in 1 .. n + m
      BY <1>1
    <2>3. QED
      BY <1>8, <2>1, <2>2
  <1>10. QED
    BY <1>4, <1>5, <1>6, <1>7, <1>9 DEF n, tail, both

\* Two pieces: the first begins the text, and the second is what follows it.
LEMMA PiecesFollow ==
  ASSUME NEW C, NEW p \in Seq(C), NEW r \in Seq(C)
  PROVE  BeginsWith(p \o r, p) /\ ArgFrom(p \o r, Len(p) + 1) = r
  <1> DEFINE n == Len(p)
             m == Len(r)
             s == p \o r
  <1>1. n \in Nat /\ m \in Nat
    OBVIOUS
  <1>2. s \in Seq(C) /\ Len(s) = n + m
    BY ConcatProperties
  <1>3. \A i \in 1 .. n + m : s[i] = IF i <= n THEN p[i] ELSE r[i - n]
    BY ConcatProperties
  <1> HIDE DEF s
  <1>4. BeginsWith(s, p)
    <2>1. n + m >= n /\ \A i \in 1 .. n : i \in 1 .. n + m /\ i <= n
      BY <1>1
    <2>2. QED
      BY <1>2, <1>3, <2>1, BeginsAt
  <1> HIDE DEF n, m
  <1>5. ArgFrom(s, n + 1) = r
    <2> DEFINE tail == ArgFrom(s, n + 1)
    <2>1. n <= Len(s) /\ Len(s) - n = m
      BY <1>1, <1>2
    <2>2. /\ tail \in Seq(C) /\ Len(tail) = Len(s) - n
          /\ \A j \in 1 .. Len(s) - n : tail[j] = s[n + j]
      BY <1>1, <1>2, <2>1, TailAt
    <2> HIDE DEF tail
    <2>3. Len(tail) = m /\ \A j \in 1 .. m : tail[j] = s[n + j]
      BY <2>1, <2>2
    <2>4. ASSUME NEW j \in 1 .. m PROVE tail[j] = r[j]
      <3> DEFINE i == n + j
      <3>1. i \in 1 .. n + m /\ ~(i <= n) /\ i - n = j
        BY <1>1
      <3>2. tail[j] = s[i]
        BY <2>3
      <3> HIDE DEF i
      <3>3. s[i] = r[i - n]
        BY <1>3, <3>1
      <3>4. QED
        BY <3>1, <3>2, <3>3
    <2>5. tail = r
      BY <2>2, <2>3, <2>4, SeqEqual DEF m
    <2>6. QED
      BY <2>5 DEF tail
  <1>6. QED
    BY <1>4, <1>5 DEF s, n

\* The character at a place is the text of one character that begins there.
LEMMA CharBegins ==
  ASSUME NEW C, NEW s \in Seq(C), NEW c \in Seq(C), Len(c) = 1, NEW n \in Nat, n <= Len(s)
  PROVE  /\ n + 1 \in 1 .. Len(s) =>
              (SubSeq(s, n + 1, n + 1) = c <=> BeginsWith(ArgFrom(s, n + 1), c))
         /\ n + 1 \notin 1 .. Len(s) => ~BeginsWith(ArgFrom(s, n + 1), c)
  <1> DEFINE L == Len(s)
             tail == ArgFrom(s, n + 1)
  <1>1. L \in Nat /\ n <= L
    OBVIOUS
  <1>2. /\ tail \in Seq(C) /\ Len(tail) = L - n
        /\ \A j \in 1 .. L - n : tail[j] = s[n + j]
    BY TailAt
  <1>3. \A k \in 1 .. L : s[k] \in C
    BY ElementOfSeq
  <1> HIDE DEF tail, L
  <1>4. BeginsWith(tail, c) <=> L - n >= 1 /\ tail[1] = c[1]
    <2>1. BeginsWith(tail, c) <=> Len(tail) >= Len(c) /\ \A i \in 1 .. Len(c) : tail[i] = c[i]
      BY <1>2, BeginsAt
    <2>2. BeginsWith(tail, c) <=> L - n >= 1 /\ \A i \in 1 .. 1 : tail[i] = c[i]
      BY <1>2, <2>1
    <2>3. \A i : i \in 1 .. 1 <=> i = 1
      OBVIOUS
    <2>4. QED
      BY <2>2, <2>3
  <1>5. ASSUME n + 1 \in 1 .. L PROVE SubSeq(s, n + 1, n + 1) = c <=> BeginsWith(tail, c)
    <2>1. L - n >= 1 /\ 1 \in 1 .. L - n
      BY <1>1, <1>5
    <2> DEFINE one == SubSeq(s, n + 1, n + 1)
               k == n + 1
    <2>2. k \in Int /\ k - k + 1 = 1 /\ k <= k + 1 /\ k + 1 - 1 = k /\ \A i \in k .. k : i \in 1 .. L
      BY <1>1, <1>5
    <2>3. \A i \in k .. k : s[i] \in C
      BY <1>3, <2>2
    <2>4. one = SubSeq(s, k, k)
      OBVIOUS
    <2> HIDE DEF one, k
    <2>5. /\ SubSeq(s, k, k) \in Seq(C) /\ Len(SubSeq(s, k, k)) = k - k + 1
          /\ \A i \in 1 .. k - k + 1 : SubSeq(s, k, k)[i] = s[k + i - 1]
      BY <2>2, <2>3, SubSeqProperties
    <2>6. one \in Seq(C) /\ Len(one) = 1 /\ one[1] = s[k]
      BY <2>2, <2>4, <2>5
    <2>7. one = c <=> one[1] = c[1]
      <3>1. \A i \in 1 .. 1 : i = 1
        OBVIOUS
      <3>2. one[1] = c[1] => \A i \in 1 .. 1 : one[i] = c[i]
        BY <3>1
      <3>3. (\A i \in 1 .. 1 : one[i] = c[i]) => one = c
        BY <2>6, SeqEqual
      <3>4. QED
        BY <3>2, <3>3
    <2>8. tail[1] = s[k]
      BY <1>2, <2>1 DEF k
    <2>9. QED
      BY <1>4, <2>1, <2>6, <2>7, <2>8 DEF one
  <1>6. ASSUME n + 1 \notin 1 .. L PROVE ~BeginsWith(tail, c)
    <2>1. ~ (L - n >= 1)
      BY <1>1, <1>6
    <2>2. QED
      BY <1>4, <2>1
  <1>7. QED
    BY <1>5, <1>6 DEF tail, L

\* The letters of the options, the hyphen among them.
OptionLetters == {"-", "h", "i", "m", "v"}

\* The words of the options are sequences of characters.
LEMMA HyphensAreTexts ==
  ASSUME NEW Character, STRING = Seq(Character)
  PROVE  /\ \A c \in OptionLetters : c \in Seq(Character) /\ Len(c) = 1
         /\ \A word \in LongWords :
              /\ word \in Seq(Character) /\ Len(word) > 0
              /\ \A w \in LongWords : BeginsWith(w, word) => w = word
         /\ "--" \in Seq(Character) /\ Len("--") = 2
  <1>1. \A x : x \in STRING <=> x \in Seq(Character)
    OBVIOUS
  <1>2. \A c \in OptionLetters : c \in Seq(Character) /\ Len(c) = 1
    BY <1>1, HyphensAssumption, Zenon DEF OptionLetters
  <1>3. \A word \in LongWords :
          /\ word \in Seq(Character) /\ Len(word) > 0
          /\ \A w \in LongWords : BeginsWith(w, word) => w = word
    BY <1>1, HyphensAssumption, Zenon
  <1>4. "--" \in Seq(Character) /\ Len("--") = 2
    <2>1. "-" \in OptionLetters
      BY DEF OptionLetters
    <2>2. "-" \in Seq(Character) /\ Len("-") = 1
      BY <1>2, <2>1
    <2> DEFINE hyphen == "-"
               hyphens == "--"
    <2>3. hyphen \in Seq(Character) /\ Len(hyphen) = 1 /\ hyphens = hyphen \o hyphen
      BY <2>2, HyphensAssumption
    <2> HIDE DEF hyphen, hyphens
    <2>4. hyphen \o hyphen \in Seq(Character) /\ Len(hyphen \o hyphen) = Len(hyphen) + Len(hyphen)
      BY <2>3, ConcatProperties
    <2>5. hyphens \in Seq(Character) /\ Len(hyphens) = 2
      BY <2>3, <2>4
    <2>6. QED
      BY <2>5 DEF hyphens
  <1>5. QED
    BY <1>2, <1>3, <1>4

\* A text is the rest of itself from its first character on, and begins with itself.
LEMMA WholeBegins ==
  ASSUME NEW C, NEW s \in Seq(C)
  PROVE  ArgFrom(s, 1) = s /\ BeginsWith(s, s)
  <1>1. SubSeq(s, 1, Len(s)) = s
    BY SubSeqFull
  <1>2. Len(s) \in Nat
    OBVIOUS
  <1>3. Len(s) >= Len(s)
    BY <1>2
  <1>4. QED
    BY <1>1, <1>3 DEF ArgFrom, BeginsWith

\* The character that the code looks at is a letter where the rest begins with it.
LEMMA LetterBegins ==
  ASSUME NEW Character, STRING = Seq(Character), NEW s \in Seq(Character), NEW l \in OptionLetters,
         NEW n \in Nat, n <= Len(s)
  PROVE  ArgChar(s, n + 1) = l <=> BeginsWith(ArgFrom(s, n + 1), l)
  <1>1. l \in Seq(Character) /\ Len(l) = 1
    BY HyphensAreTexts
  <1>2. l # ""
    BY DEF OptionLetters
  <1>3. /\ n + 1 \in 1 .. Len(s) =>
             (SubSeq(s, n + 1, n + 1) = l <=> BeginsWith(ArgFrom(s, n + 1), l))
        /\ n + 1 \notin 1 .. Len(s) => ~BeginsWith(ArgFrom(s, n + 1), l)
    BY <1>1, CharBegins
  <1>4. QED
    BY <1>2, <1>3, Zenon DEF ArgChar

\* What one hyphen, or two, and the text behind them make of an argument.
LEMMA HyphensBegin ==
  ASSUME NEW Character, STRING = Seq(Character), NEW s \in Seq(Character)
  PROVE  /\ ArgChar(s, 1) = "-" <=> BeginsWith(s, "-")
         /\ BeginsWith(s, "-") =>
              \A l \in OptionLetters : ArgChar(s, 2) = l <=> BeginsWith(s, "-" \o l)
         /\ BeginsWith(s, "--") =>
              \A w \in LongWords : BeginsWith(ArgFrom(s, 3), w) <=> BeginsWith(s, "--" \o w)
  <1>1. /\ \A c \in OptionLetters : c \in Seq(Character) /\ Len(c) = 1
        /\ \A word \in LongWords : word \in Seq(Character)
        /\ "--" \in Seq(Character) /\ Len("--") = 2
    BY HyphensAreTexts
  <1>2. "-" \in OptionLetters
    BY DEF OptionLetters
  <1>3. Len(s) \in Nat
    OBVIOUS
  <1>4. ArgChar(s, 1) = "-" <=> BeginsWith(s, "-")
    <2>1. 0 \in Nat /\ 0 <= Len(s) /\ 0 + 1 = 1
      BY <1>3
    <2>2. ArgChar(s, 0 + 1) = "-" <=> BeginsWith(ArgFrom(s, 0 + 1), "-")
      BY <1>2, <2>1, LetterBegins
    <2>3. QED
      BY <2>1, <2>2, WholeBegins
  <1>5. ASSUME BeginsWith(s, "-"), NEW l \in OptionLetters
        PROVE  ArgChar(s, 2) = l <=> BeginsWith(s, "-" \o l)
    <2>1. "-" \in Seq(Character) /\ Len("-") = 1 /\ l \in Seq(Character)
      BY <1>1, <1>2
    <2> DEFINE hyphen == "-"
    <2>2. hyphen \in Seq(Character) /\ Len(hyphen) = 1 /\ BeginsWith(s, hyphen)
      BY <1>5, <2>1
    <2> HIDE DEF hyphen
    <2>3. 1 \in Nat /\ 1 <= Len(s) /\ 1 + 1 = 2
      BY <1>3, <2>2 DEF BeginsWith
    <2>4. ArgChar(s, 1 + 1) = l <=> BeginsWith(ArgFrom(s, 1 + 1), l)
      BY <2>3, LetterBegins
    <2>5. BeginsWith(s, hyphen \o l)
            <=> BeginsWith(s, hyphen) /\ BeginsWith(ArgFrom(s, Len(hyphen) + 1), l)
      BY <2>1, <2>2, BeginsBoth
    <2>6. ArgChar(s, 2) = l <=> BeginsWith(s, hyphen \o l)
      BY <2>2, <2>3, <2>4, <2>5
    <2>7. QED
      BY <2>6 DEF hyphen
  <1>6. ASSUME BeginsWith(s, "--"), NEW w \in LongWords
        PROVE  BeginsWith(ArgFrom(s, 3), w) <=> BeginsWith(s, "--" \o w)
    <2>1. w \in Seq(Character)
      BY <1>1
    <2> DEFINE hyphens == "--"
    <2>2. hyphens \in Seq(Character) /\ Len(hyphens) = 2 /\ BeginsWith(s, hyphens)
      BY <1>1, <1>6
    <2> HIDE DEF hyphens
    <2>3. BeginsWith(s, hyphens \o w)
            <=> BeginsWith(s, hyphens) /\ BeginsWith(ArgFrom(s, Len(hyphens) + 1), w)
      BY <2>1, <2>2, BeginsBoth
    <2>4. 2 + 1 = 3
      OBVIOUS
    <2>5. BeginsWith(ArgFrom(s, 3), w) <=> BeginsWith(s, hyphens \o w)
      BY <2>2, <2>3, <2>4
    <2>6. QED
      BY <2>5 DEF hyphens
  <1>7. QED
    BY <1>4, <1>5, <1>6

\* parse_option_type: how an argument begins decides how it is read.
LEMMA OptionCases ==
  ASSUME NEW Character, STRING = Seq(Character), NEW s \in Seq(Character), NEW build
  PROVE  /\ \/ s = "-" \/ ~BeginsWith(s, "-")
            \/ s = "--"
            \/ BeginsWith(s, "--") /\ s # "--"
            \/ BeginsWith(s, "-") /\ s # "-" /\ ~BeginsWith(s, "--")
         /\ s = "-" \/ ~BeginsWith(s, "-") => ParseOptionType(build, s) = "UNKNOWN"
         /\ s = "--" => ParseOptionType(build, s) = "END_OF_OPTIONS"
         /\ BeginsWith(s, "--") /\ s # "--" =>
              ParseOptionType(build, s) = LongOption(build, ArgFrom(s, 3))
         /\ BeginsWith(s, "-") /\ s # "-" /\ ~BeginsWith(s, "--") =>
              ParseOptionType(build, s) = ShortOption(build, ArgChar(s, 2))
         /\ BeginsWith(s, "--") => BeginsWith(s, "-") /\ s # "-"
  <1>1. /\ "-" \in OptionLetters
        /\ "-" \in Seq(Character) /\ Len("-") = 1 /\ "--" \in Seq(Character) /\ Len("--") = 2
    <2>1. "-" \in OptionLetters
      BY DEF OptionLetters
    <2>2. QED
      BY <2>1, HyphensAreTexts
  <1>2. /\ ArgChar(s, 1) = "-" <=> BeginsWith(s, "-")
        /\ BeginsWith(s, "-") => (ArgChar(s, 2) = "-" <=> BeginsWith(s, "--"))
    <2>1. "--" = "-" \o "-"
      BY HyphensAssumption
    <2>2. BeginsWith(s, "-") => (ArgChar(s, 2) = "-" <=> BeginsWith(s, "-" \o "-"))
      BY <1>1, HyphensBegin
    <2>3. QED
      BY <2>1, <2>2, HyphensBegin
  <1>3. Len(s) \in Nat
    OBVIOUS
  <1>4. BeginsWith(s, "-") => (Len(s) < 2 <=> s = "-")
    <2>1. ASSUME BeginsWith(s, "-"), Len(s) < 2 PROVE s = "-"
      <3> DEFINE hyphen == "-"
      <3>1. Len(hyphen) = 1 /\ BeginsWith(s, hyphen)
        BY <1>1, <2>1
      <3> HIDE DEF hyphen
      <3>2. Len(s) = 1 /\ SubSeq(s, 1, 1) = hyphen
        BY <1>3, <2>1, <3>1 DEF BeginsWith
      <3>3. SubSeq(s, 1, Len(s)) = s
        BY SubSeqFull
      <3>4. s = hyphen
        BY <3>2, <3>3
      <3>5. QED
        BY <3>4 DEF hyphen
    <2>2. s = "-" => Len(s) < 2
      <3>1. s = "-" => Len(s) = 1
        BY <1>1
      <3>2. QED
        BY <3>1
    <2>3. QED
      BY <2>1, <2>2
  <1>5. BeginsWith(s, "--") => BeginsWith(s, "-") /\ s # "-"
    <2> SUFFICES ASSUME BeginsWith(s, "--") PROVE BeginsWith(s, "-") /\ s # "-"
      OBVIOUS
    <2>1. Len(s) >= 2
      BY <1>1 DEF BeginsWith
    <2>2. \A p \in Seq(Character) : BeginsWith(s, p \o p) => BeginsWith(s, p)
      BY BeginsBoth
    <2>3. BeginsWith(s, "-" \o "-") => BeginsWith(s, "-")
      BY <1>1, <2>2, Zenon
    <2>4. "--" = "-" \o "-"
      BY HyphensAssumption
    <2>5. BeginsWith(s, "-")
      BY <2>3, <2>4
    <2>6. ~ (Len(s) < 2)
      BY <1>3, <2>1
    <2>7. QED
      BY <1>4, <2>5, <2>6
  <1>6. s = "--" => BeginsWith(s, "--")
    BY WholeBegins
  <1>7. /\ ParseOptionType(build, s) =
             IF ~BeginsWith(s, "-") \/ s = "-" THEN "UNKNOWN"
             ELSE IF s = "--" THEN "END_OF_OPTIONS"
             ELSE IF BeginsWith(s, "--") THEN LongOption(build, ArgFrom(s, 3))
             ELSE ShortOption(build, ArgChar(s, 2))
    BY <1>2, <1>4, Zenon DEF ParseOptionType
  <1>8. QED
    BY <1>5, <1>6, <1>7, Zenon

\* The word behind two hyphens is the first in the code that it begins with.
LEMMA LongCases ==
  ASSUME NEW build, NEW word
  PROVE  \/ BeginsWith(word, "end-of-options") /\ LongOption(build, word) = "END_OF_OPTIONS"
         \/ BeginsWith(word, "help") /\ LongOption(build, word) = "HELP"
         \/ BeginsWith(word, "version") /\ LongOption(build, word) = "VERSION_FULL"
         \/ build = "debug" /\ BeginsWith(word, "mode") /\ LongOption(build, word) = "TEST_MODE"
         \/ /\ build = "debug" /\ BeginsWith(word, "input-file")
            /\ LongOption(build, word) = "INPUT_FILE"
         \/ /\ LongOption(build, word) = "INVALID"
            /\ ~BeginsWith(word, "end-of-options") /\ ~BeginsWith(word, "help")
            /\ ~BeginsWith(word, "version") /\ ~(build = "debug" /\ BeginsWith(word, "mode"))
            /\ ~(build = "debug" /\ BeginsWith(word, "input-file"))
  BY SMT DEF LongOption

\* The letter behind one hyphen.
LEMMA ShortCases ==
  ASSUME NEW build, NEW letter
  PROVE  \/ letter = "i" /\ build = "full" /\ ShortOption(build, letter) = "INTERACTIVE"
         \/ letter = "i" /\ build = "debug" /\ ShortOption(build, letter) = "INPUT_FILE"
         \/ letter = "i" /\ build \notin {"full", "debug"} /\ ShortOption(build, letter) = "HELP"
         \/ letter = "m" /\ build = "debug" /\ ShortOption(build, letter) = "TEST_MODE"
         \/ letter = "h" /\ ShortOption(build, letter) = "HELP"
         \/ letter = "v" /\ ShortOption(build, letter) = "VERSION_SHORT"
         \/ /\ ShortOption(build, letter) = "INVALID"
            /\ letter \notin {"i", "h", "v"} /\ ~(letter = "m" /\ build = "debug")
  BY Zenon DEF ShortOption

\* A documented spelling is read as what it documents.
LEMMA DocumentedSays ==
  ASSUME NEW Character, STRING = Seq(Character), NEW build, NEW d \in Documented, build \in d[3]
  PROVE  ParseOptionType(build, d[1]) = d[2]
  <1>1. /\ \A c \in OptionLetters : c \in Seq(Character) /\ Len(c) = 1
        /\ \A word \in LongWords :
             word \in Seq(Character) /\ \A w \in LongWords : BeginsWith(w, word) => w = word
        /\ "--" \in Seq(Character) /\ Len("--") = 2
    BY HyphensAreTexts
  <1>2. ASSUME NEW l \in OptionLetters \ {"-"}, NEW s, s = "-" \o l, s # "-"
        PROVE  ParseOptionType(build, s) = ShortOption(build, l)
    <2> DEFINE hyphen == "-"
    <2>1. hyphen \in OptionLetters
      BY DEF OptionLetters
    <2>2. hyphen \in Seq(Character) /\ l \in Seq(Character) /\ s = hyphen \o l
      BY <1>1, <1>2, <2>1
    <2> HIDE DEF hyphen
    <2>3. s \in Seq(Character) /\ BeginsWith(s, hyphen)
      BY <2>2, PiecesFollow, ConcatProperties
    <2>4. BeginsWith(s, hyphen \o l)
      BY <2>2, <2>3, WholeBegins
    <2>5. BeginsWith(s, "-") /\ BeginsWith(s, "-" \o l)
      BY <2>3, <2>4 DEF hyphen
    <2>6. ArgChar(s, 2) = l
      BY <2>3, <2>5, HyphensBegin
    <2>7. ArgChar(s, 2) # "-"
      BY <2>6
    <2>8. ~BeginsWith(s, "--")
      <3>1. ArgChar(s, 2) = "-" <=> BeginsWith(s, "-" \o "-")
        BY <2>1, <2>3, <2>5, HyphensBegin DEF hyphen
      <3>2. "--" = "-" \o "-"
        BY HyphensAssumption
      <3>3. QED
        BY <2>7, <3>1, <3>2
    <2>9. ParseOptionType(build, s) = ShortOption(build, ArgChar(s, 2))
      BY <1>2, <2>3, <2>5, <2>8, OptionCases
    <2>10. QED
      BY <2>6, <2>9
  <1>3. ASSUME NEW w \in LongWords, NEW s, s = "--" \o w, s # "--"
        PROVE  ParseOptionType(build, s) = LongOption(build, w)
    <2> DEFINE hyphens == "--"
    <2>1. hyphens \in Seq(Character) /\ Len(hyphens) = 2 /\ w \in Seq(Character) /\ s = hyphens \o w
      BY <1>1, <1>3
    <2>2. 2 + 1 = 3
      OBVIOUS
    <2> HIDE DEF hyphens
    <2>3. s \in Seq(Character) /\ BeginsWith(s, hyphens) /\ ArgFrom(s, Len(hyphens) + 1) = w
      BY <2>1, PiecesFollow, ConcatProperties
    <2>4. ArgFrom(s, 3) = w
      BY <2>1, <2>2, <2>3
    <2>5. BeginsWith(s, "--")
      BY <2>3 DEF hyphens
    <2>6. ParseOptionType(build, s) = LongOption(build, ArgFrom(s, 3))
      BY <1>3, <2>3, <2>5, OptionCases
    <2>7. QED
      BY <2>4, <2>6
  <1>4. \A w \in LongWords : BeginsWith(w, w)
    BY <1>1, WholeBegins
  <1>5. \A l \in {"i", "m", "h", "v"} : l \in OptionLetters \ {"-"}
    BY DEF OptionLetters
  <1>6. /\ "end-of-options" \in LongWords /\ "help" \in LongWords /\ "version" \in LongWords
        /\ "mode" \in LongWords /\ "input-file" \in LongWords
    BY DEF LongWords
  <1>7. /\ "-m" = "-" \o "m" /\ "-i" = "-" \o "i" /\ "-h" = "-" \o "h" /\ "-v" = "-" \o "v"
        /\ "--mode" = "--" \o "mode" /\ "--input-file" = "--" \o "input-file"
        /\ "--help" = "--" \o "help" /\ "--version" = "--" \o "version"
        /\ "--end-of-options" = "--" \o "end-of-options"
    BY HyphensAssumption
  <1>8. /\ ParseOptionType(build, "-m") = ShortOption(build, "m")
        /\ ParseOptionType(build, "-i") = ShortOption(build, "i")
        /\ ParseOptionType(build, "-h") = ShortOption(build, "h")
        /\ ParseOptionType(build, "-v") = ShortOption(build, "v")
    BY <1>2, <1>5, <1>7
  <1>9. /\ ParseOptionType(build, "--mode") = LongOption(build, "mode")
        /\ ParseOptionType(build, "--input-file") = LongOption(build, "input-file")
        /\ ParseOptionType(build, "--help") = LongOption(build, "help")
        /\ ParseOptionType(build, "--version") = LongOption(build, "version")
        /\ ParseOptionType(build, "--end-of-options") = LongOption(build, "end-of-options")
    BY <1>3, <1>6, <1>7
  <1>10. \A v \in LongWords, w \in LongWords : BeginsWith(v, w) <=> v = w
    BY <1>1, <1>4
  <1>11. /\ build = "debug" => LongOption(build, "mode") = "TEST_MODE"
         /\ build = "debug" => LongOption(build, "input-file") = "INPUT_FILE"
         /\ LongOption(build, "help") = "HELP"
         /\ LongOption(build, "version") = "VERSION_FULL"
         /\ LongOption(build, "end-of-options") = "END_OF_OPTIONS"
    <2>1. build = "debug" => LongOption(build, "mode") = "TEST_MODE"
      BY <1>6, <1>10, LongCases
    <2>2. build = "debug" => LongOption(build, "input-file") = "INPUT_FILE"
      BY <1>6, <1>10, LongCases
    <2>3. LongOption(build, "help") = "HELP"
      BY <1>6, <1>10, LongCases
    <2>4. LongOption(build, "version") = "VERSION_FULL"
      BY <1>6, <1>10, LongCases
    <2>5. LongOption(build, "end-of-options") = "END_OF_OPTIONS"
      BY <1>6, <1>10, LongCases
    <2>6. QED
      BY <2>1, <2>2, <2>3, <2>4, <2>5
  <1>12. /\ build = "debug" => ShortOption(build, "m") = "TEST_MODE"
         /\ build = "debug" => ShortOption(build, "i") = "INPUT_FILE"
         /\ build = "full" => ShortOption(build, "i") = "INTERACTIVE"
         /\ ShortOption(build, "h") = "HELP"
         /\ ShortOption(build, "v") = "VERSION_SHORT"
    BY ShortCases
  <1>13. \/ d[1] = "-m" /\ d[2] = "TEST_MODE" /\ build = "debug"
         \/ d[1] = "--mode" /\ d[2] = "TEST_MODE" /\ build = "debug"
         \/ d[1] = "-i" /\ d[2] = "INPUT_FILE" /\ build = "debug"
         \/ d[1] = "--input-file" /\ d[2] = "INPUT_FILE" /\ build = "debug"
         \/ d[1] = "-i" /\ d[2] = "INTERACTIVE" /\ build = "full"
         \/ d[1] = "-h" /\ d[2] = "HELP"
         \/ d[1] = "--help" /\ d[2] = "HELP"
         \/ d[1] = "-v" /\ d[2] = "VERSION_SHORT"
         \/ d[1] = "--version" /\ d[2] = "VERSION_FULL"
         \/ d[1] = "--end-of-options" /\ d[2] = "END_OF_OPTIONS"
    BY DEF Documented
  <1>14. QED
    BY <1>8, <1>9, <1>11, <1>12, <1>13

\* What an option begins with: every letter and every word that the code looks for.
LEMMA OptionSays ==
  ASSUME NEW Character, STRING = Seq(Character), NEW arg \in Seq(Character), NEW build \in Builds
  PROVE  LET read == ParseOptionType(build, arg)
             mine == {d \in Documented : build \in d[3]}
         IN  /\ \A d \in mine : arg = d[1] => read = d[2]
             /\ read = "UNKNOWN" <=> arg = "-" \/ ~BeginsWith(arg, "-")
             /\ arg = "--" <=> read = "END_OF_OPTIONS" /\ ~BeginsWith(arg, "--end-of-options")
             /\ read \notin {"UNKNOWN", "INVALID", "END_OF_OPTIONS"} =>
                  \/ \E d \in mine : d[2] = read /\ BeginsWith(arg, d[1])
                  \/ build \in {"compiler", "runner"} /\ BeginsWith(arg, "-i")
  <1> DEFINE read == ParseOptionType(build, arg)
             mine == {d \in Documented : build \in d[3]}
             word == ArgFrom(arg, 3)
             letter == ArgChar(arg, 2)
  <1>1. \A d \in mine : arg = d[1] => read = d[2]
    BY DocumentedSays
  <1>2. /\ \/ arg = "-" \/ ~BeginsWith(arg, "-")
           \/ arg = "--"
           \/ BeginsWith(arg, "--") /\ arg # "--"
           \/ BeginsWith(arg, "-") /\ arg # "-" /\ ~BeginsWith(arg, "--")
        /\ arg = "-" \/ ~BeginsWith(arg, "-") => read = "UNKNOWN"
        /\ arg = "--" => read = "END_OF_OPTIONS"
        /\ BeginsWith(arg, "--") /\ arg # "--" => read = LongOption(build, word)
        /\ BeginsWith(arg, "-") /\ arg # "-" /\ ~BeginsWith(arg, "--") =>
             read = ShortOption(build, letter)
        /\ BeginsWith(arg, "--") => BeginsWith(arg, "-") /\ arg # "-"
    BY OptionCases
  <1>3. arg = "--" => BeginsWith(arg, "--")
    BY WholeBegins
  <1>4. BeginsWith(arg, "--") =>
          /\ BeginsWith(word, "end-of-options") <=> BeginsWith(arg, "--end-of-options")
          /\ BeginsWith(word, "help") <=> BeginsWith(arg, "--help")
          /\ BeginsWith(word, "version") <=> BeginsWith(arg, "--version")
          /\ BeginsWith(word, "mode") <=> BeginsWith(arg, "--mode")
          /\ BeginsWith(word, "input-file") <=> BeginsWith(arg, "--input-file")
    <2>1. BeginsWith(arg, "--") =>
            \A w \in LongWords : BeginsWith(word, w) <=> BeginsWith(arg, "--" \o w)
      BY HyphensBegin
    <2>2. QED
      BY <2>1, HyphensAssumption DEF LongWords
  <1>5. BeginsWith(arg, "-") =>
          /\ letter = "m" <=> BeginsWith(arg, "-m")
          /\ letter = "i" <=> BeginsWith(arg, "-i")
          /\ letter = "h" <=> BeginsWith(arg, "-h")
          /\ letter = "v" <=> BeginsWith(arg, "-v")
    <2>1. BeginsWith(arg, "-") =>
            \A l \in OptionLetters : letter = l <=> BeginsWith(arg, "-" \o l)
      BY HyphensBegin
    <2>2. QED
      BY <2>1, HyphensAssumption DEF OptionLetters
  <1> DEFINE long == LongOption(build, word)
             short == ShortOption(build, letter)
  <1>6. \/ BeginsWith(word, "end-of-options") /\ long = "END_OF_OPTIONS"
        \/ BeginsWith(word, "help") /\ long = "HELP"
        \/ BeginsWith(word, "version") /\ long = "VERSION_FULL"
        \/ build = "debug" /\ BeginsWith(word, "mode") /\ long = "TEST_MODE"
        \/ build = "debug" /\ BeginsWith(word, "input-file") /\ long = "INPUT_FILE"
        \/ long = "INVALID"
    BY LongCases
  <1>7. \/ letter = "i" /\ build = "full" /\ short = "INTERACTIVE"
        \/ letter = "i" /\ build = "debug" /\ short = "INPUT_FILE"
        \/ letter = "i" /\ build \notin {"full", "debug"} /\ short = "HELP"
        \/ letter = "m" /\ build = "debug" /\ short = "TEST_MODE"
        \/ letter = "h" /\ short = "HELP"
        \/ letter = "v" /\ short = "VERSION_SHORT"
        \/ short = "INVALID"
    BY ShortCases
  <1> HIDE DEF word, letter, read, long, short
  <1>8. /\ BeginsWith(arg, "--") /\ arg # "--" => read = long
        /\ BeginsWith(arg, "-") /\ arg # "-" /\ ~BeginsWith(arg, "--") => read = short
    BY <1>2 DEF long, short
  <1>9. long # "UNKNOWN" /\ short # "UNKNOWN" /\ short # "END_OF_OPTIONS"
        /\ (long = "END_OF_OPTIONS" => BeginsWith(word, "end-of-options"))
    BY <1>6, <1>7
  <1>10. read = "UNKNOWN" <=> arg = "-" \/ ~BeginsWith(arg, "-")
    BY <1>2, <1>3, <1>8, <1>9
  <1>11. arg = "--" => ~BeginsWith(arg, "--end-of-options")
    <2> SUFFICES ASSUME arg = "--", BeginsWith(arg, "--end-of-options") PROVE FALSE
      OBVIOUS
    <2>1. /\ "end-of-options" \in Seq(Character) /\ Len("end-of-options") > 0
          /\ "--" \in Seq(Character)
      <3>1. "end-of-options" \in LongWords
        BY DEF LongWords
      <3>2. QED
        BY <3>1, HyphensAreTexts
    <2> DEFINE hyphens == "--"
               end == "end-of-options"
    <2>2. /\ hyphens \in Seq(Character) /\ end \in Seq(Character) /\ Len(end) > 0
          /\ arg = hyphens /\ BeginsWith(arg, hyphens \o end)
      BY <2>1, HyphensAssumption
    <2> HIDE DEF hyphens, end
    <2>3. Len(hyphens \o end) = Len(hyphens) + Len(end) /\ Len(hyphens) \in Nat /\ Len(end) \in Nat
      BY <2>2, ConcatProperties
    <2>4. Len(hyphens) >= Len(hyphens \o end)
      BY <2>2 DEF BeginsWith
    <2>5. QED
      BY <2>2, <2>3, <2>4
  <1>12. read = "END_OF_OPTIONS" /\ ~BeginsWith(arg, "--end-of-options") => arg = "--"
    BY <1>2, <1>4, <1>8, <1>9
  <1>13. ASSUME read \notin {"UNKNOWN", "INVALID", "END_OF_OPTIONS"}
         PROVE  \/ \E d \in mine : d[2] = read /\ BeginsWith(arg, d[1])
                \/ build \in {"compiler", "runner"} /\ BeginsWith(arg, "-i")
    <2>1. \A d \in Documented : build \in d[3] => d \in mine
      OBVIOUS
    <2>2. /\ build = "debug" => <<"-m", "TEST_MODE", {"debug"}>> \in mine
          /\ build = "debug" => <<"--mode", "TEST_MODE", {"debug"}>> \in mine
          /\ build = "debug" => <<"-i", "INPUT_FILE", {"debug"}>> \in mine
          /\ build = "debug" => <<"--input-file", "INPUT_FILE", {"debug"}>> \in mine
          /\ build = "full" => <<"-i", "INTERACTIVE", {"full"}>> \in mine
          /\ <<"-h", "HELP", Builds>> \in mine /\ <<"--help", "HELP", Builds>> \in mine
          /\ <<"-v", "VERSION_SHORT", Builds>> \in mine
          /\ <<"--version", "VERSION_FULL", Builds>> \in mine
      BY DEF Documented
    <2>3. \A a, b, c : <<a, b, c>> \in mine /\ b = read /\ BeginsWith(arg, a) =>
            \E d \in mine : d[2] = read /\ BeginsWith(arg, d[1])
      <3> SUFFICES ASSUME NEW a, NEW b, NEW c,
                          <<a, b, c>> \in mine, b = read, BeginsWith(arg, a)
                   PROVE  \E d \in mine : d[2] = read /\ BeginsWith(arg, d[1])
        OBVIOUS
      <3> DEFINE d == <<a, b, c>>
      <3>1. d[2] = read /\ BeginsWith(arg, d[1])
        OBVIOUS
      <3>2. QED
        BY <3>1
    <2> HIDE DEF mine
    <2>4. CASE BeginsWith(arg, "--")
      <3>1. read = long
        BY <1>2, <1>8, <1>13, <2>4
      <3>2. \/ BeginsWith(arg, "--help") /\ read = "HELP"
            \/ BeginsWith(arg, "--version") /\ read = "VERSION_FULL"
            \/ build = "debug" /\ BeginsWith(arg, "--mode") /\ read = "TEST_MODE"
            \/ build = "debug" /\ BeginsWith(arg, "--input-file") /\ read = "INPUT_FILE"
        BY <1>4, <1>6, <1>13, <2>4, <3>1
      <3>3. QED
        BY <2>2, <2>3, <3>2, Zenon
    <2>5. CASE ~BeginsWith(arg, "--")
      <3>1. BeginsWith(arg, "-") /\ read = short
        BY <1>2, <1>8, <1>10, <1>13, <2>5, <1>3
      <3>2. \/ BeginsWith(arg, "-i") /\ build = "full" /\ read = "INTERACTIVE"
            \/ BeginsWith(arg, "-i") /\ build = "debug" /\ read = "INPUT_FILE"
            \/ BeginsWith(arg, "-i") /\ build \notin {"full", "debug"}
            \/ BeginsWith(arg, "-m") /\ build = "debug" /\ read = "TEST_MODE"
            \/ BeginsWith(arg, "-h") /\ read = "HELP"
            \/ BeginsWith(arg, "-v") /\ read = "VERSION_SHORT"
        BY <1>5, <1>7, <1>13, <3>1
      <3>3. build \notin {"full", "debug"} => build \in {"compiler", "runner"}
        BY DEF Builds
      <3>4. QED
        BY <2>2, <2>3, <3>2, <3>3, Zenon
    <2>6. QED
      BY <2>4, <2>5
  <1>14. /\ read = "UNKNOWN" <=> arg = "-" \/ ~BeginsWith(arg, "-")
         /\ arg = "--" <=> read = "END_OF_OPTIONS" /\ ~BeginsWith(arg, "--end-of-options")
    BY <1>2, <1>10, <1>11, <1>12
  <1>15. QED
    BY <1>1, <1>13, <1>14, Zenon DEF read

(***************************************************************************)
(* The theorems                                                            *)
(***************************************************************************)

\* The result of a call is what its function makes of the argument.
CallsInv ==
  /\ function = "get_identifier_type" =>
       argument \in Words /\ result = IdentifierType(argument)
  /\ function = "str_to_int" =>
       argument \in Numerals /\ result = Convert(argument.type, NumeralText(argument))
  /\ function = "os_path_normalize" => argument \in PathNames /\ result = Normalize(argument)
  /\ function = "parse_option_type" =>
       /\ argument.arg \in Arguments /\ argument.build \in Builds
       /\ result = ParseOptionType(argument.build, argument.arg)
  /\ function = "trace_sprint" =>
       argument \in Traces /\ result = Sprint(argument.frames, argument.bufLen)

LEMMA CallsInvHolds == Spec => []CallsInv
  <1>1. Init => CallsInv
    BY DEF Init, CallsInv
  <1>2. CallsInv /\ [Next]_vars => CallsInv'
    <2> SUFFICES ASSUME CallsInv, [Next]_vars PROVE CallsInv'
      OBVIOUS
    <2>1. CASE GetIdentifierType
      BY <2>1 DEF CallsInv, GetIdentifierType, Call
    <2>2. CASE StrToInt
      BY <2>2 DEF CallsInv, StrToInt, Call, NumeralText
    <2>3. CASE OsPathNormalize
      BY <2>3 DEF CallsInv, OsPathNormalize, Call
    <2>4. CASE CliParseOptionType
      BY <2>4 DEF CallsInv, CliParseOptionType, Call
    <2>5. CASE TraceSprint
      BY <2>5 DEF CallsInv, TraceSprint, Call
    <2>6. CASE Return
      BY <2>6 DEF CallsInv, Return
    <2>7. CASE UNCHANGED vars
      BY <2>7 DEF CallsInv, vars
    <2>8. QED
      BY <2>1, <2>2, <2>3, <2>4, <2>5, <2>6, <2>7 DEF Next
  <1>3. QED
    BY <1>1, <1>2, PTL DEF Spec

\* str_to_int8 ... str_to_uint64 of numeric.c, at any widths: the number that the text denotes,
\* exactly when the type can hold it, and otherwise on which side it lies.
THEOREM ConversionExactHolds == Spec => []ConversionExact
  <1>1. ASSUME CallsInv PROVE ConversionExact
    <2> SUFFICES ASSUME function = "str_to_int"
                 PROVE  LET t == argument.type
                            n == Denoted(argument.sign, argument.digits)
                        IN  /\ result.status = "INVALID" <=> argument.digits = <<>>
                            /\ argument.digits # <<>> /\ (n >= 0 \/ t \in SignedTypes) =>
                                 /\ result.status = "OK" <=> n \in TypeMin(t) .. TypeMax(t)
                                 /\ result.status = "OK" => result.value = n
                                 /\ result.status = "EXCEEDS_MIN" => n < TypeMin(t)
                                 /\ result.status = "EXCEEDS_MAX" => n > TypeMax(t)
      BY DEF ConversionExact
    <2> DEFINE arg == argument
               t == arg.type
               text == NumeralText(arg)
               n == Denoted(arg.sign, arg.digits)
               p == SignPlace(arg)
               a == Len(arg.sign) + 1
               b == Len(arg.sign) + Len(arg.digits)
    <2>1. arg \in Numerals /\ result = Convert(t, text)
      BY <1>1 DEF CallsInv
    <2>2. t \in IntegerTypes /\ text \in Seq(Int)
      BY <2>1, ArgumentsAssumption, TextLaidOut
    <2> HIDE DEF t, text, n, p, a, b
    <2>3. CASE arg.digits = <<>>
      <3>1. ASSUME NEW k \in 1 .. Len(text) PROVE ~Numeral(text[k])
        <4>1. /\ Len(text) = Len(arg.sign) + Len(arg.digits) + Len(arg.tail)
              /\ \A j \in 1 .. Len(arg.sign) : text[j] = arg.sign[j]
              /\ \A j \in 1 .. Len(arg.tail) :
                   text[Len(arg.sign) + Len(arg.digits) + j] = arg.tail[j]
          BY <2>1, TextLaidOut DEF text
        <4>2. /\ arg.sign \in Seq(Int) /\ arg.tail \in Seq(Int)
              /\ \A i \in DOMAIN arg.sign :
                   IsSpace(arg.sign[i])
                     \/ (i = Len(arg.sign) /\ arg.sign[i] \in {PLUS_SIGN, MINUS_SIGN})
              /\ \A i \in DOMAIN arg.tail : ~Numeral(arg.tail[i])
          BY <2>1, ArgumentsAssumption
        <4> DEFINE S == Len(arg.sign)
                   R == Len(arg.tail)
        <4>3. S \in Nat /\ R \in Nat /\ Len(arg.digits) = 0
          BY <2>3, <4>2
        <4>4. /\ \A i \in 1 .. S : IsSpace(arg.sign[i]) \/ arg.sign[i] \in {PLUS_SIGN, MINUS_SIGN}
              /\ \A i \in 1 .. R : ~Numeral(arg.tail[i])
          BY <4>2
        <4> HIDE DEF S, R
        <4>5. CASE k \in 1 .. S
          <5>1. \A c \in Int : IsSpace(c) \/ c \in {PLUS_SIGN, MINUS_SIGN} => ~Numeral(c)
            BY DEF IsSpace, PLUS_SIGN, MINUS_SIGN, Numeral
          <5>2. text[k] = arg.sign[k]
            BY <4>1, <4>5 DEF S
          <5>3. arg.sign[k] \in Int
            BY <4>2, <4>5, ElementOfSeq DEF S
          <5>4. QED
            BY <4>4, <4>5, <5>1, <5>2, <5>3
        <4>6. CASE k \notin 1 .. S
          <5>1. Len(text) = S + 0 + R
            BY <4>1, <4>3 DEF S, R
          <5>2. k - S \in 1 .. R /\ S + 0 + (k - S) = k
            BY <4>3, <4>6, <5>1
          <5>3. \A j \in 1 .. R : text[S + 0 + j] = arg.tail[j]
            BY <4>1, <4>3 DEF S, R
          <5>4. text[k] = arg.tail[k - S]
            BY <5>2, <5>3
          <5>5. QED
            BY <4>4, <5>2, <5>4
        <4>7. QED
          BY <4>5, <4>6
      <3>2. result = Failed("INVALID")
        BY <2>1, <2>2, <3>1, ConvertNothing
      <3>3. result.status = "INVALID"
        BY <3>2 DEF Failed
      <3>4. QED
        BY <2>3, <3>3
    <2>4. CASE arg.digits # <<>>
      <3>1. NumeralAt(text, p, a, b) /\ ValueAt(text, p, a, b) = n
        BY <2>1, <2>4, TextIsNumeral DEF text, p, a, b, n
      <3>2. p \in Int /\ a \in Int /\ b \in Int
        BY <3>1 DEF NumeralAt
      <3>3. Number(text).found = TRUE
        BY <2>2, <3>1, <3>2, NumberFound
      <3>4. result.status # "INVALID"
        <4>1. Strtoll(text).found = TRUE /\ Strtoull(text).found = TRUE
          BY <3>3 DEF Strtoll, Strtoull
        <4>2. \A v : InRange(t, v).status # "INVALID"
          BY DEF InRange, Failed
        <4>3. Failed("EXCEEDS_RANGE").status # "INVALID"
          BY DEF Failed
        <4>4. \/ Convert(t, text) = Failed("EXCEEDS_RANGE")
              \/ \E v : Convert(t, text) = InRange(t, v)
          BY <4>1 DEF Convert
        <4>5. QED
          BY <2>1, <4>2, <4>3, <4>4
      <3>5. ASSUME n >= 0 \/ t \in SignedTypes
            PROVE  /\ result.status = "OK" <=> n \in TypeMin(t) .. TypeMax(t)
                   /\ result.status = "OK" => result.value = n
                   /\ result.status = "EXCEEDS_MIN" => n < TypeMin(t)
                   /\ result.status = "EXCEEDS_MAX" => n > TypeMax(t)
        <4>1. SaysOf(t, n, result)
          BY <2>1, <2>2, <3>1, <3>2, <3>5, ConvertSays
        <4>2. CASE n \in TypeMin(t) .. TypeMax(t)
          BY <4>1, <4>2 DEF SaysOf
        <4>3. CASE n \notin TypeMin(t) .. TypeMax(t)
          BY <4>1, <4>3 DEF SaysOf, Failed
        <4>4. QED
          BY <4>2, <4>3
      <3>6. QED
        BY <2>4, <3>4, <3>5 DEF t, n
    <2>5. QED
      BY <2>3, <2>4 DEF t, n
  <1>2. QED
    BY <1>1, CallsInvHolds, PTL

\* trace_sprint of trace.c, with any buffer: as much of the whole trace as leaves a byte for the
\* NUL, where no line is longer than the code's own buffer for it.
THEOREM TraceFitsHolds == Spec => []TraceFits
  <1>1. ASSUME CallsInv PROVE TraceFits
    <2> SUFFICES ASSUME function = "trace_sprint",
                        \A i \in DOMAIN argument.frames : argument.frames[i] < LINE_LENGTH
                 PROVE  LET whole == WholeTrace(argument.frames)
                            room == argument.bufLen
                        IN  result = SubSeq(whole, 1, IF Len(whole) < room THEN Len(whole)
                                                      ELSE IF room = 0 THEN 0 ELSE room - 1)
      BY DEF TraceFits
    <2>1. argument \in Traces /\ result = Sprint(argument.frames, argument.bufLen)
      BY <1>1 DEF CallsInv
    <2>2. argument.frames \in Seq(Int) /\ argument.bufLen \in Nat
      BY <2>1, ArgumentsAssumption
    <2>3. QED
      BY <2>1, <2>2, SprintFits
  <1>2. QED
    BY <1>1, CallsInvHolds, PTL

\* os_path_normalize of os.c, for every path and every bound on its length: normalizing again
\* changes nothing, so the name that the reader stores, the one that is checked and the one that
\* is opened are one; it fits its buffer with the NUL, and a plain path leads to the same file.
THEOREM PathsAgreeHolds == Spec => []PathsAgree
  <1>1. ASSUME CallsInv PROVE PathsAgree
    <2> SUFFICES ASSUME function = "os_path_normalize"
                 PROVE  /\ Normalize(result) = result
                        /\ Len(result) < OS_MAX_PATH_LENGTH
                        /\ Plain(argument) => Location(result) = Location(argument)
      BY DEF PathsAgree
    <2>1. argument \in PathNames /\ result = Normalize(argument)
      BY <1>1 DEF CallsInv
    <2>2. argument \in Seq(Int)
      BY <2>1, ArgumentsAssumption
    <2>3. QED
      BY <2>1, <2>2, NormalizeSettles
  <1>2. QED
    BY <1>1, CallsInvHolds, PTL

\* get_identifier_type of scanner.c, for every word but those that it is known to misread: what
\* it takes for a keyword is spelt as one.  A string is a sequence of characters.
THEOREM OnlyExactSpellingsHolds ==
  ASSUME NEW CONSTANT Character, STRING = Seq(Character), \A w \in Words : ~Misread(w)
  PROVE  Spec => []OnlyExactSpellings
  <1>1. ASSUME CallsInv PROVE OnlyExactSpellings
    <2> SUFFICES ASSUME function = "get_identifier_type", result # IDENT
                 PROVE  argument \in Spellings(result)
      BY DEF OnlyExactSpellings
    <2>1. argument \in Words /\ result = IdentifierType(argument)
      BY <1>1 DEF CallsInv
    <2>2. \A w : w \in STRING => w \in Seq(Character)
      OBVIOUS
    <2>3. argument \in Seq(Character) /\ ~Misread(argument)
      BY <2>1, <2>2, ArgumentsAssumption, Zenon
    <2>4. Spelt(argument, IdentifierType(argument))
      BY <2>3, TrieSays
    <2>5. QED
      BY <2>1, <2>4 DEF Spelt
  <1>2. QED
    BY <1>1, CallsInvHolds, PTL

\* parse_option_type of cli.c, for every argument in every build: the documented spellings are
\* read as what they document, and what is read as an option begins with a spelling of it.
THEOREM OptionsRecognisedHolds ==
  ASSUME NEW CONSTANT Character, STRING = Seq(Character)
  PROVE  Spec => []OptionsRecognised
  <1>1. ASSUME CallsInv PROVE OptionsRecognised
    <2> SUFFICES ASSUME function = "parse_option_type" PROVE OptionsRecognised
      BY DEF OptionsRecognised
    <2>1. /\ argument.arg \in Arguments /\ argument.build \in Builds
          /\ result = ParseOptionType(argument.build, argument.arg)
      BY <1>1 DEF CallsInv
    <2>2. \A w : w \in STRING => w \in Seq(Character)
      OBVIOUS
    <2>3. argument.arg \in Seq(Character)
      BY <2>1, <2>2, ArgumentsAssumption, Zenon
    <2> DEFINE arg == argument.arg
               build == argument.build
    <2>4. arg \in Seq(Character) /\ build \in Builds /\ result = ParseOptionType(build, arg)
      BY <2>1, <2>3
    <2> HIDE DEF arg, build
    <2>5. LET read == ParseOptionType(build, arg)
              mine == {d \in Documented : build \in d[3]}
          IN  /\ \A d \in mine : arg = d[1] => read = d[2]
              /\ read = "UNKNOWN" <=> arg = "-" \/ ~BeginsWith(arg, "-")
              /\ arg = "--" <=> read = "END_OF_OPTIONS" /\ ~BeginsWith(arg, "--end-of-options")
              /\ read \notin {"UNKNOWN", "INVALID", "END_OF_OPTIONS"} =>
                   \/ \E d \in mine : d[2] = read /\ BeginsWith(arg, d[1])
                   \/ build \in {"compiler", "runner"} /\ BeginsWith(arg, "-i")
      BY <2>4, OptionSays
    <2>6. QED
      BY <2>4, <2>5, Zenon DEF OptionsRecognised, arg, build
  <1>2. QED
    BY <1>1, CallsInvHolds, PTL

================================================================================

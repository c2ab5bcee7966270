------------------------- MODULE ScannerTokens_proofs -------------------------
(***************************************************************************)
(* What the tokens of scanner_read_all say of the text they stand for:     *)
(* the content of each is the slice of the file it was made from, its type *)
(* is the one its spelling calls for, no token could have been longer, and *)
(* the tokens and the noise between them are the whole file.               *)
(***************************************************************************)
EXTENDS ScannerSource_proofs, Numeric_proofs

(***************************************************************************)
(* What one character call shows and keeps                                 *)
(***************************************************************************)

\* Struct r holds c, n places behind its cursor.
Shows(r, n, c) ==
  r.bufferPosition + n < r.bufferLength /\ r.buffer[r.bufferPosition + n] = c

\* What the reader showed n places further on and more, it shows now.
Kept(n) ==
  \A i \in Nat : \A c : Shows(reader, i + n, c) => Shows(reader', i, c)

\* An error and the end of the file are final.
Sticks ==
  /\ ~reader'.stateError => ~reader.stateError
  /\ reader.stateEOF => reader'.stateEOF /\ Answer = None

\* A refill keeps what is in the buffer behind the cursor.
LEMMA RefillShows ==
  ASSUME NEW r \in Reader, Sound(r), IsOpen(r), NEW o \in Refill(r),
         NEW i \in Nat, NEW c, Shows(r, i, c)
  PROVE  Shows(o.reader, i, c)
  <1>1. /\ r.bufferPosition \in 0..SIZE /\ r.bufferLength \in 0..SIZE /\ SIZE \in Nat
    BY SizeAssumption DEF Reader
  <1>2. CASE r.stateEOF \/ r.stateError
    BY <1>2, RefillDetails
  <1>3. CASE ~(r.stateEOF \/ r.stateError)
    <2> DEFINE keep == Remaining(r)
    <2>1. PICK f \in Fread(r, SIZE - keep) : o.reader = Refilled(r, keep, f)
      BY <1>3 DEF Refill
    <2>2. /\ o.reader.bufferPosition = 0 /\ o.reader.bufferLength = keep + f.got
          /\ o.reader.buffer = Shifted(r, keep, f.got) /\ f.got \in 0..SIZE
      BY <2>1, RefilledSound
    <2>3. keep \in Nat /\ r.bufferLength - r.bufferPosition <= keep
      BY RemainingFits
    <2> HIDE DEF keep
    <2>4. i < keep /\ i \in Index /\ i < keep + f.got
      BY <1>1, <2>2, <2>3 DEF Shows, Index
    <2>5. o.reader.buffer[0 + i] = r.buffer[r.bufferPosition + i]
      BY <2>2, <2>4 DEF Shifted
    <2>6. QED
      BY <2>2, <2>4, <2>5 DEF Shows
  <1>4. QED
    BY <1>2, <1>3

\* A refill that is called for at the end of the buffer and brings nothing has met the end
\* of the file or an error.
LEMMA RefillNothing ==
  ASSUME NEW r \in Reader, Sound(r), IsOpen(r), r.bufferPosition >= r.bufferLength,
         NEW o \in Refill(r), o.read = 0
  PROVE  ~o.reader.stateError => o.reader.stateEOF
  <1>1. CASE r.stateEOF \/ r.stateError
    BY <1>1, RefillDetails, Zenon
  <1>2. CASE ~(r.stateEOF \/ r.stateError)
    <2> DEFINE keep == Remaining(r)
    <2>1. PICK f \in Fread(r, SIZE - keep) : o = [reader |-> Refilled(r, keep, f), read |-> f.got]
      BY <1>2 DEF Refill
    <2>2. keep = 0
      <3>1. r.bufferPosition = r.bufferLength
        BY SizeAssumption DEF Reader, Sound
      <3>2. QED
        BY <3>1 DEF Remaining
    <2>3. o.reader = Refilled(r, keep, f) /\ f.got = 0 /\ keep + f.got = 0
      BY <2>1, <2>2
    <2>4. /\ o.reader.stateEOF = (keep + f.got = 0 /\ f.feof)
          /\ o.reader.stateError = (keep + f.got = 0 /\ ~f.feof)
      BY <2>3 DEF Refilled, Reader
    <2>5. QED
      BY <2>3, <2>4, Zenon
  <1>3. QED
    BY <1>1, <1>2

\* A refill takes back neither an error nor the end.
LEMMA RefillSticks ==
  ASSUME NEW r \in Reader, Sound(r), IsOpen(r), NEW o \in Refill(r)
  PROVE  /\ ~o.reader.stateError => ~r.stateError
         /\ r.stateEOF => o.reader.stateEOF /\ o.read = 0
  BY RefillDetails, Zenon

\* What a struct has to do with the one that Available makes of it.
LEMMA AvailableShows ==
  ASSUME NEW r \in Reader, Sound(r), IsOpen(r), NEW o \in Available(r)
  PROVE  /\ \A i \in Nat : \A c : Shows(r, i, c) => Shows(o.reader, i, c)
         /\ ~o.reader.stateError => ~r.stateError
         /\ r.stateEOF => o.reader.stateEOF /\ o.read = 0
         /\ o.read = 0 => (~o.reader.stateError => o.reader.stateEOF)
         /\ o.read # 0 => Shows(o.reader, 0, o.reader.buffer[o.reader.bufferPosition])
  <1>1. /\ r.bufferPosition < r.bufferLength => o.reader = r /\ o.read = 1
        /\ r.bufferPosition >= r.bufferLength => o \in Refill(r)
        /\ r.stateEOF => o.reader = r /\ o.read = 0
    BY AvailableDetails
  <1>2. r.bufferPosition \in Int /\ r.bufferLength \in Int
    BY SizeAssumption DEF Reader
  <1>3. o.read # 0 => Shows(o.reader, 0, o.reader.buffer[o.reader.bufferPosition])
    <2>1. o.reader \in Reader /\ (o.read # 0 => o.reader.bufferPosition < o.reader.bufferLength)
      BY AvailableSound
    <2>2. o.reader.bufferPosition + 0 = o.reader.bufferPosition
      BY <2>1, SizeAssumption DEF Reader
    <2>3. QED
      BY <2>1, <2>2 DEF Shows
  <1>4. CASE r.bufferPosition < r.bufferLength
    <2>1. o.reader = r /\ o.read = 1 /\ o.read # 0
      BY <1>1, <1>4
    <2>2. ~r.stateEOF
      BY <1>1, <2>1
    <2>3. QED
      BY <1>3, <2>1, <2>2
  <1>5. CASE r.bufferPosition >= r.bufferLength
    <2>1. o \in Refill(r)
      BY <1>1, <1>5
    <2>2. /\ ~o.reader.stateError => ~r.stateError
          /\ r.stateEOF => o.reader.stateEOF /\ o.read = 0
      BY <2>1, RefillSticks
    <2>3. o.read = 0 => (~o.reader.stateError => o.reader.stateEOF)
      BY <1>5, <2>1, RefillNothing
    <2>4. \A i \in Nat : \A c : Shows(r, i, c) => Shows(o.reader, i, c)
      BY <2>1, RefillShows
    <2>5. QED
      BY <1>3, <2>2, <2>3, <2>4
  <1>6. QED
    BY <1>2, <1>4, <1>5

\* buf_reader_peek.
LEMMA PeekDoes ==
  ASSUME IInv, IsOpen(reader), Peek
  PROVE  /\ delivered' = delivered
         /\ Answer # None => Shows(reader', 0, Answer)
         /\ Answer = None => (~reader'.stateError => reader'.stateEOF)
         /\ Kept(0) /\ Sticks
  <1>1. reader \in Reader /\ Sound(reader)
    BY DEF IInv, TypeOK, Bounds
  <1>2. PICK o \in Available(reader) :
          /\ reader' = o.reader
          /\ Returns("peek", 0, IF o.read = 0 THEN None
                                ELSE o.reader.buffer[o.reader.bufferPosition])
    BY DEF Peek
  <1>3. Answer = IF o.read = 0 THEN None ELSE o.reader.buffer[o.reader.bufferPosition]
    BY <1>2 DEF Returns, Answer
  <1>4. /\ \A i \in Nat : \A c : Shows(reader, i, c) => Shows(reader', i, c)
        /\ ~reader'.stateError => ~reader.stateError
        /\ reader.stateEOF => reader'.stateEOF /\ o.read = 0
        /\ o.read = 0 => (~reader'.stateError => reader'.stateEOF)
        /\ o.read # 0 => Shows(reader', 0, reader'.buffer[reader'.bufferPosition])
    BY <1>1, <1>2, AvailableShows
  <1>5. o.read # 0 => o.reader.buffer[o.reader.bufferPosition] \in Byte
    BY <1>1, AvailableSound
  <1>6. o.read # 0 => Answer # None
    <2>1. None \notin Byte
      BY DEF Byte, None
    <2>2. QED
      BY <1>3, <1>5, <2>1, Zenon
  <1>7. delivered' = delivered
    BY DEF Peek
  <1>8. Kept(0)
    BY <1>4 DEF Kept
  <1>9. Sticks
    BY <1>3, <1>4, Zenon DEF Sticks
  <1>10. QED
    BY <1>2, <1>3, <1>4, <1>6, <1>7, <1>8, <1>9, Zenon

\* buf_reader_peek_n.
LEMMA PeekNDoes ==
  ASSUME IInv, IsOpen(reader), NEW n \in 0..SIZE, PeekN(n)
  PROVE  /\ delivered' = delivered
         /\ Answer # None => Shows(reader', n, Answer)
         /\ Kept(0)
         /\ ~reader'.stateError => ~reader.stateError
         /\ reader.stateEOF => reader'.stateEOF
  <1>1. reader \in Reader /\ Sound(reader) /\ SIZE \in Nat
    BY SizeAssumption DEF IInv, TypeOK, Bounds
  <1>2. delivered' = delivered
    BY DEF PeekN
  <1>3. CASE /\ SIZE <= n \/ reader.bufferPosition + n < reader.bufferLength
             /\ Returns("peek_n", n, IF SIZE <= n THEN None
                                     ELSE reader.buffer[reader.bufferPosition + n])
             /\ reader' = reader
    <2>1. Answer # None => Shows(reader', n, Answer)
      BY <1>3 DEF Returns, Answer, Shows
    <2>2. Kept(0)
      BY <1>3 DEF Kept
    <2>3. QED
      BY <1>2, <1>3, <2>1, <2>2
  <1>4. CASE \E o \in Refill(reader) :
               /\ reader' = o.reader
               /\ Returns("peek_n", n,
                          IF o.read = 0 \/ n >= o.reader.bufferLength THEN None
                          ELSE o.reader.buffer[o.reader.bufferPosition + n])
    <2>1. PICK o \in Refill(reader) :
            /\ reader' = o.reader
            /\ Returns("peek_n", n,
                       IF o.read = 0 \/ n >= o.reader.bufferLength THEN None
                       ELSE o.reader.buffer[o.reader.bufferPosition + n])
      BY <1>4
    <2>2. /\ ~reader'.stateError => ~reader.stateError
          /\ reader.stateEOF => reader'.stateEOF
      BY <1>1, <2>1, RefillSticks
    <2>3. Kept(0)
      BY <1>1, <2>1, RefillShows DEF Kept
    <2>4. ASSUME Answer # None PROVE Shows(reader', n, Answer)
      <3>1. o.read # 0 /\ ~(n >= reader'.bufferLength)
            /\ Answer = reader'.buffer[reader'.bufferPosition + n]
        BY <2>1, <2>4 DEF Returns, Answer
      <3>2. ~(reader.stateEOF \/ reader.stateError)
        BY <1>1, <3>1, RefillDetails
      <3>3. PICK f \in Fread(reader, SIZE - Remaining(reader)) :
              reader' = Refilled(reader, Remaining(reader), f)
        BY <2>1, <3>2 DEF Refill
      <3>4. reader'.bufferPosition = 0 /\ reader' \in Reader
        BY <1>1, <3>3, RefilledSound
      <3>5. reader'.bufferPosition + n < reader'.bufferLength
        BY <1>1, <3>1, <3>4 DEF Reader
      <3>6. QED
        BY <3>1, <3>5 DEF Shows
    <2>5. QED
      BY <1>2, <2>2, <2>3, <2>4
  <1>5. QED
    BY <1>3, <1>4 DEF PeekN

\* buf_reader_read, and so buf_reader_consume.
LEMMA ReadDoes ==
  ASSUME IInv, IsOpen(reader), Read
  PROVE  /\ \/ /\ Answer = None /\ delivered' = delivered
               /\ ~reader'.stateError => reader'.stateEOF
            \/ Answer \in Byte /\ delivered' = Append(delivered, Answer)
         /\ \A c : Shows(reader, 0, c) =>
              c \in Byte /\ Answer = c /\ delivered' = Append(delivered, c)
         /\ Kept(1) /\ Sticks
  <1>1. reader \in Reader /\ Sound(reader)
    BY DEF IInv, TypeOK, Bounds
  <1>2. PICK o \in Available(reader) :
          IF o.read = 0
          THEN /\ reader' = o.reader
               /\ delivered' = delivered
               /\ Returns("read", 0, None)
          ELSE /\ reader' = Advanced(o.reader)
               /\ delivered' = Append(delivered, o.reader.buffer[o.reader.bufferPosition])
               /\ Returns("read", 0, o.reader.buffer[o.reader.bufferPosition])
    BY DEF Read
  <1>3. /\ \A i \in Nat : \A c : Shows(reader, i, c) => Shows(o.reader, i, c)
        /\ ~o.reader.stateError => ~reader.stateError
        /\ reader.stateEOF => o.reader.stateEOF /\ o.read = 0
        /\ o.read = 0 => (~o.reader.stateError => o.reader.stateEOF)
        /\ o.read # 0 => Shows(o.reader, 0, o.reader.buffer[o.reader.bufferPosition])
    BY <1>1, AvailableShows
  <1>4. /\ o.reader \in Reader /\ Sound(o.reader)
        /\ o.read # 0 => o.reader.bufferPosition < o.reader.bufferLength
        /\ o.read # 0 => o.reader.buffer[o.reader.bufferPosition] \in Byte
    BY <1>1, AvailableSound
  <1>5. o.reader.bufferPosition \in Nat /\ o.reader.bufferLength \in Nat
    BY <1>4, SizeAssumption DEF Reader
  <1>6. \A c : Shows(reader, 0, c) =>
          o.read # 0 /\ o.reader.buffer[o.reader.bufferPosition] = c
    <2> SUFFICES ASSUME NEW c, Shows(reader, 0, c)
                 PROVE  o.read # 0 /\ o.reader.buffer[o.reader.bufferPosition] = c
      OBVIOUS
    <2>1. reader.bufferPosition < reader.bufferLength
          /\ reader.buffer[reader.bufferPosition] = c
      BY <1>1, SizeAssumption DEF Shows, Reader
    <2>2. o.reader = reader /\ o.read = 1
      BY <1>1, <2>1, AvailableDetails
    <2>3. QED
      BY <2>1, <2>2
  <1>7. CASE o.read = 0
    <2>1. /\ Answer = None /\ delivered' = delivered /\ reader' = o.reader
      BY <1>2, <1>7 DEF Returns, Answer
    <2>2. Kept(1)
      <3> SUFFICES ASSUME NEW i \in Nat, NEW c, Shows(reader, i + 1, c)
                   PROVE  FALSE
        BY DEF Kept
      <3>1. reader.bufferPosition < reader.bufferLength
        BY <1>1, SizeAssumption DEF Shows, Reader
      <3>2. o.read = 1
        BY <1>1, <3>1, AvailableDetails
      <3>3. QED
        BY <1>7, <3>2
    <2>3. Sticks
      BY <1>3, <2>1 DEF Sticks
    <2>4. QED
      BY <1>3, <1>6, <1>7, <2>1, <2>2, <2>3
  <1>8. CASE o.read # 0
    <2> DEFINE c0 == o.reader.buffer[o.reader.bufferPosition]
    <2>1. /\ Answer = c0 /\ delivered' = Append(delivered, c0) /\ reader' = Advanced(o.reader)
          /\ c0 \in Byte
      BY <1>2, <1>4, <1>8 DEF Returns, Answer
    <2>2. /\ reader'.buffer = o.reader.buffer
          /\ reader'.bufferLength = o.reader.bufferLength
          /\ reader'.bufferPosition = o.reader.bufferPosition + 1
      BY <1>4, <1>8, <2>1, AdvancedSound
    <2>3. Kept(1)
      <3> SUFFICES ASSUME NEW i \in Nat, NEW c, Shows(reader, i + 1, c)
                   PROVE  Shows(reader', i, c)
        BY DEF Kept
      <3>1. i + 1 \in Nat
        OBVIOUS
      <3>2. Shows(o.reader, i + 1, c)
        BY <1>3, <3>1
      <3>3. o.reader.bufferPosition + (i + 1) = (o.reader.bufferPosition + 1) + i
        BY <1>5
      <3>4. QED
        BY <2>2, <3>2, <3>3 DEF Shows
    <2>4. reader'.stateError = o.reader.stateError
      BY <1>4, <2>1 DEF Advanced, Reader
    <2>5. Sticks
      BY <1>3, <1>8, <2>4 DEF Sticks
    <2>6. \A c : Shows(reader, 0, c) => c = c0
      BY <1>6
    <2> HIDE DEF c0
    <2>7. QED
      BY <2>1, <2>3, <2>5, <2>6
  <1>9. QED
    BY <1>7, <1>8

\* No call at all.
LEMMA QuietDoes ==
  ASSUME Quiet
  PROVE  reader' = reader /\ delivered' = delivered /\ Kept(0)
  BY DEF Quiet, vars, Kept

(***************************************************************************)
(* The bytes of the buffer and the text                                    *)
(***************************************************************************)

\* What is shown is in the file, at its place.
LEMMA ShowsText ==
  ASSUME NEW r \in Reader, Sound(r), IsOpen(r), NEW d \in Seq(Byte), Faithfully(r, d),
         NEW n \in Nat, NEW c, Shows(r, n, c), Len(d) + n < Len(Content[r.file])
  PROVE  c = Content[r.file][Len(d) + n + 1]
  <1> DEFINE text == Content[r.file]
  <1>1. /\ r.bufferPosition \in 0..SIZE /\ r.bufferLength \in 0..SIZE /\ r.offset \in Nat
        /\ SIZE \in Nat /\ Len(d) \in Nat /\ Len(text) \in Nat
    BY WholeNumbers
  <1>2. r.bufferPosition + n \in r.bufferPosition .. r.bufferLength - 1
    BY <1>1 DEF Shows
  <1>3. (r.bufferPosition + n) - r.bufferPosition = n
    BY <1>1
  <1>4. CASE Whole(r, d)
    BY <1>2, <1>3, <1>4 DEF Whole, Shows
  <1>5. CASE Window(r) /\ Taken(r, d)
    <2>1. r.offset - r.bufferLength + (r.bufferPosition + n) + 1 = Len(d) + n + 1
      <3>1. \A o, l, p, x, k \in Nat : o = x + (l - p) => o - l + (p + k) + 1 = x + k + 1
        OBVIOUS
      <3>2. r.bufferPosition \in Nat /\ r.bufferLength \in Nat
        BY <1>1
      <3>3. r.offset = Len(d) + (r.bufferLength - r.bufferPosition)
        BY <1>5 DEF Taken
      <3> DEFINE o == r.offset
                 l == r.bufferLength
                 p == r.bufferPosition
                 x == Len(d)
      <3>4. o \in Nat /\ l \in Nat /\ p \in Nat /\ x \in Nat /\ o = x + (l - p)
        BY <1>1, <3>2, <3>3
      <3> HIDE DEF o, l, p, x
      <3>5. o - l + (p + n) + 1 = x + n + 1
        BY <3>1, <3>4
      <3>6. QED
        BY <3>5 DEF o, l, p, x
    <2> DEFINE i == r.bufferPosition + n
    <2>2. i \in r.bufferPosition .. r.bufferLength - 1 /\ c = r.buffer[i]
      BY <1>2 DEF Shows
    <2>3. r.offset - r.bufferLength + i + 1 = Len(d) + n + 1
      BY <2>1
    <2> HIDE DEF i
    <2>4. r.buffer[i] = text[r.offset - r.bufferLength + i + 1]
      BY <1>5, <2>2 DEF Window
    <2>5. QED
      BY <2>2, <2>3, <2>4
  <1>6. QED
    BY <1>4, <1>5 DEF Faithfully

\* A clean reader shows nothing else, and nothing else has been taken out of it.
LEMMA CleanInside ==
  ASSUME NEW r \in Reader, Sound(r), IsOpen(r), NEW d \in Seq(Byte), Taken(r, d)
  PROVE  /\ Len(d) <= Len(Content[r.file])
         /\ \A n \in Nat : \A c : Shows(r, n, c) => Len(d) + n < Len(Content[r.file])
  <1>1. /\ r.bufferPosition \in 0..SIZE /\ r.bufferLength \in 0..SIZE /\ r.offset \in Nat
        /\ SIZE \in Nat /\ Len(d) \in Nat /\ Len(Content[r.file]) \in Nat
    BY WholeNumbers
  <1>2. /\ r.offset = Len(d) + (r.bufferLength - r.bufferPosition)
        /\ r.bufferPosition <= r.bufferLength /\ r.offset <= Len(Content[r.file])
    BY DEF Taken, Sound
  <1>3. r.bufferPosition \in Nat /\ r.bufferLength \in Nat
    BY <1>1
  <1>4. \A o, l, p, x, y \in Nat : o = x + (l - p) /\ p <= l /\ o <= y =>
          x <= y /\ \A n \in Nat : p + n < l => x + n < y
    OBVIOUS
  <1>5. /\ Len(d) <= Len(Content[r.file])
        /\ \A n \in Nat : r.bufferPosition + n < r.bufferLength => Len(d) + n < Len(Content[r.file])
    <2> DEFINE o == r.offset
               l == r.bufferLength
               p == r.bufferPosition
               x == Len(d)
               y == Len(Content[r.file])
    <2>1. /\ o \in Nat /\ l \in Nat /\ p \in Nat /\ x \in Nat /\ y \in Nat
          /\ o = x + (l - p) /\ p <= l /\ o <= y
      BY <1>1, <1>2, <1>3
    <2> HIDE DEF o, l, p, x, y
    <2>2. x <= y /\ \A n \in Nat : p + n < l => x + n < y
      BY <2>1, <1>4
    <2>3. QED
      BY <2>2 DEF o, l, p, x, y
  <1>6. QED
    BY <1>5 DEF Shows

\* A reader whose buffer held the whole file at once has zeros behind it, from
\* buf_reader_new on: the byte that follows the file is one.
Nulled(r, d) ==
  /\ Len(d) <= Len(Content[r.file]) /\ ~r.stateEOF =>
       /\ r.bufferPosition + (Len(Content[r.file]) - Len(d)) \in Index
       /\ r.buffer[r.bufferPosition + (Len(Content[r.file]) - Len(d))] = NUL
  /\ Len(d) > Len(Content[r.file]) => d[Len(Content[r.file]) + 1] = NUL

\* A refill of such a reader gets nothing.
LEMMA WholeGetsNothing ==
  ASSUME NEW r \in Reader, Sound(r), IsOpen(r), NEW d \in Seq(Byte), Whole(r, d),
         NEW f \in Fread(r, SIZE - Remaining(r))
  PROVE  f.got = 0 /\ f.feof
  <1>1. SIZE - Remaining(r) \in 0..SIZE
    BY RemainingFits
  <1>2. r.feof /\ r.offset = Len(Content[r.file])
    BY DEF Whole
  <1>3. f.got \in 0 .. (SIZE - Remaining(r)) /\ r.offset + f.got <= Len(Content[r.file])
    BY <1>1, FreadResult
  <1>4. Len(Content[r.file]) \in Nat /\ SIZE \in Nat
    BY WholeNumbers
  <1>5. f.got = 0
    BY <1>1, <1>2, <1>3, <1>4
  <1>6. QED
    BY <1>2, <1>5, FreadStaysAtEnd

\* It moves the zero along with the rest.
LEMMA NulledRefilled ==
  ASSUME NEW r \in Reader, Sound(r), IsOpen(r), NEW d \in Seq(Byte), Whole(r, d), Nulled(r, d),
         NEW o \in Refill(r)
  PROVE  Nulled(o.reader, d)
  <1>1. CASE r.stateEOF \/ r.stateError
    <2>1. o.reader = r
      BY <1>1, RefillDetails
    <2>2. QED
      BY <2>1
  <1>2. CASE ~(r.stateEOF \/ r.stateError)
    <2> DEFINE keep == Remaining(r)
               s == o.reader
               behind == Len(Content[r.file]) - Len(d)
    <2>1. PICK f \in Fread(r, SIZE - keep) : s = Refilled(r, keep, f)
      BY <1>2 DEF Refill
    <2>2. /\ s.file = r.file /\ s.bufferPosition = 0
          /\ s.buffer = Shifted(r, keep, f.got)
      BY <2>1, RefilledSound
    <2>3. f.got = 0 /\ f.feof
      BY <2>1, WholeGetsNothing
    <2>4. s.stateEOF = (keep + f.got = 0 /\ f.feof)
      BY <2>1 DEF Refilled, Reader
    <2>5. /\ keep \in 0..SIZE /\ (keep # 0 => r.bufferPosition + keep = SIZE)
      BY RemainingFits
    <2>6. /\ r.bufferPosition \in 0..SIZE /\ SIZE \in Nat /\ behind \in Int
          /\ Len(d) \in Nat /\ Len(Content[r.file]) \in Nat
      BY WholeNumbers
    <2> HIDE DEF s, keep
    <2>7. ASSUME Len(d) <= Len(Content[r.file]), ~s.stateEOF
          PROVE  s.bufferPosition + behind \in Index /\ s.buffer[s.bufferPosition + behind] = NUL
      <3>1. keep # 0
        <4>1. ~(keep + f.got = 0)
          BY <2>3, <2>4, <2>7, Zenon
        <4>2. QED
          BY <2>3, <2>5, <4>1
      <3>2. /\ r.bufferPosition + behind \in Index
            /\ r.buffer[r.bufferPosition + behind] = NUL
        BY <1>2, <2>7 DEF Nulled
      <3>3. behind \in Index /\ behind < keep /\ 0 + behind = behind
        <4>1. behind \in Nat /\ r.bufferPosition \in Nat /\ keep \in Nat
          BY <2>5, <2>6, <2>7
        <4>2. r.bufferPosition + behind < SIZE /\ r.bufferPosition + keep = SIZE
          BY <2>5, <2>6, <3>1, <3>2 DEF Index
        <4>3. \A p, b, k, n \in Nat : p + b < n /\ p + k = n => b < k /\ b < n
          OBVIOUS
        <4> DEFINE p == r.bufferPosition
        <4> HIDE DEF p
        <4>4. behind < keep /\ behind < SIZE
          <5>1. behind \in Nat /\ p \in Nat /\ keep \in Nat /\ SIZE \in Nat
                /\ p + behind < SIZE /\ p + keep = SIZE
            BY <2>6, <4>1, <4>2 DEF p
          <5>2. QED
            BY <4>3, <5>1
        <4>5. QED
          BY <2>6, <4>1, <4>4 DEF Index
      <3>4. s.buffer[behind] = r.buffer[r.bufferPosition + behind]
        BY <2>2, <3>3 DEF Shifted
      <3>5. QED
        BY <2>2, <3>2, <3>3, <3>4
    <2>8. Nulled(s, d)
      BY <2>2, <2>7 DEF Nulled
    <2>9. QED
      BY <2>8 DEF s
  <1>3. QED
    BY <1>1, <1>2

\* Reading takes the bytes out one by one, the zero behind the last of the file.
LEMMA NulledAdvanced ==
  ASSUME NEW r \in Reader, Sound(r), IsOpen(r), NEW d \in Seq(Byte), Nulled(r, d),
         r.bufferPosition < r.bufferLength
  PROVE  Nulled(Advanced(r), Append(d, r.buffer[r.bufferPosition]))
  <1> DEFINE s == Advanced(r)
             c == r.buffer[r.bufferPosition]
             e == Append(d, c)
             text == Content[r.file]
  <1>1. /\ s.file = r.file /\ s.buffer = r.buffer /\ s.stateEOF = r.stateEOF
        /\ s.bufferPosition = r.bufferPosition + 1
    BY AdvancedSound
  <1>2. /\ r.bufferPosition \in 0..SIZE /\ r.bufferLength \in 0..SIZE
        /\ SIZE \in Nat /\ Len(d) \in Nat /\ Len(text) \in Nat
    BY WholeNumbers
  <1>3. /\ Len(e) = Len(d) + 1
        /\ \A i \in 1 .. Len(d) : e[i] = d[i]
        /\ e[Len(d) + 1] = c
    BY <1>2
  <1>4. ~r.stateEOF
    BY <1>2 DEF Sound
  <1> HIDE DEF s, e
  <1>5. ASSUME Len(e) <= Len(text)
        PROVE  /\ s.bufferPosition + (Len(text) - Len(e)) \in Index
               /\ s.buffer[s.bufferPosition + (Len(text) - Len(e))] = NUL
    <2>1. /\ s.bufferPosition + (Len(text) - Len(e)) = r.bufferPosition + (Len(text) - Len(d))
          /\ Len(d) <= Len(text)
      <3>1. Len(e) = Len(d) + 1
        BY <1>3
      <3> HIDE DEF text
      <3>2. QED
        BY <1>1, <1>2, <1>5, <3>1
    <2>2. QED
      BY <1>1, <1>4, <2>1 DEF Nulled
  <1>6. ASSUME Len(e) > Len(text) PROVE e[Len(text) + 1] = NUL
    <2>1. CASE Len(d) = Len(text)
      <3>1. r.bufferPosition + (Len(text) - Len(d)) = r.bufferPosition
        BY <1>2, <2>1
      <3>2. c = NUL
        BY <1>2, <1>4, <2>1, <3>1 DEF Nulled
      <3>3. QED
        BY <1>3, <2>1, <3>2
    <2>2. CASE Len(d) # Len(text)
      <3>1. Len(d) > Len(text) /\ Len(text) + 1 \in 1 .. Len(d)
        BY <1>2, <1>3, <1>6, <2>2
      <3>2. QED
        BY <1>3, <3>1 DEF Nulled
    <2>3. QED
      BY <2>1, <2>2
  <1>7. Nulled(s, e)
    BY <1>1, <1>5, <1>6 DEF Nulled
  <1>8. QED
    BY <1>7 DEF s, e

\* So it is while the scanner runs.
NullLife ==
  InUse /\ SourceFile \notin Failing /\ Len(Content[SourceFile]) < SIZE =>
    Nulled(reader, delivered)

\* The bytes of the buffer that have not been read.
Unread(r) == r.bufferLength - r.bufferPosition

\* The opening finds the buffer as buf_reader_new left it.
LEMMA NullOpened ==
  ASSUME ScanInv, StreamLife, ScannerNew
  PROVE  /\ NullLife'
         /\ SourceFile \notin Failing /\ Len(Content[SourceFile]) < SIZE =>
              Unread(reader') <= Len(Content[SourceFile]) /\ delivered' = <<>>
  <1>1. reader = NewReader(SourceFile) /\ SourceFile \in Names /\ SourceFile # NoFile
    BY SourceNamed DEF StreamLife, Life, ScannerNew, ScanInv
  <1>2. SourceFile' = SourceFile
    BY DEF ScannerNew, Goto, SourceFile
  <1>3. SUFFICES ASSUME SourceFile \notin Failing, Len(Content[SourceFile]) < SIZE
                 PROVE  /\ Nulled(reader', delivered')
                        /\ Unread(reader') <= Len(Content[SourceFile]) /\ delivered' = <<>>
    BY <1>2 DEF NullLife
  <1>4. /\ reader \in Reader /\ Sound(reader) /\ Drained(reader)
        /\ ~IsOpen(reader) /\ ~reader.stateError
        /\ reader.fileName = SourceFile /\ reader.buffer = [i \in Index |-> NUL]
    <2>1. reader \in Reader /\ Sound(reader)
      BY DEF ScanInv, IInv, TypeOK, Bounds
    <2>2. Drained(reader)
      BY <1>1 DEF NewReader, Idle, Drained
    <2>3. QED
      BY <1>1, <2>1, <2>2 DEF NewReader, Idle, IsOpen
  <1>5. OpenSucceeds(reader, streams)
    BY DEF ScannerNew, OpenStored, CheckFails, FopenFails, Returns
  <1> DEFINE q == [reader EXCEPT !.file = reader.fileName, !.offset = 0, !.feof = FALSE]
  <1>6. delivered' = <<>>
    BY <1>5 DEF OpenSucceeds
  <1>7. PICK o \in Refill(q) : reader' = [o.reader EXCEPT !.columnNumber = 1, !.lineNumber = 1]
    BY <1>5 DEF OpenSucceeds
  <1>8. Whole(reader', <<>>) /\ reader'.file = SourceFile
    BY <1>1, <1>3, <1>4, <1>7, WholeOpened
  <1>9. /\ q \in Reader /\ Sound(q) /\ IsOpen(q) /\ q.offset = 0 /\ ~q.stateError
        /\ q.buffer = reader.buffer /\ q.file = SourceFile /\ q.bufferPosition = reader.bufferPosition
        /\ q.bufferLength = reader.bufferLength /\ q.stateEOF = reader.stateEOF
    <2>1. q \in Reader /\ Sound(q) /\ IsOpen(q) /\ q.offset = 0
      BY <1>1, <1>4, FreshStream
    <2>2. QED
      BY <1>4, <2>1 DEF Reader
  <1>10. ~q.stateEOF /\ q.bufferLength = 0 /\ q.bufferPosition = 0
    <2>1. ~q.stateEOF /\ q.bufferLength = 0 /\ q.bufferPosition <= q.bufferLength
      BY <1>4, <1>9 DEF Sound, Drained
    <2>2. q.bufferPosition \in 0..SIZE
      BY <1>9 DEF Reader
    <2>3. QED
      BY <2>1, <2>2, SizeAssumption
  <1>11. o \in Refill(q)
    BY <1>7
  <1> HIDE DEF q
  <1>12. Remaining(q) = 0
    BY <1>10 DEF Remaining
  <1>13. PICK f \in Fread(q, SIZE - Remaining(q)) : o.reader = Refilled(q, Remaining(q), f)
    BY <1>9, <1>10, <1>11 DEF Refill
  <1>14. /\ o.reader.bufferPosition = 0 /\ o.reader.bufferLength = Remaining(q) + f.got
         /\ o.reader.buffer = Shifted(q, Remaining(q), f.got) /\ o.reader \in Reader
    BY <1>9, <1>13, RefilledSound
  <1>15. /\ reader'.bufferPosition = 0 /\ reader'.buffer = Shifted(q, 0, f.got)
         /\ reader'.bufferLength = 0 + f.got
    BY <1>7, <1>12, <1>14 DEF Reader
  <1> DEFINE n == Len(Content[SourceFile])
  <1>16. n \in Nat /\ n \in Index /\ n < SIZE
    <2>1. Content[SourceFile] \in Seq(Byte)
      BY <1>1, NamesAssumption
    <2>2. QED
      BY <1>3, <2>1, SizeAssumption DEF Index
  <1>17. f.got <= n /\ f.got \in Nat
    <2>1. SIZE - Remaining(q) \in 0..SIZE
      BY <1>9, RemainingFits
    <2>2. f.got \in 0 .. (SIZE - Remaining(q)) /\ q.offset + f.got <= Len(Content[q.file])
      BY <1>9, <2>1, FreadResult
    <2>3. QED
      BY <1>9, <1>12, <1>16, <2>2, SizeAssumption
  <1>18. ~(n < 0) /\ ~(n < 0 + f.got)
    BY <1>16, <1>17
  <1>19. reader'.buffer[n] = NUL
    <2>1. reader'.buffer[n] = q.buffer[n]
      BY <1>15, <1>16, <1>18 DEF Shifted
    <2>2. QED
      BY <1>4, <1>9, <1>16, <2>1
  <1>20. Len(<<>>) = 0 /\ 0 + (n - 0) = n /\ ~(0 > n)
    BY <1>16
  <1>21. Nulled(reader', delivered')
    BY <1>6, <1>8, <1>15, <1>16, <1>19, <1>20 DEF Nulled
  <1>22. Unread(reader') <= n
    BY <1>15, <1>16, <1>17 DEF Unread
  <1>23. QED
    BY <1>6, <1>21, <1>22

\* Every character call keeps it so.
LEMMA NullStep ==
  ASSUME ScanInv, StreamLife, NullLife, ScanStep, Typed2
  PROVE  NullLife'
  <1>1. InUse /\ IsOpen(reader) /\ SourceFile' = SourceFile /\ StreamLife' /\ InUse'
    BY RunningLife
  <1>2. SUFFICES ASSUME SourceFile \notin Failing, Len(Content[SourceFile]) < SIZE
                 PROVE  Nulled(reader', delivered')
    BY <1>1 DEF NullLife
  <1>3. /\ reader \in Reader /\ Sound(reader) /\ delivered \in Seq(Byte)
        /\ Whole(reader, delivered) /\ Nulled(reader, delivered)
    BY <1>1, <1>2 DEF ScanInv, IInv, TypeOK, Bounds, StreamLife, WholeLife, NullLife
  <1>4. ASSUME NEW o \in Available(reader)
        PROVE  /\ o.reader \in Reader /\ Sound(o.reader) /\ IsOpen(o.reader)
               /\ Nulled(o.reader, delivered)
               /\ o.read # 0 => o.reader.bufferPosition < o.reader.bufferLength
    <2>1. /\ o.reader \in Reader /\ Sound(o.reader) /\ o.reader.file = reader.file
          /\ o.read # 0 => o.reader.bufferPosition < o.reader.bufferLength
      BY <1>1, <1>3, AvailableSound
    <2>2. o.reader = reader \/ o \in Refill(reader)
      BY DEF Available
    <2>3. Nulled(o.reader, delivered)
      BY <1>1, <1>3, <2>2, NulledRefilled
    <2>4. QED
      BY <1>1, <2>1, <2>3 DEF IsOpen
  <1>5. CASE Read
    <2>1. PICK o \in Available(reader) :
            \/ o.read = 0 /\ reader' = o.reader /\ delivered' = delivered
            \/ /\ o.read # 0 /\ reader' = Advanced(o.reader)
               /\ delivered' = Append(delivered, o.reader.buffer[o.reader.bufferPosition])
      BY <1>5 DEF Read
    <2>2. QED
      BY <1>3, <1>4, <2>1, NulledAdvanced
  <1>6. CASE Peek
    <2>1. delivered' = delivered /\ \E o \in Available(reader) : reader' = o.reader
      BY <1>6 DEF Peek
    <2>2. QED
      BY <1>4, <2>1
  <1>7. CASE \E n \in 0..SIZE : PeekN(n)
    <2>1. /\ delivered' = delivered
          /\ reader' = reader \/ \E o \in Refill(reader) : reader' = o.reader
      BY <1>7 DEF PeekN
    <2>2. QED
      BY <1>1, <1>3, <2>1, NulledRefilled
  <1>8. CASE Quiet
    <2>1. reader' = reader /\ delivered' = delivered
      BY <1>8, QuietDoes
    <2>2. QED
      BY <1>3, <2>1
  <1>9. QED
    BY <1>5, <1>6, <1>7, <1>8, ScanStepCalls DEF ScanInv

(***************************************************************************)
(* The reader as a view of the text                                        *)
(***************************************************************************)

\* What is known of struct r over a text, after d was taken out of it: what was taken and
\* what it shows is the text, a zero comes behind it, and the end comes with the end.
View(r, d, text) ==
  /\ \A i \in 1 .. Len(d) : i <= Len(text) => d[i] = text[i]
  /\ \A n \in Nat : \A c : Shows(r, n, c) /\ Len(d) + n < Len(text) => c = text[Len(d) + n + 1]
  /\ \A n \in Nat : \A c : Shows(r, n, c) /\ Len(d) + n = Len(text) => c = NUL
  /\ Len(d) > Len(text) => d[Len(text) + 1] = NUL
  /\ r.stateEOF => Len(d) >= Len(text)

\* An intact reader is one.
LEMMA ViewOf ==
  ASSUME NEW r \in Reader, Sound(r), IsOpen(r), NEW d \in Seq(Byte),
         \/ Whole(r, d) /\ Nulled(r, d)
         \/ Window(r) /\ Taken(r, d) /\ (r.stateEOF => r.feof)
  PROVE  View(r, d, Content[r.file])
  <1> DEFINE text == Content[r.file]
  <1>1. /\ r.bufferPosition \in 0..SIZE /\ r.bufferLength \in 0..SIZE /\ r.offset \in Nat
        /\ SIZE \in Nat /\ Len(d) \in Nat /\ Len(text) \in Nat
    BY WholeNumbers
  <1>2. Faithfully(r, d)
    BY DEF Faithfully
  <1>3. \A i \in 1 .. Len(d) : i <= Len(text) => d[i] = text[i]
    BY <1>1 DEF Whole, Taken
  <1>4. \A n \in Nat : \A c : Shows(r, n, c) /\ Len(d) + n < Len(text) => c = text[Len(d) + n + 1]
    BY <1>2, ShowsText
  <1>5. ASSUME NEW n \in Nat, NEW c, Shows(r, n, c), Len(d) + n = Len(text)
        PROVE  c = NUL
    <2>1. CASE Nulled(r, d)
      <3>1. ~r.stateEOF /\ Len(d) <= Len(text) /\ Len(text) - Len(d) = n
        BY <1>1, <1>5 DEF Sound, Shows
      <3>2. QED
        BY <1>5, <2>1, <3>1 DEF Nulled, Shows
    <2>2. CASE Taken(r, d)
      <3>1. Len(d) + n < Len(text)
        BY <1>5, <2>2, CleanInside
      <3>2. QED
        BY <1>1, <1>5, <3>1
    <2>3. QED
      BY <2>1, <2>2
  <1>6. ASSUME Len(d) > Len(text) PROVE d[Len(text) + 1] = NUL
    <2>1. CASE Nulled(r, d)
      BY <1>6, <2>1 DEF Nulled
    <2>2. CASE Taken(r, d)
      <3>1. Len(d) <= Len(text)
        BY <2>2, CleanInside
      <3>2. QED
        BY <1>1, <1>6, <3>1
    <2>3. QED
      BY <2>1, <2>2
  <1>7. ASSUME r.stateEOF PROVE Len(d) >= Len(text)
    <2>1. r.bufferLength = 0 /\ r.bufferPosition = 0
      BY <1>1, <1>7 DEF Sound
    <2>2. CASE Whole(r, d)
      <3>1. Len(d) + (r.bufferLength - r.bufferPosition) >= Len(text)
        BY <2>2 DEF Whole
      <3>2. QED
        BY <1>1, <2>1, <3>1
    <2>3. CASE Taken(r, d) /\ r.feof
      <3>1. r.offset = Len(text) /\ r.offset = Len(d) + (r.bufferLength - r.bufferPosition)
        BY <2>3 DEF Taken, Sound
      <3>2. QED
        BY <1>1, <2>1, <3>1
    <2>4. QED
      BY <1>7, <2>2, <2>3
  <1>8. QED
    BY <1>3, <1>4, <1>5, <1>6, <1>7 DEF View

\* The text that is being scanned.
Text == Content[SourceFile]

\* The readers that no read has failed, and among them those that show the text.
Calm == InUse /\ ~reader.stateError
Sure == Calm /\ Intact /\ SourceFile \notin Failing

\* What the invariants so far say.
Base == ScanInv /\ StreamLife /\ NullLife

\* The state as it is.
LEMMA NowView ==
  ASSUME Base, InUse
  PROVE  /\ Text \in Seq(Byte) /\ Len(Text) \in Nat
         /\ delivered \in Seq(Byte) /\ Len(delivered) \in Nat
         /\ IsOpen(reader) /\ reader.file = SourceFile
         /\ Intact => View(reader, delivered, Text)
  <1>1. SourceFile \in Names /\ SourceFile # NoFile
    BY SourceNamed DEF Base, ScanInv
  <1>2. Text \in Seq(Byte)
    BY <1>1, NamesAssumption DEF Text
  <1>3. /\ reader \in Reader /\ Sound(reader) /\ delivered \in Seq(Byte)
        /\ IsOpen(reader) /\ reader.file = SourceFile
    BY <1>1 DEF Base, ScanInv, IInv, TypeOK, Bounds, StreamLife, Life, IsOpen
  <1>4. ASSUME Intact PROVE View(reader, delivered, Text)
    <2>1. CASE clean
      <3>1. Window(reader) /\ Taken(reader, delivered) /\ (reader.stateEOF => reader.feof)
        BY <1>3, <2>1 DEF Base, ScanInv, IInv, Faithful, EndFlag
      <3>2. QED
        BY <1>3, <3>1, ViewOf DEF Text
    <2>2. CASE SourceFile \notin Failing /\ Len(Content[SourceFile]) < SIZE
      <3>1. Whole(reader, delivered) /\ Nulled(reader, delivered)
        BY <2>2 DEF Base, StreamLife, WholeLife, NullLife
      <3>2. QED
        BY <1>3, <3>1, ViewOf DEF Text
    <2>3. QED
      BY <1>4, <2>1, <2>2 DEF Intact
  <1>5. QED
    BY <1>2, <1>3, <1>4

\* And the one a step leads to.
LEMMA NextView ==
  ASSUME Base', InUse', SourceFile' \in Names
  PROVE  Intact' => View(reader', delivered', Text')
  <1>1. SourceFile' # NoFile
    BY NamesAssumption
  <1>2. /\ reader' \in Reader /\ Sound(reader') /\ delivered' \in Seq(Byte)
        /\ IsOpen(reader') /\ reader'.file = SourceFile'
    BY <1>1 DEF Base, ScanInv, IInv, TypeOK, Bounds, StreamLife, Life, IsOpen
  <1>3. SUFFICES ASSUME Intact' PROVE View(reader', delivered', Text')
    OBVIOUS
  <1>4. CASE clean'
    <2>1. Window(reader') /\ Taken(reader', delivered') /\ (reader'.stateEOF => reader'.feof)
      BY <1>2, <1>4 DEF Base, ScanInv, IInv, Faithful, EndFlag
    <2>2. QED
      BY <1>2, <2>1, ViewOf DEF Text
  <1>5. CASE SourceFile' \notin Failing /\ Len(Content[SourceFile']) < SIZE
    <2>1. Whole(reader', delivered') /\ Nulled(reader', delivered')
      BY <1>5 DEF Base, StreamLife, WholeLife, NullLife
    <2>2. QED
      BY <1>2, <2>1, ViewOf DEF Text
  <1>6. QED
    BY <1>3, <1>4, <1>5 DEF Intact

\* What a step of scanner_read_next leaves as it was, and what was so before it if it is so
\* after it.
LEMMA Onward ==
  ASSUME Base, Base', ScanStep
  PROVE  /\ InUse /\ InUse' /\ IInv /\ IsOpen(reader) /\ Typed2
         /\ Text' = Text /\ SourceFile' = SourceFile /\ reader' \in Reader
         /\ Text \in Seq(Byte) /\ Len(Text) \in Nat
         /\ delivered \in Seq(Byte) /\ Len(delivered) \in Nat
         /\ delivered' \in Seq(Byte) /\ Len(delivered') \in Nat
         /\ Grown(delivered, delivered')
         /\ Calm' => Calm
         /\ Sure' => Sure
         /\ Intact' => Intact
         /\ Intact => View(reader, delivered, Text)
         /\ Intact' => View(reader', delivered', Text)
  <1>1. Typed2
    BY DEF Base, ScanInv, IInv, Typed2
  <1>2. InUse /\ InUse' /\ IsOpen(reader) /\ SourceFile' = SourceFile /\ Streams
    BY <1>1, RunningLife DEF Base
  <1>3. Text' = Text
    BY <1>2 DEF Text
  <1>4. /\ Text \in Seq(Byte) /\ Len(Text) \in Nat
        /\ delivered \in Seq(Byte) /\ Len(delivered) \in Nat
        /\ Intact => View(reader, delivered, Text)
    BY <1>2, NowView
  <1>5. Intact' => View(reader', delivered', Text)
    <2>1. SourceFile' \in Names
      BY <1>2, SourceNamed DEF Base, ScanInv
    <2>2. QED
      BY <1>2, <1>3, <2>1, NextView
  <1>6. delivered' \in Seq(Byte) /\ Len(delivered') \in Nat /\ reader' \in Reader
    BY DEF Base, ScanInv, IInv, TypeOK
  <1>7. Intact' => Intact
    BY <1>2 DEF Intact, Streams
  <1>8. ~reader'.stateError => ~reader.stateError
    <2>1. IInv /\ ScanTypes
      BY DEF Base, ScanInv
    <2>2. QED
      BY <1>2, <2>1, ScanStepCalls, ReadDoes, PeekDoes, PeekNDoes, QuietDoes DEF Sticks
  <1>9. (Calm' => Calm) /\ (Sure' => Sure)
    BY <1>2, <1>7, <1>8, Zenon DEF Calm, Sure
  <1>10. Grown(delivered, delivered') /\ IInv
    BY <1>2 DEF Streams, Base, ScanInv
  <1>11. QED
    BY <1>1, <1>2, <1>3, <1>4, <1>5, <1>6, <1>7, <1>9, <1>10

\* A lookahead inside the reach that shows nothing has seen the end of the text.
LEMMA LookedPast ==
  ASSUME Base, Base', ScanStep, Sure', NEW n \in Nat, n < SIZE, PeekN(n), Answer = None
  PROVE  Len(delivered) + n >= Len(Text)
  <1>1. /\ Sure /\ View(reader, delivered, Text) /\ IsOpen(reader) /\ SourceFile' = SourceFile
        /\ InUse /\ InUse'
        /\ Len(Text) \in Nat /\ Len(delivered) \in Nat /\ delivered \in Seq(Byte)
    BY Onward DEF Sure
  <1>2. reader \in Reader /\ Sound(reader) /\ reader.file = SourceFile /\ Text = Content[reader.file]
    BY <1>1, NowView DEF Base, ScanInv, IInv, TypeOK, Bounds, Text
  <1>3. /\ reader.bufferPosition \in 0..SIZE /\ reader.bufferLength \in 0..SIZE
        /\ reader.bufferPosition <= reader.bufferLength
        /\ SIZE \in Nat /\ reader.buffer \in [Index -> Byte]
    BY <1>2, SizeAssumption DEF Reader, Sound
  <1>4. ~(SIZE <= n)
    BY <1>3
  <1>5. ASSUME reader.bufferPosition + n < reader.bufferLength,
               Returns("peek_n", n, IF SIZE <= n THEN None
                                    ELSE reader.buffer[reader.bufferPosition + n])
        PROVE  FALSE
    <2>1. Answer = reader.buffer[reader.bufferPosition + n]
      BY <1>4, <1>5 DEF Returns, Answer
    <2>2. reader.bufferPosition + n \in Index
      BY <1>3, <1>5 DEF Index
    <2>3. Answer \in Byte
      BY <1>3, <2>1, <2>2
    <2>4. QED
      BY <2>3 DEF Byte, None
  <1>6. /\ reader.bufferPosition + n >= reader.bufferLength
        /\ \E o \in Refill(reader) :
             /\ reader' = o.reader
             /\ Returns("peek_n", n,
                        IF o.read = 0 \/ n >= o.reader.bufferLength THEN None
                        ELSE o.reader.buffer[o.reader.bufferPosition + n])
        /\ clean' = (clean /\ ~ShortLive(reader))
    BY <1>4, <1>5 DEF PeekN
  <1>7. PICK o \in Refill(reader) :
          /\ reader' = o.reader
          /\ Returns("peek_n", n,
                     IF o.read = 0 \/ n >= o.reader.bufferLength THEN None
                     ELSE o.reader.buffer[o.reader.bufferPosition + n])
    BY <1>6
  <1>8. CASE reader.stateEOF
    <2>1. Len(delivered) >= Len(Text)
      BY <1>1, <1>8 DEF View
    <2>2. QED
      BY <1>1, <2>1
  <1>9. CASE Whole(reader, delivered)
    <2>1. Len(delivered) + (reader.bufferLength - reader.bufferPosition) >= Len(Text)
      BY <1>2, <1>9 DEF Whole
    <2>2. QED
      BY <1>1, <1>3, <1>6, <2>1
  <1>10. CASE clean' /\ ~reader.stateEOF
    <2>1. ~ShortLive(reader) /\ ~reader.stateError /\ reader.file \notin Failing
      <3>1. ~ShortLive(reader)
        BY <1>6, <1>10, Zenon
      <3>2. QED
        BY <1>1, <1>2, <3>1 DEF Sure, Calm
    <2>2. /\ reader'.bufferPosition = 0
          /\ reader'.bufferLength = (reader.bufferLength - reader.bufferPosition) + o.read
          /\ reader'.bufferLength < SIZE => reader'.offset = Len(Content[reader.file])
          /\ o.read \in 0 .. SIZE
      BY <1>1, <1>2, <1>7, <1>10, <2>1, WholeRefill
    <2>3. reader' \in Reader /\ reader'.file = reader.file /\ IsOpen(reader')
      BY <1>1, <1>2, <1>7, RefillSound DEF IsOpen
    <2>4. Taken(reader', delivered') /\ delivered' = delivered
      BY <1>10, <2>3 DEF Base, ScanInv, IInv, Faithful, PeekN
    <2>5. o.read = 0 \/ n >= reader'.bufferLength
      <3>1. SUFFICES ASSUME o.read # 0, ~(n >= reader'.bufferLength) PROVE FALSE
        OBVIOUS
      <3>2. Answer = reader'.buffer[reader'.bufferPosition + n]
        BY <1>7, <3>1 DEF Returns, Answer
      <3>3. reader'.bufferPosition + n \in Index /\ reader'.buffer \in [Index -> Byte]
        BY <1>3, <2>2, <2>3, <3>1 DEF Index, Reader
      <3>4. Answer \in Byte
        BY <3>2, <3>3
      <3>5. QED
        BY <3>4 DEF Byte, None
    <2>6. reader'.bufferLength \in 0..SIZE /\ n >= reader'.bufferLength
      BY <1>3, <1>6, <2>2, <2>3, <2>5 DEF Reader
    <2>7. reader'.bufferLength < SIZE
      BY <1>3, <2>6
    <2>8. /\ Len(Text) = Len(delivered) + (reader'.bufferLength - reader'.bufferPosition)
      BY <1>2, <2>2, <2>4, <2>7 DEF Taken
    <2>9. QED
      BY <1>1, <2>2, <2>6, <2>8
  <1>11. clean' \/ Whole(reader, delivered)
    BY <1>1 DEF Sure, Intact, Base, StreamLife, WholeLife
  <1>12. QED
    BY <1>8, <1>9, <1>10, <1>11

(***************************************************************************)
(* Where each step leads                                                   *)
(***************************************************************************)

\* scanner_skip_whitespace and the calls that consume.
LEMMA SkipGoes ==
  ASSUME ScanTypes
  PROVE  /\ ReadNext => pc = "idle" /\ pc' = "skip"
         /\ Eat => pc = "eat" /\ pc' \in {"eat"} \cup Afters /\ (pc' # "eat" => frame.left = 1 /\ pc' = frame.after)
         /\ Skip => pc = "skip" /\ pc' \in {"eat", "skip", "skip_slash", "dispatch"}
         /\ SkipSlash => pc = "skip_slash" /\ pc' \in {"line_comment", "eat", "skip", "dispatch"}
         /\ LineComment => pc = "line_comment" /\ pc' \in {"skip", "eat"}
         /\ BlockComment => pc = "block_comment" /\ pc' \in {"eat", "block_second"}
         /\ BlockSecond => pc = "block_second" /\ pc' = "eat"
  <1>1. ReadNext => pc = "idle" /\ pc' = "skip"
    BY DEF ReadNext, Continue
  <1>2. Eat => pc = "eat" /\ pc' \in {"eat"} \cup Afters /\ (pc' # "eat" => frame.left = 1 /\ pc' = frame.after)
    BY DEF Eat, ScanTypes, Suits
  <1>3. Skip => pc = "skip" /\ pc' \in {"eat", "skip", "skip_slash", "dispatch"}
    BY DEF Skip, SkipDone, EatThen, Continue, Goto
  <1>4. SkipSlash => pc = "skip_slash" /\ pc' \in {"line_comment", "eat", "skip", "dispatch"}
    BY DEF SkipSlash, SkipDone, EatThen, Continue, Goto
  <1>5. LineComment => pc = "line_comment" /\ pc' \in {"skip", "eat"}
    BY DEF LineComment, EatThen, Continue, Goto
  <1>6. BlockComment => pc = "block_comment" /\ pc' \in {"eat", "block_second"}
    BY DEF BlockComment, CommentEnds, EatThen, Continue, Goto
  <1>7. BlockSecond => pc = "block_second" /\ pc' = "eat"
    BY DEF BlockSecond, CommentEnds, EatThen, Continue
  <1>8. QED
    BY <1>1, <1>2, <1>3, <1>4, <1>5, <1>6, <1>7

\* scanner_read_next, words and operators.
LEMMA WordGoes ==
  /\ Dispatch => pc = "dispatch" /\ pc' \in {"idle", "word", "number", "eat", "second"}
  /\ Second => pc = "second" /\ pc' \in {"eat", "skip", "third", "idle"}
  /\ Third => pc = "third" /\ pc' \in {"number", "skip", "eat"}
  /\ Operator => pc = "operator" /\ pc' = "idle"
  /\ WordFirst => pc = "word" /\ pc' = "word_peek"
  /\ WordPeek => pc = "word_peek" /\ pc' = "word_next"
  /\ WordNext => pc = "word_next" /\ pc' \in {"word_peek", "idle"}
  <1>1. Dispatch => pc = "dispatch" /\ pc' \in {"idle", "word", "number", "eat", "second"}
    BY DEF Dispatch, EmitHere, Emit, EatThen, Continue
  <1>2. Second => pc = "second" /\ pc' \in {"eat", "skip", "third", "idle"}
    BY DEF Second, EmitHere, Emit, EatThen, Continue, Goto
  <1>3. Third => pc = "third" /\ pc' \in {"number", "skip", "eat"}
    BY DEF Third, EatThen, Continue
  <1>4. /\ Operator => pc = "operator" /\ pc' = "idle"
        /\ WordFirst => pc = "word" /\ pc' = "word_peek"
        /\ WordPeek => pc = "word_peek" /\ pc' = "word_next"
        /\ WordNext => pc = "word_next" /\ pc' \in {"word_peek", "idle"}
    BY DEF Operator, WordFirst, WordPeek, WordNext, EmitLexeme, EmitHere, Emit, Continue
  <1>5. QED
    BY <1>1, <1>2, <1>3, <1>4

\* Numbers, strings and characters.
LEMMA NumberGoes ==
  /\ NumberSeek => pc = "number" /\ pc' \in {"number", "number_copy", "number_unsigned", "idle"}
  /\ NumberUnsigned => pc = "number_unsigned" /\ pc' \in {"number_copy", "idle"}
  /\ NumberCopy => pc = "number_copy" /\ pc' \in {"number_copy", "number_end"}
  /\ NumberEnd => pc = "number_end" /\ pc' = "idle"
  /\ StringPeek => pc = "string_peek" /\ pc' = "string"
  /\ String => pc = "string" /\ pc' \in {"string_peek", "eat"}
  /\ StringEnd => pc = "string_end" /\ pc' = "idle"
  /\ CharFirst => pc = "char" /\ pc' = "char_peek"
  /\ CharPeek => pc = "char_peek" /\ pc' \in {"eat", "idle"}
  /\ CharEnd => pc = "char_end" /\ pc' = "idle"
  <1>1. NumberSeek => pc = "number" /\ pc' \in {"number", "number_copy", "number_unsigned", "idle"}
    BY DEF NumberSeek, Typed, NumberError, Emit, Continue
  <1>2. NumberUnsigned => pc = "number_unsigned" /\ pc' \in {"number_copy", "idle"}
    BY DEF NumberUnsigned, Typed, NumberError, Emit, Continue
  <1>3. /\ NumberCopy => pc = "number_copy" /\ pc' \in {"number_copy", "number_end"}
        /\ NumberEnd => pc = "number_end" /\ pc' = "idle"
    BY DEF NumberCopy, NumberEnd, NumberError, EmitLexeme, Emit, Goto, Continue
  <1>4. /\ StringPeek => pc = "string_peek" /\ pc' = "string"
        /\ String => pc = "string" /\ pc' \in {"string_peek", "eat"}
        /\ StringEnd => pc = "string_end" /\ pc' = "idle"
    BY DEF StringPeek, String, StringEnd, EatThen, EmitLexeme, EmitHere, Emit, Continue
  <1>5. /\ CharFirst => pc = "char" /\ pc' = "char_peek"
        /\ CharPeek => pc = "char_peek" /\ pc' \in {"eat", "idle"}
        /\ CharEnd => pc = "char_end" /\ pc' = "idle"
    BY DEF CharFirst, CharPeek, CharEnd, EatThen, EmitLexeme, EmitHere, Emit, Continue
  <1>6. QED
    BY <1>1, <1>2, <1>3, <1>4, <1>5

(***************************************************************************)
(* Slices                                                                  *)
(***************************************************************************)

\* Text s stands in d behind the first k characters.
Slice(s, d, k) ==
  k + Len(s) <= Len(d) /\ \A i \in 1 .. Len(s) : s[i] = d[k + i]

\* It does so in what d grows to.
LEMMA SliceGrown ==
  ASSUME NEW d \in Seq(Byte), NEW e, Grown(d, e), NEW s \in Seq(Byte), NEW k \in Nat, Slice(s, d, k)
  PROVE  Slice(s, e, k)
  <1>1. CASE e = d
    BY <1>1
  <1>2. CASE \E b \in Byte : e = Append(d, b)
    <2>1. PICK b \in Byte : e = Append(d, b)
      BY <1>2
    <2>2. Len(d) \in Nat /\ Len(s) \in Nat
      OBVIOUS
    <2>3. Len(e) = Len(d) + 1 /\ \A i \in 1 .. Len(d) : e[i] = d[i]
      BY <2>1
    <2>4. k + Len(s) <= Len(e)
      BY <2>2, <2>3 DEF Slice
    <2>5. ASSUME NEW i \in 1 .. Len(s) PROVE s[i] = e[k + i]
      <3>1. k + i \in 1 .. Len(d)
        BY <2>2 DEF Slice
      <3>2. QED
        BY <2>3, <3>1 DEF Slice
    <2>6. QED
      BY <2>4, <2>5 DEF Slice
  <1>3. QED
    BY <1>1, <1>2 DEF Grown

\* A byte taken and stored makes the slice longer.
LEMMA SliceAppend ==
  ASSUME NEW d \in Seq(Byte), NEW b \in Byte, NEW s \in Seq(Byte), NEW k \in Nat,
         Slice(s, d, k), k + Len(s) = Len(d)
  PROVE  /\ Slice(Append(s, b), Append(d, b), k)
         /\ k + Len(Append(s, b)) = Len(Append(d, b))
  <1> DEFINE t == Append(s, b)
             e == Append(d, b)
  <1>1. Len(d) \in Nat /\ Len(s) \in Nat
    OBVIOUS
  <1>2. /\ Len(e) = Len(d) + 1 /\ e[Len(d) + 1] = b
        /\ \A i \in 1 .. Len(d) : e[i] = d[i]
    BY <1>1
  <1>3. /\ Len(t) = Len(s) + 1 /\ t[Len(s) + 1] = b
        /\ \A i \in 1 .. Len(s) : t[i] = s[i]
    BY <1>1
  <1> HIDE DEF t, e
  <1>4. ASSUME NEW i \in 1 .. Len(t) PROVE t[i] = e[k + i]
    <2>1. CASE i \in 1 .. Len(s)
      <3>1. k + i \in 1 .. Len(d)
        BY <1>1, <2>1
      <3>2. QED
        BY <1>2, <1>3, <2>1, <3>1 DEF Slice
    <2>2. CASE i = Len(s) + 1
      <3>1. k + i = Len(d) + 1
        BY <1>1, <2>2
      <3>2. QED
        BY <1>2, <1>3, <2>2, <3>1
    <2>3. QED
      BY <1>1, <1>3, <2>1, <2>2
  <1>5. k + Len(t) = Len(e) /\ k + Len(t) <= Len(e)
    BY <1>1, <1>2, <1>3
  <1>6. Slice(t, e, k)
    BY <1>4, <1>5 DEF Slice
  <1>7. QED
    BY <1>5, <1>6 DEF t, e

\* As a subsequence of a text that d begins like.
LEMMA SliceText ==
  ASSUME NEW d \in Seq(Byte), NEW text \in Seq(Byte), NEW s \in Seq(Byte), NEW k \in Nat,
         Slice(s, d, k), k + Len(s) <= Len(text),
         \A i \in 1 .. Len(d) : i <= Len(text) => d[i] = text[i]
  PROVE  s = SubSeq(text, k + 1, k + Len(s))
  <1>1. Len(d) \in Nat /\ Len(s) \in Nat /\ Len(text) \in Nat
    OBVIOUS
  <1> DEFINE m == k + 1
             n == k + Len(s)
  <1>2. \A i \in m .. n : text[i] \in Byte
    BY <1>1
  <1>3. m \in Int /\ n \in Int
    BY <1>1
  <1>4. /\ SubSeq(text, m, n) \in Seq(Byte)
        /\ Len(SubSeq(text, m, n)) = IF m <= n THEN n - m + 1 ELSE 0
        /\ \A i \in 1 .. n - m + 1 : SubSeq(text, m, n)[i] = text[m + i - 1]
    BY <1>2, <1>3, SubSeqProperties
  <1>5. n - m + 1 = Len(s)
    BY <1>1
  <1>6. Len(SubSeq(text, m, n)) = Len(s)
    BY <1>1, <1>4
  <1>7. ASSUME NEW i \in 1 .. Len(s) PROVE SubSeq(text, m, n)[i] = s[i]
    <2>1. m + i - 1 = k + i /\ k + i \in 1 .. Len(d) /\ k + i <= Len(text)
      BY <1>1 DEF Slice
    <2>2. QED
      BY <1>4, <1>5, <2>1 DEF Slice
  <1>8. QED
    BY <1>4, <1>6, <1>7, SeqEqual

\* The cast of a byte is the byte.
LEMMA CharIs ==
  ASSUME NEW c \in Byte
  PROVE  Char(c) = c
  BY DEF Char, Byte, None

\* What a peek has returned: the byte at the cursor, or that there is none.
Shown(r, c) == IF c = None THEN r.stateEOF ELSE Shows(r, 0, c)

\* It is so after a peek.
LEMMA PeekShown ==
  ASSUME IInv, IsOpen(reader), Peek, ~reader'.stateError
  PROVE  Shown(reader', Answer) /\ delivered' = delivered
  BY PeekDoes DEF Shown

\* And after a call that takes nothing.
LEMMA ShownKept ==
  ASSUME Kept(0), reader.stateEOF => reader'.stateEOF, NEW c, Shown(reader, c)
  PROVE  Shown(reader', c)
  <1>1. CASE c = None
    BY <1>1 DEF Shown
  <1>2. CASE c # None
    <2>1. Shows(reader, 0 + 0, c) /\ 0 \in Nat
      BY <1>2 DEF Shown
    <2>2. QED
      BY <1>2, <2>1 DEF Shown, Kept
  <1>3. QED
    BY <1>1, <1>2

\* The first byte taken is a slice.
LEMMA SliceFirst ==
  ASSUME NEW d \in Seq(Byte), NEW b \in Byte
  PROVE  Slice(<<b>>, Append(d, b), Len(d)) /\ Len(d) + Len(<<b>>) = Len(Append(d, b))
  <1>1. Len(d) \in Nat /\ Len(Append(d, b)) = Len(d) + 1 /\ Append(d, b)[Len(d) + 1] = b
    OBVIOUS
  <1>2. Len(<<b>>) = 1 /\ <<b>>[1] = b
    OBVIOUS
  <1>3. QED
    BY <1>1, <1>2 DEF Slice

(***************************************************************************)
(* Words                                                                   *)
(***************************************************************************)

\* What the locals of scanner_consume_identifier are at each place, while no read has
\* failed: the text so far is what was taken since the word began.
WordAt(label, f, d, r) ==
  /\ label = "word" => f.start = Len(d) /\ Shows(r, 0, f.next) /\ IsWordStart(f.next)
  /\ label \in {"word_peek", "word_next"} =>
       /\ Slice(f.content, d, f.start) /\ f.start + Len(f.content) = Len(d)
       /\ \A i \in 1 .. Len(f.content) : IsWordChar(f.content[i])
  /\ label = "word_next" => Shown(r, f.next)

\* scanner_read_next has seen the first character of a word.
LEMMA WordBegins ==
  ASSUME Base, Base', ScanStep, Calm', pc' = "word"
  PROVE  WordAt(pc', frame', delivered', reader')
  <1>1. /\ IInv /\ IsOpen(reader) /\ Calm /\ ScanTypes /\ delivered \in Seq(Byte)
    BY Onward DEF Base, ScanInv
  <1>2. Dispatch
    BY <1>1, SkipGoes, WordGoes, NumberGoes DEF ScanStep, Afters
  <1>3. Peek /\ \E c : c = Answer /\ IsWordStart(c) /\ Continue("word", Frame(c))
    BY <1>2 DEF Dispatch, EmitHere, Emit, EatThen, Continue
  <1>4. frame' = Frame(Answer) /\ IsWordStart(Answer)
    BY <1>3 DEF Continue
  <1>5. frame'.start = Len(delivered) /\ frame'.next = Answer
    BY <1>4 DEF Frame
  <1>6. Answer # None
    BY <1>4 DEF IsWordStart, None
  <1>7. delivered' = delivered /\ Shows(reader', 0, Answer)
    BY <1>1, <1>3, <1>6, PeekDoes
  <1>8. QED
    BY <1>4, <1>5, <1>7 DEF WordAt

\* scanner_consume_identifier takes the characters of a word one by one.
LEMMA WordGrows ==
  ASSUME Base, Base', ScanStep, Calm', pc' \in {"word_peek", "word_next"},
         WordAt(pc, frame, delivered, reader)
  PROVE  WordAt(pc', frame', delivered', reader')
  <1>1. /\ IInv /\ IsOpen(reader) /\ Calm /\ ScanTypes /\ Typed2 /\ ~reader'.stateError
        /\ delivered \in Seq(Byte)
    BY Onward DEF Base, ScanInv, Calm
  <1>2. /\ frame \in FrameSet /\ frame.content \in Seq(Byte) /\ frame.start \in Nat
        /\ frame.next \in Byte \cup {None}
    BY <1>1, Facts DEF FrameSet
  <1>3. WordFirst \/ WordPeek \/ WordNext
    BY <1>1, SkipGoes, WordGoes, NumberGoes DEF ScanStep, Afters
  <1>4. CASE WordFirst
    <2>1. /\ Read /\ pc = "word" /\ pc' = "word_peek"
          /\ frame' = [frame EXCEPT !.content = <<Char(Answer)>>]
      BY <1>4 DEF WordFirst, Continue
    <2>2. frame.start = Len(delivered) /\ Shows(reader, 0, frame.next) /\ IsWordStart(frame.next)
      BY <2>1 DEF WordAt
    <2>3. frame.next \in Byte /\ Answer = frame.next /\ delivered' = Append(delivered, frame.next)
      BY <1>1, <2>1, <2>2, ReadDoes
    <2>4. frame'.content = <<frame.next>> /\ frame'.start = frame.start
      BY <1>2, <2>1, <2>3, CharIs DEF FrameSet
    <2>5. Slice(frame'.content, delivered', frame'.start)
          /\ frame'.start + Len(frame'.content) = Len(delivered')
      BY <1>1, <2>2, <2>3, <2>4, SliceFirst
    <2>6. \A i \in 1 .. Len(frame'.content) : IsWordChar(frame'.content[i])
      BY <2>2, <2>4 DEF IsWordChar
    <2>7. QED
      BY <2>1, <2>5, <2>6 DEF WordAt
  <1>5. CASE WordPeek
    <2>1. /\ Peek /\ pc = "word_peek" /\ pc' = "word_next"
          /\ frame' = [frame EXCEPT !.next = Answer]
      BY <1>5 DEF WordPeek, Continue
    <2>2. Shown(reader', Answer) /\ delivered' = delivered
      BY <1>1, <2>1, PeekShown
    <2>3. frame'.content = frame.content /\ frame'.start = frame.start /\ frame'.next = Answer
      BY <1>2, <2>1 DEF FrameSet
    <2>4. QED
      BY <2>1, <2>2, <2>3 DEF WordAt
  <1>6. CASE WordNext
    <2>1. /\ WordGoesOn(frame) /\ Read /\ pc = "word_next" /\ pc' = "word_peek"
          /\ frame' = [frame EXCEPT !.content = Append(@, Char(Answer))]
      BY <1>6 DEF WordNext, Continue, EmitLexeme, EmitHere, Emit
    <2>2. HasNext /\ IsWordChar(frame.next) /\ Shown(reader, frame.next)
      BY <2>1 DEF WordGoesOn, WordAt
    <2>3. Shows(reader, 0, frame.next)
      BY <2>2 DEF Shown, HasNext
    <2>4. frame.next \in Byte /\ Answer = frame.next /\ delivered' = Append(delivered, frame.next)
      BY <1>1, <2>1, <2>3, ReadDoes
    <2>5. frame'.content = Append(frame.content, frame.next) /\ frame'.start = frame.start
      BY <1>2, <2>1, <2>4, CharIs DEF FrameSet
    <2>6. /\ Slice(frame.content, delivered, frame.start)
          /\ frame.start + Len(frame.content) = Len(delivered)
          /\ \A i \in 1 .. Len(frame.content) : IsWordChar(frame.content[i])
      BY <2>1 DEF WordAt
    <2>7. Slice(frame'.content, delivered', frame'.start)
          /\ frame'.start + Len(frame'.content) = Len(delivered')
      <3>1. /\ Slice(Append(frame.content, frame.next), Append(delivered, frame.next), frame.start)
            /\ frame.start + Len(Append(frame.content, frame.next))
                 = Len(Append(delivered, frame.next))
        BY <1>1, <1>2, <2>4, <2>6, SliceAppend
      <3>2. QED
        BY <2>4, <2>5, <3>1
    <2>8. \A i \in 1 .. Len(frame'.content) : IsWordChar(frame'.content[i])
      BY <1>2, <2>2, <2>4, <2>5, <2>6
    <2>9. QED
      BY <2>1, <2>7, <2>8 DEF WordAt
  <1>7. QED
    BY <1>3, <1>4, <1>5, <1>6

\* At every step.
LEMMA WordStep ==
  ASSUME Base, Base', ScanStep, Calm', WordAt(pc, frame, delivered, reader)
  PROVE  WordAt(pc', frame', delivered', reader')
  <1>1. CASE pc' \in {"word", "word_peek", "word_next"}
    BY <1>1, WordBegins, WordGrows
  <1>2. CASE pc' \notin {"word", "word_peek", "word_next"}
    BY <1>2 DEF WordAt
  <1>3. QED
    BY <1>1, <1>2

(***************************************************************************)
(* Characters that are consumed because they have been seen                *)
(***************************************************************************)

\* Text s is being consumed behind the first k characters: its last `left` characters are
\* still in the buffer, the others have been taken.
Pending(s, d, k, left, r) ==
  /\ left \in 0 .. Len(s) /\ Len(d) + left = k + Len(s)
  /\ \A i \in 1 .. Len(s) - left : s[i] = d[k + i]
  /\ \A i \in 0 .. left - 1 : Shows(r, i, s[(Len(s) - left) + (i + 1)])

\* One of them more.
LEMMA PendingEaten ==
  ASSUME IInv, IsOpen(reader), Read, delivered \in Seq(Byte), NEW s \in Seq(Byte), NEW k \in Nat,
         NEW left \in Nat \ {0}, Pending(s, delivered, k, left, reader)
  PROVE  Pending(s, delivered', k, left - 1, reader')
  <1>1. /\ Len(s) \in Nat /\ left \in 1 .. Len(s) /\ Len(delivered) \in Nat
        /\ Len(delivered) + left = k + Len(s)
    BY DEF Pending
  <1> DEFINE c == s[Len(s) - left + 1]
  <1>2. Shows(reader, 0, c)
    <2>1. 0 \in 0 .. left - 1 /\ (Len(s) - left) + (0 + 1) = Len(s) - left + 1
      BY <1>1
    <2>2. QED
      BY <2>1 DEF Pending
  <1>3. c \in Byte /\ delivered' = Append(delivered, c) /\ Kept(1)
    BY <1>2, ReadDoes
  <1> HIDE DEF c
  <1>4. /\ Len(delivered') = Len(delivered) + 1 /\ delivered'[Len(delivered) + 1] = c
        /\ \A i \in 1 .. Len(delivered) : delivered'[i] = delivered[i]
    BY <1>1, <1>3
  <1>5. left - 1 \in 0 .. Len(s) /\ Len(delivered') + (left - 1) = k + Len(s)
    BY <1>1, <1>4
  <1>6. ASSUME NEW i \in 1 .. Len(s) - (left - 1) PROVE s[i] = delivered'[k + i]
    <2>1. CASE i \in 1 .. Len(s) - left
      <3>1. k + i \in 1 .. Len(delivered)
        BY <1>1, <2>1
      <3>2. s[i] = delivered[k + i]
        BY <2>1 DEF Pending
      <3>3. QED
        BY <1>4, <3>1, <3>2
    <2>2. CASE i = Len(s) - left + 1
      <3>1. k + i = Len(delivered) + 1
        BY <1>1, <2>2
      <3>2. QED
        BY <1>4, <2>2, <3>1 DEF c
    <2>3. QED
      BY <1>1, <2>1, <2>2
  <1>7. ASSUME NEW i \in 0 .. (left - 1) - 1
        PROVE  Shows(reader', i, s[(Len(s) - (left - 1)) + (i + 1)])
    <2>1. /\ i \in Nat /\ i + 1 \in 0 .. left - 1
          /\ (Len(s) - left) + ((i + 1) + 1) = (Len(s) - (left - 1)) + (i + 1)
      BY <1>1
    <2>2. Shows(reader, i + 1, s[(Len(s) - left) + ((i + 1) + 1)])
      BY <2>1 DEF Pending
    <2>3. QED
      BY <1>3, <2>1, <2>2 DEF Kept
  <1>8. QED
    BY <1>5, <1>6, <1>7 DEF Pending

\* The last one.
LEMMA PendingDone ==
  ASSUME NEW d \in Seq(Byte), NEW s \in Seq(Byte), NEW k \in Nat, NEW r, Pending(s, d, k, 0, r)
  PROVE  Slice(s, d, k) /\ k + Len(s) = Len(d)
  <1>1. Len(s) \in Nat /\ Len(d) \in Nat /\ Len(s) - 0 = Len(s) /\ Len(d) + 0 = Len(d)
    OBVIOUS
  <1>2. QED
    BY <1>1 DEF Pending, Slice

\* One character that is at the cursor.
LEMMA PendingOne ==
  ASSUME NEW d \in Seq(Byte), NEW c \in Byte, NEW r, Shows(r, 0, c)
  PROVE  Pending(<<c>>, d, Len(d), 1, r)
  <1>1. Len(<<c>>) = 1 /\ <<c>>[1] = c /\ Len(d) \in Nat
    OBVIOUS
  <1>2. QED
    BY <1>1 DEF Pending

\* Two of them.
LEMMA PendingTwo ==
  ASSUME NEW d \in Seq(Byte), NEW b \in Byte, NEW c \in Byte, NEW r, Shows(r, 0, b), Shows(r, 1, c)
  PROVE  Pending(<<b, c>>, d, Len(d), 2, r)
  <1>1. Len(<<b, c>>) = 2 /\ <<b, c>>[1] = b /\ <<b, c>>[2] = c /\ Len(d) \in Nat
    OBVIOUS
  <1>2. ASSUME NEW i \in 0 .. 2 - 1 PROVE Shows(r, i, <<b, c>>[(2 - 2) + (i + 1)])
    <2>1. CASE i = 0
      BY <1>1, <2>1
    <2>2. CASE i = 1
      BY <1>1, <2>2
    <2>3. QED
      BY <2>1, <2>2
  <1>3. QED
    BY <1>1, <1>2 DEF Pending

\* What EatThen sets.
LEMMA EatSets ==
  ASSUME NEW n, NEW label, NEW f \in FrameSet, EatThen(n, label, f)
  PROVE  /\ pc' = "eat" /\ tokens' = tokens
         /\ frame'.left = n /\ frame'.after = label
         /\ frame'.start = f.start /\ frame'.next = f.next /\ frame'.content = f.content
         /\ frame'.escape = f.escape /\ frame'.again = f.again
  BY DEF EatThen, Continue, FrameSet

\* And what a call of it changes.
LEMMA EatKeeps ==
  ASSUME Eat, frame \in FrameSet
  PROVE  /\ Read /\ pc = "eat" /\ tokens' = tokens
         /\ frame'.left = frame.left - 1 /\ frame'.after = frame.after
         /\ frame'.start = frame.start /\ frame'.next = frame.next
         /\ frame'.content = frame.content
         /\ frame'.escape = frame.escape /\ frame'.again = frame.again
         /\ pc' = IF frame.left = 1 THEN frame.after ELSE "eat"
  BY DEF Eat, FrameSet

\* Who consumes what.
LEMMA EatFrom ==
  ASSUME Typed2, ScanStep, pc' = "eat"
  PROVE  \/ Eat
         \/ Skip \/ SkipSlash \/ LineComment \/ BlockComment \/ BlockSecond
         \/ Dispatch \/ Second \/ Third
         \/ String
         \/ CharPeek
  <1>1. ScanTypes
    BY DEF Typed2
  <1>2. QED
    BY <1>1, SkipGoes, WordGoes, NumberGoes DEF ScanStep, Afters

\* A new set of locals.
LEMMA FrameFresh ==
  ASSUME TypeOK, NEW c \in Byte \cup {None}
  PROVE  /\ Frame(c) \in FrameSet /\ Frame(c).start = Len(delivered) /\ Frame(c).next = c
         /\ Frame(c).content = <<>> /\ Frame(c).seeked = 0 /\ Frame(c).type = "none"
         /\ ~Frame(c).negative /\ ~Frame(c).floating /\ ~Frame(c).escape /\ ~Frame(c).again
  BY FrameTyped DEF Frame

\* The same with the first character stored.
LEMMA FrameStored ==
  ASSUME TypeOK, NEW c \in Byte, NEW f, f = [Frame(c) EXCEPT !.content = <<c>>]
  PROVE  /\ f \in FrameSet /\ f.start = Len(delivered) /\ f.next = c
         /\ f.content = <<c>> /\ ~f.again
  <1>1. Frame(c) \in FrameSet /\ Frame(c).start = Len(delivered) /\ Frame(c).next = c /\ ~Frame(c).again
    BY FrameFresh
  <1>2. <<c>> \in Seq(Byte)
    OBVIOUS
  <1>3. QED
    BY <1>1, <1>2 DEF FrameSet

(***************************************************************************)
(* Operators                                                               *)
(***************************************************************************)

\* The locals while an operator is told and taken, while no read has failed.
OpAt(label, f, d, r) ==
  /\ label \in {"second", "third"} =>
       /\ f.start = Len(d) /\ Shows(r, 0, f.next) /\ f.content = <<f.next>> /\ f.next \in Ambiguous
       /\ label = "third" => f.next \in {SLASH, MINUS}
  /\ label = "eat" /\ f.after = "operator" => Pending(f.content, d, f.start, f.left, r)
  /\ label = "operator" => Slice(f.content, d, f.start) /\ f.start + Len(f.content) = Len(d)
  /\ label = "operator" \/ (label = "eat" /\ f.after = "operator") =>
       Len(f.content) = 1 \/ f.content \in Pairs

\* An operator of one character is not the beginning of one of two.
Alone(f, text) ==
  Len(f.content) = 1 /\ f.start + 1 < Len(text) => <<f.content[1], text[f.start + 2]>> \notin Pairs

\* The same, as it is known from the third look on; given a reader that shows the text.
OpEnds(label, f, text) ==
  label \in {"third", "operator"} \/ (label = "eat" /\ f.after = "operator") => Alone(f, text)

\* Only the ambiguous characters begin a pair, and not the slash.
LEMMA PairsBegin ==
  ASSUME NEW b, NEW c, b \in Single \cup {SLASH}
  PROVE  <<b, c>> \notin Pairs
  BY DEF Single, SLASH, Pairs, MINUS, EXCLAM, DOT, STAR

\* The characters that begin an operator are bytes.
LEMMA OpBytes ==
  ASSUME NEW b, NEW c, b \in Single \cup Ambiguous \/ <<b, c>> \in Pairs
  PROVE  /\ b \in Byte
         /\ <<b, c>> \in Pairs => c \in Byte
  BY DEF Single, Ambiguous, Pairs, Byte, SLASH, MINUS, EXCLAM, DOT, STAR

\* A lookahead at the next character but one, over a reader that shows the text.
LEMMA SecondSeen ==
  ASSUME SIZE >= 2, Base, Base', ScanStep, Sure', PeekN(1), Len(delivered) + 1 < Len(Text)
  PROVE  Answer = Text[Len(delivered) + 2]
  <1>1. /\ IInv /\ IsOpen(reader) /\ View(reader', delivered', Text) /\ SIZE \in Nat
        /\ Len(delivered) \in Nat /\ Len(Text) \in Nat
    BY SizeAssumption, Onward DEF Sure
  <1>2. Answer # None
    <2>1. 1 \in Nat /\ 1 < SIZE /\ ~(Len(delivered) + 1 >= Len(Text))
      BY <1>1
    <2>2. QED
      BY <2>1, LookedPast
  <1>3. Shows(reader', 1, Answer) /\ delivered' = delivered
    <2>1. 1 \in 0..SIZE
      BY <1>1
    <2>2. QED
      BY <1>1, <1>2, <2>1, PeekNDoes
  <1>4. Answer = Text[Len(delivered) + 1 + 1]
    BY <1>1, <1>3 DEF View
  <1>5. QED
    BY <1>1, <1>4

\* scanner_read_next has seen the first character of an operator.
LEMMA OpBegins ==
  ASSUME Base, Base', Calm', Dispatch, ScanStep,
         pc' = "second" \/ (pc' = "eat" /\ frame'.after = "operator")
  PROVE  OpAt(pc', frame', delivered', reader') /\ OpEnds(pc', frame', Text)
  <1>1. /\ IInv /\ IsOpen(reader) /\ Typed2 /\ delivered \in Seq(Byte) /\ TypeOK
        /\ Len(Text) \in Nat
    BY Onward DEF Typed2
  <1>2. Answer \in Byte \cup {None}
    BY <1>1, Facts
  <1> DEFINE g == [Frame(Answer) EXCEPT !.content = <<Answer>>]
  <1>3. /\ Peek
        /\ \/ Answer \in Single /\ EatThen(1, "operator", g)
           \/ Answer \in Ambiguous /\ Continue("second", g)
    <2>1. Frame(Answer) \in FrameSet
      BY <1>1, <1>2, FrameFresh
    <2>2. ASSUME EatThen(1, "string_peek", Frame(Answer)) PROVE FALSE
      <3>1. pc' = "eat" /\ frame'.after = "string_peek"
        BY <2>1, <2>2, EatSets
      <3>2. QED
        BY <3>1
    <2>3. ASSUME EatThen(1, "char", Frame(Answer)) PROVE FALSE
      <3>1. pc' = "eat" /\ frame'.after = "char"
        BY <2>1, <2>3, EatSets
      <3>2. QED
        BY <3>1
    <2>4. ~EmitHere("EOS") /\ ~EmitHere("ERROR")
      BY DEF EmitHere, Emit
    <2>5. ~Continue("word", Frame(Answer)) /\ ~Continue("number", Frame(Answer))
      BY DEF Continue
    <2>6. QED
      BY <2>2, <2>3, <2>4, <2>5, Zenon DEF Dispatch
  <1>4. Answer \in Byte /\ Answer # None
    <2>1. Answer \in Byte
      BY <1>3, OpBytes
    <2>2. QED
      BY <2>1 DEF Byte, None
  <1>5. /\ g \in FrameSet /\ g.start = Len(delivered) /\ g.next = Answer /\ g.content = <<Answer>>
    BY <1>1, <1>4, FrameStored
  <1>6. Shows(reader', 0, Answer) /\ delivered' = delivered
    BY <1>1, <1>3, <1>4, PeekDoes
  <1> HIDE DEF g
  <1>7. Len(<<Answer>>) = 1 /\ <<Answer>>[1] = Answer
    OBVIOUS
  <1>8. CASE Answer \in Single /\ EatThen(1, "operator", g)
    <2>1. /\ pc' = "eat" /\ frame'.after = "operator" /\ frame'.left = 1
          /\ frame'.content = <<Answer>> /\ frame'.start = Len(delivered)
      BY <1>5, <1>8, EatSets
    <2>2. Pending(frame'.content, delivered', frame'.start, frame'.left, reader')
      BY <1>1, <1>4, <1>6, <2>1, PendingOne
    <2>3. Alone(frame', Text)
      BY <1>7, <1>8, <2>1, PairsBegin DEF Alone
    <2>4. QED
      BY <1>7, <2>1, <2>2, <2>3 DEF OpAt, OpEnds
  <1>9. CASE Answer \in Ambiguous /\ Continue("second", g)
    <2>1. pc' = "second" /\ frame' = g
      BY <1>9 DEF Continue
    <2>2. QED
      BY <1>5, <1>6, <1>9, <2>1 DEF OpAt, OpEnds
  <1>10. QED
    BY <1>3, <1>8, <1>9

\* The second look.
LEMMA OpSeconds ==
  ASSUME Base, Base', Calm', Second, ScanStep, OpAt(pc, frame, delivered, reader)
  PROVE  /\ OpAt(pc', frame', delivered', reader')
         /\ SIZE >= 2 /\ Sure' => OpEnds(pc', frame', Text)
  <1>1. /\ IInv /\ IsOpen(reader) /\ Typed2 /\ delivered \in Seq(Byte)
        /\ Len(Text) \in Nat /\ 1 \in 0..SIZE
    BY Onward, SizeAssumption
  <1>2. frame \in FrameSet /\ frame.content \in Seq(Byte)
    BY <1>1, Facts
  <1>3. pc = "second" /\ PeekN(1)
    BY DEF Second
  <1>4. /\ frame.start = Len(delivered) /\ Shows(reader, 0, frame.next)
        /\ frame.content = <<frame.next>> /\ frame.next \in Ambiguous
    BY <1>3 DEF OpAt
  <1>5. frame.next \in Byte
    BY <1>4, OpBytes
  <1>6. /\ delivered' = delivered /\ Kept(0)
        /\ Answer # None => Shows(reader', 1, Answer)
    BY <1>1, <1>3, PeekNDoes
  <1>7. Shows(reader', 0, frame.next)
    <2>1. Shows(reader, 0 + 0, frame.next) /\ 0 \in Nat
      BY <1>4
    <2>2. QED
      BY <1>6, <2>1 DEF Kept
  <1>8. Len(<<frame.next>>) = 1 /\ <<frame.next>>[1] = frame.next
    OBVIOUS
  <1>9. ASSUME SIZE >= 2, Sure', <<frame.next, Answer>> \notin Pairs
        PROVE  Alone(frame, Text)
    <2>1. SUFFICES ASSUME frame.start + 1 < Len(Text)
                   PROVE  <<frame.content[1], Text[frame.start + 2]>> \notin Pairs
      BY DEF Alone
    <2>2. Answer = Text[frame.start + 2]
      BY <1>3, <1>4, <1>9, <2>1, SecondSeen
    <2>3. QED
      BY <1>4, <1>8, <1>9, <2>2
  <1>10. CASE /\ <<frame.next, Answer>> \in Pairs
              /\ EatThen(2, "operator", [frame EXCEPT !.content = <<frame.next, Answer>>])
    <2> DEFINE g == [frame EXCEPT !.content = <<frame.next, Answer>>]
    <2>1. Answer \in Byte /\ Answer # None
      <3>1. Answer \in Byte
        BY <1>10, OpBytes
      <3>2. QED
        BY <3>1 DEF Byte, None
    <2>2. <<frame.next, Answer>> \in Seq(Byte) /\ Len(<<frame.next, Answer>>) = 2
      BY <1>5, <2>1
    <2>3. g \in FrameSet /\ g.content = <<frame.next, Answer>> /\ g.start = frame.start
      BY <1>2, <2>2 DEF FrameSet
    <2> HIDE DEF g
    <2>4. /\ pc' = "eat" /\ frame'.after = "operator" /\ frame'.left = 2
          /\ frame'.content = <<frame.next, Answer>> /\ frame'.start = Len(delivered)
      <3>1. EatThen(2, "operator", g)
        BY <1>10 DEF g
      <3>2. /\ pc' = "eat" /\ frame'.after = "operator" /\ frame'.left = 2
            /\ frame'.content = g.content /\ frame'.start = g.start
        BY <2>3, <3>1, EatSets
      <3>3. QED
        BY <1>4, <2>3, <3>2
    <2>5. Pending(frame'.content, delivered', frame'.start, frame'.left, reader')
      BY <1>1, <1>5, <1>6, <1>7, <2>1, <2>4, PendingTwo
    <2>6. Alone(frame', Text)
      BY <2>2, <2>4 DEF Alone
    <2>7. QED
      BY <1>10, <2>4, <2>5, <2>6 DEF OpAt, OpEnds
  <1>11. CASE Continue("skip", [frame EXCEPT !.again = TRUE]) \/ EmitHere("ERROR")
    <2>1. pc' \in {"skip", "idle"}
      BY <1>11 DEF Continue, EmitHere, Emit
    <2>2. QED
      BY <2>1 DEF OpAt, OpEnds
  <1>12. CASE /\ frame.next \in {SLASH, MINUS} /\ Goto("third")
              /\ frame.next = SLASH \/ <<frame.next, Answer>> \notin Pairs
    <2>1. pc' = "third" /\ frame' = frame
      BY <1>12 DEF Goto
    <2>2. <<frame.next, Answer>> \notin Pairs
      BY <1>12, PairsBegin
    <2>3. OpAt(pc', frame', delivered', reader')
      BY <1>4, <1>6, <1>7, <1>12, <2>1 DEF OpAt
    <2>4. SIZE >= 2 /\ Sure' => OpEnds(pc', frame', Text)
      BY <1>9, <2>1, <2>2 DEF OpEnds
    <2>5. QED
      BY <2>3, <2>4
  <1>13. CASE EatThen(1, "operator", frame) /\ <<frame.next, Answer>> \notin Pairs
    <2>1. /\ pc' = "eat" /\ frame'.after = "operator" /\ frame'.left = 1
          /\ frame'.content = frame.content /\ frame'.start = frame.start
      BY <1>2, <1>13, EatSets
    <2>2. Pending(frame'.content, delivered', frame'.start, frame'.left, reader')
      BY <1>1, <1>4, <1>5, <1>6, <1>7, <2>1, PendingOne
    <2>3. SIZE >= 2 /\ Sure' => Alone(frame', Text)
      BY <1>9, <1>13, <2>1 DEF Alone
    <2>4. Len(frame'.content) = 1
      BY <1>4, <1>8, <2>1
    <2>5. QED
      BY <2>1, <2>2, <2>3, <2>4 DEF OpAt, OpEnds
  <1>14. QED
    BY <1>10, <1>11, <1>12, <1>13, Zenon DEF Second

\* The look of a minus at a digit, and of a slash at a backslash.
LEMMA OpThirds ==
  ASSUME Base, Base', Calm', Third, ScanStep, OpAt(pc, frame, delivered, reader)
  PROVE  /\ OpAt(pc', frame', delivered', reader')
         /\ OpEnds(pc, frame, Text) => OpEnds(pc', frame', Text)
  <1>1. /\ IInv /\ IsOpen(reader) /\ Typed2 /\ delivered \in Seq(Byte) /\ 1 \in 0..SIZE
    BY Onward, SizeAssumption
  <1>2. frame \in FrameSet
    BY <1>1, Facts
  <1>3. pc = "third" /\ PeekN(1)
    BY DEF Third
  <1>4. /\ frame.start = Len(delivered) /\ Shows(reader, 0, frame.next)
        /\ frame.content = <<frame.next>> /\ frame.next \in Ambiguous
    BY <1>3 DEF OpAt
  <1>5. frame.next \in Byte
    BY <1>4, OpBytes
  <1>6. delivered' = delivered /\ Kept(0)
    BY <1>1, <1>3, PeekNDoes
  <1>7. Shows(reader', 0, frame.next)
    <2>1. Shows(reader, 0 + 0, frame.next) /\ 0 \in Nat
      BY <1>4
    <2>2. QED
      BY <1>6, <2>1 DEF Kept
  <1>8. CASE EatThen(1, "operator", frame)
    <2>1. /\ pc' = "eat" /\ frame'.after = "operator" /\ frame'.left = 1
          /\ frame'.content = frame.content /\ frame'.start = frame.start
      BY <1>2, <1>8, EatSets
    <2>2. Pending(frame'.content, delivered', frame'.start, frame'.left, reader')
      BY <1>1, <1>4, <1>5, <1>6, <1>7, <2>1, PendingOne
    <2>3. OpEnds(pc, frame, Text) => Alone(frame', Text)
      BY <1>3, <2>1 DEF OpEnds, Alone
    <2>4. Len(frame'.content) = 1
      BY <1>4, <2>1
    <2>5. QED
      BY <2>1, <2>2, <2>3, <2>4 DEF OpAt, OpEnds
  <1>9. CASE ~EatThen(1, "operator", frame)
    <2>1. pc' \in {"number", "skip"}
      BY <1>9 DEF Third, Continue
    <2>2. QED
      BY <2>1 DEF OpAt, OpEnds
  <1>10. QED
    BY <1>8, <1>9

\* Its characters are consumed.
LEMMA OpEaten ==
  ASSUME Base, Base', Calm', Eat, ScanStep, OpAt(pc, frame, delivered, reader)
  PROVE  /\ OpAt(pc', frame', delivered', reader')
         /\ OpEnds(pc, frame, Text) => OpEnds(pc', frame', Text)
  <1>1. /\ IInv /\ IsOpen(reader) /\ Typed2 /\ delivered \in Seq(Byte) /\ delivered' \in Seq(Byte)
    BY Onward
  <1>2. frame \in FrameSet /\ frame.content \in Seq(Byte) /\ frame.start \in Nat
    BY <1>1, Facts
  <1>3. /\ Read /\ pc = "eat"
        /\ frame'.left = frame.left - 1 /\ frame'.after = frame.after
        /\ frame'.start = frame.start /\ frame'.content = frame.content
        /\ pc' = IF frame.left = 1 THEN frame.after ELSE "eat"
    BY <1>2, EatKeeps
  <1>4. frame.left \in 1..2 /\ frame.after \in Afters
    BY <1>1, <1>3 DEF Typed2, ScanTypes, Suits
  <1>5. CASE frame.after = "operator"
    <2>1. Pending(frame.content, delivered, frame.start, frame.left, reader)
          /\ (Len(frame.content) = 1 \/ frame.content \in Pairs)
      BY <1>3, <1>5 DEF OpAt
    <2>2. Pending(frame'.content, delivered', frame'.start, frame'.left, reader')
      <3>1. frame.left \in Nat \ {0}
        BY <1>4
      <3>2. Pending(frame.content, delivered', frame.start, frame.left - 1, reader')
        BY <1>1, <1>2, <1>3, <2>1, <3>1, PendingEaten
      <3>3. QED
        BY <1>3, <3>2
    <2>3. pc' = "operator" =>
            Slice(frame'.content, delivered', frame'.start)
            /\ frame'.start + Len(frame'.content) = Len(delivered')
      <3>1. SUFFICES ASSUME pc' = "operator"
                     PROVE  Slice(frame'.content, delivered', frame'.start)
                            /\ frame'.start + Len(frame'.content) = Len(delivered')
        OBVIOUS
      <3>2. frame.left = 1 /\ frame'.left = 0
        BY <1>3, <1>4, <3>1
      <3>3. frame'.content \in Seq(Byte) /\ frame'.start \in Nat
        BY <1>2, <1>3
      <3>4. QED
        BY <1>1, <2>2, <3>2, <3>3, PendingDone
    <2>4. OpEnds(pc, frame, Text) => Alone(frame', Text)
      BY <1>3, <1>5 DEF OpEnds, Alone
    <2>5. QED
      BY <1>3, <1>4, <1>5, <2>1, <2>2, <2>3, <2>4 DEF OpAt, OpEnds
  <1>6. CASE frame.after # "operator"
    <2>1. pc' \notin {"second", "third", "operator"} /\ frame'.after # "operator"
      BY <1>3, <1>4, <1>6 DEF Afters
    <2>2. QED
      BY <2>1 DEF OpAt, OpEnds
  <1>7. QED
    BY <1>5, <1>6

\* At every step.
LEMMA OpStep ==
  ASSUME Base, Base', ScanStep, Calm', OpAt(pc, frame, delivered, reader)
  PROVE  /\ OpAt(pc', frame', delivered', reader')
         /\ SIZE >= 2 /\ Sure' /\ OpEnds(pc, frame, Text) => OpEnds(pc', frame', Text)
  <1>1. Typed2 /\ ScanTypes /\ frame \in FrameSet /\ TypeOK
    BY Onward, Facts DEF Typed2
  <1>2. CASE Eat
    BY <1>2, OpEaten
  <1>3. CASE Second
    BY <1>3, OpSeconds
  <1>4. CASE Third
    BY <1>4, OpThirds
  <1>5. CASE pc' \notin {"second", "third", "operator", "eat"}
    BY <1>5 DEF OpAt, OpEnds
  <1>6. CASE pc' \in {"second", "third", "operator"} /\ ~Eat /\ ~Second /\ ~Third
    <2>1. Dispatch /\ pc' = "second"
      BY <1>1, <1>6, SkipGoes, WordGoes, NumberGoes DEF ScanStep
    <2>2. QED
      BY <2>1, OpBegins
  <1>7. CASE pc' = "eat" /\ ~Eat /\ ~Second /\ ~Third
    <2>1. CASE Dispatch /\ frame'.after = "operator"
      BY <1>7, <2>1, OpBegins
    <2>2. CASE frame'.after # "operator"
      BY <1>7, <2>2 DEF OpAt, OpEnds
    <2>3. CASE Skip \/ SkipSlash \/ LineComment \/ BlockComment \/ BlockSecond \/ String \/ CharPeek
      <3>1. \E n : \E f \in FrameSet : \E label \in {"skip", "line_comment", "block_comment", "string_end", "char_end"} :
              EatThen(n, label, f)
        BY <1>1, <1>7, <2>3
        DEF Skip, SkipSlash, LineComment, BlockComment, BlockSecond, String, CharPeek, SkipDone,
            CommentEnds, Goto, Continue, EmitHere, Emit
      <3>2. frame'.after # "operator"
        BY <3>1, EatSets
      <3>3. QED
        BY <2>2, <3>2
    <2>4. QED
      BY <1>1, <1>7, <2>1, <2>2, <2>3, EatFrom
  <1>8. QED
    BY <1>2, <1>3, <1>4, <1>5, <1>6, <1>7

(***************************************************************************)
(* The recursive functions of the properties                               *)
(***************************************************************************)

\* First(S) is the least element of a nonempty set of numbers.
LEMMA FirstIsLeast ==
  ASSUME NEW S \in SUBSET Nat, S # {}
  PROVE  First(S) \in S /\ \A j \in S : First(S) <= j
  <1>1. \E i \in S : \A j \in S : i <= j
    BY LeastNumber
  <1>2. QED
    BY <1>1 DEF First

\* And the only one.
LEMMA FirstIs ==
  ASSUME NEW S \in SUBSET Nat, NEW m \in S, \A j \in S : m <= j
  PROVE  First(S) = m
  <1>1. First(S) \in S /\ First(S) <= m
    BY FirstIsLeast
  <1>2. First(S) \in Nat /\ m \in Nat /\ m <= First(S)
    BY <1>1
  <1>3. QED
    BY <1>1, <1>2

\* The ends of a comment lie behind its beginning, inside the text.
LEMMA EndsInside ==
  ASSUME NEW text \in Seq(Byte), NEW k \in 0 .. Len(text)
  PROVE  /\ Opens(text, k, SLASH) => First(LineEnds(text, k)) \in k + 1 .. Len(text)
         /\ Opens(text, k, STAR) => First(BlockEnds(text, k)) \in k + 1 .. Len(text)
  <1>1. Len(text) \in Nat
    OBVIOUS
  <1>2. ASSUME Opens(text, k, SLASH) PROVE First(LineEnds(text, k)) \in k + 1 .. Len(text)
    <2>1. Len(text) \in LineEnds(text, k) /\ LineEnds(text, k) \in SUBSET (k + 1 .. Len(text))
      BY <1>1, <1>2 DEF Opens, LineEnds
    <2>2. LineEnds(text, k) \in SUBSET Nat /\ LineEnds(text, k) # {}
      BY <1>1, <2>1
    <2>3. QED
      BY <2>1, <2>2, FirstIsLeast
  <1>3. ASSUME Opens(text, k, STAR) PROVE First(BlockEnds(text, k)) \in k + 1 .. Len(text)
    <2>1. Len(text) \in BlockEnds(text, k) /\ BlockEnds(text, k) \in SUBSET (k + 1 .. Len(text))
      BY <1>1, <1>3 DEF Opens, BlockEnds
    <2>2. BlockEnds(text, k) \in SUBSET Nat /\ BlockEnds(text, k) # {}
      BY <1>1, <2>1
    <2>3. QED
      BY <2>1, <2>2, FirstIsLeast
  <1>4. QED
    BY <1>2, <1>3

\* What NoiseEnd says of the place behind k characters, given what it says of the others.
NoiseStep(text, end, k) ==
  IF k = Len(text) THEN Len(text)
  ELSE IF text[k + 1] \in Blank THEN end[k + 1]
  ELSE IF Opens(text, k, SLASH) THEN end[First(LineEnds(text, k))]
  ELSE IF Opens(text, k, STAR) THEN end[First(BlockEnds(text, k))]
  ELSE k

\* NoiseEnd is defined: it calls itself only for places further on.
LEMMA NoiseDefined ==
  ASSUME NEW text \in Seq(Byte)
  PROVE  NoiseEnd(text) = [k \in 0 .. Len(text) |-> NoiseStep(text, NoiseEnd(text), k)]
  <1> DEFINE D == 0 .. Len(text)
             rank == [k \in D |-> Len(text) - k]
             Step == [gk \in [D -> D] \X D |-> NoiseStep(text, gk[1], gk[2])]
  <1>1. Len(text) \in Nat /\ 0 \in D
    OBVIOUS
  <1>2. \A k \in D : rank[k] \in 0 .. Len(text)
    BY <1>1
  <1>3. ASSUME NEW g \in [D -> D], NEW k \in D
        PROVE  NoiseStep(text, g, k) \in D
    <2>1. k # Len(text) => k + 1 \in D
      BY <1>1
    <2>2. /\ Opens(text, k, SLASH) => First(LineEnds(text, k)) \in D
          /\ Opens(text, k, STAR) => First(BlockEnds(text, k)) \in D
      BY <1>1, EndsInside
    <2>3. Len(text) \in D
      BY <1>1
    <2> HIDE DEF D
    <2>4. QED
      BY <2>1, <2>2, <2>3 DEF NoiseStep
  <1>5. ASSUME NEW g \in [D -> D], NEW h \in [D -> D], NEW k \in D,
               \A j \in D : k < j => g[j] = h[j]
        PROVE  NoiseStep(text, g, k) = NoiseStep(text, h, k)
    <2>1. k # Len(text) => g[k + 1] = h[k + 1]
      BY <1>1, <1>5
    <2>2. /\ Opens(text, k, SLASH) => g[First(LineEnds(text, k))] = h[First(LineEnds(text, k))]
          /\ Opens(text, k, STAR) => g[First(BlockEnds(text, k))] = h[First(BlockEnds(text, k))]
      <3>1. \A j \in k + 1 .. Len(text) : g[j] = h[j]
        BY <1>1, <1>5
      <3>2. QED
        BY <3>1, EndsInside
    <2>3. QED
      BY <2>1, <2>2, Zenon DEF NoiseStep
  <1>6. Descends(D, D, rank, Step)
    <2> SUFFICES ASSUME NEW g \in [D -> D], NEW k \in D
                 PROVE  /\ Step[<<g, k>>] \in D
                        /\ \A h \in [D -> D] :
                             (\A j \in D : rank[j] < rank[k] => g[j] = h[j]) =>
                               Step[<<g, k>>] = Step[<<h, k>>]
      BY DEF Descends
    <2>1. Step[<<g, k>>] = NoiseStep(text, g, k)
      OBVIOUS
    <2>2. ASSUME NEW h \in [D -> D], \A j \in D : rank[j] < rank[k] => g[j] = h[j]
          PROVE  Step[<<g, k>>] = Step[<<h, k>>]
      <3>1. \A j \in D : k < j => g[j] = h[j]
        BY <1>1, <2>2
      <3>2. Step[<<h, k>>] = NoiseStep(text, h, k)
        OBVIOUS
      <3>3. QED
        BY <1>5, <2>1, <3>1, <3>2
    <2>3. QED
      BY <1>3, <2>1, <2>2
  <1>7. Recurses(D, D, Step)
    <2> HIDE DEF D, rank, Step
    <2>1. QED
      BY <1>1, <1>2, <1>6, RecursionExists
  <1>8. \E f : f = [k \in D |-> NoiseStep(text, f, k)]
    <2>1. PICK f \in [D -> D] : \A k \in D : f[k] = Step[<<f, k>>]
      BY <1>7 DEF Recurses
    <2>2. \A k \in D : Step[<<f, k>>] = NoiseStep(text, f, k)
      OBVIOUS
    <2>3. QED
      BY <2>1, <2>2
  <1>9. NoiseEnd(text) = CHOOSE end : end = [k \in D |-> NoiseStep(text, end, k)]
    BY DEF NoiseEnd, NoiseStep
  <1> HIDE DEF D
  <1>10. NoiseEnd(text) = [k \in D |-> NoiseStep(text, NoiseEnd(text), k)]
    BY <1>8, <1>9
  <1>11. QED
    BY <1>10 DEF D

\* What Unescape makes of the text from the i-th character on, given what it makes of the
\* rest further on.
UnescapeStep(s, from, i) ==
  IF i > Len(s) THEN <<>>
  ELSE IF s[i] # BACKSLASH THEN <<s[i]>> \o from[i + 1]
  ELSE IF i = Len(s) THEN <<None>>
  ELSE <<s[i + 1]>> \o from[i + 2]

\* Unescape is defined by these: f[i] is what it makes of the text from i on.
LEMMA UnescapeDefined ==
  ASSUME NEW s \in Seq(Byte)
  PROVE  \E f : /\ Unescape(s) = f[1]
                /\ f = [i \in 1 .. Len(s) + 2 |-> UnescapeStep(s, f, i)]
  <1> DEFINE D == 1 .. Len(s) + 2
             V == Seq(Byte \cup {None})
             rank == [i \in D |-> Len(s) + 2 - i]
             Step == [gi \in [D -> V] \X D |-> UnescapeStep(s, gi[1], gi[2])]
  <1>1. Len(s) \in Nat /\ Len(s) + 2 \in Nat /\ <<>> \in V
    OBVIOUS
  <1>2. \A i \in D : rank[i] \in 0 .. Len(s) + 2
    BY <1>1
  <1>3. ASSUME NEW i \in D, i <= Len(s)
        PROVE  /\ i + 1 \in D /\ i + 2 \in D
               /\ <<s[i]>> \in V /\ <<None>> \in V
               /\ i # Len(s) => <<s[i + 1]>> \in V
    <2>1. s[i] \in Byte /\ (i # Len(s) => s[i + 1] \in Byte)
      BY <1>1, <1>3
    <2>2. QED
      BY <1>1, <1>3, <2>1
  <1>4. \A u, v \in V : u \o v \in V
    OBVIOUS
  <1>5. ASSUME NEW g \in [D -> V], NEW i \in D
        PROVE  UnescapeStep(s, g, i) \in V
    <2>1. CASE i > Len(s)
      BY <1>1, <2>1 DEF UnescapeStep
    <2>2. CASE ~(i > Len(s))
      <3>1. i <= Len(s)
        BY <1>1, <2>2
      <3>2. /\ i + 1 \in D /\ i + 2 \in D
            /\ <<s[i]>> \in V /\ <<None>> \in V
            /\ i # Len(s) => <<s[i + 1]>> \in V
        BY <1>3, <3>1
      <3>3. g[i + 1] \in V /\ g[i + 2] \in V
        BY <3>2
      <3> HIDE DEF V, D
      <3>4. QED
        BY <1>4, <2>2, <3>2, <3>3 DEF UnescapeStep
    <2>3. QED
      BY <2>1, <2>2
  <1>6. ASSUME NEW g \in [D -> V], NEW h \in [D -> V], NEW i \in D,
               \A j \in D : i < j => g[j] = h[j]
        PROVE  UnescapeStep(s, g, i) = UnescapeStep(s, h, i)
    <2>1. CASE i > Len(s)
      BY <2>1 DEF UnescapeStep
    <2>2. CASE ~(i > Len(s))
      <3>1. i + 1 \in D /\ i + 2 \in D /\ i < i + 1 /\ i < i + 2
        BY <1>1, <2>2
      <3>2. g[i + 1] = h[i + 1] /\ g[i + 2] = h[i + 2]
        BY <1>6, <3>1
      <3>3. QED
        BY <3>2, Zenon DEF UnescapeStep
    <2>3. QED
      BY <2>1, <2>2
  <1>7. Descends(D, V, rank, Step)
    <2> SUFFICES ASSUME NEW g \in [D -> V], NEW i \in D
                 PROVE  /\ Step[<<g, i>>] \in V
                        /\ \A h \in [D -> V] :
                             (\A j \in D : rank[j] < rank[i] => g[j] = h[j]) =>
                               Step[<<g, i>>] = Step[<<h, i>>]
      BY DEF Descends
    <2>1. Step[<<g, i>>] = UnescapeStep(s, g, i)
      OBVIOUS
    <2>2. ASSUME NEW h \in [D -> V], \A j \in D : rank[j] < rank[i] => g[j] = h[j]
          PROVE  Step[<<g, i>>] = Step[<<h, i>>]
      <3>1. \A j \in D : i < j => g[j] = h[j]
        BY <1>1, <2>2
      <3>2. Step[<<h, i>>] = UnescapeStep(s, h, i)
        OBVIOUS
      <3>3. QED
        BY <1>6, <2>1, <3>1, <3>2
    <2>3. QED
      BY <1>5, <2>1, <2>2
  <1>8. Recurses(D, V, Step)
    <2> HIDE DEF D, V, rank, Step
    <2>1. QED
      BY <1>1, <1>2, <1>7, RecursionExists
  <1>9. \E f : f = [i \in D |-> UnescapeStep(s, f, i)]
    <2>1. PICK f \in [D -> V] : \A i \in D : f[i] = Step[<<f, i>>]
      BY <1>8 DEF Recurses
    <2>2. \A i \in D : Step[<<f, i>>] = UnescapeStep(s, f, i)
      OBVIOUS
    <2>3. QED
      BY <2>1, <2>2
  <1>10. Unescape(s) = (CHOOSE from : from = [i \in D |-> UnescapeStep(s, from, i)])[1]
    BY DEF Unescape, UnescapeStep
  <1> HIDE DEF D
  <1>11. \E f : Unescape(s) = f[1] /\ f = [i \in D |-> UnescapeStep(s, f, i)]
    BY <1>9, <1>10
  <1>12. QED
    BY <1>11 DEF D

\* The function in Unescape: what it makes of the text from each character on.
Escapes(s) == CHOOSE from : from = [i \in 1 .. Len(s) + 2 |-> UnescapeStep(s, from, i)]

\* What it is, and that its values are texts.
LEMMA EscapesIs ==
  ASSUME NEW s \in Seq(Byte)
  PROVE  /\ Unescape(s) = Escapes(s)[1]
         /\ \A i \in 1 .. Len(s) + 2 : /\ Escapes(s)[i] = UnescapeStep(s, Escapes(s), i)
                                       /\ Escapes(s)[i] \in Seq(Byte \cup {None})
  <1> DEFINE D == 1 .. Len(s) + 2
             V == Seq(Byte \cup {None})
             E == Escapes(s)
  <1>1. Len(s) \in Nat /\ <<>> \in V
    OBVIOUS
  <1>2. Unescape(s) = E[1]
    BY DEF Unescape, Escapes, UnescapeStep
  <1>3. E = [i \in D |-> UnescapeStep(s, E, i)]
    <2>1. \E f : f = [i \in D |-> UnescapeStep(s, f, i)]
      BY UnescapeDefined
    <2> HIDE DEF D
    <2>2. E = CHOOSE f : f = [i \in D |-> UnescapeStep(s, f, i)]
      BY DEF Escapes, D
    <2>3. QED
      BY <2>1, <2>2
  <1>4. \A i \in D : E[i] = UnescapeStep(s, E, i)
    BY <1>3
  <1> HIDE DEF E
  <1> DEFINE P == {m \in 0 .. Len(s) + 1 : \A i \in D : i >= Len(s) + 2 - m => E[i] \in V}
  <1>5. 0 \in P
    <2>1. ASSUME NEW i \in D, i >= Len(s) + 2 - 0 PROVE E[i] \in V
      <3>1. i > Len(s)
        BY <1>1, <2>1
      <3>2. QED
        BY <1>1, <1>4, <3>1 DEF UnescapeStep
    <2>2. QED
      BY <1>1, <2>1
  <1>6. ASSUME NEW m \in 0 .. (Len(s) + 1) - 1, m \in P PROVE m + 1 \in P
    <2>1. ASSUME NEW i \in D, i >= Len(s) + 2 - (m + 1) PROVE E[i] \in V
      <3>1. CASE i > Len(s)
        BY <1>1, <1>4, <3>1 DEF UnescapeStep
      <3>2. CASE ~(i > Len(s))
        <4>1. /\ i + 1 \in D /\ i + 2 \in D
              /\ i + 1 >= Len(s) + 2 - m /\ i + 2 >= Len(s) + 2 - m
          BY <1>1, <2>1, <3>2
        <4>2. E[i + 1] \in V /\ E[i + 2] \in V
          BY <1>6, <4>1
        <4>3. s[i] \in Byte /\ (i # Len(s) => s[i + 1] \in Byte)
          BY <1>1, <3>2
        <4>4. <<s[i]>> \in V /\ <<None>> \in V /\ (i # Len(s) => <<s[i + 1]>> \in V)
          BY <4>3
        <4>5. \A u, v \in V : u \o v \in V
          OBVIOUS
        <4> HIDE DEF V
        <4>6. UnescapeStep(s, E, i) \in V
          BY <3>2, <4>2, <4>4, <4>5 DEF UnescapeStep
        <4>7. QED
          BY <1>4, <4>6
      <3>3. QED
        BY <3>1, <3>2
    <2>2. m + 1 \in 0 .. Len(s) + 1
      BY <1>1
    <2>3. QED
      BY <2>1, <2>2
  <1>7. Len(s) + 1 \in P
    <2>1. \A m \in 0 .. (Len(s) + 1) - 1 : m \in P => m + 1 \in P
      BY <1>6
    <2> HIDE DEF P
    <2>2. Len(s) + 1 \in Nat /\ Len(s) + 1 \in 0 .. Len(s) + 1
      BY <1>1
    <2>3. QED
      BY <1>5, <2>1, <2>2, NumbersUpTo
  <1>8. \A i \in D : E[i] \in V
    <2>1. \A i \in D : i >= Len(s) + 2 - (Len(s) + 1)
      BY <1>1
    <2>2. QED
      BY <1>7, <2>1
  <1>9. QED
    BY <1>2, <1>4, <1>8 DEF E

(***************************************************************************)
(* Strings                                                                 *)
(***************************************************************************)

\* The text of a string has a backslash that escapes nothing.
Dangles(s) == \E i \in DOMAIN Unescape(s) : Unescape(s)[i] = None

\* The string that began behind the first `start` characters of d goes on with a text that
\* begins like s.
Begun(s, d, start) ==
  /\ Len(d) <= start + 1 + Len(s)
  /\ \A i \in 1 .. Len(d) - (start + 1) : s[i] = d[start + 1 + i]

\* What scanner_consume_string has gathered behind its opening quote: of every text that
\* goes on from here Unescape makes that and what it makes of the rest.  A quote that has been
\* taken was escaped.
SoFar(f, d) ==
  /\ f.start + 1 <= Len(d) /\ d[f.start + 1] = QUOTE
  /\ f.escape => f.start + 1 < Len(d) /\ d[Len(d)] = BACKSLASH
  /\ \A s \in Seq(Byte) :
       Begun(s, d, f.start) =>
         Unescape(s) = f.content \o Escapes(s)[IF f.escape THEN Len(d) - (f.start + 1)
                                               ELSE Len(d) - (f.start + 1) + 1]
  /\ f.start + 1 < Len(d) /\ ~f.escape /\ d[Len(d)] = QUOTE =>
       \A s \in Seq(Byte) :
         Slice(s, d, f.start + 1) /\ f.start + 2 + Len(s) = Len(d) => Dangles(s)

\* What a string that ends behind the first `end` characters is: where it is delimited, its
\* content is its text.
Quoted(start, end, content, d) ==
  /\ start + 1 <= end /\ end <= Len(d) /\ d[start + 1] = QUOTE
  /\ \A s \in Seq(Byte) :
       Slice(s, d, start + 1) /\ start + 2 + Len(s) = end /\ d[end] = QUOTE /\ ~Dangles(s) =>
         content = Unescape(s)

\* A character put in front of a text is one put behind what comes before it.
LEMMA AppendShifts ==
  ASSUME NEW s \in Seq(Byte), NEW c \in Byte, NEW X \in Seq(Byte \cup {None})
  PROVE  s \o (<<c>> \o X) = Append(s, c) \o X
  <1> DEFINE U == s \o (<<c>> \o X)
             V == Append(s, c) \o X
  <1>1. /\ Len(s) \in Nat /\ Len(X) \in Nat /\ s \in Seq(Byte \cup {None})
        /\ <<c>> \in Seq(Byte \cup {None}) /\ Append(s, c) \in Seq(Byte \cup {None})
        /\ Len(<<c>>) = 1 /\ <<c>>[1] = c
    OBVIOUS
  <1>2. /\ <<c>> \o X \in Seq(Byte \cup {None}) /\ Len(<<c>> \o X) = 1 + Len(X)
        /\ \A i \in 1 .. 1 + Len(X) : (<<c>> \o X)[i] = IF i <= 1 THEN c ELSE X[i - 1]
    BY <1>1
  <1>3. /\ Len(Append(s, c)) = Len(s) + 1 /\ Append(s, c)[Len(s) + 1] = c
        /\ \A i \in 1 .. Len(s) : Append(s, c)[i] = s[i]
    BY <1>1
  <1>4. /\ U \in Seq(Byte \cup {None}) /\ Len(U) = Len(s) + 1 + Len(X)
        /\ \A i \in 1 .. Len(s) + 1 + Len(X) :
             U[i] = IF i <= Len(s) THEN s[i] ELSE (<<c>> \o X)[i - Len(s)]
    BY <1>1, <1>2
  <1>5. /\ V \in Seq(Byte \cup {None}) /\ Len(V) = Len(s) + 1 + Len(X)
        /\ \A i \in 1 .. Len(s) + 1 + Len(X) :
             V[i] = IF i <= Len(s) + 1 THEN Append(s, c)[i] ELSE X[i - (Len(s) + 1)]
    BY <1>1, <1>3
  <1> HIDE DEF U, V
  <1>6. ASSUME NEW i \in 1 .. Len(U) PROVE U[i] = V[i]
    <2>1. CASE i \in 1 .. Len(s)
      <3>1. i \in 1 .. Len(s) + 1 + Len(X) /\ i <= Len(s) /\ i <= Len(s) + 1
        BY <1>1, <2>1
      <3>2. U[i] = s[i]
        BY <1>4, <3>1, Zenon
      <3>3. V[i] = Append(s, c)[i]
        BY <1>5, <3>1, Zenon
      <3>4. QED
        BY <1>3, <2>1, <3>2, <3>3, Zenon
    <2>2. CASE i = Len(s) + 1
      <3>1. i - Len(s) = 1 /\ ~(i <= Len(s)) /\ i <= Len(s) + 1 /\ 1 \in 1 .. 1 + Len(X)
        BY <1>1, <2>2
      <3>2. U[i] = (<<c>> \o X)[1]
        BY <1>1, <1>4, <2>2, <3>1
      <3>3. V[i] = c
        BY <1>1, <1>3, <1>4, <1>5, <2>2, <3>1
      <3>4. QED
        BY <1>2, <3>1, <3>2, <3>3
    <2>3. CASE i > Len(s) + 1
      <3>1. /\ i - Len(s) \in 1 .. 1 + Len(X) /\ ~(i - Len(s) <= 1) /\ ~(i <= Len(s))
            /\ (i - Len(s)) - 1 = i - (Len(s) + 1) /\ ~(i <= Len(s) + 1)
            /\ i \in 1 .. Len(s) + 1 + Len(X)
        BY <1>1, <1>4, <2>3
      <3>2. U[i] = X[(i - Len(s)) - 1]
        BY <1>2, <1>4, <3>1
      <3>3. V[i] = X[i - (Len(s) + 1)]
        BY <1>5, <3>1
      <3>4. QED
        BY <3>1, <3>2, <3>3
    <2>4. QED
      BY <1>1, <1>4, <2>1, <2>2, <2>3
  <1>7. U = V
    BY <1>4, <1>5, <1>6, SeqEqual
  <1>8. QED
    BY <1>7 DEF U, V

\* A character of a string is read.
LEMMA SoFarReads ==
  ASSUME NEW d \in Seq(Byte), NEW c \in Byte, NEW f \in FrameSet, NEW g \in FrameSet, SoFar(f, d),
         f.escape \/ c # QUOTE, g.start = f.start,
         g.escape <=> ~f.escape /\ c = BACKSLASH,
         g.content = IF ~f.escape /\ c = BACKSLASH THEN f.content ELSE Append(f.content, c)
  PROVE  SoFar(g, Append(d, c))
  <1> DEFINE e == Append(d, c)
             k == Len(d) - (f.start + 1)
  <1>1. /\ Len(d) \in Nat /\ f.start \in Nat /\ f.content \in Seq(Byte)
    BY DEF FrameSet
  <1>2. k \in Nat /\ f.start + 1 + k = Len(d)
    <2>1. f.start + 1 <= Len(d)
      BY DEF SoFar
    <2>2. QED
      BY <1>1, <2>1
  <1>3. /\ Len(e) = Len(d) + 1 /\ e[Len(d) + 1] = c
        /\ \A i \in 1 .. Len(d) : e[i] = d[i]
    BY <1>1
  <1>4. Len(e) - (f.start + 1) = k + 1 /\ Len(e) \in Nat /\ Len(e) = Len(d) + 1
    BY <1>1, <1>2, <1>3
  <1> HIDE DEF e, k
  <1>5. f.start + 1 <= Len(e) /\ f.start + 1 < Len(e) /\ e[f.start + 1] = QUOTE
    <2>1. f.start + 1 \in 1 .. Len(d)
      BY <1>1 DEF SoFar
    <2>2. QED
      BY <1>1, <1>3, <1>4, <2>1 DEF SoFar
  <1>6. g.escape => e[Len(e)] = BACKSLASH
    BY <1>3
  <1>7. ASSUME NEW s \in Seq(Byte), k <= Len(s), \A i \in 1 .. k : s[i] = e[f.start + 1 + i]
        PROVE  /\ Begun(s, d, f.start)
               /\ f.escape => k >= 1 /\ s[k] = BACKSLASH
               /\ Unescape(s) = f.content \o Escapes(s)[IF f.escape THEN k ELSE k + 1]
    <2>1. \A i \in 1 .. k : f.start + 1 + i \in 1 .. Len(d)
      BY <1>1, <1>2
    <2>2. \A i \in 1 .. k : s[i] = d[f.start + 1 + i]
      BY <1>3, <1>7, <2>1
    <2>3. Begun(s, d, f.start)
      BY <1>1, <1>2, <1>7, <2>2 DEF Begun, k
    <2>4. f.escape => k >= 1 /\ s[k] = BACKSLASH
      <3>1. SUFFICES ASSUME f.escape PROVE k >= 1 /\ s[k] = BACKSLASH
        OBVIOUS
      <3>2. f.start + 1 < Len(d) /\ d[Len(d)] = BACKSLASH
        BY <3>1 DEF SoFar
      <3>3. k \in 1 .. k
        BY <1>1, <1>2, <3>2
      <3>4. QED
        BY <1>2, <2>2, <3>2, <3>3
    <2>5. QED
      BY <2>3, <2>4 DEF SoFar, k
  <1>8. ASSUME NEW s \in Seq(Byte), Begun(s, e, f.start)
        PROVE  Unescape(s) = g.content \o Escapes(s)[IF g.escape THEN k + 1 ELSE (k + 1) + 1]
    <2> DEFINE E == Escapes(s)
    <2>1. k + 1 <= Len(s) /\ \A i \in 1 .. k + 1 : s[i] = e[f.start + 1 + i]
      BY <1>1, <1>2, <1>4, <1>8 DEF Begun
    <2>2. s[k + 1] = c /\ Len(s) \in Nat /\ k <= Len(s)
      <3>1. k + 1 \in 1 .. k + 1
        BY <1>2
      <3>4. f.start + 1 + (k + 1) = Len(d) + 1
        <4>1. \A a, b, n \in Nat : a + 1 + b = n => a + 1 + (b + 1) = n + 1
          OBVIOUS
        <4>2. QED
          BY <1>1, <1>2, <4>1
      <3>2. s[k + 1] = e[f.start + 1 + (k + 1)]
        BY <2>1, <3>1
      <3>3. QED
        BY <1>2, <1>3, <2>1, <3>2, <3>4
    <2>3. /\ f.escape => k >= 1 /\ s[k] = BACKSLASH
          /\ Unescape(s) = f.content \o E[IF f.escape THEN k ELSE k + 1]
      <3>1. \A i \in 1 .. k : s[i] = e[f.start + 1 + i]
        BY <1>2, <2>1
      <3>2. k <= Len(s)
        BY <2>2
      <3>3. QED
        BY <1>7, <3>1, <3>2
    <2>4. \A i \in 1 .. Len(s) + 2 : E[i] = UnescapeStep(s, E, i) /\ E[i] \in Seq(Byte \cup {None})
      BY EscapesIs
    <2>5. k + 1 \in 1 .. Len(s) + 2 /\ k + 2 \in 1 .. Len(s) + 2 /\ (k + 1) + 1 = k + 2
      BY <1>2, <2>1, <2>2
    <2> HIDE DEF E
    <2>6. \A X \in Seq(Byte \cup {None}) : f.content \o (<<c>> \o X) = Append(f.content, c) \o X
      BY <1>1, AppendShifts
    <2>7. CASE ~f.escape /\ c = BACKSLASH
      BY <2>3, <2>7 DEF E
    <2>8. CASE ~f.escape /\ c # BACKSLASH
      <3>1. E[k + 1] = <<s[k + 1]>> \o E[(k + 1) + 1]
        <4>1. ~(k + 1 > Len(s)) /\ s[k + 1] # BACKSLASH
          BY <1>2, <2>1, <2>2, <2>8
        <4>2. QED
          BY <2>4, <2>5, <4>1 DEF UnescapeStep
      <3>2. Unescape(s) = f.content \o (<<c>> \o E[k + 2])
        BY <2>2, <2>3, <2>5, <2>8, <3>1
      <3>3. Unescape(s) = Append(f.content, c) \o E[k + 2]
        BY <2>4, <2>5, <2>6, <3>2
      <3>4. QED
        BY <2>5, <2>8, <3>3 DEF E
    <2>9. CASE f.escape
      <3>1. E[k] = <<s[k + 1]>> \o E[k + 2]
        <4>1. ~(k > Len(s)) /\ k # Len(s) /\ k \in 1 .. Len(s) + 2
          BY <1>2, <2>1, <2>2, <2>3, <2>9
        <4>2. QED
          BY <2>3, <2>4, <2>9, <4>1 DEF UnescapeStep
      <3>2. Unescape(s) = f.content \o (<<c>> \o E[k + 2])
        BY <2>2, <2>3, <2>9, <3>1
      <3>3. Unescape(s) = Append(f.content, c) \o E[k + 2]
        BY <2>4, <2>5, <2>6, <3>2
      <3>4. QED
        BY <2>5, <2>9, <3>3 DEF E
    <2>10. QED
      BY <2>7, <2>8, <2>9
  <1>9. ASSUME ~g.escape, e[Len(e)] = QUOTE, NEW s \in Seq(Byte),
               Slice(s, e, f.start + 1), f.start + 2 + Len(s) = Len(e)
        PROVE  Dangles(s)
    <2>1. f.escape
      BY <1>3, <1>9
    <2>2. Len(s) = k /\ \A i \in 1 .. k : s[i] = e[f.start + 1 + i]
      <3>1. Len(s) = k
        BY <1>1, <1>2, <1>4, <1>9
      <3>2. QED
        BY <1>9, <3>1 DEF Slice
    <2>3. k >= 1 /\ s[k] = BACKSLASH /\ Unescape(s) = f.content \o Escapes(s)[k]
      <3>1. k <= Len(s)
        BY <1>2, <2>2
      <3>2. \A i \in 1 .. k : s[i] = e[f.start + 1 + i]
        BY <2>2
      <3>3. QED
        BY <1>7, <2>1, <3>1, <3>2
    <2>4. Escapes(s)[k] = <<None>>
      <3>1. k \in 1 .. Len(s) + 2 /\ ~(k > Len(s))
        BY <1>2, <2>2, <2>3
      <3>2. Escapes(s)[k] = UnescapeStep(s, Escapes(s), k)
        BY <3>1, EscapesIs
      <3>3. QED
        BY <2>2, <2>3, <3>1, <3>2 DEF UnescapeStep
    <2>5. Unescape(s) = Append(f.content, None)
      <3>1. f.content \in Seq(Byte \cup {None})
        BY <1>1
      <3>2. f.content \o <<None>> = Append(f.content, None)
        BY <3>1
      <3>3. QED
        BY <2>3, <2>4, <3>2
    <2>6. Len(f.content) + 1 \in DOMAIN Append(f.content, None)
          /\ Append(f.content, None)[Len(f.content) + 1] = None
      BY <1>1
    <2>7. QED
      BY <2>5, <2>6 DEF Dangles
  <1>10. SoFar(g, e)
    BY <1>4, <1>5, <1>6, <1>8, <1>9 DEF SoFar
  <1>11. QED
    BY <1>10 DEF e

\* The closing quote is consumed.
LEMMA SoFarCloses ==
  ASSUME NEW d \in Seq(Byte), NEW f \in FrameSet, SoFar(f, d), ~f.escape,
         NEW e, e = Append(d, QUOTE)
  PROVE  Quoted(f.start, Len(e), f.content, e)
  <1> DEFINE k == Len(d) - (f.start + 1)
  <1>1. /\ Len(d) \in Nat /\ f.start \in Nat /\ f.content \in Seq(Byte)
    BY DEF FrameSet
  <1>2. k \in Nat /\ f.start + 1 + k = Len(d)
    <2>1. f.start + 1 <= Len(d)
      BY DEF SoFar
    <2>2. QED
      BY <1>1, <2>1
  <1>3. /\ Len(e) = Len(d) + 1
        /\ \A i \in 1 .. Len(d) : e[i] = d[i]
    BY <1>1 DEF QUOTE
  <1>4. f.start + 1 <= Len(e) /\ Len(e) <= Len(e) /\ e[f.start + 1] = QUOTE
    <2>1. f.start + 1 \in 1 .. Len(d)
      BY <1>1 DEF SoFar
    <2>2. QED
      BY <1>1, <1>3, <2>1 DEF SoFar
  <1>5. ASSUME NEW s \in Seq(Byte), Slice(s, e, f.start + 1), f.start + 2 + Len(s) = Len(e)
        PROVE  f.content = Unescape(s)
    <2>1. Len(s) = k /\ Len(s) \in Nat
      BY <1>1, <1>2, <1>3, <1>5
    <2>2. \A i \in 1 .. k : f.start + 1 + i \in 1 .. Len(d)
      <3>1. \A a, b, x \in Nat : a + 1 + b <= x => \A i \in 1 .. b : a + 1 + i \in 1 .. x
        OBVIOUS
      <3>2. k \in Nat /\ f.start + 1 + k <= Len(d)
        BY <1>1, <1>2
      <3>3. QED
        BY <1>1, <3>1, <3>2
    <2>3. \A i \in 1 .. k : s[i] = d[f.start + 1 + i]
      BY <1>3, <1>5, <2>1, <2>2 DEF Slice
    <2>4. Begun(s, d, f.start)
      BY <1>1, <1>2, <2>1, <2>3 DEF Begun
    <2>5. Unescape(s) = f.content \o Escapes(s)[k + 1]
      BY <2>4 DEF SoFar
    <2>6. Escapes(s)[k + 1] = <<>>
      <3>1. k + 1 \in 1 .. Len(s) + 2 /\ k + 1 > Len(s)
        BY <1>2, <2>1
      <3>2. Escapes(s)[k + 1] = UnescapeStep(s, Escapes(s), k + 1)
        BY <3>1, EscapesIs
      <3>3. QED
        BY <3>1, <3>2 DEF UnescapeStep
    <2>7. f.content \o <<>> = f.content
      BY <1>1
    <2>8. QED
      BY <2>5, <2>6, <2>7
  <1>6. QED
    BY <1>4, <1>5 DEF Quoted

\* Or the string is cut off by the end of the file.
LEMMA SoFarCut ==
  ASSUME NEW d \in Seq(Byte), NEW f \in FrameSet, SoFar(f, d)
  PROVE  Quoted(f.start, Len(d), f.content, d)
  <1>1. Len(d) \in Nat /\ f.start \in Nat
    BY DEF FrameSet
  <1>2. f.start + 1 <= Len(d) /\ Len(d) <= Len(d) /\ d[f.start + 1] = QUOTE
    BY <1>1 DEF SoFar
  <1>3. ASSUME NEW s \in Seq(Byte), Slice(s, d, f.start + 1), f.start + 2 + Len(s) = Len(d),
               d[Len(d)] = QUOTE, ~Dangles(s)
        PROVE  FALSE
    <2>1. f.start + 1 < Len(d)
      BY <1>1, <1>3
    <2>2. ~f.escape
      BY <1>3 DEF SoFar, QUOTE, BACKSLASH
    <2>3. QED
      BY <1>3, <2>1, <2>2 DEF SoFar
  <1>4. QED
    BY <1>2, <1>3 DEF Quoted

\* The opening quote has been consumed.
LEMMA SoFarBegins ==
  ASSUME NEW d \in Seq(Byte), NEW f \in FrameSet, f.content = <<>>, ~f.escape,
         f.start + 1 = Len(d), d[f.start + 1] = QUOTE
  PROVE  SoFar(f, d)
  <1>1. Len(d) \in Nat /\ f.start \in Nat /\ Len(d) - (f.start + 1) = 0
    BY DEF FrameSet
  <1>2. f.start + 1 <= Len(d) /\ ~(f.start + 1 < Len(d))
    BY <1>1
  <1>3. ASSUME NEW s \in Seq(Byte)
        PROVE  Unescape(s) = f.content \o Escapes(s)[1]
    <2>1. Unescape(s) = Escapes(s)[1] /\ Escapes(s)[1] \in Seq(Byte \cup {None})
      <3>1. 1 \in 1 .. Len(s) + 2
        OBVIOUS
      <3>2. QED
        BY <3>1, EscapesIs
    <2>2. <<>> \o Escapes(s)[1] = Escapes(s)[1]
      BY <2>1
    <2>3. QED
      BY <2>1, <2>2
  <1>4. (IF f.escape THEN Len(d) - (f.start + 1) ELSE Len(d) - (f.start + 1) + 1) = 1
    BY <1>1
  <1>5. QED
    BY <1>2, <1>3, <1>4 DEF SoFar

\* It is about the start, the text and the escape of the locals.
LEMMA SoFarSame ==
  ASSUME NEW d, NEW f, NEW g, SoFar(f, d),
         g.start = f.start, g.content = f.content, g.escape = f.escape
  PROVE  SoFar(g, d)
  BY DEF SoFar

\* The locals of scanner_consume_string at each place, while no read has failed.
StrAt(label, f, d, r) ==
  /\ label = "eat" /\ f.after = "string_peek" =>
       f.content = <<>> /\ ~f.escape /\ Pending(<<QUOTE>>, d, f.start, f.left, r)
  /\ label \in {"string_peek", "string"} => SoFar(f, d)
  /\ label = "string" => Shown(r, f.next)
  /\ label = "eat" /\ f.after = "string_end" /\ StringRoom(f.content) =>
       /\ f.left = 1 /\ SoFar(f, d)
       /\ r.stateEOF \/ (~f.escape /\ Shows(r, 0, QUOTE))
  /\ label = "string_end" /\ StringRoom(f.content) => Quoted(f.start, Len(d), f.content, d)

\* scanner_read_next has seen an opening quote.
LEMMA StrBegins ==
  ASSUME Base, Base', Calm', Dispatch, ScanStep
  PROVE  StrAt(pc', frame', delivered', reader')
  <1>1. /\ IInv /\ IsOpen(reader) /\ Typed2 /\ delivered \in Seq(Byte) /\ TypeOK
    BY Onward DEF Typed2
  <1>2. Answer \in Byte \cup {None}
    BY <1>1, Facts
  <1>3. Frame(Answer) \in FrameSet
    BY <1>1, <1>2, FrameFresh
  <1>4. CASE pc' # "eat"
    BY <1>4, WordGoes DEF StrAt
  <1>5. CASE Peek /\ Answer = QUOTE /\ EatThen(1, "string_peek", Frame(Answer))
    <2>1. /\ pc' = "eat" /\ frame'.after = "string_peek" /\ frame'.left = 1
          /\ frame'.start = Len(delivered) /\ frame'.content = <<>> /\ ~frame'.escape
      BY <1>1, <1>2, <1>3, <1>5, EatSets, FrameFresh
    <2>2. QUOTE \in Byte /\ QUOTE # None
      BY DEF QUOTE, Byte, None
    <2>3. Shows(reader', 0, QUOTE) /\ delivered' = delivered
      BY <1>1, <1>5, <2>2, PeekDoes
    <2>4. Pending(<<QUOTE>>, delivered', frame'.start, frame'.left, reader')
      BY <1>1, <2>1, <2>2, <2>3, PendingOne
    <2>5. QED
      BY <2>1, <2>4 DEF StrAt
  <1>6. CASE \E f \in FrameSet : EatThen(1, "char", f) \/ EatThen(1, "operator", f)
    <2>1. pc' = "eat" /\ frame'.after \in {"char", "operator"}
      BY <1>6, EatSets
    <2>2. QED
      BY <2>1 DEF StrAt
  <1>7. ASSUME Answer \in Single PROVE [Frame(Answer) EXCEPT !.content = <<Answer>>] \in FrameSet
    <2>1. Answer \in Byte
      BY <1>7, OpBytes
    <2>2. QED
      BY <1>1, <2>1, FrameStored
  <1>8. QED
    <2>1. CASE ~(Peek /\ Answer = QUOTE /\ EatThen(1, "string_peek", Frame(Answer)))
               /\ ~(\E f \in FrameSet : EatThen(1, "char", f) \/ EatThen(1, "operator", f))
      <3>1. ~EatThen(1, "char", Frame(Answer))
        BY <1>3, <2>1
      <3>2. Answer \in Single => ~EatThen(1, "operator", [Frame(Answer) EXCEPT !.content = <<Answer>>])
        BY <1>7, <2>1
      <3>3. pc' # "eat"
        BY <2>1, <3>1, <3>2 DEF Dispatch, EmitHere, Emit, Continue
      <3>4. QED
        BY <1>4, <3>3
    <2>2. QED
      BY <1>5, <1>6, <2>1

\* The loop over its characters.
LEMMA StrTakes ==
  ASSUME Base, Base', Calm', StringPeek \/ String, ScanStep, StrAt(pc, frame, delivered, reader)
  PROVE  StrAt(pc', frame', delivered', reader')
  <1>1. /\ IInv /\ IsOpen(reader) /\ Typed2 /\ delivered \in Seq(Byte) /\ ~reader'.stateError
        /\ frame' \in FrameSet
    BY Onward DEF Base, ScanInv, ScanTypes, Suits, Calm
  <1>2. /\ frame \in FrameSet /\ frame.content \in Seq(Byte) /\ frame.start \in Nat
        /\ frame.next \in Byte \cup {None} /\ frame.escape \in BOOLEAN
    BY <1>1, Facts DEF FrameSet
  <1>3. CASE StringPeek
    <2>1. /\ Peek /\ pc = "string_peek" /\ pc' = "string"
          /\ frame' = [frame EXCEPT !.next = Answer]
      BY <1>3 DEF StringPeek, Continue
    <2>2. Shown(reader', Answer) /\ delivered' = delivered
      BY <1>1, <2>1, PeekShown
    <2>3. /\ frame'.content = frame.content /\ frame'.start = frame.start
          /\ frame'.escape = frame.escape /\ frame'.next = Answer
      BY <1>2, <2>1 DEF FrameSet
    <2>4. SoFar(frame, delivered)
      BY <2>1 DEF StrAt
    <2>5. SoFar(frame', delivered')
      BY <2>2, <2>3, <2>4, SoFarSame
    <2>6. QED
      BY <2>1, <2>2, <2>3, <2>5 DEF StrAt
  <1>4. ASSUME pc = "string"
        PROVE  SoFar(frame, delivered) /\ Shown(reader, frame.next)
    BY <1>4 DEF StrAt
  <1>5. CASE pc = "string" /\ StringGoesOn(frame) /\ Read /\ pc' = "string_peek"
             /\ frame' = IF ~frame.escape /\ frame.next = BACKSLASH
                         THEN [frame EXCEPT !.escape = TRUE]
                         ELSE [frame EXCEPT !.escape = FALSE, !.content = Append(@, Char(Answer))]
    <2>1. HasNext /\ (frame.escape \/ frame.next # QUOTE)
      BY <1>5 DEF StringGoesOn
    <2>2. Shows(reader, 0, frame.next)
      BY <1>4, <1>5, <2>1 DEF Shown, HasNext
    <2>3. frame.next \in Byte /\ Answer = frame.next /\ delivered' = Append(delivered, frame.next)
      BY <1>1, <1>5, <2>2, ReadDoes
    <2>4. Char(Answer) = frame.next
      BY <2>3, CharIs
    <2>5. /\ frame'.start = frame.start
          /\ frame'.content = IF ~frame.escape /\ frame.next = BACKSLASH
                              THEN frame.content ELSE Append(frame.content, frame.next)
          /\ frame'.escape <=> ~frame.escape /\ frame.next = BACKSLASH
      <3>1. CASE ~frame.escape /\ frame.next = BACKSLASH
        BY <1>2, <1>5, <3>1 DEF FrameSet
      <3>2. CASE ~(~frame.escape /\ frame.next = BACKSLASH)
        <4>1. frame' = [frame EXCEPT !.escape = FALSE, !.content = Append(@, Char(Answer))]
          BY <1>5, <3>2
        <4>2. /\ frame'.start = frame.start /\ frame'.escape = FALSE
              /\ frame'.content = Append(frame.content, Char(Answer))
          BY <1>2, <4>1 DEF FrameSet
        <4>3. QED
          BY <2>4, <3>2, <4>2
      <3>3. QED
        BY <3>1, <3>2
    <2>6. SoFar(frame', delivered')
      BY <1>1, <1>2, <1>4, <1>5, <2>1, <2>3, <2>5, SoFarReads
    <2>7. QED
      BY <1>5, <2>6 DEF StrAt
  <1>6. CASE pc = "string" /\ ~StringGoesOn(frame) /\ Quiet /\ EatThen(1, "string_end", frame)
    <2>1. /\ pc' = "eat" /\ frame'.after = "string_end" /\ frame'.left = 1
          /\ frame'.content = frame.content /\ frame'.start = frame.start
          /\ frame'.escape = frame.escape
      BY <1>2, <1>6, EatSets
    <2>2. reader' = reader /\ delivered' = delivered
      BY <1>6, QuietDoes
    <2>3. SoFar(frame', delivered')
      BY <1>4, <1>6, <2>1, <2>2, SoFarSame
    <2>4. ASSUME StringRoom(frame.content)
          PROVE  reader.stateEOF \/ (~frame.escape /\ Shows(reader, 0, QUOTE))
      <3>1. ~HasNext \/ (~frame.escape /\ frame.next = QUOTE)
        BY <1>6, <2>4 DEF StringGoesOn
      <3>2. Shown(reader, frame.next) /\ QUOTE # None
        BY <1>4, <1>6 DEF QUOTE, None
      <3>3. QED
        BY <3>1, <3>2 DEF Shown, HasNext
    <2>5. QED
      BY <2>1, <2>2, <2>3, <2>4 DEF StrAt
  <1>7. QED
    BY <1>3, <1>5, <1>6 DEF String, Continue

\* The delimiters are consumed.
LEMMA StrEaten ==
  ASSUME Base, Base', Calm', Eat, ScanStep, StrAt(pc, frame, delivered, reader)
  PROVE  StrAt(pc', frame', delivered', reader')
  <1>1. /\ IInv /\ IsOpen(reader) /\ Typed2 /\ delivered \in Seq(Byte) /\ delivered' \in Seq(Byte)
        /\ frame' \in FrameSet
    BY Onward DEF Base, ScanInv, ScanTypes, Suits
  <1>2. frame \in FrameSet /\ frame.content \in Seq(Byte) /\ frame.start \in Nat
    BY <1>1, Facts
  <1>3. /\ Read /\ pc = "eat"
        /\ frame'.left = frame.left - 1 /\ frame'.after = frame.after
        /\ frame'.start = frame.start /\ frame'.content = frame.content
        /\ frame'.escape = frame.escape
        /\ pc' = IF frame.left = 1 THEN frame.after ELSE "eat"
    BY <1>2, EatKeeps
  <1>4. frame.left \in 1..2 /\ frame.after \in Afters
    BY <1>1, <1>3 DEF Typed2, ScanTypes, Suits
  <1>5. CASE frame.after = "string_peek"
    <2>1. frame.content = <<>> /\ ~frame.escape /\ Pending(<<QUOTE>>, delivered, frame.start, frame.left, reader)
      BY <1>3, <1>5 DEF StrAt
    <2>2. <<QUOTE>> \in Seq(Byte) /\ Len(<<QUOTE>>) = 1 /\ <<QUOTE>>[1] = QUOTE
      BY DEF QUOTE, Byte
    <2>3. frame.left = 1
      <3>1. frame.left \in 0 .. 1
        BY <2>1, <2>2 DEF Pending
      <3>2. QED
        BY <1>4, <3>1
    <2>4. Pending(<<QUOTE>>, delivered', frame.start, 0, reader')
      <3>1. frame.left \in Nat \ {0} /\ frame.left - 1 = 0
        BY <2>3
      <3>2. Pending(<<QUOTE>>, delivered', frame.start, frame.left - 1, reader')
        BY <1>1, <1>2, <1>3, <2>1, <2>2, <3>1, PendingEaten
      <3>3. QED
        BY <3>1, <3>2
    <2>5. Slice(<<QUOTE>>, delivered', frame.start) /\ frame.start + 1 = Len(delivered')
      BY <1>1, <1>2, <2>2, <2>4, PendingDone
    <2>6. delivered'[frame.start + 1] = QUOTE
      BY <2>2, <2>5 DEF Slice
    <2>7. SoFar(frame', delivered')
      BY <1>1, <1>3, <2>1, <2>5, <2>6, SoFarBegins
    <2>8. pc' = "string_peek"
      BY <1>3, <1>5, <2>3
    <2>9. QED
      BY <2>7, <2>8 DEF StrAt
  <1>6. CASE frame.after = "string_end" /\ StringRoom(frame.content)
    <2>1. /\ frame.left = 1 /\ SoFar(frame, delivered)
          /\ reader.stateEOF \/ (~frame.escape /\ Shows(reader, 0, QUOTE))
      BY <1>3, <1>6 DEF StrAt
    <2>2. pc' = "string_end"
      BY <1>3, <1>6, <2>1
    <2>3. Quoted(frame.start, Len(delivered'), frame.content, delivered')
      <3>1. CASE ~frame.escape /\ Shows(reader, 0, QUOTE)
        <4>1. delivered' = Append(delivered, QUOTE)
          BY <1>1, <1>3, <3>1, ReadDoes
        <4>2. QED
          BY <1>1, <1>2, <2>1, <3>1, <4>1, SoFarCloses
      <3>2. CASE reader.stateEOF
        <4>1. Answer = None /\ Answer \notin Byte
          BY <1>1, <1>3, <3>2, ReadDoes DEF Sticks, Byte, None
        <4>2. delivered' = delivered
          BY <1>1, <1>3, <4>1, ReadDoes
        <4>3. QED
          BY <1>1, <1>2, <2>1, <4>2, SoFarCut
      <3>3. QED
        BY <2>1, <3>1, <3>2
    <2>4. QED
      BY <1>3, <2>2, <2>3 DEF StrAt
  <1>7. CASE frame.after # "string_peek" /\ ~(frame.after = "string_end" /\ StringRoom(frame.content))
    <2>1. pc' \notin {"string_peek", "string"} /\ (pc' = "string_end" => ~StringRoom(frame'.content))
      BY <1>3, <1>4, <1>7 DEF Afters
    <2>2. pc' = "eat" => frame'.after # "string_peek" /\ ~(frame'.after = "string_end" /\ StringRoom(frame'.content))
      BY <1>3, <1>7
    <2>3. QED
      BY <2>1, <2>2 DEF StrAt
  <1>8. QED
    BY <1>5, <1>6, <1>7

\* At every step.
LEMMA StrStep ==
  ASSUME Base, Base', ScanStep, Calm', StrAt(pc, frame, delivered, reader)
  PROVE  StrAt(pc', frame', delivered', reader')
  <1>1. Typed2 /\ ScanTypes /\ frame \in FrameSet /\ TypeOK
    BY Onward, Facts DEF Typed2
  <1>2. CASE Eat
    BY <1>2, StrEaten
  <1>3. CASE StringPeek \/ String
    BY <1>3, StrTakes
  <1>4. CASE Dispatch
    BY <1>4, StrBegins
  <1>5. CASE pc' \notin {"string_peek", "string", "string_end", "eat"}
    BY <1>5 DEF StrAt
  <1>6. CASE pc' \in {"string_peek", "string", "string_end"} /\ ~Eat /\ ~(StringPeek \/ String)
    BY <1>1, <1>6, SkipGoes, WordGoes, NumberGoes DEF ScanStep
  <1>7. CASE pc' = "eat" /\ ~Eat /\ ~(StringPeek \/ String) /\ ~Dispatch
    <2>1. \E n : \E f \in FrameSet : \E label \in {"skip", "line_comment", "block_comment", "operator", "char_end"} :
            EatThen(n, label, f)
      <3>1. CASE Skip \/ SkipSlash \/ LineComment \/ BlockComment \/ BlockSecond \/ CharPeek \/ Third
        BY <1>1, <1>7, <3>1
        DEF Skip, SkipSlash, LineComment, BlockComment, BlockSecond, CharPeek, SkipDone, Third,
            CommentEnds, Goto, Continue, EmitHere, Emit
      <3>2. CASE Second
        <4>1. ASSUME <<frame.next, Answer>> \in Pairs
              PROVE  [frame EXCEPT !.content = <<frame.next, Answer>>] \in FrameSet
          <5>1. <<frame.next, Answer>> \in Seq(Byte)
            <6>1. frame.next \in Byte /\ Answer \in Byte
              BY <4>1, OpBytes
            <6>2. QED
              BY <6>1
          <5>2. QED
            BY <1>1, <5>1 DEF FrameSet
        <4>2. QED
          BY <1>1, <1>7, <3>2, <4>1 DEF Second, Goto, Continue, EmitHere, Emit
      <3>3. QED
        BY <1>1, <1>7, <3>1, <3>2, EatFrom
    <2>2. frame'.after \notin {"string_peek", "string_end"}
      BY <2>1, EatSets
    <2>3. QED
      BY <1>7, <2>2 DEF StrAt
  <1>8. QED
    BY <1>2, <1>3, <1>4, <1>5, <1>6, <1>7

(***************************************************************************)
(* Characters                                                              *)
(***************************************************************************)

\* The locals of scanner_consume_char at each place, while no read has failed.  A file that
\* ends behind the opening quote leaves the character that (char)-1 is, and no closing one.
CharAt(label, f, d, r) ==
  /\ label = "eat" /\ f.after = "char" => Pending(<<APOSTROPHE>>, d, f.start, f.left, r)
  /\ label = "char" => Slice(<<APOSTROPHE>>, d, f.start) /\ f.start + 1 = Len(d)
  /\ label = "char_peek" =>
       \/ r.stateEOF
       \/ /\ Len(f.content) = 1
          /\ Slice(<<APOSTROPHE, f.content[1]>>, d, f.start) /\ f.start + 2 = Len(d)
  /\ label = "eat" /\ f.after = "char_end" =>
       /\ Len(f.content) = 1
       /\ Pending(<<APOSTROPHE, f.content[1], APOSTROPHE>>, d, f.start, f.left, r)
  /\ label = "char_end" =>
       /\ Len(f.content) = 1
       /\ Slice(<<APOSTROPHE, f.content[1], APOSTROPHE>>, d, f.start) /\ f.start + 3 = Len(d)

\* Two bytes, one behind the other.
LEMMA PairIs ==
  ASSUME NEW b \in Byte, NEW c \in Byte
  PROVE  Append(<<b>>, c) = <<b, c>> /\ Len(<<b, c>>) = 2
  <1> DEFINE s == <<b>>
             t == <<b, c>>
             u == Append(s, c)
  <1>1. s \in Seq(Byte) /\ Len(s) = 1 /\ s[1] = b
    OBVIOUS
  <1>2. t \in Seq(Byte) /\ Len(t) = 2 /\ t[1] = b /\ t[2] = c
    OBVIOUS
  <1> HIDE DEF s, t
  <1>3. u \in Seq(Byte) /\ Len(u) = 2 /\ u[1] = b /\ u[2] = c
    <2>1. u \in Seq(Byte) /\ Len(u) = Len(s) + 1 /\ u[Len(s) + 1] = c
      BY <1>1
    <2>2. \A i \in 1 .. Len(s) : u[i] = s[i]
      BY <1>1
    <2> HIDE DEF u
    <2>3. QED
      BY <1>1, <2>1, <2>2
  <1> HIDE DEF u
  <1>4. \A i \in 1 .. Len(u) : u[i] = t[i]
    <2>1. \A i \in 1 .. 2 : i = 1 \/ i = 2
      OBVIOUS
    <2>2. QED
      BY <1>2, <1>3, <2>1
  <1>5. u = t
    BY <1>2, <1>3, <1>4, SeqEqual
  <1>6. QED
    BY <1>2, <1>5 DEF s, t, u

\* The opening quote and the character have been taken, the closing quote is at the cursor.
LEMMA PendingThird ==
  ASSUME NEW d \in Seq(Byte), NEW b \in Byte, NEW c \in Byte, NEW e \in Byte, NEW k \in Nat, NEW r,
         Slice(<<b, c>>, d, k), k + 2 = Len(d), Shows(r, 0, e)
  PROVE  Pending(<<b, c, e>>, d, k, 1, r)
  <1>1. /\ Len(<<b, c, e>>) = 3 /\ <<b, c, e>>[1] = b /\ <<b, c, e>>[2] = c /\ <<b, c, e>>[3] = e
        /\ Len(<<b, c>>) = 2 /\ <<b, c>>[1] = b /\ <<b, c>>[2] = c /\ Len(d) \in Nat
    OBVIOUS
  <1>2. b = d[k + 1] /\ c = d[k + 2]
    BY <1>1 DEF Slice
  <1>3. Len(d) + 1 = k + 3 /\ 1 \in 0 .. 3
    BY <1>1
  <1>4. ASSUME NEW i \in 1 .. 3 - 1 PROVE <<b, c, e>>[i] = d[k + i]
    <2>1. i = 1 \/ i = 2
      OBVIOUS
    <2>2. QED
      BY <1>1, <1>2, <2>1
  <1>5. ASSUME NEW i \in 0 .. 1 - 1 PROVE Shows(r, i, <<b, c, e>>[(3 - 1) + (i + 1)])
    <2>1. i = 0 /\ (3 - 1) + (i + 1) = 3
      OBVIOUS
    <2>2. QED
      BY <1>1, <2>1
  <1>6. QED
    BY <1>1, <1>3, <1>4, <1>5 DEF Pending

\* scanner_read_next has seen the opening quote.
LEMMA CharBegins ==
  ASSUME Base, Base', Calm', Dispatch, ScanStep
  PROVE  CharAt(pc', frame', delivered', reader')
  <1>1. /\ IInv /\ IsOpen(reader) /\ Typed2 /\ delivered \in Seq(Byte) /\ TypeOK
    BY Onward DEF Typed2
  <1>2. Answer \in Byte \cup {None}
    BY <1>1, Facts
  <1>3. Frame(Answer) \in FrameSet
    BY <1>1, <1>2, FrameFresh
  <1>4. CASE pc' # "eat"
    BY <1>4, WordGoes DEF CharAt
  <1>5. CASE Peek /\ Answer = APOSTROPHE /\ EatThen(1, "char", Frame(Answer))
    <2>1. /\ pc' = "eat" /\ frame'.after = "char" /\ frame'.left = 1
          /\ frame'.start = Len(delivered)
      BY <1>1, <1>2, <1>3, <1>5, EatSets, FrameFresh
    <2>2. APOSTROPHE \in Byte /\ APOSTROPHE # None
      BY DEF APOSTROPHE, Byte, None
    <2>3. Shows(reader', 0, APOSTROPHE) /\ delivered' = delivered
      BY <1>1, <1>5, <2>2, PeekDoes
    <2>4. Pending(<<APOSTROPHE>>, delivered', frame'.start, frame'.left, reader')
      BY <1>1, <2>1, <2>2, <2>3, PendingOne
    <2>5. QED
      BY <2>1, <2>4 DEF CharAt
  <1>6. CASE \E f \in FrameSet : EatThen(1, "string_peek", f) \/ EatThen(1, "operator", f)
    <2>1. pc' = "eat" /\ frame'.after \in {"string_peek", "operator"}
      BY <1>6, EatSets
    <2>2. QED
      BY <2>1 DEF CharAt
  <1>7. ASSUME Answer \in Single PROVE [Frame(Answer) EXCEPT !.content = <<Answer>>] \in FrameSet
    <2>1. Answer \in Byte
      BY <1>7, OpBytes
    <2>2. QED
      BY <1>1, <2>1, FrameStored
  <1>8. QED
    <2>1. CASE ~(Peek /\ Answer = APOSTROPHE /\ EatThen(1, "char", Frame(Answer)))
               /\ ~(\E f \in FrameSet : EatThen(1, "string_peek", f) \/ EatThen(1, "operator", f))
      <3>1. ~EatThen(1, "string_peek", Frame(Answer))
        BY <1>3, <2>1
      <3>2. Answer \in Single => ~EatThen(1, "operator", [Frame(Answer) EXCEPT !.content = <<Answer>>])
        BY <1>7, <2>1
      <3>3. pc' # "eat"
        BY <2>1, <3>1, <3>2 DEF Dispatch, EmitHere, Emit, Continue
      <3>4. QED
        BY <1>4, <3>3
    <2>2. QED
      BY <1>5, <1>6, <2>1

\* The character and the look at what follows it.
LEMMA CharTakes ==
  ASSUME Base, Base', Calm', CharFirst \/ CharPeek, ScanStep, CharAt(pc, frame, delivered, reader)
  PROVE  CharAt(pc', frame', delivered', reader')
  <1>1. /\ IInv /\ IsOpen(reader) /\ Typed2 /\ delivered \in Seq(Byte) /\ ~reader'.stateError
    BY Onward DEF Calm
  <1>2. /\ frame \in FrameSet /\ frame.content \in Seq(Byte) /\ frame.start \in Nat
        /\ APOSTROPHE \in Byte /\ APOSTROPHE # None
    BY <1>1, Facts DEF APOSTROPHE, Byte, None
  <1>3. CASE CharFirst
    <2>1. /\ Read /\ pc = "char" /\ pc' = "char_peek"
          /\ frame' = [frame EXCEPT !.content = <<Char(Answer)>>]
      BY <1>3 DEF CharFirst, Continue
    <2>2. frame'.start = frame.start /\ frame'.content = <<Char(Answer)>>
      BY <1>2, <2>1 DEF FrameSet
    <2>3. CASE Answer \in Byte /\ delivered' = Append(delivered, Answer)
      <3>1. Char(Answer) = Answer
        BY <2>3, CharIs
      <3>2. Slice(<<APOSTROPHE>>, delivered, frame.start) /\ frame.start + 1 = Len(delivered)
        BY <2>1 DEF CharAt
      <3>3. /\ Slice(Append(<<APOSTROPHE>>, Answer), delivered', frame.start)
            /\ frame.start + Len(Append(<<APOSTROPHE>>, Answer)) = Len(delivered')
        <4>1. <<APOSTROPHE>> \in Seq(Byte) /\ Len(<<APOSTROPHE>>) = 1
          BY <1>2
        <4>2. QED
          BY <1>1, <1>2, <2>3, <3>2, <4>1, SliceAppend
      <3>4. Append(<<APOSTROPHE>>, Answer) = <<APOSTROPHE, Answer>> /\ Len(<<APOSTROPHE, Answer>>) = 2
        BY <1>2, <2>3, PairIs
      <3>5. Len(<<Answer>>) = 1 /\ <<Answer>>[1] = Answer
        OBVIOUS
      <3>6. QED
        BY <2>1, <2>2, <3>1, <3>3, <3>4, <3>5 DEF CharAt
    <2>4. CASE reader'.stateEOF
      BY <2>1, <2>4 DEF CharAt
    <2>5. QED
      BY <1>1, <2>1, <2>3, <2>4, ReadDoes
  <1>4. CASE CharPeek
    <2>1. CASE ~(pc' = "eat")
      <3>1. pc' = "idle"
        BY <1>4, <2>1, NumberGoes
      <3>2. QED
        BY <3>1 DEF CharAt
    <2>2. CASE pc' = "eat"
      <3>1. pc = "char_peek" /\ Peek /\ Answer = APOSTROPHE /\ EatThen(1, "char_end", frame)
        BY <1>4, <2>2 DEF CharPeek, EmitHere, Emit
      <3>2. /\ frame'.after = "char_end" /\ frame'.left = 1
            /\ frame'.content = frame.content /\ frame'.start = frame.start
        BY <1>2, <3>1, EatSets
      <3>3. delivered' = delivered /\ Shows(reader', 0, APOSTROPHE) /\ ~reader.stateEOF
        BY <1>1, <1>2, <3>1, PeekDoes DEF Sticks
      <3>4. /\ Len(frame.content) = 1
            /\ Slice(<<APOSTROPHE, frame.content[1]>>, delivered, frame.start)
            /\ frame.start + 2 = Len(delivered)
        BY <3>1, <3>3 DEF CharAt
      <3>5. frame.content[1] \in Byte
        BY <1>2, <3>4
      <3>6. Pending(<<APOSTROPHE, frame.content[1], APOSTROPHE>>, delivered', frame.start, 1, reader')
        BY <1>1, <1>2, <3>3, <3>4, <3>5, PendingThird
      <3>7. QED
        BY <2>2, <3>2, <3>4, <3>6 DEF CharAt
    <2>3. QED
      BY <2>1, <2>2
  <1>5. QED
    BY <1>3, <1>4

\* The quotes are consumed.
LEMMA CharEaten ==
  ASSUME Base, Base', Calm', Eat, ScanStep, CharAt(pc, frame, delivered, reader)
  PROVE  CharAt(pc', frame', delivered', reader')
  <1>1. /\ IInv /\ IsOpen(reader) /\ Typed2 /\ delivered \in Seq(Byte) /\ delivered' \in Seq(Byte)
    BY Onward
  <1>2. frame \in FrameSet /\ frame.content \in Seq(Byte) /\ frame.start \in Nat
    BY <1>1, Facts
  <1>3. /\ Read /\ pc = "eat"
        /\ frame'.left = frame.left - 1 /\ frame'.after = frame.after
        /\ frame'.start = frame.start /\ frame'.content = frame.content
        /\ pc' = IF frame.left = 1 THEN frame.after ELSE "eat"
    BY <1>2, EatKeeps
  <1>4. frame.left \in 1..2 /\ frame.after \in Afters /\ frame.left \in Nat \ {0}
    BY <1>1, <1>3 DEF Typed2, ScanTypes, Suits
  <1>5. ASSUME NEW s \in Seq(Byte), Pending(s, delivered, frame.start, frame.left, reader)
        PROVE  /\ Pending(s, delivered', frame'.start, frame'.left, reader')
               /\ frame.left = 1 => Slice(s, delivered', frame'.start)
                                    /\ frame'.start + Len(s) = Len(delivered')
    <2>1. Pending(s, delivered', frame.start, frame.left - 1, reader')
      BY <1>1, <1>2, <1>3, <1>4, <1>5, PendingEaten
    <2>2. ASSUME frame.left = 1
          PROVE  Slice(s, delivered', frame.start) /\ frame.start + Len(s) = Len(delivered')
      <3>1. Pending(s, delivered', frame.start, 0, reader')
        BY <2>1, <2>2
      <3>2. QED
        BY <1>1, <1>2, <3>1, PendingDone
    <2>3. QED
      BY <1>3, <2>1, <2>2
  <1>6. CASE frame.after = "char"
    <2>1. Pending(<<APOSTROPHE>>, delivered, frame.start, frame.left, reader)
      BY <1>3, <1>6 DEF CharAt
    <2>2. <<APOSTROPHE>> \in Seq(Byte) /\ Len(<<APOSTROPHE>>) = 1
      BY DEF APOSTROPHE, Byte
    <2>3. /\ Pending(<<APOSTROPHE>>, delivered', frame'.start, frame'.left, reader')
          /\ frame.left = 1 => Slice(<<APOSTROPHE>>, delivered', frame'.start)
                               /\ frame'.start + 1 = Len(delivered')
      BY <1>5, <2>1, <2>2
    <2>4. QED
      BY <1>3, <1>6, <2>3 DEF CharAt
  <1>7. CASE frame.after = "char_end"
    <2> DEFINE s == <<APOSTROPHE, frame.content[1], APOSTROPHE>>
    <2>1. Len(frame.content) = 1 /\ Pending(s, delivered, frame.start, frame.left, reader)
      BY <1>3, <1>7 DEF CharAt
    <2>2. s \in Seq(Byte) /\ Len(s) = 3
      <3>1. frame.content[1] \in Byte
        BY <1>2, <2>1
      <3>2. APOSTROPHE \in Byte
        BY DEF APOSTROPHE, Byte
      <3>3. QED
        BY <3>1, <3>2
    <2>3. /\ Pending(s, delivered', frame'.start, frame'.left, reader')
          /\ frame.left = 1 => Slice(s, delivered', frame'.start)
                               /\ frame'.start + 3 = Len(delivered')
      <3> HIDE DEF s
      <3>1. QED
        BY <1>5, <2>1, <2>2
    <2>4. QED
      BY <1>3, <1>7, <2>1, <2>3 DEF CharAt
  <1>8. CASE frame.after \notin {"char", "char_end"}
    <2>1. pc' \notin {"char", "char_peek", "char_end"} /\ frame'.after \notin {"char", "char_end"}
      BY <1>3, <1>4, <1>8 DEF Afters
    <2>2. QED
      BY <2>1 DEF CharAt
  <1>9. QED
    BY <1>6, <1>7, <1>8

\* Who consumes something that is neither the quote of a character nor of a string.
LEMMA EatOthers ==
  ASSUME Typed2, ScanStep, pc' = "eat", ~Eat, ~Dispatch, ~String, ~CharPeek
  PROVE  frame'.after \in {"skip", "line_comment", "block_comment", "operator"}
  <1>1. Typed2 /\ ScanTypes /\ frame \in FrameSet
    BY Facts DEF Typed2
  <1>2. \E n : \E f \in FrameSet : \E label \in {"skip", "line_comment", "block_comment", "operator"} :
          EatThen(n, label, f)
    <2>1. CASE Skip \/ SkipSlash \/ LineComment \/ BlockComment \/ BlockSecond \/ Third
      BY <1>1, <2>1
      DEF Skip, SkipSlash, LineComment, BlockComment, BlockSecond, SkipDone, Third,
          CommentEnds, Goto, Continue
    <2>2. CASE Second
      <3>1. ASSUME <<frame.next, Answer>> \in Pairs
            PROVE  [frame EXCEPT !.content = <<frame.next, Answer>>] \in FrameSet
        <4>1. <<frame.next, Answer>> \in Seq(Byte)
          <5>1. frame.next \in Byte /\ Answer \in Byte
            BY <3>1, OpBytes
          <5>2. QED
            BY <5>1
        <4>2. QED
          BY <1>1, <4>1 DEF FrameSet
      <3>2. QED
        BY <1>1, <2>2, <3>1 DEF Second, Goto, Continue, EmitHere, Emit
    <2>3. QED
      BY <1>1, <2>1, <2>2, EatFrom
  <1>3. QED
    BY <1>2, EatSets

\* At every step.
LEMMA CharStep ==
  ASSUME Base, Base', ScanStep, Calm', CharAt(pc, frame, delivered, reader)
  PROVE  CharAt(pc', frame', delivered', reader')
  <1>1. Typed2 /\ ScanTypes /\ frame \in FrameSet /\ TypeOK
    BY Onward, Facts DEF Typed2
  <1>2. CASE Eat
    BY <1>2, CharEaten
  <1>3. CASE CharFirst \/ CharPeek
    BY <1>3, CharTakes
  <1>4. CASE Dispatch
    BY <1>4, CharBegins
  <1>5. CASE pc' \notin {"char", "char_peek", "char_end", "eat"}
    BY <1>5 DEF CharAt
  <1>6. CASE pc' \in {"char", "char_peek", "char_end"} /\ ~Eat /\ ~(CharFirst \/ CharPeek)
    BY <1>1, <1>6, SkipGoes, WordGoes, NumberGoes DEF ScanStep
  <1>7. CASE pc' = "eat" /\ ~Eat /\ ~(CharFirst \/ CharPeek) /\ ~Dispatch
    <2>1. frame'.after \notin {"char", "char_end"}
      <3>1. CASE String
        <4>1. EatThen(1, "string_end", frame)
          BY <1>7, <3>1 DEF String, Continue
        <4>2. frame'.after = "string_end"
          BY <1>1, <4>1, EatSets
        <4>3. QED
          BY <4>2
      <3>2. CASE ~String
        BY <1>1, <1>7, <3>2, EatOthers
      <3>3. QED
        BY <3>1, <3>2
    <2>2. QED
      BY <1>7, <2>1 DEF CharAt
  <1>8. QED
    BY <1>2, <1>3, <1>4, <1>5, <1>6, <1>7

(***************************************************************************)
(* Numbers: their characters                                               *)
(***************************************************************************)

\* The locals of scanner_consume_number at each place, while no read has failed: nothing is
\* taken while it looks ahead, then the text so far is what was taken.
NumAt(label, f, d) ==
  /\ label \in {"number", "number_unsigned"} => f.start = Len(d) /\ f.content = <<>>
  /\ label \in {"number_copy", "number_end"} =>
       Slice(f.content, d, f.start) /\ f.start + Len(f.content) = Len(d)

\* The lookahead for the type.
LEMMA NumLooks ==
  ASSUME Base, Base', ScanStep, Calm', NumberSeek \/ NumberUnsigned, NumAt(pc, frame, delivered)
  PROVE  NumAt(pc', frame', delivered')
  <1>1. /\ IInv /\ IsOpen(reader) /\ Typed2 /\ delivered \in Seq(Byte) /\ Len(delivered) \in Nat
        /\ ScanTypes /\ frame \in FrameSet
    BY Onward, Facts DEF Base, ScanInv
  <1>2. pc \in {"number", "number_unsigned"} /\ PeekN(frame.seeked)
    BY DEF NumberSeek, NumberUnsigned
  <1>3. frame.start = Len(delivered) /\ frame.content = <<>>
    BY <1>2 DEF NumAt
  <1>4. delivered' = delivered
    BY <1>2 DEF PeekN
  <1>5. CASE pc' = "idle"
    BY <1>5 DEF NumAt
  <1>6. CASE pc' # "idle"
    <2>1. frame'.start = frame.start /\ frame'.content = frame.content
      BY <1>1, <1>6 DEF NumberSeek, NumberUnsigned, Typed, Seeked, Continue, NumberError, Emit, FrameSet
    <2>2. Slice(<<>>, delivered, frame.start) /\ frame.start + Len(<<>>) = Len(delivered)
      <3>1. Len(<<>>) = 0
        OBVIOUS
      <3>2. QED
        BY <1>1, <1>3, <3>1 DEF Slice
    <2>3. QED
      BY <1>3, <1>4, <2>1, <2>2 DEF NumAt
  <1>7. QED
    BY <1>5, <1>6

\* The loop that takes the characters.
LEMMA NumTakes ==
  ASSUME Base, Base', ScanStep, Calm', NumberCopy, NumAt(pc, frame, delivered)
  PROVE  NumAt(pc', frame', delivered')
  <1>1. /\ IInv /\ IsOpen(reader) /\ Typed2 /\ delivered \in Seq(Byte) /\ Len(delivered) \in Nat
        /\ frame \in FrameSet /\ frame.content \in Seq(Byte) /\ frame.start \in Nat
    BY Onward, Facts
  <1>2. pc = "number_copy"
    BY DEF NumberCopy
  <1>3. Slice(frame.content, delivered, frame.start) /\ frame.start + Len(frame.content) = Len(delivered)
    BY <1>2 DEF NumAt
  <1>4. CASE Read /\ Answer # None /\ Continue("number_copy", [frame EXCEPT !.content = Append(@, Answer)])
    <2>1. Answer \in Byte /\ delivered' = Append(delivered, Answer)
      BY <1>1, <1>4, ReadDoes
    <2>2. /\ pc' = "number_copy" /\ frame'.start = frame.start
          /\ frame'.content = Append(frame.content, Answer)
      BY <1>1, <1>4 DEF Continue, FrameSet
    <2>3. /\ Slice(Append(frame.content, Answer), delivered', frame.start)
          /\ frame.start + Len(Append(frame.content, Answer)) = Len(delivered')
      BY <1>1, <1>3, <2>1, SliceAppend
    <2>4. QED
      BY <2>2, <2>3 DEF NumAt
  <1>5. CASE Goto("number_end") /\ (Quiet \/ (Read /\ Answer = None))
    <2>1. delivered' = delivered
      <3>1. None \notin Byte
        BY DEF None, Byte
      <3>2. QED
        BY <1>1, <1>5, <3>1, ReadDoes, QuietDoes
    <2>2. frame' = frame /\ pc' = "number_end"
      BY <1>5 DEF Goto
    <2>3. QED
      BY <1>3, <2>1, <2>2 DEF NumAt
  <1>6. QED
    BY <1>4, <1>5 DEF NumberCopy

\* At every step.
LEMMA NumStep ==
  ASSUME Base, Base', ScanStep, Calm', NumAt(pc, frame, delivered), OpAt(pc, frame, delivered, reader)
  PROVE  NumAt(pc', frame', delivered')
  <1>1. Typed2 /\ ScanTypes /\ frame \in FrameSet /\ TypeOK /\ delivered \in Seq(Byte)
    BY Onward, Facts DEF Typed2
  <1>2. CASE NumberSeek \/ NumberUnsigned
    BY <1>2, NumLooks
  <1>3. CASE NumberCopy
    BY <1>3, NumTakes
  <1>4. CASE Dispatch
    <2>1. pc' # "number" => pc' \notin {"number", "number_unsigned", "number_copy", "number_end"}
      BY <1>4, WordGoes
    <2>2. ASSUME pc' = "number" PROVE frame'.start = Len(delivered) /\ frame'.content = <<>>
                                      /\ delivered' = delivered
      <3>1. Peek /\ \E c : c = Answer /\ Continue("number", Frame(c))
        BY <1>4, <2>2 DEF Dispatch, EmitHere, Emit, EatThen, Continue
      <3>2. Answer \in Byte \cup {None} /\ frame' = Frame(Answer) /\ delivered' = delivered
        BY <1>1, <3>1, Facts DEF Continue, Peek
      <3>3. QED
        BY <1>1, <3>2, FrameFresh
    <2>3. QED
      BY <2>1, <2>2 DEF NumAt
  <1>5. CASE Third
    <2>1. pc' # "number" => pc' \notin {"number", "number_unsigned", "number_copy", "number_end"}
      BY <1>5, WordGoes
    <2>2. ASSUME pc' = "number" PROVE frame'.start = Len(delivered) /\ frame'.content = <<>>
                                      /\ delivered' = delivered
      <3>1. pc = "third" /\ PeekN(1) /\ frame' = [frame EXCEPT !.content = <<>>]
        BY <1>5, <2>2 DEF Third, EatThen, Continue
      <3>2. frame.start = Len(delivered)
        BY <3>1 DEF OpAt
      <3>3. QED
        BY <1>1, <3>1, <3>2 DEF FrameSet, PeekN
    <2>3. QED
      BY <2>1, <2>2 DEF NumAt
  <1>6. CASE pc' \notin {"number", "number_unsigned", "number_copy", "number_end"}
    BY <1>6 DEF NumAt
  <1>7. CASE /\ pc' \in {"number", "number_unsigned", "number_copy", "number_end"}
             /\ ~(NumberSeek \/ NumberUnsigned) /\ ~NumberCopy /\ ~Dispatch /\ ~Third
    BY <1>1, <1>7, SkipGoes, WordGoes, NumberGoes DEF ScanStep, Afters
  <1>8. QED
    BY <1>2, <1>3, <1>4, <1>5, <1>6, <1>7

(***************************************************************************)
(* Numbers: their type                                                     *)
(***************************************************************************)

\* What a lookahead shows, over a reader that shows the text.
LEMMA LookSeen ==
  ASSUME Base, Base', ScanStep, Sure', NEW n \in 0..SIZE, PeekN(n)
  PROVE  /\ delivered' = delivered
         /\ Answer # None /\ Len(delivered) + n < Len(Text) => Answer = Text[Len(delivered) + n + 1]
         /\ Answer # None /\ Len(delivered) + n = Len(Text) => Answer = NUL
         /\ Answer = None /\ n < SIZE => Len(delivered) + n >= Len(Text)
  <1>1. /\ IInv /\ IsOpen(reader) /\ View(reader', delivered', Text) /\ n \in Nat
    BY SizeAssumption, Onward DEF Sure
  <1>2. /\ delivered' = delivered
        /\ Answer # None => Shows(reader', n, Answer)
    BY <1>1, PeekNDoes
  <1>3. Answer = None /\ n < SIZE => Len(delivered) + n >= Len(Text)
    BY <1>1, LookedPast
  <1>4. QED
    BY <1>1, <1>2, <1>3 DEF View

\* The characters a number has in front of its suffix.
NumberChar(c) == IsDigit(c) \/ c \in {DOT, MINUS}

\* A character that ends a number whose type is not spelled out.
Ender(c) == ~IsDigit(c) /\ c \notin {DOT, 117, 100} \cup DOMAIN Suffix

\* The sign that was seen is the only one, and has a digit behind it.
Signed(f, text) ==
  LET n == f.seeked
  IN  /\ f.negative <=> n >= 1 /\ text[f.start + 1] = MINUS
      /\ text[f.start + 1] = MINUS => f.start + 2 <= Len(text) /\ IsDigit(text[f.start + 2])
      /\ \A i \in 2 .. n : text[f.start + i] # MINUS

\* The q characters behind the first k are those of an integer: a minus or none, digits, and
\* a suffix without any; an unsigned type has no minus.
IntegerForm(text, k, q, type) ==
  \E b \in 1 .. q :
    LET a == IF text[k + 1] = MINUS THEN 2 ELSE 1
    IN  /\ a <= b
        /\ \A i \in a .. b : IsDigit(text[k + i])
        /\ \A i \in b + 1 .. q : ~IsDigit(text[k + i])
        /\ type \in UnsignedTypes => text[k + 1] # MINUS

\* In the loop over the characters that are looked at: the first n are in the text and are
\* a number's.
Looks(f, text) ==
  LET n == f.seeked
  IN  /\ f.start + n <= Len(text)
      /\ n = 0 => NumberChar(text[f.start + 1]) /\ text[f.start + 1] # DOT
      /\ \A i \in 1 .. n : NumberChar(text[f.start + i])
      /\ f.floating <=> \E i \in 1 .. n : text[f.start + i] = DOT
      /\ Signed(f, text)

\* Behind the marker u.
Marked(f, text) ==
  LET n == f.seeked
  IN  /\ n >= 2 /\ f.start + n <= Len(text) /\ text[f.start + n] = 117
      /\ \A i \in 1 .. n - 1 : IsDigit(text[f.start + i])

\* While the characters are copied: a number that the lookahead saw the end of has the type
\* that its spelling calls for, and ends where it does.
Decided(f, text) ==
  LET q == f.seeked
  IN  /\ Len(f.content) <= q
      /\ \A i \in 1 .. q - 1 : f.start + i <= Len(text) =>
           text[f.start + i] \notin DOMAIN Suffix \cup {100}
      /\ f.start + q <= Len(text) /\ q <= SIZE =>
           /\ f.type = ShapeType(SubSeq(text, f.start + 1, f.start + q))
           /\ f.type \in {"INT32", "FLOAT"} /\ f.start + q < Len(text) => Ender(text[f.start + q + 1])
           /\ f.type \in IntegerTypes => IntegerForm(text, f.start, q, f.type)

NumLabels == {"number", "number_unsigned", "number_copy", "number_end"}

\* The locals of scanner_consume_number over a reader that shows the text.
NumSure(label, f, d, text) ==
  /\ label \in {"second", "third"} => f.seeked = 0 /\ ~f.floating /\ ~f.negative
  /\ label \in NumLabels => f.start # Len(text)
  /\ f.start < Len(text) =>
       /\ label = "number" => Looks(f, text)
       /\ label = "number_unsigned" => Marked(f, text)
       /\ label \in {"number_copy", "number_end"} => Decided(f, text)
       /\ label = "number_end" /\ Len(f.content) < f.seeked => Len(d) >= Len(text)

\* The spelling of a number as a slice of the text.
LEMMA SpellingIs ==
  ASSUME NEW text \in Seq(Byte), NEW k \in Nat, NEW q \in Nat, q >= 1, k + q <= Len(text)
  PROVE  LET s == SubSeq(text, k + 1, k + q)
         IN  /\ s \in Seq(Byte) /\ Len(s) = q /\ DOMAIN s = 1 .. q
             /\ \A i \in 1 .. q : s[i] = text[k + i]
  <1>1. Len(text) \in Nat
    OBVIOUS
  <1> DEFINE m == k + 1
             n == k + q
             s == SubSeq(text, m, n)
  <1>2. \A i \in m .. n : text[i] \in Byte
    BY <1>1
  <1>3. m \in Int /\ n \in Int
    BY <1>1
  <1> HIDE DEF m, n
  <1>4. /\ s \in Seq(Byte)
        /\ Len(s) = IF m <= n THEN n - m + 1 ELSE 0
        /\ \A i \in 1 .. n - m + 1 : s[i] = text[m + i - 1]
    BY <1>2, <1>3, SubSeqProperties
  <1> HIDE DEF s
  <1>5. n - m + 1 = q /\ m <= n
    BY <1>1 DEF m, n
  <1>6. \A i \in 1 .. q : m + i - 1 = k + i
    BY <1>1 DEF m
  <1>7. s \in Seq(Byte) /\ Len(s) = q /\ DOMAIN s = 1 .. q /\ \A i \in 1 .. q : s[i] = text[k + i]
    BY <1>4, <1>5, <1>6
  <1>8. QED
    BY <1>7 DEF s, m, n

\* What the type of the spelling of q characters behind the first k is.
Spells(text, k, q) ==
  LET type == ShapeType(SubSeq(text, k + 1, k + q))
      last == text[k + q]
  IN  /\ last \in DOMAIN Suffix /\ (\A i \in 1 .. q - 1 : text[k + i] # 117) => type = Suffix[last]
      /\ last \in DOMAIN Suffix /\ (\E i \in 1 .. q : text[k + i] = 117) => type = Unsigned[last]
      /\ last = 100 => type = "DOUBLE"
      /\ last \notin DOMAIN Suffix \cup {100} /\ (\E i \in 1 .. q : text[k + i] = DOT) => type = "FLOAT"
      /\ last \notin DOMAIN Suffix \cup {100} /\ (\A i \in 1 .. q : text[k + i] # DOT)
           /\ (\E i \in 1 .. q : text[k + i] = 117) => type = "UINT32"
      /\ last \notin DOMAIN Suffix \cup {100} /\ (\A i \in 1 .. q : text[k + i] # DOT)
           /\ (\A i \in 1 .. q : text[k + i] # 117) => type = "INT32"

\* It is that.
LEMMA SpellingType ==
  ASSUME NEW text \in Seq(Byte), NEW k \in Nat, NEW q \in Nat, q >= 1, k + q <= Len(text)
  PROVE  Spells(text, k, q)
  <1> DEFINE s == SubSeq(text, k + 1, k + q)
             last == text[k + q]
             chars == {s[i] : i \in DOMAIN s}
  <1>1. s \in Seq(Byte) /\ Len(s) = q /\ DOMAIN s = 1 .. q /\ \A i \in 1 .. q : s[i] = text[k + i]
    BY SpellingIs
  <1> HIDE DEF s
  <1>2. DOMAIN Suffix = {98, 115, 108}
    BY DEF Suffix
  <1>3. 100 \notin DOMAIN Suffix /\ 117 \notin DOMAIN Suffix
    BY <1>2
  <1>4. s[q] = last
    <2>1. q \in 1 .. q
      OBVIOUS
    <2>2. QED
      BY <1>1, <2>1
  <1>5. ShapeType(s) = IF last \in DOMAIN Suffix THEN (IF 117 \in chars THEN Unsigned ELSE Suffix)[last]
                       ELSE IF last = 100 THEN "DOUBLE"
                       ELSE IF DOT \in chars THEN "FLOAT"
                       ELSE IF 117 \in chars THEN "UINT32"
                       ELSE "INT32"
    <2>1. s[Len(s)] = last
      BY <1>1, <1>4
    <2>2. QED
      BY <2>1 DEF ShapeType
  <1>6. ASSUME NEW c PROVE c \in chars <=> \E i \in 1 .. q : text[k + i] = c
    BY <1>1
  <1> HIDE DEF chars
  <1>7. ASSUME NEW c, c # last, \A i \in 1 .. q - 1 : text[k + i] # c
        PROVE  c \notin chars
    <2>1. \A i \in 1 .. q : i \in 1 .. q - 1 \/ i = q
      OBVIOUS
    <2>2. text[k + q] # c
      BY <1>7
    <2> HIDE DEF last
    <2>3. \A i \in 1 .. q : text[k + i] # c
      BY <1>7, <2>1, <2>2, Zenon
    <2>4. QED
      BY <1>6, <2>3
  <1>8. ASSUME last \in DOMAIN Suffix, \A i \in 1 .. q - 1 : text[k + i] # 117
        PROVE  117 \notin chars
    BY <1>3, <1>7, <1>8
  <1> HIDE DEF last
  <1> DEFINE Nowhere(c) == \A i \in 1 .. q : text[k + i] # c
             Somewhere(c) == \E i \in 1 .. q : text[k + i] = c
  <1>9. \A c : Nowhere(c) <=> c \notin chars
    BY <1>6, Zenon
  <1>10. \A c : Somewhere(c) <=> c \in chars
    BY <1>6, Zenon
  <1> HIDE DEF Nowhere, Somewhere
  <1>11. /\ Nowhere(117) <=> 117 \notin chars
         /\ Nowhere(DOT) <=> DOT \notin chars
         /\ Somewhere(117) <=> 117 \in chars
         /\ Somewhere(DOT) <=> DOT \in chars
    BY <1>9, <1>10
  <1> DEFINE type == ShapeType(s)
  <1>12. /\ last \in DOMAIN Suffix /\ 117 \notin chars => type = Suffix[last]
         /\ last \in DOMAIN Suffix /\ 117 \in chars => type = Unsigned[last]
         /\ last = 100 => type = "DOUBLE"
         /\ last \notin DOMAIN Suffix \cup {100} /\ DOT \in chars => type = "FLOAT"
         /\ last \notin DOMAIN Suffix \cup {100} /\ DOT \notin chars /\ 117 \in chars => type = "UINT32"
         /\ last \notin DOMAIN Suffix \cup {100} /\ DOT \notin chars /\ 117 \notin chars => type = "INT32"
    BY <1>3, <1>5
  <1> HIDE DEF type
  <1>13. last \in DOMAIN Suffix /\ (\A i \in 1 .. q - 1 : text[k + i] # 117) => type = Suffix[last]
    BY <1>8, <1>12
  <1>14. /\ last \in DOMAIN Suffix /\ (\A i \in 1 .. q - 1 : text[k + i] # 117) => type = Suffix[last]
         /\ last \in DOMAIN Suffix /\ Somewhere(117) => type = Unsigned[last]
         /\ last = 100 => type = "DOUBLE"
         /\ last \notin DOMAIN Suffix \cup {100} /\ Somewhere(DOT) => type = "FLOAT"
         /\ last \notin DOMAIN Suffix \cup {100} /\ Nowhere(DOT)
              /\ Somewhere(117) => type = "UINT32"
         /\ last \notin DOMAIN Suffix \cup {100} /\ Nowhere(DOT)
              /\ Nowhere(117) => type = "INT32"
    BY <1>11, <1>12, <1>13, Zenon
  <1>15. QED
    BY <1>14, Zenon DEF Nowhere, Somewhere, type, s, last, Spells

\* The characters in front of the suffix are none, and do not end a literal.
LEMMA NumberCharIs ==
  ASSUME NEW c, NumberChar(c)
  PROVE  c \notin DOMAIN Suffix \cup {100, 117, NUL, APOSTROPHE}
  BY DEF NumberChar, IsDigit, DOT, MINUS, Suffix, NUL, APOSTROPHE

\* A run of them without a point, and with no digit behind it, makes an integer.
LEMMA FormIs ==
  ASSUME NEW text, NEW k \in Nat, NEW q \in Nat, NEW b \in 1 .. q, NEW type,
         \A i \in 1 .. b : NumberChar(text[k + i]) /\ text[k + i] # DOT,
         \A i \in 2 .. b : text[k + i] # MINUS,
         text[k + 1] = MINUS => b >= 2 /\ type \notin UnsignedTypes,
         \A i \in b + 1 .. q : ~IsDigit(text[k + i])
  PROVE  IntegerForm(text, k, q, type)
  <1> DEFINE minus == text[k + 1] = MINUS
             a == IF minus THEN 2 ELSE 1
  <1>1. a <= b /\ a \in {1, 2} /\ b \in Nat
    OBVIOUS
  <1>2. ASSUME NEW i \in a .. b PROVE IsDigit(text[k + i])
    <2>1. i \in 1 .. b /\ (i = 1 \/ i \in 2 .. b)
      BY <1>1
    <2>2. text[k + i] # MINUS
      <3>1. CASE i = 1
        <4>1. a = 1
          BY <1>1, <1>2, <3>1
        <4>2. ~minus
          BY <4>1
        <4>3. QED
          BY <3>1, <4>2
      <3>2. CASE i \in 2 .. b
        BY <3>2
      <3>3. QED
        BY <2>1, <3>1, <3>2
    <2>3. QED
      BY <2>1, <2>2 DEF NumberChar
  <1>3. QED
    BY <1>1, <1>2 DEF IntegerForm

\* The lookahead has stopped at a character that does not go on: a digit is among those it
\* has passed, and the sign is not the last of them.
LEMMA LooksBack ==
  ASSUME NEW f \in FrameSet, NEW text \in Seq(Byte), Looks(f, text), f.start < Len(text),
         LET at == f.start + f.seeked
         IN  at < Len(text) => /\ ~IsDigit(text[at + 1])
                              /\ ~(text[at + 1] = MINUS /\ f.seeked = 0)
  PROVE  f.seeked >= 1 /\ (text[f.start + 1] = MINUS => f.seeked >= 2)
  <1> DEFINE n == f.seeked
             k == f.start
             N == Len(text)
  <1>1. n \in Nat /\ k \in Nat /\ N \in Nat
    BY SizeAssumption DEF FrameSet
  <1>2. /\ n = 0 => NumberChar(text[k + 1]) /\ text[k + 1] # DOT
        /\ text[k + 1] = MINUS => k + 2 <= N /\ IsDigit(text[k + 2])
        /\ k + n < N => ~IsDigit(text[k + n + 1]) /\ ~(text[k + n + 1] = MINUS /\ n = 0)
        /\ k < N
    BY DEF Looks, Signed
  <1> HIDE DEF n, k, N
  <1>3. n # 0
    <2>1. SUFFICES ASSUME n = 0 PROVE FALSE
      OBVIOUS
    <2>2. k + n < N /\ k + n + 1 = k + 1
      BY <1>1, <1>2, <2>1
    <2>3. ~IsDigit(text[k + 1]) /\ text[k + 1] # MINUS
      BY <1>2, <2>1, <2>2
    <2>4. QED
      BY <1>2, <2>1, <2>3 DEF NumberChar
  <1>4. ASSUME text[k + 1] = MINUS PROVE n # 1
    <2>1. SUFFICES ASSUME n = 1 PROVE FALSE
      OBVIOUS
    <2>2. k + n < N /\ k + n + 1 = k + 2
      BY <1>1, <1>2, <1>4, <2>1
    <2>3. QED
      BY <1>2, <1>4, <2>2
  <1>5. n >= 1 /\ (text[k + 1] = MINUS => n >= 2)
    BY <1>1, <1>3, <1>4
  <1>6. QED
    BY <1>5 DEF n, k

\* What the suffixes and the marker are not.
LEMMA SuffixPlain ==
  /\ \A c \in DOMAIN Suffix : ~IsDigit(c) /\ c # MINUS /\ Suffix[c] \notin UnsignedTypes
  /\ ~IsDigit(117) /\ 117 # MINUS /\ ~IsDigit(100) /\ 100 # MINUS
  /\ "INT32" \notin UnsignedTypes /\ "DOUBLE" \notin IntegerTypes /\ "FLOAT" \notin IntegerTypes
  BY DEF Suffix, IsDigit, MINUS, UnsignedTypes, SignedTypes, IntegerTypes

\* scanner_read_next has seen the first character of a number.
LEMMA NumBegins ==
  ASSUME Base, Base', ScanStep, Sure', Dispatch \/ Second \/ Third,
         OpAt(pc, frame, delivered, reader), NumSure(pc, frame, delivered, Text)
  PROVE  NumSure(pc', frame', delivered', Text)
  <1>1. /\ IInv /\ IsOpen(reader) /\ Typed2 /\ delivered \in Seq(Byte) /\ Len(delivered) \in Nat
        /\ Len(Text) \in Nat /\ TypeOK /\ View(reader', delivered', Text) /\ View(reader, delivered, Text)
        /\ frame \in FrameSet /\ 1 \in 0..SIZE
    BY Onward, Facts, SizeAssumption DEF Typed2, Sure
  <1>2. ASSUME NEW r, NEW c, View(r, delivered, Text), Shows(r, 0, c), NumberChar(c), c # DOT,
               NEW f, f.start = Len(delivered), f.seeked = 0, ~f.floating, ~f.negative,
               c = MINUS /\ Len(delivered) < Len(Text) =>
                 Len(delivered) + 2 <= Len(Text) /\ IsDigit(Text[Len(delivered) + 2])
        PROVE  NumSure("number", f, delivered, Text)
    <2>1. Len(delivered) + 0 = Len(delivered) /\ 0 \in Nat /\ c # NUL
      BY <1>1, <1>2, NumberCharIs
    <2>2. f.start # Len(Text)
      BY <1>2, <2>1 DEF View
    <2>3. ASSUME f.start < Len(Text) PROVE Looks(f, Text)
      <3>1. Text[f.start + 1] = c
        BY <1>2, <2>1, <2>3 DEF View
      <3>2. f.start + 0 <= Len(Text) /\ (\A i \in 1 .. 0 : FALSE) /\ (\A i \in 2 .. 0 : FALSE)
            /\ ~(0 >= 1)
        BY <1>1, <1>2, <2>3
      <3>3. Signed(f, Text)
        BY <1>2, <2>3, <3>1, <3>2 DEF Signed
      <3>4. QED
        BY <1>2, <3>1, <3>2, <3>3 DEF Looks
    <2>4. QED
      BY <2>2, <2>3 DEF NumSure
  <1>3. CASE Dispatch
    <2>1. CASE pc' = "number"
      <3>1. Peek /\ \E c : c = Answer /\ IsDigit(c) /\ Continue("number", Frame(c))
        BY <1>3, <2>1 DEF Dispatch, EmitHere, Emit, EatThen, Continue
      <3>2. Answer \in Byte \cup {None} /\ frame' = Frame(Answer) /\ IsDigit(Answer)
        BY <1>1, <3>1, Facts DEF Continue
      <3>3. Answer # None /\ NumberChar(Answer) /\ Answer # DOT /\ Answer # MINUS
        BY <3>2 DEF IsDigit, None, NumberChar, DOT, MINUS
      <3>4. delivered' = delivered /\ Shows(reader', 0, Answer)
        BY <1>1, <3>1, <3>3, PeekDoes
      <3>5. frame'.start = Len(delivered) /\ frame'.seeked = 0 /\ ~frame'.floating /\ ~frame'.negative
        BY <1>1, <3>2, FrameFresh
      <3>6. QED
        BY <1>1, <1>2, <2>1, <3>3, <3>4, <3>5
    <2>2. CASE pc' = "second"
      <3>1. \E c : c = Answer /\ c \in Ambiguous /\ Continue("second", [Frame(c) EXCEPT !.content = <<c>>])
        BY <1>3, <2>2 DEF Dispatch, EmitHere, Emit, EatThen, Continue
      <3>2. Answer \in Byte /\ frame' = [Frame(Answer) EXCEPT !.content = <<Answer>>]
        BY <3>1, OpBytes DEF Continue
      <3>3. Frame(Answer) \in FrameSet /\ Frame(Answer).seeked = 0 /\ ~Frame(Answer).floating
            /\ ~Frame(Answer).negative
        BY <1>1, <3>2, FrameFresh
      <3>4. frame'.seeked = 0 /\ ~frame'.floating /\ ~frame'.negative
        BY <3>2, <3>3 DEF FrameSet
      <3>5. QED
        BY <2>2, <3>4 DEF NumSure, NumLabels
    <2>3. CASE pc' \notin {"number", "second"}
      <3>1. pc' \notin NumLabels \cup {"second", "third"}
        BY <1>3, <2>3, WordGoes DEF NumLabels
      <3>2. QED
        BY <3>1 DEF NumSure, NumLabels
    <2>4. QED
      BY <2>1, <2>2, <2>3
  <1>4. CASE Second
    <2>1. pc = "second" /\ pc' \in {"eat", "skip", "third", "idle"}
      BY <1>4, WordGoes
    <2>2. CASE pc' = "third"
      <3>1. frame' = frame
        BY <1>4, <2>2 DEF Second, EmitHere, Emit, EatThen, Continue, Goto
      <3>2. QED
        BY <2>1, <2>2, <3>1 DEF NumSure, NumLabels
    <2>3. CASE pc' # "third"
      BY <2>1, <2>3 DEF NumSure, NumLabels
    <2>4. QED
      BY <2>2, <2>3
  <1>5. CASE Third
    <2>1. pc = "third" /\ pc' \in {"number", "skip", "eat"}
      BY <1>5, WordGoes
    <2>2. CASE pc' = "number"
      <3>1. /\ PeekN(1) /\ frame.next = MINUS /\ frame' = [frame EXCEPT !.content = <<>>]
            /\ IsDigit(Answer)
        BY <1>5, <2>2 DEF Third, EatThen, Continue
      <3>2. /\ frame'.start = frame.start /\ frame'.seeked = frame.seeked
            /\ frame'.floating = frame.floating /\ frame'.negative = frame.negative
        BY <1>1, <3>1 DEF FrameSet
      <3>3. frame.start = Len(delivered) /\ Shows(reader, 0, MINUS)
        BY <2>1, <3>1 DEF OpAt
      <3>4. frame.seeked = 0 /\ ~frame.floating /\ ~frame.negative
        BY <2>1 DEF NumSure
      <3>5. NumberChar(MINUS) /\ MINUS # DOT
        BY DEF NumberChar, DOT, MINUS
      <3>6. delivered' = delivered
        BY <3>1 DEF PeekN
      <3>7. ASSUME Len(delivered) < Len(Text)
            PROVE  Len(delivered) + 2 <= Len(Text) /\ IsDigit(Text[Len(delivered) + 2])
        <4>1. Answer # None /\ Answer # NUL
          BY <3>1 DEF IsDigit, None, NUL
        <4>2. /\ Len(delivered) + 1 < Len(Text) => Answer = Text[Len(delivered) + 1 + 1]
              /\ Len(delivered) + 1 # Len(Text)
          BY <1>1, <3>1, <4>1, LookSeen
        <4>3. /\ Len(delivered) + 1 < Len(Text) /\ Len(delivered) + 2 <= Len(Text)
              /\ Len(delivered) + 1 + 1 = Len(delivered) + 2
          BY <1>1, <3>7, <4>2
        <4>4. QED
          BY <3>1, <4>2, <4>3
      <3>8. QED
        BY <1>1, <1>2, <2>2, <3>2, <3>3, <3>4, <3>5, <3>6, <3>7
    <2>3. CASE pc' # "number"
      BY <2>1, <2>3 DEF NumSure, NumLabels
    <2>4. QED
      BY <2>2, <2>3
  <1>6. QED
    BY <1>3, <1>4, <1>5

\* One step of the lookahead for the type.
LEMMA NumSeeks ==
  ASSUME Base, Base', ScanStep, Sure', NumberSeek,
         NumAt(pc, frame, delivered), NumSure(pc, frame, delivered, Text)
  PROVE  NumSure(pc', frame', delivered', Text)
  <1> DEFINE n == frame.seeked
             k == frame.start
             N == Len(Text)
             c == Answer
  <1>1. /\ Typed2 /\ Text \in Seq(Byte) /\ N \in Nat /\ frame \in FrameSet /\ ScanTypes
        /\ k \in Nat /\ SIZE \in Nat /\ Answer \in Byte \cup {None} /\ Len(delivered) \in Nat
    BY Onward, Facts, SizeAssumption DEF Base, ScanInv
  <1>2. pc = "number" /\ PeekN(n)
    BY DEF NumberSeek
  <1>3. n \in 0..SIZE /\ n \in Nat /\ n <= SIZE
    <2>1. n \in 0 .. SIZE + 1 /\ n <= SIZE
      BY <1>1, <1>2 DEF ScanTypes, Suits, FrameSet
    <2>2. QED
      BY <1>1, <2>1
  <1>4. k = Len(delivered) /\ frame.content = <<>> /\ k # N
    BY <1>2 DEF NumAt, NumSure, NumLabels
  <1>5. /\ delivered' = delivered
        /\ c # None /\ k + n < N => c = Text[k + n + 1]
        /\ c # None /\ k + n = N => c = NUL
        /\ c = None /\ n < SIZE => k + n >= N
    BY <1>2, <1>3, <1>4, LookSeen
  <1>6. ASSUME k < N PROVE Looks(frame, Text)
    BY <1>2, <1>6 DEF NumSure
  <1>7. ASSUME k < N, c # None, c # NUL PROVE k + n < N /\ c = Text[k + n + 1] /\ k + (n + 1) = k + n + 1
    <2>1. k + n <= N
      BY <1>6, <1>7 DEF Looks
    <2>2. QED
      BY <1>1, <1>3, <1>5, <1>7, <2>1
  <1>8. ASSUME NEW f \in FrameSet, f.start = k, f.content = <<>>
        PROVE  f.start # N /\ Len(f.content) = 0
    BY <1>4, <1>8
  <1>9. CASE pc' = "idle"
    BY <1>9 DEF NumSure, NumLabels
  <1>10. CASE c = None /\ Typed(Seeked, "INT32")
    <2>1. /\ pc' = "number_copy" /\ frame'.start = k /\ frame'.content = <<>> /\ frame'.seeked = n + 1
      BY <1>1, <1>4, <1>10 DEF Typed, Seeked, Continue, FrameSet
    <2>2. ASSUME k < N PROVE Decided(frame', Text)
      <3>1. Len(<<>>) = 0 /\ 0 <= n + 1
        BY <1>3
      <3>2. \A i \in 1 .. (n + 1) - 1 : Text[k + i] \notin DOMAIN Suffix \cup {100}
        <4>1. \A i \in 1 .. n : NumberChar(Text[k + i])
          BY <1>6, <2>2 DEF Looks
        <4>2. (n + 1) - 1 = n
          BY <1>3
        <4>3. QED
          BY <4>1, <4>2, NumberCharIs
      <3>3. ~(k + (n + 1) <= N /\ n + 1 <= SIZE)
        BY <1>1, <1>3, <1>5, <1>10
      <3>4. QED
        BY <2>1, <3>1, <3>2, <3>3 DEF Decided
    <2>3. QED
      BY <1>4, <2>1, <2>2 DEF NumSure, NumLabels
  <1>11. CASE /\ pc' = "number" /\ frame'.start = k /\ frame'.seeked = n + 1
              /\ NumberChar(c) /\ c # None /\ (frame'.floating <=> frame.floating \/ c = DOT)
              /\ (c = MINUS => n = 0) /\ (frame'.negative <=> frame.negative \/ c = MINUS)
    <2>1. ASSUME k < N PROVE Looks(frame', Text)
      <3>1. k + n < N /\ c = Text[k + (n + 1)]
        BY <1>7, <1>11, <2>1, NumberCharIs
      <3>2. \A i \in 1 .. n : NumberChar(Text[k + i])
        BY <1>6, <2>1 DEF Looks
      <3>3. \A i \in 1 .. n + 1 : i \in 1 .. n \/ i = n + 1
        BY <1>3
      <3>4. \A i \in 1 .. n + 1 : NumberChar(Text[k + i])
        BY <1>11, <3>1, <3>2, <3>3
      <3>5. frame.floating <=> \E i \in 1 .. n : Text[k + i] = DOT
        BY <1>6, <2>1 DEF Looks
      <3>6. (\E i \in 1 .. n + 1 : Text[k + i] = DOT) <=> (\E i \in 1 .. n : Text[k + i] = DOT) \/ c = DOT
        <4>1. n + 1 \in 1 .. n + 1 /\ \A i \in 1 .. n : i \in 1 .. n + 1
          BY <1>3
        <4>2. QED
          BY <3>1, <3>3, <4>1
      <3>7. frame'.floating <=> \E i \in 1 .. n + 1 : Text[k + i] = DOT
        BY <1>11, <3>5, <3>6, Zenon
      <3>8. k + (n + 1) <= N /\ n + 1 # 0
        BY <1>1, <1>3, <3>1
      <3>9. Signed(frame', Text)
        <4>1. /\ frame.negative <=> n >= 1 /\ Text[k + 1] = MINUS
              /\ Text[k + 1] = MINUS => k + 2 <= N /\ IsDigit(Text[k + 2])
              /\ \A i \in 2 .. n : Text[k + i] # MINUS
          BY <1>6, <2>1 DEF Looks, Signed
        <4>2. frame'.negative <=> Text[k + 1] = MINUS
          <5>1. CASE n = 0
            <6>1. ~frame.negative /\ n + 1 = 1
              BY <4>1, <5>1
            <6>2. c = Text[k + 1]
              BY <3>1, <6>1
            <6>3. frame'.negative <=> c = MINUS
              BY <1>11, <6>1, Zenon
            <6>4. QED
              BY <6>2, <6>3, Zenon
          <5>2. CASE n # 0
            <6>1. n >= 1 /\ c # MINUS
              BY <1>3, <1>11, <5>2
            <6>2. frame'.negative <=> frame.negative
              BY <1>11, <6>1, Zenon
            <6>3. QED
              BY <4>1, <6>1, <6>2, Zenon
          <5>3. QED
            BY <5>1, <5>2
        <4>3. \A i \in 2 .. n + 1 : Text[k + i] # MINUS
          <5>1. \A i \in 2 .. n + 1 : i \in 2 .. n \/ (i = n + 1 /\ n # 0)
            BY <1>3
          <5>2. QED
            BY <1>11, <3>1, <4>1, <5>1
        <4>4. frame'.seeked >= 1
          BY <1>3, <1>11
        <4> HIDE DEF c, n
        <4>5. frame'.negative <=> frame'.seeked >= 1 /\ Text[k + 1] = MINUS
          BY <4>2, <4>4, Zenon
        <4>6. QED
          BY <1>11, <4>1, <4>3, <4>5 DEF Signed
      <3>10. QED
        BY <1>11, <3>4, <3>7, <3>8, <3>9 DEF Looks
    <2>2. QED
      BY <1>4, <1>11, <2>1 DEF NumSure, NumLabels
  <1>12. CASE c = 117 /\ ~frame.floating /\ ~frame.negative /\ Continue("number_unsigned", Seeked)
    <2>1. /\ pc' = "number_unsigned" /\ frame'.start = k /\ frame'.seeked = n + 1
      BY <1>1, <1>12 DEF Seeked, Continue, FrameSet
    <2>2. ASSUME k < N PROVE Marked(frame', Text)
      <3>1. c # None /\ c # NUL
        BY <1>12 DEF None, NUL
      <3>2. k + n < N /\ Text[k + (n + 1)] = 117
        BY <1>7, <1>12, <2>2, <3>1
      <3>3. \A i \in 1 .. n : IsDigit(Text[k + i])
        <4>1. \A i \in 1 .. n : NumberChar(Text[k + i]) /\ Text[k + i] # DOT
          BY <1>6, <1>12, <2>2 DEF Looks
        <4>2. /\ ~(n >= 1 /\ Text[k + 1] = MINUS)
              /\ \A i \in 2 .. n : Text[k + i] # MINUS
          BY <1>6, <1>12, <2>2 DEF Looks, Signed
        <4>3. \A i \in 1 .. n : (i = 1 /\ n >= 1) \/ i \in 2 .. n
          BY <1>3
        <4>4. \A i \in 1 .. n : Text[k + i] # MINUS
          BY <4>2, <4>3
        <4>5. QED
          BY <4>1, <4>4 DEF NumberChar
      <3>4. (n + 1) - 1 = n /\ n + 1 >= 2 /\ k + (n + 1) <= N
        <4>1. n >= 1
          <5>1. Looks(frame, Text)
            BY <1>6, <2>2
          <5>2. k + n < N => ~IsDigit(Text[k + n + 1]) /\ ~(Text[k + n + 1] = MINUS /\ n = 0)
            BY <1>7, <1>12, <2>2, <3>1, SuffixPlain
          <5>3. QED
            BY <1>1, <2>2, <5>1, <5>2, LooksBack
        <4>2. QED
          BY <1>1, <1>3, <3>2, <4>1
      <3>5. QED
        BY <2>1, <3>2, <3>3, <3>4 DEF Marked
    <2>3. QED
      BY <1>4, <2>1, <2>2 DEF NumSure, NumLabels
  <1>13. ASSUME NEW type, Typed(Seeked, type), c # None, c # NUL,
                (c \in DOMAIN Suffix /\ type = Suffix[c] /\ ~frame.floating)
                  \/ (c = 100 /\ type = "DOUBLE")
         PROVE  NumSure(pc', frame', delivered', Text)
    <2>1. /\ pc' = "number_copy" /\ frame'.start = k /\ frame'.content = <<>> /\ frame'.seeked = n + 1
          /\ frame'.type = type
      BY <1>1, <1>4, <1>13 DEF Typed, Seeked, Continue, FrameSet
    <2>2. ASSUME k < N PROVE Decided(frame', Text)
      <3>1. k + n < N /\ Text[k + (n + 1)] = c
        BY <1>7, <1>13, <2>2
      <3>2. \A i \in 1 .. n : NumberChar(Text[k + i])
        BY <1>6, <2>2 DEF Looks
      <3>3. (n + 1) - 1 = n /\ n + 1 >= 1 /\ k + (n + 1) <= N /\ n + 1 \in Nat /\ Len(<<>>) <= n + 1
        BY <1>1, <1>3, <3>1
      <3>4. \A i \in 1 .. (n + 1) - 1 : Text[k + i] \notin DOMAIN Suffix \cup {100, 117}
        BY <3>2, <3>3, NumberCharIs
      <3>5. type = ShapeType(SubSeq(Text, k + 1, k + (n + 1)))
        <4>1. \A i \in 1 .. (n + 1) - 1 : Text[k + i] # 117
          BY <3>4
        <4>2. /\ Text[k + (n + 1)] \in DOMAIN Suffix /\ (\A i \in 1 .. (n + 1) - 1 : Text[k + i] # 117)
                   => ShapeType(SubSeq(Text, k + 1, k + (n + 1))) = Suffix[Text[k + (n + 1)]]
              /\ Text[k + (n + 1)] = 100 => ShapeType(SubSeq(Text, k + 1, k + (n + 1))) = "DOUBLE"
          <5>1. Spells(Text, k, n + 1)
            BY <1>1, <3>3, SpellingType
          <5>2. QED
            BY <5>1 DEF Spells
        <4>3. QED
          BY <1>13, <3>1, <4>1, <4>2
      <3>6. type \notin {"INT32", "FLOAT"}
        BY <1>13 DEF Suffix
      <3>7. ASSUME type \in IntegerTypes PROVE IntegerForm(Text, k, n + 1, type)
        <4>1. c \in DOMAIN Suffix /\ ~frame.floating /\ type \notin UnsignedTypes
          BY <1>13, <3>7, SuffixPlain
        <4>2. ~IsDigit(c) /\ c # MINUS
          BY <4>1, SuffixPlain
        <4>3. Looks(frame, Text)
          BY <1>6, <2>2
        <4>4. n >= 1 /\ (Text[k + 1] = MINUS => n >= 2)
          <5>1. k + n < N => ~IsDigit(Text[k + n + 1]) /\ ~(Text[k + n + 1] = MINUS /\ n = 0)
            BY <1>7, <1>13, <2>2, <4>2
          <5>2. QED
            BY <1>1, <2>2, <4>3, <5>1, LooksBack
        <4>5. /\ \A i \in 1 .. n : NumberChar(Text[k + i]) /\ Text[k + i] # DOT
              /\ \A i \in 2 .. n : Text[k + i] # MINUS
          BY <4>1, <4>3 DEF Looks, Signed
        <4>6. \A i \in n + 1 .. n + 1 : ~IsDigit(Text[k + i])
          <5>1. \A i \in n + 1 .. n + 1 : i = n + 1
            BY <1>3
          <5>2. QED
            BY <3>1, <4>2, <5>1
        <4>7. n \in 1 .. n + 1 /\ n + 1 \in Nat
          BY <1>3, <4>4
        <4>8. QED
          BY <1>1, <4>1, <4>4, <4>5, <4>6, <4>7, FormIs
      <3>8. QED
        BY <2>1, <3>3, <3>4, <3>5, <3>6, <3>7 DEF Decided
    <2>3. QED
      BY <1>4, <2>1, <2>2 DEF NumSure, NumLabels
  <1>14. CASE /\ Typed(frame, DefaultType) /\ c # None /\ ~IsDigit(c)
              /\ c \notin DOMAIN Suffix \cup {117, 100}
              /\ ~(c = MINUS /\ n + 1 = 1) /\ ~(c = DOT /\ n + 1 # 1)
    <2>1. /\ pc' = "number_copy" /\ frame'.start = k /\ frame'.content = <<>> /\ frame'.seeked = n
          /\ frame'.type = IF frame.floating THEN "FLOAT" ELSE "INT32"
      BY <1>1, <1>4, <1>14 DEF Typed, DefaultType, Continue, FrameSet
    <2>2. ASSUME k < N PROVE Decided(frame', Text)
      <3>1. k + n <= N /\ \A i \in 1 .. n : NumberChar(Text[k + i])
        BY <1>6, <2>2 DEF Looks
      <3>2. n >= 1
        <4>1. SUFFICES ASSUME n = 0 PROVE FALSE
          BY <1>3
        <4>2. NumberChar(Text[k + 1]) /\ Text[k + 1] # DOT
          BY <1>6, <2>2, <4>1 DEF Looks
        <4>3. c = Text[k + 1]
          <5>1. k + n < N /\ k + n + 1 = k + 1
            BY <1>1, <2>2, <4>1
          <5>2. QED
            BY <1>5, <1>14, <5>1
        <4>4. QED
          BY <1>14, <4>1, <4>2, <4>3 DEF NumberChar
      <3>3. \A i \in 1 .. n : Text[k + i] \notin DOMAIN Suffix \cup {100, 117}
        BY <3>1, NumberCharIs
      <3>4. \A i \in 1 .. n - 1 : i \in 1 .. n
        BY <1>3
      <3>5. frame.floating <=> \E i \in 1 .. n : Text[k + i] = DOT
        BY <1>6, <2>2 DEF Looks
      <3>6. frame'.type = ShapeType(SubSeq(Text, k + 1, k + n))
        <4>1. Text[k + n] \notin DOMAIN Suffix \cup {100} /\ \A i \in 1 .. n : Text[k + i] # 117
          <5>1. n \in 1 .. n
            BY <1>3, <3>2
          <5>2. QED
            BY <3>3, <5>1
        <4>2. CASE frame.floating
          <5>1. \E i \in 1 .. n : Text[k + i] = DOT
            BY <3>5, <4>2
          <5>2. /\ Text[k + n] \notin DOMAIN Suffix \cup {100} /\ (\E i \in 1 .. n : Text[k + i] = DOT)
                     => ShapeType(SubSeq(Text, k + 1, k + n)) = "FLOAT"
            <6>1. Spells(Text, k, n)
              BY <1>1, <1>3, <3>1, <3>2, SpellingType
            <6>2. QED
              BY <6>1 DEF Spells
          <5>3. QED
            BY <2>1, <4>1, <4>2, <5>1, <5>2
        <4>3. CASE ~frame.floating
          <5>1. \A i \in 1 .. n : Text[k + i] # DOT
            BY <3>5, <4>3
          <5>2. Spells(Text, k, n)
            BY <1>1, <1>3, <3>1, <3>2, SpellingType
          <5>3. ShapeType(SubSeq(Text, k + 1, k + n)) = "INT32"
            BY <4>1, <5>1, <5>2 DEF Spells
          <5>4. QED
            BY <2>1, <4>3, <5>3
        <4>4. QED
          BY <4>2, <4>3
      <3>7. k + n < N => Ender(Text[k + n + 1])
        BY <1>3, <1>5, <1>14, <3>2 DEF Ender
      <3>8. Len(<<>>) <= n
        BY <1>3
      <3>9. ASSUME frame'.type \in IntegerTypes PROVE IntegerForm(Text, k, n, frame'.type)
        <4>1. ~frame.floating /\ frame'.type \notin UnsignedTypes
          BY <2>1, <3>9, SuffixPlain
        <4>2. Looks(frame, Text)
          BY <1>6, <2>2
        <4>3. Text[k + 1] = MINUS => n >= 2
          <5>1. k + n < N => ~IsDigit(Text[k + n + 1]) /\ ~(Text[k + n + 1] = MINUS /\ n = 0)
            BY <1>3, <1>5, <1>14
          <5>2. QED
            BY <1>1, <2>2, <4>2, <5>1, LooksBack
        <4>4. /\ \A i \in 1 .. n : NumberChar(Text[k + i]) /\ Text[k + i] # DOT
              /\ \A i \in 2 .. n : Text[k + i] # MINUS
          BY <4>1, <4>2 DEF Looks, Signed
        <4>5. \A i \in n + 1 .. n : ~IsDigit(Text[k + i])
          BY <1>3
        <4>6. n \in 1 .. n
          BY <1>3, <3>2
        <4>7. QED
          BY <1>1, <1>3, <4>1, <4>3, <4>4, <4>5, <4>6, FormIs
      <3>10. QED
        BY <2>1, <3>3, <3>4, <3>6, <3>7, <3>8, <3>9 DEF Decided
    <2>3. QED
      BY <1>4, <2>1, <2>2 DEF NumSure, NumLabels
  <1>15. QED
    <2>1. ASSUME NEW f, Continue("number", f), f.start = k, f.seeked = n + 1, NumberChar(c), c # None,
                 f.floating <=> frame.floating \/ c = DOT,
                 c = MINUS => n = 0, f.negative <=> frame.negative \/ c = MINUS
          PROVE  NumSure(pc', frame', delivered', Text)
      BY <1>11, <2>1 DEF Continue
    <2>2. /\ Seeked.start = k /\ Seeked.seeked = n + 1 /\ Seeked.floating = frame.floating
          /\ Seeked.negative = frame.negative
          /\ [Seeked EXCEPT !.negative = TRUE].negative
          /\ [Seeked EXCEPT !.floating = TRUE].negative = frame.negative
          /\ [Seeked EXCEPT !.negative = TRUE].start = k
          /\ [Seeked EXCEPT !.negative = TRUE].seeked = n + 1
          /\ [Seeked EXCEPT !.negative = TRUE].floating = frame.floating
          /\ [Seeked EXCEPT !.floating = TRUE].start = k
          /\ [Seeked EXCEPT !.floating = TRUE].seeked = n + 1
          /\ [Seeked EXCEPT !.floating = TRUE].floating
      BY <1>1 DEF Seeked, FrameSet
    <2>3. ASSUME c = MINUS, n + 1 = 1, Continue("number", [Seeked EXCEPT !.negative = TRUE])
          PROVE  NumSure(pc', frame', delivered', Text)
      <3>1. NumberChar(c) /\ c # None /\ c # DOT /\ n = 0
        BY <1>3, <2>3 DEF NumberChar, MINUS, DOT, None
      <3>2. QED
        BY <2>1, <2>2, <2>3, <3>1
    <2>4. ASSUME c = DOT, Continue("number", [Seeked EXCEPT !.floating = TRUE])
          PROVE  NumSure(pc', frame', delivered', Text)
      <3>1. NumberChar(c) /\ c # None /\ c # MINUS
        BY <2>4 DEF NumberChar, DOT, None, MINUS
      <3>2. QED
        BY <2>1, <2>2, <2>4, <3>1
    <2>5. ASSUME IsDigit(c), Continue("number", Seeked)
          PROVE  NumSure(pc', frame', delivered', Text)
      <3>1. NumberChar(c) /\ c # None /\ c # DOT /\ c # MINUS
        BY <2>5 DEF NumberChar, IsDigit, DOT, None, MINUS
      <3>2. QED
        BY <2>1, <2>2, <2>5, <3>1
    <2>6. ASSUME c \in DOMAIN Suffix \/ c = 100 PROVE c # None /\ c # NUL
      BY <2>6 DEF Suffix, None, NUL
    <2>7. \A column : NumberError(column) => pc' = "idle"
      BY DEF NumberError, Emit
    <2>8. ASSUME c \in DOMAIN Suffix, ~frame.floating, Typed(Seeked, Suffix[c])
          PROVE  NumSure(pc', frame', delivered', Text)
      <3>1. \E type : type = Suffix[c]
        OBVIOUS
      <3>2. PICK type : type = Suffix[c]
        BY <3>1
      <3>3. Typed(Seeked, type) /\ c # None /\ c # NUL
        BY <2>6, <2>8, <3>2
      <3>4. QED
        BY <1>13, <2>8, <3>2, <3>3
    <2>9. ASSUME c = 100, Typed(Seeked, "DOUBLE")
          PROVE  NumSure(pc', frame', delivered', Text)
      BY <1>13, <2>6, <2>9
    <2> HIDE DEF k, N
    <2>10. \/ c = None /\ Typed(Seeked, "INT32")
           \/ c = MINUS /\ n + 1 = 1 /\ Continue("number", [Seeked EXCEPT !.negative = TRUE])
           \/ c = DOT /\ Continue("number", [Seeked EXCEPT !.floating = TRUE])
           \/ IsDigit(c) /\ Continue("number", Seeked)
           \/ c = 117 /\ ~frame.floating /\ ~frame.negative /\ Continue("number_unsigned", Seeked)
           \/ c \in DOMAIN Suffix /\ ~frame.floating /\ Typed(Seeked, Suffix[c])
           \/ c = 100 /\ Typed(Seeked, "DOUBLE")
           \/ \E column : NumberError(column)
           \/ /\ Typed(frame, DefaultType) /\ ~IsDigit(c)
              /\ c \notin DOMAIN Suffix \cup {None, 117, 100}
              /\ ~(c = MINUS /\ n + 1 = 1) /\ ~(c = DOT /\ n + 1 # 1)
      BY DEF NumberSeek, SignRefused
    <2>11. QED
      BY <1>9, <1>10, <1>12, <1>14, <2>3, <2>4, <2>5, <2>7, <2>8, <2>9, <2>10

\* The look behind the marker u.
LEMMA NumMarks ==
  ASSUME Base, Base', ScanStep, Sure', NumberUnsigned,
         NumAt(pc, frame, delivered), NumSure(pc, frame, delivered, Text)
  PROVE  NumSure(pc', frame', delivered', Text)
  <1> DEFINE n == frame.seeked
             k == frame.start
             N == Len(Text)
             c == Answer
  <1>1. /\ Typed2 /\ Text \in Seq(Byte) /\ N \in Nat /\ frame \in FrameSet /\ ScanTypes
        /\ k \in Nat /\ SIZE \in Nat /\ Len(delivered) \in Nat
    BY Onward, Facts, SizeAssumption DEF Base, ScanInv
  <1>2. pc = "number_unsigned" /\ PeekN(n)
    BY DEF NumberUnsigned
  <1>3. n \in 0..SIZE /\ n \in Nat
    <2>1. n \in 0 .. SIZE + 1 /\ n <= SIZE
      BY <1>1, <1>2 DEF ScanTypes, Suits, FrameSet
    <2>2. QED
      BY <1>1, <2>1
  <1>4. k = Len(delivered) /\ frame.content = <<>> /\ k # N
    BY <1>2 DEF NumAt, NumSure, NumLabels
  <1>5. /\ delivered' = delivered
        /\ c # None /\ k + n < N => c = Text[k + n + 1]
        /\ c # None /\ k + n = N => c = NUL
    BY <1>2, <1>3, <1>4, LookSeen
  <1>6. ASSUME k < N
        PROVE  /\ n >= 2 /\ k + n <= N /\ Text[k + n] = 117
               /\ \A i \in 1 .. n - 1 : IsDigit(Text[k + i])
               /\ \A i \in 1 .. n : Text[k + i] \notin DOMAIN Suffix \cup {100, DOT}
               /\ n \in 1 .. n
    <2>1. /\ n >= 2 /\ k + n <= N /\ Text[k + n] = 117
          /\ \A i \in 1 .. n - 1 : IsDigit(Text[k + i])
      BY <1>2, <1>6 DEF NumSure, Marked
    <2>2. \A i \in 1 .. n : i \in 1 .. n - 1 \/ i = n
      BY <1>3
    <2>3. 117 \notin DOMAIN Suffix \cup {100, DOT}
      BY DEF Suffix, DOT
    <2>4. \A i \in 1 .. n - 1 : Text[k + i] \notin DOMAIN Suffix \cup {100, DOT}
      <3>1. \A x : IsDigit(x) => NumberChar(x) /\ x # DOT
        BY DEF NumberChar, IsDigit, DOT
      <3>2. QED
        BY <2>1, <3>1, NumberCharIs
    <2>5. \A i \in 1 .. n : Text[k + i] \notin DOMAIN Suffix \cup {100, DOT}
      BY <2>1, <2>2, <2>3, <2>4
    <2>6. QED
      BY <1>3, <2>1, <2>5
  <1> DEFINE DigitsThenU(q) ==
               /\ q \in Nat /\ n <= q
               /\ \A i \in n + 1 .. q : ~IsDigit(Text[k + i])
  <1>7. ASSUME k < N, NEW q, DigitsThenU(q), NEW type PROVE IntegerForm(Text, k, q, type)
    <2>1. /\ n >= 2 /\ Text[k + n] = 117
          /\ \A i \in 1 .. n - 1 : IsDigit(Text[k + i])
      BY <1>6, <1>7
    <2>2. n - 1 \in 1 .. q /\ q \in Nat /\ 1 \in 1 .. n - 1
      BY <1>3, <1>7, <2>1
    <2>3. \A x : IsDigit(x) => NumberChar(x) /\ x # DOT /\ x # MINUS
      BY DEF NumberChar, IsDigit, DOT, MINUS
    <2>4. \A i \in 1 .. n - 1 : NumberChar(Text[k + i]) /\ Text[k + i] # DOT /\ Text[k + i] # MINUS
      BY <2>1, <2>3
    <2>5. \A i \in 2 .. n - 1 : i \in 1 .. n - 1
      BY <1>3
    <2>6. Text[k + 1] # MINUS
      BY <2>2, <2>4
    <2>7. \A i \in (n - 1) + 1 .. q : ~IsDigit(Text[k + i])
      <3>1. \A i \in (n - 1) + 1 .. q : i = n \/ i \in n + 1 .. q
        BY <1>3, <2>2
      <3>2. QED
        BY <1>7, <2>1, <3>1, SuffixPlain
    <2>8. QED
      BY <1>1, <2>2, <2>4, <2>5, <2>6, <2>7, FormIs
  <1>8. CASE pc' = "idle"
    BY <1>8 DEF NumSure, NumLabels
  <1>9. CASE Typed(frame, "UINT32")
    <2>1. /\ pc' = "number_copy" /\ frame'.start = k /\ frame'.content = <<>> /\ frame'.seeked = n
          /\ frame'.type = "UINT32"
      BY <1>1, <1>4, <1>9 DEF Typed, Continue, FrameSet
    <2>2. ASSUME k < N PROVE Decided(frame', Text)
      <3>1. "UINT32" = ShapeType(SubSeq(Text, k + 1, k + n))
        <4>1. Spells(Text, k, n)
          BY <1>1, <1>3, <1>6, <2>2, SpellingType
        <4>2. /\ Text[k + n] \notin DOMAIN Suffix \cup {100}
              /\ \A i \in 1 .. n : Text[k + i] # DOT
              /\ \E i \in 1 .. n : Text[k + i] = 117
          BY <1>6, <2>2
        <4>3. QED
          BY <4>1, <4>2 DEF Spells
      <3>2. \A i \in 1 .. n - 1 : Text[k + i] \notin DOMAIN Suffix \cup {100}
        <4>1. \A i \in 1 .. n - 1 : i \in 1 .. n
          BY <1>3
        <4>2. QED
          BY <1>6, <2>2, <4>1
      <3>3. Len(<<>>) <= n
        BY <1>3
      <3>4. IntegerForm(Text, k, n, "UINT32")
        <4>1. n \in Nat /\ n <= n /\ \A i \in n + 1 .. n : ~IsDigit(Text[k + i])
          BY <1>3
        <4>2. QED
          BY <1>7, <2>2, <4>1
      <3>5. "UINT32" \notin {"INT32", "FLOAT"}
        OBVIOUS
      <3>6. QED
        BY <2>1, <3>1, <3>2, <3>3, <3>4, <3>5 DEF Decided
    <2>3. QED
      BY <1>4, <2>1, <2>2 DEF NumSure, NumLabels
  <1>10. CASE c \in DOMAIN Unsigned /\ Typed(Seeked, Unsigned[c])
    <2>1. /\ pc' = "number_copy" /\ frame'.start = k /\ frame'.content = <<>> /\ frame'.seeked = n + 1
          /\ frame'.type = Unsigned[c]
      BY <1>1, <1>4, <1>10 DEF Typed, Seeked, Continue, FrameSet
    <2>2. c \in DOMAIN Suffix /\ c # None /\ c # NUL /\ Unsigned[c] \notin {"INT32", "FLOAT"}
      BY <1>10 DEF Unsigned, Suffix, None, NUL
    <2>3. ASSUME k < N PROVE Decided(frame', Text)
      <3>1. k + n < N /\ Text[k + (n + 1)] = c
        <4>1. k + n < N
          BY <1>1, <1>3, <1>5, <1>6, <2>2, <2>3
        <4>2. k + n + 1 = k + (n + 1)
          BY <1>1, <1>3
        <4>3. QED
          BY <1>5, <2>2, <4>1, <4>2
      <3>2. n + 1 >= 1 /\ n + 1 \in Nat /\ k + (n + 1) <= N /\ (n + 1) - 1 = n /\ n \in 1 .. n + 1
        <4>1. n >= 1 /\ k + n < N
          BY <1>6, <2>3, <3>1
        <4>2. QED
          BY <1>1, <1>3, <4>1
      <3>3. Unsigned[c] = ShapeType(SubSeq(Text, k + 1, k + (n + 1)))
        <4>1. Spells(Text, k, n + 1)
          BY <1>1, <3>2, SpellingType
        <4>2. Text[k + (n + 1)] \in DOMAIN Suffix /\ \E i \in 1 .. n + 1 : Text[k + i] = 117
          BY <1>6, <2>2, <2>3, <3>1, <3>2
        <4>3. ShapeType(SubSeq(Text, k + 1, k + (n + 1))) = Unsigned[Text[k + (n + 1)]]
          BY <4>1, <4>2 DEF Spells
        <4>4. QED
          BY <3>1, <4>3
      <3>4. \A i \in 1 .. (n + 1) - 1 : Text[k + i] \notin DOMAIN Suffix \cup {100}
        BY <1>6, <2>3, <3>2
      <3>5. Len(<<>>) <= n + 1
        BY <1>3
      <3>6. IntegerForm(Text, k, n + 1, Unsigned[c])
        <4>1. \A i \in n + 1 .. n + 1 : i = n + 1
          BY <1>3
        <4>2. n + 1 \in Nat /\ n <= n + 1 /\ \A i \in n + 1 .. n + 1 : ~IsDigit(Text[k + i])
          BY <1>3, <2>2, <3>1, <4>1, SuffixPlain
        <4>3. QED
          BY <1>7, <2>3, <4>2
      <3>7. QED
        BY <2>1, <2>2, <3>3, <3>4, <3>5, <3>6 DEF Decided
    <2>4. QED
      BY <1>4, <2>1, <2>3 DEF NumSure, NumLabels
  <1>11. QED
    <2>1. \A column : NumberError(column) => pc' = "idle"
      BY DEF NumberError, Emit
    <2>2. QED
      BY <1>8, <1>9, <1>10, <2>1 DEF NumberUnsigned

\* One turn of the loop that copies the characters.
LEMMA NumCopies ==
  ASSUME Base, Base', ScanStep, Sure', NumberCopy,
         NumAt(pc, frame, delivered), NumSure(pc, frame, delivered, Text)
  PROVE  NumSure(pc', frame', delivered', Text)
  <1> DEFINE q == frame.seeked
             k == frame.start
             N == Len(Text)
  <1>1. /\ IInv /\ IsOpen(reader) /\ Typed2 /\ Text \in Seq(Byte) /\ N \in Nat /\ frame \in FrameSet
        /\ k \in Nat /\ frame.content \in Seq(Byte) /\ Len(frame.content) \in Nat
        /\ ~reader'.stateError /\ View(reader', delivered', Text)
    BY Onward, Facts DEF Calm, Sure
  <1>2. pc = "number_copy" /\ q \in Nat
    BY <1>1, SizeAssumption DEF NumberCopy, FrameSet
  <1>3. k # N
    BY <1>2 DEF NumSure, NumLabels
  <1>4. ASSUME k < N PROVE Decided(frame, Text) /\ Len(frame.content) <= q
    BY <1>2, <1>4 DEF NumSure, Decided
  <1>5. CASE /\ Len(frame.content) < q
             /\ Continue("number_copy", [frame EXCEPT !.content = Append(@, Answer)])
    <2>1. /\ pc' = "number_copy" /\ frame'.start = k /\ frame'.seeked = q /\ frame'.type = frame.type
          /\ frame'.content = Append(frame.content, Answer)
      BY <1>1, <1>5 DEF Continue, FrameSet
    <2>2. Len(Append(frame.content, Answer)) = Len(frame.content) + 1
      BY <1>1
    <2>3. Len(frame'.content) <= q
      BY <1>1, <1>2, <1>5, <2>1, <2>2
    <2>4. k < N => Decided(frame', Text)
      BY <1>4, <2>1, <2>3 DEF Decided
    <2>5. QED
      BY <1>3, <2>1, <2>4 DEF NumSure, NumLabels
  <1>6. CASE /\ Goto("number_end")
             /\ (Quiet /\ ~NumberGoesOn) \/ (Read /\ Answer = None)
    <2>1. frame' = frame /\ pc' = "number_end"
      BY <1>6 DEF Goto
    <2>2. ASSUME Len(frame.content) < q PROVE Len(delivered') >= N
      <3>1. reader'.stateEOF
        <4>1. CASE Quiet /\ ~NumberGoesOn
          BY <2>2, <4>1, QuietDoes DEF NumberGoesOn, HasNext
        <4>2. CASE Read /\ Answer = None
          <5>1. Answer \notin Byte
            BY <4>2 DEF None, Byte
          <5>2. QED
            BY <1>1, <4>2, <5>1, ReadDoes
        <4>3. QED
          BY <1>6, <4>1, <4>2
      <3>2. QED
        BY <1>1, <3>1 DEF View
    <2>3. QED
      BY <1>3, <1>4, <2>1, <2>2 DEF NumSure, NumLabels
  <1>7. QED
    BY <1>5, <1>6 DEF NumberCopy, NumberGoesOn

\* At every step.
LEMMA NumSureStep ==
  ASSUME Base, Base', ScanStep, Sure', OpAt(pc, frame, delivered, reader),
         NumAt(pc, frame, delivered), NumSure(pc, frame, delivered, Text)
  PROVE  NumSure(pc', frame', delivered', Text)
  <1>1. ScanTypes
    BY DEF Base, ScanInv
  <1>2. CASE Dispatch \/ Second \/ Third
    BY <1>2, NumBegins
  <1>3. CASE NumberSeek
    BY <1>3, NumSeeks
  <1>4. CASE NumberUnsigned
    BY <1>4, NumMarks
  <1>5. CASE NumberCopy
    BY <1>5, NumCopies
  <1>6. CASE ~(Dispatch \/ Second \/ Third) /\ ~NumberSeek /\ ~NumberUnsigned /\ ~NumberCopy
    <2>1. pc' \notin {"second", "third"} \cup NumLabels
      BY <1>1, <1>6, SkipGoes, WordGoes, NumberGoes DEF ScanStep, Afters, NumLabels
    <2>2. QED
      BY <2>1 DEF NumSure, NumLabels
  <1>7. QED
    BY <1>2, <1>3, <1>4, <1>5, <1>6

(***************************************************************************)
(* The tokens                                                              *)
(***************************************************************************)

\* What the places of all recognisers say.
Recog ==
  /\ WordAt(pc, frame, delivered, reader)
  /\ OpAt(pc, frame, delivered, reader)
  /\ StrAt(pc, frame, delivered, reader)
  /\ CharAt(pc, frame, delivered, reader)
  /\ NumAt(pc, frame, delivered)

\* And over a reader that shows the text.
RecogSure ==
  /\ SIZE >= 2 => OpEnds(pc, frame, Text)
  /\ NumSure(pc, frame, delivered, Text)

\* The locals of the recognisers, until a read fails.
LocalsInv == (Calm => Recog) /\ (Sure => RecogSure)

\* At every step.
LEMMA LocalsScanStep ==
  ASSUME Base, Base', ScanStep, LocalsInv
  PROVE  LocalsInv'
  <1>1. (Calm' => Calm) /\ (Sure' => Sure) /\ Text' = Text /\ (Sure => Calm) /\ (Sure' => Calm')
    BY Onward DEF Sure
  <1>2. ASSUME Calm' PROVE Recog'
    <2>1. Recog
      BY <1>1, <1>2 DEF LocalsInv
    <2>2. /\ WordAt(pc', frame', delivered', reader') /\ OpAt(pc', frame', delivered', reader')
          /\ StrAt(pc', frame', delivered', reader') /\ CharAt(pc', frame', delivered', reader')
          /\ NumAt(pc', frame', delivered')
      BY <1>2, <2>1, WordStep, OpStep, StrStep, CharStep, NumStep DEF Recog
    <2>3. QED
      BY <2>2 DEF Recog
  <1>3. ASSUME Sure' PROVE RecogSure'
    <2>1. Recog /\ RecogSure
      BY <1>1, <1>3 DEF LocalsInv
    <2>2. /\ SIZE >= 2 => OpEnds(pc', frame', Text)
          /\ NumSure(pc', frame', delivered', Text)
      BY <1>1, <1>3, <2>1, OpStep, NumSureStep DEF Recog, RecogSure
    <2>3. QED
      BY <1>1, <2>2 DEF RecogSure
  <1>4. QED
    BY <1>2, <1>3 DEF LocalsInv

\* Who makes a token.
LEMMA Makers ==
  ASSUME ScanTypes, ScanStep, pc' = "idle"
  PROVE  \/ Operator /\ EmitLexeme("OPERATOR")
         \/ /\ WordNext /\ Quiet /\ ~WordGoesOn(frame) /\ WordRoom(frame.content)
            /\ EmitLexeme("WORD")
         \/ NumberEnd /\ EmitLexeme(frame.type)
         \/ StringEnd /\ Quiet /\ StringRoom(frame.content) /\ EmitLexeme("STRING")
         \/ CharEnd /\ Quiet /\ EmitLexeme("CHAR")
         \/ \E type \in {"EOS", "ERROR"} : EmitHere(type)
         \/ \E column : NumberError(column)
  <1>1. \/ Dispatch \/ Second \/ Operator \/ WordNext
        \/ NumberSeek \/ NumberUnsigned \/ NumberEnd \/ StringEnd \/ CharPeek \/ CharEnd
    BY SkipGoes, WordGoes, NumberGoes DEF ScanStep, Afters
  <1>2. CASE Dispatch
    BY <1>2 DEF Dispatch, EatThen, Continue
  <1>3. CASE Second
    BY <1>3 DEF Second, EatThen, Continue, Goto
  <1>4. CASE Operator
    BY <1>4 DEF Operator
  <1>5. CASE WordNext
    BY <1>5, Zenon DEF WordNext, Continue
  <1>6. CASE NumberSeek \/ NumberUnsigned
    BY <1>6 DEF NumberSeek, NumberUnsigned, Typed, Continue
  <1>7. CASE NumberEnd
    BY <1>7, Zenon DEF NumberEnd
  <1>8. CASE StringEnd
    BY <1>8, Zenon DEF StringEnd
  <1>9. CASE CharPeek \/ CharEnd
    BY <1>9 DEF CharPeek, CharEnd, EatThen, Continue
  <1>10. QED
    BY <1>1, <1>2, <1>3, <1>4, <1>5, <1>6, <1>7, <1>8, <1>9

\* What the token is made of.
LEMMA EmitIs ==
  ASSUME tokens \in Seq(TokenSet), NEW t \in TokenSet, tokens' = Append(tokens, t),
         NEW type, NEW line, NEW column, NEW content, NEW start,
         Emit(type, line, column, content, start)
  PROVE  t.type = type /\ t.content = content /\ t.start = start /\ t.end = Len(delivered')
  <1> DEFINE u == [type |-> type, line |-> line, column |-> column,
                   content |-> content, start |-> start, end |-> Len(delivered')]
  <1>1. Append(tokens, t) = Append(tokens, u)
    BY DEF Emit
  <1>2. Len(tokens) \in Nat
    OBVIOUS
  <1>3. Append(tokens, t)[Len(tokens) + 1] = t /\ Append(tokens, u)[Len(tokens) + 1] = u
    BY <1>2
  <1>4. t = u
    BY <1>1, <1>3
  <1>5. QED
    BY <1>4

\* What a token, errors aside, says of the bytes d that have been taken.
Lexeme(t, d) ==
  /\ t.end <= Len(d)
  /\ t.type \in {"WORD", "OPERATOR"} \cup NumberTypes =>
       Slice(t.content, d, t.start) /\ t.end = t.start + Len(t.content)
  /\ t.type = "WORD" => \A i \in 1 .. Len(t.content) : IsWordChar(t.content[i])
  /\ t.type = "OPERATOR" => Len(t.content) = 1 \/ t.content \in Pairs
  /\ t.type = "CHAR" =>
       /\ Len(t.content) = 1 /\ t.end = t.start + 3
       /\ Slice(<<APOSTROPHE, t.content[1], APOSTROPHE>>, d, t.start)
  /\ t.type = "STRING" => Quoted(t.start, t.end, t.content, d)

\* What it says of a text that the reader showed when it was made: where it ends.
Complete(t, text) ==
  /\ t.type = "WORD" /\ t.end < Len(text) => ~IsWordChar(text[t.end + 1])
  /\ SIZE >= 2 /\ t.type = "OPERATOR" => Alone(t, text)
  /\ t.type \in NumberTypes =>
       /\ t.start # Len(text)
       /\ t.start < Len(text) =>
            \E f \in FrameSet :
              /\ Decided(f, text)
              /\ f.type = t.type /\ f.content = t.content /\ f.start = t.start
              /\ Len(f.content) < f.seeked => t.end >= Len(text)

\* The token of a word.
LEMMA WordToken ==
  ASSUME Base, Base', ScanStep, Calm', LocalsInv, NEW t \in TokenSet, tokens' = Append(tokens, t),
         WordNext, Quiet, ~WordGoesOn(frame), WordRoom(frame.content), EmitLexeme("WORD")
  PROVE  Lexeme(t, delivered') /\ (Sure' => Complete(t, Text))
  <1>1. /\ Calm /\ Len(delivered) \in Nat /\ Len(Text) \in Nat /\ pc = "word_next" /\ Typed2
        /\ Sure' => View(reader, delivered, Text)
    BY Onward DEF WordNext, Sure
  <1>2. /\ t.type = "WORD" /\ t.content = frame.content /\ t.start = frame.start
        /\ t.end = Len(delivered')
    BY EmitIs DEF EmitLexeme, Base, ScanInv, ScanTypes
  <1>3. delivered' = delivered
    BY QuietDoes
  <1>4. WordAt("word_next", frame, delivered, reader)
    BY <1>1 DEF LocalsInv, Recog
  <1>5. /\ Slice(frame.content, delivered, frame.start)
        /\ frame.start + Len(frame.content) = Len(delivered)
        /\ \A i \in 1 .. Len(frame.content) : IsWordChar(frame.content[i])
        /\ Shown(reader, frame.next)
    BY <1>4 DEF WordAt
  <1>6. Lexeme(t, delivered')
    BY <1>1, <1>2, <1>3, <1>5 DEF Lexeme, NumberTypes
  <1>7. ASSUME Sure', Len(delivered) < Len(Text)
        PROVE  ~IsWordChar(Text[Len(delivered) + 1])
    <2>1. ~reader.stateEOF
      BY <1>1, <1>7 DEF View
    <2>2. Shows(reader, 0, frame.next)
      BY <1>5, <2>1 DEF Shown
    <2>3. frame.next = Text[Len(delivered) + 1]
      <3>1. 0 \in Nat /\ Len(delivered) + 0 < Len(Text) /\ Len(delivered) + 0 + 1 = Len(delivered) + 1
        BY <1>1, <1>7
      <3>2. frame.next = Text[Len(delivered) + 0 + 1]
        BY <1>1, <1>7, <2>2, <3>1 DEF View
      <3>3. QED
        BY <3>1, <3>2
    <2>4. QED
      BY <2>1, <2>3 DEF WordGoesOn, HasNext
  <1>8. Sure' => Complete(t, Text)
    BY <1>2, <1>3, <1>7 DEF Complete, NumberTypes
  <1>9. QED
    BY <1>6, <1>8

\* The token of an operator.
LEMMA OperatorToken ==
  ASSUME Base, Base', ScanStep, Calm', LocalsInv, NEW t \in TokenSet, tokens' = Append(tokens, t),
         Operator
  PROVE  Lexeme(t, delivered') /\ (Sure' => Complete(t, Text))
  <1>1. /\ Calm /\ Len(delivered) \in Nat /\ Len(Text) \in Nat /\ pc = "operator" /\ Typed2
        /\ Sure' => Sure
    BY Onward DEF Operator
  <1>2. /\ t.type = "OPERATOR" /\ t.content = frame.content /\ t.start = frame.start
        /\ t.end = Len(delivered')
    BY EmitIs DEF EmitLexeme, Operator, Base, ScanInv, ScanTypes
  <1>3. delivered' = delivered
    BY QuietDoes DEF Operator
  <1>4. OpAt("operator", frame, delivered, reader)
    BY <1>1 DEF LocalsInv, Recog
  <1>5. /\ Slice(frame.content, delivered, frame.start)
        /\ frame.start + Len(frame.content) = Len(delivered)
        /\ Len(frame.content) = 1 \/ frame.content \in Pairs
    BY <1>4 DEF OpAt
  <1>6. Lexeme(t, delivered')
    BY <1>1, <1>2, <1>3, <1>5 DEF Lexeme, NumberTypes
  <1>7. ASSUME Sure', SIZE >= 2 PROVE Alone(t, Text)
    <2>1. OpEnds("operator", frame, Text)
      BY <1>1, <1>7 DEF LocalsInv, RecogSure
    <2>2. Alone(frame, Text)
      BY <2>1 DEF OpEnds
    <2>3. QED
      BY <1>2, <2>2 DEF Alone
  <1>8. Sure' => Complete(t, Text)
    BY <1>2, <1>7 DEF Complete, NumberTypes
  <1>9. QED
    BY <1>6, <1>8

\* The token of a number.
LEMMA NumberToken ==
  ASSUME Base, Base', ScanStep, Calm', LocalsInv, NEW t \in TokenSet, tokens' = Append(tokens, t),
         NumberEnd, EmitLexeme(frame.type)
  PROVE  Lexeme(t, delivered') /\ (Sure' => Complete(t, Text))
  <1>1. /\ Calm /\ Len(delivered) \in Nat /\ Len(Text) \in Nat /\ pc = "number_end" /\ Typed2
        /\ frame \in FrameSet
        /\ Sure' => Sure
    BY Onward, Facts DEF NumberEnd
  <1>2. /\ t.type = frame.type /\ t.content = frame.content /\ t.start = frame.start
        /\ t.end = Len(delivered')
    BY EmitIs DEF EmitLexeme, Base, ScanInv, ScanTypes
  <1>3. delivered' = delivered
    BY QuietDoes DEF NumberEnd, Peek
  <1>4. NumAt("number_end", frame, delivered)
    BY <1>1 DEF LocalsInv, Recog
  <1>5. /\ Slice(frame.content, delivered, frame.start)
        /\ frame.start + Len(frame.content) = Len(delivered)
    BY <1>4 DEF NumAt
  <1>6. frame.type \in NumberTypes
    BY <1>1 DEF Typed2, ScanTypes, Suits
  <1>7. Lexeme(t, delivered')
    BY <1>1, <1>2, <1>3, <1>5, <1>6 DEF Lexeme, NumberTypes
  <1>8. ASSUME Sure' PROVE Complete(t, Text)
    <2>1. NumSure("number_end", frame, delivered, Text)
      BY <1>1, <1>8 DEF LocalsInv, RecogSure
    <2>2. frame.start # Len(Text)
      BY <2>1 DEF NumSure, NumLabels
    <2>3. ASSUME frame.start < Len(Text)
          PROVE  Decided(frame, Text) /\ (Len(frame.content) < frame.seeked => t.end >= Len(Text))
      BY <1>2, <1>3, <2>1, <2>3 DEF NumSure
    <2>4. t.type \notin {"WORD", "OPERATOR"}
      BY <1>2, <1>6 DEF NumberTypes
    <2>5. QED
      BY <1>1, <1>2, <2>2, <2>3, <2>4 DEF Complete
  <1>9. QED
    BY <1>7, <1>8

\* The tokens of strings and of characters.
LEMMA QuotedToken ==
  ASSUME Base, Base', ScanStep, Calm', LocalsInv, NEW t \in TokenSet, tokens' = Append(tokens, t),
         \/ StringEnd /\ Quiet /\ StringRoom(frame.content) /\ EmitLexeme("STRING")
         \/ CharEnd /\ Quiet /\ EmitLexeme("CHAR")
  PROVE  Lexeme(t, delivered') /\ (Sure' => Complete(t, Text))
  <1>1. Calm /\ Len(delivered) \in Nat /\ Typed2
    BY Onward
  <1>2. /\ t.type = (IF StringEnd THEN "STRING" ELSE "CHAR")
        /\ t.content = frame.content /\ t.start = frame.start /\ t.end = Len(delivered')
    <2>1. CASE StringEnd /\ EmitLexeme("STRING")
      BY <2>1, EmitIs DEF EmitLexeme, Base, ScanInv, ScanTypes
    <2>2. CASE CharEnd /\ EmitLexeme("CHAR")
      <3>1. ~StringEnd
        BY <2>2 DEF CharEnd, StringEnd
      <3>2. QED
        BY <2>2, <3>1, EmitIs DEF EmitLexeme, Base, ScanInv, ScanTypes
    <2>3. QED
      BY <2>1, <2>2
  <1>3. delivered' = delivered
    BY QuietDoes
  <1>4. CASE StringEnd /\ StringRoom(frame.content)
    <2>1. StrAt("string_end", frame, delivered, reader)
      BY <1>1, <1>4 DEF LocalsInv, Recog, StringEnd
    <2>2. Quoted(frame.start, Len(delivered), frame.content, delivered)
      BY <1>4, <2>1 DEF StrAt
    <2>3. t.type = "STRING" /\ t.type \notin {"WORD", "OPERATOR", "CHAR"} \cup NumberTypes
      BY <1>2, <1>4 DEF NumberTypes
    <2>4. t.end = Len(delivered)
      BY <1>2, <1>3
    <2>5. Quoted(t.start, t.end, t.content, delivered)
      BY <1>2, <2>2, <2>4
    <2>6. t.end <= Len(delivered')
      BY <1>1, <1>3, <2>4
    <2>7. Lexeme(t, delivered') /\ Complete(t, Text)
      BY <1>3, <2>3, <2>5, <2>6 DEF Lexeme, Complete
    <2>8. QED
      BY <2>7
  <1>5. CASE CharEnd
    <2>1. CharAt("char_end", frame, delivered, reader) /\ ~StringEnd
      BY <1>1, <1>5 DEF LocalsInv, Recog, CharEnd, StringEnd
    <2>2. /\ Len(frame.content) = 1 /\ frame.start + 3 = Len(delivered)
          /\ Slice(<<APOSTROPHE, frame.content[1], APOSTROPHE>>, delivered, frame.start)
      BY <2>1 DEF CharAt
    <2>3. t.type = "CHAR" /\ t.type \notin {"WORD", "OPERATOR", "STRING"} \cup NumberTypes
      BY <1>2, <2>1 DEF NumberTypes
    <2>4. t.end = t.start + 3 /\ t.end = Len(delivered)
      BY <1>2, <1>3, <2>2
    <2>5. t.end <= Len(delivered')
      BY <1>1, <1>3, <2>4
    <2>6. Lexeme(t, delivered') /\ Complete(t, Text)
      BY <1>2, <1>3, <2>2, <2>3, <2>4, <2>5 DEF Lexeme, Complete
    <2>7. QED
      BY <2>6
  <1>6. QED
    BY <1>4, <1>5

\* Taking out more changes nothing of it.
LEMMA LexemeGrown ==
  ASSUME NEW d \in Seq(Byte), NEW e, Grown(d, e), NEW t \in TokenSet, Lexeme(t, d)
  PROVE  Lexeme(t, e)
  <1>1. /\ t.content \in Seq(Byte) /\ t.start \in Nat /\ t.end \in Nat
        /\ Len(d) \in Nat /\ Len(t.content) \in Nat
    BY DEF TokenSet
  <1>2. Len(d) <= Len(e) /\ Len(e) \in Nat /\ \A i \in 1 .. Len(d) : e[i] = d[i]
    <2>1. CASE e = d
      BY <1>1, <2>1
    <2>2. CASE \E b \in Byte : e = Append(d, b)
      BY <1>1, <2>2
    <2>3. QED
      BY <2>1, <2>2 DEF Grown
  <1>3. t.end <= Len(e)
    BY <1>1, <1>2 DEF Lexeme
  <1>4. t.type \in {"WORD", "OPERATOR"} \cup NumberTypes => Slice(t.content, e, t.start)
    BY <1>1, SliceGrown DEF Lexeme
  <1>5. ASSUME t.type = "CHAR" PROVE Slice(<<APOSTROPHE, t.content[1], APOSTROPHE>>, e, t.start)
    <2>1. Len(t.content) = 1 /\ Slice(<<APOSTROPHE, t.content[1], APOSTROPHE>>, d, t.start)
      BY <1>5 DEF Lexeme
    <2>2. <<APOSTROPHE, t.content[1], APOSTROPHE>> \in Seq(Byte)
      <3>1. t.content[1] \in Byte
        BY <1>1, <2>1
      <3>2. APOSTROPHE \in Byte
        BY DEF APOSTROPHE, Byte
      <3>3. QED
        BY <3>1, <3>2
    <2>3. QED
      BY <1>1, <2>1, <2>2, SliceGrown
  <1>6. ASSUME t.type = "STRING" PROVE Quoted(t.start, t.end, t.content, e)
    <2>1. Quoted(t.start, t.end, t.content, d)
      BY <1>6 DEF Lexeme
    <2>2. t.start + 1 <= t.end /\ t.end <= Len(d) /\ d[t.start + 1] = QUOTE
      BY <2>1 DEF Quoted
    <2>3. t.start + 1 \in 1 .. Len(d) /\ t.end \in 1 .. Len(d)
      BY <1>1, <2>2
    <2>4. ASSUME NEW s \in Seq(Byte), Slice(s, e, t.start + 1), t.start + 2 + Len(s) = t.end
          PROVE  Slice(s, d, t.start + 1)
      <3>1. Len(s) \in Nat /\ t.start + 1 + Len(s) <= Len(d)
        BY <1>1, <2>2, <2>4
      <3>2. ASSUME NEW i \in 1 .. Len(s) PROVE s[i] = d[t.start + 1 + i]
        <4>1. t.start + 1 + i \in 1 .. Len(d)
          BY <1>1, <3>1
        <4>2. QED
          BY <1>2, <2>4, <4>1 DEF Slice
      <3>3. QED
        BY <3>1, <3>2 DEF Slice
    <2>5. ASSUME NEW s \in Seq(Byte), Slice(s, e, t.start + 1), t.start + 2 + Len(s) = t.end,
                 e[t.end] = QUOTE, ~Dangles(s)
          PROVE  t.content = Unescape(s)
      <3>1. Slice(s, d, t.start + 1) /\ d[t.end] = QUOTE
        BY <1>2, <2>3, <2>4, <2>5
      <3>2. QED
        BY <2>1, <2>5, <3>1 DEF Quoted
    <2>6. t.end <= Len(e) /\ e[t.start + 1] = QUOTE
      BY <1>2, <1>3, <2>2, <2>3
    <2>7. QED
      BY <2>2, <2>5, <2>6 DEF Quoted
  <1>7. QED
    BY <1>3, <1>4, <1>5, <1>6 DEF Lexeme

\* The tokens, errors aside, until a read fails.
TokensInv ==
  \A k \in 1 .. Len(tokens) :
    tokens[k].type # "ERROR" =>
      /\ Calm => Lexeme(tokens[k], delivered)
      /\ Sure => Complete(tokens[k], Text)

\* A token that is made is one of these.
LEMMA TokenMade ==
  ASSUME Base, Base', ScanStep, Calm', LocalsInv, NEW t \in TokenSet, tokens' = Append(tokens, t),
         t.type # "ERROR", pc' = "idle"
  PROVE  Lexeme(t, delivered') /\ (Sure' => Complete(t, Text))
  <1>1. ScanTypes
    BY DEF Base, ScanInv
  <1>2. CASE Operator
    BY <1>2, OperatorToken
  <1>3. CASE WordNext /\ Quiet /\ ~WordGoesOn(frame) /\ WordRoom(frame.content) /\ EmitLexeme("WORD")
    BY <1>3, WordToken
  <1>4. CASE NumberEnd /\ EmitLexeme(frame.type)
    BY <1>4, NumberToken
  <1>5. CASE \/ StringEnd /\ Quiet /\ StringRoom(frame.content) /\ EmitLexeme("STRING")
             \/ CharEnd /\ Quiet /\ EmitLexeme("CHAR")
    BY <1>5, QuotedToken
  <1>6. CASE \E type \in {"EOS", "ERROR"} : EmitHere(type)
    <2>1. PICK type \in {"EOS", "ERROR"} : EmitHere(type)
      BY <1>6
    <2>2. t.type = type /\ t.end = Len(delivered')
      BY <1>1, <2>1, EmitIs DEF EmitHere, ScanTypes
    <2>3. t.type = "EOS" /\ Len(delivered') \in Nat
      BY <2>1, <2>2, Onward
    <2>4. QED
      BY <2>2, <2>3 DEF Lexeme, Complete, NumberTypes
  <1>7. CASE \E column : NumberError(column)
    BY <1>1, <1>7, EmitIs DEF NumberError, ScanTypes
  <1>8. QED
    BY <1>1, <1>2, <1>3, <1>4, <1>5, <1>6, <1>7, Makers

\* A step that makes a token, and one that makes none.
LEMMA TokensGrow ==
  ASSUME Base, ScanStep, Typed2
  PROVE  \/ tokens' = tokens
         \/ pc' = "idle" /\ \E t \in TokenSet : tokens' = Append(tokens, t)
  BY ScanStepShape DEF Lands, Makes

\* At every step of scanner_read_next.
LEMMA TokensScanStep ==
  ASSUME Base, Base', ScanStep, LocalsInv, TokensInv
  PROVE  TokensInv'
  <1>1. /\ (Calm' => Calm) /\ (Sure' => Sure) /\ Text' = Text /\ Typed2
        /\ delivered \in Seq(Byte) /\ Grown(delivered, delivered') /\ (Sure' => Calm')
    BY Onward DEF Sure
  <1>2. tokens \in Seq(TokenSet) /\ Len(tokens) \in Nat
    BY DEF Base, ScanInv, ScanTypes
  <1>3. ASSUME NEW k \in 1 .. Len(tokens), tokens[k].type # "ERROR"
        PROVE  /\ Calm' => Lexeme(tokens[k], delivered')
               /\ Sure' => Complete(tokens[k], Text)
    <2>1. tokens[k] \in TokenSet
      BY <1>2
    <2>2. Calm => Lexeme(tokens[k], delivered)
      BY <1>3 DEF TokensInv
    <2>3. Sure => Complete(tokens[k], Text)
      BY <1>3 DEF TokensInv
    <2>4. QED
      BY <1>1, <2>1, <2>2, <2>3, LexemeGrown
  <1>4. CASE tokens' = tokens
    BY <1>1, <1>3, <1>4 DEF TokensInv
  <1>5. CASE pc' = "idle" /\ \E t \in TokenSet : tokens' = Append(tokens, t)
    <2>1. PICK t \in TokenSet : tokens' = Append(tokens, t)
      BY <1>5
    <2>2. /\ tokens'[Len(tokens')] = t /\ Len(tokens') = Len(tokens) + 1
          /\ \A k \in 1 .. Len(tokens) : tokens'[k] = tokens[k]
      BY <1>2, <2>1, LastToken
    <2>3. ASSUME NEW k \in 1 .. Len(tokens'), tokens'[k].type # "ERROR"
          PROVE  /\ Calm' => Lexeme(tokens'[k], delivered')
                 /\ Sure' => Complete(tokens'[k], Text)
      <3>1. k \in 1 .. Len(tokens) \/ k = Len(tokens')
        BY <1>2, <2>2
      <3>2. CASE k \in 1 .. Len(tokens)
        <4>1. tokens'[k] = tokens[k]
          BY <2>2, <3>2
        <4>2. QED
          BY <1>3, <2>3, <3>2, <4>1
      <3>3. CASE k = Len(tokens')
        <4>1. tokens'[k] = t /\ t.type # "ERROR"
          BY <2>2, <2>3, <3>3
        <4>2. Calm' => Lexeme(t, delivered') /\ (Sure' => Complete(t, Text))
          BY <1>5, <2>1, <4>1, TokenMade
        <4>3. QED
          BY <1>1, <4>1, <4>2
      <3>4. QED
        BY <3>1, <3>2, <3>3
    <2>4. QED
      BY <1>1, <2>3 DEF TokensInv
  <1>6. QED
    BY <1>1, <1>4, <1>5, TokensGrow

\* Between two tokens, and outside scanner_read_next, no recogniser is at work.
LEMMA RestLocals ==
  ASSUME NEW label \in {"new", "open", "idle", "destroyed"}, NEW f, NEW d, NEW r, NEW text
  PROVE  /\ WordAt(label, f, d, r) /\ OpAt(label, f, d, r) /\ StrAt(label, f, d, r)
         /\ CharAt(label, f, d, r) /\ NumAt(label, f, d)
         /\ OpEnds(label, f, text) /\ NumSure(label, f, d, text)
  <1>1. label \notin {"word", "word_peek", "word_next", "eat", "second", "third", "operator",
                      "string_peek", "string", "string_end", "char", "char_peek", "char_end",
                      "number", "number_unsigned", "number_copy", "number_end"}
    OBVIOUS
  <1>2. WordAt(label, f, d, r)
    BY <1>1 DEF WordAt
  <1>3. OpAt(label, f, d, r) /\ OpEnds(label, f, text)
    BY <1>1 DEF OpAt, OpEnds
  <1>4. StrAt(label, f, d, r)
    BY <1>1 DEF StrAt
  <1>5. CharAt(label, f, d, r)
    BY <1>1 DEF CharAt
  <1>6. NumAt(label, f, d) /\ NumSure(label, f, d, text)
    BY <1>1 DEF NumAt, NumSure, NumLabels
  <1>7. QED
    BY <1>2, <1>3, <1>4, <1>5, <1>6

\* What is so while scanner_read_all runs.
LexInv == Base /\ LocalsInv /\ TokensInv

\* It is so at the start.
LEMMA LexInit == ScannerInit => LexInv
  <1> SUFFICES ASSUME ScannerInit PROVE LexInv
    OBVIOUS
  <1>1. ~InUse /\ tokens = <<>>
    BY DEF ScannerInit, InUse, Running
  <1>2. Base
    BY <1>1, ScanInvInit, LifeInit DEF Base, NullLife
  <1>3. LocalsInv
    BY <1>1 DEF LocalsInv, Sure, Calm
  <1>4. TokensInv
    BY <1>1 DEF TokensInv
  <1>5. QED
    BY <1>2, <1>3, <1>4 DEF LexInv

\* Every step of scanner_read_all keeps the reader's part.
LEMMA BaseStep ==
  ASSUME Base, [ScannerNext]_allVars
  PROVE  Base'
  <1>1. ScanInv' /\ StreamLife'
    BY ScanInvStep, LifeStep DEF Base
  <1>2. NullLife'
    <2>1. CASE ReaderNew \/ ScannerDestroy
      <3>1. pc' \in {"open", "destroyed"}
        BY <2>1 DEF ReaderNew, Goto, ScannerDestroy
      <3>2. ~InUse'
        BY <3>1 DEF InUse, Running
      <3>3. QED
        BY <3>2 DEF NullLife
    <2>2. CASE ScannerNew
      BY <2>2, NullOpened DEF Base
    <2>3. CASE ScanStep
      <3>1. Typed2
        BY <1>1 DEF Base, ScanInv, IInv, Typed2
      <3>2. QED
        BY <2>3, <3>1, NullStep DEF Base
    <2>4. CASE UNCHANGED allVars
      <3>1. UNCHANGED <<reader, delivered, path, pc>>
        BY <2>4 DEF allVars, vars, scanner
      <3>2. QED
        BY <3>1 DEF Base, NullLife, InUse, SourceFile
    <2>5. QED
      BY <2>1, <2>2, <2>3, <2>4 DEF ScannerNext
  <1>3. QED
    BY <1>1, <1>2 DEF Base

\* And the rest.
LEMMA LexStep ==
  ASSUME LexInv, [ScannerNext]_allVars
  PROVE  LexInv'
  <1>1. Base /\ Base' /\ LocalsInv /\ TokensInv
    BY BaseStep DEF LexInv
  <1>2. LocalsInv' /\ TokensInv'
    <2>1. CASE ReaderNew \/ ScannerDestroy
      <3>1. pc' \in {"open", "destroyed"}
        BY <2>1 DEF ReaderNew, Goto, ScannerDestroy
      <3>2. ~InUse'
        BY <3>1 DEF InUse, Running
      <3>3. QED
        BY <3>2 DEF LocalsInv, TokensInv, Sure, Calm
    <2>2. CASE ScannerNew
      <3>1. tokens' = <<>> /\ pc' = "idle"
        BY <1>1, <2>2, OpenedLife DEF ScannerNew, Goto, Base
      <3>2. Recog' /\ RecogSure'
        BY <3>1, RestLocals DEF Recog, RecogSure
      <3>3. Len(tokens') = 0
        BY <3>1
      <3>4. QED
        BY <3>2, <3>3 DEF LocalsInv, TokensInv
    <2>3. CASE ScanStep
      BY <1>1, <2>3, LocalsScanStep, TokensScanStep
    <2>4. CASE UNCHANGED allVars
      <3>1. UNCHANGED <<reader, delivered, clean, path, pc, frame, tokens>>
        BY <2>4 DEF allVars, vars, scanner
      <3>2. Calm' = Calm /\ Sure' = Sure /\ Text' = Text
        BY <3>1 DEF Sure, Calm, InUse, Intact, SourceFile, Text
      <3>3. Recog' = Recog /\ RecogSure' = RecogSure
        BY <3>1, <3>2 DEF Recog, RecogSure
      <3>4. QED
        BY <1>1, <3>1, <3>2, <3>3 DEF LocalsInv, TokensInv
    <2>5. QED
      BY <2>1, <2>2, <2>3, <2>4 DEF ScannerNext
  <1>3. QED
    BY <1>1, <1>2 DEF LexInv

\* So it always is.
LEMMA LexAlways == ScannerSpec => []LexInv
  BY LexInit, LexStep, PTL DEF ScannerSpec

\* The tokens where a run looks at them.
LEMMA TokenFacts ==
  ASSUME LexInv, pc = "idle", Intact, ~reader.stateError, NEW k \in Scanned
  PROVE  /\ tokens[k] \in TokenSet /\ Lexeme(tokens[k], delivered)
         /\ tokens[k].content \in Seq(Byte) /\ tokens[k].start \in Nat /\ tokens[k].end \in Nat
         /\ SourceFile \notin Failing => Complete(tokens[k], Source)
         /\ Source = Text /\ Source \in Seq(Byte) /\ Len(Source) \in Nat
         /\ delivered \in Seq(Byte) /\ Len(delivered) \in Nat
         /\ View(reader, delivered, Source)
  <1>1. Calm /\ InUse
    BY DEF Calm, InUse
  <1>2. k \in 1 .. Len(tokens) /\ tokens[k].type # "ERROR" /\ tokens[k] \in TokenSet
    BY DEF Scanned, LexInv, Base, ScanInv, ScanTypes
  <1>3. /\ Text \in Seq(Byte) /\ Len(Text) \in Nat
        /\ delivered \in Seq(Byte) /\ Len(delivered) \in Nat
        /\ reader.file = SourceFile /\ View(reader, delivered, Text)
    BY <1>1, NowView DEF LexInv
  <1>4. Source = Text
    BY <1>3 DEF Source, Text
  <1>5. Lexeme(tokens[k], delivered)
    BY <1>1, <1>2 DEF LexInv, TokensInv
  <1>6. SourceFile \notin Failing => Complete(tokens[k], Source)
    BY <1>1, <1>2, <1>4 DEF LexInv, TokensInv, Sure
  <1>7. tokens[k].content \in Seq(Byte) /\ tokens[k].start \in Nat /\ tokens[k].end \in Nat
    BY <1>2 DEF TokenSet
  <1>8. QED
    BY <1>2, <1>3, <1>4, <1>5, <1>6, <1>7

\* A number that the lookahead saw the end of has the type that its spelling calls for, and if
\* the type is not spelled out, no character behind it could have been one of the number's.
LEMMA LookedNumber ==
  ASSUME NEW t \in TokenSet, NEW text \in Seq(Byte), NEW d \in Seq(Byte),
         Lexeme(t, d), Complete(t, text), t.type \in NumberTypes, t.end - t.start <= SIZE,
         t.end < Len(text) \/ (t.end = Len(text) /\ text[t.end] \in DOMAIN Suffix \cup {100})
  PROVE  /\ t.type = ShapeType(SubSeq(text, t.start + 1, t.end))
         /\ t.type \in {"INT32", "FLOAT"} /\ t.end < Len(text) => Ender(text[t.end + 1])
         /\ t.type \in IntegerTypes => IntegerForm(text, t.start, Len(t.content), t.type)
  <1>1. /\ t.content \in Seq(Byte) /\ t.start \in Nat /\ t.end \in Nat /\ Len(t.content) \in Nat
        /\ Len(text) \in Nat /\ SIZE \in Nat
    BY SizeAssumption DEF TokenSet
  <1>2. t.end = t.start + Len(t.content)
    BY DEF Lexeme
  <1>3. t.start # Len(text) /\ t.start < Len(text)
    BY <1>1, <1>2 DEF Complete
  <1>4. PICK f \in FrameSet :
          /\ Decided(f, text)
          /\ f.type = t.type /\ f.content = t.content /\ f.start = t.start
          /\ Len(f.content) < f.seeked => t.end >= Len(text)
    BY <1>3 DEF Complete
  <1> DEFINE q == f.seeked
  <1>5. q \in Nat
    BY <1>1 DEF FrameSet
  <1>6. /\ Len(t.content) <= q
        /\ \A i \in 1 .. q - 1 : t.start + i <= Len(text) =>
             text[t.start + i] \notin DOMAIN Suffix \cup {100}
        /\ t.start + q <= Len(text) /\ q <= SIZE =>
             /\ t.type = ShapeType(SubSeq(text, t.start + 1, t.start + q))
             /\ t.type \in {"INT32", "FLOAT"} /\ t.start + q < Len(text) =>
                  Ender(text[t.start + q + 1])
             /\ t.type \in IntegerTypes => IntegerForm(text, t.start, q, t.type)
    BY <1>4 DEF Decided
  <1>7. Len(t.content) = q
    <2>1. SUFFICES ASSUME Len(t.content) < q PROVE FALSE
      BY <1>1, <1>5, <1>6
    <2>2. t.end >= Len(text)
      BY <1>4, <2>1
    <2>3. t.end = Len(text) /\ text[t.end] \in DOMAIN Suffix \cup {100}
      BY <1>1, <2>2
    <2>4. Len(t.content) \in 1 .. q - 1 /\ t.start + Len(t.content) <= Len(text)
      BY <1>1, <1>2, <1>3, <1>5, <2>1, <2>3
    <2>5. QED
      BY <1>2, <1>6, <2>3, <2>4
  <1>8. t.start + q = t.end /\ q <= SIZE /\ t.start + q <= Len(text)
    BY <1>1, <1>2, <1>7
  <1>9. QED
    BY <1>6, <1>7, <1>8

\* The type of a number, sign, suffix and point and all, is the one its spelling calls for,
\* wherever the chunks of the file fall: scanner_consume_number decides it by looking ahead.
THEOREM TypeFromShapeHolds == ScannerSpec => []TypeFromShape
  <1>1. LexInv => TypeFromShape
    <2> SUFFICES ASSUME LexInv, Foreseen, NEW k \in Scanned, Looked(tokens[k])
                 PROVE  tokens[k].type = ShapeType(TextOf(tokens[k]))
      BY DEF TypeFromShape
    <2> DEFINE t == tokens[k]
    <2>1. pc = "idle" /\ Intact /\ ~reader.stateError /\ SourceFile \notin Failing
      BY DEF Foreseen, Undisturbed
    <2>2. /\ t \in TokenSet /\ Lexeme(t, delivered) /\ Complete(t, Source)
          /\ t.end \in Nat /\ Source \in Seq(Byte) /\ Len(Source) \in Nat /\ delivered \in Seq(Byte)
      BY <2>1, TokenFacts
    <2>3. /\ t.type \in NumberTypes /\ t.end - t.start <= SIZE
          /\ t.end < Len(Source)
             \/ (t.end = Len(Source) /\ Source[t.end] \in DOMAIN Suffix \cup {100})
      BY DEF Looked, IsNumber
    <2>4. t.type = ShapeType(SubSeq(Source, t.start + 1, t.end))
      <3> HIDE DEF t
      <3>1. QED
        BY <2>2, <2>3, LookedNumber
    <2>5. Clip(t.end) = t.end
      BY <2>2, <2>3 DEF Clip
    <2>6. QED
      BY <2>4, <2>5 DEF TextOf
  <1>2. QED
    BY <1>1, LexAlways, PTL

\* No pair is longer than two characters.
LEMMA PairsLength ==
  ASSUME NEW s \in Pairs, NEW c \in Byte
  PROVE  s \o <<c>> \notin Pairs
  <1>1. \A p \in Pairs : Len(p) = 2
    BY DEF Pairs, MINUS, EXCLAM
  <1>2. s \in Seq(Byte)
    <2>1. /\ 61 \in Byte /\ 43 \in Byte /\ 62 \in Byte /\ 60 \in Byte
          /\ MINUS \in Byte /\ EXCLAM \in Byte
      BY DEF MINUS, EXCLAM, Byte
    <2>2. \A a, b \in Byte : <<a, b>> \in Seq(Byte)
      OBVIOUS
    <2>3. \E a, b \in Byte : s = <<a, b>>
      BY <2>1, Zenon DEF Pairs
    <2>4. QED
      BY <2>2, <2>3
  <1> DEFINE u == <<c>>
  <1>3. u \in Seq(Byte) /\ Len(u) = 1
    OBVIOUS
  <1> HIDE DEF u
  <1>4. Len(s \o u) = 2 + 1
    <2>1. Len(s \o u) = Len(s) + Len(u)
      BY <1>2, <1>3, ConcatProperties, Zenon
    <2>2. QED
      BY <1>1, <1>3, <2>1
  <1>5. s \o u \notin Pairs
    <2> DEFINE w == s \o u
    <2> HIDE DEF w
    <2>1. Len(w) = 3
      BY <1>4 DEF w
    <2>2. w \notin Pairs
      BY <1>1, <2>1
    <2>3. QED
      BY <2>2 DEF w
  <1>6. QED
    BY <1>5 DEF u

\* Words, operators and numbers end where they must: scanner_read_next takes the longest
\* token there is, wherever the chunks of the file fall.  A buffer of a single byte cannot
\* show the second character of an operator.
THEOREM MaximalMunchHolds ==
  ASSUME SIZE >= 2
  PROVE  ScannerSpec => []MaximalMunch
  <1>1. LexInv => MaximalMunch
    <2> SUFFICES ASSUME LexInv, Foreseen, NEW k \in Scanned, tokens[k].end < Len(Source)
                 PROVE  LET t == tokens[k]
                            after == Source[t.end + 1]
                        IN  /\ t.type = "WORD" => ~IsWordChar(after)
                            /\ t.type = "OPERATOR" => t.content \o <<after>> \notin Pairs
                            /\ t.type \in {"INT32", "FLOAT"} /\ Looked(t) =>
                                 ~IsDigit(after) /\ after \notin {DOT, 117, 100} \cup DOMAIN Suffix
      BY DEF MaximalMunch
    <2> DEFINE t == tokens[k]
               after == Source[t.end + 1]
    <2>1. pc = "idle" /\ Intact /\ ~reader.stateError /\ SourceFile \notin Failing
      BY DEF Foreseen, Undisturbed
    <2>2. /\ t \in TokenSet /\ Lexeme(t, delivered) /\ Complete(t, Source)
          /\ t.content \in Seq(Byte) /\ t.start \in Nat /\ t.end \in Nat
          /\ Source \in Seq(Byte) /\ Len(Source) \in Nat /\ delivered \in Seq(Byte)
      BY <2>1, TokenFacts
    <2>3. t.end < Len(Source) /\ after \in Byte
      BY <2>2
    <2> HIDE DEF t
    <2>4. t.type = "WORD" => ~IsWordChar(after)
      BY <2>2, <2>3 DEF Complete
    <2>5. ASSUME t.type = "OPERATOR" PROVE t.content \o <<after>> \notin Pairs
      <3>1. Alone(t, Source) /\ t.end = t.start + Len(t.content)
            /\ (Len(t.content) = 1 \/ t.content \in Pairs)
        BY <2>2, <2>5 DEF Complete, Lexeme
      <3>2. CASE Len(t.content) = 1
        <4>1. <<t.content[1], after>> \notin Pairs
          <5>1. t.start + 1 < Len(Source) /\ t.end + 1 = t.start + 2
            BY <2>2, <2>3, <3>1, <3>2
          <5>2. QED
            BY <3>1, <3>2, <5>1 DEF Alone
        <4>2. t.content \o <<after>> = <<t.content[1], after>>
          <5> DEFINE u == t.content \o <<after>>
                     v == <<t.content[1], after>>
                     a == <<after>>
          <5>1. t.content[1] \in Byte
            BY <2>2, <3>2
          <5>2. v \in Seq(Byte) /\ Len(v) = 2 /\ v[1] = t.content[1] /\ v[2] = after
            BY <2>3, <5>1
          <5>3. a \in Seq(Byte) /\ Len(a) = 1 /\ a[1] = after
            BY <2>3
          <5> HIDE DEF v, a
          <5>4. t.content \o a \in Seq(Byte) /\ Len(t.content \o a) = 2
                /\ (t.content \o a)[1] = t.content[1] /\ (t.content \o a)[2] = a[1]
            <6> DEFINE x == t.content
            <6>1. x \in Seq(Byte) /\ Len(x) = 1
              BY <2>2, <3>2
            <6> HIDE DEF x
            <6>2. /\ x \o a \in Seq(Byte) /\ Len(x \o a) = Len(x) + Len(a)
                  /\ \A i \in 1 .. Len(x) + Len(a) :
                       (x \o a)[i] = IF i <= Len(x) THEN x[i] ELSE a[i - Len(x)]
              BY <5>3, <6>1, ConcatProperties, Zenon
            <6>3. /\ x \o a \in Seq(Byte) /\ Len(x \o a) = 2
                  /\ (x \o a)[1] = x[1] /\ (x \o a)[2] = a[1]
              BY <5>3, <6>1, <6>2
            <6>4. QED
              BY <6>3 DEF x
          <5>5. \A i \in 1 .. 2 : (t.content \o a)[i] = v[i]
            <6>1. \A i \in 1 .. 2 : i = 1 \/ i = 2
              OBVIOUS
            <6>2. QED
              BY <5>2, <5>3, <5>4, <6>1
          <5>6. t.content \o a = v
            BY <5>2, <5>4, <5>5, SeqEqual
          <5>7. QED
            BY <5>6 DEF a, v
        <4>3. QED
          BY <4>1, <4>2
      <3>3. QED
        BY <2>3, <3>1, <3>2, PairsLength
    <2>6. ASSUME t.type \in {"INT32", "FLOAT"}, Looked(t)
          PROVE  ~IsDigit(after) /\ after \notin {DOT, 117, 100} \cup DOMAIN Suffix
      <3>1. t.type \in NumberTypes /\ t.end - t.start <= SIZE
        BY <2>6 DEF Looked, IsNumber
      <3>2. Ender(after)
        BY <2>2, <2>3, <2>6, <3>1, LookedNumber
      <3>3. QED
        BY <3>2 DEF Ender
    <2>7. QED
      BY <2>4, <2>5, <2>6 DEF t
  <1>2. QED
    BY <1>1, LexAlways, PTL

(***************************************************************************)
(* A character literal at the end of the file                              *)
(*                                                                         *)
(* Over a file that the buffer holds as a whole, a lookahead beyond the    *)
(* end leaves bytes behind it that are read like others.  None of them     *)
(* gets into a character literal that begins in the file: at a quote that  *)
(* is the file's last byte no such lookahead has been made yet.            *)
(***************************************************************************)

\* The file fits the buffer and its reads succeed.
AtOnce == SourceFile \notin Failing /\ Len(Text) < SIZE

\* A slash is next where scanner_skip_whitespace looks behind one.
SlashAt(label, r) == label = "skip_slash" => Shows(r, 0, SLASH)

\* Until the last byte has been taken of a file that ends in a quote, the buffer holds what
\* is left of the file and no more; but for the look behind that byte in a block comment,
\* which is followed by taking it.
Exact(label, f, d, r, text) ==
  /\ Len(d) < Len(text) /\ text[Len(text)] = APOSTROPHE =>
       \/ Len(d) + Unread(r) = Len(text)
       \/ /\ label = "eat" /\ f.after = "block_comment" /\ f.left = 1
          /\ Len(d) + 1 = Len(text)

\* A character literal that begins in the file ends in it.
CharIn(label, f, d, r, text) ==
  f.start < Len(text) =>
    /\ label = "char" /\ Len(d) = Len(text) => Unread(r) = 0
    /\ label = "char_peek" => r.stateEOF \/ f.start + 2 <= Len(text)
    /\ label = "char_end" \/ (label = "eat" /\ f.after = "char_end") => f.start + 3 <= Len(text)

\* What is known of a reader that holds the whole file.
LEMMA AtOnceFacts ==
  ASSUME Base, Base', ScanStep, Calm', AtOnce
  PROVE  /\ Sure /\ Sure' /\ AtOnce'
         /\ reader \in Reader /\ Sound(reader) /\ Whole(reader, delivered)
         /\ Text = Content[reader.file]
         /\ reader.bufferPosition \in Nat /\ reader.bufferLength \in Nat
         /\ reader'.bufferPosition \in Nat /\ reader'.bufferLength \in Nat
         /\ Len(delivered) + Unread(reader) >= Len(Text)
  <1>1. Calm /\ Text' = Text /\ SourceFile' = SourceFile /\ InUse /\ reader' \in Reader
    BY Onward DEF Calm
  <1>2. AtOnce' /\ Intact /\ Intact'
    BY <1>1 DEF AtOnce, Intact, Text
  <1>3. Sure /\ Sure'
    BY <1>1, <1>2 DEF Sure, AtOnce
  <1>4. /\ reader \in Reader /\ Sound(reader) /\ Whole(reader, delivered)
        /\ Text = Content[reader.file]
    BY <1>1, NowView DEF Base, ScanInv, IInv, TypeOK, Bounds, StreamLife, WholeLife, AtOnce, Text
  <1>5. /\ reader.bufferPosition \in Nat /\ reader.bufferLength \in Nat
        /\ reader'.bufferPosition \in Nat /\ reader'.bufferLength \in Nat
    <2>1. \A r \in Reader : r.bufferPosition \in Nat /\ r.bufferLength \in Nat
      BY SizeAssumption DEF Reader
    <2>2. QED
      BY <1>1, <1>4, <2>1
  <1>6. Len(delivered) + Unread(reader) >= Len(Text)
    BY <1>4 DEF Whole, Unread
  <1>7. QED
    BY <1>2, <1>3, <1>4, <1>5, <1>6

\* A call that finds what it asks for in the buffer refills nothing.
LEMMA CallsInside ==
  ASSUME Base, Base', ScanStep, Calm', AtOnce, Len(delivered) < Len(Text)
  PROVE  /\ Quiet \/ Peek => Unread(reader') = Unread(reader) /\ delivered' = delivered
         /\ Read => /\ Len(delivered') = Len(delivered) + 1
                    /\ Unread(reader') = Unread(reader) - 1
         /\ \A n \in Nat : PeekN(n) =>
              /\ delivered' = delivered
              /\ Len(delivered) + n < Len(Text) => Unread(reader') = Unread(reader)
  <1>1. /\ reader \in Reader /\ Sound(reader) /\ IsOpen(reader)
        /\ reader.bufferPosition \in Nat /\ reader.bufferLength \in Nat
        /\ Len(delivered) + Unread(reader) >= Len(Text)
        /\ Len(delivered) \in Nat /\ Len(Text) \in Nat /\ delivered \in Seq(Byte)
    BY Onward, AtOnceFacts
  <1>2. reader.bufferPosition < reader.bufferLength
    BY <1>1 DEF Unread
  <1>3. \A o \in Available(reader) : o.reader = reader /\ o.read = 1
    BY <1>1, <1>2, AvailableDetails
  <1>4. Quiet \/ Peek => Unread(reader') = Unread(reader) /\ delivered' = delivered
    <2>1. Quiet => reader' = reader /\ delivered' = delivered
      BY QuietDoes
    <2>2. Peek => reader' = reader /\ delivered' = delivered
      BY <1>3 DEF Peek
    <2>3. QED
      BY <2>1, <2>2
  <1>5. ASSUME Read
        PROVE  Len(delivered') = Len(delivered) + 1 /\ Unread(reader') = Unread(reader) - 1
    <2>1. \E o \in Available(reader) :
            \/ o.read = 0
            \/ /\ reader' = Advanced(o.reader)
               /\ delivered' = Append(delivered, o.reader.buffer[o.reader.bufferPosition])
      BY <1>5 DEF Read
    <2>2. /\ reader' = Advanced(reader)
          /\ delivered' = Append(delivered, reader.buffer[reader.bufferPosition])
      BY <1>3, <2>1
    <2>3. /\ Advanced(reader).bufferLength = reader.bufferLength
          /\ Advanced(reader).bufferPosition = reader.bufferPosition + 1
      BY <1>1, <1>2, AdvancedSound
    <2>4. Len(delivered') = Len(delivered) + 1
      BY <1>1, <2>2
    <2>5. Unread(reader') = Unread(reader) - 1
      BY <1>1, <2>2, <2>3 DEF Unread
    <2>6. QED
      BY <2>4, <2>5
  <1>6. ASSUME NEW n \in Nat, PeekN(n)
        PROVE  /\ delivered' = delivered
               /\ Len(delivered) + n < Len(Text) => Unread(reader') = Unread(reader)
    <2>1. delivered' = delivered
      BY <1>6 DEF PeekN
    <2>2. ASSUME Len(delivered) + n < Len(Text) PROVE reader' = reader
      <3>1. ~(reader.bufferPosition + n >= reader.bufferLength)
        BY <1>1, <2>2 DEF Unread
      <3>2. QED
        BY <1>6, <3>1 DEF PeekN
    <2>3. QED
      BY <2>1, <2>2
  <1>7. QED
    BY <1>4, <1>5, <1>6

\* The slash that has been seen is still next.
LEMMA SlashStep ==
  ASSUME Base, Base', ScanStep
  PROVE  SlashAt(pc', reader')
  <1>1. IInv /\ IsOpen(reader) /\ ScanTypes
    BY Onward DEF Base, ScanInv
  <1>2. SUFFICES ASSUME pc' = "skip_slash" PROVE Shows(reader', 0, SLASH)
    BY DEF SlashAt
  <1>3. Skip
    BY <1>1, <1>2, SkipGoes, WordGoes, NumberGoes DEF ScanStep, Afters
  <1>4. Peek /\ Answer = SLASH
    BY <1>2, <1>3 DEF Skip, SkipDone, EatThen, Continue, Goto
  <1>5. QED
    BY <1>1, <1>4, PeekDoes DEF SLASH, None

\* A lookahead in front of a file's last byte, a quote, stays in the file, but for the one in
\* a block comment.
LEMMA LooksInside ==
  ASSUME Base, Base', ScanStep, Calm', AtOnce, LocalsInv, SlashAt(pc, reader),
         Len(delivered) < Len(Text), Text[Len(Text)] = APOSTROPHE,
         SkipSlash \/ Second \/ Third \/ NumberSeek \/ NumberUnsigned
  PROVE  \E n \in Nat : PeekN(n) /\ Len(delivered) + n < Len(Text)
  <1>1. /\ Sure /\ Calm /\ View(reader, delivered, Text) /\ Typed2 /\ frame \in FrameSet
        /\ Len(delivered) \in Nat /\ Len(Text) \in Nat
    BY Onward, AtOnceFacts, Facts DEF Sure
  <1>2. Recog /\ RecogSure
    BY <1>1 DEF LocalsInv
  <1>3. ASSUME NEW c, Shows(reader, 0, c), c # APOSTROPHE
        PROVE  Len(delivered) + 1 < Len(Text)
    <2>1. 0 \in Nat /\ Len(delivered) + 0 < Len(Text) /\ Len(delivered) + 0 + 1 = Len(delivered) + 1
      BY <1>1
    <2>2. c = Text[Len(delivered) + 1]
      BY <1>1, <1>3, <2>1 DEF View
    <2>3. Len(delivered) + 1 # Len(Text)
      BY <1>3, <2>2
    <2>4. QED
      BY <1>1, <2>3
  <1>4. CASE SkipSlash \/ Second \/ Third
    <2>1. PeekN(1) /\ 1 \in Nat
      BY <1>4 DEF SkipSlash, Second, Third
    <2>2. CASE SkipSlash
      <3>1. Shows(reader, 0, SLASH) /\ SLASH # APOSTROPHE
        BY <2>2 DEF SkipSlash, SlashAt, SLASH, APOSTROPHE
      <3>2. QED
        BY <1>3, <2>1, <3>1
    <2>3. CASE Second \/ Third
      <3>1. Shows(reader, 0, frame.next) /\ frame.next \in Ambiguous
        BY <1>2, <2>3 DEF Second, Third, Recog, OpAt
      <3>2. frame.next # APOSTROPHE
        BY <3>1 DEF Ambiguous, APOSTROPHE, MINUS, EXCLAM, SLASH
      <3>3. QED
        BY <1>3, <2>1, <3>1, <3>2
    <2>4. QED
      BY <1>4, <2>2, <2>3
  <1>5. CASE NumberSeek \/ NumberUnsigned
    <2> DEFINE n == frame.seeked
    <2>1. PeekN(n) /\ n \in Nat
      BY <1>1, <1>5, SizeAssumption DEF NumberSeek, NumberUnsigned, FrameSet
    <2>2. frame.start = Len(delivered)
      BY <1>2, <1>5 DEF NumberSeek, NumberUnsigned, Recog, NumAt
    <2>3. frame.start < Len(Text)
      BY <2>2
    <2>4. CASE NumberSeek
      <3>1. Looks(frame, Text)
        BY <1>2, <2>3, <2>4 DEF NumberSeek, RecogSure, NumSure
      <3>2. /\ frame.start + n <= Len(Text)
            /\ \A i \in 1 .. n : NumberChar(Text[frame.start + i])
        BY <3>1 DEF Looks
      <3>3. frame.start + n # Len(Text)
        <4>1. SUFFICES ASSUME frame.start + n = Len(Text) PROVE FALSE
          OBVIOUS
        <4>2. n \in 1 .. n
          BY <1>1, <2>1, <2>2, <4>1
        <4>3. NumberChar(Text[frame.start + n])
          BY <3>2, <4>2
        <4>4. NumberChar(APOSTROPHE)
          BY <4>1, <4>3
        <4>5. QED
          BY <4>4 DEF NumberChar, IsDigit, DOT, MINUS, APOSTROPHE
      <3>4. QED
        BY <1>1, <2>1, <2>2, <3>2, <3>3
    <2>5. CASE NumberUnsigned
      <3>1. Marked(frame, Text)
        BY <1>2, <2>3, <2>5 DEF NumberUnsigned, RecogSure, NumSure
      <3>2. frame.start + n <= Len(Text) /\ Text[frame.start + n] = 117
        BY <3>1 DEF Marked
      <3>3. frame.start + n # Len(Text)
        BY <3>2 DEF APOSTROPHE
      <3>4. QED
        BY <1>1, <2>1, <2>2, <3>2, <3>3
    <2>6. QED
      BY <1>5, <2>4, <2>5
  <1>6. QED
    BY <1>4, <1>5

\* The look of a block comment at the file's last byte, a quote, is followed by taking it.
LEMMA LooksBehind ==
  ASSUME Base, Base', ScanStep, Calm', AtOnce, BlockSecond, Len(delivered) + 1 = Len(Text)
  PROVE  /\ pc' = "eat" /\ frame'.after = "block_comment" /\ frame'.left = 1
         /\ delivered' = delivered
  <1>1. /\ IInv /\ IsOpen(reader) /\ Typed2 /\ frame \in FrameSet /\ View(reader', delivered', Text)
        /\ Len(delivered) \in Nat /\ Len(Text) \in Nat
    BY Onward, AtOnceFacts, Facts DEF Sure
  <1>2. PeekN(1) /\ 1 \in Nat /\ 1 \in 0..SIZE
    BY SizeAssumption DEF BlockSecond
  <1>3. delivered' = delivered /\ (Answer # None => Shows(reader', 1, Answer))
    BY <1>1, <1>2, PeekNDoes
  <1>4. Answer # SLASH
    <2>1. SUFFICES ASSUME Answer = SLASH PROVE FALSE
      OBVIOUS
    <2>2. Shows(reader', 1, SLASH)
      BY <1>3, <2>1 DEF SLASH, None
    <2>3. SLASH = NUL
      BY <1>1, <1>2, <1>3, <2>2 DEF View
    <2>4. QED
      BY <2>3 DEF SLASH, NUL
  <1>5. EatThen(1, "block_comment", frame)
    BY <1>4 DEF BlockSecond
  <1>6. QED
    BY <1>1, <1>3, <1>5, EatSets

\* At every step.
LEMMA ExactStep ==
  ASSUME Base, Base', ScanStep, Calm', AtOnce, LocalsInv, SlashAt(pc, reader),
         Exact(pc, frame, delivered, reader, Text)
  PROVE  Exact(pc', frame', delivered', reader', Text)
  <1>1. /\ Typed2 /\ ScanTypes /\ delivered \in Seq(Byte) /\ Grown(delivered, delivered')
        /\ Len(delivered) \in Nat /\ Len(delivered') \in Nat /\ Len(Text) \in Nat
        /\ Unread(reader) \in Int /\ Unread(reader') \in Int
    BY Onward, AtOnceFacts DEF Base, ScanInv, Unread
  <1>2. SUFFICES ASSUME Len(delivered') < Len(Text), Text[Len(Text)] = APOSTROPHE
                 PROVE  \/ Len(delivered') + Unread(reader') = Len(Text)
                        \/ /\ pc' = "eat" /\ frame'.after = "block_comment" /\ frame'.left = 1
                           /\ Len(delivered') + 1 = Len(Text)
    BY DEF Exact
  <1>3. Len(delivered) < Len(Text)
    <2>1. Len(delivered') = Len(delivered) \/ Len(delivered') = Len(delivered) + 1
      BY <1>1 DEF Grown
    <2>2. QED
      BY <1>1, <1>2, <2>1
  <1>4. CASE Eat
    <2>1. Len(delivered') = Len(delivered) + 1 /\ Unread(reader') = Unread(reader) - 1
      BY <1>3, <1>4, CallsInside DEF Eat
    <2>2. Len(delivered) + Unread(reader) = Len(Text)
      BY <1>1, <1>2, <1>3, <2>1 DEF Exact
    <2>3. QED
      BY <1>1, <2>1, <2>2
  <1>5. CASE ~Eat
    <2>1. pc # "eat"
      BY <1>5
      DEF ScanStep, ReadNext, Skip, SkipSlash, LineComment, BlockComment, BlockSecond, Dispatch,
          Second, Third, Operator, WordFirst, WordPeek, WordNext, NumberSeek, NumberUnsigned,
          NumberCopy, NumberEnd, StringPeek, String, StringEnd, CharFirst, CharPeek, CharEnd
    <2>2. Len(delivered) + Unread(reader) = Len(Text)
      BY <1>2, <1>3, <2>1 DEF Exact
    <2>3. CASE Quiet \/ Peek \/ Read
      BY <1>1, <1>3, <2>2, <2>3, CallsInside
    <2>4. CASE SkipSlash \/ Second \/ Third \/ NumberSeek \/ NumberUnsigned
      <3>1. PICK n \in Nat : PeekN(n) /\ Len(delivered) + n < Len(Text)
        BY <1>2, <1>3, <2>4, LooksInside
      <3>2. delivered' = delivered /\ Unread(reader') = Unread(reader)
        BY <1>3, <3>1, CallsInside
      <3>3. QED
        BY <2>2, <3>2
    <2>5. CASE BlockSecond
      <3>1. PeekN(1) /\ 1 \in Nat
        BY <2>5 DEF BlockSecond
      <3>2. CASE Len(delivered) + 1 < Len(Text)
        <4>1. delivered' = delivered /\ Unread(reader') = Unread(reader)
          BY <1>3, <3>1, <3>2, CallsInside
        <4>2. QED
          BY <2>2, <4>1
      <3>3. CASE Len(delivered) + 1 = Len(Text)
        BY <2>5, <3>3, LooksBehind
      <3>4. QED
        BY <1>1, <1>3, <3>2, <3>3
    <2>6. \/ Quiet \/ Peek \/ Read
          \/ SkipSlash \/ Second \/ Third \/ NumberSeek \/ NumberUnsigned \/ BlockSecond
      BY <1>5, Zenon
      DEF ScanStep, ReadNext, Skip, LineComment, BlockComment, Dispatch, Operator, WordFirst,
          WordPeek, WordNext, NumberCopy, NumberEnd, StringPeek, String, StringEnd, CharFirst,
          CharPeek, CharEnd
    <2>7. QED
      BY <2>3, <2>4, <2>5, <2>6
  <1>6. QED
    BY <1>4, <1>5

\* A read of a whole buffer that has been read empty meets the end.
LEMMA ReadsNothing ==
  ASSUME Base, Base', ScanStep, Calm', AtOnce, Read, Unread(reader) = 0
  PROVE  reader'.stateEOF
  <1>1. /\ reader \in Reader /\ Sound(reader) /\ Whole(reader, delivered) /\ IsOpen(reader)
        /\ reader.bufferPosition \in Nat /\ reader.bufferLength \in Nat /\ IInv
        /\ delivered \in Seq(Byte) /\ ~reader.stateError /\ ~reader'.stateError
    BY Onward, AtOnceFacts DEF Calm
  <1>2. reader.bufferPosition >= reader.bufferLength
    BY <1>1 DEF Unread
  <1>3. CASE reader.stateEOF
    BY <1>1, <1>3, ReadDoes DEF Sticks
  <1>4. CASE ~reader.stateEOF
    <2>1. \A o \in Available(reader) : o.read = 0
      <3>1. SUFFICES ASSUME NEW o \in Refill(reader) PROVE o.read = 0
        BY <1>2 DEF Available
      <3>2. PICK f \in Fread(reader, SIZE - Remaining(reader)) : o.read = f.got
        BY <1>1, <1>4, <3>1 DEF Refill
      <3>3. QED
        BY <1>1, <3>2, WholeGetsNothing
    <2>2. Answer = None
      BY <2>1 DEF Read, Returns, Answer
    <2>3. Answer \notin Byte
      BY <2>2 DEF None, Byte
    <2>4. QED
      BY <1>1, <2>3, ReadDoes
  <1>5. QED
    BY <1>3, <1>4

\* At every step.
LEMMA CharInStep ==
  ASSUME Base, Base', ScanStep, Calm', AtOnce, LocalsInv,
         Exact(pc, frame, delivered, reader, Text), CharIn(pc, frame, delivered, reader, Text)
  PROVE  CharIn(pc', frame', delivered', reader', Text)
  <1>1. /\ Typed2 /\ ScanTypes /\ delivered \in Seq(Byte) /\ frame \in FrameSet /\ IInv
        /\ IsOpen(reader) /\ frame.start \in Nat /\ ~reader'.stateError /\ Calm
        /\ Len(delivered) \in Nat /\ Len(delivered') \in Nat /\ Len(Text) \in Nat
        /\ Unread(reader) \in Int /\ Unread(reader') \in Int
        /\ View(reader, delivered, Text) /\ View(reader', delivered', Text)
    <2>1. /\ Typed2 /\ delivered \in Seq(Byte) /\ IInv /\ IsOpen(reader)
          /\ Len(delivered) \in Nat /\ Len(delivered') \in Nat /\ Len(Text) \in Nat
          /\ Calm' => Calm
          /\ Intact => View(reader, delivered, Text)
          /\ Intact' => View(reader', delivered', Text)
      BY Onward
    <2>2. /\ Sure /\ Sure'
          /\ reader.bufferPosition \in Nat /\ reader.bufferLength \in Nat
          /\ reader'.bufferPosition \in Nat /\ reader'.bufferLength \in Nat
      BY AtOnceFacts
    <2>3. Calm /\ Intact /\ Intact'
      BY <2>1, <2>2 DEF Sure
    <2>4. ~reader'.stateError
      BY DEF Calm
    <2>5. frame \in FrameSet /\ frame.start \in Nat
      BY <2>1, Facts
    <2>6. ScanTypes
      BY DEF Base, ScanInv
    <2>7. Unread(reader) \in Int /\ Unread(reader') \in Int
      BY <2>2 DEF Unread
    <2>8. QED
      BY <2>1, <2>2, <2>3, <2>4, <2>5, <2>6, <2>7
  <1>2. CharAt(pc, frame, delivered, reader)
    BY <1>1 DEF LocalsInv, Recog
  <1>3. CASE Eat
    <2>1. /\ Read /\ pc = "eat" /\ frame'.after = frame.after /\ frame'.start = frame.start
          /\ pc' = IF frame.left = 1 THEN frame.after ELSE "eat"
      BY <1>1, <1>3, EatKeeps
    <2>2. frame.after \in Afters
      BY <1>1, <2>1 DEF ScanTypes, Suits
    <2>3. CASE frame.after = "char"
      <3>1. SUFFICES ASSUME frame.start < Len(Text), pc' = "char", Len(delivered') = Len(Text)
                     PROVE  Unread(reader') = 0
        BY <2>1, <2>3 DEF CharIn
      <3>2. /\ frame.left = 1 /\ Len(delivered) = frame.start
            /\ Shows(reader, 0, APOSTROPHE)
        <4>1. frame.left = 1 /\ Pending(<<APOSTROPHE>>, delivered, frame.start, 1, reader)
          BY <1>2, <2>1, <2>3, <3>1 DEF CharAt
        <4>2. Len(<<APOSTROPHE>>) = 1 /\ <<APOSTROPHE>>[1] = APOSTROPHE
          OBVIOUS
        <4>3. Len(delivered) + 1 = frame.start + 1
          BY <4>1, <4>2 DEF Pending
        <4>4. 0 \in 0 .. 1 - 1 /\ (1 - 1) + (0 + 1) = 1
          OBVIOUS
        <4>5. Shows(reader, 0, <<APOSTROPHE>>[(Len(<<APOSTROPHE>>) - 1) + (0 + 1)])
          BY <4>1, <4>4 DEF Pending
        <4>6. QED
          BY <1>1, <4>1, <4>2, <4>3, <4>4, <4>5
      <3>3. Len(delivered') = Len(delivered) + 1 /\ Unread(reader') = Unread(reader) - 1
        BY <2>1, <3>1, <3>2, CallsInside
      <3>4. Text[Len(Text)] = APOSTROPHE
        <4>1. 0 \in Nat /\ Len(delivered) + 0 < Len(Text) /\ Len(delivered) + 0 + 1 = Len(Text)
          BY <1>1, <3>1, <3>2, <3>3
        <4>2. QED
          BY <1>1, <3>2, <4>1 DEF View
      <3>5. Len(delivered) + Unread(reader) = Len(Text)
        BY <2>3, <3>1, <3>2, <3>4 DEF Exact
      <3>6. QED
        BY <1>1, <3>1, <3>3, <3>5
    <2>4. CASE frame.after = "char_end"
      BY <2>1, <2>4 DEF CharIn
    <2>5. CASE frame.after \notin {"char", "char_end"}
      BY <2>1, <2>2, <2>5 DEF CharIn, Afters
    <2>6. QED
      BY <2>3, <2>4, <2>5
  <1>4. CASE CharFirst
    <2>1. /\ Read /\ pc = "char" /\ pc' = "char_peek"
          /\ frame' = [frame EXCEPT !.content = <<Char(Answer)>>]
      BY <1>4 DEF CharFirst, Continue
    <2>2. frame'.start = frame.start
      BY <1>1, <2>1 DEF FrameSet
    <2>3. frame.start + 1 = Len(delivered)
      BY <1>2, <2>1 DEF CharAt
    <2>4. ASSUME frame.start < Len(Text), ~(frame.start + 2 <= Len(Text))
          PROVE  reader'.stateEOF
      <3>1. Len(delivered) = Len(Text)
        BY <1>1, <2>3, <2>4
      <3>2. Unread(reader) = 0
        BY <2>1, <2>4, <3>1 DEF CharIn
      <3>3. QED
        BY <2>1, <3>2, ReadsNothing
    <2>5. QED
      BY <2>1, <2>2, <2>4 DEF CharIn
  <1>5. CASE CharPeek
    <2>1. CASE pc' = "idle"
      BY <2>1 DEF CharIn
    <2>2. CASE pc' = "eat"
      <3>1. pc = "char_peek" /\ Peek /\ Answer = APOSTROPHE /\ EatThen(1, "char_end", frame)
        BY <1>5, <2>2 DEF CharPeek, EmitHere, Emit
      <3>2. frame'.after = "char_end" /\ frame'.start = frame.start
        BY <1>1, <3>1, EatSets
      <3>3. APOSTROPHE # None /\ APOSTROPHE # NUL
        BY DEF APOSTROPHE, None, NUL
      <3>4. delivered' = delivered /\ Shows(reader', 0, APOSTROPHE) /\ ~reader.stateEOF
        BY <1>1, <3>1, <3>3, PeekDoes DEF Sticks
      <3>5. frame.start + 2 = Len(delivered)
        BY <1>2, <3>1, <3>4 DEF CharAt
      <3>6. ASSUME frame.start < Len(Text) PROVE frame.start + 3 <= Len(Text)
        <4>1. frame.start + 2 <= Len(Text)
          BY <3>1, <3>4, <3>6 DEF CharIn
        <4>2. Len(delivered') + 0 # Len(Text)
          <5>1. 0 \in Nat
            OBVIOUS
          <5>2. QED
            BY <1>1, <3>3, <3>4, <5>1 DEF View
        <4>3. QED
          BY <1>1, <3>4, <3>5, <4>1, <4>2
      <3>7. QED
        BY <2>2, <3>2, <3>6 DEF CharIn
    <2>3. QED
      BY <1>5, <2>1, <2>2, NumberGoes
  <1>6. CASE ~Eat /\ ~CharFirst /\ ~CharPeek
    <2>1. pc' \notin {"char", "char_peek", "char_end"}
      BY <1>1, <1>6, SkipGoes, WordGoes, NumberGoes DEF ScanStep
    <2>2. pc' = "eat" => frame'.after # "char_end"
      <3>1. CASE String
        <4>1. pc' = "eat" => EatThen(1, "string_end", frame)
          BY <3>1 DEF String, Continue
        <4>2. pc' = "eat" => frame'.after = "string_end"
          BY <1>1, <4>1, EatSets
        <4>3. QED
          BY <4>2
      <3>2. CASE Dispatch
        <4>1. Answer \in Byte \cup {None} /\ TypeOK
          BY <1>1, Facts DEF Typed2
        <4>2. Frame(Answer) \in FrameSet
          BY <4>1, FrameFresh
        <4>3. Answer \in Single => [Frame(Answer) EXCEPT !.content = <<Answer>>] \in FrameSet
          <5>1. Answer \in Single => Answer \in Byte
            BY OpBytes
          <5>2. QED
            BY <4>1, <5>1, FrameStored
        <4>4. pc' = "eat" => \E f \in FrameSet : \E label \in {"string_peek", "char", "operator"} :
                EatThen(1, label, f)
          BY <3>2, <4>2, <4>3 DEF Dispatch, EmitHere, Emit, Continue
        <4>5. QED
          BY <4>4, EatSets
      <3>3. CASE ~String /\ ~Dispatch
        BY <1>1, <1>6, <3>3, EatOthers
      <3>4. QED
        BY <3>1, <3>2, <3>3
    <2>3. QED
      BY <2>1, <2>2 DEF CharIn
  <1>7. QED
    BY <1>3, <1>4, <1>5, <1>6

\* The character literals among the tokens lie in the file.
CharsInside ==
  \A k \in 1 .. Len(tokens) :
    tokens[k].type = "CHAR" /\ tokens[k].start < Len(Text) => tokens[k].end <= Len(Text)

\* What is so at the end of a file that is held as a whole.
EdgeInv ==
  /\ SlashAt(pc, reader)
  /\ Calm /\ AtOnce =>
       /\ Exact(pc, frame, delivered, reader, Text)
       /\ CharIn(pc, frame, delivered, reader, Text)
       /\ CharsInside

\* It is so at the start.
LEMMA EdgeInit == ScannerInit => EdgeInv
  <1> SUFFICES ASSUME ScannerInit PROVE EdgeInv
    OBVIOUS
  <1>1. ~InUse /\ pc = "new"
    BY DEF ScannerInit, InUse, Running
  <1>2. QED
    BY <1>1 DEF EdgeInv, SlashAt, Calm

\* The character literal that scanner_consume_char makes.
LEMMA CharsInsideStep ==
  ASSUME Base, Base', ScanStep, Calm', AtOnce, LocalsInv, TokensInv,
         CharIn(pc, frame, delivered, reader, Text), CharsInside
  PROVE  CharsInside'
  <1>1. /\ Typed2 /\ ScanTypes /\ Calm /\ Text' = Text /\ Len(Text) \in Nat /\ frame \in FrameSet
        /\ delivered \in Seq(Byte) /\ Len(delivered) \in Nat
    BY Onward, Facts DEF Base, ScanInv
  <1>2. tokens \in Seq(TokenSet) /\ Len(tokens) \in Nat
    BY <1>1 DEF ScanTypes
  <1>3. CASE tokens' = tokens
    BY <1>1, <1>3 DEF CharsInside
  <1>4. CASE pc' = "idle" /\ \E t \in TokenSet : tokens' = Append(tokens, t)
    <2>1. PICK t \in TokenSet : tokens' = Append(tokens, t)
      BY <1>4
    <2>2. /\ tokens'[Len(tokens')] = t /\ Len(tokens') = Len(tokens) + 1
          /\ \A k \in 1 .. Len(tokens) : tokens'[k] = tokens[k]
      BY <1>2, <2>1, LastToken
    <2>3. ASSUME t.type = "CHAR", t.start < Len(Text) PROVE t.end <= Len(Text)
      <3>1. CharEnd /\ Quiet /\ EmitLexeme("CHAR")
        <4>1. \A type : \A line, column, content, start :
                Emit(type, line, column, content, start) => t.type = type
          BY <1>2, <2>1, EmitIs
        <4>2. frame.type # "CHAR" \/ ~NumberEnd
          BY <1>1 DEF FrameSet, NumberTypes
        <4>3. QED
          BY <1>1, <1>4, <2>3, <4>1, <4>2, Makers DEF EmitLexeme, EmitHere, NumberError
      <3>2. t.start = frame.start /\ t.end = Len(delivered') /\ pc = "char_end"
        BY <1>2, <2>1, <3>1, EmitIs DEF EmitLexeme, CharEnd
      <3>3. delivered' = delivered
        BY <3>1, QuietDoes
      <3>4. CharAt("char_end", frame, delivered, reader)
        BY <1>1, <3>2 DEF LocalsInv, Recog
      <3>5. frame.start + 3 = Len(delivered)
        BY <3>4 DEF CharAt
      <3>6. frame.start + 3 <= Len(Text)
        BY <2>3, <3>2 DEF CharIn
      <3>7. QED
        BY <3>2, <3>3, <3>5, <3>6
    <2>4. SUFFICES ASSUME NEW k \in 1 .. Len(tokens'), tokens'[k].type = "CHAR",
                          tokens'[k].start < Len(Text)
                   PROVE  tokens'[k].end <= Len(Text)
      BY <1>1 DEF CharsInside
    <2>5. k \in 1 .. Len(tokens) \/ k = Len(tokens')
      BY <1>2, <2>2
    <2>6. CASE k \in 1 .. Len(tokens)
      BY <2>2, <2>4, <2>6 DEF CharsInside
    <2>7. CASE k = Len(tokens')
      BY <2>2, <2>3, <2>4, <2>7
    <2>8. QED
      BY <2>5, <2>6, <2>7
  <1>5. QED
    BY <1>1, <1>3, <1>4, TokensGrow

\* A file that is opened is held exactly.
LEMMA EdgeOpened ==
  ASSUME Base, Base', ScannerNew
  PROVE  EdgeInv'
  <1>1. tokens' = <<>> /\ pc' = "idle" /\ Len(tokens') = 0
    BY OpenedLife DEF ScannerNew, Goto, Base
  <1>2. SlashAt(pc', reader')
    BY <1>1 DEF SlashAt
  <1>3. SUFFICES ASSUME Calm', AtOnce' PROVE Exact(pc', frame', delivered', reader', Text')
    BY <1>1, <1>2 DEF EdgeInv, CharIn, CharsInside
  <1>4. SourceFile' = SourceFile
    BY DEF ScannerNew, Goto, SourceFile
  <1>5. Unread(reader') <= Len(Content[SourceFile]) /\ delivered' = <<>>
    BY <1>3, <1>4, NullOpened DEF AtOnce, Text, Base
  <1>6. Whole(reader', delivered') /\ reader'.file = SourceFile'
    BY <1>3 DEF AtOnce, Text, Base, StreamLife, Life, WholeLife, Calm, IsOpen
  <1>7. Len(delivered') = 0 /\ Unread(reader') \in Int /\ Len(Text') \in Nat
    <2>1. SourceFile \in Names
      BY SourceNamed DEF Base, ScanInv
    <2>2. Len(Text') \in Nat
      BY <1>4, <2>1, NamesAssumption DEF Text
    <2>3. reader' \in Reader
      BY DEF Base, ScanInv, IInv, TypeOK
    <2>4. Unread(reader') \in Int
      BY <2>3, SizeAssumption DEF Unread, Reader
    <2>5. QED
      BY <1>5, <2>2, <2>4
  <1>8. Len(delivered') + Unread(reader') >= Len(Text')
    BY <1>6 DEF Whole, Unread, Text
  <1>9. Unread(reader') <= Len(Text')
    BY <1>4, <1>5 DEF Text
  <1>10. QED
    BY <1>7, <1>8, <1>9 DEF Exact

\* Every step keeps it.
LEMMA EdgeStep ==
  ASSUME LexInv, LexInv', EdgeInv, [ScannerNext]_allVars
  PROVE  EdgeInv'
  <1>1. Base /\ Base' /\ LocalsInv /\ TokensInv
    BY DEF LexInv
  <1>2. CASE ReaderNew \/ ScannerDestroy
    <2>1. pc' \in {"open", "destroyed"}
      BY <1>2 DEF ReaderNew, Goto, ScannerDestroy
    <2>2. ~InUse'
      BY <2>1 DEF InUse, Running
    <2>3. QED
      BY <2>1, <2>2 DEF EdgeInv, SlashAt, Calm
  <1>3. CASE ScannerNew
    BY <1>1, <1>3, EdgeOpened
  <1>4. CASE ScanStep
    <2>1. SlashAt(pc', reader') /\ SlashAt(pc, reader)
      BY <1>1, <1>4, SlashStep DEF EdgeInv
    <2>2. ASSUME Calm', AtOnce'
          PROVE  /\ Exact(pc', frame', delivered', reader', Text')
                 /\ CharIn(pc', frame', delivered', reader', Text')
                 /\ CharsInside'
      <3>1. Text' = Text /\ SourceFile' = SourceFile /\ Calm
        BY <1>1, <1>4, <2>2, Onward
      <3>2. AtOnce
        BY <2>2, <3>1 DEF AtOnce
      <3>3. /\ Exact(pc, frame, delivered, reader, Text)
            /\ CharIn(pc, frame, delivered, reader, Text)
            /\ CharsInside
        BY <3>1, <3>2 DEF EdgeInv
      <3>4. Exact(pc', frame', delivered', reader', Text)
        BY <1>1, <1>4, <2>1, <2>2, <3>2, <3>3, ExactStep
      <3>5. CharIn(pc', frame', delivered', reader', Text)
        BY <1>1, <1>4, <2>2, <3>2, <3>3, CharInStep
      <3>6. CharsInside'
        BY <1>1, <1>4, <2>2, <3>2, <3>3, CharsInsideStep
      <3>7. QED
        BY <3>1, <3>4, <3>5, <3>6
    <2>3. QED
      BY <2>1, <2>2 DEF EdgeInv
  <1>5. CASE UNCHANGED allVars
    <2>1. UNCHANGED <<reader, delivered, path, pc, frame, tokens>>
      BY <1>5 DEF allVars, vars, scanner
    <2>2. Calm' = Calm /\ AtOnce' = AtOnce /\ Text' = Text
      BY <2>1 DEF Calm, InUse, AtOnce, Text, SourceFile
    <2>3. QED
      BY <2>1, <2>2 DEF EdgeInv, CharsInside
  <1>6. QED
    BY <1>2, <1>3, <1>4, <1>5 DEF ScannerNext

\* So it always is.
LEMMA EdgeAlways == ScannerSpec => [](LexInv /\ EdgeInv)
  <1>1. LexInv /\ EdgeInv /\ [ScannerNext]_allVars => LexInv' /\ EdgeInv'
    BY LexStep, EdgeStep
  <1>2. QED
    BY <1>1, LexInit, EdgeInit, PTL DEF ScannerSpec

\* A byte between two others, as a concatenation.
LEMMA QuotedByte ==
  ASSUME NEW a \in Byte, NEW s \in Seq(Byte), Len(s) = 1
  PROVE  <<a>> \o s \o <<a>> = <<a, s[1], a>> /\ <<a, s[1], a>> \in Seq(Byte)
  <1> DEFINE u == <<a>>
             v == <<a, s[1], a>>
  <1>1. u \in Seq(Byte) /\ Len(u) = 1 /\ u[1] = a /\ s[1] \in Byte
    <2>1. s[1] \in Byte
      <3>1. 1 \in 1 .. Len(s)
        OBVIOUS
      <3>2. QED
        BY <3>1, ElementOfSeq
    <2>2. u \in Seq(Byte) /\ Len(u) = 1 /\ u[1] = a
      OBVIOUS
    <2>3. QED
      BY <2>1, <2>2
  <1>2. v \in Seq(Byte) /\ Len(v) = 3 /\ v[1] = a /\ v[2] = s[1] /\ v[3] = a
    BY <1>1
  <1> HIDE DEF u, v
  <1> DEFINE x == u \o s
  <1>3. x \in Seq(Byte) /\ Len(x) = 2 /\ x[1] = a /\ x[2] = s[1]
    <2>1. /\ u \o s \in Seq(Byte) /\ Len(u \o s) = Len(u) + Len(s)
          /\ \A i \in 1 .. Len(u) + Len(s) :
               (u \o s)[i] = IF i <= Len(u) THEN u[i] ELSE s[i - Len(u)]
      BY <1>1, ConcatProperties, Zenon
    <2>2. QED
      BY <1>1, <2>1
  <1> HIDE DEF x
  <1> DEFINE y == x \o u
  <1>4. y \in Seq(Byte) /\ Len(y) = 3 /\ y[1] = a /\ y[2] = s[1] /\ y[3] = a
    <2>1. /\ x \o u \in Seq(Byte) /\ Len(x \o u) = Len(x) + Len(u)
          /\ \A i \in 1 .. Len(x) + Len(u) :
               (x \o u)[i] = IF i <= Len(x) THEN x[i] ELSE u[i - Len(x)]
      BY <1>1, <1>3, ConcatProperties, Zenon
    <2>2. QED
      BY <1>1, <1>3, <2>1
  <1> HIDE DEF y
  <1>5. \A i \in 1 .. 3 : y[i] = v[i]
    <2>1. \A i \in 1 .. 3 : i = 1 \/ i = 2 \/ i = 3
      OBVIOUS
    <2>2. QED
      BY <1>2, <1>4, <2>1
  <1>6. y = v
    BY <1>2, <1>4, <1>5, SeqEqual
  <1>7. QED
    BY <1>2, <1>6 DEF u, v, x, y

\* A word, an operator or a number that ends in the text is a part of it.
LEMMA SliceOfText ==
  ASSUME NEW t \in TokenSet, NEW text \in Seq(Byte), NEW d \in Seq(Byte), Lexeme(t, d),
         \A i \in 1 .. Len(d) : i <= Len(text) => d[i] = text[i],
         t.type \in {"WORD", "OPERATOR"} \cup NumberTypes, t.end <= Len(text)
  PROVE  t.content = SubSeq(text, t.start + 1, t.end)
  <1> DEFINE s == t.content
             k == t.start
  <1>1. s \in Seq(Byte) /\ k \in Nat
    BY DEF TokenSet
  <1>2. Slice(s, d, k) /\ t.end = k + Len(s)
    BY DEF Lexeme
  <1> HIDE DEF s, k
  <1>3. s = SubSeq(text, k + 1, k + Len(s))
    BY <1>1, <1>2, SliceText
  <1>4. QED
    BY <1>2, <1>3 DEF s, k

\* A word or an operator that begins in the text ends in it: the zero behind it belongs to
\* none.
LEMMA EndsInText ==
  ASSUME NEW t \in TokenSet, NEW text \in Seq(Byte), NEW d \in Seq(Byte), Lexeme(t, d),
         Len(d) > Len(text) => d[Len(text) + 1] = NUL,
         t.type \in {"WORD", "OPERATOR"}, t.start < Len(text)
  PROVE  t.end <= Len(text)
  <1> DEFINE s == t.content
             n == Len(text) + 1 - t.start
  <1>1. s \in Seq(Byte) /\ t.start \in Nat /\ t.end \in Nat /\ Len(s) \in Nat
        /\ Len(text) \in Nat /\ Len(d) \in Nat
    BY DEF TokenSet
  <1>2. Slice(s, d, t.start) /\ t.end = t.start + Len(s) /\ t.end <= Len(d)
    BY DEF Lexeme
  <1>3. SUFFICES ASSUME t.end > Len(text) PROVE FALSE
    BY <1>1
  <1>4. n \in 1 .. Len(s) /\ n >= 2 /\ t.start + n = Len(text) + 1
    BY <1>1, <1>2, <1>3
  <1>5. s[n] = NUL
    <2>1. s[n] = d[t.start + n]
      BY <1>2, <1>4 DEF Slice
    <2>2. QED
      BY <1>1, <1>2, <1>3, <1>4, <2>1
  <1>6. CASE t.type = "WORD"
    <2>1. IsWordChar(s[n])
      BY <1>4, <1>6 DEF Lexeme
    <2>2. QED
      BY <1>5, <2>1 DEF IsWordChar, IsWordStart, IsDigit, NUL
  <1>7. CASE t.type = "OPERATOR"
    <2>1. Len(s) = 1 \/ s \in Pairs
      BY <1>7 DEF Lexeme
    <2>2. s \in Pairs
      <3>1. \A a, b \in Nat : a \in 1 .. b /\ a >= 2 => b # 1
        OBVIOUS
      <3>2. n \in Nat
        BY <1>4
      <3>3. Len(s) # 1
        BY <1>1, <1>4, <3>1, <3>2
      <3>4. QED
        BY <2>1, <3>3
    <2>3. Len(s) = 2 /\ s[2] # NUL
      BY <2>2 DEF Pairs, MINUS, EXCLAM, NUL
    <2>4. n = 2
      BY <1>4, <2>3
    <2>5. QED
      BY <1>5, <2>3, <2>4
  <1>8. QED
    BY <1>6, <1>7

\* A string is what stands between its delimiters.
LEMMA StringOfText ==
  ASSUME NEW t \in TokenSet, NEW text \in Seq(Byte), NEW d \in Seq(Byte), Lexeme(t, d),
         \A i \in 1 .. Len(d) : i <= Len(text) => d[i] = text[i],
         t.type = "STRING", t.start + 2 <= t.end, t.end <= Len(text),
         text[t.end] = text[t.start + 1], ~Dangles(SubSeq(text, t.start + 2, t.end - 1))
  PROVE  t.content = Unescape(SubSeq(text, t.start + 2, t.end - 1))
  <1> DEFINE m == t.start + 2
             n == t.end - 1
             s == SubSeq(text, m, n)
  <1>1. t.start \in Nat /\ t.end \in Nat /\ Len(text) \in Nat /\ Len(d) \in Nat
    BY DEF TokenSet
  <1>2. Quoted(t.start, t.end, t.content, d) /\ t.end <= Len(d)
    BY DEF Lexeme
  <1>3. /\ \A i \in m .. n : text[i] \in Byte
        /\ m \in Int /\ n \in Int
    <2>1. m \in Int /\ n \in Int /\ 1 <= m /\ n <= Len(text)
      BY <1>1
    <2> HIDE DEF m, n
    <2>2. \A i \in m .. n : i \in 1 .. Len(text)
      BY <1>1, <2>1
    <2>3. QED
      BY <2>1, <2>2, ElementOfSeq
  <1>4. /\ s \in Seq(Byte) /\ Len(s) = (IF m <= n THEN n - m + 1 ELSE 0)
        /\ \A i \in 1 .. n - m + 1 : s[i] = text[m + i - 1]
    <2>1. \A a, b \in Int : (\A i \in a .. b : text[i] \in Byte) =>
            /\ SubSeq(text, a, b) \in Seq(Byte)
            /\ Len(SubSeq(text, a, b)) = (IF a <= b THEN b - a + 1 ELSE 0)
            /\ \A i \in 1 .. b - a + 1 : SubSeq(text, a, b)[i] = text[a + i - 1]
      BY SubSeqProperties
    <2> HIDE DEF m, n
    <2>2. QED
      BY <1>3, <2>1, Zenon
  <1> HIDE DEF s
  <1>5. Len(s) = t.end - (t.start + 2) /\ n - m + 1 = Len(s)
    <2>1. \A i, j \in Nat : i + 2 <= j =>
            /\ (j - 1) - (i + 2) + 1 = j - (i + 2)
            /\ i + 2 <= j - 1 \/ j - (i + 2) = 0
      OBVIOUS
    <2>2. /\ n - m + 1 = t.end - (t.start + 2)
          /\ m <= n \/ t.end - (t.start + 2) = 0
      BY <1>1, <2>1
    <2>3. QED
      BY <1>4, <2>2
  <1>6. t.start + 2 + Len(s) = t.end
    BY <1>1, <1>5
  <1>7. Slice(s, d, t.start + 1)
    <2>1. t.start + 1 + Len(s) <= Len(d)
      BY <1>1, <1>2, <1>6
    <2>2. ASSUME NEW i \in 1 .. Len(s) PROVE s[i] = d[t.start + 1 + i]
      <3>1. s[i] = text[m + i - 1] /\ m + i - 1 = t.start + 1 + i
        BY <1>1, <1>4, <1>5
      <3>2. t.start + 1 + i \in 1 .. Len(d) /\ t.start + 1 + i <= Len(text)
        <4>1. \A a, b, x, y \in Nat : b <= x /\ b <= y /\ a + 2 <= b =>
                \A j \in 1 .. b - (a + 2) : a + 1 + j \in 1 .. x /\ a + 1 + j <= y
          OBVIOUS
        <4>2. i \in 1 .. t.end - (t.start + 2)
          BY <1>5
        <4>3. QED
          BY <1>1, <1>2, <4>1, <4>2
      <3>3. QED
        BY <3>1, <3>2
    <2>3. QED
      BY <2>1, <2>2 DEF Slice
  <1>8. d[t.end] = QUOTE
    <2>1. /\ t.end \in 1 .. Len(d) /\ t.start + 1 \in 1 .. Len(d) /\ t.start + 1 <= Len(text)
      BY <1>1, <1>2
    <2>2. d[t.start + 1] = QUOTE
      BY <1>2 DEF Quoted
    <2>3. QED
      BY <2>1, <2>2
  <1>9. ~Dangles(s)
    BY DEF s
  <1>10. t.content = Unescape(s)
    BY <1>2, <1>4, <1>6, <1>7, <1>8, <1>9 DEF Quoted
  <1>11. QED
    BY <1>10 DEF s

\* A character literal is the three bytes it was made of.
LEMMA CharOfText ==
  ASSUME NEW t \in TokenSet, NEW text \in Seq(Byte), NEW d \in Seq(Byte), Lexeme(t, d),
         \A i \in 1 .. Len(d) : i <= Len(text) => d[i] = text[i],
         t.type = "CHAR", t.end <= Len(text)
  PROVE  <<APOSTROPHE>> \o t.content \o <<APOSTROPHE>> = SubSeq(text, t.start + 1, t.end)
  <1> DEFINE k == t.start
             c == t.content
             s == <<APOSTROPHE, c[1], APOSTROPHE>>
  <1>1. c \in Seq(Byte) /\ k \in Nat /\ t.end \in Nat
    BY DEF TokenSet
  <1>2. Len(c) = 1 /\ t.end = k + 3 /\ Slice(s, d, k)
    BY DEF Lexeme
  <1>3. APOSTROPHE \in Byte
    BY DEF APOSTROPHE, Byte
  <1>4. Len(s) = 3
    OBVIOUS
  <1> HIDE DEF k, c
  <1>5. <<APOSTROPHE>> \o c \o <<APOSTROPHE>> = s /\ s \in Seq(Byte)
    BY <1>1, <1>2, <1>3, QuotedByte
  <1> HIDE DEF s
  <1>6. s = SubSeq(text, k + 1, k + Len(s))
    <2>1. k + Len(s) <= Len(text)
      BY <1>2, <1>4
    <2>2. QED
      BY <1>1, <1>2, <1>5, <2>1, SliceText
  <1>7. QED
    BY <1>2, <1>4, <1>5, <1>6 DEF k, c

\* The text of a token is the slice of the file that it was made from: of strings, the text
\* between the delimiters, and of a character literal the one character.  No byte from behind
\* the end gets into a token that begins in the file, and none is lost or read twice where a
\* refill falls in a token.
THEOREM LexemesAreSlices == ScannerSpec => []LexemeIsSlice
  <1>1. LexInv /\ EdgeInv => LexemeIsSlice
    <2> SUFFICES ASSUME LexInv, EdgeInv, Undisturbed, NEW k \in Scanned,
                        tokens[k].start < Len(Source)
                 PROVE  LET t == tokens[k]
                        IN  /\ t.type \in {"WORD", "OPERATOR"} => t.content = TextOf(t)
                            /\ IsNumber(t) /\ t.end <= Len(Source) => t.content = TextOf(t)
                            /\ t.type = "STRING" /\ Delimited(t) => t.content = Inner(t)
                            /\ t.type = "CHAR" =>
                                 <<APOSTROPHE>> \o t.content \o <<APOSTROPHE>> = TextOf(t)
      BY DEF LexemeIsSlice
    <2> DEFINE t == tokens[k]
    <2>1. pc = "idle" /\ Intact /\ ~reader.stateError
      BY DEF Undisturbed
    <2>2. /\ t \in TokenSet /\ Lexeme(t, delivered) /\ Source = Text
          /\ t.start \in Nat /\ t.end \in Nat
          /\ Source \in Seq(Byte) /\ Len(Source) \in Nat
          /\ delivered \in Seq(Byte) /\ Len(delivered) \in Nat
          /\ View(reader, delivered, Source)
      BY <2>1, TokenFacts
    <2>3. /\ \A i \in 1 .. Len(delivered) : i <= Len(Source) => delivered[i] = Source[i]
          /\ Len(delivered) > Len(Source) => delivered[Len(Source) + 1] = NUL
      BY <2>2 DEF View
    <2>4. t.type = "CHAR" => t.end <= Len(Source)
      <3>1. SUFFICES ASSUME t.type = "CHAR" PROVE t.end <= Len(Source)
        OBVIOUS
      <3>2. Base /\ InUse /\ Calm
        BY <2>1 DEF LexInv, Calm, InUse
      <3>3. CASE clean
        <4>1. /\ reader \in Reader /\ Sound(reader) /\ IsOpen(reader) /\ Taken(reader, delivered)
          BY <3>2, <3>3, NowView DEF Base, ScanInv, IInv, TypeOK, Bounds, Faithful
        <4>2. Len(delivered) <= Len(Source)
          BY <2>2, <4>1, CleanInside DEF Source
        <4>3. t.end <= Len(delivered)
          BY <2>2 DEF Lexeme
        <4>4. QED
          BY <2>2, <4>2, <4>3
      <3>4. CASE ~clean
        <4>1. AtOnce
          BY <2>1, <3>4 DEF Intact, AtOnce, Text
        <4>2. CharsInside
          BY <3>2, <4>1 DEF EdgeInv
        <4>3. k \in 1 .. Len(tokens)
          BY DEF Scanned, LexInv, Base, ScanInv, ScanTypes
        <4>4. QED
          BY <2>2, <3>1, <4>2, <4>3 DEF CharsInside
      <3>5. QED
        BY <3>3, <3>4
    <2>5. t.end <= Len(Source) => TextOf(t) = SubSeq(Source, t.start + 1, t.end)
      <3>1. t.end <= Len(Source) => Clip(t.end) = t.end
        BY <2>2 DEF Clip
      <3>2. QED
        BY <3>1 DEF TextOf
    <2>6. t.start < Len(Source)
      OBVIOUS
    <2> HIDE DEF t
    <2>7. t.type \in {"WORD", "OPERATOR"} => t.content = TextOf(t)
      BY <2>2, <2>3, <2>5, <2>6, SliceOfText, EndsInText
    <2>8. IsNumber(t) /\ t.end <= Len(Source) => t.content = TextOf(t)
      BY <2>2, <2>3, <2>5, SliceOfText DEF IsNumber
    <2>9. t.type = "STRING" /\ Delimited(t) => t.content = Inner(t)
      <3>1. SUFFICES ASSUME t.type = "STRING", Delimited(t) PROVE t.content = Inner(t)
        OBVIOUS
      <3>2. t.start + 2 <= t.end /\ t.end <= Len(Source) /\ Source[t.end] = Source[t.start + 1]
        BY <3>1 DEF Delimited
      <3>3. ~Dangles(SubSeq(Source, t.start + 2, t.end - 1))
        BY <3>1 DEF Delimited, Inner, Dangles
      <3>4. QED
        BY <2>2, <2>3, <3>1, <3>2, <3>3, StringOfText DEF Inner
    <2>10. t.type = "CHAR" => <<APOSTROPHE>> \o t.content \o <<APOSTROPHE>> = TextOf(t)
      BY <2>2, <2>3, <2>4, <2>5, CharOfText
    <2>11. QED
      BY <2>7, <2>8, <2>9, <2>10 DEF t
  <1>2. QED
    BY <1>1, EdgeAlways, PTL

(***************************************************************************)
(* What the integers denote                                                *)
(***************************************************************************)

\* What the conversion answers for a spelling of that form is about the number that its
\* digits spell: nothing in front of them but a minus, and nothing behind that goes on.
LEMMA SpellingConverts ==
  ASSUME NEW text \in Seq(Byte), NEW k \in Nat, NEW q \in Nat, q >= 1, k + q <= Len(text),
         NEW t \in IntegerTypes, IntegerForm(text, k, q, t)
  PROVE  LET s == SubSeq(text, k + 1, k + q)
         IN  SaysOf(t, SpelledValue(s), Convert(t, s))
  <1> DEFINE s == SubSeq(text, k + 1, k + q)
  <1>1. s \in Seq(Byte) /\ Len(s) = q /\ \A i \in 1 .. q : s[i] = text[k + i]
    BY SpellingIs
  <1> HIDE DEF s
  <1>2. s \in Seq(Int)
    <2>1. \A x \in Byte : x \in Int
      BY DEF Byte
    <2>2. \A i \in 1 .. Len(s) : s[i] \in Int
      BY <1>1, <2>1
    <2>3. QED
      BY <1>1, <2>2
  <1> DEFINE minus == s[1] = MINUS
             a == IF minus THEN 2 ELSE 1
  <1>3. a \in {1, 2} /\ (a = 2 <=> minus) /\ 1 \in 1 .. q
    OBVIOUS
  <1>4. PICK b \in 1 .. q :
          /\ a <= b
          /\ \A i \in a .. b : IsDigit(s[i])
          /\ \A i \in b + 1 .. q : ~IsDigit(s[i])
          /\ t \in UnsignedTypes => ~minus
    <2>1. text[k + 1] = s[1]
      BY <1>1, <1>3
    <2>2. PICK b \in 1 .. q :
            /\ a <= b
            /\ \A i \in a .. b : IsDigit(text[k + i])
            /\ \A i \in b + 1 .. q : ~IsDigit(text[k + i])
            /\ t \in UnsignedTypes => ~minus
      BY <2>1 DEF IntegerForm
    <2>3. /\ \A i \in a .. b : i \in 1 .. q
          /\ \A i \in b + 1 .. q : i \in 1 .. q
      BY <1>3
    <2>4. /\ \A i \in a .. b : IsDigit(s[i])
          /\ \A i \in b + 1 .. q : ~IsDigit(s[i])
      BY <1>1, <2>2, <2>3
    <2>5. QED
      BY <2>2, <2>4
  <1>5. \A x : IsDigit(x) <=> Numeral(x)
    BY DEF IsDigit, Numeral
  <1> HIDE DEF a
  <1>6. DigitsAre(s, a, b)
    <2>1. ASSUME NEW i \in 1 .. Len(s) PROVE Numeral(s[i]) <=> i \in a .. b
      <3>1. i \in a .. b \/ i \in b + 1 .. q \/ (i = 1 /\ a = 2)
        BY <1>1, <1>3
      <3>2. CASE i \in a .. b
        BY <1>4, <1>5, <3>2
      <3>3. CASE i \in b + 1 .. q
        BY <1>3, <1>4, <1>5, <3>3
      <3>4. CASE i = 1 /\ a = 2
        <4>1. s[i] = MINUS
          BY <1>3, <3>4
        <4>2. ~Numeral(MINUS) /\ i \notin a .. b
          BY <3>4 DEF Numeral, MINUS
        <4>3. QED
          BY <4>1, <4>2
      <3>5. QED
        BY <3>1, <3>2, <3>3, <3>4
    <2>2. a \in 1 .. Len(s) + 1 /\ b \in 0 .. Len(s) /\ a <= b + 1
      BY <1>1, <1>3, <1>4
    <2>3. QED
      BY <2>1, <2>2 DEF DigitsAre
  <1>7. NumeralAt(s, 1, a, b)
    <2>1. minus \/ Numeral(s[1])
      <3>1. SUFFICES ASSUME ~minus PROVE Numeral(s[1])
        OBVIOUS
      <3>2. a = 1 /\ 1 \in a .. b
        BY <1>3, <1>4, <3>1
      <3>3. QED
        BY <1>4, <1>5, <3>2
    <2>2. ~IsSpace(s[1]) /\ (minus <=> s[1] \in {PLUS_SIGN, MINUS_SIGN})
      <3>1. \A x \in Int : x = MINUS \/ Numeral(x) =>
              ~IsSpace(x) /\ (x = MINUS <=> x \in {PLUS_SIGN, MINUS_SIGN})
        BY DEF IsSpace, Numeral, MINUS, PLUS_SIGN, MINUS_SIGN
      <3>2. s[1] \in Int
        BY <1>1, <1>2, <1>3
      <3>3. QED
        BY <2>1, <3>1, <3>2
    <2>3. a = IF s[1] \in {PLUS_SIGN, MINUS_SIGN} THEN 1 + 1 ELSE 1
      BY <2>2 DEF a
    <2>4. /\ 1 \in 1 .. Len(s) /\ a \in 1 .. Len(s) /\ b \in a .. Len(s)
          /\ (\A i \in 1 .. 1 - 1 : FALSE)
          /\ b < Len(s) => b + 1 \in b + 1 .. q
      BY <1>1, <1>3, <1>4
    <2>5. QED
      BY <1>4, <1>5, <2>2, <2>3, <2>4 DEF NumeralAt
  <1>8. ValueAt(s, 1, a, b) = SpelledValue(s)
    <2>1. Spelled(s) = DecimalValue(SubSeq(s, a, b))
      BY <1>2, <1>3, <1>6, SpelledIsValue
    <2>2. QED
      BY <2>1 DEF ValueAt, SpelledValue, MINUS, MINUS_SIGN
  <1>9. ValueAt(s, 1, a, b) >= 0 \/ t \in SignedTypes
    <2>1. DecimalValue(SubSeq(s, a, b)) \in Nat
      BY <1>2, <1>3, <1>7, NumberFound
    <2>2. CASE minus
      BY <1>4, <2>2 DEF IntegerTypes
    <2>3. CASE ~minus
      <3>1. ValueAt(s, 1, a, b) = DecimalValue(SubSeq(s, a, b))
        BY <2>3 DEF ValueAt, MINUS, MINUS_SIGN
      <3>2. QED
        BY <2>1, <3>1
    <2>4. QED
      BY <2>2, <2>3
  <1>10. SaysOf(t, ValueAt(s, 1, a, b), Convert(t, s))
    BY <1>2, <1>3, <1>7, <1>9, ConvertSays
  <1>11. QED
    BY <1>8, <1>10 DEF s

\* scanner_consume_number and the conversions of numeric.c agree: ast_literal gets the number
\* that the source spells, or is told that the type which the scanner chose cannot hold it.  No
\* unsigned type comes with a minus, which the conversion would take.
THEOREM LiteralDenotesHolds == ScannerSpec => []LiteralDenotes
  <1>1. LexInv => LiteralDenotes
    <2> SUFFICES ASSUME LexInv, Foreseen, NEW k \in Scanned,
                        tokens[k].type \in IntegerTypes, Looked(tokens[k])
                 PROVE  LET t == tokens[k]
                            n == SpelledValue(TextOf(t))
                        IN  Convert(t.type, t.content) \in
                              IF n \in TypeMin(t.type) .. TypeMax(t.type)
                              THEN {[status |-> "OK", value |-> n]}
                              ELSE {Failed("EXCEEDS_MIN"), Failed("EXCEEDS_MAX"),
                                    Failed("EXCEEDS_RANGE")}
      BY DEF LiteralDenotes
    <2> DEFINE t == tokens[k]
               s == SubSeq(Source, t.start + 1, t.end)
               q == Len(t.content)
    <2>1. pc = "idle" /\ Intact /\ ~reader.stateError /\ SourceFile \notin Failing
      BY DEF Foreseen, Undisturbed
    <2>2. /\ t \in TokenSet /\ Lexeme(t, delivered) /\ Complete(t, Source)
          /\ t.content \in Seq(Byte) /\ t.start \in Nat /\ t.end \in Nat
          /\ Source \in Seq(Byte) /\ Len(Source) \in Nat /\ delivered \in Seq(Byte)
          /\ View(reader, delivered, Source)
      BY <2>1, TokenFacts
    <2>3. /\ t.type \in NumberTypes /\ t.end - t.start <= SIZE /\ t.end <= Len(Source)
          /\ t.end < Len(Source)
             \/ (t.end = Len(Source) /\ Source[t.end] \in DOMAIN Suffix \cup {100})
      BY <2>2 DEF Looked, IsNumber
    <2>4. Clip(t.end) = t.end
      BY <2>2, <2>3 DEF Clip
    <2>5. TextOf(t) = s
      BY <2>4 DEF TextOf
    <2>6. t.type \in IntegerTypes
      OBVIOUS
    <2> HIDE DEF t
    <2>7. t.end = t.start + q /\ q \in Nat
      BY <2>2, <2>3 DEF Lexeme
    <2>8. IntegerForm(Source, t.start, q, t.type)
      BY <2>2, <2>3, <2>6, LookedNumber
    <2>9. t.content = s
      <3>1. \A i \in 1 .. Len(delivered) : i <= Len(Source) => delivered[i] = Source[i]
        BY <2>2 DEF View
      <3>2. QED
        BY <2>2, <2>3, <3>1, SliceOfText
    <2>10. q >= 1
      BY <2>7, <2>8 DEF IntegerForm
    <2>11. SaysOf(t.type, SpelledValue(s), Convert(t.type, s))
      <3> HIDE DEF q
      <3>1. t.start + q <= Len(Source)
        BY <2>3, <2>7
      <3>2. SaysOf(t.type, SpelledValue(SubSeq(Source, t.start + 1, t.start + q)),
                   Convert(t.type, SubSeq(Source, t.start + 1, t.start + q)))
        BY <2>2, <2>6, <2>7, <2>8, <2>10, <3>1, SpellingConverts
      <3>3. QED
        BY <2>7, <3>2
    <2>12. Convert(t.type, t.content) \in
             IF SpelledValue(s) \in TypeMin(t.type) .. TypeMax(t.type)
             THEN {[status |-> "OK", value |-> SpelledValue(s)]}
             ELSE {Failed("EXCEEDS_MIN"), Failed("EXCEEDS_MAX"), Failed("EXCEEDS_RANGE")}
      <3> HIDE DEF s
      <3>1. QED
        BY <2>9, <2>11 DEF SaysOf
    <2>13. QED
      BY <2>5, <2>12 DEF t
  <1>2. QED
    BY <1>1, LexAlways, PTL

(***************************************************************************)
(* Whitespace and comments                                                 *)
(*                                                                         *)
(* NoiseEnd is what the comments of a text are; scanner_skip_whitespace    *)
(* goes through them.  Between two tokens the place it has come to has the *)
(* same end of the noise as the place where it began.                      *)
(***************************************************************************)

\* The first k characters, or all of them.
ClipTo(text, k) == IF k > Len(text) THEN Len(text) ELSE k

\* Where the noise ends that stands behind them.
NoiseAt(text, k) == NoiseEnd(text)[ClipTo(text, k)]

\* Nothing is behind the end.
LEMMA NoisePast ==
  ASSUME NEW text \in Seq(Byte), NEW k \in Nat, k >= Len(text)
  PROVE  ClipTo(text, k) = Len(text) /\ NoiseAt(text, k) = Len(text)
  <1>1. Len(text) \in Nat /\ Len(text) \in 0 .. Len(text)
    OBVIOUS
  <1>2. ClipTo(text, k) = Len(text)
    BY <1>1 DEF ClipTo
  <1>3. NoiseEnd(text)[Len(text)] = Len(text)
    BY <1>1, NoiseDefined DEF NoiseStep
  <1>4. QED
    BY <1>2, <1>3 DEF NoiseAt

\* A place in the text.
LEMMA NoiseHere ==
  ASSUME NEW text \in Seq(Byte), NEW k \in Nat, k < Len(text)
  PROVE  /\ ClipTo(text, k) = k /\ k \in 0 .. Len(text)
         /\ NoiseAt(text, k) = NoiseStep(text, NoiseEnd(text), k)
  <1>1. Len(text) \in Nat
    OBVIOUS
  <1>2. ClipTo(text, k) = k /\ k \in 0 .. Len(text)
    BY <1>1 DEF ClipTo
  <1>3. NoiseEnd(text)[k] = NoiseStep(text, NoiseEnd(text), k)
    BY <1>2, NoiseDefined
  <1>4. QED
    BY <1>2, <1>3 DEF NoiseAt

\* A blank is noise.
LEMMA NoiseBlank ==
  ASSUME NEW text \in Seq(Byte), NEW k \in Nat, k < Len(text) => text[k + 1] \in Blank
  PROVE  NoiseAt(text, k) = NoiseAt(text, k + 1)
  <1>1. Len(text) \in Nat /\ k + 1 \in Nat
    OBVIOUS
  <1>2. CASE k < Len(text)
    <2>1. NoiseAt(text, k) = NoiseEnd(text)[k + 1]
      BY <1>1, <1>2, NoiseHere DEF NoiseStep
    <2>2. ClipTo(text, k + 1) = k + 1
      BY <1>1, <1>2 DEF ClipTo
    <2>3. QED
      BY <2>1, <2>2 DEF NoiseAt
  <1>3. CASE ~(k < Len(text))
    BY <1>1, <1>3, NoisePast
  <1>4. QED
    BY <1>2, <1>3

\* What is neither a blank nor the beginning of a comment is none.
LEMMA NoiseNone ==
  ASSUME NEW text \in Seq(Byte), NEW k \in Nat,
         k < Len(text) => /\ text[k + 1] \notin Blank
                          /\ ~Opens(text, k, SLASH) /\ ~Opens(text, k, STAR)
  PROVE  NoiseAt(text, k) = ClipTo(text, k)
  <1>1. Len(text) \in Nat
    OBVIOUS
  <1>2. CASE k < Len(text)
    <2>1. NoiseAt(text, k) = k
      BY <1>1, <1>2, NoiseHere DEF NoiseStep
    <2>2. QED
      BY <1>2, <2>1, NoiseHere
  <1>3. CASE ~(k < Len(text))
    BY <1>1, <1>3, NoisePast
  <1>4. QED
    BY <1>2, <1>3

\* A line comment that begins behind k characters has been gone through up to the place q.
InLine(text, k, q) ==
  /\ k \in 0 .. Len(text) /\ Opens(text, k, SLASH) /\ k <= q
  /\ \A i \in k + 1 .. Len(text) : i <= q => text[i] # NL

\* It ends where a newline is next, or the end of the text.
LEMMA LineOver ==
  ASSUME NEW text \in Seq(Byte), NEW k \in Nat, NEW q \in Nat, InLine(text, k, q),
         q < Len(text) => text[q + 1] = NL
  PROVE  NoiseAt(text, k) = NoiseAt(text, q)
  <1> DEFINE m == ClipTo(text, q)
  <1>1. Len(text) \in Nat
    OBVIOUS
  <1>2. /\ k \in 0 .. Len(text) /\ k + 2 <= Len(text) /\ k <= q
        /\ text[k + 1] = SLASH /\ text[k + 2] = SLASH
    BY DEF InLine, Opens
  <1>3. SLASH # NL /\ SLASH \notin Blank
    BY DEF SLASH, NL, Blank, SPACE, CR, TAB
  <1>4. m \in k + 2 .. Len(text) /\ (m = Len(text) \/ text[m + 1] = NL)
    <2>1. CASE q >= Len(text)
      BY <1>1, <1>2, <2>1, NoisePast
    <2>2. CASE q < Len(text)
      <3>1. m = q /\ text[q + 1] = NL
        BY <2>2, NoiseHere
      <3>2. q # k /\ q # k + 1
        BY <1>1, <1>2, <1>3, <3>1
      <3>3. QED
        BY <1>1, <1>2, <2>2, <3>1, <3>2
    <2>3. QED
      BY <1>1, <2>1, <2>2
  <1>5. m <= q
    BY <1>1 DEF ClipTo
  <1> HIDE DEF m
  <1>6. m \in LineEnds(text, k)
    BY <1>4 DEF LineEnds
  <1>7. ASSUME NEW j \in LineEnds(text, k) PROVE m <= j
    <2>1. j \in k + 2 .. Len(text) /\ (j = Len(text) \/ text[j + 1] = NL)
      BY DEF LineEnds
    <2>2. SUFFICES ASSUME j < m PROVE FALSE
      BY <1>1, <1>2, <1>4, <2>1
    <2>3. j + 1 \in k + 1 .. Len(text) /\ j + 1 <= q /\ j # Len(text)
      BY <1>1, <1>2, <1>4, <1>5, <2>1, <2>2
    <2>4. QED
      BY <2>1, <2>3 DEF InLine
  <1>8. First(LineEnds(text, k)) = m
    <2>1. LineEnds(text, k) \in SUBSET Nat
      BY <1>1, <1>2 DEF LineEnds
    <2>2. QED
      BY <1>6, <1>7, <2>1, FirstIs
  <1>9. NoiseAt(text, k) = NoiseEnd(text)[m]
    BY <1>1, <1>2, <1>3, <1>8, NoiseHere DEF NoiseStep, InLine
  <1>10. QED
    BY <1>9 DEF NoiseAt, m

\* A block comment that begins behind k characters has been gone through up to the place q.
InBlock(text, k, q) ==
  /\ k \in 0 .. Len(text) /\ Opens(text, k, STAR) /\ k + 2 <= q
  /\ \A j \in Stops(text, k) : j > q

\* It ends behind the two characters where the loop stops, or with the text.
LEMMA BlockOver ==
  ASSUME NEW text \in Seq(Byte), NEW k \in Nat, NEW q \in Nat, InBlock(text, k, q),
         PlainComments(text), q < Len(text) => q + 1 \in Stops(text, k)
  PROVE  NoiseAt(text, k) = NoiseAt(text, q + 2)
  <1> DEFINE m == ClipTo(text, q + 2)
  <1>1. Len(text) \in Nat /\ q + 2 \in Nat
    OBVIOUS
  <1>2. /\ k \in 0 .. Len(text) /\ k + 2 <= Len(text) /\ k + 2 <= q /\ Opens(text, k, STAR)
        /\ text[k + 1] = SLASH /\ text[k + 2] = STAR
    BY DEF InBlock, Opens
  <1>3. SLASH # STAR /\ SLASH \notin Blank
    BY DEF SLASH, STAR, NL, Blank, SPACE, CR, TAB
  <1>4. Stops(text, k) \in SUBSET Nat /\ \A j \in Stops(text, k) : q + 1 <= j
    <2>1. Stops(text, k) \in SUBSET Nat
      BY <1>1, <1>2 DEF Stops
    <2>2. QED
      BY <2>1 DEF InBlock
  <1>5. /\ m \in BlockEnds(text, k)
        /\ \/ m = Len(text) /\ q >= Len(text)
           \/ m = q + 2 /\ q + 2 <= Len(text)
    <2>1. CASE q < Len(text)
      <3>1. q + 1 \in Stops(text, k) /\ First(Stops(text, k)) = q + 1
        BY <1>4, <2>1, FirstIs
      <3>2. q + 1 < Len(text) /\ text[q + 1] = STAR /\ text[(q + 1) + 1] = SLASH
        BY <1>2, <3>1 DEF PlainComments
      <3>3. q + 2 <= Len(text) /\ (q + 1) + 1 = q + 2 /\ (q + 2) - 1 = q + 1
            /\ q + 2 \in k + 4 .. Len(text)
        BY <1>1, <1>2, <3>2
      <3>4. q + 2 \in BlockEnds(text, k)
        BY <3>2, <3>3 DEF BlockEnds
      <3>5. m = q + 2
        BY <1>1, <3>3 DEF ClipTo
      <3>6. QED
        BY <3>3, <3>4, <3>5
    <2>2. CASE ~(q < Len(text))
      <3>1. m = Len(text) /\ q >= Len(text)
        BY <1>1, <2>2 DEF ClipTo
      <3>2. Len(text) \in BlockEnds(text, k)
        BY DEF BlockEnds
      <3>3. QED
        BY <3>1, <3>2
    <2>3. QED
      BY <2>1, <2>2
  <1> HIDE DEF m
  <1>6. ASSUME NEW j \in BlockEnds(text, k) PROVE m <= j
    <2>1. CASE j = Len(text)
      BY <1>1, <1>5, <2>1
    <2>2. CASE j # Len(text)
      <3>1. j \in k + 4 .. Len(text) /\ text[j - 1] = STAR
        BY <2>2 DEF BlockEnds
      <3>2. j - 1 \in k + 3 .. Len(text)
        BY <1>1, <1>2, <3>1
      <3>3. j - 1 \in Stops(text, k)
        BY <3>1, <3>2 DEF Stops
      <3>4. q + 1 <= j - 1
        BY <1>4, <3>3
      <3>5. QED
        BY <1>1, <1>2, <1>5, <3>1, <3>4
    <2>3. QED
      BY <2>1, <2>2
  <1>7. First(BlockEnds(text, k)) = m
    <2>1. BlockEnds(text, k) \in SUBSET Nat
      BY <1>1, <1>2 DEF BlockEnds
    <2>2. QED
      BY <1>5, <1>6, <2>1, FirstIs
  <1>8. NoiseAt(text, k) = NoiseEnd(text)[m]
    <2>1. ~Opens(text, k, SLASH)
      BY <1>2, <1>3 DEF Opens
    <2>2. QED
      BY <1>1, <1>2, <1>3, <1>7, <2>1, NoiseHere DEF NoiseStep
  <1>9. QED
    BY <1>8 DEF NoiseAt, m

\* Where a recogniser is at work.
AtWork ==
  {"second", "third", "operator", "word", "word_peek", "word_next", "number", "number_unsigned",
   "number_copy", "number_end", "string_peek", "string", "string_end", "char", "char_peek",
   "char_end"}

\* What goes on, and from where, when what has been seen is consumed.
Doing(label, f) == IF label = "eat" THEN f.after ELSE label
Goal(label, f, d) == IF label = "eat" THEN Len(d) + f.left ELSE Len(d)

\* In a comment: of those that the text has, or behind its end.
LineTile(text, b, q) ==
  \E k \in 0 .. Len(text) :
    NoiseAt(text, b) = NoiseAt(text, k) /\ (InLine(text, k, q) \/ (k = Len(text) /\ q >= k))
BlockTile(text, b, q) ==
  \E k \in 0 .. Len(text) :
    NoiseAt(text, b) = NoiseAt(text, k) /\ (InBlock(text, k, q) \/ (k = Len(text) /\ q >= k))

\* Behind a token that ends at b: scanner_skip_whitespace stays in the noise behind it, and
\* the recogniser begins where that ends.
TileAt(label, f, d, b, text) ==
  /\ Doing(label, f) \in {"skip", "skip_slash"} =>
       NoiseAt(text, b) = NoiseAt(text, Goal(label, f, d))
  /\ Doing(label, f) = "line_comment" => LineTile(text, b, Goal(label, f, d))
  /\ Doing(label, f) \in {"block_comment", "block_second"} => BlockTile(text, b, Goal(label, f, d))
  /\ label = "block_second" /\ Len(d) < Len(text) => text[Len(d) + 1] # STAR
  /\ label = "dispatch" =>
       NoiseAt(text, b) = NoiseAt(text, Len(d)) /\ NoiseAt(text, b) = ClipTo(text, Len(d))
  /\ label \in {"second", "third"} => f.start = Len(d) /\ NoiseAt(text, b) = NoiseAt(text, Len(d))
  /\ Doing(label, f) \in AtWork => NoiseAt(text, b) = ClipTo(text, f.start)

\* A peek shows what is next in the text.
LEMMA PeekSeen ==
  ASSUME Base, Base', ScanStep, Sure', Peek
  PROVE  /\ delivered' = delivered
         /\ Len(delivered) < Len(Text) => Answer = Text[Len(delivered) + 1]
  <1>1. /\ IInv /\ IsOpen(reader) /\ View(reader', delivered', Text) /\ ~reader'.stateError
        /\ Len(delivered) \in Nat /\ Len(Text) \in Nat
    BY Onward DEF Sure, Calm
  <1>2. /\ delivered' = delivered
        /\ Answer # None => Shows(reader', 0, Answer)
        /\ Answer = None => reader'.stateEOF
    BY <1>1, PeekDoes
  <1>3. SUFFICES ASSUME Len(delivered) < Len(Text) PROVE Answer = Text[Len(delivered) + 1]
    BY <1>2
  <1>4. ~reader'.stateEOF
    BY <1>1, <1>2, <1>3 DEF View
  <1>5. Shows(reader', 0, Answer)
    BY <1>2, <1>4
  <1>6. 0 \in Nat /\ Len(delivered) + 0 = Len(delivered) /\ Len(delivered) + 0 + 1 = Len(delivered) + 1
    BY <1>1
  <1>7. QED
    BY <1>1, <1>2, <1>3, <1>5, <1>6 DEF View

\* A look one further shows the character behind it, and behind the last one none.
LEMMA NextSeen ==
  ASSUME Base, Base', ScanStep, Sure', PeekN(1), SIZE >= 2
  PROVE  /\ delivered' = delivered
         /\ Len(delivered) + 1 < Len(Text) => Answer = Text[Len(delivered) + 2]
         /\ Len(delivered) + 1 = Len(Text) => Answer \notin {SLASH, STAR}
  <1>1. Len(delivered) \in Nat /\ Len(Text) \in Nat /\ 1 \in 0 .. SIZE /\ 1 < SIZE
    BY Onward, SizeAssumption
  <1>2. /\ delivered' = delivered
        /\ Answer # None /\ Len(delivered) + 1 < Len(Text) =>
             Answer = Text[Len(delivered) + 1 + 1]
        /\ Answer # None /\ Len(delivered) + 1 = Len(Text) => Answer = NUL
        /\ Answer = None => Len(delivered) + 1 >= Len(Text)
    BY <1>1, LookSeen
  <1>3. Len(delivered) + 1 + 1 = Len(delivered) + 2
    BY <1>1
  <1>4. Len(delivered) + 1 < Len(Text) => Answer # None
    BY <1>1, <1>2
  <1>5. Len(delivered) + 1 = Len(Text) => Answer \in {None, NUL}
    BY <1>2
  <1>6. None \notin {SLASH, STAR} /\ NUL \notin {SLASH, STAR}
    BY DEF None, NUL, SLASH, STAR
  <1>7. QED
    BY <1>2, <1>3, <1>4, <1>5, <1>6

\* Without a next character the text is at its end.
LEMMA NothingNext ==
  ASSUME Base, Base', ScanStep, Sure', ~HasNext
  PROVE  Len(delivered) >= Len(Text)
  BY Onward DEF Sure, HasNext, View

\* Steps that consume.
LEMMA TileEaten ==
  ASSUME Base, Base', ScanStep, Sure', Eat, NEW b \in Nat,
         TileAt(pc, frame, delivered, b, Text)
  PROVE  TileAt(pc', frame', delivered', b, Text)
  <1> DEFINE q == Goal(pc, frame, delivered)
             p == Goal(pc', frame', delivered')
  <1>1. /\ IInv /\ IsOpen(reader) /\ ScanTypes /\ frame \in FrameSet /\ frame.left \in 1 .. 2
        /\ frame.after \in Afters
        /\ delivered \in Seq(Byte) /\ Len(delivered) \in Nat /\ Len(delivered') \in Nat
        /\ Len(Text) \in Nat /\ Text \in Seq(Byte)
        /\ View(reader', delivered', Text) /\ ~reader'.stateError
    <2>1. Typed2 /\ pc = "eat"
      BY Onward DEF Eat
    <2>2. QED
      BY <2>1, Facts, Onward DEF Sure, Calm, Typed2, ScanTypes, Suits
  <1>2. /\ Read /\ pc = "eat" /\ frame'.left = frame.left - 1 /\ frame'.after = frame.after
        /\ frame'.start = frame.start
        /\ pc' = IF frame.left = 1 THEN frame.after ELSE "eat"
    BY <1>1, EatKeeps
  <1>3. Doing(pc', frame') = frame.after /\ Doing(pc, frame) = frame.after /\ frame.after # "eat"
    BY <1>1, <1>2 DEF Doing, Afters
  <1>4. q = Len(delivered) + frame.left /\ p = Len(delivered') + (frame.left - 1)
        /\ q \in Nat /\ p \in Nat
    BY <1>1, <1>2, <1>3 DEF Goal
  <1>5. p = q \/ (q >= Len(Text) /\ p >= Len(Text))
    <2>1. CASE Answer = None /\ delivered' = delivered
      <3>1. reader'.stateEOF
        BY <1>1, <1>2, <2>1, ReadDoes DEF None, Byte
      <3>2. Len(delivered') >= Len(Text)
        BY <1>1, <3>1 DEF View
      <3>3. QED
        BY <1>1, <1>4, <2>1, <3>2
    <2>2. CASE Answer \in Byte /\ delivered' = Append(delivered, Answer)
      <3>1. Len(delivered') = Len(delivered) + 1
        BY <1>1, <2>2
      <3>2. QED
        BY <1>1, <1>4, <3>1
    <2>3. QED
      BY <1>1, <1>2, <2>1, <2>2, ReadDoes
  <1> HIDE DEF p, q
  <1>6. NoiseAt(Text, q) = NoiseAt(Text, p)
    BY <1>1, <1>4, <1>5, NoisePast
  <1>7. ASSUME NEW k \in 0 .. Len(Text), InLine(Text, k, q) PROVE InLine(Text, k, p)
    <2>1. CASE p = q
      BY <1>7, <2>1
    <2>2. CASE q >= Len(Text) /\ p >= Len(Text)
      BY <1>1, <1>4, <1>7, <2>2 DEF InLine
    <2>3. QED
      BY <1>5, <2>1, <2>2
  <1>8. ASSUME NEW k \in 0 .. Len(Text), InBlock(Text, k, q) PROVE InBlock(Text, k, p)
    <2>1. CASE p = q
      BY <1>8, <2>1
    <2>2. CASE q >= Len(Text) /\ p >= Len(Text)
      <3>1. k + 2 <= p
        BY <1>1, <1>4, <1>8, <2>2 DEF InBlock, Opens
      <3>2. ASSUME NEW j \in Stops(Text, k) PROVE FALSE
        <4>1. j \in k + 3 .. Len(Text) /\ j > q
          BY <1>8 DEF InBlock, Stops
        <4>2. QED
          BY <1>1, <1>4, <2>2, <4>1
      <3>3. QED
        BY <1>8, <3>1, <3>2 DEF InBlock
    <2>3. QED
      BY <1>5, <2>1, <2>2
  <1>9. /\ LineTile(Text, b, q) => LineTile(Text, b, p)
        /\ BlockTile(Text, b, q) => BlockTile(Text, b, p)
    BY <1>1, <1>4, <1>5, <1>7, <1>8 DEF LineTile, BlockTile
  <1>10. pc' \notin {"block_second", "dispatch", "second", "third"}
    BY <1>1, <1>2 DEF Afters
  <1>11. /\ frame.after \in {"skip", "skip_slash"} => NoiseAt(Text, b) = NoiseAt(Text, q)
         /\ frame.after = "line_comment" => LineTile(Text, b, q)
         /\ frame.after \in {"block_comment", "block_second"} => BlockTile(Text, b, q)
         /\ frame.after \in AtWork => NoiseAt(Text, b) = ClipTo(Text, frame.start)
    BY <1>3 DEF TileAt, q
  <1>12. QED
    BY <1>2, <1>3, <1>6, <1>9, <1>10, <1>11 DEF TileAt, p

\* What a label says of TileAt.
LEMMA TileFor ==
  ASSUME NEW f \in FrameSet, NEW d \in Seq(Byte), NEW b \in Nat, NEW text \in Seq(Byte)
  PROVE  /\ NoiseAt(text, b) = NoiseAt(text, Len(d)) =>
              TileAt("skip", f, d, b, text) /\ TileAt("skip_slash", f, d, b, text)
         /\ LineTile(text, b, Len(d)) => TileAt("line_comment", f, d, b, text)
         /\ BlockTile(text, b, Len(d)) => TileAt("block_comment", f, d, b, text)
         /\ BlockTile(text, b, Len(d)) /\ (Len(d) < Len(text) => text[Len(d) + 1] # STAR) =>
              TileAt("block_second", f, d, b, text)
         /\ NoiseAt(text, b) = NoiseAt(text, Len(d)) /\ NoiseAt(text, b) = ClipTo(text, Len(d)) =>
              TileAt("dispatch", f, d, b, text)
         /\ f.after = "skip" /\ NoiseAt(text, b) = NoiseAt(text, Len(d) + f.left) =>
              TileAt("eat", f, d, b, text)
         /\ f.after = "line_comment" /\ LineTile(text, b, Len(d) + f.left) =>
              TileAt("eat", f, d, b, text)
         /\ f.after = "block_comment" /\ BlockTile(text, b, Len(d) + f.left) =>
              TileAt("eat", f, d, b, text)
         /\ f.after \in AtWork /\ NoiseAt(text, b) = ClipTo(text, f.start) =>
              TileAt("eat", f, d, b, text)
  BY DEF TileAt, Doing, Goal, AtWork

\* scanner_skip_whitespace returns where no noise begins.
LEMMA TileSkipped ==
  ASSUME Typed2, SkipDone, NEW b \in Nat, Len(delivered) \in Nat, delivered' = delivered,
         Text \in Seq(Byte), delivered \in Seq(Byte),
         NoiseAt(Text, b) = NoiseAt(Text, Len(delivered)),
         NoiseAt(Text, Len(delivered)) = ClipTo(Text, Len(delivered))
  PROVE  TileAt(pc', frame', delivered', b, Text)
  <1>1. frame \in FrameSet
    BY Facts
  <1>2. CASE frame.again
    <2>1. pc' = "skip" /\ frame' = [frame EXCEPT !.again = FALSE]
      BY <1>2 DEF SkipDone, Continue
    <2>2. frame' \in FrameSet
      BY <1>1, <2>1 DEF FrameSet
    <2>3. QED
      BY <2>1, <2>2, TileFor
  <1>3. CASE ~frame.again
    <2>1. pc' = "dispatch" /\ frame' = frame
      BY <1>3 DEF SkipDone, Goto
    <2>2. QED
      BY <1>1, <2>1, TileFor
  <1>4. QED
    BY <1>2, <1>3

\* It looks at a character.
LEMMA TileSkips ==
  ASSUME Base, Base', ScanStep, Sure', Skip, NEW b \in Nat,
         TileAt(pc, frame, delivered, b, Text)
  PROVE  TileAt(pc', frame', delivered', b, Text)
  <1> DEFINE n == Len(delivered)
  <1>1. /\ Typed2 /\ frame \in FrameSet /\ delivered \in Seq(Byte) /\ n \in Nat /\ n + 1 \in Nat
        /\ Text \in Seq(Byte) /\ Len(Text) \in Nat /\ pc = "skip"
    BY Onward, Facts DEF Skip
  <1>2. NoiseAt(Text, b) = NoiseAt(Text, n)
    BY <1>1 DEF TileAt, Doing, Goal
  <1> HIDE DEF n
  <1>3. CASE ~HasNext /\ Quiet /\ SkipDone
    <2>1. n >= Len(Text) /\ delivered' = delivered
      BY <1>3, NothingNext, QuietDoes DEF n
    <2>2. NoiseAt(Text, n) = ClipTo(Text, n)
      BY <1>1, <2>1, NoisePast
    <2>3. QED
      BY <1>1, <1>2, <1>3, <2>1, <2>2, TileSkipped DEF n
  <1>4. CASE Peek
    <2>1. delivered' = delivered /\ (n < Len(Text) => Answer = Text[n + 1])
      BY <1>4, PeekSeen DEF n
    <2>2. CASE Answer \in Blank /\ EatThen(1, "skip", frame)
      <3>1. NoiseAt(Text, n) = NoiseAt(Text, n + 1)
        BY <1>1, <2>1, <2>2, NoiseBlank
      <3>2. pc' = "eat" /\ frame'.left = 1 /\ frame'.after = "skip"
        BY <1>1, <2>2, EatSets
      <3>3. frame' \in FrameSet
        BY DEF Base, ScanInv, ScanTypes, Suits
      <3>4. QED
        BY <1>1, <1>2, <2>1, <3>1, <3>2, <3>3, TileFor DEF n
    <2>3. CASE Answer = SLASH /\ Goto("skip_slash")
      <3>1. pc' = "skip_slash" /\ frame' = frame
        BY <2>3 DEF Goto
      <3>2. QED
        BY <1>1, <1>2, <2>1, <3>1, TileFor DEF n
    <2>4. CASE Answer \notin Blank \cup {SLASH} /\ SkipDone
      <3>1. n < Len(Text) => /\ Text[n + 1] \notin Blank
                             /\ ~Opens(Text, n, SLASH) /\ ~Opens(Text, n, STAR)
        BY <2>1, <2>4 DEF Opens
      <3>2. NoiseAt(Text, n) = ClipTo(Text, n)
        BY <1>1, <3>1, NoiseNone
      <3>3. QED
        BY <1>1, <1>2, <2>1, <2>4, <3>2, TileSkipped DEF n
    <2>5. QED
      BY <1>3, <1>4, <2>2, <2>3, <2>4 DEF Skip
  <1>5. QED
    BY <1>3, <1>4 DEF Skip

\* It looks behind a slash.
LEMMA TileSlash ==
  ASSUME Base, Base', ScanStep, Sure', SIZE >= 2, SkipSlash, SlashAt(pc, reader), NEW b \in Nat,
         TileAt(pc, frame, delivered, b, Text)
  PROVE  TileAt(pc', frame', delivered', b, Text)
  <1> DEFINE n == Len(delivered)
  <1>1. /\ Typed2 /\ frame \in FrameSet /\ delivered \in Seq(Byte) /\ n \in Nat /\ n + 2 \in Nat
        /\ Text \in Seq(Byte) /\ Len(Text) \in Nat /\ pc = "skip_slash" /\ PeekN(1)
        /\ View(reader, delivered, Text)
    BY Onward, Facts DEF SkipSlash, Sure
  <1>2. NoiseAt(Text, b) = NoiseAt(Text, n)
    BY <1>1 DEF TileAt, Doing, Goal
  <1>3. n < Len(Text) => Text[n + 1] = SLASH
    <2>1. Shows(reader, 0, SLASH)
      BY <1>1 DEF SlashAt
    <2>2. 0 \in Nat /\ n + 0 = n /\ n + 0 + 1 = n + 1
      BY <1>1
    <2>3. QED
      BY <1>1, <2>1, <2>2 DEF View
  <1>4. /\ delivered' = delivered
        /\ n + 1 < Len(Text) => Answer = Text[n + 2]
        /\ n + 1 = Len(Text) => Answer \notin {SLASH, STAR}
    BY <1>1, NextSeen
  <1>5. frame' \in FrameSet
    BY DEF Base, ScanInv, ScanTypes, Suits
  <1> HIDE DEF n
  <1>6. \A c \in {SLASH, STAR} : n < Len(Text) => (Opens(Text, n, c) <=> Answer = c)
    BY <1>1, <1>3, <1>4 DEF Opens
  <1>7. n < Len(Text) => n \in 0 .. Len(Text) /\ SLASH \notin Blank
    BY <1>1 DEF SLASH, Blank, SPACE, CR, TAB, NL
  <1>8. ~(n < Len(Text)) => /\ NoiseAt(Text, n) = Len(Text) /\ NoiseAt(Text, Len(Text)) = Len(Text)
                            /\ NoiseAt(Text, n + 2) = Len(Text) /\ Len(Text) \in 0 .. Len(Text)
                            /\ n >= Len(Text) /\ n + 2 >= Len(Text)
    BY <1>1, NoisePast
  <1>9. CASE Answer = SLASH /\ Goto("line_comment")
    <2>1. pc' = "line_comment" /\ frame' = frame
      BY <1>9 DEF Goto
    <2>2. LineTile(Text, b, n)
      <3>1. CASE n < Len(Text)
        <4>1. InLine(Text, n, n)
          BY <1>1, <1>6, <1>7, <1>9, <3>1 DEF InLine
        <4>2. QED
          BY <1>2, <1>7, <3>1, <4>1 DEF LineTile
      <3>2. CASE ~(n < Len(Text))
        BY <1>2, <1>8, <3>2 DEF LineTile
      <3>3. QED
        BY <3>1, <3>2
    <2>3. QED
      BY <1>1, <1>4, <2>1, <2>2, TileFor DEF n
  <1>10. CASE Answer = STAR /\ EatThen(2, "block_comment", frame)
    <2>1. pc' = "eat" /\ frame'.left = 2 /\ frame'.after = "block_comment"
      BY <1>1, <1>10, EatSets
    <2>2. BlockTile(Text, b, n + 2)
      <3>1. CASE n < Len(Text)
        <4>1. ASSUME NEW j \in Stops(Text, n) PROVE j > n + 2
          <5>1. j \in n + 3 .. Len(Text)
            BY DEF Stops
          <5>2. QED
            BY <1>1, <5>1
        <4>2. InBlock(Text, n, n + 2)
          BY <1>1, <1>6, <1>7, <1>10, <3>1, <4>1 DEF InBlock
        <4>3. QED
          BY <1>2, <1>7, <3>1, <4>2 DEF BlockTile
      <3>2. CASE ~(n < Len(Text))
        BY <1>2, <1>8, <3>2 DEF BlockTile
      <3>3. QED
        BY <3>1, <3>2
    <2>3. QED
      BY <1>1, <1>4, <1>5, <2>1, <2>2, TileFor DEF n
  <1>11. CASE Answer \notin {SLASH, STAR} /\ SkipDone
    <2>1. NoiseAt(Text, n) = ClipTo(Text, n)
      BY <1>1, <1>3, <1>6, <1>7, <1>11, NoiseNone
    <2>2. QED
      BY <1>1, <1>2, <1>4, <1>11, <2>1, TileSkipped DEF n
  <1>12. QED
    BY <1>9, <1>10, <1>11 DEF SkipSlash

\* It goes through a line comment.
LEMMA TileLine ==
  ASSUME Base, Base', ScanStep, Sure', LineComment, NEW b \in Nat,
         TileAt(pc, frame, delivered, b, Text)
  PROVE  TileAt(pc', frame', delivered', b, Text)
  <1> DEFINE n == Len(delivered)
  <1>1. /\ Typed2 /\ frame \in FrameSet /\ delivered \in Seq(Byte) /\ n \in Nat /\ n + 1 \in Nat
        /\ Text \in Seq(Byte) /\ Len(Text) \in Nat /\ pc = "line_comment"
    BY Onward, Facts DEF LineComment
  <1>2. LineTile(Text, b, n)
    BY <1>1 DEF TileAt, Doing, Goal
  <1>3. frame' \in FrameSet
    BY DEF Base, ScanInv, ScanTypes, Suits
  <1> HIDE DEF n
  <1>4. PICK k \in 0 .. Len(Text) :
          /\ NoiseAt(Text, b) = NoiseAt(Text, k)
          /\ InLine(Text, k, n) \/ (k = Len(Text) /\ n >= k)
    BY <1>2 DEF LineTile
  <1>5. k \in Nat
    BY <1>1
  <1>6. ASSUME n < Len(Text) => Text[n + 1] = NL, delivered' = delivered, Goto("skip")
        PROVE  TileAt(pc', frame', delivered', b, Text)
    <2>1. NoiseAt(Text, b) = NoiseAt(Text, n)
      <3>1. CASE InLine(Text, k, n)
        BY <1>1, <1>4, <1>5, <1>6, <3>1, LineOver
      <3>2. CASE k = Len(Text) /\ n >= k
        BY <1>1, <1>4, <1>5, <3>2, NoisePast
      <3>3. QED
        BY <1>4, <3>1, <3>2
    <2>2. pc' = "skip"
      BY <1>6 DEF Goto
    <2>3. QED
      BY <1>1, <1>3, <1>6, <2>1, <2>2, TileFor DEF n
  <1>7. CASE ~HasNext /\ Quiet /\ Goto("skip")
    <2>1. n >= Len(Text) /\ delivered' = delivered
      BY <1>7, NothingNext, QuietDoes DEF n
    <2>2. QED
      BY <1>1, <1>6, <1>7, <2>1
  <1>8. CASE Peek
    <2>1. delivered' = delivered /\ (n < Len(Text) => Answer = Text[n + 1])
      BY <1>8, PeekSeen DEF n
    <2>2. CASE Answer = NL /\ Goto("skip")
      BY <1>6, <2>1, <2>2
    <2>3. CASE Answer # NL /\ EatThen(1, "line_comment", frame)
      <3>1. pc' = "eat" /\ frame'.left = 1 /\ frame'.after = "line_comment"
        BY <1>1, <2>3, EatSets
      <3>2. LineTile(Text, b, n + 1)
        <4>1. CASE InLine(Text, k, n)
          <5>1. InLine(Text, k, n + 1)
            <6>1. ASSUME NEW i \in k + 1 .. Len(Text), i <= n + 1 PROVE Text[i] # NL
              <7>1. i \in Nat /\ i <= Len(Text) /\ (i <= n \/ i = n + 1)
                BY <1>1, <1>5, <6>1
              <7>2. QED
                BY <1>1, <2>1, <2>3, <4>1, <7>1 DEF InLine
            <6>2. k <= n + 1
              BY <1>1, <1>5, <4>1 DEF InLine
            <6>3. QED
              BY <4>1, <6>1, <6>2 DEF InLine
          <5>2. QED
            BY <1>4, <5>1 DEF LineTile
        <4>2. CASE k = Len(Text) /\ n >= k
          <5>1. n + 1 >= k
            BY <1>1, <4>2
          <5>2. QED
            BY <1>4, <4>2, <5>1 DEF LineTile
        <4>3. QED
          BY <1>4, <4>1, <4>2
      <3>3. QED
        BY <1>1, <1>3, <2>1, <3>1, <3>2, TileFor DEF n
    <2>4. QED
      BY <1>7, <1>8, <2>2, <2>3 DEF LineComment
  <1>9. QED
    BY <1>7, <1>8 DEF LineComment

\* The loop over a block comment stops.
LEMMA TileBlockOver ==
  ASSUME NEW text \in Seq(Byte), NEW b \in Nat, NEW n \in Nat, PlainComments(text),
         BlockTile(text, b, n),
         \A k \in 0 .. Len(text) : InBlock(text, k, n) /\ n < Len(text) => n + 1 \in Stops(text, k)
  PROVE  NoiseAt(text, b) = NoiseAt(text, n + 2)
  <1>1. Len(text) \in Nat /\ n + 2 \in Nat
    OBVIOUS
  <1>2. PICK k \in 0 .. Len(text) :
          /\ NoiseAt(text, b) = NoiseAt(text, k)
          /\ InBlock(text, k, n) \/ (k = Len(text) /\ n >= k)
    BY DEF BlockTile
  <1>3. k \in Nat
    BY <1>1
  <1>4. CASE InBlock(text, k, n)
    BY <1>1, <1>2, <1>3, <1>4, BlockOver
  <1>5. CASE k = Len(text) /\ n >= k
    <2>1. n + 2 >= Len(text)
      BY <1>1, <1>5
    <2>2. QED
      BY <1>1, <1>2, <1>3, <1>5, <2>1, NoisePast
  <1>6. QED
    BY <1>2, <1>4, <1>5

\* Where a block comment stops.
LEMMA StopsHere ==
  ASSUME NEW text \in Seq(Byte), NEW k \in 0 .. Len(text), NEW n \in Nat, InBlock(text, k, n),
         n < Len(text)
  PROVE  n + 1 \in Stops(text, k)
           <=> text[n + 1] = STAR \/ (n + 1 < Len(text) /\ text[n + 2] = SLASH)
  <1>1. n + 1 \in k + 3 .. Len(text) /\ (n + 1) + 1 = n + 2
    BY DEF InBlock
  <1>2. QED
    BY <1>1 DEF Stops

\* The step at a star.
LEMMA TileBlock ==
  ASSUME Base, Base', ScanStep, Sure', PlainComments(Text), BlockComment, NEW b \in Nat,
         TileAt(pc, frame, delivered, b, Text)
  PROVE  TileAt(pc', frame', delivered', b, Text)
  <1> DEFINE n == Len(delivered)
  <1>1. /\ Typed2 /\ frame \in FrameSet /\ delivered \in Seq(Byte) /\ n \in Nat /\ n + 2 \in Nat
        /\ Text \in Seq(Byte) /\ Len(Text) \in Nat /\ pc = "block_comment"
    BY Onward, Facts DEF BlockComment
  <1>2. BlockTile(Text, b, n)
    BY <1>1 DEF TileAt, Doing, Goal
  <1>3. frame' \in FrameSet
    BY DEF Base, ScanInv, ScanTypes, Suits
  <1> HIDE DEF n
  <1>4. ASSUME n < Len(Text) => Text[n + 1] = STAR, delivered' = delivered, CommentEnds
        PROVE  TileAt(pc', frame', delivered', b, Text)
    <2>1. \A k \in 0 .. Len(Text) : InBlock(Text, k, n) /\ n < Len(Text) => n + 1 \in Stops(Text, k)
      BY <1>1, <1>4, StopsHere
    <2>2. NoiseAt(Text, b) = NoiseAt(Text, n + 2)
      BY <1>1, <1>2, <2>1, TileBlockOver
    <2>3. pc' = "eat" /\ frame'.left = 2 /\ frame'.after = "skip"
      BY <1>1, <1>4, EatSets DEF CommentEnds
    <2>4. QED
      BY <1>1, <1>3, <1>4, <2>2, <2>3, TileFor DEF n
  <1>5. CASE ~HasNext /\ Quiet /\ CommentEnds
    <2>1. n >= Len(Text) /\ delivered' = delivered
      BY <1>5, NothingNext, QuietDoes DEF n
    <2>2. QED
      BY <1>1, <1>4, <1>5, <2>1
  <1>6. CASE Peek
    <2>1. delivered' = delivered /\ (n < Len(Text) => Answer = Text[n + 1])
      BY <1>6, PeekSeen DEF n
    <2>2. CASE Answer = STAR /\ CommentEnds
      BY <1>4, <2>1, <2>2
    <2>3. CASE Answer # STAR /\ Goto("block_second")
      <3>1. pc' = "block_second"
        BY <2>3 DEF Goto
      <3>2. QED
        BY <1>1, <1>2, <1>3, <2>1, <2>3, <3>1, TileFor DEF n
    <2>4. QED
      BY <1>5, <1>6, <2>2, <2>3 DEF BlockComment
  <1>7. QED
    BY <1>5, <1>6 DEF BlockComment

\* The step in front of a slash.
LEMMA TileSecond ==
  ASSUME Base, Base', ScanStep, Sure', SIZE >= 2, PlainComments(Text), BlockSecond, NEW b \in Nat,
         TileAt(pc, frame, delivered, b, Text)
  PROVE  TileAt(pc', frame', delivered', b, Text)
  <1> DEFINE n == Len(delivered)
  <1>1. /\ Typed2 /\ frame \in FrameSet /\ delivered \in Seq(Byte) /\ n \in Nat /\ n + 1 \in Nat
        /\ n + 2 \in Nat
        /\ Text \in Seq(Byte) /\ Len(Text) \in Nat /\ pc = "block_second" /\ PeekN(1)
    BY Onward, Facts DEF BlockSecond
  <1>2. BlockTile(Text, b, n) /\ (n < Len(Text) => Text[n + 1] # STAR)
    BY <1>1 DEF TileAt, Doing, Goal
  <1>3. frame' \in FrameSet
    BY DEF Base, ScanInv, ScanTypes, Suits
  <1>4. /\ delivered' = delivered
        /\ n + 1 < Len(Text) => Answer = Text[n + 2]
        /\ n + 1 = Len(Text) => Answer \notin {SLASH, STAR}
    BY <1>1, NextSeen
  <1> HIDE DEF n
  <1>5. CASE Answer = SLASH /\ CommentEnds
    <2>1. n < Len(Text) => n + 1 < Len(Text) /\ Text[n + 2] = SLASH
      BY <1>1, <1>4, <1>5
    <2>2. \A k \in 0 .. Len(Text) : InBlock(Text, k, n) /\ n < Len(Text) => n + 1 \in Stops(Text, k)
      BY <1>1, <2>1, StopsHere
    <2>3. NoiseAt(Text, b) = NoiseAt(Text, n + 2)
      BY <1>1, <1>2, <2>2, TileBlockOver
    <2>4. pc' = "eat" /\ frame'.left = 2 /\ frame'.after = "skip"
      BY <1>1, <1>5, EatSets DEF CommentEnds
    <2>5. QED
      BY <1>1, <1>3, <1>4, <2>3, <2>4, TileFor DEF n
  <1>6. CASE Answer # SLASH /\ EatThen(1, "block_comment", frame)
    <2>1. pc' = "eat" /\ frame'.left = 1 /\ frame'.after = "block_comment"
      BY <1>1, <1>6, EatSets
    <2>2. BlockTile(Text, b, n + 1)
      <3>1. PICK k \in 0 .. Len(Text) :
              /\ NoiseAt(Text, b) = NoiseAt(Text, k)
              /\ InBlock(Text, k, n) \/ (k = Len(Text) /\ n >= k)
        BY <1>2 DEF BlockTile
      <3>2. k \in Nat
        BY <1>1
      <3>3. CASE InBlock(Text, k, n)
        <4>1. ASSUME NEW j \in Stops(Text, k) PROVE j > n + 1
          <5>1. j \in Nat /\ j <= Len(Text) /\ j > n
            BY <1>1, <3>2, <3>3 DEF Stops, InBlock
          <5>2. j # n + 1
            <6>1. SUFFICES ASSUME j = n + 1 PROVE FALSE
              OBVIOUS
            <6>2. n < Len(Text)
              BY <1>1, <5>1
            <6>3. Text[n + 1] = STAR \/ (n + 1 < Len(Text) /\ Text[n + 2] = SLASH)
              BY <1>1, <3>3, <6>1, <6>2, StopsHere
            <6>4. QED
              BY <1>2, <1>4, <1>6, <6>2, <6>3
          <5>3. QED
            BY <1>1, <5>1, <5>2
        <4>2. k + 2 <= n + 1
          BY <1>1, <3>2, <3>3 DEF InBlock
        <4>3. InBlock(Text, k, n + 1)
          BY <3>3, <4>1, <4>2 DEF InBlock
        <4>4. QED
          BY <3>1, <4>3 DEF BlockTile
      <3>4. CASE k = Len(Text) /\ n >= k
        <4>1. n + 1 >= k
          BY <1>1, <3>4
        <4>2. QED
          BY <3>1, <3>4, <4>1 DEF BlockTile
      <3>5. QED
        BY <3>1, <3>3, <3>4
    <2>3. QED
      BY <1>1, <1>3, <1>4, <2>1, <2>2, TileFor DEF n
  <1>7. QED
    BY <1>5, <1>6 DEF BlockSecond

\* And of the labels of the recognisers.
LEMMA TileForWork ==
  ASSUME NEW label \in AtWork, NEW f \in FrameSet, NEW d \in Seq(Byte), NEW b \in Nat,
         NEW text \in Seq(Byte), NoiseAt(text, b) = ClipTo(text, f.start),
         label \in {"second", "third"} => f.start = Len(d) /\ NoiseAt(text, b) = NoiseAt(text, Len(d))
  PROVE  TileAt(label, f, d, b, text)
  BY DEF TileAt, Doing, Goal, AtWork

\* A recogniser begins.
LEMMA TileBegins ==
  ASSUME Base, Base', ScanStep, Sure', Dispatch, Lands(Frame(None)), NEW b \in Nat,
         TileAt(pc, frame, delivered, b, Text)
  PROVE  TileAt(pc', frame', delivered', b, Text)
  <1> DEFINE n == Len(delivered)
  <1>1. /\ Typed2 /\ TypeOK /\ delivered \in Seq(Byte) /\ n \in Nat
        /\ Text \in Seq(Byte) /\ Len(Text) \in Nat /\ pc = "dispatch"
    BY Onward DEF Dispatch, Typed2
  <1>2. NoiseAt(Text, b) = NoiseAt(Text, n) /\ NoiseAt(Text, b) = ClipTo(Text, n)
    BY <1>1 DEF TileAt
  <1>3. frame' \in FrameSet /\ frame'.start = n
    <2>1. SamePlace(Frame(None), frame')
      BY DEF Lands
    <2>2. Frame(None).start = n
      BY <1>1, FrameFresh
    <2>3. QED
      BY <2>1, <2>2 DEF SamePlace, Base, ScanInv, ScanTypes, Suits
  <1>4. delivered' = delivered
    BY PeekSeen, QuietDoes DEF Dispatch
  <1>5. pc' \in {"word", "number", "eat", "second"}
    BY WordGoes DEF Lands, Running
  <1> HIDE DEF n
  <1>6. CASE pc' \in {"word", "number", "second"}
    <2>1. pc' \in AtWork
      BY <1>6 DEF AtWork
    <2>2. QED
      BY <1>1, <1>2, <1>3, <1>4, <2>1, TileForWork DEF n
  <1>7. CASE pc' = "eat"
    <2>1. Answer \in Byte \cup {None}
      BY <1>1, Facts
    <2>2. Frame(Answer) \in FrameSet
      BY <1>1, <2>1, FrameFresh
    <2>3. Answer \in Single => [Frame(Answer) EXCEPT !.content = <<Answer>>] \in FrameSet
      <3>1. Answer \in Single => Answer \in Byte
        BY OpBytes
      <3>2. QED
        BY <1>1, <2>1, <3>1, FrameStored
    <2>4. \E f \in FrameSet : \E label \in {"string_peek", "char", "operator"} : EatThen(1, label, f)
      BY <1>7, <2>2, <2>3 DEF Dispatch, EmitHere, Emit, Continue
    <2>5. frame'.after \in {"string_peek", "char", "operator"}
      BY <2>4, EatSets
    <2>6. frame'.after \in AtWork
      BY <2>5 DEF AtWork
    <2>7. QED
      BY <1>1, <1>2, <1>3, <1>4, <1>7, <2>6, TileFor DEF n
  <1>8. QED
    BY <1>5, <1>6, <1>7

\* It works on.
LEMMA TileWorks ==
  ASSUME Base, Base', ScanStep, Sure', pc \in AtWork, Lands(frame), NEW b \in Nat,
         TileAt(pc, frame, delivered, b, Text)
  PROVE  TileAt(pc', frame', delivered', b, Text)
  <1>1. /\ Typed2 /\ ScanTypes /\ frame \in FrameSet /\ delivered \in Seq(Byte)
        /\ delivered' \in Seq(Byte) /\ Text \in Seq(Byte) /\ Len(Text) \in Nat
        /\ IInv /\ IsOpen(reader) /\ 1 \in 0 .. SIZE
    BY Onward, Facts, SizeAssumption DEF Typed2
  <1>2. NoiseAt(Text, b) = ClipTo(Text, frame.start) /\ pc # "eat"
    BY DEF TileAt, Doing, AtWork
  <1>3. frame' \in FrameSet /\ frame'.start = frame.start
    BY DEF Lands, SamePlace, Base, ScanInv, ScanTypes, Suits
  <1>4. /\ ~Eat /\ ~Dispatch /\ ~Skip /\ ~SkipSlash /\ ~LineComment /\ ~BlockComment /\ ~BlockSecond
        /\ ~ReadNext
    BY DEF AtWork, Eat, Dispatch, Skip, SkipSlash, LineComment, BlockComment, BlockSecond, ReadNext
  <1>5. CASE pc' \in {"skip", "third"}
    <2>1. Second \/ Third
      BY <1>1, <1>4, <1>5, SkipGoes, WordGoes, NumberGoes DEF ScanStep
    <2>2. PeekN(1) /\ pc \in {"second", "third"} /\ delivered' = delivered
      BY <1>1, <2>1, PeekNDoes DEF Second, Third
    <2>3. frame.start = Len(delivered) /\ NoiseAt(Text, b) = NoiseAt(Text, Len(delivered))
      BY <2>2 DEF TileAt
    <2>4. CASE pc' = "skip"
      BY <1>1, <1>3, <2>2, <2>3, <2>4, TileFor
    <2>5. CASE pc' = "third"
      <3>1. pc' \in AtWork
        BY <2>5 DEF AtWork
      <3>2. QED
        BY <1>1, <1>2, <1>3, <2>2, <2>3, <3>1, TileForWork
    <2>6. QED
      BY <1>5, <2>4, <2>5
  <1>6. CASE pc' = "eat"
    <2>1. frame'.after \in AtWork
      <3>1. CASE String
        <4>1. EatThen(1, "string_end", frame)
          BY <1>6, <3>1 DEF String, Continue
        <4>2. QED
          BY <1>1, <4>1, EatSets DEF AtWork
      <3>2. CASE CharPeek
        <4>1. EatThen(1, "char_end", frame)
          BY <1>6, <3>2 DEF CharPeek, EmitHere, Emit
        <4>2. QED
          BY <1>1, <4>1, EatSets DEF AtWork
      <3>3. CASE Second \/ Third
        <4>1. frame'.after = "operator"
          <5>1. Second => \E n : \E f \in FrameSet : EatThen(n, "operator", f)
            <6>1. ASSUME <<frame.next, Answer>> \in Pairs
                  PROVE  [frame EXCEPT !.content = <<frame.next, Answer>>] \in FrameSet
              <7>1. frame.next \in Byte /\ Answer \in Byte
                BY <6>1, OpBytes
              <7>2. <<frame.next, Answer>> \in Seq(Byte)
                BY <7>1
              <7>3. QED
                BY <1>1, <7>2 DEF FrameSet
            <6>2. QED
              BY <1>1, <1>6, <6>1 DEF Second, Goto, Continue, EmitHere, Emit
          <5>2. Third => EatThen(1, "operator", frame)
            BY <1>6 DEF Third, Continue
          <5>3. QED
            BY <1>1, <3>3, <5>1, <5>2, EatSets
        <4>2. QED
          BY <4>1 DEF AtWork
      <3>4. QED
        BY <1>1, <1>4, <1>6, <3>1, <3>2, <3>3, EatFrom
    <2>2. QED
      BY <1>1, <1>2, <1>3, <1>6, <2>1, TileFor
  <1>7. CASE pc' \notin {"skip", "third", "eat"}
    <2>1. pc' \in AtWork /\ pc' \notin {"second", "third"}
      <3>1. pc' # "idle"
        BY DEF Lands, Running
      <3>2. QED
        BY <1>1, <1>4, <1>7, <3>1, SkipGoes, WordGoes, NumberGoes DEF ScanStep, AtWork
    <2>2. QED
      BY <1>1, <1>2, <1>3, <2>1, TileForWork
  <1>8. QED
    BY <1>5, <1>6, <1>7

\* Where the last token ends.
Before == IF tokens = <<>> THEN 0 ELSE tokens[Len(tokens)].end

\* The tokens, errors aside, begin where the noise behind the one before them ends.
TilesFor ==
  \A k \in 1 .. Len(tokens) :
    tokens[k].type # "ERROR" =>
      ClipTo(Text, tokens[k].start) = NoiseAt(Text, IF k = 1 THEN 0 ELSE tokens[k - 1].end)

\* What is so between the tokens of a text without odd comments.
TileInv ==
  /\ pc = "idle" => Len(delivered) = Before
  /\ Sure /\ PlainComments(Text) => TileAt(pc, frame, delivered, Before, Text) /\ TilesFor

\* Between two tokens there is nothing to say.
LEMMA TileRests ==
  ASSUME NEW label \in {"new", "open", "idle", "destroyed"}, NEW f, NEW d, NEW b, NEW text
  PROVE  TileAt(label, f, d, b, text)
  BY DEF TileAt, Doing, AtWork

\* The end of the last token is a number of characters.
LEMMA BeforeIs ==
  ASSUME tokens \in Seq(TokenSet)
  PROVE  Before \in Nat
  <1>1. CASE tokens = <<>>
    BY <1>1 DEF Before
  <1>2. CASE tokens # <<>>
    <2>1. Len(tokens) \in 1 .. Len(tokens)
      BY <1>2
    <2>2. tokens[Len(tokens)] \in TokenSet
      BY <2>1, ElementOfSeq
    <2>3. QED
      BY <1>2, <2>2 DEF Before, TokenSet
  <1>3. QED
    BY <1>1, <1>2

\* The end of the file is told where a token would begin.
LEMMA EndFromDispatch ==
  ASSUME Typed2, ScanStep, pc' = "idle", NEW t \in TokenSet, tokens' = Append(tokens, t),
         t.type = "EOS"
  PROVE  Dispatch /\ EmitHere("EOS")
  <1>1. ScanTypes /\ tokens \in Seq(TokenSet) /\ frame \in FrameSet
    BY Facts DEF Typed2, ScanTypes
  <1>2. \A type : \A line, column, content, start :
          Emit(type, line, column, content, start) => type = "EOS"
    BY <1>1, EmitIs
  <1>3. /\ \A type : EmitHere(type) => type = "EOS"
        /\ \A type : EmitLexeme(type) => type = "EOS"
        /\ \A column : ~NumberError(column)
    BY <1>2 DEF EmitHere, EmitLexeme, NumberError
  <1>4. ~EmitLexeme("OPERATOR") /\ ~EmitLexeme("WORD") /\ ~EmitLexeme("STRING")
        /\ ~EmitLexeme("CHAR") /\ ~EmitHere("ERROR")
    BY <1>3
  <1>5. \/ Dispatch \/ Second \/ Operator \/ WordNext
        \/ NumberSeek \/ NumberUnsigned \/ NumberEnd \/ StringEnd \/ CharPeek \/ CharEnd
    BY <1>1, SkipGoes, WordGoes, NumberGoes DEF ScanStep, Afters
  <1>6. CASE Dispatch
    BY <1>4, <1>6 DEF Dispatch, EatThen, Continue
  <1>7. ~Second /\ ~CharPeek
    BY <1>4 DEF Second, CharPeek, EatThen, Continue, Goto
  <1>8. ~Operator /\ ~StringEnd /\ ~CharEnd
    BY <1>4 DEF Operator, StringEnd, CharEnd
  <1>9. ~WordNext
    BY <1>4 DEF WordNext, Continue
  <1>10. ~NumberSeek /\ ~NumberUnsigned
    BY <1>3 DEF NumberSeek, NumberUnsigned, Typed, Continue
  <1>11. ~NumberEnd
    <2>1. SUFFICES ASSUME NumberEnd PROVE FALSE
      OBVIOUS
    <2>2. EmitLexeme(frame.type)
      BY <1>3, <2>1 DEF NumberEnd
    <2>3. frame.type = "EOS"
      BY <1>3, <2>2
    <2>4. QED
      BY <1>1, <2>3 DEF FrameSet, NumberTypes
  <1>12. QED
    BY <1>5, <1>6, <1>7, <1>8, <1>9, <1>10, <1>11

\* A token begins where the noise ends.
LEMMA TileMade ==
  ASSUME Base, Base', ScanStep, Sure', pc' = "idle", NEW t \in TokenSet,
         tokens' = Append(tokens, t), t.type # "ERROR", NEW b \in Nat,
         TileAt(pc, frame, delivered, b, Text)
  PROVE  ClipTo(Text, t.start) = NoiseAt(Text, b)
  <1>1. /\ Typed2 /\ ScanTypes /\ tokens \in Seq(TokenSet) /\ frame \in FrameSet
        /\ \E u \in TokenSet : tokens' = Append(tokens, u) /\ Stamped(u)
    <2>1. Typed2 /\ frame \in FrameSet
      BY Onward, Facts
    <2>2. ~Lands(frame) /\ ~Lands(Frame(None))
      BY DEF Lands, Running
    <2>3. Makes
      BY <2>1, <2>2, ScanStepShape
    <2>4. QED
      BY <2>1, <2>3 DEF Makes, Typed2, ScanTypes
  <1>2. CASE t.type = "EOS"
    <2>1. Dispatch /\ EmitHere("EOS")
      BY <1>1, <1>2, EndFromDispatch
    <2>2. t.start = Len(delivered)
      <3>1. \A type : \A line, column, content, start :
              Emit(type, line, column, content, start) => t.start = start
        BY <1>1, EmitIs
      <3>2. Emit("EOS", reader'.lineNumber, reader'.columnNumber, <<>>, Len(delivered'))
        BY <2>1 DEF EmitHere
      <3>3. delivered' = delivered
        BY <2>1, PeekSeen, QuietDoes DEF Dispatch
      <3>4. QED
        BY <3>1, <3>2, <3>3, Zenon
    <2>3. QED
      BY <2>1, <2>2 DEF Dispatch, TileAt
  <1>3. CASE t.type # "EOS"
    <2>1. \A type : \A line, column, content, start :
            Emit(type, line, column, content, start) => t.type = type /\ t.start = start
      BY <1>1, EmitIs
    <2>2. /\ \A type \in {"EOS", "ERROR"} : ~EmitHere(type)
          /\ \A column : ~NumberError(column)
          /\ \A type : EmitLexeme(type) => t.start = frame.start
      BY <1>3, <2>1 DEF EmitHere, EmitLexeme, NumberError
    <2>3. \/ Operator /\ EmitLexeme("OPERATOR")
          \/ WordNext /\ EmitLexeme("WORD")
          \/ NumberEnd /\ EmitLexeme(frame.type)
          \/ StringEnd /\ EmitLexeme("STRING")
          \/ CharEnd /\ EmitLexeme("CHAR")
      BY <1>1, <2>2, Makers
    <2>4. t.start = frame.start /\ pc \in AtWork
      BY <2>2, <2>3 DEF Operator, WordNext, NumberEnd, StringEnd, CharEnd, AtWork
    <2>5. pc # "eat"
      BY <2>4 DEF AtWork
    <2>6. QED
      BY <2>4, <2>5 DEF TileAt, Doing
  <1>4. QED
    BY <1>2, <1>3

\* At every step of scanner_read_next: between the tokens.
LEMMA TileLands ==
  ASSUME Base, Base', ScanStep, Sure', SIZE >= 2, PlainComments(Text), SlashAt(pc, reader),
         NEW b \in Nat, pc = "idle" => Len(delivered) = b,
         Lands(frame) \/ Lands(Frame(None)), TileAt(pc, frame, delivered, b, Text)
  PROVE  TileAt(pc', frame', delivered', b, Text)
  <1>1. Typed2 /\ ScanTypes /\ delivered \in Seq(Byte) /\ Text \in Seq(Byte) /\ pc' # "idle"
    BY Onward DEF Typed2, Lands, Running
  <1>2. CASE ReadNext
    <2>1. pc = "idle" /\ pc' = "skip" /\ delivered' = delivered
      BY <1>2, QuietDoes DEF ReadNext, Continue
    <2>2. frame' \in FrameSet
      BY DEF Base, ScanInv, ScanTypes, Suits
    <2>3. QED
      BY <1>1, <2>1, <2>2, TileFor
  <1>3. CASE Dispatch
    <2>1. Lands(Frame(None))
      <3>1. ~Makes
        BY <1>1 DEF Makes
      <3>2. QED
        BY <1>1, <1>3, <3>1, DispatchLands
    <2>2. QED
      BY <1>3, <2>1, TileBegins
  <1>4. CASE Eat \/ Skip \/ SkipSlash \/ LineComment \/ BlockComment \/ BlockSecond
    BY <1>4, TileEaten, TileSkips, TileSlash, TileLine, TileBlock, TileSecond
  <1>5. CASE \/ Second \/ Third \/ Operator
             \/ WordFirst \/ WordPeek \/ WordNext
             \/ NumberSeek \/ NumberUnsigned \/ NumberCopy \/ NumberEnd
             \/ StringPeek \/ String \/ StringEnd
             \/ CharFirst \/ CharPeek \/ CharEnd
    <2>1. pc \in AtWork
      BY <1>5, WordGoes, NumberGoes DEF AtWork
    <2>2. ~Makes
      BY <1>1 DEF Makes
    <2>3. Lands(frame)
      BY <1>1, <1>5, <2>2, SecondLands, ThirdLands, OperatorMakes, WordFirstLands, WordNextLands,
         NumberSeekLands, NumberUnsignedLands, NumberCopyLands, NumberEndMakes, StringPeekLands,
         StringLands, StringEndMakes, CharLands, Zenon
    <2>4. QED
      BY <2>1, <2>3, TileWorks
  <1>6. QED
    BY <1>2, <1>3, <1>4, <1>5, Zenon DEF ScanStep

\* A token ends at the last character that has been taken.
LEMMA TokenEnds ==
  ASSUME ScanTypes, ScanStep, pc' = "idle", NEW t \in TokenSet, tokens' = Append(tokens, t)
  PROVE  t.end = Len(delivered')
  <1>1. \A type : \A line, column, content, start :
          Emit(type, line, column, content, start) => t.end = Len(delivered')
    BY EmitIs DEF ScanTypes
  <1>2. /\ \A type : EmitHere(type) => t.end = Len(delivered')
        /\ \A type : EmitLexeme(type) => t.end = Len(delivered')
        /\ \A column : NumberError(column) => t.end = Len(delivered')
    BY <1>1 DEF EmitHere, EmitLexeme, NumberError
  <1>3. QED
    BY <1>2, Makers

\* At every step of scanner_read_next.
LEMMA TileScanStep ==
  ASSUME Base, Base', ScanStep, SIZE >= 2, SlashAt(pc, reader), TileInv
  PROVE  TileInv'
  <1>1. /\ Typed2 /\ ScanTypes /\ tokens \in Seq(TokenSet) /\ Len(tokens) \in Nat
        /\ Text' = Text /\ (Sure' => Sure) /\ Before \in Nat
    BY Onward, BeforeIs DEF Typed2, ScanTypes
  <1>2. CASE Lands(frame) \/ Lands(Frame(None))
    <2>1. tokens' = tokens /\ pc' # "idle"
      BY <1>2 DEF Lands, Running
    <2>2. Before' = Before
      BY <2>1 DEF Before
    <2>3. ASSUME Sure', PlainComments(Text)
          PROVE  TileAt(pc', frame', delivered', Before, Text) /\ TilesFor'
      <3>1. TileAt(pc, frame, delivered, Before, Text) /\ TilesFor
        BY <1>1, <2>3 DEF TileInv
      <3>2. pc = "idle" => Len(delivered) = Before
        BY DEF TileInv
      <3>3. TileAt(pc', frame', delivered', Before, Text)
        BY <1>1, <1>2, <2>3, <3>1, <3>2, TileLands
      <3>4. TilesFor'
        BY <1>1, <2>1, <3>1 DEF TilesFor
      <3>5. QED
        BY <3>3, <3>4
    <2>4. QED
      BY <1>1, <2>1, <2>2, <2>3 DEF TileInv
  <1>3. CASE Makes
    <2>1. pc' = "idle"
      BY <1>3 DEF Makes
    <2>2. PICK t \in TokenSet : tokens' = Append(tokens, t)
      BY <1>3 DEF Makes
    <2>3. /\ tokens'[Len(tokens')] = t /\ Len(tokens') = Len(tokens) + 1
          /\ \A k \in 1 .. Len(tokens) : tokens'[k] = tokens[k]
      BY <1>1, <2>2, LastToken
    <2>4. Len(delivered') = Before'
      <3>1. t.end = Len(delivered')
        BY <1>1, <2>1, <2>2, TokenEnds
      <3>2. Len(tokens') # 0
        BY <1>1, <2>3
      <3>3. tokens' # <<>>
        BY <3>2
      <3>4. QED
        BY <2>3, <3>1, <3>3 DEF Before
    <2>5. ASSUME Sure', PlainComments(Text)
          PROVE  TileAt(pc', frame', delivered', Before', Text) /\ TilesFor'
      <3>1. TileAt(pc, frame, delivered, Before, Text) /\ TilesFor
        BY <1>1, <2>5 DEF TileInv
      <3>2. TileAt(pc', frame', delivered', Before', Text)
        BY <2>1, TileRests
      <3>3. ASSUME NEW k \in 1 .. Len(tokens'), tokens'[k].type # "ERROR"
            PROVE  ClipTo(Text, tokens'[k].start)
                     = NoiseAt(Text, IF k = 1 THEN 0 ELSE tokens'[k - 1].end)
        <4>1. CASE k \in 1 .. Len(tokens)
          <5>1. tokens'[k] = tokens[k]
            BY <2>3, <4>1
          <5>2. k # 1 => k - 1 \in 1 .. Len(tokens) /\ tokens'[k - 1] = tokens[k - 1]
            BY <1>1, <2>3, <4>1
          <5>3. ClipTo(Text, tokens[k].start)
                  = NoiseAt(Text, IF k = 1 THEN 0 ELSE tokens[k - 1].end)
            BY <3>1, <3>3, <4>1, <5>1 DEF TilesFor
          <5>4. (IF k = 1 THEN 0 ELSE tokens'[k - 1].end)
                  = (IF k = 1 THEN 0 ELSE tokens[k - 1].end)
            BY <5>2
          <5>5. QED
            BY <5>1, <5>3, <5>4
        <4>2. CASE k = Len(tokens) + 1
          <5>1. tokens'[k] = t /\ t.type # "ERROR"
            BY <2>3, <3>3, <4>2
          <5>2. ClipTo(Text, t.start) = NoiseAt(Text, Before)
            BY <1>1, <2>1, <2>2, <2>5, <3>1, <5>1, TileMade
          <5>3. Before = IF k = 1 THEN 0 ELSE tokens'[k - 1].end
            <6>1. CASE tokens = <<>>
              <7>1. k = 1 /\ Before = 0
                BY <4>2, <6>1 DEF Before
              <7>2. QED
                BY <7>1
            <6>2. CASE tokens # <<>>
              <7>1. Len(tokens) # 0
                BY <1>1, <6>2, EmptySeq
              <7>2. k # 1 /\ k - 1 = Len(tokens) /\ Len(tokens) \in 1 .. Len(tokens)
                BY <1>1, <4>2, <7>1
              <7>3. tokens'[k - 1] = tokens[Len(tokens)]
                BY <2>3, <7>2
              <7>4. QED
                BY <6>2, <7>2, <7>3 DEF Before
            <6>3. QED
              BY <6>1, <6>2
          <5>4. QED
            BY <5>1, <5>2, <5>3
        <4>3. QED
          BY <1>1, <2>3, <4>1, <4>2
      <3>4. QED
        BY <1>1, <3>2, <3>3 DEF TilesFor
    <2>6. QED
      BY <1>1, <2>4, <2>5 DEF TileInv
  <1>4. QED
    BY <1>1, <1>2, <1>3, ScanStepShape

\* At the start.
LEMMA TileInit == ScannerInit => TileInv
  <1> SUFFICES ASSUME ScannerInit PROVE TileInv
    OBVIOUS
  <1>1. ~InUse /\ pc = "new"
    BY DEF ScannerInit, InUse, Running
  <1>2. QED
    BY <1>1 DEF TileInv, Sure, Calm

\* And at every step.
LEMMA TileStep ==
  ASSUME SIZE >= 2, LexInv, LexInv', EdgeInv, TileInv, [ScannerNext]_allVars
  PROVE  TileInv'
  <1>1. Base /\ Base' /\ SlashAt(pc, reader)
    BY DEF LexInv, EdgeInv
  <1>2. CASE ReaderNew \/ ScannerDestroy
    <2>1. pc' \in {"open", "destroyed"}
      BY <1>2 DEF ReaderNew, Goto, ScannerDestroy
    <2>2. ~InUse'
      BY <2>1 DEF InUse, Running
    <2>3. QED
      BY <2>1, <2>2 DEF TileInv, Sure, Calm
  <1>3. CASE ScannerNew
    <2>1. tokens' = <<>> /\ pc' = "idle"
      BY <1>1, <1>3, OpenedLife DEF ScannerNew, Goto, Base
    <2>2. OpenSucceeds(reader, streams)
      BY <1>3 DEF ScannerNew, OpenStored, CheckFails, FopenFails, Returns
    <2>3. delivered' = <<>>
      BY <2>2 DEF OpenSucceeds
    <2>4. Len(delivered') = 0 /\ Len(tokens') = 0 /\ Before' = 0
      BY <2>1, <2>3 DEF Before
    <2>5. TileAt(pc', frame', delivered', Before', Text')
      BY <2>1, TileRests
    <2>6. TilesFor'
      BY <2>4 DEF TilesFor
    <2>7. QED
      BY <2>4, <2>5, <2>6 DEF TileInv
  <1>4. CASE ScanStep
    BY <1>1, <1>4, TileScanStep
  <1>5. CASE UNCHANGED allVars
    <2>1. UNCHANGED <<reader, delivered, clean, path, pc, frame, tokens>>
      BY <1>5 DEF allVars, vars, scanner
    <2>2. Sure' = Sure /\ Text' = Text /\ Before' = Before
      BY <2>1 DEF Sure, Calm, InUse, Intact, Text, SourceFile, Before
    <2>3. QED
      BY <2>1, <2>2 DEF TileInv, TilesFor
  <1>6. QED
    BY <1>2, <1>3, <1>4, <1>5 DEF ScannerNext

\* "Consumes exactly the characters belonging to that one token": the tokens, with whitespace
\* and comments between them, are the whole file, and none is skipped or scanned twice,
\* wherever the chunks of the file fall.  A buffer of a single byte does not show what follows
\* a slash.
THEOREM TokensTileHolds ==
  ASSUME SIZE >= 2
  PROVE  ScannerSpec => []TokensTile
  <1>1. LexInv /\ TileInv => TokensTile
    <2> SUFFICES ASSUME LexInv, TileInv, Foreseen, PlainComments(Source), NEW k \in Scanned
                 PROVE  LET before == IF k = 1 THEN 0 ELSE tokens[k - 1].end
                        IN  Clip(tokens[k].start) = NoiseEnd(Source)[Clip(before)]
      BY DEF TokensTile, Tiled
    <2>1. pc = "idle" /\ Intact /\ ~reader.stateError /\ SourceFile \notin Failing
      BY DEF Foreseen, Undisturbed
    <2>2. Source = Text
      BY <2>1, TokenFacts
    <2>3. Sure
      BY <2>1 DEF Sure, Calm, InUse
    <2>4. TilesFor
      BY <2>2, <2>3 DEF TileInv
    <2>5. k \in 1 .. Len(tokens) /\ tokens[k].type # "ERROR"
      BY DEF Scanned, LexInv, Base, ScanInv, ScanTypes
    <2>6. ClipTo(Text, tokens[k].start) = NoiseAt(Text, IF k = 1 THEN 0 ELSE tokens[k - 1].end)
      BY <2>4, <2>5 DEF TilesFor
    <2>7. \A n : Clip(n) = ClipTo(Text, n)
      BY <2>2 DEF Clip, ClipTo
    <2>8. QED
      BY <2>2, <2>6, <2>7, Zenon DEF NoiseAt
  <1>2. ScannerInit => LexInv /\ EdgeInv /\ TileInv
    BY LexInit, EdgeInit, TileInit
  <1>3. LexInv /\ EdgeInv /\ TileInv /\ [ScannerNext]_allVars => LexInv' /\ EdgeInv' /\ TileInv'
    BY LexStep, EdgeStep, TileStep
  <1>4. QED
    BY <1>1, <1>2, <1>3, PTL DEF ScannerSpec

===============================================================================

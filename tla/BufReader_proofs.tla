--------------------------- MODULE BufReader_proofs --------------------------
(***************************************************************************)
(* Theorems about BufReader, for every buffer size, every set of files and *)
(* whatever fread returns.  Typing and Bounds are inductive together; they *)
(* carry the proof of Faithful.  The second half is what the callers of    *)
(* the reader see: the end that stays the end, the line and the column of  *)
(* the cursor, the bytes shown in advance; and that the reader of a        *)
(* disciplined caller is a plain cursor over the text of its file.         *)
(***************************************************************************)
EXTENDS BufReader, FiniteSetTheorems, SequenceTheorems, TLAPS

(***************************************************************************)
(* What fread and the refill do to one struct                              *)
(***************************************************************************)

\* fread never hands out more than was asked for or than the file holds, and
\* sets the indicator only at its end.
LEMMA FreadResult ==
  ASSUME NEW r \in Reader, Sound(r), IsOpen(r),
         NEW room \in 0..SIZE, NEW f \in Fread(r, room)
  PROVE  /\ f.got \in 0..room
         /\ f.feof \in BOOLEAN
         /\ r.offset + f.got <= Len(Content[r.file])
         /\ f.feof => r.offset + f.got = Len(Content[r.file])
  <1> DEFINE left == IF r.feof THEN 0 ELSE Len(Content[r.file]) - r.offset
             most == IF left < room THEN left ELSE room
  <1>1. Content[r.file] \in Seq(Byte) /\ r.offset \in Nat /\ r.feof \in BOOLEAN
    BY NamesAssumption DEF Reader, IsOpen, Names0
  <1>2. Len(Content[r.file]) \in Nat
    BY <1>1
  <1>3. left \in Nat /\ r.offset + left <= Len(Content[r.file])
    BY <1>1, <1>2 DEF Sound
  <1>4. most \in 0..room /\ most <= left
    BY <1>3, SizeAssumption
  <1>5. \/ f = [got |-> most, feof |-> r.feof \/ most < room]
        \/ \E k \in 0..most : k < room /\ f = [got |-> k, feof |-> r.feof]
    BY DEF Fread
  <1>6. CASE f = [got |-> most, feof |-> r.feof \/ most < room]
    <2>1. f.got = most /\ f.feof = (r.feof \/ most < room)
      BY <1>6
    <2>2. f.feof => r.offset + f.got = Len(Content[r.file])
      BY <2>1, <1>1, <1>2, <1>3, <1>4, SizeAssumption DEF Sound
    <2>3. QED
      BY <2>1, <2>2, <1>1, <1>2, <1>3, <1>4, SizeAssumption
  <1>7. CASE \E k \in 0..most : k < room /\ f = [got |-> k, feof |-> r.feof]
    <2>1. PICK k \in 0..most : k < room /\ f = [got |-> k, feof |-> r.feof]
      BY <1>7
    <2>2. f.got = k /\ f.feof = r.feof
      BY <2>1
    <2>3. k \in 0..room /\ r.offset + k <= Len(Content[r.file])
      BY <2>1, <1>1, <1>2, <1>3, <1>4, SizeAssumption
    <2>4. r.feof => r.offset + k = Len(Content[r.file])
      BY <2>1, <1>1, <1>2, <1>3, <1>4, SizeAssumption DEF Sound
    <2>5. QED
      BY <2>2, <2>3, <2>4, <1>1
  <1>8. QED
    BY <1>5, <1>6, <1>7

\* The bytes carried over and the bytes fread may add fill the buffer exactly.
LEMMA RemainingFits ==
  ASSUME NEW r \in Reader, Sound(r)
  PROVE  /\ Remaining(r) \in 0..SIZE
         /\ SIZE - Remaining(r) \in 0..SIZE
         /\ Remaining(r) # 0 => r.bufferPosition + Remaining(r) = SIZE
         /\ r.bufferLength - r.bufferPosition <= Remaining(r)
  BY SizeAssumption DEF Reader, Sound, Remaining

\* One refill of an open reader, in the case that reaches fread.
LEMMA RefilledSound ==
  ASSUME NEW r \in Reader, Sound(r), IsOpen(r),
         NEW f \in Fread(r, SIZE - Remaining(r)),
         NEW s, s = Refilled(r, Remaining(r), f)
  PROVE  /\ s \in Reader /\ Sound(s)
         /\ s.file = r.file /\ s.fileName = r.fileName
         /\ s.lineNumber = r.lineNumber /\ s.columnNumber = r.columnNumber
         /\ s.bufferPosition = 0 /\ s.bufferLength = Remaining(r) + f.got
         /\ s.offset = r.offset + f.got
         /\ s.buffer = Shifted(r, Remaining(r), f.got)
         /\ s.stateEOF => s.feof
         /\ f.got \in 0..SIZE
  <1> DEFINE keep == Remaining(r)
             text == Content[r.file]
  <1>1. /\ keep \in 0..SIZE /\ SIZE - keep \in 0..SIZE
        /\ keep # 0 => r.bufferPosition + keep = SIZE
    BY RemainingFits
  <1>2. /\ f.got \in 0..(SIZE - keep) /\ f.feof \in BOOLEAN
        /\ r.offset + f.got <= Len(text)
        /\ f.feof => r.offset + f.got = Len(text)
    BY <1>1, FreadResult
  <1>3. text \in Seq(Byte)
    BY NamesAssumption DEF Reader, IsOpen, Names0
  <1>4. keep + f.got \in 0..SIZE /\ f.got \in 0..SIZE
    BY <1>1, <1>2, SizeAssumption
  <1>5. Shifted(r, keep, f.got) \in [Index -> Byte]
    <2> SUFFICES ASSUME NEW i \in Index
                 PROVE  (IF i < keep THEN r.buffer[r.bufferPosition + i]
                         ELSE IF i < keep + f.got THEN text[r.offset + (i - keep) + 1]
                         ELSE r.buffer[i]) \in Byte
      BY DEF Shifted
    <2>1. r.buffer \in [Index -> Byte] /\ r.bufferPosition \in 0..SIZE /\ r.offset \in Nat
      BY DEF Reader
    <2>2. CASE i < keep
      <3>1. r.bufferPosition + i \in Index
        BY <2>1, <2>2, <1>1, SizeAssumption DEF Index
      <3>2. QED
        BY <2>1, <2>2, <3>1
    <2>3. CASE i >= keep /\ i < keep + f.got
      <3>1. r.offset + (i - keep) + 1 \in 1..Len(text)
        <4>1. Len(text) \in Nat /\ i \in Int /\ keep \in Int /\ f.got \in Int
          BY <1>1, <1>2, <1>3, SizeAssumption DEF Index
        <4>2. r.offset + f.got <= Len(text)
          BY <1>2
        <4>3. QED
          BY <4>1, <4>2, <2>1, <2>3
      <3>2. text[r.offset + (i - keep) + 1] \in Byte
        BY <3>1, <1>3
      <3>3. ~(i < keep)
        BY <2>3, <1>1, SizeAssumption DEF Index
      <3>4. QED
        BY <2>3, <3>2, <3>3
    <2>4. CASE i >= keep + f.got
      <3>1. ~(i < keep) /\ ~(i < keep + f.got)
        BY <2>4, <1>1, <1>2, <1>4, SizeAssumption DEF Index
      <3>2. QED
        BY <3>1, <2>1
    <2>5. QED
      BY <2>2, <2>3, <2>4, <1>1, <1>2, SizeAssumption DEF Index
  <1>6. /\ s.file = r.file /\ s.fileName = r.fileName
        /\ s.lineNumber = r.lineNumber /\ s.columnNumber = r.columnNumber
        /\ s.bufferPosition = 0 /\ s.bufferLength = keep + f.got
        /\ s.offset = r.offset + f.got /\ s.feof = f.feof
        /\ s.buffer = Shifted(r, keep, f.got)
        /\ s.stateEOF = (keep + f.got = 0 /\ f.feof)
        /\ s.stateError = (keep + f.got = 0 /\ ~f.feof)
    BY DEF Refilled, Reader
  <1>7. s \in Reader
    <2>1. s = [fileName |-> r.fileName, file |-> r.file, offset |-> r.offset + f.got,
               feof |-> f.feof, buffer |-> Shifted(r, keep, f.got),
               bufferLength |-> keep + f.got, bufferPosition |-> 0,
               lineNumber |-> r.lineNumber, columnNumber |-> r.columnNumber,
               stateEOF |-> (keep + f.got = 0 /\ f.feof),
               stateError |-> (keep + f.got = 0 /\ ~f.feof)]
      BY DEF Refilled, Reader
    <2>2. /\ r.fileName \in Names0 /\ r.file \in Names0 /\ r.offset + f.got \in Nat
          /\ r.lineNumber \in Nat /\ r.columnNumber \in Nat /\ 0 \in 0..SIZE
      BY <1>4, SizeAssumption DEF Reader
    <2>3. QED
      BY <2>1, <2>2, <1>2, <1>4, <1>5 DEF Reader
  <1>8. Sound(s)
    <2>1. s.stateEOF => s.bufferLength = 0
      BY <1>6
    <2>2. IsOpen(s)
      BY <1>6 DEF IsOpen
    <2>3. s.bufferPosition <= s.bufferLength
      BY <1>4, <1>6
    <2>4. s.offset <= Len(Content[s.file]) /\ (s.feof => s.offset = Len(Content[s.file]))
      BY <1>2, <1>6
    <2>5. QED
      BY <2>1, <2>2, <2>3, <2>4 DEF Sound
  <1>9. QED
    BY <1>2, <1>4, <1>6, <1>7, <1>8

\* buf_reader_refill as a whole keeps the struct sound, and reports bytes read
\* only when there is one at the cursor.
LEMMA RefillSound ==
  ASSUME NEW r \in Reader, Sound(r), IsOpen(r) \/ r.stateError,
         NEW o \in Refill(r)
  PROVE  /\ o.reader \in Reader /\ Sound(o.reader)
         /\ o.reader.file = r.file
         /\ o.read # 0 => o.reader.bufferPosition < o.reader.bufferLength
         /\ (r.stateEOF => r.feof) => (o.reader.stateEOF => o.reader.feof)
  <1>1. CASE r.stateEOF \/ r.stateError
    <2>1. o = [reader |-> r, read |-> 0]
      BY <1>1 DEF Refill
    <2>2. o.reader = r /\ o.read = 0
      BY <2>1
    <2>3. QED
      BY <2>2
  <1>2. CASE ~(r.stateEOF \/ r.stateError)
    <2>1. PICK f \in Fread(r, SIZE - Remaining(r)) :
            o = [reader |-> Refilled(r, Remaining(r), f), read |-> f.got]
      BY <1>2 DEF Refill
    <2>2. o.reader = Refilled(r, Remaining(r), f) /\ o.read = f.got
      BY <2>1
    <2>3. IsOpen(r)
      BY <1>2
    <2>4. /\ o.reader \in Reader /\ Sound(o.reader) /\ o.reader.file = r.file
          /\ o.reader.bufferPosition = 0
          /\ o.reader.bufferLength = Remaining(r) + f.got
          /\ o.reader.stateEOF => o.reader.feof
          /\ f.got \in 0..SIZE
      BY <2>2, <2>3, RefilledSound
    <2>5. o.read # 0 => o.reader.bufferPosition < o.reader.bufferLength
      BY <2>2, <2>4, RemainingFits, SizeAssumption
    <2>6. QED
      BY <2>4, <2>5
  <1>3. QED
    BY <1>1, <1>2

\* A refill that is not of a short buffer with unread bytes keeps the buffer a
\* window on the file, at the place where what was taken out ends.
LEMMA RefillFaithful ==
  ASSUME NEW r \in Reader, Sound(r), IsOpen(r), ~ShortLive(r),
         NEW o \in Refill(r), NEW d \in Seq(Byte),
         Window(r), Taken(r, d)
  PROVE  Window(o.reader) /\ Taken(o.reader, d)
  <1>1. CASE r.stateEOF \/ r.stateError
    <2>1. o.reader = r
      BY <1>1 DEF Refill
    <2>2. QED
      BY <2>1
  <1>2. CASE ~(r.stateEOF \/ r.stateError)
    <2>1. PICK f \in Fread(r, SIZE - Remaining(r)) :
            o = [reader |-> Refilled(r, Remaining(r), f), read |-> f.got]
      BY <1>2 DEF Refill
    <2> DEFINE s == o.reader
               keep == Remaining(r)
               text == Content[r.file]
    <2>2. s = Refilled(r, keep, f)
      BY <2>1
    <2>3. /\ s.file = r.file /\ s.bufferPosition = 0
          /\ s.bufferLength = keep + f.got /\ s.offset = r.offset + f.got
          /\ s.buffer = Shifted(r, keep, f.got)
          /\ f.got \in 0..SIZE
      BY <2>2, RefilledSound
    <2>4. keep \in 0..SIZE
      BY RemainingFits
    <2>5. keep = r.bufferLength - r.bufferPosition
      <3>1. r.bufferPosition = r.bufferLength \/ r.bufferLength = SIZE
        BY <1>2, SizeAssumption DEF ShortLive, Sound, Reader
      <3>2. QED
        BY <3>1, SizeAssumption DEF Remaining, Reader
    <2>6. keep + f.got \in 0..SIZE
      BY <2>4, FreadResult, RemainingFits, SizeAssumption
    <2>7. Window(s)
      <3> SUFFICES ASSUME NEW i \in s.bufferPosition .. s.bufferLength - 1
                   PROVE  s.buffer[i] = Content[s.file][s.offset - s.bufferLength + i + 1]
        BY Zenon DEF Window
      <3>1. i \in 0 .. keep + f.got - 1
        <4>1. s.bufferPosition = 0 /\ s.bufferLength = keep + f.got
          BY <2>3
        <4>2. keep \in Int /\ f.got \in Int
          BY <2>3, <2>4, SizeAssumption
        <4>3. QED
          BY <4>1, <4>2
      <3>2. /\ i \in Int /\ keep \in Int /\ f.got \in Int
            /\ r.offset \in Int /\ r.bufferPosition \in Int /\ r.bufferLength \in Int
        BY <2>3, <2>4, <3>1, SizeAssumption DEF Reader
      <3>3. i \in Index
        BY <2>6, <3>1, <3>2, SizeAssumption DEF Index
      <3>4. SUFFICES Shifted(r, keep, f.got)[i] = text[r.offset - keep + i + 1]
        <4>1. s.offset - s.bufferLength + i + 1 = r.offset - keep + i + 1
          BY <2>3, <3>2
        <4>2. QED
          BY <4>1, <2>3
      <3>5. CASE i < keep
        <4>1. Shifted(r, keep, f.got)[i] = r.buffer[r.bufferPosition + i]
          BY <3>3, <3>5 DEF Shifted
        <4>2. r.bufferPosition + i \in r.bufferPosition .. r.bufferLength - 1
          BY <2>5, <3>1, <3>2, <3>5
        <4>3. r.buffer[r.bufferPosition + i]
                = text[r.offset - r.bufferLength + (r.bufferPosition + i) + 1]
          BY <4>2 DEF Window
        <4>4. r.offset - r.bufferLength + (r.bufferPosition + i) + 1 = r.offset - keep + i + 1
          BY <2>5, <3>2
        <4>5. QED
          BY <4>1, <4>3, <4>4
      <3>6. CASE ~(i < keep)
        <4>1. i < keep + f.got
          BY <3>1, <3>2
        <4>2. Shifted(r, keep, f.got)[i] = text[r.offset + (i - keep) + 1]
          BY <3>3, <3>6, <4>1 DEF Shifted
        <4>3. r.offset + (i - keep) + 1 = r.offset - keep + i + 1
          BY <3>2
        <4>4. QED
          BY <4>2, <4>3
      <3>7. QED
        BY <3>5, <3>6
    <2>8. Taken(s, d)
      <3>1. s.offset = Len(d) + (s.bufferLength - s.bufferPosition)
        <4>1. /\ r.offset = Len(d) + (r.bufferLength - r.bufferPosition)
              /\ r.offset \in Nat /\ Len(d) \in Nat
          BY DEF Taken, Reader
        <4>2. QED
          BY <4>1, <2>3, <2>4, <2>5, SizeAssumption
      <3>2. QED
        BY <3>1, <2>3 DEF Taken
    <2>9. QED
      BY <2>7, <2>8
  <1>3. QED
    BY <1>1, <1>2

(***************************************************************************)
(* The first lines of read and peek, and the step of the cursor            *)
(***************************************************************************)

\* Making a byte available keeps the struct sound, and there is one at the cursor
\* unless the call gives up.
LEMMA AvailableSound ==
  ASSUME NEW r \in Reader, Sound(r), IsOpen(r) \/ r.stateError,
         NEW o \in Available(r)
  PROVE  /\ o.reader \in Reader /\ Sound(o.reader)
         /\ o.reader.file = r.file
         /\ o.read # 0 => /\ o.reader.bufferPosition < o.reader.bufferLength
                          /\ o.reader.buffer[o.reader.bufferPosition] \in Byte
         /\ (r.stateEOF => r.feof) => (o.reader.stateEOF => o.reader.feof)
  <1>1. /\ o.reader \in Reader /\ Sound(o.reader)
        /\ o.reader.file = r.file
        /\ o.read # 0 => o.reader.bufferPosition < o.reader.bufferLength
        /\ (r.stateEOF => r.feof) => (o.reader.stateEOF => o.reader.feof)
    <2>1. CASE r.bufferPosition >= r.bufferLength
      BY <2>1, RefillSound DEF Available
    <2>2. CASE ~(r.bufferPosition >= r.bufferLength)
      <3>1. o = [reader |-> r, read |-> 1]
        BY <2>2 DEF Available
      <3>2. o.reader = r
        BY <3>1
      <3>3. r.bufferPosition < r.bufferLength
        BY <2>2, SizeAssumption DEF Reader
      <3>4. QED
        BY <3>2, <3>3
    <2>3. QED
      BY <2>1, <2>2
  <1>2. ASSUME o.read # 0
        PROVE  o.reader.buffer[o.reader.bufferPosition] \in Byte
    <2>1. o.reader.bufferPosition \in Index
      BY <1>1, <1>2, SizeAssumption DEF Reader, Index
    <2>2. QED
      BY <1>1, <2>1 DEF Reader
  <1>3. QED
    BY <1>1, <1>2

\* And the buffer remains a window on the file.
LEMMA AvailableFaithful ==
  ASSUME NEW r \in Reader, Sound(r), IsOpen(r),
         NEW o \in Available(r), NEW d \in Seq(Byte),
         Window(r), Taken(r, d)
  PROVE  Window(o.reader) /\ Taken(o.reader, d)
  <1>1. CASE r.bufferPosition >= r.bufferLength
    <2>1. ~ShortLive(r)
      BY <1>1, SizeAssumption DEF ShortLive, Reader
    <2>2. o \in Refill(r)
      BY <1>1 DEF Available
    <2>3. QED
      BY <2>1, <2>2, RefillFaithful
  <1>2. CASE ~(r.bufferPosition >= r.bufferLength)
    <2>1. o = [reader |-> r, read |-> 1]
      BY <1>2 DEF Available
    <2>2. o.reader = r
      BY <2>1
    <2>3. QED
      BY <2>2
  <1>3. QED
    BY <1>1, <1>2

\* Consuming the byte at the cursor of a sound struct.
LEMMA AdvancedSound ==
  ASSUME NEW r \in Reader, Sound(r), r.bufferPosition < r.bufferLength
  PROVE  /\ Advanced(r) \in Reader /\ Sound(Advanced(r))
         /\ Advanced(r).file = r.file /\ Advanced(r).offset = r.offset
         /\ Advanced(r).buffer = r.buffer
         /\ Advanced(r).bufferLength = r.bufferLength
         /\ Advanced(r).bufferPosition = r.bufferPosition + 1
         /\ Advanced(r).stateEOF = r.stateEOF /\ Advanced(r).feof = r.feof
  <1> DEFINE ch == r.buffer[r.bufferPosition]
             line == IF ch = NL THEN r.lineNumber + 1 ELSE r.lineNumber
             column == IF ch = NL THEN 1 ELSE r.columnNumber + 1
  <1>1. Advanced(r) =
          [fileName |-> r.fileName, file |-> r.file, offset |-> r.offset,
           feof |-> r.feof, buffer |-> r.buffer, bufferLength |-> r.bufferLength,
           bufferPosition |-> r.bufferPosition + 1,
           lineNumber |-> line, columnNumber |-> column,
           stateEOF |-> r.stateEOF, stateError |-> r.stateError]
    <2>1. Advanced(r) = [r EXCEPT !.bufferPosition = r.bufferPosition + 1,
                                  !.lineNumber = line, !.columnNumber = column]
      BY Zenon DEF Advanced
    <2> HIDE DEF line, column
    <2>2. QED
      BY <2>1 DEF Reader
  <1>2. r.bufferPosition + 1 \in 0..SIZE /\ r.bufferPosition + 1 <= r.bufferLength
    <2>1. r.bufferPosition \in 0..SIZE /\ r.bufferLength \in 0..SIZE
      BY DEF Reader
    <2>2. QED
      BY <2>1, SizeAssumption
  <1>3. line \in Nat /\ column \in Nat
    BY DEF Reader
  <1> HIDE DEF line, column
  <1>4. Advanced(r) \in Reader
    <2>1. /\ r.fileName \in Names0 /\ r.file \in Names0 /\ r.offset \in Nat
          /\ r.feof \in BOOLEAN /\ r.buffer \in [Index -> Byte]
          /\ r.bufferLength \in 0..SIZE
          /\ r.stateEOF \in BOOLEAN /\ r.stateError \in BOOLEAN
      BY DEF Reader
    <2>2. QED
      BY <1>1, <1>2, <1>3, <2>1 DEF Reader
  <1>5. /\ Advanced(r).file = r.file /\ Advanced(r).offset = r.offset
        /\ Advanced(r).buffer = r.buffer
        /\ Advanced(r).bufferLength = r.bufferLength
        /\ Advanced(r).bufferPosition = r.bufferPosition + 1
        /\ Advanced(r).stateEOF = r.stateEOF /\ Advanced(r).feof = r.feof
    BY <1>1
  <1>6. Sound(Advanced(r))
    BY <1>2, <1>5 DEF Sound, IsOpen
  <1>7. QED
    BY <1>4, <1>5, <1>6

\* The byte that leaves the window is the next one of the file.
LEMMA AdvancedFaithful ==
  ASSUME NEW r \in Reader, Sound(r), IsOpen(r), r.bufferPosition < r.bufferLength,
         NEW d \in Seq(Byte), Window(r), Taken(r, d)
  PROVE  /\ Window(Advanced(r))
         /\ Taken(Advanced(r), Append(d, r.buffer[r.bufferPosition]))
  <1> DEFINE s == Advanced(r)
             ch == r.buffer[r.bufferPosition]
             e == Append(d, ch)
             text == Content[r.file]
  <1>1. /\ s.file = r.file /\ s.offset = r.offset /\ s.buffer = r.buffer
        /\ s.bufferLength = r.bufferLength /\ s.bufferPosition = r.bufferPosition + 1
    BY AdvancedSound
  <1>2. /\ r.offset \in Nat /\ r.bufferPosition \in Nat /\ r.bufferLength \in Nat
        /\ Len(d) \in Nat
    BY SizeAssumption DEF Reader
  <1>3. ch \in Byte
    <2>1. r.bufferPosition \in Index
      BY SizeAssumption DEF Reader, Index
    <2>2. QED
      BY <2>1 DEF Reader
  <1>4. r.offset = Len(d) + (r.bufferLength - r.bufferPosition)
    BY DEF Taken
  <1>5. ch = text[Len(d) + 1]
    <2>1. r.bufferPosition \in r.bufferPosition .. r.bufferLength - 1
      BY <1>2
    <2>2. ch = text[r.offset - r.bufferLength + r.bufferPosition + 1]
      BY <2>1 DEF Window
    <2>3. r.offset - r.bufferLength + r.bufferPosition + 1 = Len(d) + 1
      BY <1>2, <1>4
    <2>4. QED
      BY <2>2, <2>3
  <1>6. Window(s)
    <2> SUFFICES ASSUME NEW i \in s.bufferPosition .. s.bufferLength - 1
                 PROVE  s.buffer[i] = Content[s.file][s.offset - s.bufferLength + i + 1]
      BY Zenon DEF Window
    <2>1. i \in r.bufferPosition .. r.bufferLength - 1
      BY <1>1, <1>2
    <2>2. r.buffer[i] = text[r.offset - r.bufferLength + i + 1]
      BY <2>1 DEF Window
    <2>3. QED
      BY <2>2, <1>1
  <1>7. /\ Len(e) = Len(d) + 1
        /\ \A i \in 1 .. Len(d) : e[i] = d[i]
        /\ e[Len(d) + 1] = ch
    BY <1>2, <1>3
  <1>8. Taken(s, e)
    <2>1. s.offset = Len(e) + (s.bufferLength - s.bufferPosition)
      BY <1>1, <1>2, <1>4, <1>7
    <2>2. ASSUME NEW i \in 1 .. Len(e)
          PROVE  e[i] = text[i]
      <3>1. i \in 1 .. Len(d) \/ i = Len(d) + 1
        BY <1>2, <1>7
      <3>2. CASE i \in 1 .. Len(d)
        BY <3>2, <1>7 DEF Taken
      <3>3. CASE i = Len(d) + 1
        BY <3>3, <1>5, <1>7
      <3>4. QED
        BY <3>1, <3>2, <3>3
    <2>3. QED
      BY <2>1, <2>2, <1>1 DEF Taken
  <1>9. QED
    BY <1>6, <1>8

(***************************************************************************)
(* The inductive invariant                                                 *)
(***************************************************************************)

\* A struct just made, and one just closed.
LEMMA IdleSound ==
  ASSUME NEW name \in Names0, NEW b \in [Index -> Byte]
  PROVE  /\ Idle(name, b) \in Reader /\ Sound(Idle(name, b)) /\ Drained(Idle(name, b))
         /\ ~IsOpen(Idle(name, b)) /\ ~Idle(name, b).stateEOF
  BY SizeAssumption DEF Idle, Reader, Sound, Drained, IsOpen, Names0

\* The struct of a new reader is sound.
LEMMA NewSound ==
  ASSUME NEW name \in Names0
  PROVE  /\ NewReader(name) \in Reader /\ Sound(NewReader(name)) /\ Drained(NewReader(name))
         /\ ~IsOpen(NewReader(name)) /\ ~NewReader(name).stateEOF
  <1>1. [i \in Index |-> NUL] \in [Index -> Byte]
    BY DEF NUL, Byte
  <1>2. QED
    BY <1>1, IdleSound DEF NewReader

\* buf_reader_close leaves a sound struct without a stream.
LEMMA ClosedSound ==
  ASSUME NEW r \in Reader
  PROVE  /\ Closed(r) \in Reader /\ Sound(Closed(r)) /\ ~IsOpen(Closed(r))
         /\ ~Closed(r).stateEOF /\ Closed(r).fileName = r.fileName /\ Drained(Closed(r))
  <1>1. r.fileName \in Names0 /\ r.buffer \in [Index -> Byte]
    BY DEF Reader
  <1>2. Closed(r).fileName = r.fileName
    BY DEF Closed, Idle
  <1>3. QED
    BY <1>1, <1>2, IdleSound DEF Closed

\* Giving a struct a name and a fresh FILE* to go with it.
LEMMA FreshStream ==
  ASSUME NEW r \in Reader, Sound(r), r.fileName # NoFile,
         NEW q, q = [r EXCEPT !.file = r.fileName, !.offset = 0, !.feof = FALSE]
  PROVE  /\ q \in Reader /\ Sound(q) /\ IsOpen(q)
         /\ q.offset = 0 /\ q.stateEOF = r.stateEOF
         /\ q.bufferLength = r.bufferLength /\ q.bufferPosition = r.bufferPosition
  <1>1. q = [fileName |-> r.fileName, file |-> r.fileName, offset |-> 0, feof |-> FALSE,
             buffer |-> r.buffer, bufferLength |-> r.bufferLength,
             bufferPosition |-> r.bufferPosition, lineNumber |-> r.lineNumber,
             columnNumber |-> r.columnNumber, stateEOF |-> r.stateEOF,
             stateError |-> r.stateError]
    BY DEF Reader
  <1>2. q \in Reader
    <2>1. /\ r.fileName \in Names0 /\ r.buffer \in [Index -> Byte]
          /\ r.bufferLength \in 0..SIZE /\ r.bufferPosition \in 0..SIZE
          /\ r.lineNumber \in Nat /\ r.columnNumber \in Nat
          /\ r.stateEOF \in BOOLEAN /\ r.stateError \in BOOLEAN
      BY DEF Reader
    <2>2. 0 \in Nat /\ FALSE \in BOOLEAN
      OBVIOUS
    <2>3. QED
      BY <1>1, <2>1, <2>2 DEF Reader
  <1>3. /\ q.file = r.fileName /\ q.offset = 0 /\ ~q.feof
        /\ q.bufferLength = r.bufferLength /\ q.bufferPosition = r.bufferPosition
        /\ q.stateEOF = r.stateEOF
    BY <1>1
  <1>4. Content[r.fileName] \in Seq(Byte)
    BY NamesAssumption DEF Reader, Names0
  <1>5. 0 <= Len(Content[r.fileName])
    BY <1>4
  <1>6. Sound(q)
    BY <1>3, <1>5 DEF Sound, IsOpen
  <1>7. QED
    BY <1>2, <1>3, <1>6 DEF IsOpen

\* Storing a name in a struct that has no stream.
LEMMA NamedSound ==
  ASSUME NEW r \in Reader, Sound(r), ~IsOpen(r), NEW name \in Names0,
         NEW q, q = [r EXCEPT !.fileName = name]
  PROVE  /\ q \in Reader /\ Sound(q) /\ ~IsOpen(q) /\ q.fileName = name
         /\ Drained(r) => Drained(q)
  <1>1. /\ q \in Reader /\ q.fileName = name /\ q.file = r.file
        /\ q.offset = r.offset /\ q.feof = r.feof
        /\ q.bufferLength = r.bufferLength /\ q.bufferPosition = r.bufferPosition
        /\ q.stateEOF = r.stateEOF
    BY DEF Reader
  <1>2. QED
    BY <1>1 DEF Sound, Drained, IsOpen

\* A failed opening sets the error; a failed fopen takes the stream away as well.
LEMMA FailedSound ==
  ASSUME NEW r \in Reader, Sound(r), NEW others,
         CheckFails(r, others) \/ FopenFails(r, others)
  PROVE  /\ reader' \in Reader /\ Sound(reader')
         /\ reader'.stateEOF = r.stateEOF /\ reader'.bufferLength = r.bufferLength
         /\ reader'.lineNumber = r.lineNumber /\ reader'.columnNumber = r.columnNumber
         /\ reader'.stateError = TRUE
         /\ IsOpen(reader') => IsOpen(r)
         /\ CheckFails(r, others) => reader'.file = r.file
         /\ Drained(r) /\ ~IsOpen(r) => Drained(reader')
  <1>1. ASSUME CheckFails(r, others)
        PROVE  /\ reader' \in Reader /\ reader'.file = r.file
               /\ reader'.offset = r.offset /\ reader'.feof = r.feof
               /\ reader'.bufferLength = r.bufferLength
               /\ reader'.bufferPosition = r.bufferPosition
               /\ reader'.lineNumber = r.lineNumber /\ reader'.columnNumber = r.columnNumber
               /\ reader'.stateEOF = r.stateEOF /\ reader'.stateError = TRUE
    <2>1. reader' = [r EXCEPT !.stateError = TRUE]
      BY <1>1 DEF CheckFails
    <2>2. QED
      BY <2>1 DEF Reader
  <1>2. ASSUME FopenFails(r, others)
        PROVE  /\ reader' \in Reader /\ reader'.file = NoFile /\ reader'.feof = FALSE
               /\ reader'.bufferLength = r.bufferLength
               /\ reader'.bufferPosition = r.bufferPosition
               /\ reader'.lineNumber = r.lineNumber /\ reader'.columnNumber = r.columnNumber
               /\ reader'.stateEOF = r.stateEOF /\ reader'.stateError = TRUE
    <2>1. reader' = [r EXCEPT !.file = NoFile, !.offset = 0, !.feof = FALSE, !.stateError = TRUE]
      BY <1>2 DEF FopenFails
    <2>2. NoFile \in Names0 /\ 0 \in Nat
      BY DEF Names0
    <2>3. QED
      BY <2>1, <2>2 DEF Reader
  <1>3. CASE CheckFails(r, others)
    BY <1>1, <1>3 DEF Sound, Drained, IsOpen
  <1>4. CASE FopenFails(r, others) /\ ~CheckFails(r, others)
    BY <1>2, <1>4 DEF Sound, Drained, IsOpen
  <1>5. QED
    BY <1>3, <1>4

\* A successful opening, and of a reader that had no stream a faithful one.
LEMMA OpenedSound ==
  ASSUME NEW r \in Reader, Sound(r), r.fileName # NoFile,
         NEW o \in Refill([r EXCEPT !.file = r.fileName, !.offset = 0, !.feof = FALSE]),
         NEW s, s = [o.reader EXCEPT !.columnNumber = 1, !.lineNumber = 1]
  PROVE  /\ s \in Reader /\ Sound(s)
         /\ IsOpen(s)
         /\ ~IsOpen(r) /\ Drained(r) => /\ Window(s) /\ Taken(s, <<>>)
                                        /\ s.stateEOF => s.feof
  <1> DEFINE q == [r EXCEPT !.file = r.fileName, !.offset = 0, !.feof = FALSE]
  <1>1. /\ q \in Reader /\ Sound(q) /\ IsOpen(q) /\ q.offset = 0
        /\ q.stateEOF = r.stateEOF
        /\ q.bufferLength = r.bufferLength /\ q.bufferPosition = r.bufferPosition
    BY FreshStream
  <1>2. o \in Refill(q)
    OBVIOUS
  <1> HIDE DEF q
  <1>3. /\ o.reader \in Reader /\ Sound(o.reader) /\ o.reader.file = q.file
        /\ (q.stateEOF => q.feof) => (o.reader.stateEOF => o.reader.feof)
    BY <1>1, <1>2, RefillSound
  <1>4. /\ s \in Reader /\ s.file = o.reader.file /\ s.offset = o.reader.offset
        /\ s.feof = o.reader.feof /\ s.buffer = o.reader.buffer
        /\ s.bufferLength = o.reader.bufferLength
        /\ s.bufferPosition = o.reader.bufferPosition
        /\ s.stateEOF = o.reader.stateEOF
    BY <1>3 DEF Reader
  <1>5. Sound(s)
    BY <1>3, <1>4 DEF Sound, IsOpen
  <1>6. ASSUME ~IsOpen(r), Drained(r)
        PROVE  Window(s) /\ Taken(s, <<>>) /\ (s.stateEOF => s.feof)
    <2>1. q.bufferLength = 0 /\ q.bufferPosition = 0 /\ ~q.stateEOF
      <3>1. r.bufferLength = 0 /\ ~r.stateEOF
        BY <1>6 DEF Drained
      <3>2. r.bufferPosition = 0
        <4>1. r.bufferPosition \in 0..SIZE /\ r.bufferPosition <= r.bufferLength
          BY DEF Sound, Reader
        <4>2. QED
          BY <3>1, <4>1, SizeAssumption
      <3>3. QED
        BY <1>1, <3>1, <3>2
    <2>2. Window(q)
      BY <2>1 DEF Window
    <2>3. Taken(q, <<>>)
      BY <1>1, <2>1 DEF Taken
    <2>4. ~ShortLive(q)
      BY <2>1 DEF ShortLive
    <2>5. Window(o.reader) /\ Taken(o.reader, <<>>)
      <3>1. <<>> \in Seq(Byte)
        OBVIOUS
      <3>2. QED
        BY <3>1, <1>1, <1>2, <2>2, <2>3, <2>4, RefillFaithful
    <2>6. Window(s) /\ Taken(s, <<>>)
      BY <2>5, <1>4 DEF Window, Taken
    <2>7. s.stateEOF => s.feof
      BY <1>3, <1>4, <2>1
    <2>8. QED
      BY <2>6, <2>7
  <1>7. IsOpen(s)
    BY <1>1, <1>3, <1>4 DEF IsOpen
  <1>8. QED
    BY <1>4, <1>5, <1>6, <1>7

\* Results of calls are typed.
LEMMA ReturnsTyped ==
  ASSUME NEW op \in {"none", "new", "destroy", "open", "close", "read", "peek", "peek_n"},
         NEW arg \in 0..SIZE, NEW ret \in Byte \cup {None}, Returns(op, arg, ret)
  PROVE  call' \in Call
  BY DEF Returns, Call

\* The invariant holds before the first call.
THEOREM InitInvariant == Init => IInv
  <1> SUFFICES ASSUME Init PROVE IInv
    OBVIOUS
  <1>1. NoFile \in Names0 /\ reader = NewReader(NoFile)
    BY DEF Init, Names0
  <1>2. /\ reader \in Reader /\ Sound(reader) /\ Drained(reader)
        /\ ~IsOpen(reader) /\ ~reader.stateEOF
    BY <1>1, NewSound
  <1>3. call \in Call
    BY SizeAssumption DEF Init, Call, Byte
  <1>4. TypeOK
    <2>1. delivered \in Seq(Byte)
      BY DEF Init
    <2>2. opens \in 0..2
      BY DEF Init
    <2>3. allocated \in BOOLEAN /\ clean \in BOOLEAN
      BY Zenon DEF Init
    <2>4. streams \in 0..MaxStreams /\ reopenings \in Nat
      BY BoundAssumption DEF Init
    <2>5. QED
      BY <1>2, <1>3, <2>1, <2>2, <2>3, <2>4, Zenon DEF TypeOK
  <1>5. NoStreamLeak
    BY <1>2 DEF Init, NoStreamLeak
  <1>6. QED
    BY <1>2, <1>4, <1>5 DEF IInv, Bounds, Faithful, EndFlag, NoneWithoutReader

(***************************************************************************)
(* The streams that are open                                               *)
(***************************************************************************)

\* The part of the invariant that counts streams.
Accounts ==
  /\ streams \in 0..MaxStreams /\ reopenings \in Nat
  /\ NoStreamLeak /\ NoneWithoutReader

\* Once the reader's own stream is closed, the ones lost by reopening are left.
LEMMA ClosedCount ==
  ASSUME Accounts
  PROVE  StreamsClosed = reopenings /\ StreamsClosed \in 0..MaxStreams
  BY BoundAssumption DEF Accounts, NoStreamLeak, StreamsClosed

\* fopen adds the stream that the reader has from then on.
LEMMA OpenedCount ==
  ASSUME NEW r \in Reader, Sound(r), r.fileName # NoFile, NEW others \in 0..MaxStreams,
         OpenSucceeds(r, others)
  PROVE  IsOpen(reader') /\ streams' = others + 1 /\ streams' \in 0..MaxStreams
  <1>1. PICK o \in Refill([r EXCEPT !.file = r.fileName, !.offset = 0, !.feof = FALSE]) :
          reader' = [o.reader EXCEPT !.columnNumber = 1, !.lineNumber = 1]
    BY DEF OpenSucceeds
  <1>2. IsOpen(reader')
    BY <1>1, OpenedSound
  <1>3. others < MaxStreams /\ streams' = others + 1
    BY DEF OpenSucceeds
  <1>4. QED
    BY <1>2, <1>3, BoundAssumption

\* A character call keeps the stream.
LEMMA CharKeepsStream ==
  ASSUME reader \in Reader, Sound(reader), CharCall
  PROVE  IsOpen(reader') = IsOpen(reader) /\ UNCHANGED <<streams, reopenings>>
  <1>1. UNCHANGED <<streams, reopenings>> /\ (IsOpen(reader) \/ reader.stateError)
    BY DEF CharCall, Read, Consume, Peek, PeekN, Callable
  <1>2. ASSUME NEW o, o \in Available(reader) \/ o \in Refill(reader)
        PROVE  o.reader.file = reader.file /\ o.reader \in Reader /\ Sound(o.reader)
    BY <1>1, <1>2, AvailableSound, RefillSound
  <1>3. CASE Read \/ Consume
    <2>1. PICK o \in Available(reader) :
            reader' = o.reader \/ (o.read # 0 /\ reader' = Advanced(o.reader))
      BY <1>3 DEF Read, Consume
    <2>2. o.read # 0 => o.reader.bufferPosition < o.reader.bufferLength
      BY <1>1, AvailableSound
    <2>3. reader'.file = reader.file
      BY <1>2, <2>1, <2>2, AdvancedSound
    <2>4. QED
      BY <1>1, <2>3 DEF IsOpen
  <1>4. CASE Peek \/ \E n \in 0..SIZE : PeekN(n)
    <2>1. reader' = reader \/ \E o : (o \in Available(reader) \/ o \in Refill(reader)) /\ reader' = o.reader
      BY <1>4 DEF Peek, PeekN
    <2>2. reader'.file = reader.file
      BY <1>2, <2>1
    <2>3. QED
      BY <1>1, <2>2 DEF IsOpen
  <1>5. QED
    BY <1>3, <1>4 DEF CharCall

\* Every call keeps the count.
LEMMA AccountsKept ==
  ASSUME IInv, Next
  PROVE  Accounts'
  <1>1. reader \in Reader /\ Sound(reader) /\ Accounts
    BY DEF IInv, TypeOK, Bounds, Accounts
  <1>2. /\ StreamsClosed = reopenings /\ StreamsClosed \in 0..MaxStreams
        /\ streams \in 0..MaxStreams /\ reopenings \in Nat
        /\ streams = IF IsOpen(reader) THEN 1 + reopenings ELSE reopenings
    <2>1. StreamsClosed = reopenings /\ StreamsClosed \in 0..MaxStreams
      BY <1>1, ClosedCount
    <2>2. /\ streams \in 0..MaxStreams /\ reopenings \in Nat
          /\ streams = (IF IsOpen(reader) THEN 1 ELSE 0) + reopenings
      BY <1>1 DEF Accounts, NoStreamLeak
    <2>3. QED
      BY <2>1, <2>2
  <1> DEFINE Counted(open) == /\ streams' \in 0..MaxStreams /\ reopenings' \in Nat
                              /\ open <=> IsOpen(reader')
                              /\ allocated' \/ ~open
                              /\ open => streams' = 1 + reopenings'
                              /\ ~open => streams' = reopenings'
  <1>3. Counted(TRUE) \/ Counted(FALSE) => Accounts'
    BY DEF Accounts, NoStreamLeak, NoneWithoutReader
  <1>4. ASSUME NEW name \in Names0, New(name) PROVE Accounts'
    <2>1. (IF name = NoFile THEN NoFile ELSE Normalize[name]) \in Names0
      BY NamesAssumption DEF Names0
    <2>2. ~IsOpen(reader')
      BY <1>4, <2>1, NewSound DEF New
    <2>3. streams' = streams /\ reopenings' = reopenings /\ ~IsOpen(reader)
      BY <1>1, <1>4 DEF New, Accounts, NoneWithoutReader
    <2>4. QED
      BY <1>2, <1>3, <2>2, <2>3
  <1>5. CASE Destroy \/ Close
    <2>1. NoFile \in Names0
      BY DEF Names0
    <2>2. ~IsOpen(reader') /\ streams' = StreamsClosed /\ reopenings' = reopenings
      BY <1>1, <1>5, <2>1, NewSound, ClosedSound DEF Destroy, Close
    <2>3. QED
      BY <1>2, <1>3, <2>2
  <1>6. ASSUME NEW name \in Names, OpenNamed(name) PROVE Accounts'
    <2> DEFINE r == IF IsOpen(reader) THEN Closed(reader) ELSE reader
    <2>1. r \in Reader /\ Sound(r) /\ ~IsOpen(r)
      BY <1>1, ClosedSound
    <2>2. /\ Normalize[name] \in Names0 /\ Normalize[name] # NoFile /\ NoFile \in Names0
      BY NamesAssumption DEF Names0
    <2>3. reopenings' = reopenings /\ allocated'
      BY <1>6 DEF OpenNamed
    <2>4. \/ OpenSucceeds([r EXCEPT !.fileName = Normalize[name]], StreamsClosed)
          \/ \E stored \in {Normalize[name], NoFile} :
               \/ CheckFails([r EXCEPT !.fileName = stored], StreamsClosed)
               \/ FopenFails([r EXCEPT !.fileName = stored], StreamsClosed)
      BY <1>6 DEF OpenNamed
    <2> HIDE DEF r
    <2>5. ASSUME NEW stored \in Names0, NEW q, q = [r EXCEPT !.fileName = stored]
          PROVE  q \in Reader /\ Sound(q) /\ ~IsOpen(q) /\ q.fileName = stored
      BY <2>1, <2>5, NamedSound
    <2>6. CASE OpenSucceeds([r EXCEPT !.fileName = Normalize[name]], StreamsClosed)
      <3>1. IsOpen(reader') /\ streams' = StreamsClosed + 1 /\ streams' \in 0..MaxStreams
        BY <1>2, <2>2, <2>5, <2>6, OpenedCount
      <3>2. QED
        BY <1>2, <1>3, <2>3, <3>1
    <2>7. ASSUME NEW stored \in Names0,
                 \/ CheckFails([r EXCEPT !.fileName = stored], StreamsClosed)
                 \/ FopenFails([r EXCEPT !.fileName = stored], StreamsClosed)
          PROVE  Accounts'
      <3>1. ~IsOpen(reader')
        BY <2>5, <2>7, FailedSound
      <3>2. streams' = StreamsClosed
        BY <2>7 DEF CheckFails, FopenFails
      <3>3. QED
        BY <1>2, <1>3, <2>3, <3>1, <3>2
    <2>8. QED
      BY <2>2, <2>4, <2>6, <2>7
  <1>7. CASE OpenStored
    <2>0. allocated'
      BY <1>7 DEF OpenStored
    <2>1. CASE /\ OpenSucceeds(reader, streams)
               /\ reopenings' = IF IsOpen(reader) THEN reopenings + 1 ELSE reopenings
      <3>1. IsOpen(reader') /\ streams' = streams + 1 /\ streams' \in 0..MaxStreams
        BY <1>1, <1>2, <1>7, <2>1, OpenedCount DEF OpenStored
      <3>2. QED
        BY <1>2, <1>3, <2>0, <2>1, <3>1
    <2>2. CASE /\ FopenFails(reader, streams)
               /\ reopenings' = IF IsOpen(reader) THEN reopenings + 1 ELSE reopenings
      <3>1. ~IsOpen(reader') /\ streams' = streams
        BY <1>1, <2>2 DEF FopenFails, IsOpen, Reader
      <3>2. QED
        BY <1>2, <1>3, <2>0, <2>2, <3>1
    <2>3. CASE CheckFails(reader, streams) /\ UNCHANGED <<delivered, reopenings>>
      <3>1. reader'.file = reader.file /\ streams' = streams
        BY <1>1, <2>3, FailedSound DEF CheckFails
      <3>2. IsOpen(reader') <=> IsOpen(reader)
        BY <3>1 DEF IsOpen
      <3>3. QED
        BY <1>2, <1>3, <2>0, <2>3, <3>1, <3>2
    <2>4. QED
      BY <1>7, <2>1, <2>2, <2>3 DEF OpenStored
  <1>8. CASE CharCall
    <2>1. allocated'
      BY <1>8 DEF CharCall, Read, Consume, Peek, PeekN, Callable
    <2>2. QED
      BY <1>1, <1>8, <2>1, CharKeepsStream DEF Accounts, NoStreamLeak, NoneWithoutReader
  <1>9. QED
    BY <1>4, <1>5, <1>6, <1>7, <1>8 DEF Next, Lifecycle

\* A reader without a stream that was opened and failed answers nothing and stays.
LEMMA DrainedStays ==
  ASSUME reader \in Reader, Sound(reader), ~IsOpen(reader), Drained(reader), CharCall
  PROVE  reader' = reader
  <1>1. reader.bufferLength = 0 /\ reader.bufferPosition \in 0..SIZE /\ reader.stateError
    BY DEF Drained, Reader, CharCall, Read, Consume, Peek, PeekN, Callable
  <1>2. reader.bufferPosition >= reader.bufferLength
    BY <1>1, SizeAssumption
  <1>3. \A o \in Refill(reader) : o.reader = reader /\ o.read = 0
    BY <1>1 DEF Refill
  <1>4. Available(reader) = Refill(reader)
    BY <1>2 DEF Available
  <1>5. CASE Read \/ Consume
    BY <1>3, <1>4, <1>5 DEF Read, Consume
  <1>6. CASE Peek
    BY <1>3, <1>4, <1>6 DEF Peek
  <1>7. ASSUME NEW n \in 0..SIZE, PeekN(n) PROVE reader' = reader
    BY <1>3, <1>7 DEF PeekN
  <1>8. QED
    BY <1>5, <1>6, <1>7 DEF CharCall

\* A character call leaves a drained reader drained.
LEMMA CharKeepsDrained ==
  ASSUME reader \in Reader, Sound(reader), Drained(reader), CharCall
  PROVE  Drained(reader')
  <1>1. CASE IsOpen(reader)
    BY <1>1, CharKeepsStream DEF Drained
  <1>2. CASE ~IsOpen(reader)
    BY <1>2, DrainedStays
  <1>3. QED
    BY <1>1, <1>2

(***************************************************************************)
(* Every call keeps the invariant                                          *)
(***************************************************************************)

\* What remains of the invariant once the next struct is sound and typed.
LEMMA Assemble ==
  ASSUME reader' \in Reader, Sound(reader'), call' \in Call, delivered' \in Seq(Byte),
         allocated' \in BOOLEAN, clean' \in BOOLEAN, opens' \in 0..2, Accounts',
         clean' => Drained(reader'),
         clean' /\ IsOpen(reader') => Window(reader') /\ Taken(reader', delivered'),
         clean' /\ reader'.stateEOF => reader'.feof
  PROVE  IInv'
  BY Zenon DEF IInv, TypeOK, Bounds, Faithful, EndFlag, Accounts

\* A step into a struct without a stream.
LEMMA LandsIdle ==
  ASSUME reader' \in Reader, Sound(reader'), ~IsOpen(reader'), call' \in Call,
         delivered' \in Seq(Byte), allocated' \in BOOLEAN, clean' \in BOOLEAN,
         opens' \in 0..2, Accounts', Drained(reader')
  PROVE  IInv'
  <1>1. ~reader'.stateEOF
    BY DEF Drained
  <1>2. QED
    BY <1>1, Assemble

\* New, destroy, open and close keep the invariant.
LEMMA LifecycleInvariant ==
  ASSUME IInv, Lifecycle
  PROVE  IInv'
  <1>1. /\ reader \in Reader /\ Sound(reader) /\ call \in Call /\ delivered \in Seq(Byte)
        /\ allocated \in BOOLEAN /\ clean \in BOOLEAN /\ opens \in 0..2
        /\ clean => Drained(reader)
    BY DEF IInv, TypeOK, Bounds
  <1>0. Accounts'
    BY AccountsKept DEF Next
  <1>2. <<>> \in Seq(Byte)
    OBVIOUS
  <1>3. /\ TRUE \in BOOLEAN /\ FALSE \in BOOLEAN /\ 0 \in 0..2
        /\ 0 \in 0..SIZE /\ 0 \in Byte \cup {None} /\ 1 \in Byte \cup {None}
    BY SizeAssumption DEF Byte
  <1>4. ASSUME NEW name \in Names0, New(name)
        PROVE  IInv'
    <2>1. (IF name = NoFile THEN NoFile ELSE Normalize[name]) \in Names0
      BY NamesAssumption DEF Names0
    <2>2. reader' \in Reader /\ Sound(reader') /\ ~IsOpen(reader') /\ Drained(reader')
      BY <1>4, <2>1, NewSound DEF New
    <2>3. call' \in Call
      BY <1>3, <1>4, ReturnsTyped DEF New
    <2>4. /\ delivered' \in Seq(Byte) /\ allocated' \in BOOLEAN /\ clean' \in BOOLEAN
          /\ opens' \in 0..2
      BY <1>1, <1>2, <1>3, <1>4 DEF New
    <2>5. QED
      BY <1>0, <2>2, <2>3, <2>4, LandsIdle
  <1>5. CASE Destroy
    <2>1. NoFile \in Names0
      BY DEF Names0
    <2>2. reader' \in Reader /\ Sound(reader') /\ ~IsOpen(reader') /\ Drained(reader')
      BY <1>5, <2>1, NewSound DEF Destroy
    <2>3. call' \in Call
      BY <1>3, <1>5, ReturnsTyped DEF Destroy
    <2>4. /\ delivered' \in Seq(Byte) /\ allocated' \in BOOLEAN /\ clean' \in BOOLEAN
          /\ opens' \in 0..2
      BY <1>1, <1>2, <1>3, <1>5 DEF Destroy
    <2>5. QED
      BY <1>0, <2>2, <2>3, <2>4, LandsIdle
  <1>6. CASE Close
    <2>1. reader' \in Reader /\ Sound(reader') /\ ~IsOpen(reader') /\ Drained(reader')
      BY <1>1, <1>6, ClosedSound DEF Close
    <2>2. call' \in Call
      BY <1>3, <1>6, ReturnsTyped DEF Close
    <2>3. /\ delivered' \in Seq(Byte) /\ allocated' \in BOOLEAN /\ clean' \in BOOLEAN
          /\ opens' \in 0..2
      BY <1>1, <1>2, <1>3, <1>6 DEF Close
    <2>4. QED
      BY <1>0, <2>1, <2>2, <2>3, LandsIdle
  \* The ends of buf_reader_open, shared by its two ways of being called.
  <1>7. ASSUME NEW r \in Reader, Sound(r), r.fileName # NoFile, NEW others, OpenSucceeds(r, others),
               clean' \in BOOLEAN, clean' => ~IsOpen(r) /\ Drained(r), allocated' \in BOOLEAN
        PROVE  IInv'
    <2>1. PICK o \in Refill([r EXCEPT !.file = r.fileName, !.offset = 0, !.feof = FALSE]) :
            reader' = [o.reader EXCEPT !.columnNumber = 1, !.lineNumber = 1]
      BY <1>7 DEF OpenSucceeds
    <2>2. /\ reader' \in Reader /\ Sound(reader') /\ IsOpen(reader')
          /\ ~IsOpen(r) /\ Drained(r) => /\ Window(reader') /\ Taken(reader', <<>>)
                                         /\ reader'.stateEOF => reader'.feof
      BY <1>7, <2>1, OpenedSound
    <2>3. call' \in Call
      BY <1>3, <1>7, ReturnsTyped DEF OpenSucceeds
    <2>4. delivered' = <<>> /\ opens' \in 0..2
      BY <1>1, <1>7 DEF OpenSucceeds
    <2>5. Drained(reader')
      BY <2>2 DEF Drained
    <2>6. QED
      BY <1>0, <1>2, <1>7, <2>2, <2>3, <2>4, <2>5, Assemble
  <1>8. ASSUME NEW r \in Reader, Sound(r), NEW others,
               CheckFails(r, others) \/ FopenFails(r, others), delivered' \in Seq(Byte),
               clean' \in BOOLEAN, clean' => ~IsOpen(r) /\ Drained(r), allocated' \in BOOLEAN
        PROVE  IInv'
    <2>1. /\ reader' \in Reader /\ Sound(reader')
          /\ IsOpen(reader') => IsOpen(r)
          /\ Drained(r) /\ ~IsOpen(r) => Drained(reader')
      BY <1>8, FailedSound
    <2>2. call' \in Call
      BY <1>3, <1>8, ReturnsTyped DEF CheckFails, FopenFails
    <2>3. opens' \in 0..2
      BY <1>1, <1>8 DEF CheckFails, FopenFails
    <2>4. clean' => ~IsOpen(reader') /\ ~reader'.stateEOF /\ Drained(reader')
      BY <1>8, <2>1 DEF Drained
    <2>5. QED
      BY <1>0, <1>8, <2>1, <2>2, <2>3, <2>4, Assemble
  <1>9. ASSUME NEW name \in Names, OpenNamed(name)
        PROVE  IInv'
    <2> DEFINE r == IF IsOpen(reader) THEN Closed(reader) ELSE reader
    <2>1. r \in Reader /\ Sound(r) /\ ~IsOpen(r)
      BY <1>1, ClosedSound
    <2>2. /\ Normalize[name] \in Names0 /\ Normalize[name] # NoFile /\ NoFile \in Names0
      BY NamesAssumption DEF Names0
    <2>3. clean' = (clean \/ IsOpen(reader)) /\ allocated' \in BOOLEAN
      BY <1>1, <1>9 DEF OpenNamed
    <2>4. clean' \in BOOLEAN /\ (clean' => Drained(r))
      BY <1>1, <2>3, ClosedSound
    <2>5. \/ OpenSucceeds([r EXCEPT !.fileName = Normalize[name]], StreamsClosed)
          \/ /\ delivered' = <<>>
             /\ \E stored \in Names0 :
                  \/ CheckFails([r EXCEPT !.fileName = stored], StreamsClosed)
                  \/ FopenFails([r EXCEPT !.fileName = stored], StreamsClosed)
      BY <1>9, <2>2 DEF OpenNamed
    <2> HIDE DEF r
    <2>6. ASSUME NEW stored \in Names0, NEW q, q = [r EXCEPT !.fileName = stored]
          PROVE  /\ q \in Reader /\ Sound(q) /\ ~IsOpen(q) /\ q.fileName = stored
                 /\ clean' => Drained(q)
      BY <2>1, <2>4, <2>6, NamedSound
    <2>7. CASE OpenSucceeds([r EXCEPT !.fileName = Normalize[name]], StreamsClosed)
      <3> DEFINE q == [r EXCEPT !.fileName = Normalize[name]]
      <3>1. OpenSucceeds(q, StreamsClosed)
        BY <2>7
      <3>2. /\ q \in Reader /\ Sound(q) /\ ~IsOpen(q) /\ q.fileName # NoFile
            /\ clean' => Drained(q)
        BY <2>2, <2>6
      <3> HIDE DEF q
      <3>3. QED
        BY <1>7, <2>3, <2>4, <3>1, <3>2
    <2>8. ASSUME NEW stored \in Names0, delivered' = <<>>,
                 \/ CheckFails([r EXCEPT !.fileName = stored], StreamsClosed)
                 \/ FopenFails([r EXCEPT !.fileName = stored], StreamsClosed)
          PROVE  IInv'
      <3> DEFINE q == [r EXCEPT !.fileName = stored]
      <3>1. CheckFails(q, StreamsClosed) \/ FopenFails(q, StreamsClosed)
        BY <2>8
      <3>2. q \in Reader /\ Sound(q) /\ ~IsOpen(q) /\ (clean' => Drained(q))
        BY <2>6
      <3> HIDE DEF q
      <3>3. QED
        BY <1>2, <1>8, <2>3, <2>4, <2>8, <3>1, <3>2
    <2>9. QED
      BY <2>5, <2>7, <2>8
  <1>10. CASE OpenStored
    <2>1. /\ clean' \in BOOLEAN /\ allocated' \in BOOLEAN
          /\ clean' => ~IsOpen(reader) /\ Drained(reader)
      BY <1>1, <1>10 DEF OpenStored
    <2>2. CASE OpenSucceeds(reader, streams)
      BY <1>1, <1>7, <1>10, <2>1, <2>2 DEF OpenStored
    <2>3. CASE (CheckFails(reader, streams) \/ FopenFails(reader, streams)) /\ UNCHANGED delivered
      BY <1>1, <1>8, <2>1, <2>3
    <2>4. QED
      BY <1>10, <2>2, <2>3 DEF OpenStored
  <1>11. QED
    BY <1>4, <1>5, <1>6, <1>9, <1>10 DEF Lifecycle

\* The character calls keep it.
LEMMA CharCallInvariant ==
  ASSUME IInv, CharCall
  PROVE  IInv'
  <1>1. /\ reader \in Reader /\ Sound(reader) /\ call \in Call /\ delivered \in Seq(Byte)
        /\ allocated \in BOOLEAN /\ clean \in BOOLEAN /\ opens \in 0..2
        /\ clean => Drained(reader)
    BY DEF IInv, TypeOK, Bounds
  <1>0. Accounts' /\ (clean' => Drained(reader'))
    <2>1. clean' => clean
      BY <1>1 DEF CharCall, Read, Consume, Peek, PeekN
    <2>2. QED
      BY <1>1, <2>1, AccountsKept, CharKeepsDrained DEF Next
  <1>2. /\ clean /\ IsOpen(reader) => Window(reader) /\ Taken(reader, delivered)
        /\ clean => (reader.stateEOF => reader.feof)
    BY DEF IInv, Faithful, EndFlag
  <1>3. 0 \in 0..SIZE /\ None \in Byte \cup {None}
    BY SizeAssumption
  <1>4. CASE Read
    <2>1. /\ Callable /\ UNCHANGED <<allocated, clean, opens, streams, reopenings>>
          /\ IsOpen(reader) \/ reader.stateError
      BY <1>4 DEF Read, Callable
    <2>2. PICK o \in Available(reader) :
            IF o.read = 0
            THEN /\ reader' = o.reader
                 /\ delivered' = delivered
                 /\ Returns("read", 0, None)
            ELSE /\ reader' = Advanced(o.reader)
                 /\ delivered' = Append(delivered, o.reader.buffer[o.reader.bufferPosition])
                 /\ Returns("read", 0, o.reader.buffer[o.reader.bufferPosition])
      BY <1>4 DEF Read
    <2>3. /\ o.reader \in Reader /\ Sound(o.reader) /\ o.reader.file = reader.file
          /\ o.read # 0 => /\ o.reader.bufferPosition < o.reader.bufferLength
                           /\ o.reader.buffer[o.reader.bufferPosition] \in Byte
          /\ clean => (o.reader.stateEOF => o.reader.feof)
      BY <1>1, <1>2, <2>1, AvailableSound
    <2>4. clean /\ IsOpen(reader) => Window(o.reader) /\ Taken(o.reader, delivered)
      BY <1>1, <1>2, AvailableFaithful
    <2>5. CASE o.read = 0
      <3>1. reader' = o.reader /\ delivered' = delivered /\ Returns("read", 0, None)
        BY <2>2, <2>5
      <3>2. call' \in Call
        BY <1>3, <3>1, ReturnsTyped
      <3>3. clean' /\ IsOpen(reader') => Window(reader') /\ Taken(reader', delivered')
        BY <2>1, <2>3, <2>4, <3>1 DEF IsOpen
      <3>4. clean' /\ reader'.stateEOF => reader'.feof
        BY <2>1, <2>3, <3>1
      <3>5. QED
        BY <1>0, <1>1, <2>1, <2>3, <3>1, <3>2, <3>3, <3>4, Assemble
    <2>6. CASE o.read # 0
      <3> DEFINE ch == o.reader.buffer[o.reader.bufferPosition]
      <3>1. /\ reader' = Advanced(o.reader) /\ delivered' = Append(delivered, ch)
            /\ Returns("read", 0, ch)
        BY <2>2, <2>6
      <3>2. o.reader.bufferPosition < o.reader.bufferLength /\ ch \in Byte
        BY <2>3, <2>6
      <3>3. /\ reader' \in Reader /\ Sound(reader') /\ reader'.file = reader.file
            /\ reader'.stateEOF = o.reader.stateEOF /\ reader'.feof = o.reader.feof
        BY <2>3, <3>1, <3>2, AdvancedSound
      <3>4. call' \in Call
        BY <1>3, <3>1, <3>2, ReturnsTyped
      <3>5. delivered' \in Seq(Byte)
        BY <1>1, <3>1, <3>2
      <3>6. clean' /\ IsOpen(reader') => Window(reader') /\ Taken(reader', delivered')
        <4> SUFFICES ASSUME clean', IsOpen(reader')
                     PROVE  Window(reader') /\ Taken(reader', delivered')
          OBVIOUS
        <4>1. IsOpen(reader) /\ IsOpen(o.reader) /\ clean
          BY <2>1, <2>3, <3>3 DEF IsOpen
        <4>2. Window(o.reader) /\ Taken(o.reader, delivered)
          BY <2>4, <4>1
        <4>3. QED
          BY <1>1, <2>3, <3>1, <3>2, <4>1, <4>2, AdvancedFaithful
      <3>7. clean' /\ reader'.stateEOF => reader'.feof
        BY <2>1, <2>3, <3>3
      <3>8. QED
        BY <1>0, <1>1, <2>1, <3>3, <3>4, <3>5, <3>6, <3>7, Assemble
    <2>7. QED
      BY <2>5, <2>6
  <1>5. CASE Peek
    <2>1. /\ Callable /\ UNCHANGED <<allocated, delivered, clean, opens, streams, reopenings>>
          /\ IsOpen(reader) \/ reader.stateError
      BY <1>5 DEF Peek, Callable
    <2>2. PICK o \in Available(reader) :
            /\ reader' = o.reader
            /\ Returns("peek", 0, IF o.read = 0 THEN None
                                  ELSE o.reader.buffer[o.reader.bufferPosition])
      BY <1>5 DEF Peek
    <2>3. /\ o.reader \in Reader /\ Sound(o.reader) /\ o.reader.file = reader.file
          /\ o.read # 0 => o.reader.buffer[o.reader.bufferPosition] \in Byte
          /\ clean => (o.reader.stateEOF => o.reader.feof)
      BY <1>1, <1>2, <2>1, AvailableSound
    <2>4. clean /\ IsOpen(reader) => Window(o.reader) /\ Taken(o.reader, delivered)
      BY <1>1, <1>2, AvailableFaithful
    <2>5. call' \in Call
      BY <1>3, <2>2, <2>3, ReturnsTyped
    <2>6. clean' /\ IsOpen(reader') => Window(reader') /\ Taken(reader', delivered')
      BY <2>1, <2>2, <2>3, <2>4 DEF IsOpen
    <2>7. clean' /\ reader'.stateEOF => reader'.feof
      BY <2>1, <2>2, <2>3
    <2>8. QED
      BY <1>0, <1>1, <2>1, <2>2, <2>3, <2>5, <2>6, <2>7, Assemble
  <1>6. ASSUME NEW n \in 0..SIZE, PeekN(n)
        PROVE  IInv'
    <2>1. /\ UNCHANGED <<allocated, delivered, opens, streams, reopenings>>
          /\ IsOpen(reader) \/ reader.stateError
      BY <1>6 DEF PeekN, Callable
    <2>2. CASE /\ SIZE <= n \/ reader.bufferPosition + n < reader.bufferLength
               /\ Returns("peek_n", n, IF SIZE <= n THEN None
                                       ELSE reader.buffer[reader.bufferPosition + n])
               /\ UNCHANGED <<reader, clean>>
      <3>1. ASSUME ~(SIZE <= n)
            PROVE  reader.buffer[reader.bufferPosition + n] \in Byte
        <4>1. /\ reader.bufferPosition \in 0..SIZE /\ reader.bufferLength \in 0..SIZE
              /\ reader.buffer \in [Index -> Byte]
          BY <1>1 DEF Reader
        <4>2. reader.bufferPosition + n \in Index
          BY <2>2, <3>1, <4>1, SizeAssumption DEF Index
        <4>3. QED
          BY <4>1, <4>2
      <3>2. call' \in Call
        BY <1>3, <2>2, <3>1, ReturnsTyped
      <3>3. QED
        BY <1>0, <1>1, <1>2, <2>1, <2>2, <3>2, Assemble
    <2>3. CASE /\ n < SIZE
               /\ reader.bufferPosition + n >= reader.bufferLength
               /\ \E o \in Refill(reader) :
                    /\ reader' = o.reader
                    /\ Returns("peek_n", n,
                               IF o.read = 0 \/ n >= o.reader.bufferLength THEN None
                               ELSE o.reader.buffer[o.reader.bufferPosition + n])
               /\ clean' = (clean /\ ~ShortLive(reader))
      <3>1. PICK o \in Refill(reader) :
              /\ reader' = o.reader
              /\ Returns("peek_n", n,
                         IF o.read = 0 \/ n >= o.reader.bufferLength THEN None
                         ELSE o.reader.buffer[o.reader.bufferPosition + n])
        BY <2>3
      <3>2. /\ o.reader \in Reader /\ Sound(o.reader) /\ o.reader.file = reader.file
            /\ clean => (o.reader.stateEOF => o.reader.feof)
        BY <1>1, <1>2, <2>1, RefillSound
      <3>3. ASSUME ~(o.read = 0 \/ n >= o.reader.bufferLength)
            PROVE  o.reader.buffer[o.reader.bufferPosition + n] \in Byte
        <4>1. o.reader.bufferPosition = 0
          <5>1. PICK f \in Fread(reader, SIZE - Remaining(reader)) :
                  o = [reader |-> Refilled(reader, Remaining(reader), f), read |-> f.got]
            BY <3>3 DEF Refill
          <5>2. o.reader = Refilled(reader, Remaining(reader), f)
            BY <5>1
          <5>3. IsOpen(reader)
            BY <2>1, <3>3 DEF Refill
          <5>4. QED
            BY <1>1, <5>2, <5>3, RefilledSound
        <4>2. o.reader.bufferLength \in 0..SIZE /\ o.reader.buffer \in [Index -> Byte]
          BY <3>2 DEF Reader
        <4>3. o.reader.bufferPosition + n \in Index
          BY <3>3, <4>1, <4>2, SizeAssumption DEF Index
        <4>4. QED
          BY <4>2, <4>3
      <3>4. call' \in Call
        BY <1>3, <3>1, <3>3, ReturnsTyped
      <3>5. clean' => clean /\ ~ShortLive(reader)
        BY <2>3
      <3>6. clean' /\ IsOpen(reader') => Window(reader') /\ Taken(reader', delivered')
        <4> SUFFICES ASSUME clean', IsOpen(reader')
                     PROVE  Window(reader') /\ Taken(reader', delivered')
          OBVIOUS
        <4>1. IsOpen(reader) /\ clean /\ ~ShortLive(reader)
          BY <3>1, <3>2, <3>5 DEF IsOpen
        <4>2. QED
          BY <1>1, <1>2, <2>1, <3>1, <4>1, RefillFaithful
      <3>7. clean' /\ reader'.stateEOF => reader'.feof
        BY <3>1, <3>2, <3>5
      <3>8. clean' \in BOOLEAN
        BY <2>3
      <3>9. QED
        BY <1>0, <1>1, <2>1, <3>1, <3>2, <3>4, <3>6, <3>7, <3>8, Assemble
    <2>4. QED
      BY <1>6, <2>2, <2>3 DEF PeekN
  <1>7. QED
    BY <1>4, <1>5, <1>6 DEF CharCall, Consume

\* Every call keeps it.
LEMMA StepInvariant == IInv /\ [Next]_vars => IInv'
  <1> SUFFICES ASSUME IInv, [Next]_vars PROVE IInv'
    OBVIOUS
  <1>1. CASE Lifecycle
    BY <1>1, LifecycleInvariant
  <1>2. CASE CharCall
    BY <1>2, CharCallInvariant
  <1>3. CASE UNCHANGED vars
    BY <1>3 DEF vars, IInv, TypeOK, Bounds, Faithful, EndFlag, NoStreamLeak, NoneWithoutReader,
                IsOpen, Sound, Drained,
                Window, Taken
  <1>4. QED
    BY <1>1, <1>2, <1>3 DEF Next

\* The inductive invariant as a whole, for the theorems about what the reader's calls do
\* (buf_reader_open, buf_reader_refill, buf_reader_read, buf_reader_peek_n).
THEOREM IInvHolds == Spec => []IInv
  BY InitInvariant, StepInvariant, PTL DEF Spec

\* The fields, the history and every result have their types, in every behaviour.
THEOREM Typing == Spec => []TypeOK
  <1>1. IInv => TypeOK
    BY DEF IInv
  <1>2. QED
    BY <1>1, InitInvariant, StepInvariant, PTL DEF Spec

\* No call indexes outside the buffer, whatever fread returns and whatever order
\* the calls come in.
THEOREM BoundsHold == Spec => []Bounds
  <1>1. IInv => Bounds
    BY DEF IInv
  <1>2. QED
    BY <1>1, InitInvariant, StepInvariant, PTL DEF Spec

\* A reader used with discipline hands out the file: nothing lost, repeated or
\* reordered by refilling, for any buffer size and any chunks fread returns.
THEOREM FaithfulHolds == Spec => []Faithful
  <1>1. IInv => Faithful
    BY DEF IInv
  <1>2. QED
    BY <1>1, InitInvariant, StepInvariant, PTL DEF Spec

\* Such a reader reports the end of the file only once all of it was taken out.
THEOREM EndIsRealHolds == Spec => []EndIsReal
  <1>1. ASSUME IInv PROVE EndIsReal
    <2> SUFFICES ASSUME clean, IsOpen(reader), reader.stateEOF
                 PROVE  Len(delivered) = Len(Content[reader.file])
      BY DEF EndIsReal
    <2>1. /\ reader.offset = Len(delivered) + (reader.bufferLength - reader.bufferPosition)
          /\ reader.bufferLength = 0 /\ reader.bufferPosition <= reader.bufferLength
          /\ reader.offset = Len(Content[reader.file])
      BY <1>1 DEF IInv, Faithful, Taken, EndFlag, Bounds, Sound
    <2>2. reader.bufferPosition \in 0..SIZE /\ reader.offset \in Nat /\ Len(delivered) \in Nat
      BY <1>1 DEF IInv, TypeOK, Reader
    <2>3. reader.bufferPosition = 0
      BY <2>1, <2>2, SizeAssumption
    <2>4. QED
      BY <2>1, <2>2, <2>3
  <1>2. QED
    BY <1>1, InitInvariant, StepInvariant, PTL DEF Spec

(***************************************************************************)
(* More of what a refill does to one struct                                *)
(***************************************************************************)

\* A refill moves neither line nor column; an error leaves the buffer empty; and at the
\* end or after an error it does nothing.
LEMMA RefillDetails ==
  ASSUME NEW r \in Reader, Sound(r), IsOpen(r) \/ r.stateError, NEW o \in Refill(r)
  PROVE  /\ o.reader.lineNumber = r.lineNumber
         /\ o.reader.columnNumber = r.columnNumber
         /\ o.reader.stateError => o.reader.bufferLength = 0 \/ o.reader = r
         /\ r.stateEOF \/ r.stateError => o.reader = r /\ o.read = 0
  <1>1. CASE r.stateEOF \/ r.stateError
    <2>1. o = [reader |-> r, read |-> 0]
      BY <1>1 DEF Refill
    <2>2. QED
      BY <2>1
  <1>2. CASE ~(r.stateEOF \/ r.stateError)
    <2>1. PICK f \in Fread(r, SIZE - Remaining(r)) :
            o = [reader |-> Refilled(r, Remaining(r), f), read |-> f.got]
      BY <1>2 DEF Refill
    <2>2. o.reader = Refilled(r, Remaining(r), f) /\ IsOpen(r)
      BY <1>2, <2>1
    <2>3. /\ o.reader.lineNumber = r.lineNumber /\ o.reader.columnNumber = r.columnNumber
          /\ o.reader.bufferLength = Remaining(r) + f.got
      BY <2>2, RefilledSound
    <2>4. o.reader.stateError = (Remaining(r) + f.got = 0 /\ ~f.feof)
      BY <2>2 DEF Refilled, Reader
    <2>5. QED
      BY <1>2, <2>3, <2>4
  <1>3. QED
    BY <1>1, <1>2

\* Nor does making a byte available.
LEMMA AvailableDetails ==
  ASSUME NEW r \in Reader, Sound(r), IsOpen(r) \/ r.stateError, NEW o \in Available(r)
  PROVE  /\ o.reader.lineNumber = r.lineNumber
         /\ o.reader.columnNumber = r.columnNumber
         /\ o.reader.stateError => o.reader.bufferLength = 0 \/ o.reader = r
         /\ r.stateEOF => o.reader = r /\ o.read = 0
         /\ r.bufferPosition < r.bufferLength => o.reader = r /\ o.read = 1
         /\ r.bufferPosition >= r.bufferLength => o \in Refill(r)
  <1>1. r.bufferPosition \in 0..SIZE /\ r.bufferLength \in 0..SIZE
        /\ (r.stateEOF => r.bufferLength = 0)
    BY DEF Reader, Sound
  <1>2. CASE r.bufferPosition >= r.bufferLength
    <2>1. o \in Refill(r) /\ ~(r.bufferPosition < r.bufferLength)
      BY <1>1, <1>2, SizeAssumption DEF Available
    <2>2. QED
      BY <2>1, RefillDetails
  <1>3. CASE r.bufferPosition < r.bufferLength
    <2>1. ~(r.bufferPosition >= r.bufferLength) /\ r.bufferLength # 0
      BY <1>1, <1>3, SizeAssumption
    <2>2. o = [reader |-> r, read |-> 1]
      BY <2>1 DEF Available
    <2>3. QED
      BY <1>1, <2>1, <2>2
  <1>4. QED
    BY <1>1, <1>2, <1>3, SizeAssumption

\* What consuming does to the place and to the error.
LEMMA AdvancedPlace ==
  ASSUME NEW r \in Reader
  PROVE  /\ Advanced(r).lineNumber =
              IF r.buffer[r.bufferPosition] = NL THEN r.lineNumber + 1 ELSE r.lineNumber
         /\ Advanced(r).columnNumber =
              IF r.buffer[r.bufferPosition] = NL THEN 1 ELSE r.columnNumber + 1
         /\ Advanced(r).stateError = r.stateError
  <1> DEFINE line == IF r.buffer[r.bufferPosition] = NL THEN r.lineNumber + 1 ELSE r.lineNumber
             column == IF r.buffer[r.bufferPosition] = NL THEN 1 ELSE r.columnNumber + 1
  <1>1. Advanced(r) = [r EXCEPT !.bufferPosition = r.bufferPosition + 1,
                                !.lineNumber = line, !.columnNumber = column]
    BY Zenon DEF Advanced
  <1> HIDE DEF line, column
  <1>2. /\ Advanced(r).lineNumber = line /\ Advanced(r).columnNumber = column
        /\ Advanced(r).stateError = r.stateError
    BY <1>1 DEF Reader
  <1>3. QED
    BY <1>2 DEF line, column

(***************************************************************************)
(* The end stays the end                                                   *)
(***************************************************************************)

\* A character call at the end of the file leaves the reader as it is, and gives nothing.
LEMMA EndStep ==
  ASSUME IInv, CharCall, reader.stateEOF
  PROVE  reader' = reader /\ call'.ret = None
  <1>1. /\ reader \in Reader /\ Sound(reader) /\ reader.bufferLength = 0
        /\ reader.bufferPosition \in 0..SIZE
    BY DEF IInv, TypeOK, Bounds, Sound, Reader
  <1>2. reader.bufferPosition >= reader.bufferLength
    BY <1>1, SizeAssumption
  <1>3. \A o \in Refill(reader) : o.reader = reader /\ o.read = 0
    BY DEF Refill
  <1>4. Available(reader) = Refill(reader)
    BY <1>2 DEF Available
  <1>5. CASE Read \/ Consume
    BY <1>3, <1>4, <1>5 DEF Read, Consume, Returns
  <1>6. CASE Peek
    BY <1>3, <1>4, <1>6 DEF Peek, Returns
  <1>7. ASSUME NEW n \in 0..SIZE, PeekN(n) PROVE reader' = reader /\ call'.ret = None
    <2>1. ~(reader.bufferPosition + n < reader.bufferLength)
      BY <1>1, SizeAssumption
    <2>2. QED
      BY <1>3, <1>7, <2>1 DEF PeekN, Returns
  <1>8. QED
    BY <1>5, <1>6, <1>7 DEF CharCall

\* Once buf_reader_has_next is false, no character call delivers a byte or makes it true
\* again, for any buffer size and any file.
THEOREM EOFIsFinalHolds == Spec => EOFIsFinal
  <1>1. IInv /\ [Next]_vars => [CharCall /\ reader.stateEOF => reader'.stateEOF /\ call'.ret = None]_vars
    BY EndStep
  <1>2. QED
    BY <1>1, IInvHolds, PTL DEF Spec, EOFIsFinal

\* Whatever sequence of openings, failures and closings: a FILE* is lost by reopening an
\* open reader under its stored name, one each time fopen is reached, and in no other way
\* (buf_reader_open, buf_reader_close, buf_reader_destroy).
THEOREM NoStreamLeakHolds == Spec => []NoStreamLeak
  <1>1. IInv => NoStreamLeak
    BY DEF IInv
  <1>2. QED
    BY <1>1, InitInvariant, StepInvariant, PTL DEF Spec

(***************************************************************************)
(* The place of the cursor                                                 *)
(***************************************************************************)

\* The newlines of a sequence of bytes.
Ends(d) == {i \in 1 .. Len(d) : d[i] = NL}

\* Struct r names the place after d: the last line of d begins after a newline that no
\* other follows.  PositionTracked chooses that newline; carrying it along spares the
\* induction that would show there is one.
Placed(r, d) ==
  \E last \in Ends(d) \cup {0} :
    /\ \A j \in Ends(d) : j <= last
    /\ r.lineNumber = 1 + Cardinality(Ends(d))
    /\ r.columnNumber = 1 + Len(d) - last

PlaceInv == IsOpen(reader) => Placed(reader, delivered)

\* The last of a set of places is the one that is not before another.
LEMMA LastEndIs ==
  ASSUME NEW n \in Nat, NEW S, S \subseteq 1 .. n, NEW i \in S \cup {0}, \A j \in S : j <= i
  PROVE  (CHOOSE k \in S \cup {0} : \A j \in S : j <= k) = i
  <1>1. ASSUME NEW k \in S \cup {0}, \A j \in S : j <= k PROVE k = i
    <2>1. k \in Nat /\ i \in Nat
      OBVIOUS
    <2>2. CASE k \in S /\ i \in S
      <3>1. k <= i /\ i <= k
        BY <1>1, <2>2
      <3>2. QED
        BY <2>1, <3>1
    <2>3. CASE k \notin S /\ i \in S
      <3>1. k = 0 /\ i <= k /\ i >= 1
        BY <1>1, <2>3
      <3>2. QED
        BY <2>1, <3>1
    <2>4. CASE k \in S /\ i \notin S
      <3>1. i = 0 /\ k <= i /\ k >= 1
        BY <1>1, <2>4
      <3>2. QED
        BY <2>1, <3>1
    <2>5. CASE k \notin S /\ i \notin S
      BY <2>5
    <2>6. QED
      BY <2>2, <2>3, <2>4, <2>5
  <1>2. QED
    BY <1>1

\* A text has finitely many newlines.
LEMMA EndsFinite ==
  ASSUME NEW d \in Seq(Byte)
  PROVE  /\ Ends(d) \subseteq 1 .. Len(d)
         /\ IsFiniteSet(Ends(d)) /\ Cardinality(Ends(d)) \in Nat
  <1>1. Ends(d) \subseteq 1 .. Len(d) /\ Len(d) \in Nat
    BY DEF Ends
  <1>2. IsFiniteSet(1 .. Len(d))
    BY <1>1, FS_Interval
  <1>3. IsFiniteSet(Ends(d))
    BY <1>1, <1>2, FS_Subset
  <1>4. QED
    BY <1>1, <1>3, FS_CardinalityType

\* One more byte is one more newline, if it is one.
LEMMA EndsAppend ==
  ASSUME NEW d \in Seq(Byte), NEW b \in Byte
  PROVE  Ends(Append(d, b)) = IF b = NL THEN Ends(d) \cup {Len(d) + 1} ELSE Ends(d)
  <1> DEFINE e == Append(d, b)
  <1>1. /\ Len(d) \in Nat /\ Len(e) = Len(d) + 1 /\ e[Len(d) + 1] = b
        /\ \A i \in 1 .. Len(d) : e[i] = d[i]
    OBVIOUS
  <1> HIDE DEF e
  <1>2. ASSUME NEW i PROVE i \in Ends(e) <=> i \in Ends(d) \/ (i = Len(d) + 1 /\ b = NL)
    <2>1. CASE i \in 1 .. Len(d)
      BY <1>1, <2>1 DEF Ends
    <2>2. CASE i = Len(d) + 1
      BY <1>1, <2>2 DEF Ends
    <2>3. CASE i \notin 1 .. Len(d) /\ i # Len(d) + 1
      <3>1. i \notin 1 .. Len(e)
        BY <1>1, <2>3
      <3>2. QED
        BY <2>3, <3>1 DEF Ends
    <2>4. QED
      BY <2>1, <2>2, <2>3
  <1>3. QED
    BY <1>2 DEF e

\* The place of a stream nothing was taken out of.
LEMMA PlacedEmpty ==
  ASSUME NEW r, r.lineNumber = 1, r.columnNumber = 1
  PROVE  Placed(r, <<>>)
  <1>1. Ends(<<>>) = {}
    BY DEF Ends
  <1>2. Cardinality(Ends(<<>>)) = 0
    BY <1>1, FS_EmptySet
  <1>3. 1 = 1 + Cardinality(Ends(<<>>)) /\ 1 = 1 + Len(<<>>) - 0
    BY <1>2
  <1>4. QED
    BY <1>1, <1>3 DEF Placed

\* Line and column move with the byte taken out.
LEMMA PlacedAppend ==
  ASSUME NEW r \in Reader, NEW s, NEW d \in Seq(Byte), NEW b \in Byte, Placed(r, d),
         s.lineNumber = IF b = NL THEN r.lineNumber + 1 ELSE r.lineNumber,
         s.columnNumber = IF b = NL THEN 1 ELSE r.columnNumber + 1
  PROVE  Placed(s, Append(d, b))
  <1>1. PICK last \in Ends(d) \cup {0} :
          /\ \A j \in Ends(d) : j <= last
          /\ r.lineNumber = 1 + Cardinality(Ends(d))
          /\ r.columnNumber = 1 + Len(d) - last
    BY DEF Placed
  <1>2. /\ Ends(d) \subseteq 1 .. Len(d) /\ IsFiniteSet(Ends(d)) /\ Cardinality(Ends(d)) \in Nat
        /\ Len(d) \in Nat /\ Len(Append(d, b)) = Len(d) + 1
    BY EndsFinite
  <1>3. CASE b = NL
    <2>1. Ends(Append(d, b)) = Ends(d) \cup {Len(d) + 1}
      BY <1>3, EndsAppend
    <2>2. Len(d) + 1 \notin Ends(d)
      BY <1>2
    <2>3. Cardinality(Ends(Append(d, b))) = Cardinality(Ends(d)) + 1
      <3>1. Cardinality(Ends(d) \cup {Len(d) + 1}) = Cardinality(Ends(d)) + 1
        BY <1>2, <2>2, FS_AddElement, Zenon
      <3>2. QED
        BY <2>1, <3>1
    <2>4. s.lineNumber = 1 + Cardinality(Ends(Append(d, b)))
      BY <1>1, <1>2, <1>3, <2>3
    <2>5. s.columnNumber = 1 + Len(Append(d, b)) - (Len(d) + 1)
      BY <1>2, <1>3
    <2>6. \A j \in Ends(Append(d, b)) : j <= Len(d) + 1
      BY <1>2, <2>1
    <2>7. QED
      BY <2>1, <2>4, <2>5, <2>6 DEF Placed
  <1>4. CASE b # NL
    <2>1. Ends(Append(d, b)) = Ends(d)
      BY <1>4, EndsAppend
    <2>2. last \in Nat
      BY <1>2
    <2>3. s.columnNumber = 1 + Len(Append(d, b)) - last
      BY <1>1, <1>2, <1>4, <2>2
    <2>4. s.lineNumber = 1 + Cardinality(Ends(Append(d, b)))
      BY <1>1, <1>4, <2>1
    <2>5. QED
      BY <1>1, <2>1, <2>3, <2>4 DEF Placed
  <1>5. QED
    BY <1>3, <1>4

\* The place depends on two fields only.
LEMMA PlacedSame ==
  ASSUME NEW r, NEW s, NEW d, Placed(r, d),
         s.lineNumber = r.lineNumber, s.columnNumber = r.columnNumber
  PROVE  Placed(s, d)
  BY DEF Placed

\* An opening starts at line 1, column 1; every other call keeps the place or moves it by
\* the byte it takes out.
LEMMA PlaceStep ==
  ASSUME IInv, PlaceInv, [Next]_vars
  PROVE  PlaceInv'
  <1>1. /\ reader \in Reader /\ Sound(reader) /\ delivered \in Seq(Byte)
        /\ IsOpen(reader) => Placed(reader, delivered)
    BY DEF IInv, TypeOK, Bounds, PlaceInv
  <1>2. SUFFICES IsOpen(reader') => Placed(reader', delivered')
    BY DEF PlaceInv
  <1>3. ASSUME NEW r \in Reader, Sound(r), r.fileName # NoFile, NEW others, OpenSucceeds(r, others)
        PROVE  Placed(reader', delivered')
    <2> DEFINE q == [r EXCEPT !.file = r.fileName, !.offset = 0, !.feof = FALSE]
    <2>1. PICK o \in Refill(q) : reader' = [o.reader EXCEPT !.columnNumber = 1, !.lineNumber = 1]
      BY <1>3 DEF OpenSucceeds
    <2>2. q \in Reader /\ Sound(q) /\ IsOpen(q)
      BY <1>3, FreshStream
    <2> HIDE DEF q
    <2>3. o.reader \in Reader
      BY <2>2, RefillSound
    <2>4. reader'.lineNumber = 1 /\ reader'.columnNumber = 1
      BY <2>1, <2>3 DEF Reader
    <2>5. delivered' = <<>>
      BY <1>3 DEF OpenSucceeds
    <2>6. QED
      BY <2>4, <2>5, PlacedEmpty
  <1>4. ASSUME NEW name \in Names, OpenNamed(name) PROVE IsOpen(reader') => Placed(reader', delivered')
    <2> DEFINE r == IF IsOpen(reader) THEN Closed(reader) ELSE reader
    <2>1. r \in Reader /\ Sound(r) /\ ~IsOpen(r)
      BY <1>1, ClosedSound
    <2>2. /\ Normalize[name] \in Names0 /\ Normalize[name] # NoFile /\ NoFile \in Names0
      BY NamesAssumption DEF Names0
    <2>3. \/ OpenSucceeds([r EXCEPT !.fileName = Normalize[name]], StreamsClosed)
          \/ \E stored \in Names0 :
               \/ CheckFails([r EXCEPT !.fileName = stored], StreamsClosed)
               \/ FopenFails([r EXCEPT !.fileName = stored], StreamsClosed)
      BY <1>4, <2>2 DEF OpenNamed
    <2> HIDE DEF r
    <2>4. ASSUME NEW stored \in Names0, NEW q, q = [r EXCEPT !.fileName = stored]
          PROVE  q \in Reader /\ Sound(q) /\ ~IsOpen(q) /\ q.fileName = stored
      BY <2>1, <2>4, NamedSound
    <2>5. CASE OpenSucceeds([r EXCEPT !.fileName = Normalize[name]], StreamsClosed)
      BY <1>3, <2>2, <2>4, <2>5
    <2>6. ASSUME NEW stored \in Names0,
                 \/ CheckFails([r EXCEPT !.fileName = stored], StreamsClosed)
                 \/ FopenFails([r EXCEPT !.fileName = stored], StreamsClosed)
          PROVE ~IsOpen(reader')
      BY <2>4, <2>6, FailedSound
    <2>7. QED
      BY <2>3, <2>5, <2>6
  <1>5. CASE OpenStored
    <2>1. CASE OpenSucceeds(reader, streams)
      BY <1>1, <1>3, <1>5, <2>1 DEF OpenStored
    <2>2. CASE (CheckFails(reader, streams) \/ FopenFails(reader, streams)) /\ UNCHANGED delivered
      <3>1. /\ IsOpen(reader') => IsOpen(reader)
            /\ reader'.lineNumber = reader.lineNumber
            /\ reader'.columnNumber = reader.columnNumber
        BY <1>1, <2>2, FailedSound
      <3>2. QED
        BY <1>1, <2>2, <3>1, PlacedSame
    <2>3. QED
      BY <1>5, <2>1, <2>2 DEF OpenStored
  <1>6. ASSUME NEW o, /\ o \in Available(reader) \/ o \in Refill(reader)
                      /\ IsOpen(reader) \/ reader.stateError
        PROVE /\ IsOpen(o.reader) = IsOpen(reader)
              /\ IsOpen(reader) => Placed(o.reader, delivered)
    <2>1. /\ o.reader.file = reader.file
          /\ o.reader.lineNumber = reader.lineNumber
          /\ o.reader.columnNumber = reader.columnNumber
      BY <1>1, <1>6, AvailableDetails, RefillDetails, AvailableSound, RefillSound
    <2>2. IsOpen(o.reader) = IsOpen(reader)
      BY <2>1 DEF IsOpen
    <2>3. QED
      BY <1>1, <2>1, <2>2, PlacedSame
  <1>7. CASE Read \/ Consume
    <2>1. PICK o \in Available(reader) :
            \/ reader' = o.reader /\ delivered' = delivered
            \/ /\ o.read # 0
               /\ reader' = Advanced(o.reader)
               /\ delivered' = Append(delivered, o.reader.buffer[o.reader.bufferPosition])
      BY <1>7 DEF Read, Consume
    <2>2. IsOpen(reader) \/ reader.stateError
      BY <1>7 DEF Read, Consume, Callable
    <2>3. CASE reader' = o.reader /\ delivered' = delivered
      BY <1>6, <2>2, <2>3
    <2>4. CASE o.read # 0 /\ reader' = Advanced(o.reader)
               /\ delivered' = Append(delivered, o.reader.buffer[o.reader.bufferPosition])
      <3>1. /\ o.reader \in Reader /\ Sound(o.reader)
            /\ o.reader.bufferPosition < o.reader.bufferLength
            /\ o.reader.buffer[o.reader.bufferPosition] \in Byte
        BY <1>1, <2>2, <2>4, AvailableSound
      <3>2. reader'.file = o.reader.file
        BY <2>4, <3>1, AdvancedSound
      <3>3. IsOpen(reader') = IsOpen(reader)
        BY <1>6, <2>2, <3>2 DEF IsOpen
      <3>4. ASSUME IsOpen(reader) PROVE Placed(reader', delivered')
        <4>1. Placed(o.reader, delivered)
          BY <1>6, <2>2, <3>4
        <4>2. QED
          BY <1>1, <2>4, <3>1, <4>1, AdvancedPlace, PlacedAppend
      <3>5. QED
        BY <3>3, <3>4
    <2>5. QED
      BY <2>1, <2>3, <2>4
  <1>8. CASE Peek
    <2>1. /\ \E o \in Available(reader) : reader' = o.reader
          /\ delivered' = delivered /\ (IsOpen(reader) \/ reader.stateError)
      BY <1>8 DEF Peek, Callable
    <2>2. QED
      BY <1>6, <2>1
  <1>9. ASSUME NEW n \in 0..SIZE, PeekN(n) PROVE IsOpen(reader') => Placed(reader', delivered')
    <2>1. /\ reader' = reader \/ \E o \in Refill(reader) : reader' = o.reader
          /\ delivered' = delivered /\ (IsOpen(reader) \/ reader.stateError)
      BY <1>9 DEF PeekN, Callable
    <2>2. QED
      BY <1>1, <1>6, <2>1
  <1>10. ASSUME NEW name \in Names0, New(name) PROVE ~IsOpen(reader')
    <2>1. (IF name = NoFile THEN NoFile ELSE Normalize[name]) \in Names0
      BY NamesAssumption DEF Names0
    <2>2. QED
      BY <1>10, <2>1, NewSound DEF New
  <1>11. CASE Destroy
    <2>1. NoFile \in Names0
      BY DEF Names0
    <2>2. ~IsOpen(reader')
      BY <1>11, <2>1, NewSound DEF Destroy
    <2>3. QED
      BY <2>2
  <1>12. CASE Close
    BY <1>1, <1>12, ClosedSound DEF Close
  <1>13. CASE UNCHANGED vars
    BY <1>1, <1>13 DEF vars, IsOpen
  <1>14. QED
    BY <1>4, <1>5, <1>7, <1>8, <1>9, <1>10, <1>11, <1>12, <1>13 DEF Next, Lifecycle, CharCall

\* The line and the column the reader reports are those of the cursor in the bytes taken
\* out, over every refill and reopening, for any buffer size and any file.
THEOREM PositionTrackedHolds == Spec => []PositionTracked
  <1>1. Init => PlaceInv
    <2>1. NoFile \in Names0
      BY DEF Names0
    <2>2. QED
      BY <2>1, NewSound DEF Init, PlaceInv
  <1>2. IInv /\ PlaceInv /\ [Next]_vars => PlaceInv'
    BY PlaceStep
  <1>3. IInv /\ PlaceInv => PositionTracked
    <2>1. SUFFICES ASSUME IInv, PlaceInv, IsOpen(reader)
                   PROVE  /\ reader.lineNumber = 1 + Cardinality(Ends(delivered))
                          /\ reader.columnNumber = 1 + Len(delivered)
                               - (CHOOSE i \in Ends(delivered) \cup {0} : \A j \in Ends(delivered) : j <= i)
      BY Zenon DEF PositionTracked, Ends
    <2>2. delivered \in Seq(Byte) /\ Placed(reader, delivered)
      BY <2>1 DEF IInv, TypeOK, PlaceInv
    <2>3. PICK last \in Ends(delivered) \cup {0} :
            /\ \A j \in Ends(delivered) : j <= last
            /\ reader.lineNumber = 1 + Cardinality(Ends(delivered))
            /\ reader.columnNumber = 1 + Len(delivered) - last
      BY <2>2 DEF Placed
    <2>4. Ends(delivered) \subseteq 1 .. Len(delivered) /\ Len(delivered) \in Nat
      BY <2>2, EndsFinite
    <2>5. (CHOOSE i \in Ends(delivered) \cup {0} : \A j \in Ends(delivered) : j <= i) = last
      BY <2>3, <2>4, LastEndIs
    <2>6. QED
      BY <2>3, <2>5
  <1>4. Spec => []PlaceInv
    BY <1>1, <1>2, IInvHolds, PTL DEF Spec
  <1>5. QED
    BY <1>3, <1>4, IInvHolds, PTL
(***************************************************************************)
(* What was shown in advance comes out                                     *)
(***************************************************************************)

\* The unread bytes of a struct, one by one.
LEMMA LiveIs ==
  ASSUME NEW r \in Reader, Sound(r)
  PROVE  /\ Live(r) \in Seq(Byte)
         /\ Len(Live(r)) = r.bufferLength - r.bufferPosition
         /\ \A i \in 1 .. r.bufferLength - r.bufferPosition :
              Live(r)[i] = r.buffer[r.bufferPosition + (i - 1)]
  <1> DEFINE all == [i \in 1 .. SIZE |-> r.buffer[i - 1]]
             m == r.bufferPosition + 1
             n == r.bufferLength
  <1>1. /\ r.bufferPosition \in 0..SIZE /\ r.bufferLength \in 0..SIZE
        /\ r.bufferPosition <= r.bufferLength /\ r.buffer \in [Index -> Byte]
    BY DEF Reader, Sound
  <1>2. m \in Int /\ n \in Int /\ SIZE \in Nat
    BY <1>1, SizeAssumption
  <1>3. \A i \in m .. n : i \in 1 .. SIZE /\ i - 1 \in Index
    BY <1>1, <1>2 DEF Index
  <1>4. \A i \in m .. n : all[i] = r.buffer[i - 1] /\ all[i] \in Byte
    BY <1>1, <1>3
  <1>5. Live(r) = SubSeq(all, m, n)
    BY DEF Live
  <1> HIDE DEF all
  <1>6. /\ SubSeq(all, m, n) \in Seq(Byte)
        /\ Len(SubSeq(all, m, n)) = IF m <= n THEN n - m + 1 ELSE 0
        /\ \A i \in 1 .. n - m + 1 : SubSeq(all, m, n)[i] = all[m + i - 1]
    BY <1>2, <1>4, SubSeqProperties
  <1>7. Len(Live(r)) = n - r.bufferPosition
    BY <1>1, <1>2, <1>5, <1>6
  <1>8. ASSUME NEW i \in 1 .. n - r.bufferPosition
        PROVE  Live(r)[i] = r.buffer[r.bufferPosition + (i - 1)]
    <2>1. /\ i \in 1 .. n - m + 1 /\ m + i - 1 \in m .. n
          /\ (m + i - 1) - 1 = r.bufferPosition + (i - 1)
      BY <1>1, <1>2
    <2>2. Live(r)[i] = all[m + i - 1] /\ all[m + i - 1] = r.buffer[(m + i - 1) - 1]
      BY <1>4, <1>5, <1>6, <2>1
    <2>3. QED
      BY <2>1, <2>2
  <1>9. QED
    BY <1>5, <1>6, <1>7, <1>8

\* A prefix is one byte by byte.
LEMMA PrefixByBytes ==
  ASSUME NEW s \in Seq(Byte), NEW t \in Seq(Byte), Len(s) <= Len(t),
         \A i \in 1 .. Len(s) : s[i] = t[i]
  PROVE  IsPrefixOf(s, t)
  <1>1. Len(s) \in Nat /\ Len(t) \in Nat /\ \A i \in 1 .. Len(s) : t[i] \in Byte
    OBVIOUS
  <1>2. /\ SubSeq(t, 1, Len(s)) \in Seq(Byte) /\ Len(SubSeq(t, 1, Len(s))) = Len(s)
        /\ \A i \in 1 .. Len(s) : SubSeq(t, 1, Len(s))[i] = t[i]
    BY <1>1, SubSeqProperties
  <1>3. s = SubSeq(t, 1, Len(s))
    BY <1>2, SeqEqual
  <1>4. QED
    BY <1>3 DEF IsPrefixOf

\* A refill keeps the unread bytes in front of what it adds, also when it moves bytes that
\* are not valid along with them.
LEMMA RefillKeepsLive ==
  ASSUME NEW r \in Reader, Sound(r), IsOpen(r) \/ r.stateError, NEW o \in Refill(r)
  PROVE  IsPrefixOf(Live(r), Live(o.reader))
  <1>1. /\ r.bufferPosition \in 0..SIZE /\ r.bufferLength \in 0..SIZE
        /\ r.bufferPosition <= r.bufferLength /\ SIZE \in Nat
    BY SizeAssumption DEF Reader, Sound
  <1>2. CASE r.stateEOF \/ r.stateError
    <2>1. o.reader = r
      BY <1>2, RefillDetails
    <2>2. QED
      BY <1>1, <2>1, LiveIs, PrefixByBytes
  <1>3. CASE ~(r.stateEOF \/ r.stateError)
    <2> DEFINE keep == Remaining(r)
               unread == r.bufferLength - r.bufferPosition
    <2>1. PICK f \in Fread(r, SIZE - keep) : o.reader = Refilled(r, keep, f)
      BY <1>3 DEF Refill
    <2>2. /\ o.reader \in Reader /\ Sound(o.reader)
          /\ o.reader.bufferPosition = 0 /\ o.reader.bufferLength = keep + f.got
          /\ o.reader.buffer = Shifted(r, keep, f.got) /\ f.got \in 0..SIZE
      BY <1>3, <2>1, RefilledSound
    <2>3. keep \in Nat /\ unread <= keep /\ unread \in 0..SIZE
      BY <1>1 DEF Remaining
    <2>4. o.reader.bufferLength \in 0..SIZE
      BY <2>2 DEF Reader
    <2> HIDE DEF keep
    <2>5. Len(Live(r)) = unread /\ Len(Live(o.reader)) = keep + f.got
      BY <1>1, <2>2, <2>3, LiveIs
    <2>6. ASSUME NEW i \in 1 .. unread PROVE Live(r)[i] = Live(o.reader)[i]
      <3>1. i - 1 \in Index /\ i - 1 < keep /\ i \in 1 .. keep + f.got
        BY <1>1, <2>2, <2>3 DEF Index
      <3>2. Live(o.reader)[i] = o.reader.buffer[i - 1]
        BY <2>2, <2>3, <3>1, LiveIs
      <3>3. o.reader.buffer[i - 1] = r.buffer[r.bufferPosition + (i - 1)]
        BY <2>2, <3>1 DEF Shifted
      <3>4. QED
        BY <3>2, <3>3, LiveIs
    <2>7. Len(Live(r)) <= Len(Live(o.reader))
      BY <2>2, <2>3, <2>5
    <2>8. QED
      BY <2>2, <2>5, <2>6, <2>7, LiveIs, PrefixByBytes
  <1>4. QED
    BY <1>2, <1>3

\* Reading takes the first unread byte and leaves the others where they were.
LEMMA ReadTakesFirst ==
  ASSUME NEW r \in Reader, Sound(r), r.bufferPosition < r.bufferLength
  PROVE  /\ r.buffer[r.bufferPosition] = Head(Live(r))
         /\ IsPrefixOf(Tail(Live(r)), Live(Advanced(r)))
  <1> DEFINE unread == r.bufferLength - r.bufferPosition
  <1>1. /\ r.bufferPosition \in 0..SIZE /\ r.bufferLength \in 0..SIZE
        /\ unread \in Nat /\ unread > 0 /\ SIZE \in Nat
    BY SizeAssumption DEF Reader
  <1>2. /\ Live(r) \in Seq(Byte) /\ Len(Live(r)) = unread
        /\ \A i \in 1 .. unread : Live(r)[i] = r.buffer[r.bufferPosition + (i - 1)]
    BY LiveIs
  <1>3. /\ Advanced(r) \in Reader /\ Sound(Advanced(r))
        /\ Advanced(r).buffer = r.buffer /\ Advanced(r).bufferLength = r.bufferLength
        /\ Advanced(r).bufferPosition = r.bufferPosition + 1
    BY AdvancedSound
  <1>4. /\ Live(Advanced(r)) \in Seq(Byte) /\ Len(Live(Advanced(r))) = unread - 1
        /\ \A i \in 1 .. unread - 1 :
             Live(Advanced(r))[i] = r.buffer[(r.bufferPosition + 1) + (i - 1)]
    <2>1. r.bufferLength - (r.bufferPosition + 1) = unread - 1
      BY <1>1
    <2>2. QED
      BY <1>3, <2>1, LiveIs
  <1>5. Live(r) # <<>>
    BY <1>1, <1>2
  <1>6. Head(Live(r)) = r.buffer[r.bufferPosition]
    <2>1. Head(Live(r)) = Live(r)[1] /\ 1 \in 1 .. unread
      BY <1>1, <1>2, <1>5
    <2>2. r.bufferPosition + (1 - 1) = r.bufferPosition
      BY <1>1
    <2>3. QED
      BY <1>2, <2>1, <2>2
  <1>7. /\ Tail(Live(r)) \in Seq(Byte) /\ Len(Tail(Live(r))) = unread - 1
        /\ \A i \in 1 .. unread - 1 : Tail(Live(r))[i] = Live(r)[i + 1]
    BY <1>2, <1>5, HeadTailProperties
  <1>8. ASSUME NEW i \in 1 .. unread - 1 PROVE Tail(Live(r))[i] = Live(Advanced(r))[i]
    <2>1. /\ i + 1 \in 1 .. unread
          /\ r.bufferPosition + ((i + 1) - 1) = (r.bufferPosition + 1) + (i - 1)
      BY <1>1
    <2>2. QED
      BY <1>2, <1>4, <1>7, <2>1
  <1>9. Len(Tail(Live(r))) <= Len(Live(Advanced(r)))
    BY <1>1, <1>4, <1>7
  <1>10. QED
    BY <1>4, <1>6, <1>7, <1>8, <1>9, PrefixByBytes

\* One character call keeps the bytes it has not taken.
LEMMA LookStep ==
  ASSUME IInv, CharCall
  PROVE  IF call'.op = "read" /\ Live(reader) # <<>>
         THEN /\ IsPrefixOf(Tail(Live(reader)), Live(reader'))
              /\ call'.ret = Head(Live(reader))
         ELSE call'.op \in {"peek", "peek_n"} => IsPrefixOf(Live(reader), Live(reader'))
  <1>1. reader \in Reader /\ Sound(reader)
    BY DEF IInv, TypeOK, Bounds
  <1>2. CASE Read \/ Consume
    <2>1. call'.op = "read" /\ (IsOpen(reader) \/ reader.stateError)
      BY <1>2 DEF Read, Consume, Returns, Callable
    <2>2. ASSUME Live(reader) # <<>>
          PROVE  /\ IsPrefixOf(Tail(Live(reader)), Live(reader'))
                 /\ call'.ret = Head(Live(reader))
      <3>1. reader.bufferPosition < reader.bufferLength
        <4>1. /\ reader.bufferPosition \in 0..SIZE /\ reader.bufferLength \in 0..SIZE
              /\ reader.bufferPosition <= reader.bufferLength
          BY <1>1 DEF Reader, Sound
        <4>2. Live(reader) \in Seq(Byte) /\ Len(Live(reader)) = reader.bufferLength - reader.bufferPosition
          BY <1>1, LiveIs
        <4>3. Len(Live(reader)) # 0
          BY <2>2, <4>2
        <4>4. QED
          BY <4>1, <4>2, <4>3, SizeAssumption
      <3>2. \A o \in Available(reader) : o.reader = reader /\ o.read = 1
        BY <1>1, <2>1, <3>1, AvailableDetails
      <3>3. /\ reader' = Advanced(reader)
            /\ call'.ret = reader.buffer[reader.bufferPosition]
        BY <1>2, <3>2 DEF Read, Consume, Returns
      <3>4. QED
        BY <1>1, <3>1, <3>3, ReadTakesFirst
    <2>3. QED
      BY <2>1, <2>2
  <1>3. ASSUME reader' = reader PROVE IsPrefixOf(Live(reader), Live(reader'))
    <2>1. Live(reader) \in Seq(Byte) /\ Len(Live(reader)) <= Len(Live(reader))
      BY <1>1, LiveIs
    <2>2. QED
      BY <1>3, <2>1, PrefixByBytes
  <1>4. CASE Peek
    <2>1. call'.op = "peek" /\ (IsOpen(reader) \/ reader.stateError)
      BY <1>4 DEF Peek, Returns, Callable
    <2>2. PICK o \in Available(reader) : reader' = o.reader
      BY <1>4 DEF Peek
    <2>3. o.reader = reader \/ o \in Refill(reader)
      BY <1>1, <2>1 DEF Available
    <2>4. IsPrefixOf(Live(reader), Live(reader'))
      BY <1>1, <1>3, <2>1, <2>2, <2>3, RefillKeepsLive
    <2>5. QED
      BY <2>1, <2>4
  <1>5. ASSUME NEW n \in 0..SIZE, PeekN(n)
        PROVE  call'.op = "peek_n" /\ IsPrefixOf(Live(reader), Live(reader'))
    <2>1. /\ call'.op = "peek_n" /\ (IsOpen(reader) \/ reader.stateError)
          /\ reader' = reader \/ \E o \in Refill(reader) : reader' = o.reader
      BY <1>5 DEF PeekN, Returns, Callable
    <2>2. QED
      BY <1>1, <1>3, <2>1, RefillKeepsLive
  <1>6. QED
    BY <1>2, <1>4, <1>5 DEF CharCall

\* Whatever a peek has shown comes out of the reads in that order, whatever refills come
\* between, for any buffer size and any file.
THEOREM LookaheadKeptHolds == Spec => LookaheadKept
  <1>1. IInv /\ [Next]_vars =>
          [CharCall =>
             IF call'.op = "read" /\ Live(reader) # <<>>
             THEN /\ IsPrefixOf(Tail(Live(reader)), Live(reader'))
                  /\ call'.ret = Head(Live(reader))
             ELSE call'.op \in {"peek", "peek_n"} => IsPrefixOf(Live(reader), Live(reader'))]_vars
    BY LookStep
  <1>2. QED
    BY <1>1, IInvHolds, PTL DEF Spec, LookaheadKept

(***************************************************************************)
(* A plain cursor over the text                                            *)
(*                                                                         *)
(* The refinement is of a reader no read of which fails half way: in       *)
(* CharStream there is no such failure, and with one the code's error flag *)
(* would rise under a peek.  The rest of the discipline is in CleanSpec.   *)
(***************************************************************************)

\* What a clean stream adds to IInv: no byte is owed to a stream that is not open, and an
\* error leaves no byte to show.
StreamInv ==
  /\ IInv
  /\ clean
  /\ ~IsOpen(reader) => delivered = <<>>
  /\ reader.stateError => reader.bufferLength = 0

\* The byte n places after the cursor of struct r, when d was taken out: CharStream's CharAt.
CharOf(r, d, n) ==
  IF r.stateError \/ n >= SIZE \/ Len(d) + n >= Len(Content[r.file]) THEN None
  ELSE Content[r.file][Len(d) + n + 1]

\* A read that does not fail half way comes back short only at the end of the file.
LEMMA WholeFread ==
  ASSUME NEW r \in Reader, r.file \notin Failing, Sound(r), IsOpen(r),
         NEW room \in 0..SIZE, NEW f \in Fread(r, room), f.got < room
  PROVE  f.feof /\ r.offset + f.got = Len(Content[r.file])
  <1> DEFINE left == IF r.feof THEN 0 ELSE Len(Content[r.file]) - r.offset
             most == IF left < room THEN left ELSE room
  <1>1. f = [got |-> most, feof |-> r.feof \/ most < room]
    BY DEF Fread
  <1>2. f.got = most /\ f.feof = (r.feof \/ most < room)
    BY <1>1
  <1> HIDE DEF most
  <1>3. f.feof
    BY <1>2
  <1>4. QED
    BY <1>3, FreadResult

\* A refill of an open stream whose reads do not fail: it raises no error, and whatever is
\* missing from the buffer is missing from the file.
LEMMA WholeRefill ==
  ASSUME NEW r \in Reader, r.file \notin Failing, Sound(r), IsOpen(r), ~r.stateEOF, ~r.stateError,
         ~ShortLive(r), NEW o \in Refill(r)
  PROVE  /\ ~o.reader.stateError
         /\ o.reader.bufferPosition = 0
         /\ o.reader.bufferLength = (r.bufferLength - r.bufferPosition) + o.read
         /\ o.reader.bufferLength < SIZE => o.reader.offset = Len(Content[r.file])
         /\ o.read \in 0 .. SIZE
  <1> DEFINE keep == Remaining(r)
  <1>1. PICK f \in Fread(r, SIZE - keep) :
          o = [reader |-> Refilled(r, keep, f), read |-> f.got]
    BY DEF Refill
  <1>2. /\ o.reader = Refilled(r, keep, f) /\ o.read = f.got
    BY <1>1
  <1>3. /\ o.reader.bufferPosition = 0 /\ o.reader.bufferLength = keep + f.got
        /\ o.reader.offset = r.offset + f.got /\ f.got \in 0..SIZE
    BY <1>2, RefilledSound
  <1>4. /\ keep \in 0..SIZE /\ SIZE - keep \in 0..SIZE
    BY RemainingFits
  <1>5. keep = r.bufferLength - r.bufferPosition
    <2>1. r.bufferPosition = r.bufferLength \/ r.bufferLength = SIZE
      BY SizeAssumption DEF ShortLive, Sound, Reader
    <2>2. QED
      BY <2>1, SizeAssumption DEF Remaining, Reader
  <1>6. o.reader.stateError = (keep + f.got = 0 /\ ~f.feof)
    BY <1>2 DEF Refilled, Reader
  <1> HIDE DEF keep
  <1>7. f.got < SIZE - keep => f.feof /\ r.offset + f.got = Len(Content[r.file])
    BY <1>1, <1>4, WholeFread
  <1>8. ~o.reader.stateError
    <2>1. keep + f.got = 0 => f.got < SIZE - keep
      BY <1>3, <1>4, SizeAssumption
    <2>2. keep + f.got = 0 => f.feof
      BY <1>7, <2>1
    <2>3. QED
      BY <1>6, <2>2, Zenon
  <1>9. o.reader.bufferLength < SIZE => o.reader.offset = Len(Content[r.file])
    BY <1>3, <1>4, <1>7, SizeAssumption
  <1>10. QED
    BY <1>2, <1>3, <1>5, <1>8, <1>9

\* The bytes in the buffer are those the cursor sees next.
LEMMA CharSeen ==
  ASSUME NEW r \in Reader, Sound(r), IsOpen(r), ~r.stateError,
         NEW d \in Seq(Byte), Window(r), Taken(r, d),
         NEW n \in Nat, n < SIZE, r.bufferPosition + n < r.bufferLength
  PROVE  /\ CharOf(r, d, n) = r.buffer[r.bufferPosition + n]
         /\ CharOf(r, d, n) \in Byte
  <1>1. /\ r.bufferPosition \in 0..SIZE /\ r.bufferLength \in 0..SIZE /\ r.offset \in Nat
        /\ SIZE \in Nat /\ Len(d) \in Nat /\ r.buffer \in [Index -> Byte]
        /\ r.offset = Len(d) + (r.bufferLength - r.bufferPosition)
        /\ r.offset <= Len(Content[r.file])
    BY SizeAssumption DEF Reader, Sound, Taken
  <1>2. Len(Content[r.file]) \in Nat
    <2>1. Content[r.file] \in Seq(Byte)
      BY NamesAssumption DEF Reader, IsOpen, Names0
    <2>2. QED
      BY <2>1
  <1>3. /\ r.bufferPosition + n \in r.bufferPosition .. r.bufferLength - 1
        /\ r.bufferPosition + n \in Index
        /\ r.offset - r.bufferLength + (r.bufferPosition + n) + 1 = Len(d) + n + 1
        /\ ~(Len(d) + n >= Len(Content[r.file])) /\ ~(n >= SIZE)
    <2>1. /\ r.bufferPosition + n \in r.bufferPosition .. r.bufferLength - 1
          /\ r.bufferPosition + n \in Index
      BY <1>1 DEF Index
    <2>2. r.offset - r.bufferLength + (r.bufferPosition + n) + 1 = Len(d) + n + 1
      BY <1>1
    <2>3. Len(d) + n < r.offset
      BY <1>1
    <2>4. ~(Len(d) + n >= Len(Content[r.file]))
      BY <1>1, <1>2, <2>3
    <2>5. ~(n >= SIZE)
      BY <1>1
    <2>6. QED
      BY <2>1, <2>2, <2>4, <2>5
  <1>4. r.buffer[r.bufferPosition + n] = Content[r.file][Len(d) + n + 1]
    BY <1>3 DEF Window
  <1>5. r.buffer[r.bufferPosition + n] \in Byte
    BY <1>1, <1>3
  <1>6. CharOf(r, d, n) = Content[r.file][Len(d) + n + 1]
    BY <1>3 DEF CharOf
  <1>7. QED
    BY <1>4, <1>5, <1>6

\* And past a buffer that reaches the end of the file there is none.
LEMMA NothingSeen ==
  ASSUME NEW r \in Reader, Sound(r), IsOpen(r), NEW d \in Seq(Byte), Taken(r, d),
         NEW n \in Nat, r.bufferPosition + n >= r.bufferLength,
         r.stateError \/ n >= SIZE \/ r.offset = Len(Content[r.file])
  PROVE  CharOf(r, d, n) = None
  <1>1. /\ r.bufferPosition \in 0..SIZE /\ r.bufferLength \in 0..SIZE /\ r.offset \in Nat
        /\ SIZE \in Nat /\ Len(d) \in Nat
        /\ r.offset = Len(d) + (r.bufferLength - r.bufferPosition)
    BY SizeAssumption DEF Reader, Taken
  <1>2. r.offset = Len(Content[r.file]) => Len(d) + n >= Len(Content[r.file])
    BY <1>1
  <1>3. QED
    BY <1>2 DEF CharOf

\* A lookahead that has to refill shows what the cursor sees, and raises no error.
LEMMA Answered ==
  ASSUME NEW r \in Reader, r.file \notin Failing, Sound(r), IsOpen(r), ~ShortLive(r),
         r.stateEOF => r.feof, r.stateError => r.bufferLength = 0,
         NEW d \in Seq(Byte), Window(r), Taken(r, d),
         NEW n \in Nat, n < SIZE, r.bufferPosition + n >= r.bufferLength, NEW o \in Refill(r)
  PROVE  /\ o.reader.stateError = r.stateError
         /\ o.reader.stateError => o.reader.bufferLength = 0
         /\ (o.read = 0 \/ n >= o.reader.bufferLength) => CharOf(r, d, n) = None
         /\ ~(o.read = 0 \/ n >= o.reader.bufferLength) =>
              /\ CharOf(r, d, n) = o.reader.buffer[o.reader.bufferPosition + n]
              /\ CharOf(r, d, n) \in Byte
  <1>1. /\ r.bufferPosition \in 0..SIZE /\ r.bufferLength \in 0..SIZE /\ SIZE \in Nat
        /\ r.bufferPosition <= r.bufferLength
    BY SizeAssumption DEF Reader, Sound
  <1>2. CASE r.stateEOF \/ r.stateError
    <2>1. o.reader = r /\ o.read = 0
      BY <1>2, RefillDetails
    <2>2. r.stateError \/ r.offset = Len(Content[r.file])
      BY <1>2 DEF Sound
    <2>3. CharOf(r, d, n) = None
      BY <2>2, NothingSeen
    <2>4. QED
      BY <2>1, <2>3
  <1>3. CASE ~r.stateEOF /\ ~r.stateError
    <2>1. /\ ~o.reader.stateError
          /\ o.reader.bufferPosition = 0
          /\ o.reader.bufferLength = (r.bufferLength - r.bufferPosition) + o.read
          /\ o.reader.bufferLength < SIZE => o.reader.offset = Len(Content[r.file])
          /\ o.read \in 0 .. SIZE
      BY <1>3, WholeRefill
    <2>2. /\ o.reader \in Reader /\ Sound(o.reader) /\ o.reader.file = r.file
          /\ Window(o.reader) /\ Taken(o.reader, d)
      BY RefillSound, RefillFaithful
    <2>3. IsOpen(o.reader) /\ CharOf(o.reader, d, n) = CharOf(r, d, n)
      BY <1>3, <2>1, <2>2 DEF IsOpen, CharOf
    <2>4. o.reader.bufferLength \in 0..SIZE
      BY <2>2 DEF Reader
    <2>5. ASSUME o.read = 0 \/ n >= o.reader.bufferLength PROVE CharOf(r, d, n) = None
      <3>1. n >= o.reader.bufferLength /\ o.reader.bufferLength < SIZE
        BY <1>1, <2>1, <2>4, <2>5
      <3>2. o.reader.bufferPosition + n >= o.reader.bufferLength
        BY <2>1, <3>1
      <3>3. CharOf(o.reader, d, n) = None
        BY <2>1, <2>2, <2>3, <3>1, <3>2, NothingSeen
      <3>4. QED
        BY <2>3, <3>3
    <2>6. ASSUME ~(o.read = 0 \/ n >= o.reader.bufferLength)
          PROVE  /\ CharOf(r, d, n) = o.reader.buffer[o.reader.bufferPosition + n]
                 /\ CharOf(r, d, n) \in Byte
      <3>1. o.reader.bufferPosition + n < o.reader.bufferLength
        BY <2>1, <2>4, <2>6
      <3>2. QED
        BY <2>1, <2>2, <2>3, <3>1, CharSeen
    <2>7. o.reader.stateError = r.stateError
      BY <1>3, <2>1, <2>2 DEF Reader
    <2>8. QED
      BY <2>1, <2>5, <2>6, <2>7, Zenon
  <1>4. QED
    BY <1>2, <1>3

\* What the invariant says of the struct.
LEMMA StreamFacts ==
  ASSUME StreamInv
  PROVE  /\ reader \in Reader /\ Sound(reader) /\ Drained(reader) /\ delivered \in Seq(Byte)
         /\ IsOpen(reader) => Window(reader) /\ Taken(reader, delivered)
         /\ reader.stateEOF => reader.feof
         /\ ~IsOpen(reader) => delivered = <<>>
         /\ reader.stateError => reader.bufferLength = 0
         /\ reader.bufferPosition \in 0..SIZE /\ reader.bufferLength \in 0..SIZE
         /\ reader.bufferPosition <= reader.bufferLength /\ SIZE \in Nat \ {0}
  BY SizeAssumption DEF StreamInv, IInv, TypeOK, Bounds, Faithful, EndFlag, Sound, Reader

\* The abstract cursor sees what the struct's cursor sees.
LEMMA CharAtIs ==
  ASSUME NEW n \in Nat
  PROVE  /\ IsOpen(reader) => Stream!CharAt(n) = CharOf(reader, delivered, n)
         /\ reader.stateError \/ n >= SIZE => Stream!CharAt(n) = None
  <1>1. Stream!CharAt(n) =
          IF reader.stateError \/ n >= SIZE
             \/ Len(delivered) + n >= Len(IF IsOpen(reader) THEN Content[reader.file] ELSE <<>>)
          THEN None
          ELSE (IF IsOpen(reader) THEN Content[reader.file] ELSE <<>>)[Len(delivered) + n + 1]
    BY Zenon DEF Stream!CharAt, Stream!None, None
  <1>2. QED
    BY <1>1, Zenon DEF CharOf

\* A reader that may be called without a stream answers nothing and stays as it is.
LEMMA FailedAnswers ==
  ASSUME StreamInv, Callable, ~IsOpen(reader)
  PROVE  /\ reader.stateError
         /\ Available(reader) = Refill(reader)
         /\ \A o \in Refill(reader) : o.reader = reader /\ o.read = 0
  <1>1. reader.stateError
    BY DEF Callable
  <1>2. \A o \in Refill(reader) : o.reader = reader /\ o.read = 0
    BY <1>1 DEF Refill
  <1>3. reader.bufferPosition >= reader.bufferLength
    BY <1>1, StreamFacts
  <1>4. QED
    BY <1>1, <1>2, <1>3 DEF Available

\* What buf_reader_read and buf_reader_peek find at the cursor is what CharStream shows.
LEMMA FirstShown ==
  ASSUME Failing = {}, StreamInv, Callable, NEW o \in Available(reader)
  PROVE  /\ o.reader \in Reader /\ Sound(o.reader) /\ o.reader.file = reader.file
         /\ o.reader.stateError = reader.stateError
         /\ o.reader.stateError => o.reader.bufferLength = 0
         /\ o.read = 0 => Stream!CharAt(0) = None
         /\ o.read # 0 => /\ Stream!CharAt(0) = o.reader.buffer[o.reader.bufferPosition]
                          /\ Stream!CharAt(0) \in Byte
                          /\ o.reader.bufferPosition < o.reader.bufferLength
                          /\ IsOpen(reader) /\ ~o.reader.stateError
  <1>1. IsOpen(reader) \/ reader.stateError
    BY DEF Callable
  <1>2. /\ o.reader \in Reader /\ Sound(o.reader) /\ o.reader.file = reader.file
        /\ o.read # 0 => o.reader.bufferPosition < o.reader.bufferLength
    BY <1>1, StreamFacts, AvailableSound
  <1>3. CASE ~IsOpen(reader)
    <2>1. reader.stateError /\ o.reader = reader /\ o.read = 0
      BY <1>3, FailedAnswers
    <2>2. Stream!CharAt(0) = None
      BY <2>1, CharAtIs
    <2>3. QED
      BY <1>2, <2>1, <2>2, StreamFacts
  <1>4. CASE IsOpen(reader) /\ reader.bufferPosition < reader.bufferLength
    <2>1. o.reader = reader /\ o.read = 1
      BY <1>1, <1>4, StreamFacts, AvailableDetails
    <2>2. ~reader.stateError
      BY <1>4, StreamFacts
    <2>3. reader.bufferPosition + 0 = reader.bufferPosition /\ 0 < SIZE
      BY StreamFacts
    <2>4. /\ CharOf(reader, delivered, 0) = reader.buffer[reader.bufferPosition]
          /\ CharOf(reader, delivered, 0) \in Byte
      BY <1>4, <2>2, <2>3, StreamFacts, CharSeen
    <2>5. Stream!CharAt(0) = CharOf(reader, delivered, 0)
      BY <1>4, CharAtIs
    <2>6. QED
      BY <1>2, <1>4, <2>1, <2>2, <2>4, <2>5
  <1>5. CASE IsOpen(reader) /\ ~(reader.bufferPosition < reader.bufferLength)
    <2>1. reader.bufferPosition >= reader.bufferLength /\ 0 < SIZE
          /\ reader.bufferPosition + 0 >= reader.bufferLength
      BY <1>5, StreamFacts
    <2>2. o \in Refill(reader)
      BY <1>1, <2>1, StreamFacts, AvailableDetails
    <2>3. ~ShortLive(reader)
      BY <1>5 DEF ShortLive
    <2>4. /\ o.reader.stateError = reader.stateError
          /\ o.reader.stateError => o.reader.bufferLength = 0
          /\ (o.read = 0 \/ 0 >= o.reader.bufferLength) => CharOf(reader, delivered, 0) = None
          /\ ~(o.read = 0 \/ 0 >= o.reader.bufferLength) =>
               /\ CharOf(reader, delivered, 0) = o.reader.buffer[o.reader.bufferPosition + 0]
               /\ CharOf(reader, delivered, 0) \in Byte
      BY <1>5, <2>1, <2>2, <2>3, StreamFacts, Answered
    <2>5. Stream!CharAt(0) = CharOf(reader, delivered, 0)
      BY <1>5, CharAtIs
    <2>6. ASSUME o.read # 0
          PROVE  /\ ~(o.read = 0 \/ 0 >= o.reader.bufferLength)
                 /\ o.reader.bufferPosition + 0 = o.reader.bufferPosition
                 /\ o.reader.bufferLength # 0
      <3>1. o.reader.bufferPosition \in 0..SIZE /\ o.reader.bufferLength \in 0..SIZE
        BY <1>2 DEF Reader
      <3>2. QED
        BY <1>2, <2>6, <3>1, SizeAssumption
    <2>7. o.read = 0 => Stream!CharAt(0) = None
      BY <2>4, <2>5
    <2>8. o.read # 0 => /\ Stream!CharAt(0) = o.reader.buffer[o.reader.bufferPosition]
                        /\ Stream!CharAt(0) \in Byte
                        /\ ~o.reader.stateError
      BY <2>4, <2>5, <2>6
    <2>9. QED
      BY <1>2, <1>5, <2>4, <2>7, <2>8
  <1>6. QED
    BY <1>3, <1>4, <1>5

\* The parts of the invariant that a step must restore besides IInv.
Settled(r, d) ==
  /\ ~IsOpen(r) => d = <<>>
  /\ r.stateError => r.bufferLength = 0

\* buf_reader_read is a step of the cursor, or no step at the end of the text.
LEMMA ReadImplements ==
  ASSUME Failing = {}, StreamInv, Read
  PROVE  Stream!Read /\ Settled(reader', delivered')
  <1>1. Callable
    BY DEF Read
  <1>2. PICK o \in Available(reader) :
          IF o.read = 0
          THEN /\ reader' = o.reader
               /\ delivered' = delivered
               /\ Returns("read", 0, None)
          ELSE /\ reader' = Advanced(o.reader)
               /\ delivered' = Append(delivered, o.reader.buffer[o.reader.bufferPosition])
               /\ Returns("read", 0, o.reader.buffer[o.reader.bufferPosition])
    BY DEF Read
  <1>3. /\ o.reader \in Reader /\ Sound(o.reader) /\ o.reader.file = reader.file
        /\ o.reader.stateError = reader.stateError
        /\ o.reader.stateError => o.reader.bufferLength = 0
        /\ o.read = 0 => Stream!CharAt(0) = None
        /\ o.read # 0 => /\ Stream!CharAt(0) = o.reader.buffer[o.reader.bufferPosition]
                         /\ Stream!CharAt(0) \in Byte
                         /\ o.reader.bufferPosition < o.reader.bufferLength
                         /\ IsOpen(reader) /\ ~o.reader.stateError
    BY <1>1, <1>2, FirstShown
  <1>4. /\ delivered \in Seq(Byte)
        /\ ~IsOpen(reader) => delivered = <<>>
    BY StreamFacts
  <1>5. None \notin Byte
    BY DEF None, Byte
  <1>6. /\ reader'.file = reader.file /\ reader'.stateError = reader.stateError
        /\ reader'.stateError => reader'.bufferLength = 0
        /\ Returns("read", 0, Stream!CharAt(0))
        /\ Len(delivered') = IF Stream!CharAt(0) = None THEN Len(delivered) ELSE Len(delivered) + 1
        /\ ~IsOpen(reader) => delivered' = <<>>
    <2>1. CASE o.read = 0
      BY <1>2, <1>3, <1>4, <2>1
    <2>2. CASE o.read # 0
      <3>1. /\ Advanced(o.reader).file = reader.file
            /\ Advanced(o.reader).stateError = reader.stateError /\ ~reader.stateError
        BY <1>3, <2>2, AdvancedSound, AdvancedPlace
      <3>2. Stream!CharAt(0) # None
        BY <1>3, <1>5, <2>2
      <3>3. Len(delivered') = Len(delivered) + 1
        BY <1>2, <1>3, <1>4, <2>2
      <3>4. QED
        BY <1>2, <1>3, <2>2, <3>1, <3>2, <3>3
    <2>3. QED
      BY <2>1, <2>2
  <1>7. IsOpen(reader') = IsOpen(reader)
    BY <1>6 DEF IsOpen
  <1>8. IsOpen(reader) \/ reader.stateError
    BY <1>1 DEF Callable
  <1>9. Stream!Read
    <2>1. Stream!Returns("read", 0, Stream!CharAt(0))
      BY <1>6 DEF Returns, Stream!Returns
    <2>2. /\ (IF IsOpen(reader) THEN Content[reader.file] ELSE <<>>)'
               = (IF IsOpen(reader) THEN Content[reader.file] ELSE <<>>)
          /\ IsOpen(reader)' = IsOpen(reader) /\ (reader.stateError)' = reader.stateError
      BY <1>6, <1>7
    <2>3. Len(delivered)' = IF Stream!CharAt(0) = Stream!None THEN Len(delivered) ELSE Len(delivered) + 1
      BY <1>6 DEF Stream!None, None
    <2>4. QED
      BY <1>8, <2>1, <2>2, <2>3, Zenon DEF Stream!Read
  <1>10. QED
    BY <1>6, <1>7, <1>9 DEF Settled

\* buf_reader_peek shows the character at the cursor and moves nothing the caller can see.
LEMMA PeekImplements ==
  ASSUME Failing = {}, StreamInv, Peek
  PROVE  Stream!Peek /\ Settled(reader', delivered')
  <1>1. Callable /\ delivered' = delivered
    BY DEF Peek
  <1>2. PICK o \in Available(reader) :
          /\ reader' = o.reader
          /\ Returns("peek", 0, IF o.read = 0 THEN None ELSE o.reader.buffer[o.reader.bufferPosition])
    BY DEF Peek
  <1>3. /\ reader'.file = reader.file /\ reader'.stateError = reader.stateError
        /\ reader'.stateError => reader'.bufferLength = 0
        /\ Returns("peek", 0, Stream!CharAt(0))
    BY <1>1, <1>2, FirstShown
  <1>4. IsOpen(reader') = IsOpen(reader) /\ (IsOpen(reader) \/ reader.stateError)
    BY <1>1, <1>3 DEF IsOpen, Callable
  <1>5. Stream!Peek
    <2>1. Stream!Returns("peek", 0, Stream!CharAt(0))
      BY <1>3 DEF Returns, Stream!Returns
    <2>2. /\ (IF IsOpen(reader) THEN Content[reader.file] ELSE <<>>)'
               = (IF IsOpen(reader) THEN Content[reader.file] ELSE <<>>)
          /\ IsOpen(reader)' = IsOpen(reader) /\ (reader.stateError)' = reader.stateError
          /\ Len(delivered)' = Len(delivered)
      BY <1>1, <1>3, <1>4
    <2>3. QED
      BY <1>4, <2>1, <2>2, Zenon DEF Stream!Peek
  <1>6. QED
    BY <1>1, <1>3, <1>4, <1>5, StreamFacts DEF Settled

\* So does buf_reader_peek_n with the n-th, when it does not refill a short buffer.
LEMMA PeekNImplements ==
  ASSUME Failing = {}, StreamInv, NEW n \in 0..SIZE, PeekN(n), clean'
  PROVE  Stream!PeekN /\ Settled(reader', delivered')
  <1>1. Callable /\ delivered' = delivered /\ n \in Nat
    BY DEF PeekN
  <1>2. IsOpen(reader) \/ reader.stateError
    BY <1>1 DEF Callable
  <1>3. /\ reader'.file = reader.file /\ reader'.stateError = reader.stateError
        /\ reader'.stateError => reader'.bufferLength = 0
        /\ Returns("peek_n", n, Stream!CharAt(n))
    <2>1. CASE /\ SIZE <= n \/ reader.bufferPosition + n < reader.bufferLength
               /\ Returns("peek_n", n, IF SIZE <= n THEN None
                                       ELSE reader.buffer[reader.bufferPosition + n])
               /\ reader' = reader
      <3>1. CASE SIZE <= n
        <4>1. n >= SIZE
          BY <1>1, <3>1, StreamFacts
        <4>2. Stream!CharAt(n) = None
          BY <1>1, <4>1, CharAtIs
        <4>3. QED
          BY <2>1, <3>1, <4>2, StreamFacts
      <3>2. CASE ~(SIZE <= n)
        <4>1. n < SIZE /\ reader.bufferPosition + n < reader.bufferLength /\ reader.bufferLength # 0
          BY <1>1, <2>1, <3>2, StreamFacts
        <4>2. ~reader.stateError /\ IsOpen(reader)
          BY <1>2, <4>1, StreamFacts
        <4>3. CharOf(reader, delivered, n) = reader.buffer[reader.bufferPosition + n]
          BY <1>1, <4>1, <4>2, StreamFacts, CharSeen
        <4>4. Stream!CharAt(n) = reader.buffer[reader.bufferPosition + n]
          BY <1>1, <4>2, <4>3, CharAtIs
        <4>5. QED
          BY <2>1, <3>2, <4>2, <4>4
      <3>3. QED
        BY <3>1, <3>2
    <2>2. CASE /\ n < SIZE
               /\ reader.bufferPosition + n >= reader.bufferLength
               /\ \E o \in Refill(reader) :
                    /\ reader' = o.reader
                    /\ Returns("peek_n", n,
                               IF o.read = 0 \/ n >= o.reader.bufferLength THEN None
                               ELSE o.reader.buffer[o.reader.bufferPosition + n])
               /\ clean' = (clean /\ ~ShortLive(reader))
      <3>1. PICK o \in Refill(reader) :
              /\ reader' = o.reader
              /\ Returns("peek_n", n,
                         IF o.read = 0 \/ n >= o.reader.bufferLength THEN None
                         ELSE o.reader.buffer[o.reader.bufferPosition + n])
        BY <2>2
      <3>2. CASE ~IsOpen(reader)
        <4>1. reader.stateError /\ o.reader = reader /\ o.read = 0
          BY <1>1, <3>2, FailedAnswers
        <4>2. Stream!CharAt(n) = None
          BY <1>1, <4>1, CharAtIs
        <4>3. QED
          BY <3>1, <4>1, <4>2, StreamFacts
      <3>3. CASE IsOpen(reader)
        <4>1. ~ShortLive(reader)
          BY <2>2
        <4>2. /\ o.reader.stateError = reader.stateError
              /\ o.reader.stateError => o.reader.bufferLength = 0
              /\ (o.read = 0 \/ n >= o.reader.bufferLength) => CharOf(reader, delivered, n) = None
              /\ ~(o.read = 0 \/ n >= o.reader.bufferLength) =>
                   CharOf(reader, delivered, n) = o.reader.buffer[o.reader.bufferPosition + n]
          BY <1>1, <2>2, <3>3, <4>1, StreamFacts, Answered
        <4>3. Stream!CharAt(n) = CharOf(reader, delivered, n)
          BY <1>1, <3>3, CharAtIs
        <4>4. o.reader.file = reader.file
          BY <3>3, StreamFacts, RefillSound
        <4>5. QED
          BY <3>1, <4>2, <4>3, <4>4
      <3>4. QED
        BY <3>2, <3>3
    <2>3. QED
      BY <2>1, <2>2 DEF PeekN
  <1>4. IsOpen(reader') = IsOpen(reader)
    BY <1>3 DEF IsOpen
  <1>5. Stream!PeekN
    <2>1. Stream!Returns("peek_n", n, Stream!CharAt(n))
      BY <1>3 DEF Returns, Stream!Returns
    <2>2. /\ (IF IsOpen(reader) THEN Content[reader.file] ELSE <<>>)'
               = (IF IsOpen(reader) THEN Content[reader.file] ELSE <<>>)
          /\ IsOpen(reader)' = IsOpen(reader) /\ (reader.stateError)' = reader.stateError
          /\ Len(delivered)' = Len(delivered)
      BY <1>1, <1>3, <1>4
    <2>3. QED
      BY <1>2, <2>1, <2>2, Zenon DEF Stream!PeekN
  <1>6. QED
    BY <1>1, <1>3, <1>4, <1>5, StreamFacts DEF Settled

\* buf_reader_open past its fopen, on a struct without a stream: the text is the whole file,
\* and an error from before stays.
LEMMA OpenImplements ==
  ASSUME Failing = {}, NEW r \in Reader, Sound(r), ~IsOpen(r), Drained(r), r.fileName # NoFile,
         NEW others, OpenSucceeds(r, others), r.stateError = (reader.stateError /\ ~IsOpen(reader))
  PROVE  Stream!Open /\ Settled(reader', delivered')
  <1> DEFINE q == [r EXCEPT !.file = r.fileName, !.offset = 0, !.feof = FALSE]
  <1>1. q \in Reader /\ Sound(q) /\ IsOpen(q) /\ q.bufferLength = r.bufferLength /\ q.stateEOF = r.stateEOF
    BY FreshStream
  <1>2. q.file = r.fileName /\ q.stateError = r.stateError
    BY DEF Reader
  <1>3. PICK o \in Refill(q) : reader' = [o.reader EXCEPT !.columnNumber = 1, !.lineNumber = 1]
    BY DEF OpenSucceeds
  <1> HIDE DEF q
  <1>4. q.bufferLength = 0 /\ ~q.stateEOF
    BY <1>1 DEF Drained
  <1>5. ~ShortLive(q)
    <2>1. q.bufferPosition \in 0..SIZE
      BY <1>1 DEF Reader
    <2>2. ~(q.bufferPosition < q.bufferLength)
      BY <1>4, <2>1, SizeAssumption
    <2>3. QED
      BY <2>2 DEF ShortLive
  <1>6. o.reader \in Reader /\ o.reader.file = r.fileName
    BY <1>1, <1>2, <1>3, RefillSound
  <1>7. /\ o.reader.stateError = r.stateError
        /\ o.reader.stateError => o.reader.bufferLength = 0
    <2>1. CASE q.stateError
      BY <1>1, <1>2, <1>3, <1>4, <2>1, RefillDetails
    <2>2. CASE ~q.stateError
      <3>1. ~o.reader.stateError
        BY <1>1, <1>3, <1>4, <1>5, <2>2, WholeRefill
      <3>2. QED
        BY <1>2, <1>6, <2>2, <3>1 DEF Reader
    <2>3. QED
      BY <2>1, <2>2
  <1>8. /\ reader'.file = r.fileName /\ reader'.stateError = r.stateError
        /\ reader'.stateError => reader'.bufferLength = 0
    BY <1>3, <1>6, <1>7 DEF Reader
  <1>9. IsOpen(reader') /\ r.fileName \in Names /\ delivered' = <<>> /\ Returns("open", 0, 1)
    BY <1>8 DEF IsOpen, Reader, Names0, OpenSucceeds
  <1>10. Stream!Open
    <2>1. (IF IsOpen(reader) THEN Content[reader.file] ELSE <<>>)' \in {Content[name] : name \in Names}
      BY <1>8, <1>9
    <2>2. Len(delivered)' = 0 /\ IsOpen(reader)' = TRUE
      BY <1>9
    <2>3. (reader.stateError)' = (reader.stateError /\ ~IsOpen(reader))
      BY <1>8, Zenon
    <2>4. Stream!Returns("open", 0, 1)
      BY <1>9 DEF Returns, Stream!Returns
    <2>5. QED
      BY <2>1, <2>2, <2>3, <2>4, Zenon DEF Stream!Open
  <1>11. QED
    BY <1>8, <1>9, <1>10 DEF Settled

\* buf_reader_open refused: no text, and an error to be told of.
LEMMA OpenFailImplements ==
  ASSUME NEW r \in Reader, Sound(r), ~IsOpen(r), Drained(r), NEW others,
         CheckFails(r, others) \/ FopenFails(r, others), delivered' = <<>>
  PROVE  Stream!OpenFails /\ Settled(reader', delivered')
  <1>1. Returns("open", 0, 0)
    BY DEF CheckFails, FopenFails
  <1>2. /\ ~IsOpen(reader') /\ reader'.stateError = TRUE
        /\ Drained(reader')
    BY FailedSound
  <1>3. ~IsOpen(reader') /\ reader'.bufferLength = 0
    BY <1>2 DEF Drained
  <1>4. Stream!OpenFails
    <2>1. (IF IsOpen(reader) THEN Content[reader.file] ELSE <<>>)' = <<>>
      BY <1>3
    <2>2. Len(delivered)' = 0 /\ IsOpen(reader)' = FALSE /\ (reader.stateError)' = TRUE
      BY <1>2, <1>3
    <2>3. Stream!Returns("open", 0, 0)
      BY <1>1 DEF Returns, Stream!Returns
    <2>4. QED
      BY <2>1, <2>2, <2>3, Zenon DEF Stream!OpenFails
  <1>5. QED
    BY <1>3, <1>4 DEF Settled

\* buf_reader_new, buf_reader_close and buf_reader_destroy leave a struct with no stream and
\* no error.
LEMMA ResetImplements ==
  ASSUME NEW name \in Names0, NEW b \in [Index -> Byte], reader' = Idle(name, b), delivered' = <<>>,
         \/ Returns("new", 0, 1)
         \/ Returns("close", 0, 1)
         \/ Returns("destroy", 0, 0)
  PROVE  Stream!Reset /\ Settled(reader', delivered')
  <1>1. ~IsOpen(reader') /\ reader'.stateError = FALSE
    BY DEF Idle, IsOpen
  <1>2. (IF IsOpen(reader) THEN Content[reader.file] ELSE <<>>)' = <<>>
    BY <1>1
  <1>3. Len(delivered)' = 0 /\ IsOpen(reader)' = FALSE /\ (reader.stateError)' = FALSE
    BY <1>1
  <1>4. \/ Stream!Returns("new", 0, 1)
        \/ Stream!Returns("close", 0, 1)
        \/ Stream!Returns("destroy", 0, 0)
    BY DEF Returns, Stream!Returns
  <1>5. Stream!Reset
    BY <1>2, <1>3, <1>4, Zenon DEF Stream!Reset
  <1>6. QED
    BY <1>1, <1>5 DEF Settled

\* Every step of a disciplined caller is a step of the cursor.
LEMMA NextImplements ==
  ASSUME Failing = {}, StreamInv, CleanNext
  PROVE  Stream!Next /\ Settled(reader', delivered')
  <1>1. /\ reader \in Reader /\ Sound(reader) /\ Drained(reader) /\ clean'
        /\ ~IsOpen(reader) => delivered = <<>>
    BY StreamFacts DEF CleanNext
  <1>2. [i \in Index |-> NUL] \in [Index -> Byte]
    BY DEF NUL, Byte
  <1>3. ASSUME NEW name \in Names0, New(name) PROVE Stream!Reset /\ Settled(reader', delivered')
    <2>1. (IF name = NoFile THEN NoFile ELSE Normalize[name]) \in Names0
      BY NamesAssumption DEF Names0
    <2>2. QED
      BY <1>2, <1>3, <2>1, ResetImplements DEF New, NewReader
  <1>4. CASE Destroy
    <2>1. NoFile \in Names0
      BY DEF Names0
    <2>2. QED
      BY <1>2, <1>4, <2>1, ResetImplements DEF Destroy, NewReader, Stream!Next
  <1>5. CASE Close
    <2>1. reader.fileName \in Names0 /\ reader.buffer \in [Index -> Byte]
      BY <1>1 DEF Reader
    <2>2. QED
      BY <1>5, <2>1, ResetImplements DEF Close, Closed, Stream!Next
  <1>6. ASSUME NEW name \in Names, OpenNamed(name)
        PROVE  (Stream!Open \/ Stream!OpenFails) /\ Settled(reader', delivered')
    <2> DEFINE r == IF IsOpen(reader) THEN Closed(reader) ELSE reader
    <2>1. r \in Reader /\ Sound(r) /\ ~IsOpen(r) /\ Drained(r)
      BY <1>1, ClosedSound
    <2>2. r.stateError = (reader.stateError /\ ~IsOpen(reader))
      <3>1. CASE IsOpen(reader)
        <4>1. r.stateError = FALSE
          BY <3>1 DEF Closed, Idle
        <4>2. QED
          BY <3>1, <4>1, Zenon
      <3>2. CASE ~IsOpen(reader)
        <4>1. r = reader /\ reader.stateError \in BOOLEAN
          BY <1>1, <3>2 DEF Reader
        <4>2. QED
          BY <3>2, <4>1
      <3>3. QED
        BY <3>1, <3>2
    <2>3. /\ Normalize[name] \in Names0 /\ Normalize[name] # NoFile /\ NoFile \in Names0
      BY NamesAssumption DEF Names0
    <2>4. \/ OpenSucceeds([r EXCEPT !.fileName = Normalize[name]], StreamsClosed)
          \/ /\ delivered' = <<>>
             /\ \E stored \in Names0 :
                  \/ CheckFails([r EXCEPT !.fileName = stored], StreamsClosed)
                  \/ FopenFails([r EXCEPT !.fileName = stored], StreamsClosed)
      BY <1>6, <2>3 DEF OpenNamed
    <2> HIDE DEF r
    <2>5. ASSUME NEW stored \in Names0, NEW q, q = [r EXCEPT !.fileName = stored]
          PROVE  /\ q \in Reader /\ Sound(q) /\ ~IsOpen(q) /\ Drained(q)
                 /\ q.fileName = stored /\ q.stateError = r.stateError
      <3>1. q.stateError = r.stateError
        BY <2>1, <2>5 DEF Reader
      <3>2. QED
        BY <2>1, <2>5, <3>1, NamedSound
    <2>6. CASE OpenSucceeds([r EXCEPT !.fileName = Normalize[name]], StreamsClosed)
      <3> DEFINE q == [r EXCEPT !.fileName = Normalize[name]]
      <3>1. OpenSucceeds(q, StreamsClosed)
        BY <2>6
      <3>2. /\ q \in Reader /\ Sound(q) /\ ~IsOpen(q) /\ Drained(q)
            /\ q.fileName # NoFile /\ q.stateError = r.stateError
        BY <2>3, <2>5
      <3> HIDE DEF q
      <3>3. QED
        BY <1>6, <2>2, <3>1, <3>2, OpenImplements
    <2>7. ASSUME NEW stored \in Names0, delivered' = <<>>,
                 \/ CheckFails([r EXCEPT !.fileName = stored], StreamsClosed)
                 \/ FopenFails([r EXCEPT !.fileName = stored], StreamsClosed)
          PROVE  Stream!OpenFails /\ Settled(reader', delivered')
      <3> DEFINE q == [r EXCEPT !.fileName = stored]
      <3>1. CheckFails(q, StreamsClosed) \/ FopenFails(q, StreamsClosed)
        BY <2>7
      <3>2. q \in Reader /\ Sound(q) /\ ~IsOpen(q) /\ Drained(q)
        BY <2>5
      <3> HIDE DEF q
      <3>3. QED
        BY <2>7, <3>1, <3>2, OpenFailImplements
    <2>8. QED
      BY <2>4, <2>6, <2>7
  <1>7. CASE OpenStored
    <2>1. ~IsOpen(reader) /\ reader.fileName # NoFile /\ delivered = <<>>
      BY <1>1, <1>7 DEF OpenStored
    <2>2. CASE OpenSucceeds(reader, streams)
      <3>1. reader.stateError = (reader.stateError /\ ~IsOpen(reader))
        BY <1>1, <2>1 DEF Reader
      <3>2. QED
        BY <1>1, <2>1, <2>2, <3>1, OpenImplements DEF Stream!Next
    <2>3. CASE (CheckFails(reader, streams) \/ FopenFails(reader, streams)) /\ UNCHANGED delivered
      BY <1>1, <2>1, <2>3, OpenFailImplements DEF Stream!Next
    <2>4. QED
      BY <1>7, <2>2, <2>3 DEF OpenStored
  <1>8. CASE Read \/ Consume
    BY <1>8, ReadImplements DEF Consume, Stream!Next
  <1>9. CASE Peek
    BY <1>9, PeekImplements DEF Stream!Next
  <1>10. ASSUME NEW n \in 0..SIZE, PeekN(n) PROVE Stream!PeekN /\ Settled(reader', delivered')
    BY <1>1, <1>10, PeekNImplements
  <1>11. QED
    BY <1>3, <1>4, <1>5, <1>6, <1>7, <1>8, <1>9, <1>10
       DEF CleanNext, Next, Lifecycle, CharCall, Stream!Next

\* The clean stream stays clean, and every step of it is a step of the cursor or none.
LEMMA StreamStep ==
  Failing = {} /\ StreamInv /\ [CleanNext]_vars => StreamInv' /\ [Stream!Next]_(Stream!vars)
  <1>1. ASSUME Failing = {}, StreamInv, CleanNext PROVE StreamInv' /\ [Stream!Next]_(Stream!vars)
    <2>1. IInv' /\ clean'
      BY <1>1, StepInvariant DEF StreamInv, CleanNext
    <2>2. Stream!Next /\ Settled(reader', delivered')
      BY <1>1, NextImplements
    <2>3. QED
      BY <2>1, <2>2 DEF StreamInv, Settled
  <1>2. ASSUME StreamInv, UNCHANGED vars PROVE StreamInv' /\ [Stream!Next]_(Stream!vars)
    <2>1. /\ allocated' = allocated /\ reader' = reader /\ call' = call
          /\ delivered' = delivered /\ clean' = clean /\ opens' = opens
      BY <1>2 DEF vars
    <2>2. IInv'
      BY <1>2, StepInvariant DEF StreamInv
    <2>3. StreamInv'
      BY <1>2, <2>1, <2>2 DEF StreamInv
    <2>4. UNCHANGED Stream!vars
      BY <2>1 DEF Stream!vars
    <2>5. QED
      BY <2>3, <2>4
  <1>3. QED
    BY <1>1, <1>2

\* A reader used with discipline, of files that can be read to their end, is a plain cursor
\* over their text: for any buffer size, any files and any order of calls, no answer of
\* buf_reader_read, peek, peek_n and has_next tells that there is a buffer.
THEOREM StreamImplemented ==
  ASSUME Failing = {}
  PROVE  CleanSpec => ImplementsStream
  <1>1. Init => StreamInv /\ Stream!Init
    <2> SUFFICES ASSUME Init PROVE StreamInv /\ Stream!Init
      OBVIOUS
    <2>1. IInv
      BY InitInvariant
    <2>2. reader = NewReader(NoFile) /\ delivered = <<>> /\ clean
          /\ call = [op |-> "none", arg |-> 0, ret |-> 0]
      BY DEF Init
    <2>3. ~IsOpen(reader) /\ reader.stateError = FALSE
      BY <2>2 DEF NewReader, Idle, IsOpen
    <2>4. StreamInv
      BY <2>1, <2>2, <2>3 DEF StreamInv
    <2>5. Len(delivered) = 0 /\ IsOpen(reader) = FALSE
          /\ (IF IsOpen(reader) THEN Content[reader.file] ELSE <<>>) = <<>>
      BY <2>2, <2>3
    <2>6. Stream!Init
      BY <2>2, <2>3, <2>5, Zenon DEF Stream!Init
    <2>7. QED
      BY <2>4, <2>6
  <1>2. StreamInv /\ [CleanNext]_vars => StreamInv' /\ [Stream!Next]_(Stream!vars)
    BY StreamStep
  <1>3. QED
    BY <1>1, <1>2, PTL DEF CleanSpec, ImplementsStream, Stream!Spec


=============================================================================

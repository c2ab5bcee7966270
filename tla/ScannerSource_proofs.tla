------------------------- MODULE ScannerSource_proofs -------------------------
(***************************************************************************)
(* What the tokens of scanner_read_all say of the file: where they stand   *)
(* in it, and that the last one stands at its end.  For every buffer size  *)
(* and every set of files, over a reader that still hands out the file     *)
(* (Intact in module Scanner).                                             *)
(***************************************************************************)
EXTENDS Scanner_proofs

(***************************************************************************)
(* A reader whose buffer held the whole file at once                       *)
(*                                                                         *)
(* Such a reader may be looked ahead of beyond the end of the file: the    *)
(* refill that this calls for moves bytes behind the valid ones to the     *)
(* front along with them, and they follow the file when it is read.        *)
(***************************************************************************)

\* Struct r, after d was taken out of it, has all of its file in d and in the buffer.
Whole(r, d) ==
  /\ r.feof /\ r.offset = Len(Content[r.file])
  /\ Len(d) + (r.bufferLength - r.bufferPosition) >= Len(Content[r.file])
  /\ \A i \in r.bufferPosition .. r.bufferLength - 1 :
       Len(d) + (i - r.bufferPosition) < Len(Content[r.file]) =>
         r.buffer[i] = Content[r.file][Len(d) + (i - r.bufferPosition) + 1]
  /\ \A i \in 1 .. Len(d) : i <= Len(Content[r.file]) => d[i] = Content[r.file][i]

\* The numbers in it.
LEMMA WholeNumbers ==
  ASSUME NEW r \in Reader, IsOpen(r), NEW d \in Seq(Byte)
  PROVE  /\ r.bufferPosition \in 0..SIZE /\ r.bufferLength \in 0..SIZE /\ r.offset \in Nat
         /\ SIZE \in Nat /\ Len(d) \in Nat /\ Len(Content[r.file]) \in Nat
         /\ r.buffer \in [Index -> Byte] /\ Content[r.file] \in Seq(Byte)
  <1>1. Content[r.file] \in Seq(Byte)
    BY NamesAssumption DEF Reader, IsOpen, Names0
  <1>2. QED
    BY <1>1, SizeAssumption DEF Reader

\* The end-of-file indicator stays set.
LEMMA FreadStaysAtEnd ==
  ASSUME NEW r, r.feof, NEW room, NEW f \in Fread(r, room)
  PROVE  f.feof
  <1> DEFINE left == IF r.feof THEN 0 ELSE Len(Content[r.file]) - r.offset
             most == IF left < room THEN left ELSE room
  <1>1. \/ f = [got |-> most, feof |-> r.feof \/ most < room]
        \/ \E k \in 0..most : f = [got |-> k, feof |-> r.feof]
    BY DEF Fread
  <1> HIDE DEF most
  <1>2. CASE f = [got |-> most, feof |-> r.feof \/ most < room]
    <2>1. f.feof = (r.feof \/ most < room)
      BY <1>2
    <2>2. QED
      BY <2>1, Zenon
  <1>3. CASE \E k \in 0..most : f = [got |-> k, feof |-> r.feof]
    BY <1>3
  <1>4. QED
    BY <1>1, <1>2, <1>3

\* A refill finds nothing more in the file, and moves what is left of it to the front.
LEMMA WholeRefilled ==
  ASSUME NEW r \in Reader, Sound(r), IsOpen(r), NEW d \in Seq(Byte), Whole(r, d),
         NEW o \in Refill(r)
  PROVE  Whole(o.reader, d)
  <1>1. CASE r.stateEOF \/ r.stateError
    <2>1. o.reader = r
      BY <1>1, RefillDetails
    <2>2. QED
      BY <2>1
  <1>2. CASE ~(r.stateEOF \/ r.stateError)
    <2> DEFINE keep == Remaining(r)
               s == o.reader
               text == Content[r.file]
    <2>1. PICK f \in Fread(r, SIZE - keep) : o = [reader |-> Refilled(r, keep, f), read |-> f.got]
      BY <1>2 DEF Refill
    <2>2. s = Refilled(r, keep, f)
      BY <2>1
    <2>3. /\ s.file = r.file /\ s.bufferPosition = 0 /\ s.bufferLength = keep + f.got
          /\ s.offset = r.offset + f.got /\ s.buffer = Shifted(r, keep, f.got)
      BY <2>2, RefilledSound
    <2>4. /\ keep \in 0..SIZE /\ SIZE - keep \in 0..SIZE
          /\ keep # 0 => r.bufferPosition + keep = SIZE
          /\ r.bufferLength - r.bufferPosition <= keep
      BY RemainingFits
    <2>5. /\ r.bufferPosition \in 0..SIZE /\ r.bufferLength \in 0..SIZE /\ r.offset \in Nat
          /\ SIZE \in Nat /\ Len(d) \in Nat /\ Len(text) \in Nat
      BY WholeNumbers
    <2>6. f.got = 0 /\ f.feof
      <3>1. r.feof /\ r.offset = Len(text)
        BY DEF Whole
      <3>2. f.got \in 0 .. (SIZE - keep) /\ r.offset + f.got <= Len(text)
        BY <2>4, FreadResult
      <3>3. f.got = 0
        BY <2>4, <2>5, <3>1, <3>2
      <3>4. f.feof
        BY <3>1, FreadStaysAtEnd
      <3>5. QED
        BY <3>3, <3>4
    <2>7. s.feof = f.feof
      BY <2>2 DEF Refilled, Reader
    <2> HIDE DEF s, keep
    <2>8. s.bufferLength = keep /\ s.offset = r.offset /\ s.feof
      BY <2>3, <2>4, <2>5, <2>6, <2>7
    <2>9. Len(d) + (s.bufferLength - s.bufferPosition) >= Len(text)
      <3>1. Len(d) + (r.bufferLength - r.bufferPosition) >= Len(text)
        BY DEF Whole
      <3>2. QED
        BY <2>3, <2>4, <2>5, <2>8, <3>1
    <2>10. ASSUME NEW i \in s.bufferPosition .. s.bufferLength - 1,
                  Len(d) + (i - s.bufferPosition) < Len(text)
           PROVE  s.buffer[i] = text[Len(d) + (i - s.bufferPosition) + 1]
      <3>1. i \in 0 .. keep - 1 /\ Len(d) + i < Len(text) /\ i \in Index /\ i < keep
        BY <2>3, <2>4, <2>5, <2>8, <2>10 DEF Index
      <3>2. Len(d) + (r.bufferLength - r.bufferPosition) >= Len(text)
        BY DEF Whole
      <3>3. r.bufferPosition + i \in r.bufferPosition .. r.bufferLength - 1
        <4>1. \A p, l, c, t, j \in Nat : c + j < t /\ c + (l - p) >= t => p + j \in p .. l - 1
          OBVIOUS
        <4>2. r.bufferPosition \in Nat /\ r.bufferLength \in Nat /\ i \in Nat
          BY <2>4, <2>5, <3>1
        <4>3. QED
          BY <2>5, <3>1, <3>2, <4>1, <4>2
      <3>4. (r.bufferPosition + i) - r.bufferPosition = i
        BY <2>5, <3>1
      <3>5. r.buffer[r.bufferPosition + i] = text[Len(d) + i + 1]
        BY <3>1, <3>3, <3>4 DEF Whole
      <3>6. s.buffer[i] = r.buffer[r.bufferPosition + i]
        BY <2>3, <3>1 DEF Shifted
      <3>7. i - s.bufferPosition = i
        BY <2>3, <3>1
      <3>8. QED
        BY <3>5, <3>6, <3>7
    <2>11. s.offset = Len(text)
      BY <2>8 DEF Whole
    <2>12. \A i \in 1 .. Len(d) : i <= Len(text) => d[i] = text[i]
      BY DEF Whole
    <2>13. s.file = r.file
      BY <2>3
    <2>14. Whole(s, d)
      BY <2>8, <2>9, <2>10, <2>11, <2>12, <2>13 DEF Whole
    <2>15. QED
      BY <2>14 DEF s
  <1>3. QED
    BY <1>1, <1>2

\* Nor does making a byte available lose any of it.
LEMMA WholeAvailable ==
  ASSUME NEW r \in Reader, Sound(r), IsOpen(r), NEW d \in Seq(Byte), Whole(r, d),
         NEW o \in Available(r)
  PROVE  Whole(o.reader, d)
  <1>1. /\ r.bufferPosition < r.bufferLength => o.reader = r
        /\ r.bufferPosition >= r.bufferLength => o \in Refill(r)
    BY AvailableDetails
  <1>2. r.bufferPosition \in Int /\ r.bufferLength \in Int
    BY SizeAssumption DEF Reader
  <1>3. CASE r.bufferPosition < r.bufferLength
    BY <1>1, <1>3
  <1>4. CASE r.bufferPosition >= r.bufferLength
    BY <1>1, <1>4, WholeRefilled
  <1>5. QED
    BY <1>2, <1>3, <1>4

\* The byte at the cursor is the next one of the file, as long as there is one.
LEMMA WholeFront ==
  ASSUME NEW r \in Reader, Sound(r), IsOpen(r), NEW d \in Seq(Byte), Whole(r, d),
         r.bufferPosition < r.bufferLength, Len(d) < Len(Content[r.file])
  PROVE  r.buffer[r.bufferPosition] = Content[r.file][Len(d) + 1]
  <1>1. /\ r.bufferPosition \in 0..SIZE /\ r.bufferLength \in 0..SIZE /\ SIZE \in Nat
        /\ Len(d) \in Nat
    BY WholeNumbers
  <1>2. r.bufferPosition \in r.bufferPosition .. r.bufferLength - 1
    BY <1>1
  <1>3. Len(d) + (r.bufferPosition - r.bufferPosition) = Len(d)
    BY <1>1
  <1>4. QED
    BY <1>2, <1>3 DEF Whole

\* Consuming it takes it out of the buffer and out of nothing else.
LEMMA WholeAdvanced ==
  ASSUME NEW r \in Reader, Sound(r), IsOpen(r), NEW d \in Seq(Byte), Whole(r, d),
         r.bufferPosition < r.bufferLength
  PROVE  Whole(Advanced(r), Append(d, r.buffer[r.bufferPosition]))
  <1> DEFINE s == Advanced(r)
             ch == r.buffer[r.bufferPosition]
             e == Append(d, ch)
             text == Content[r.file]
  <1>1. /\ s.file = r.file /\ s.offset = r.offset /\ s.buffer = r.buffer /\ s.feof = r.feof
        /\ s.bufferLength = r.bufferLength /\ s.bufferPosition = r.bufferPosition + 1
    BY AdvancedSound
  <1>2. /\ r.bufferPosition \in 0..SIZE /\ r.bufferLength \in 0..SIZE /\ r.offset \in Nat
        /\ SIZE \in Nat /\ Len(d) \in Nat /\ Len(text) \in Nat
    BY WholeNumbers
  <1>3. /\ Len(e) = Len(d) + 1
        /\ \A i \in 1 .. Len(d) : e[i] = d[i]
        /\ e[Len(d) + 1] = ch
    BY <1>2
  <1> HIDE DEF s, e
  <1>4. Len(e) + (s.bufferLength - s.bufferPosition) >= Len(text)
    <2>1. Len(d) + (r.bufferLength - r.bufferPosition) >= Len(text)
      BY DEF Whole
    <2>2. QED
      BY <1>1, <1>2, <1>3, <2>1
  <1>5. ASSUME NEW i \in s.bufferPosition .. s.bufferLength - 1,
               Len(e) + (i - s.bufferPosition) < Len(text)
        PROVE  s.buffer[i] = text[Len(e) + (i - s.bufferPosition) + 1]
    <2>1. i \in r.bufferPosition + 1 .. r.bufferLength - 1
      BY <1>1, <1>5
    <2>2. i \in r.bufferPosition .. r.bufferLength - 1
      BY <1>2, <2>1
    <2>3. (Len(d) + 1) + (i - (r.bufferPosition + 1)) = Len(d) + (i - r.bufferPosition)
      BY <1>2, <2>1
    <2>4. Len(e) + (i - s.bufferPosition) = Len(d) + (i - r.bufferPosition)
      BY <1>1, <1>3, <2>3
    <2>5. QED
      BY <1>1, <1>5, <2>2, <2>4 DEF Whole
  <1>6. ASSUME NEW i \in 1 .. Len(e), i <= Len(text) PROVE e[i] = text[i]
    <2>1. i \in 1 .. Len(d) \/ i = Len(d) + 1
      BY <1>2, <1>3
    <2>2. CASE i \in 1 .. Len(d)
      BY <1>3, <1>6, <2>2 DEF Whole
    <2>3. CASE i = Len(d) + 1
      <3>1. Len(d) < Len(text)
        BY <1>2, <1>6, <2>3
      <3>2. QED
        BY <1>3, <2>3, <3>1, WholeFront
    <2>4. QED
      BY <2>1, <2>2, <2>3
  <1>7. Whole(s, e)
    BY <1>1, <1>4, <1>5, <1>6 DEF Whole
  <1>8. QED
    BY <1>7 DEF s, e

\* An opening that is answered by one fread of the whole file.
LEMMA WholeOpened ==
  ASSUME NEW r \in Reader, Sound(r), Drained(r), ~IsOpen(r),
         r.fileName \in Names, r.fileName \notin Failing,
         ~r.stateError, Len(Content[r.fileName]) < SIZE,
         NEW o \in Refill([r EXCEPT !.file = r.fileName, !.offset = 0, !.feof = FALSE]),
         NEW s, s = [o.reader EXCEPT !.columnNumber = 1, !.lineNumber = 1]
  PROVE  Whole(s, <<>>) /\ s.file = r.fileName
  <1> DEFINE q == [r EXCEPT !.file = r.fileName, !.offset = 0, !.feof = FALSE]
             text == Content[r.fileName]
  <1>1. r.fileName # NoFile
    BY NamesAssumption
  <1>2. /\ q \in Reader /\ Sound(q) /\ IsOpen(q) /\ q.offset = 0 /\ q.stateEOF = r.stateEOF
        /\ q.bufferLength = r.bufferLength /\ q.bufferPosition = r.bufferPosition
    BY <1>1, FreshStream
  <1>3. q.file = r.fileName /\ ~q.feof /\ q.stateError = r.stateError
    BY DEF Reader
  <1>4. o \in Refill(q)
    OBVIOUS
  <1> HIDE DEF q
  <1>5. /\ q.bufferLength = 0 /\ q.bufferPosition = 0 /\ ~q.stateEOF /\ ~q.stateError
    <2>1. r.bufferLength = 0 /\ ~r.stateEOF /\ r.bufferPosition <= r.bufferLength
      BY DEF Sound, Drained
    <2>2. r.bufferPosition \in 0..SIZE
      BY DEF Reader
    <2>3. QED
      BY <1>2, <1>3, <2>1, <2>2, SizeAssumption
  <1>6. Remaining(q) = 0 /\ SIZE - Remaining(q) = SIZE /\ SIZE \in 0..SIZE
    BY <1>5, SizeAssumption DEF Remaining
  <1>7. PICK f \in Fread(q, SIZE) : o = [reader |-> Refilled(q, 0, f), read |-> f.got]
    BY <1>4, <1>5, <1>6 DEF Refill
  <1>8. o.reader = Refilled(q, Remaining(q), f) /\ f \in Fread(q, SIZE - Remaining(q))
    BY <1>6, <1>7
  <1>9. /\ o.reader.file = q.file /\ o.reader.bufferPosition = 0
        /\ o.reader.bufferLength = 0 + f.got /\ o.reader.offset = 0 + f.got
        /\ o.reader.buffer = Shifted(q, 0, f.got) /\ o.reader \in Reader
    BY <1>2, <1>6, <1>8, RefilledSound
  <1>10. o.reader.feof = f.feof
    BY <1>2, <1>8 DEF Refilled, Reader
  <1>11. text \in Seq(Byte) /\ Len(text) \in Nat
    <2>1. text \in Seq(Byte)
      BY NamesAssumption
    <2>2. QED
      BY <2>1
  <1>12. f.feof /\ f.got = Len(text)
    <2>1. f.got \in 0..SIZE /\ q.offset + f.got <= Len(text)
      BY <1>2, <1>3, <1>6, FreadResult
    <2>2. f.got < SIZE
      BY <1>2, <1>11, <2>1, SizeAssumption
    <2>3. f.feof /\ q.offset + f.got = Len(text)
      BY <1>2, <1>3, <1>6, <2>2, WholeFread
    <2>4. QED
      BY <1>2, <1>11, <2>1, <2>3
  <1>13. /\ s.file = o.reader.file /\ s.offset = o.reader.offset /\ s.feof = o.reader.feof
         /\ s.buffer = o.reader.buffer /\ s.bufferLength = o.reader.bufferLength
         /\ s.bufferPosition = o.reader.bufferPosition
    BY <1>9 DEF Reader
  <1>14. /\ s.file = r.fileName /\ s.offset = Len(text) /\ s.feof
         /\ s.bufferLength = Len(text) /\ s.bufferPosition = 0
    <2>1. 0 + Len(text) = Len(text)
      BY <1>11
    <2>2. QED
      BY <1>3, <1>9, <1>10, <1>12, <1>13, <2>1, Zenon
  <1>15. Len(<<>>) = 0
    OBVIOUS
  <1>16. ASSUME NEW i \in s.bufferPosition .. s.bufferLength - 1
         PROVE  s.buffer[i] = text[Len(<<>>) + (i - s.bufferPosition) + 1]
    <2>1. i \in 0 .. Len(text) - 1 /\ i \in Index /\ ~(i < 0) /\ i < 0 + f.got
          /\ 0 + (i - 0) + 1 = i + 1
      BY <1>11, <1>12, <1>14, SizeAssumption DEF Index
    <2>2. s.buffer[i] = text[0 + (i - 0) + 1]
      BY <1>2, <1>3, <1>9, <1>13, <2>1 DEF Shifted
    <2>3. QED
      BY <1>14, <1>15, <2>1, <2>2
  <1>17. QED
    BY <1>11, <1>14, <1>15, <1>16 DEF Whole

(***************************************************************************)
(* What one character call does to the stream                              *)
(***************************************************************************)

\* Nothing has been taken out, or one byte more.
Grown(d, e) == e = d \/ \E b \in Byte : e = Append(d, b)

\* The stream stays that of one file; what was clean before may not be clean after, never
\* the other way round; and a whole buffer stays one.
Streams ==
  /\ allocated' = allocated /\ reader'.file = reader.file /\ (clean' => clean)
  /\ Grown(delivered, delivered')
  /\ Whole(reader, delivered) => Whole(reader', delivered')

\* One character call on an open reader, or none.
LEMMA CallStreams ==
  ASSUME IInv, IsOpen(reader), Read \/ Peek \/ (\E n \in 0..SIZE : PeekN(n)) \/ Quiet
  PROVE  Streams
  <1>1. reader \in Reader /\ Sound(reader) /\ delivered \in Seq(Byte)
    BY DEF IInv, TypeOK, Bounds
  <1>2. CASE Read
    <2>1. /\ UNCHANGED <<allocated, clean>>
          /\ \E o \in Available(reader) :
               IF o.read = 0
               THEN /\ reader' = o.reader
                    /\ delivered' = delivered
               ELSE /\ reader' = Advanced(o.reader)
                    /\ delivered' = Append(delivered, o.reader.buffer[o.reader.bufferPosition])
      BY <1>2 DEF Read
    <2>2. PICK o \in Available(reader) :
            \/ o.read = 0 /\ reader' = o.reader /\ delivered' = delivered
            \/ /\ o.read # 0 /\ reader' = Advanced(o.reader)
               /\ delivered' = Append(delivered, o.reader.buffer[o.reader.bufferPosition])
      BY <2>1, Zenon
    <2>3. /\ o.reader \in Reader /\ Sound(o.reader) /\ o.reader.file = reader.file
          /\ o.read # 0 => /\ o.reader.bufferPosition < o.reader.bufferLength
                           /\ o.reader.buffer[o.reader.bufferPosition] \in Byte
      BY <1>1, AvailableSound
    <2>4. IsOpen(o.reader)
      BY <2>3 DEF IsOpen
    <2>5. Whole(reader, delivered) => Whole(o.reader, delivered)
      BY <1>1, WholeAvailable
    <2>6. CASE o.read = 0
      BY <2>1, <2>2, <2>3, <2>5, <2>6 DEF Streams, Grown
    <2>7. CASE o.read # 0
      <3>1. Whole(reader, delivered) => Whole(reader', delivered')
        BY <1>1, <2>2, <2>3, <2>4, <2>5, <2>7, WholeAdvanced
      <3>2. reader'.file = reader.file
        BY <2>2, <2>3, <2>7, AdvancedSound
      <3>3. Grown(delivered, delivered')
        BY <2>2, <2>3, <2>7 DEF Grown
      <3>4. QED
        BY <2>1, <3>1, <3>2, <3>3 DEF Streams
    <2>8. QED
      BY <2>6, <2>7
  <1>3. CASE Peek
    <2>1. UNCHANGED <<allocated, delivered, clean>>
      BY <1>3 DEF Peek
    <2>2. PICK o \in Available(reader) : reader' = o.reader
      BY <1>3 DEF Peek
    <2>3. o.reader.file = reader.file
      BY <1>1, <2>2, AvailableSound
    <2>4. Whole(reader, delivered) => Whole(o.reader, delivered)
      BY <1>1, <2>2, WholeAvailable
    <2>5. QED
      BY <2>1, <2>2, <2>3, <2>4 DEF Streams, Grown
  <1>4. ASSUME NEW n \in 0..SIZE, PeekN(n) PROVE Streams
    <2>1. UNCHANGED <<allocated, delivered>> /\ (clean' => clean)
      <3>1. UNCHANGED <<allocated, delivered>>
        BY <1>4 DEF PeekN
      <3>2. UNCHANGED clean \/ clean' = (clean /\ ~ShortLive(reader))
        BY <1>4 DEF PeekN
      <3>3. clean' => clean
        BY <3>2, Zenon
      <3>4. QED
        BY <3>1, <3>3
    <2>2. CASE reader' = reader
      BY <2>1, <2>2 DEF Streams, Grown
    <2>3. CASE \E o \in Refill(reader) : reader' = o.reader
      <3>1. PICK o \in Refill(reader) : reader' = o.reader
        BY <2>3
      <3>2. o.reader.file = reader.file
        BY <1>1, <3>1, RefillSound
      <3>3. Whole(reader, delivered) => Whole(o.reader, delivered)
        BY <1>1, <3>1, WholeRefilled
      <3>4. QED
        BY <2>1, <3>1, <3>2, <3>3 DEF Streams, Grown
    <2>4. QED
      BY <1>4, <2>2, <2>3 DEF PeekN
  <1>5. CASE Quiet
    <2>1. UNCHANGED <<allocated, reader, delivered, clean>>
      BY <1>5 DEF Quiet, vars
    <2>2. QED
      BY <2>1 DEF Streams, Grown
  <1>6. QED
    BY <1>2, <1>3, <1>4, <1>5

\* What buf_reader_peek returns is the byte at the cursor.
LEMMA PeekShows ==
  ASSUME IInv, IsOpen(reader), Peek, Answer # None
  PROVE  /\ reader'.bufferPosition < reader'.bufferLength
         /\ reader'.buffer[reader'.bufferPosition] = Answer
  <1>1. reader \in Reader /\ Sound(reader)
    BY DEF IInv, TypeOK, Bounds
  <1>2. PICK o \in Available(reader) :
          /\ reader' = o.reader
          /\ Returns("peek", 0, IF o.read = 0 THEN None
                                ELSE o.reader.buffer[o.reader.bufferPosition])
    BY DEF Peek
  <1>3. Answer = IF o.read = 0 THEN None ELSE o.reader.buffer[o.reader.bufferPosition]
    BY <1>2 DEF Returns, Answer
  <1>4. o.read # 0
    BY <1>3
  <1>5. o.reader.bufferPosition < o.reader.bufferLength
    BY <1>1, <1>4, AvailableSound
  <1>6. QED
    BY <1>2, <1>3, <1>4, <1>5

(***************************************************************************)
(* The stream of a running scanner                                         *)
(***************************************************************************)

InUse == pc \in Running \cup {"idle"}

\* scanner_new opens the file, and the reader stays on it until scanner_destroy.
Life ==
  /\ pc = "new" => tokens = <<>>
  /\ pc = "open" => reader = NewReader(SourceFile) /\ clean /\ delivered = <<>> /\ tokens = <<>>
  /\ InUse => allocated /\ reader.file = SourceFile

\* A file shorter than the buffer, no read of which fails, is in the buffer as a whole from
\* the opening on.
WholeLife ==
  InUse /\ SourceFile \notin Failing /\ Len(Content[SourceFile]) < SIZE =>
    Whole(reader, delivered)

StreamLife == Life /\ WholeLife

\* The file is one of those there are.
LEMMA SourceNamed ==
  ASSUME ScanTypes
  PROVE  SourceFile \in Names /\ SourceFile # NoFile
  BY NamesAssumption DEF ScanTypes, SourceFile

\* The opening leads from a new reader to the stream of the file.
LEMMA OpenedLife ==
  ASSUME ScanInv, StreamLife, ScannerNew
  PROVE  StreamLife' /\ tokens' = <<>>
  <1>1. /\ reader = NewReader(SourceFile) /\ clean /\ delivered = <<>> /\ tokens = <<>>
    BY DEF StreamLife, Life, ScannerNew
  <1>2. /\ pc' = "idle" /\ UNCHANGED <<path, frame, tokens>>
    BY DEF ScannerNew, Goto
  <1>3. SourceFile \in Names /\ SourceFile # NoFile
    BY SourceNamed DEF ScanInv
  <1>4. reader \in Reader /\ Sound(reader) /\ Drained(reader)
    BY <1>1 DEF ScanInv, IInv, TypeOK, Bounds
  <1>5. reader.fileName = SourceFile /\ ~IsOpen(reader) /\ ~reader.stateError
    BY <1>1 DEF NewReader, Idle, IsOpen
  <1>6. OpenSucceeds(reader, streams) /\ allocated /\ UNCHANGED allocated
    BY DEF ScannerNew, OpenStored, CheckFails, FopenFails, Returns
  <1>7. /\ delivered' = <<>>
        /\ \E o \in Refill([reader EXCEPT !.file = reader.fileName, !.offset = 0, !.feof = FALSE]) :
             reader' = [o.reader EXCEPT !.columnNumber = 1, !.lineNumber = 1]
    BY <1>6 DEF OpenSucceeds
  <1>8. PICK o \in Refill([reader EXCEPT !.file = reader.fileName, !.offset = 0, !.feof = FALSE]) :
          reader' = [o.reader EXCEPT !.columnNumber = 1, !.lineNumber = 1]
    BY <1>7
  <1>9. reader'.file = SourceFile
    <2> DEFINE q == [reader EXCEPT !.file = reader.fileName, !.offset = 0, !.feof = FALSE]
    <2>1. q \in Reader /\ Sound(q) /\ IsOpen(q)
      BY <1>3, <1>4, <1>5, FreshStream
    <2>2. q.file = SourceFile
      BY <1>4, <1>5 DEF Reader
    <2>3. o \in Refill(q)
      OBVIOUS
    <2> HIDE DEF q
    <2>4. o.reader \in Reader /\ o.reader.file = SourceFile
      BY <2>1, <2>2, <2>3, RefillSound
    <2>5. QED
      BY <1>8, <2>4 DEF Reader
  <1>10. SourceFile' = SourceFile
    BY <1>2 DEF SourceFile
  <1>11. Life'
    BY <1>2, <1>6, <1>9, <1>10 DEF Life
  <1>12. ASSUME SourceFile \notin Failing, Len(Content[SourceFile]) < SIZE
         PROVE  Whole(reader', delivered')
    <2>1. reader.fileName \in Names /\ reader.fileName \notin Failing
          /\ Len(Content[reader.fileName]) < SIZE
      BY <1>3, <1>5, <1>12
    <2>2. Whole(reader', <<>>)
      BY <1>4, <1>5, <1>8, <2>1, WholeOpened
    <2>3. QED
      BY <1>7, <2>2
  <1>13. WholeLife'
    BY <1>10, <1>12 DEF WholeLife
  <1>14. QED
    BY <1>1, <1>2, <1>11, <1>13 DEF StreamLife

\* A step of scanner_read_next keeps the stream.
LEMMA RunningLife ==
  ASSUME ScanInv, StreamLife, ScanStep, Typed2
  PROVE  /\ InUse /\ InUse' /\ IsOpen(reader) /\ SourceFile' = SourceFile /\ Streams
         /\ StreamLife'
  <1>1. InUse
    BY DEF ScanStep, InUse, Running, Labels, ReadNext, Eat, Skip, SkipSlash, LineComment,
           BlockComment, BlockSecond, Dispatch, Second, Third, Operator, WordFirst, WordPeek,
           WordNext, NumberSeek, NumberUnsigned, NumberCopy, NumberEnd, StringPeek, String,
           StringEnd, CharFirst, CharPeek, CharEnd
  <1>2. InUse' /\ UNCHANGED path
    BY ScanStepShape DEF Lands, Makes, InUse
  <1>3. SourceFile' = SourceFile
    BY <1>2 DEF SourceFile
  <1>4. reader.file = SourceFile /\ allocated /\ IsOpen(reader)
    BY <1>1, SourceNamed DEF StreamLife, Life, ScanInv, IsOpen
  <1>5. Streams
    BY <1>4, ScanStepCalls, CallStreams DEF ScanInv
  <1>6. pc' # "new" /\ pc' # "open"
    BY <1>2 DEF InUse, Running
  <1>7. Life'
    BY <1>3, <1>4, <1>5, <1>6 DEF Life, Streams
  <1>8. WholeLife'
    BY <1>1, <1>3, <1>5 DEF StreamLife, WholeLife, Streams
  <1>9. QED
    BY <1>1, <1>2, <1>3, <1>4, <1>5, <1>7, <1>8 DEF StreamLife

\* Every step of scanner_read_all does.
LEMMA LifeStep ==
  ASSUME ScanInv, ScanInv', StreamLife, [ScannerNext]_allVars
  PROVE  StreamLife'
  <1>1. CASE ReaderNew
    <2>1. /\ pc' = "open" /\ UNCHANGED <<path, frame, tokens>> /\ pc = "new"
          /\ New(path)
      BY <1>1 DEF ReaderNew, Goto
    <2>2. path # NoFile
      BY NamesAssumption DEF ScanInv, ScanTypes
    <2>3. reader' = NewReader(Normalize[path]) /\ delivered' = <<>> /\ clean' = TRUE
      BY <2>1, <2>2 DEF New
    <2>4. SourceFile' = Normalize[path]
      BY <2>1 DEF SourceFile
    <2>5. ~InUse' /\ tokens' = <<>>
      BY <2>1 DEF InUse, Running, StreamLife, Life
    <2>6. QED
      BY <2>1, <2>3, <2>4, <2>5 DEF StreamLife, Life, WholeLife
  <1>2. CASE ScannerNew
    BY <1>2, OpenedLife
  <1>3. CASE ScanStep
    <2>1. Typed2
      BY DEF ScanInv, IInv, Typed2
    <2>2. QED
      BY <1>3, <2>1, RunningLife
  <1>4. CASE ScannerDestroy
    <2>1. pc' = "destroyed" /\ ~InUse'
      BY <1>4 DEF ScannerDestroy, InUse, Running
    <2>2. QED
      BY <2>1 DEF StreamLife, Life, WholeLife
  <1>5. CASE UNCHANGED allVars
    <2>1. UNCHANGED <<allocated, reader, delivered, clean, path, pc, tokens>>
      BY <1>5 DEF allVars, vars, scanner
    <2>2. QED
      BY <2>1 DEF StreamLife, Life, WholeLife, InUse, SourceFile
  <1>6. QED
    BY <1>1, <1>2, <1>3, <1>4, <1>5 DEF ScannerNext

\* And so it is from the start.
LEMMA LifeInit == ScannerInit => StreamLife
  BY DEF ScannerInit, StreamLife, Life, WholeLife, InUse, Running


(***************************************************************************)
(* The end-of-stream token                                                 *)
(***************************************************************************)

\* No file holds a NUL, which scanner_read_next takes for the end of its input.
TextFiles == \A name \in Names : \A i \in 1 .. Len(Content[name]) : Content[name][i] # NUL

\* Struct r is a cursor over its file behind d, for one of the two reasons that make a
\* reader Intact.
Faithfully(r, d) ==
  \/ Whole(r, d)
  \/ Window(r) /\ Taken(r, d) /\ (r.stateEOF => r.feof)

\* Such a reader has nothing more, or a NUL next, only behind the end of a text.
LEMMA EndReached ==
  ASSUME NEW r \in Reader, Sound(r), IsOpen(r), NEW d \in Seq(Byte), Faithfully(r, d),
         \/ r.stateEOF
         \/ r.bufferPosition < r.bufferLength /\ r.buffer[r.bufferPosition] = NUL,
         \A i \in 1 .. Len(Content[r.file]) : Content[r.file][i] # NUL
  PROVE  Len(d) >= Len(Content[r.file])
  <1> DEFINE text == Content[r.file]
  <1>1. /\ r.bufferPosition \in 0..SIZE /\ r.bufferLength \in 0..SIZE /\ r.offset \in Nat
        /\ SIZE \in Nat /\ Len(d) \in Nat /\ Len(text) \in Nat
    BY WholeNumbers
  <1>2. CASE r.stateEOF
    <2>1. r.bufferLength = 0 /\ r.bufferPosition <= r.bufferLength
      BY <1>2 DEF Sound
    <2>2. r.bufferLength = 0 /\ r.bufferPosition = 0
      BY <1>1, <2>1
    <2>3. CASE Whole(r, d)
      <3>1. Len(d) + (r.bufferLength - r.bufferPosition) >= Len(text)
        BY <2>3 DEF Whole
      <3>2. QED
        BY <1>1, <2>2, <3>1
    <2>4. CASE Taken(r, d) /\ r.feof
      <3>1. r.offset = Len(text) /\ r.offset = Len(d) + (r.bufferLength - r.bufferPosition)
        BY <2>4 DEF Taken, Sound
      <3>2. QED
        BY <1>1, <2>2, <3>1
    <2>5. QED
      BY <1>2, <2>3, <2>4 DEF Faithfully
  <1>3. CASE r.bufferPosition < r.bufferLength /\ r.buffer[r.bufferPosition] = NUL
    <2> SUFFICES ASSUME Len(d) < Len(text) PROVE FALSE
      BY <1>1
    <2>1. Len(d) + 1 \in 1 .. Len(text)
      BY <1>1
    <2>2. CASE Whole(r, d)
      <3>1. text[Len(d) + 1] = NUL
        BY <1>3, <2>2, WholeFront
      <3>2. QED
        BY <2>1, <3>1
    <2>3. CASE Window(r) /\ Taken(r, d)
      <3>1. r.bufferPosition \in r.bufferPosition .. r.bufferLength - 1
        BY <1>1, <1>3
      <3>2. r.buffer[r.bufferPosition] = text[r.offset - r.bufferLength + r.bufferPosition + 1]
        BY <2>3, <3>1 DEF Window
      <3>3. r.offset - r.bufferLength + r.bufferPosition + 1 = Len(d) + 1
        BY <1>1, <2>3 DEF Taken
      <3>4. text[Len(d) + 1] = NUL
        BY <1>3, <3>2, <3>3
      <3>5. QED
        BY <2>1, <3>4
    <2>4. QED
      BY <2>2, <2>3 DEF Faithfully
  <1>4. QED
    BY <1>2, <1>3

\* What Intact means for the invariants, in the state a step leads to.
LEMMA IntactFaithfully ==
  ASSUME ScanInv', StreamLife', InUse', Intact'
  PROVE  /\ reader' \in Reader /\ Sound(reader') /\ IsOpen(reader') /\ delivered' \in Seq(Byte)
         /\ reader'.file = SourceFile' /\ SourceFile' \in Names
         /\ Faithfully(reader', delivered')
  <1>1. reader' \in Reader /\ Sound(reader') /\ delivered' \in Seq(Byte)
    BY DEF ScanInv, IInv, TypeOK, Bounds
  <1>2. SourceFile' \in Names /\ SourceFile' # NoFile
    BY NamesAssumption DEF ScanInv, ScanTypes, SourceFile
  <1>3. reader'.file = SourceFile' /\ IsOpen(reader')
    BY <1>2 DEF StreamLife, Life, IsOpen
  <1>4. CASE clean'
    <2>1. /\ Window(reader') /\ Taken(reader', delivered')
          /\ reader'.stateEOF => reader'.feof
      BY <1>3, <1>4 DEF ScanInv, IInv, Faithful, EndFlag
    <2>2. QED
      BY <1>1, <1>2, <1>3, <2>1 DEF Faithfully
  <1>5. CASE SourceFile' \notin Failing /\ Len(Content[SourceFile']) < SIZE
    <2>1. Whole(reader', delivered')
      BY <1>5 DEF StreamLife, WholeLife
    <2>2. QED
      BY <1>1, <1>2, <1>3, <2>1 DEF Faithfully
  <1>6. QED
    BY <1>4, <1>5 DEF Intact

\* The last of a longer array of tokens.
LEMMA LastToken ==
  ASSUME tokens \in Seq(TokenSet), NEW t \in TokenSet
  PROVE  /\ Append(tokens, t)[Len(Append(tokens, t))] = t
         /\ Len(Append(tokens, t)) = Len(tokens) + 1
         /\ \A k \in 1 .. Len(tokens) : Append(tokens, t)[k] = tokens[k]
  <1>1. Len(tokens) \in Nat
    OBVIOUS
  <1>2. Len(Append(tokens, t)) = Len(tokens) + 1
    OBVIOUS
  <1>3. Append(tokens, t)[Len(tokens) + 1] = t
    BY <1>1
  <1>4. QED
    BY <1>1, <1>2, <1>3

\* Making an end-of-stream token before the end of the file is impossible.
LEMMA EndMade ==
  ASSUME ScanInv, ScanInv', StreamLife, ScanStep, TextFiles, Makes, Intact',
         tokens'[Len(tokens')].type = "EOS"
  PROVE  Len(delivered') >= Len(Content[SourceFile'])
  <1>1. Typed2
    BY DEF ScanInv, IInv, Typed2
  <1>2. InUse /\ InUse' /\ IsOpen(reader) /\ StreamLife'
    BY <1>1, RunningLife
  <1>3. PICK t \in TokenSet : tokens' = Append(tokens, t) /\ Stamped(t)
    BY DEF Makes
  <1>4. tokens'[Len(tokens')] = t
    BY <1>3, LastToken DEF ScanInv, ScanTypes
  <1>5. EndSeen
    <2>1. t.type = "EOS"
      BY <1>4
    <2>2. QED
      BY <1>3, <2>1 DEF Stamped
  <1>6. /\ reader' \in Reader /\ Sound(reader') /\ IsOpen(reader') /\ delivered' \in Seq(Byte)
        /\ reader'.file = SourceFile' /\ SourceFile' \in Names
        /\ Faithfully(reader', delivered')
    BY <1>2, IntactFaithfully
  <1>7. \/ reader'.stateEOF
        \/ /\ reader'.bufferPosition < reader'.bufferLength
           /\ reader'.buffer[reader'.bufferPosition] = NUL
    <2>1. CASE ~HasNext /\ Quiet
      BY <2>1 DEF HasNext, Quiet, vars
    <2>2. CASE Peek /\ Answer = NUL
      <3>1. Answer # None
        BY <2>2 DEF NUL, None
      <3>2. QED
        BY <1>2, <2>2, <3>1, PeekShows DEF ScanInv
    <2>3. QED
      BY <1>5, <2>1, <2>2 DEF EndSeen
  <1>8. \A i \in 1 .. Len(Content[reader'.file]) : Content[reader'.file][i] # NUL
    BY <1>6 DEF TextFiles
  <1>9. Len(delivered') >= Len(Content[reader'.file])
    BY <1>6, <1>7, <1>8, EndReached
  <1>10. QED
    BY <1>6, <1>9

\* No other step changes what an end-of-stream token says.
LEMMA EndTokenStep ==
  ASSUME ScanInv, ScanInv', StreamLife, TextFiles, EndTokenAtEnd, [ScannerNext]_allVars
  PROVE  EndTokenAtEnd'
  <1>1. SUFFICES ASSUME pc' = "idle", Intact', Finished', tokens'[Len(tokens')].type = "EOS"
                 PROVE  Len(delivered') >= Len(Content[SourceFile'])
    BY DEF EndTokenAtEnd
  <1>2. CASE ReaderNew \/ ScannerDestroy
    BY <1>1, <1>2 DEF ReaderNew, Goto, ScannerDestroy
  <1>3. CASE ScannerNew
    <2>1. tokens' = <<>>
      BY <1>3, OpenedLife
    <2>2. QED
      BY <1>1, <2>1 DEF Finished
  <1>4. CASE ScanStep
    <2>1. Typed2
      BY DEF ScanInv, IInv, Typed2
    <2>2. ~Lands(frame) /\ ~Lands(Frame(None))
      BY <1>1 DEF Lands, Running
    <2>3. Makes
      BY <1>4, <2>1, <2>2, ScanStepShape
    <2>4. QED
      BY <1>1, <1>4, <2>3, EndMade
  <1>5. CASE UNCHANGED allVars
    <2>1. UNCHANGED <<reader, delivered, clean, path, pc, tokens>>
      BY <1>5 DEF allVars, vars, scanner
    <2>2. QED
      BY <1>1, <2>1 DEF EndTokenAtEnd, Intact, Finished, SourceFile
  <1>6. QED
    BY <1>2, <1>3, <1>4, <1>5 DEF ScannerNext

\* Over files of text, whose reads may fail anywhere, scanner_read_all ends with an
\* end-of-stream token only when it has scanned the whole file.
THEOREM EndTokenAtEndHolds ==
  ASSUME TextFiles
  PROVE  ScannerSpec => []EndTokenAtEnd
  <1> DEFINE Inv == ScanInv /\ StreamLife /\ EndTokenAtEnd
  <1>1. ScannerInit => Inv
    <2>1. ScannerInit => EndTokenAtEnd
      BY DEF ScannerInit, EndTokenAtEnd
    <2>2. QED
      BY <2>1, ScanInvInit, LifeInit
  <1>2. Inv /\ [ScannerNext]_allVars => Inv'
    <2> SUFFICES ASSUME Inv, [ScannerNext]_allVars PROVE Inv'
      OBVIOUS
    <2>1. ScanInv'
      BY ScanInvStep
    <2>2. StreamLife'
      BY <2>1, LifeStep
    <2>3. EndTokenAtEnd'
      BY <2>1, EndTokenStep
    <2>4. QED
      BY <2>1, <2>2, <2>3
  <1>3. Inv => EndTokenAtEnd
    OBVIOUS
  <1>4. QED
    BY <1>1, <1>2, <1>3, PTL DEF ScannerSpec


(***************************************************************************)
(* Where the tokens stand                                                  *)
(***************************************************************************)

\* Line and column are those of the place behind the first k bytes of d.  As in Placed, the
\* newline that the column counts from is a witness.
PlaceAt(line, column, d, k) ==
  /\ k \in 0 .. Len(d)
  /\ line = 1 + Cardinality({i \in 1..k : d[i] = NL})
  /\ \E last \in 0..k :
       /\ last # 0 => d[last] = NL
       /\ \A j \in last + 1 .. k : d[j] # NL
       /\ column = 1 + k - last

\* The place of the reader is one.
LEMMA PlacedIsAt ==
  ASSUME NEW r, NEW d \in Seq(Byte), Placed(r, d)
  PROVE  PlaceAt(r.lineNumber, r.columnNumber, d, Len(d))
  <1>1. Len(d) \in Nat /\ Len(d) \in 0 .. Len(d)
    OBVIOUS
  <1>2. PICK last \in Ends(d) \cup {0} :
          /\ \A j \in Ends(d) : j <= last
          /\ r.lineNumber = 1 + Cardinality(Ends(d))
          /\ r.columnNumber = 1 + Len(d) - last
    BY DEF Placed
  <1>3. last \in 0 .. Len(d) /\ (last # 0 => d[last] = NL)
    BY <1>1, <1>2 DEF Ends
  <1>4. ASSUME NEW j \in last + 1 .. Len(d) PROVE d[j] # NL
    <2>1. j \in 1 .. Len(d) /\ ~(j <= last)
      BY <1>1, <1>3
    <2>2. QED
      BY <1>2, <2>1 DEF Ends
  <1>5. Ends(d) = {i \in 1 .. Len(d) : d[i] = NL}
    BY DEF Ends
  <1>6. QED
    BY <1>1, <1>2, <1>3, <1>4, <1>5 DEF PlaceAt

\* Texts that agree on the first k characters have the same newlines there.
LEMMA SameNewlines ==
  ASSUME NEW k \in Nat, NEW d, NEW e, \A i \in 1..k : e[i] = d[i]
  PROVE  {i \in 1..k : e[i] = NL} = {i \in 1..k : d[i] = NL}
  OBVIOUS

\* Taking out more moves no place.
LEMMA PlaceAtGrown ==
  ASSUME NEW d \in Seq(Byte), NEW e, Grown(d, e), NEW k, NEW line, NEW column,
         PlaceAt(line, column, d, k)
  PROVE  PlaceAt(line, column, e, k)
  <1>1. k \in 0 .. Len(d) /\ Len(d) \in Nat /\ k \in Nat
    BY DEF PlaceAt
  <1>2. /\ k \in 0 .. Len(e)
        /\ \A i \in 1..k : e[i] = d[i]
    <2>1. CASE e = d
      BY <1>1, <2>1
    <2>2. CASE \E b \in Byte : e = Append(d, b)
      <3>1. PICK b \in Byte : e = Append(d, b)
        BY <2>2
      <3>2. Len(e) = Len(d) + 1 /\ \A i \in 1 .. Len(d) : e[i] = d[i]
        BY <3>1
      <3>3. QED
        BY <1>1, <3>2
    <2>3. QED
      BY <2>1, <2>2 DEF Grown
  <1>3. {i \in 1..k : e[i] = NL} = {i \in 1..k : d[i] = NL}
    BY <1>1, <1>2, SameNewlines
  <1>4. PICK last \in 0..k :
          /\ last # 0 => d[last] = NL
          /\ \A j \in last + 1 .. k : d[j] # NL
          /\ column = 1 + k - last
    BY DEF PlaceAt
  <1>5. last # 0 => e[last] = NL
    BY <1>1, <1>2, <1>4
  <1>6. ASSUME NEW j \in last + 1 .. k PROVE e[j] # NL
    <2>1. j \in 1..k
      BY <1>1, <1>4
    <2>2. QED
      BY <1>2, <1>4, <2>1
  <1>7. QED
    BY <1>2, <1>3, <1>4, <1>5, <1>6 DEF PlaceAt

\* In a text that begins like d, the place is the one that LineAt and ColumnAt count.
LEMMA PlaceAtText ==
  ASSUME NEW d \in Seq(Byte), NEW text \in Seq(Byte), NEW k, NEW line, NEW column,
         PlaceAt(line, column, d, k), k <= Len(text),
         \A i \in 1 .. Len(d) : i <= Len(text) => d[i] = text[i]
  PROVE  line = LineAt(text, k) /\ column = ColumnAt(text, k)
  <1>1. k \in 0 .. Len(d) /\ Len(d) \in Nat /\ k \in Nat /\ Len(text) \in Nat
    BY DEF PlaceAt
  <1>2. \A i \in 1..k : d[i] = text[i]
    <2> SUFFICES ASSUME NEW i \in 1..k PROVE d[i] = text[i]
      OBVIOUS
    <2>1. i \in 1 .. Len(d) /\ i <= Len(text)
      BY <1>1
    <2>2. QED
      BY <2>1
  <1>3. {i \in 1..k : d[i] = NL} = {i \in 1..k : text[i] = NL}
    BY <1>1, <1>2, SameNewlines
  <1>4. line = LineAt(text, k)
    BY <1>3 DEF PlaceAt, LineAt
  <1>5. PICK last \in 0..k :
          /\ last # 0 => d[last] = NL
          /\ \A j \in last + 1 .. k : d[j] # NL
          /\ column = 1 + k - last
    BY DEF PlaceAt
  <1> DEFINE Begins(i) == /\ i # 0 => text[i] = NL
                          /\ \A j \in i + 1 .. k : text[j] # NL
  <1>6. Begins(last)
    <2>1. last # 0 => text[last] = NL
      BY <1>1, <1>2, <1>5
    <2>2. ASSUME NEW j \in last + 1 .. k PROVE text[j] # NL
      <3>1. j \in 1..k
        BY <1>1, <1>5
      <3>2. QED
        BY <1>2, <1>5, <3>1
    <2>3. QED
      BY <2>1, <2>2
  <1>7. ASSUME NEW i \in 0..k, Begins(i) PROVE i = last
    <2>1. CASE i < last
      <3>1. last \in i + 1 .. k /\ last # 0
        BY <1>1, <1>5, <2>1
      <3>2. QED
        BY <1>6, <1>7, <3>1
    <2>2. CASE last < i
      <3>1. i \in last + 1 .. k /\ i # 0
        BY <1>1, <1>5, <2>2
      <3>2. QED
        BY <1>6, <1>7, <3>1
    <2>3. QED
      BY <1>1, <1>5, <2>1, <2>2
  <1>8. (CHOOSE i \in 0..k : Begins(i)) = last
    <2> HIDE DEF Begins
    <2>1. QED
      BY <1>6, <1>7
  <1>9. column = ColumnAt(text, k)
    BY <1>5, <1>8 DEF ColumnAt
  <1>10. QED
    BY <1>4, <1>9

\* The recogniser that is running and every token made, errors aside, stand at such a place.
MarksInv ==
  /\ pc \in Running => PlaceAt(frame.line, frame.column, delivered, frame.start)
  /\ InUse =>
       \A k \in 1 .. Len(tokens) :
         tokens[k].type # "ERROR" =>
           PlaceAt(tokens[k].line, tokens[k].column, delivered, tokens[k].start)

\* Only scanner_read_next's first step leaves the place between two tokens.
LEMMA IdleStep ==
  ASSUME ScanStep
  PROVE  pc \in Running \/ ReadNext
  BY DEF ScanStep, Running, Labels, Eat, Skip, SkipSlash, LineComment, BlockComment,
         BlockSecond, Dispatch, Second, Third, Operator, WordFirst, WordPeek, WordNext,
         NumberSeek, NumberUnsigned, NumberCopy, NumberEnd, StringPeek, String, StringEnd,
         CharFirst, CharPeek, CharEnd

\* A recogniser keeps the place it began at, and its token gets it.
LEMMA MarksScanStep ==
  ASSUME ScanInv, StreamLife, PlaceInv, PlaceInv', MarksInv, ScanStep, Typed2
  PROVE  MarksInv'
  <1>1. /\ InUse /\ InUse' /\ IsOpen(reader) /\ Grown(delivered, delivered')
        /\ reader'.file = reader.file /\ delivered \in Seq(Byte) /\ delivered' \in Seq(Byte)
    BY RunningLife, Facts DEF Streams
  <1>2. IsOpen(reader')
    BY <1>1 DEF IsOpen
  <1>3. /\ PlaceAt(reader.lineNumber, reader.columnNumber, delivered, Len(delivered))
        /\ PlaceAt(reader'.lineNumber, reader'.columnNumber, delivered', Len(delivered'))
    BY <1>1, <1>2, PlacedIsAt DEF PlaceInv
  <1>4. ASSUME NEW k \in 1 .. Len(tokens), tokens[k].type # "ERROR"
        PROVE  PlaceAt(tokens[k].line, tokens[k].column, delivered', tokens[k].start)
    BY <1>1, <1>4, PlaceAtGrown DEF MarksInv
  <1>5. CASE \E f : Lands(f) /\ PlaceAt(f.line, f.column, delivered, f.start)
    <2>1. PICK f : Lands(f) /\ PlaceAt(f.line, f.column, delivered, f.start)
      BY <1>5
    <2>2. PlaceAt(f.line, f.column, delivered', f.start)
      BY <1>1, <2>1, PlaceAtGrown
    <2>3. SamePlace(f, frame') /\ tokens' = tokens
      BY <2>1 DEF Lands
    <2>4. PlaceAt(frame'.line, frame'.column, delivered', frame'.start)
      BY <2>2, <2>3 DEF SamePlace
    <2>5. QED
      BY <1>4, <2>3, <2>4 DEF MarksInv
  <1>6. CASE pc \in Running /\ Makes
    <2>1. PICK t \in TokenSet : tokens' = Append(tokens, t) /\ Stamped(t)
      BY <1>6 DEF Makes
    <2>2. pc' = "idle" /\ pc' \notin Running
      BY <1>6 DEF Makes, Running
    <2>3. t.type # "ERROR" => PlaceAt(t.line, t.column, delivered', t.start)
      <3>1. CASE SamePlace(frame, t)
        <4>1. PlaceAt(frame.line, frame.column, delivered', frame.start)
          BY <1>1, <1>6, PlaceAtGrown DEF MarksInv
        <4>2. QED
          BY <3>1, <4>1 DEF SamePlace
      <3>2. CASE /\ t.start = Len(delivered')
                 /\ t.line = reader'.lineNumber /\ t.column = reader'.columnNumber
        BY <1>3, <3>2
      <3>3. QED
        BY <2>1, <3>1, <3>2 DEF Stamped
    <2>4. /\ tokens'[Len(tokens')] = t /\ Len(tokens') = Len(tokens) + 1
          /\ \A k \in 1 .. Len(tokens) : tokens'[k] = tokens[k]
      BY <2>1, LastToken DEF ScanInv, ScanTypes
    <2>5. ASSUME NEW k \in 1 .. Len(tokens'), tokens'[k].type # "ERROR"
          PROVE  PlaceAt(tokens'[k].line, tokens'[k].column, delivered', tokens'[k].start)
      <3>1. Len(tokens) \in Nat
        BY DEF ScanInv, ScanTypes
      <3>2. k \in 1 .. Len(tokens) \/ k = Len(tokens')
        BY <2>4, <3>1
      <3>3. CASE k \in 1 .. Len(tokens)
        <4>1. tokens'[k] = tokens[k]
          BY <2>4, <3>3
        <4>2. QED
          BY <1>4, <2>5, <3>3, <4>1
      <3>4. CASE k = Len(tokens')
        BY <2>3, <2>4, <2>5, <3>4
      <3>5. QED
        BY <3>2, <3>3, <3>4
    <2>6. QED
      BY <2>2, <2>5 DEF MarksInv
  <1>7. CASE ReadNext
    <2>1. Lands(Frame(None))
      BY <1>7, ReadNextLands
    <2>2. PlaceAt(Frame(None).line, Frame(None).column, delivered, Frame(None).start)
      BY <1>3 DEF Frame
    <2>3. QED
      BY <1>5, <2>1, <2>2
  <1>8. CASE pc \in Running
    <2>1. PlaceAt(frame.line, frame.column, delivered, frame.start)
      BY <1>8 DEF MarksInv
    <2>2. PlaceAt(Frame(None).line, Frame(None).column, delivered, Frame(None).start)
      BY <1>3 DEF Frame
    <2>3. QED
      BY <1>5, <1>6, <1>8, <2>1, <2>2, ScanStepShape
  <1>9. QED
    BY <1>7, <1>8, IdleStep

\* The other steps of scanner_read_all make no token.
LEMMA MarksStep ==
  ASSUME ScanInv, ScanInv', StreamLife, PlaceInv, PlaceInv', MarksInv, [ScannerNext]_allVars
  PROVE  MarksInv'
  <1>1. CASE ReaderNew \/ ScannerDestroy
    <2>1. pc' \in {"open", "destroyed"}
      BY <1>1 DEF ReaderNew, Goto, ScannerDestroy
    <2>2. pc' \notin Running /\ ~InUse'
      BY <2>1 DEF InUse, Running
    <2>3. QED
      BY <2>2 DEF MarksInv
  <1>2. CASE ScannerNew
    <2>1. tokens' = <<>> /\ pc' = "idle"
      BY <1>2, OpenedLife DEF ScannerNew, Goto
    <2>2. pc' \notin Running /\ Len(tokens') = 0
      BY <2>1 DEF Running
    <2>3. QED
      BY <2>2 DEF MarksInv
  <1>3. CASE ScanStep
    <2>1. Typed2
      BY DEF ScanInv, IInv, Typed2
    <2>2. QED
      BY <1>3, <2>1, MarksScanStep
  <1>4. CASE UNCHANGED allVars
    <2>1. UNCHANGED <<delivered, pc, frame, tokens>>
      BY <1>4 DEF allVars, vars, scanner
    <2>2. QED
      BY <2>1 DEF MarksInv, InUse
  <1>5. QED
    BY <1>1, <1>2, <1>3, <1>4 DEF ScannerNext

\* What has been taken out of an intact reader is what its file begins with.
LEMMA TakenAgrees ==
  ASSUME ScanInv, StreamLife, InUse, Intact
  PROVE  /\ Source \in Seq(Byte) /\ delivered \in Seq(Byte)
         /\ \A i \in 1 .. Len(delivered) : i <= Len(Source) => delivered[i] = Source[i]
  <1>1. delivered \in Seq(Byte)
    BY DEF ScanInv, IInv, TypeOK
  <1>2. SourceFile \in Names /\ SourceFile # NoFile
    BY SourceNamed DEF ScanInv
  <1>3. reader.file = SourceFile /\ IsOpen(reader) /\ Source = Content[SourceFile]
    BY <1>2 DEF StreamLife, Life, IsOpen, Source
  <1>4. Source \in Seq(Byte)
    BY <1>2, <1>3, NamesAssumption
  <1>5. CASE clean
    BY <1>1, <1>3, <1>4, <1>5 DEF ScanInv, IInv, Faithful, Taken
  <1>6. CASE SourceFile \notin Failing /\ Len(Content[SourceFile]) < SIZE
    BY <1>1, <1>3, <1>4, <1>6 DEF StreamLife, WholeLife, Whole
  <1>7. QED
    BY <1>5, <1>6 DEF Intact

\* A token's line and column are those of the place in the file where its lexeme begins,
\* over every refill, for any file and any buffer size.
THEOREM TokenPositionsHolds == ScannerSpec => []TokenPositions
  <1> DEFINE Inv == ScanInv /\ StreamLife /\ PlaceInv /\ MarksInv
  <1>1. ScannerInit => Inv
    <2>1. ScannerInit => PlaceInv
      <3>1. NoFile \in Names0
        BY DEF Names0
      <3>2. QED
        BY <3>1, NewSound DEF ScannerInit, Init, PlaceInv
    <2>2. ScannerInit => MarksInv
      BY DEF ScannerInit, MarksInv, InUse, Running
    <2>3. QED
      BY <2>1, <2>2, ScanInvInit, LifeInit
  <1>2. Inv /\ [ScannerNext]_allVars => Inv'
    <2> SUFFICES ASSUME Inv, [ScannerNext]_allVars PROVE Inv'
      OBVIOUS
    <2>1. ScanInv'
      BY ScanInvStep
    <2>2. StreamLife'
      BY <2>1, LifeStep
    <2>3. PlaceInv'
      BY ScannerDrives, PlaceStep DEF ScanInv
    <2>4. MarksInv'
      BY <2>1, <2>3, MarksStep
    <2>5. QED
      BY <2>1, <2>2, <2>3, <2>4
  <1>3. Inv => TokenPositions
    <2> SUFFICES ASSUME Inv, pc = "idle", Intact, NEW k \in Scanned,
                        tokens[k].start <= Len(Source)
                 PROVE  /\ tokens[k].line = LineAt(Source, tokens[k].start)
                        /\ tokens[k].column = ColumnAt(Source, tokens[k].start)
      BY Zenon DEF TokenPositions, Undisturbed
    <2>1. InUse
      BY DEF InUse
    <2>2. k \in 1 .. Len(tokens) /\ tokens[k].type # "ERROR"
      BY DEF Scanned, ScanInv, ScanTypes
    <2>3. PlaceAt(tokens[k].line, tokens[k].column, delivered, tokens[k].start)
      BY <2>1, <2>2 DEF MarksInv
    <2>4. /\ Source \in Seq(Byte) /\ delivered \in Seq(Byte)
          /\ \A i \in 1 .. Len(delivered) : i <= Len(Source) => delivered[i] = Source[i]
      BY <2>1, TakenAgrees
    <2>5. QED
      BY <2>3, <2>4, PlaceAtText
  <1>4. QED
    BY <1>1, <1>2, <1>3, PTL DEF ScannerSpec

===============================================================================

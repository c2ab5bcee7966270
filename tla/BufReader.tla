------------------------------ MODULE BufReader ------------------------------
(***************************************************************************)
(* The buffered reader of src/common/buffered_reader.c: a character cursor *)
(* over a file, kept in a fixed buffer of BUF_READER_BUFFER_SIZE bytes     *)
(* that is refilled with fread.  One reader is modelled through its whole  *)
(* life: new, open, the character calls, close, reopen, destroy.           *)
(*                                                                         *)
(* The C struct buf_reader_t is the record `reader`.  The FILE* it owns is *)
(* the three fields file, offset and feof: which file, how many bytes of   *)
(* it fread has handed out, and its end-of-file indicator.                 *)
(***************************************************************************)
EXTENDS Integers, Sequences, FiniteSets

CONSTANTS
  SIZE,          \* BUF_READER_BUFFER_SIZE
  Names,         \* the paths a caller may pass
  Normalize,     \* os_path_normalize, on those paths
  Content,       \* the bytes of the file a normalised path denotes
  NoFile,        \* the NULL FILE* and the NULL file name
  Failing,       \* the files of which fread may fail half way
  MaxDelivered,  \* bound: bytes taken out of one opening of the reader
  MaxStreams     \* bound: FILE*s open at a time

NUL  == 0
NL   == 10
None == -1       \* what the character calls return instead of a byte
Byte == 0..255

ASSUME SizeAssumption == SIZE \in Nat \ {0}
ASSUME NamesAssumption ==
  /\ Normalize \in [Names -> Names]
  /\ Content \in [Names -> Seq(Byte)]
  /\ NoFile \notin Names
ASSUME BoundAssumption ==
  /\ Failing \subseteq Names
  /\ MaxDelivered \in Nat /\ MaxStreams \in Nat

VARIABLES
  allocated,     \* the buf_reader_t exists
  reader,        \* its fields
  call,          \* the last call: operation, argument, result (booleans as 0 and 1)
  delivered,     \* history: the bytes read or consumed since the last opening
  clean,         \* history: see Lookahead and OpenStored
  opens,         \* history: successful openings since buf_reader_new, counted to 2
  streams,       \* history: FILE*s that fopen returned and fclose has not been given
  reopenings     \* history: calls of fopen for a reader that was open

vars == <<allocated, reader, call, delivered, clean, opens, streams, reopenings>>

Index == 0 .. SIZE - 1
Names0 == Names \cup {NoFile}

\* A struct without a stream.
Idle(name, buffer) ==
  [fileName |-> name, file |-> NoFile, offset |-> 0, feof |-> FALSE,
   buffer |-> buffer, bufferLength |-> 0, bufferPosition |-> 0,
   lineNumber |-> 0, columnNumber |-> 0, stateEOF |-> FALSE, stateError |-> FALSE]

\* Slip: close without the resets.
ClosedOnlyStream(r) == [r EXCEPT !.file = NoFile, !.offset = 0, !.feof = FALSE]

\* buf_reader_new zeroes the buffer; buf_reader_close keeps it and the file name.
NewReader(name) == Idle(name, [i \in Index |-> NUL])
Closed(r) == Idle(r.fileName, r.buffer)

IsOpen(r) == r.file # NoFile

\* Slip: the fclose forgotten.
StreamsKept == streams

\* The streams left once the reader's own, if it has one, is passed to fclose.
StreamsClosed == IF IsOpen(reader) THEN streams - 1 ELSE streams

(***************************************************************************)
(* fread of at most `room` bytes.  It comes back short at the end of the   *)
(* file, which sets the indicator, or after a read error, which does not.  *)
(***************************************************************************)
Fread(r, room) ==
  LET left == IF r.feof THEN 0 ELSE Len(Content[r.file]) - r.offset
      most == IF left < room THEN left ELSE room
  IN  {[got |-> most, feof |-> r.feof \/ most < room]}
        \cup {[got |-> k, feof |-> r.feof] : k \in {j \in 0..most : r.file \in Failing /\ j < room}}

\* Slips: the unread bytes dropped; a used-up buffer not told from a full one.
RemainingNone(r) == 0
RemainingAlways(r) == SIZE - r.bufferPosition

\* bufRemaining: what buf_reader_refill carries to the front of the buffer.
Remaining(r) ==
  IF r.bufferPosition = r.bufferLength THEN 0 ELSE SIZE - r.bufferPosition

\* The buffer after the memmove of `keep` bytes and an fread of `got`.
Shifted(r, keep, got) ==
  [i \in Index |->
     IF i < keep THEN r.buffer[r.bufferPosition + i]
     ELSE IF i < keep + got THEN Content[r.file][r.offset + (i - keep) + 1]
     ELSE r.buffer[i]]

\* Slip: end of file taken from feof alone, with bytes still in the buffer.
RefilledEager(r, keep, f) ==
  [r EXCEPT !.buffer = Shifted(r, keep, f.got),
            !.bufferLength = keep + f.got,
            !.bufferPosition = 0,
            !.offset = @ + f.got,
            !.feof = f.feof,
            !.stateEOF = f.feof,
            !.stateError = (keep + f.got = 0 /\ ~f.feof)]

\* Slip: a failed read counts as the end of the file.
RefilledErrorEnds(r, keep, f) ==
  [RefilledEager(r, keep, f) EXCEPT !.stateEOF = (keep + f.got = 0)]

\* The struct after a refill that kept `keep` bytes, given what fread did.
Refilled(r, keep, f) ==
  [r EXCEPT !.buffer = Shifted(r, keep, f.got),
            !.bufferLength = keep + f.got,
            !.bufferPosition = 0,
            !.offset = @ + f.got,
            !.feof = f.feof,
            !.stateEOF = (keep + f.got = 0 /\ f.feof),
            !.stateError = (keep + f.got = 0 /\ ~f.feof)]

\* Slip: fread is asked for a whole buffer on top of what was kept.
RefillOverlong(r) ==
  IF r.stateEOF \/ r.stateError
  THEN {[reader |-> r, read |-> 0]}
  ELSE {[reader |-> Refilled(r, Remaining(r), f), read |-> f.got] : f \in Fread(r, SIZE)}

\* buf_reader_refill: the struct it may leave and the count it returns.
Refill(r) ==
  IF r.stateEOF \/ r.stateError
  THEN {[reader |-> r, read |-> 0]}
  ELSE {[reader |-> Refilled(r, Remaining(r), f), read |-> f.got] :
          f \in Fread(r, SIZE - Remaining(r))}

\* The first lines of buf_reader_read and buf_reader_peek: refill when the
\* cursor has run out of the buffer; read = 0 means the call gives up.
Available(r) ==
  IF r.bufferPosition >= r.bufferLength
  THEN Refill(r)
  ELSE {[reader |-> r, read |-> 1]}

\* Slip: a newline does not start a new column count.
AdvancedSameColumn(r) ==
  LET ch == r.buffer[r.bufferPosition]
  IN  [r EXCEPT !.bufferPosition = @ + 1,
                !.lineNumber = IF ch = NL THEN @ + 1 ELSE @,
                !.columnNumber = @ + 1]

\* The consuming half of buf_reader_read.
Advanced(r) ==
  LET ch == r.buffer[r.bufferPosition]
  IN  [r EXCEPT !.bufferPosition = @ + 1,
                !.lineNumber = IF ch = NL THEN @ + 1 ELSE @,
                !.columnNumber = IF ch = NL THEN 1 ELSE @ + 1]

Init ==
  /\ allocated = FALSE
  /\ reader = NewReader(NoFile)
  /\ call = [op |-> "none", arg |-> 0, ret |-> 0]
  /\ delivered = <<>>
  /\ clean = TRUE
  /\ opens = 0
  /\ streams = 0 /\ reopenings = 0

Returns(op, arg, ret) == call' = [op |-> op, arg |-> arg, ret |-> ret]

-----------------------------------------------------------------------------
(* The life of a reader *)

New(name) ==
  /\ ~allocated
  /\ allocated' = TRUE
  /\ reader' = NewReader(IF name = NoFile THEN NoFile ELSE Normalize[name])
  /\ Returns("new", 0, 1)
  /\ delivered' = <<>>
  /\ clean' = TRUE
  /\ opens' = 0
  /\ UNCHANGED <<streams, reopenings>>

Destroy ==
  /\ allocated
  /\ allocated' = FALSE
  /\ reader' = NewReader(NoFile)
  /\ Returns("destroy", 0, 0)
  /\ delivered' = <<>>
  /\ clean' = TRUE
  /\ opens' = 0
  /\ streams' = StreamsClosed
  /\ UNCHANGED reopenings

Close ==
  /\ allocated
  /\ reader' = Closed(reader)
  /\ Returns("close", 0, 1)
  /\ delivered' = <<>>
  /\ clean' = TRUE
  /\ streams' = StreamsClosed
  /\ UNCHANGED <<allocated, opens, reopenings>>

\* fopen succeeds on reader r, and the rest of buf_reader_open; `others` counts
\* the streams open before.  A refill in an error state does nothing.
OpenSucceeds(r, others) ==
  /\ others < MaxStreams
  /\ \E o \in Refill([r EXCEPT !.file = r.fileName, !.offset = 0, !.feof = FALSE]) :
       reader' = [o.reader EXCEPT !.columnNumber = 1, !.lineNumber = 1]
  /\ Returns("open", 0, 1)
  /\ delivered' = <<>>
  /\ opens' = IF opens = 2 THEN 2 ELSE opens + 1
  /\ streams' = others + 1

\* The path does not exist or is not a file: a stream the reader has stays its own.
CheckFails(r, others) ==
  /\ reader' = [r EXCEPT !.stateError = TRUE]
  /\ Returns("open", 0, 0)
  /\ streams' = others
  /\ UNCHANGED opens

\* fopen fails: its NULL overwrites the FILE*, and nothing else is reset.
FopenFails(r, others) ==
  /\ reader' = [r EXCEPT !.file = NoFile, !.offset = 0, !.feof = FALSE, !.stateError = TRUE]
  /\ Returns("open", 0, 0)
  /\ streams' = others
  /\ UNCHANGED opens

\* buf_reader_open with a name closes an open reader first, and only then resets
\* it; os_path_normalize may run out of memory, and then the checks fail with no
\* file name stored.
OpenNamed(name) ==
  LET r == IF IsOpen(reader) THEN Closed(reader) ELSE reader
      named == [r EXCEPT !.fileName = Normalize[name]]
  IN  /\ allocated
      /\ \/ OpenSucceeds(named, StreamsClosed)
         \/ /\ \/ \E stored \in {Normalize[name], NoFile} :
                    CheckFails([r EXCEPT !.fileName = stored], StreamsClosed)
               \/ FopenFails(named, StreamsClosed)
            /\ delivered' = <<>>
      /\ clean' = (clean \/ IsOpen(reader))
      /\ UNCHANGED <<allocated, reopenings>>

\* buf_reader_open(reader, NULL) reopens the stored name and closes nothing: the
\* stream of an open reader is lost with the call of fopen, and its buffer stays.
OpenStored ==
  /\ allocated
  /\ reader.fileName # NoFile
  /\ \/ /\ \/ OpenSucceeds(reader, streams)
           \/ FopenFails(reader, streams) /\ UNCHANGED delivered
        /\ reopenings' = IF IsOpen(reader) THEN reopenings + 1 ELSE reopenings
     \/ CheckFails(reader, streams) /\ UNCHANGED <<delivered, reopenings>>
  /\ clean' = (clean /\ ~IsOpen(reader))
  /\ UNCHANGED allocated

-----------------------------------------------------------------------------
(* The character calls.  They are legal on an open reader, and on one whose *)
(* opening failed; otherwise they would pass a NULL FILE* to fread.         *)

Callable == allocated /\ (IsOpen(reader) \/ reader.stateError)

\* buf_reader_read.
Read ==
  /\ Callable
  /\ Len(delivered) < MaxDelivered
  /\ \E o \in Available(reader) :
       IF o.read = 0
       THEN /\ reader' = o.reader
            /\ delivered' = delivered
            /\ Returns("read", 0, None)
       ELSE /\ reader' = Advanced(o.reader)
            /\ delivered' = Append(delivered, o.reader.buffer[o.reader.bufferPosition])
            /\ Returns("read", 0, o.reader.buffer[o.reader.bufferPosition])
  /\ UNCHANGED <<allocated, clean, opens, streams, reopenings>>

\* buf_reader_consume is a read whose result is dropped.
Consume == Read

Peek ==
  /\ Callable
  /\ \E o \in Available(reader) :
       /\ reader' = o.reader
       /\ Returns("peek", 0, IF o.read = 0 THEN None
                             ELSE o.reader.buffer[o.reader.bufferPosition])
  /\ UNCHANGED <<allocated, delivered, clean, opens, streams, reopenings>>

\* The buffer holds unread bytes and does not reach its physical end: a refill
\* now would move bytes that are not valid along with the ones that are.
ShortLive(r) ==
  /\ r.bufferPosition < r.bufferLength
  /\ r.bufferLength < SIZE
  /\ ~r.stateEOF /\ ~r.stateError

PeekN(n) ==
  /\ Callable
  /\ \/ /\ SIZE <= n \/ reader.bufferPosition + n < reader.bufferLength
        /\ Returns("peek_n", n, IF SIZE <= n THEN None
                                ELSE reader.buffer[reader.bufferPosition + n])
        /\ UNCHANGED <<reader, clean>>
     \/ /\ n < SIZE
        /\ reader.bufferPosition + n >= reader.bufferLength
        /\ \E o \in Refill(reader) :
             /\ reader' = o.reader
             /\ Returns("peek_n", n,
                        IF o.read = 0 \/ n >= o.reader.bufferLength THEN None
                        ELSE o.reader.buffer[o.reader.bufferPosition + n])
        /\ clean' = (clean /\ ~ShortLive(reader))
  /\ UNCHANGED <<allocated, delivered, opens, streams, reopenings>>

-----------------------------------------------------------------------------
Lifecycle ==
  \/ \E name \in Names0 : New(name)
  \/ Destroy
  \/ Close
  \/ \E name \in Names : OpenNamed(name)
  \/ OpenStored

CharCall == Read \/ Consume \/ Peek \/ \E n \in 0..SIZE : PeekN(n)

Next == Lifecycle \/ CharCall

Spec == Init /\ [][Next]_vars

\* The callers that keep to a discipline: an open reader is reopened by name or
\* after a close, and no lookahead refills a short buffer.
CleanNext == Next /\ clean'
CleanSpec == Init /\ [][CleanNext]_vars

-----------------------------------------------------------------------------
(* Properties *)

Call == [op : {"none", "new", "destroy", "open", "close",
               "read", "peek", "peek_n"},
         arg : 0..SIZE, ret : Byte \cup {None}]

Reader ==
  [fileName : Names0, file : Names0, offset : Nat, feof : BOOLEAN,
   buffer : [Index -> Byte], bufferLength : 0..SIZE, bufferPosition : 0..SIZE,
   lineNumber : Nat, columnNumber : Nat, stateEOF : BOOLEAN, stateError : BOOLEAN]

\* Type correctness of the struct and of the history.
TypeOK ==
  /\ allocated \in BOOLEAN
  /\ reader \in Reader
  /\ call \in Call
  /\ delivered \in Seq(Byte)
  /\ clean \in BOOLEAN
  /\ opens \in 0..2
  /\ streams \in 0..MaxStreams /\ reopenings \in Nat

Sound(r) ==
  /\ r.bufferPosition <= r.bufferLength
  /\ r.stateEOF => r.bufferLength = 0
  /\ IsOpen(r) => /\ r.offset <= Len(Content[r.file])
                  /\ r.feof => r.offset = Len(Content[r.file])
  /\ ~IsOpen(r) => ~r.feof

\* No stream, and nothing left of an earlier one.
Drained(r) == ~IsOpen(r) => r.bufferLength = 0 /\ ~r.stateEOF

\* The cursor never passes the valid bytes, so no call indexes outside the
\* buffer; end of file is declared only when the buffer is empty, so no
\* buffered byte is lost to it; and a reader with no stream holds no bytes,
\* unless fopen failed to reopen it: those bytes the next opening delivers.
Bounds == Sound(reader) /\ (clean => Drained(reader))

\* What has been taken out, followed by what the buffer still holds, is the part
\* of the file that fread handed out: refilling loses, repeats and reorders
\* nothing, whatever chunks fread returns.
Window(r) ==
  \A i \in r.bufferPosition .. r.bufferLength - 1 :
    r.buffer[i] = Content[r.file][r.offset - r.bufferLength + i + 1]

Taken(r, d) ==
  /\ r.offset = Len(d) + (r.bufferLength - r.bufferPosition)
  /\ \A i \in 1 .. Len(d) : d[i] = Content[r.file][i]

Faithful ==
  clean /\ IsOpen(reader) => Window(reader) /\ Taken(reader, delivered)

\* In a clean stream end of file comes from fread's indicator for this very file.
EndFlag == clean /\ reader.stateEOF => reader.feof

\* Every FILE* but the reader's own has been closed, by a close, a destruction or
\* an opening by name, and no failed opening loses one: lost is one for each
\* reopening of an open reader under its stored name that gets to fopen, whatever
\* fopen returns.
NoStreamLeak == streams = (IF IsOpen(reader) THEN 1 ELSE 0) + reopenings

\* Before buf_reader_new and after buf_reader_destroy nothing holds a stream.
NoneWithoutReader == ~allocated => ~IsOpen(reader)

\* The inductive invariant: Faithful needs the bounds to know what a refill moves,
\* EndIsReal where the indicator came from, and NoStreamLeak that a new reader takes
\* no stream's place.
IInv == TypeOK /\ Bounds /\ Faithful /\ EndFlag /\ NoStreamLeak /\ NoneWithoutReader

\* buf_reader_has_next turns false only when the whole file has been taken out.
EndIsReal ==
  clean /\ IsOpen(reader) /\ reader.stateEOF =>
    Len(delivered) = Len(Content[reader.file])

\* lineNumber and columnNumber are the place of the cursor in what was taken out,
\* counting every byte (a carriage return too) as a column.
PositionTracked ==
  IsOpen(reader) =>
    LET ends == {i \in 1 .. Len(delivered) : delivered[i] = NL}
        last == CHOOSE i \in ends \cup {0} : \A j \in ends : j <= i
    IN  /\ reader.lineNumber = 1 + Cardinality(ends)
        /\ reader.columnNumber = 1 + Len(delivered) - last

\* What a reader opened once delivers, up to the first NUL, is the file.
StreamEndsWithFile ==
  opens = 1 /\ IsOpen(reader) =>
    LET text == Content[reader.file]
    IN  \A i \in 1 .. Len(delivered) :
          /\ i <= Len(text) => delivered[i] = text[i]
          /\ i = Len(text) + 1 => delivered[i] = NUL

Live(r) == SubSeq([i \in 1 .. SIZE |-> r.buffer[i - 1]],
                  r.bufferPosition + 1, r.bufferLength)

IsPrefixOf(s, t) == Len(s) <= Len(t) /\ s = SubSeq(t, 1, Len(s))

\* Whatever a peek or peek_n has shown, and everything else in the buffer, comes
\* out in that order: a call drops at most the byte it returns and a refill only
\* appends, even when it appends bytes that are not valid.
LookaheadKept ==
  [][CharCall =>
       IF call'.op = "read" /\ Live(reader) # <<>>
       THEN /\ IsPrefixOf(Tail(Live(reader)), Live(reader'))
            /\ call'.ret = Head(Live(reader))
       ELSE call'.op \in {"peek", "peek_n"} => IsPrefixOf(Live(reader), Live(reader'))]_vars

\* End of file is final: once buf_reader_has_next is false no character call
\* delivers a byte or turns it true again.
EOFIsFinal ==
  [][CharCall /\ reader.stateEOF => reader'.stateEOF /\ call'.ret = None]_vars

-----------------------------------------------------------------------------
(* The abstract cursor *)

Stream == INSTANCE CharStream WITH
  Texts  <- {Content[name] : name \in Names},
  Reach  <- SIZE,
  text   <- IF IsOpen(reader) THEN Content[reader.file] ELSE <<>>,
  cursor <- Len(delivered),
  opened <- IsOpen(reader),
  failed <- reader.stateError

\* "A cursor over characters" (docs/architecture/READER.md): every answer of a
\* disciplined caller's reader is the one a plain cursor over the file gives.
ImplementsStream == Stream!Spec

\* A caller that reads whenever it can, as the loops of the scanner do.
ReadingSpec == CleanSpec /\ WF_vars(Read)

\* When it has done with opening and closing, it gets to the end of the file or is
\* told of an error, however it looks ahead in between.
DrainEnds ==
  <>[][CharCall]_vars => <>[](IsOpen(reader) => reader.stateEOF \/ reader.stateError)

=============================================================================

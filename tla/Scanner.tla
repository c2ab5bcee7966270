------------------------------- MODULE Scanner -------------------------------
(***************************************************************************)
(* The scanner of src/engine/scanner/scanner.c, one reader call per step.  *)
(* It is composed with the buffered reader: every step that looks at or    *)
(* takes a character is a step of BufReader, and uses the answer call'.ret *)
(* that step returns.  The driver is scanner_read_all.                     *)
(*                                                                         *)
(* pc is the place in the C code, frame the C locals of the recogniser     *)
(* that is running, tokens the token array of the scanner.                 *)
(***************************************************************************)
EXTENDS BufReader, Numeric

CONSTANTS
  TOKEN_MAX_LENGTH, TOKEN_STRING_MAX_LENGTH,
  MaxChars       \* SCANNER_*_MAX_CHARS: the characters a number of each type may have

ASSUME LengthAssumption ==
  /\ TOKEN_MAX_LENGTH \in Nat \ {0}
  /\ TOKEN_STRING_MAX_LENGTH \in Nat \ {0}
  /\ \A type \in DOMAIN MaxChars : MaxChars[type] \in Nat

VARIABLES
  path,          \* the file the caller of buf_reader_new names
  pc, frame, tokens

scanner == <<pc, frame, tokens>>
allVars == <<vars, path, scanner>>

(* The characters the scanner tells apart *)
SPACE == 32
TAB == 9
CR == 13
QUOTE == 34
APOSTROPHE == 39
BACKSLASH == 92
SLASH == 47
STAR == 42
MINUS == 45
DOT == 46
EXCLAM == 33

IsDigit(c) == c \in 48..57
IsWordStart(c) == c = 95 \/ c \in 97..122 \/ c \in 65..90
IsWordChar(c) == IsWordStart(c) \/ IsDigit(c)
Blank == {SPACE, CR, TAB, NL}

\* The operators: the ones decided by one character, ( ) [ ] { } . , * ^ %, the
\* ones that need a second look, = + - > < ! and /, and the two-character forms.
Single == {40, 41, 91, 93, 123, 125, DOT, 44, STAR, 94, 37}
Ambiguous == {61, 43, MINUS, 62, 60, EXCLAM, SLASH}
Pairs == {<<61, 61>>, <<43, 43>>, <<MINUS, MINUS>>, <<62, 61>>, <<60, 61>>, <<EXCLAM, 61>>}

\* The width suffixes b, s and l of a number, and the unsigned marker u.
Suffix == [c \in {98, 115, 108} |-> CASE c = 98 -> "INT8" [] c = 115 -> "INT16" [] c = 108 -> "INT64"]
Unsigned == [c \in {98, 115, 108} |-> CASE c = 98 -> "UINT8" [] c = 115 -> "UINT16" [] c = 108 -> "UINT64"]
NumberTypes == {"INT8", "UINT8", "INT16", "UINT16", "INT32", "UINT32",
                "INT64", "UINT64", "FLOAT", "DOUBLE"}

\* Slip: the result of a reader call is stored without the cast.
CharWide(c) == c

\* The (char) cast of what a reader call returned.
Char(c) == IF c = None THEN 255 ELSE c

HasNext == ~reader.stateEOF

\* The locals of a recogniser that starts here: startLine and startCol, nextChar,
\* the text gathered so far, and those of the number and string recognisers.
\* left and after drive a run of buf_reader_consume calls; again is the pending
\* call of scanner_read_next to itself; start is a history variable.
Frame(next) ==
  [start |-> Len(delivered), line |-> reader.lineNumber, column |-> reader.columnNumber,
   next |-> next, content |-> <<>>, seeked |-> 0, type |-> "none", negative |-> FALSE,
   floating |-> FALSE, escape |-> FALSE, left |-> 0, after |-> "idle", again |-> FALSE]

ScannerInit ==
  /\ Init
  /\ path \in Names
  /\ pc = "new"
  /\ frame = Frame(None)
  /\ tokens = <<>>

-----------------------------------------------------------------------------
Quiet == UNCHANGED vars       \* a step without a reader call
Answer == call'.ret           \* what the reader call of this step returned

Goto(label) == pc' = label /\ UNCHANGED <<path, frame, tokens>>
Continue(label, f) == pc' = label /\ frame' = f /\ UNCHANGED <<path, tokens>>

\* Consume n characters, then go on at `label`.
EatThen(n, label, f) == Continue("eat", [f EXCEPT !.left = n, !.after = label])

\* CONSUME_TOKEN: the token goes to the end of the array and to the caller.
\* start and end are history: the characters taken for it.
Emit(type, line, column, content, start) ==
  /\ tokens' = Append(tokens, [type |-> type, line |-> line, column |-> column,
                               content |-> content, start |-> start, end |-> Len(delivered')])
  /\ pc' = "idle"
  /\ UNCHANGED <<path, frame>>

\* Slip: the position is taken when the token is made, not where it begins.
EmitLexemeLate(type) ==
  Emit(type, reader'.lineNumber, reader'.columnNumber, frame.content, frame.start)

EmitLexeme(type) == Emit(type, frame.line, frame.column, frame.content, frame.start)
EmitHere(type) == Emit(type, reader'.lineNumber, reader'.columnNumber, <<>>, Len(delivered'))

-----------------------------------------------------------------------------
(* The life of the scanner: scanner_new over a reader that opened its file,  *)
(* then scanner_read_all, then scanner_destroy, which destroys the reader.   *)

ReaderNew == pc = "new" /\ New(path) /\ Goto("open")

ScannerNew == pc = "open" /\ OpenStored /\ call'.ret = 1 /\ Goto("idle")

\* scanner_read_all stops at the first of these.
Final(type) == type \in {"ERROR", "EOS"}
Finished == tokens # <<>> /\ Final(tokens[Len(tokens)].type)

ReadNext == pc = "idle" /\ ~Finished /\ Quiet /\ Continue("skip", Frame(None))

ScannerDestroy ==
  /\ pc = "idle"
  /\ Finished
  /\ Destroy
  /\ pc' = "destroyed"
  /\ tokens' = <<>>
  /\ frame' = Frame(None)
  /\ UNCHANGED path

Eat ==
  /\ pc = "eat"
  /\ Read
  /\ frame' = [frame EXCEPT !.left = @ - 1]
  /\ pc' = IF frame.left = 1 THEN frame.after ELSE "eat"
  /\ UNCHANGED <<path, tokens>>

-----------------------------------------------------------------------------
(* scanner_skip_whitespace *)

\* The end of the loop: the caller is scanner_read_next, at its beginning or
\* just before it calls itself.
SkipDone == IF frame.again
            THEN Continue("skip", [frame EXCEPT !.again = FALSE])
            ELSE Goto("dispatch")

Skip ==
  /\ pc = "skip"
  /\ \/ ~HasNext /\ Quiet /\ SkipDone
     \/ /\ HasNext
        /\ Peek
        /\ \/ Answer \in Blank /\ EatThen(1, "skip", frame)
           \/ Answer = SLASH /\ Goto("skip_slash")
           \/ Answer \notin Blank \cup {SLASH} /\ SkipDone

SkipSlash ==
  /\ pc = "skip_slash"
  /\ PeekN(1)
  /\ \/ Answer = SLASH /\ Goto("line_comment")
     \/ Answer = STAR /\ EatThen(2, "block_comment", frame)
     \/ Answer \notin {SLASH, STAR} /\ SkipDone

\* Slip: the loop of a line comment does not look for the end of the file.
LineCommentEndless ==
  /\ pc = "line_comment"
  /\ Peek
  /\ IF Answer = NL THEN Goto("skip") ELSE EatThen(1, "line_comment", frame)

LineComment ==
  /\ pc = "line_comment"
  /\ \/ ~HasNext /\ Quiet /\ Goto("skip")
     \/ /\ HasNext
        /\ Peek
        /\ IF Answer = NL THEN Goto("skip") ELSE EatThen(1, "line_comment", frame)

\* Slip: only one character of the closing delimiter is consumed.
CommentEndsShort == EatThen(1, "skip", frame)

\* The loop runs while the next character is not a star AND the one after it is
\* not a slash; then two characters are consumed.
CommentEnds == EatThen(2, "skip", frame)

BlockComment ==
  /\ pc = "block_comment"
  /\ \/ ~HasNext /\ Quiet /\ CommentEnds
     \/ /\ HasNext
        /\ Peek
        /\ IF Answer = STAR THEN CommentEnds ELSE Goto("block_second")

BlockSecond ==
  /\ pc = "block_second"
  /\ PeekN(1)
  /\ IF Answer = SLASH THEN CommentEnds ELSE EatThen(1, "block_comment", frame)

-----------------------------------------------------------------------------
(* scanner_read_next, from the end-of-input check on *)

Dispatch ==
  /\ pc = "dispatch"
  /\ \/ ~HasNext /\ Quiet /\ EmitHere("EOS")
     \/ /\ HasNext
        /\ Peek
        /\ LET c == Answer
               f == [Frame(c) EXCEPT !.content = <<c>>]
           IN  \/ IsWordStart(c) /\ Continue("word", Frame(c))
               \/ IsDigit(c) /\ Continue("number", Frame(c))
               \/ c = NUL /\ EmitHere("EOS")
               \/ c = QUOTE /\ EatThen(1, "string_peek", Frame(c))
               \/ c = APOSTROPHE /\ EatThen(1, "char", Frame(c))
               \/ c \in Single /\ EatThen(1, "operator", f)
               \/ c \in Ambiguous /\ Continue("second", f)
               \/ /\ ~IsWordChar(c)
                  /\ c \notin {NUL, QUOTE, APOSTROPHE} \cup Single \cup Ambiguous
                  /\ EmitHere("ERROR")

\* Slip: two-character operators are not looked for.
SecondSingle ==
  /\ pc = "second"
  /\ PeekN(1)
  /\ EatThen(1, "operator", frame)

\* The first look at the second character of = + - > < ! and /.
Second ==
  /\ pc = "second"
  /\ PeekN(1)
  /\ LET c == frame.next
         pair == <<c, Answer>>
     IN  \/ pair \in Pairs /\ EatThen(2, "operator", [frame EXCEPT !.content = pair])
         \/ c = SLASH /\ Answer = STAR /\ Continue("skip", [frame EXCEPT !.again = TRUE])
         \/ c = SLASH /\ Answer # STAR /\ Goto("third")
         \/ c = MINUS /\ pair \notin Pairs /\ Goto("third")
         \/ c = EXCLAM /\ pair \notin Pairs /\ EmitHere("ERROR")
         \/ /\ c \notin {SLASH, MINUS, EXCLAM}
            /\ pair \notin Pairs
            /\ EatThen(1, "operator", frame)

\* The second look, at a minus for a digit and at a slash for a backslash.
Third ==
  /\ pc = "third"
  /\ PeekN(1)
  /\ \/ frame.next = MINUS /\ IsDigit(Answer) /\ Continue("number", [frame EXCEPT !.content = <<>>])
     \/ frame.next = SLASH /\ Answer = BACKSLASH /\ Continue("skip", [frame EXCEPT !.again = TRUE])
     \/ /\ ~(frame.next = MINUS /\ IsDigit(Answer))
        /\ ~(frame.next = SLASH /\ Answer = BACKSLASH)
        /\ EatThen(1, "operator", frame)

\* token_new with the spelling in TOKENS_VALUE.
Operator == pc = "operator" /\ Quiet /\ EmitLexeme("OPERATOR")

-----------------------------------------------------------------------------
(* scanner_consume_identifier; get_identifier_type is in module Keywords *)

\* Slip: the first character is consumed and not stored.
WordFirstDropped ==
  /\ pc = "word"
  /\ Read
  /\ Continue("word_peek", frame)

WordFirst ==
  /\ pc = "word"
  /\ Read
  /\ Continue("word_peek", [frame EXCEPT !.content = <<Char(Answer)>>])

WordPeek ==
  /\ pc = "word_peek"
  /\ Peek
  /\ Continue("word_next", [frame EXCEPT !.next = Answer])

\* Slip: one character more than the buffer holds.
WordRoomLoose(content) == Len(content) <= TOKEN_MAX_LENGTH

WordRoom(content) == Len(content) < TOKEN_MAX_LENGTH

\* Slip: digits do not continue a word.
WordGoesOnLetters(f) == HasNext /\ IsWordStart(f.next) /\ WordRoom(f.content)

WordGoesOn(f) == HasNext /\ IsWordChar(f.next) /\ WordRoom(f.content)

WordNext ==
  /\ pc = "word_next"
  /\ \/ /\ WordGoesOn(frame)
        /\ Read
        /\ Continue("word_peek", [frame EXCEPT !.content = Append(@, Char(Answer))])
     \/ /\ ~WordGoesOn(frame)
        /\ Quiet
        /\ IF WordRoom(frame.content) THEN EmitLexeme("WORD") ELSE EmitHere("ERROR")

-----------------------------------------------------------------------------
(* scanner_consume_number: look ahead for the type, then take the digits *)

\* Slip: the decimal point is forgotten.
DefaultTypeInt == "INT32"

DefaultType == IF frame.floating THEN "FLOAT" ELSE "INT32"

\* charsSeeked++ happens in the call; "back" takes it back.
Seeked == [frame EXCEPT !.seeked = @ + 1]
Typed(f, type) == Continue("number_copy", [f EXCEPT !.type = type])
NumberError(column) == Emit("ERROR", frame.line, column, <<>>, frame.start)

\* Slip: a minus is allowed in front of an unsigned number.
SignRefusedNever == FALSE

\* At the marker u: a number with a minus cannot be unsigned.
SignRefused == frame.negative

NumberSeek ==
  /\ pc = "number"
  /\ PeekN(frame.seeked)
  /\ LET c == Answer
         seeked == frame.seeked + 1
         sign == c = MINUS /\ seeked = 1
         point == c = DOT /\ seeked # 1
     IN  \/ c = None /\ Typed(Seeked, "INT32")
         \/ sign /\ Continue("number", [Seeked EXCEPT !.negative = TRUE])
         \/ point /\ Continue("number", [Seeked EXCEPT !.floating = TRUE])
         \/ IsDigit(c) /\ Continue("number", Seeked)
         \/ /\ c = 117
            /\ IF frame.floating THEN NumberError(frame.column + seeked)
               ELSE IF SignRefused THEN NumberError(frame.column)
               ELSE Continue("number_unsigned", Seeked)
         \/ /\ c \in DOMAIN Suffix
            /\ IF frame.floating THEN NumberError(frame.column + seeked)
               ELSE Typed(Seeked, Suffix[c])
         \/ /\ c = 100
            /\ IF ~frame.floating THEN NumberError(frame.column + seeked)
               ELSE Typed(Seeked, "DOUBLE")
         \/ /\ ~sign /\ ~point /\ ~IsDigit(c)
            /\ c \notin DOMAIN Suffix \cup {None, 117, 100}
            /\ Typed(frame, DefaultType)

NumberUnsigned ==
  /\ pc = "number_unsigned"
  /\ PeekN(frame.seeked)
  /\ \/ Answer \in Blank \cup {NUL} /\ Typed(frame, "UINT32")
     \/ Answer \in DOMAIN Unsigned /\ Typed(Seeked, Unsigned[Answer])
     \/ /\ Answer \notin Blank \cup {NUL} \cup DOMAIN Unsigned
        /\ NumberError(frame.column + frame.seeked + 1)

NumberGoesOn == Len(frame.content) < frame.seeked /\ HasNext

NumberCopy ==
  /\ pc = "number_copy"
  /\ \/ /\ NumberGoesOn
        /\ Read
        /\ IF Answer = None THEN Goto("number_end")
           ELSE Continue("number_copy", [frame EXCEPT !.content = Append(@, Answer)])
     \/ ~NumberGoesOn /\ Quiet /\ Goto("number_end")

\* A digit after a number that fills its space is an error.
NumberFull == Len(frame.content) = MaxChars[frame.type] /\ HasNext

NumberEnd ==
  /\ pc = "number_end"
  /\ \/ /\ NumberFull
        /\ Peek
        /\ IF IsDigit(Answer) THEN NumberError(frame.column + Len(frame.content) + 1)
           ELSE EmitLexeme(frame.type)
     \/ ~NumberFull /\ Quiet /\ EmitLexeme(frame.type)

-----------------------------------------------------------------------------
(* scanner_consume_string and scanner_consume_char *)

StringPeek ==
  /\ pc = "string_peek"
  /\ Peek
  /\ Continue("string", [frame EXCEPT !.next = Answer])

StringRoom(content) == Len(content) < TOKEN_STRING_MAX_LENGTH

StringGoesOn(f) ==
  /\ HasNext
  /\ f.escape \/ f.next # QUOTE
  /\ StringRoom(f.content)

String ==
  /\ pc = "string"
  /\ \/ /\ StringGoesOn(frame)
        /\ Read
        /\ IF ~frame.escape /\ frame.next = BACKSLASH
           THEN Continue("string_peek", [frame EXCEPT !.escape = TRUE])
           ELSE Continue("string_peek", [frame EXCEPT !.escape = FALSE,
                                                      !.content = Append(@, Char(Answer))])
     \/ ~StringGoesOn(frame) /\ Quiet /\ EatThen(1, "string_end", frame)

StringEnd ==
  /\ pc = "string_end"
  /\ Quiet
  /\ IF StringRoom(frame.content) THEN EmitLexeme("STRING") ELSE EmitHere("ERROR")

CharFirst ==
  /\ pc = "char"
  /\ Read
  /\ Continue("char_peek", [frame EXCEPT !.content = <<Char(Answer)>>])

CharPeek ==
  /\ pc = "char_peek"
  /\ Peek
  /\ IF Answer = APOSTROPHE THEN EatThen(1, "char_end", frame) ELSE EmitHere("ERROR")

CharEnd == pc = "char_end" /\ Quiet /\ EmitLexeme("CHAR")

-----------------------------------------------------------------------------
ScanStep ==
  \/ ReadNext \/ Eat
  \/ Skip \/ SkipSlash \/ LineComment \/ BlockComment \/ BlockSecond
  \/ Dispatch \/ Second \/ Third \/ Operator
  \/ WordFirst \/ WordPeek \/ WordNext
  \/ NumberSeek \/ NumberUnsigned \/ NumberCopy \/ NumberEnd
  \/ StringPeek \/ String \/ StringEnd
  \/ CharFirst \/ CharPeek \/ CharEnd

ScannerNext ==
  \/ ReaderNew
  \/ ScannerNew
  \/ ScanStep
  \/ ScannerDestroy

\* One thread runs to completion: it takes its next step.
ScannerSpec == ScannerInit /\ [][ScannerNext]_allVars /\ WF_allVars(ScannerNext)

-----------------------------------------------------------------------------
(* Properties *)

Labels ==
  {"new", "open", "idle", "destroyed", "eat", "skip", "skip_slash", "line_comment",
   "block_comment", "block_second", "dispatch", "second", "third", "operator",
   "word", "word_peek", "word_next", "number", "number_unsigned", "number_copy",
   "number_end", "string_peek", "string", "string_end", "char", "char_peek", "char_end"}

FrameSet ==
  [start : Nat, line : Nat, column : Nat, next : Byte \cup {None}, content : Seq(Byte),
   seeked : 0 .. SIZE + 1, type : NumberTypes \cup {"none"}, negative : BOOLEAN,
   floating : BOOLEAN, escape : BOOLEAN, left : 0..2, after : Labels, again : BOOLEAN]

TokenSet ==
  [type : NumberTypes \cup {"EOS", "ERROR", "WORD", "OPERATOR", "STRING", "CHAR"},
   line : Nat, column : Nat, content : Seq(Byte), start : Nat, end : Nat]

\* Type correctness of the scanner over a type-correct reader.
ScannerTypeOK ==
  TypeOK /\ path \in Names /\ pc \in Labels /\ frame \in FrameSet /\ tokens \in Seq(TokenSet)

\* The stack buffers of scanner_consume_identifier and scanner_consume_string are
\* never written past their end.
BuffersHold ==
  /\ pc \in {"word_peek", "word_next"} => Len(frame.content) <= TOKEN_MAX_LENGTH
  /\ pc \in {"string_peek", "string", "string_end"} =>
       Len(frame.content) <= TOKEN_STRING_MAX_LENGTH

\* While the scanner runs, the source it is reading.
Source == Content[reader.file]
Scanned == {k \in DOMAIN tokens : tokens[k].type # "ERROR"}

\* The file that the caller's path denotes.
SourceFile == Normalize[path]

\* A reader that still hands out the file: it has refilled no short buffer, or the
\* buffer is larger than the file and holds all of it, so that NULs follow.
Intact == clean \/ (SourceFile \notin Failing /\ Len(Content[SourceFile]) < SIZE)

\* Between two tokens, over such a reader, before a read has failed.
Undisturbed == pc = "idle" /\ Intact /\ ~reader.stateError

\* The same where a lookahead sees the file, too: a read that fails half way shows nothing
\* behind it, and is forgotten by the next one.
Foreseen == Undisturbed /\ SourceFile \notin Failing

Clip(k) == IF k > Len(Source) THEN Len(Source) ELSE k
First(S) == CHOOSE i \in S : \A j \in S : i <= j

\* A comment begins behind the first k characters: // or, where c is the star, /*.
Opens(text, k, c) ==
  k + 2 <= Len(text) /\ text[k + 1] = SLASH /\ text[k + 2] = c

\* The places where such a comment may end: // runs to the end of the line, /* to
\* the first */, and both to the end of the text.
LineEnds(text, k) ==
  {j \in k + 2 .. Len(text) : j = Len(text) \/ text[j + 1] = NL}
BlockEnds(text, k) ==
  {Len(text)} \cup {j \in k + 4 .. Len(text) : text[j - 1] = STAR /\ text[j] = SLASH}

\* Where the whitespace and comments that begin after k characters end.
NoiseEnd(text) ==
  LET end[k \in 0 .. Len(text)] ==
        IF k = Len(text) THEN Len(text)
        ELSE IF text[k + 1] \in Blank THEN end[k + 1]
        ELSE IF Opens(text, k, SLASH) THEN end[First(LineEnds(text, k))]
        ELSE IF Opens(text, k, STAR) THEN end[First(BlockEnds(text, k))]
        ELSE k
  IN  end

Tiled(text) ==
  \A k \in Scanned :
    LET before == IF k = 1 THEN 0 ELSE tokens[k - 1].end
    IN  Clip(tokens[k].start) = NoiseEnd(text)[Clip(before)]

\* Where the loop over the body of the block comment behind k characters stops: at
\* a star, or in front of a slash.
Stops(text, k) ==
  {j \in k + 3 .. Len(text) : text[j] = STAR \/ (j < Len(text) /\ text[j + 1] = SLASH)}

\* In every block comment the first star, and the first character with a slash
\* behind it, is the star of the closing delimiter.
PlainComments(text) ==
  \A k \in 0 .. Len(text) :
    Opens(text, k, STAR) /\ Stops(text, k) # {} =>
      LET j == First(Stops(text, k))
      IN  j < Len(text) /\ text[j] = STAR /\ text[j + 1] = SLASH

\* "Consumes exactly the characters belonging to that one token": tokens and the
\* whitespace and comments between them tile the source, so nothing is skipped or
\* scanned twice, and the end-of-stream token stands at the end.  Limited to
\* comments whose body has no star or slash.
TokensTile == Foreseen /\ PlainComments(Source) => Tiled(Source)

\* Comments "never become tokens", whatever they contain.
CommentsDropped == Foreseen => Tiled(Source)

LineAt(text, k) == 1 + Cardinality({i \in 1..k : text[i] = NL})
ColumnAt(text, k) ==
  1 + k - (CHOOSE i \in 0..k : /\ i # 0 => text[i] = NL
                               /\ \A j \in i + 1 .. k : text[j] # NL)

\* A token's position is "the line and column where the lexeme begins".
TokenPositions ==
  Undisturbed =>
    \A k \in Scanned :
      LET t == tokens[k]
      IN  t.start <= Len(Source) =>
            /\ t.line = LineAt(Source, t.start)
            /\ t.column = ColumnAt(Source, t.start)

\* The text of a string: a backslash stands for the character after it.  None
\* marks a backslash that has no character after it.
Unescape(s) ==
  LET from[i \in 1 .. Len(s) + 2] ==
        IF i > Len(s) THEN <<>>
        ELSE IF s[i] # BACKSLASH THEN <<s[i]>> \o from[i + 1]
        ELSE IF i = Len(s) THEN <<None>>
        ELSE <<s[i + 1]>> \o from[i + 2]
  IN  from[1]

Inner(t) == Unescape(SubSeq(Source, t.start + 2, t.end - 1))
Delimited(t) ==
  /\ t.start + 2 <= t.end
  /\ t.end <= Len(Source)
  /\ Source[t.end] = Source[t.start + 1]
  /\ None \notin {Inner(t)[i] : i \in DOMAIN Inner(t)}

IsNumber(t) == t.type \in NumberTypes
TextOf(t) == SubSeq(Source, t.start + 1, Clip(t.end))

\* A token's text is "the exact slice of source that produced it": for strings,
\* the text between the delimiters; for numbers, those the file does not end in.  The
\* tokens are those that begin in the file: a block comment that the file ends in may
\* leave bytes behind the end that are scanned like others.
LexemeIsSlice ==
  Undisturbed =>
    \A k \in Scanned :
      LET t == tokens[k]
      IN  t.start < Len(Source) =>
            /\ t.type \in {"WORD", "OPERATOR"} => t.content = TextOf(t)
            /\ IsNumber(t) /\ t.end <= Len(Source) => t.content = TextOf(t)
            /\ t.type = "STRING" /\ Delimited(t) => t.content = Inner(t)
            /\ t.type = "CHAR" => <<APOSTROPHE>> \o t.content \o <<APOSTROPHE>> = TextOf(t)

\* The same for the numbers the file ends in.
NumberIsSlice ==
  Undisturbed => \A k \in Scanned : IsNumber(tokens[k]) => tokens[k].content = TextOf(tokens[k])

\* The type a number's spelling calls for.
ShapeType(s) ==
  LET last == s[Len(s)]
      unsigned == 117 \in {s[i] : i \in DOMAIN s}
      floating == DOT \in {s[i] : i \in DOMAIN s}
  IN  IF last \in DOMAIN Suffix THEN (IF unsigned THEN Unsigned ELSE Suffix)[last]
      ELSE IF last = 100 THEN "DOUBLE"
      ELSE IF floating THEN "FLOAT"
      ELSE IF unsigned THEN "UINT32"
      ELSE "INT32"

\* The numbers whose type was decided with all their characters in sight: neither the
\* buffer nor the file ended under the lookahead.
Looked(t) ==
  /\ IsNumber(t)
  /\ t.end - t.start <= SIZE
  /\ \/ t.end < Len(Source)
     \/ t.end = Len(Source) /\ Source[t.end] \in DOMAIN Suffix \cup {100}

\* "The type is decided from the literal's shape and its suffix": for the numbers
\* that the lookahead saw the end of.
TypeFromShape ==
  Foreseen =>
    \A k \in Scanned : Looked(tokens[k]) => tokens[k].type = ShapeType(TextOf(tokens[k]))

\* The value of a number's spelling, behind a minus or not.
SpelledValue(s) == IF s[1] = MINUS THEN -Spelled(s) ELSE Spelled(s)

\* What ast_literal makes of an integer token by way of str_to_<type> is the number
\* that the source spells, and is refused exactly when the token's type cannot hold
\* it; for the numbers that the lookahead saw the end of.  It rests on the scanner: the
\* conversion itself takes a minus in front of an unsigned number, and stops at a dot.
LiteralDenotes ==
  Foreseen =>
    \A k \in Scanned :
      LET t == tokens[k]
          n == SpelledValue(TextOf(t))
      IN  t.type \in IntegerTypes /\ Looked(t) =>
            Convert(t.type, t.content) \in
              IF n \in TypeMin(t.type) .. TypeMax(t.type)
              THEN {[status |-> "OK", value |-> n]}
              ELSE {Failed("EXCEEDS_MIN"), Failed("EXCEEDS_MAX"), Failed("EXCEEDS_RANGE")}

\* Words, numbers and operators are maximal runs: the character that follows
\* could not have made the same token longer.
MaximalMunch ==
  Foreseen =>
    \A k \in Scanned :
      LET t == tokens[k]
          after == Source[t.end + 1]
      IN  t.end < Len(Source) =>
            /\ t.type = "WORD" => ~IsWordChar(after)
            /\ t.type = "OPERATOR" => t.content \o <<after>> \notin Pairs
            /\ t.type \in {"INT32", "FLOAT"} /\ Looked(t) =>
                 ~IsDigit(after) /\ after \notin {DOT, 117, 100} \cup DOMAIN Suffix

\* The end-of-stream token says that the whole file has been scanned: neither a failed
\* read nor a lookahead behind the end of a chunk passes for the end of the file.
EndTokenAtEnd ==
  pc = "idle" /\ Intact /\ Finished /\ tokens[Len(tokens)].type = "EOS" =>
    Len(delivered) >= Len(Content[SourceFile])

\* The loops over the body of a comment do not look for an error of the reader.
StuckInComment == reader.stateError /\ pc \in {"line_comment", "block_comment"}

\* scanner_read_all returns, having met the end or an error, whatever is cut off
\* where: unless the reader hands out bytes that are no longer in the file, or a read
\* fails in a comment.
ScanEnds == <>(pc = "destroyed" \/ ~Intact \/ StuckInComment)

=============================================================================

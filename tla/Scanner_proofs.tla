---------------------------- MODULE Scanner_proofs ----------------------------
(***************************************************************************)
(* Theorems about Scanner, for every buffer size, every set of files,      *)
(* every limit on the tokens, and with reads that fail.  The reader's own  *)
(* theorems carry over, because every step of the scanner is one of the    *)
(* reader or none.                                                         *)
(***************************************************************************)
EXTENDS Scanner, BufReader_proofs

(***************************************************************************)
(* The places of the code and what holds at each                           *)
(***************************************************************************)

\* The places inside scanner_read_next.
Running == Labels \ {"new", "open", "idle", "destroyed"}

\* Where a run of buf_reader_consume calls may go on.
Afters ==
  {"skip", "line_comment", "block_comment", "operator", "string_peek", "char",
   "string_end", "char_end"}

\* What the locals f are good for at a label: the texts fit their buffers, a lookahead of a
\* number stays inside the reader's reach, and its type is known when it is copied.
Suits(label, f) ==
  /\ label \in Labels
  /\ f \in FrameSet
  /\ label \in {"word_peek", "word_next"} => Len(f.content) <= TOKEN_MAX_LENGTH
  /\ label \in {"string_peek", "string", "string_end"} => Len(f.content) <= TOKEN_STRING_MAX_LENGTH
  /\ label \in {"second", "third", "number", "number_unsigned"} => f.seeked <= SIZE
  /\ label \in {"number_copy", "number_end"} => f.type \in NumberTypes
  /\ label = "eat" =>
       /\ f.left \in 1..2 /\ f.after \in Afters
       /\ f.after \in {"string_peek", "string_end"} => Len(f.content) <= TOKEN_STRING_MAX_LENGTH

\* The inductive invariant of the scanner's own variables.
ScanTypes == path \in Names /\ Suits(pc, frame) /\ tokens \in Seq(TokenSet)

\* A recogniser keeps the place where its token begins.
SamePlace(f, g) == g.start = f.start /\ g.line = f.line /\ g.column = f.column

(***************************************************************************)
(* What a step does to the scanner's variables: it goes on, or it makes a  *)
(* token                                                                   *)
(***************************************************************************)

Lands(f) ==
  /\ pc' \in Running /\ Suits(pc', frame') /\ SamePlace(f, frame')
  /\ UNCHANGED <<path, tokens>>

\* The two ways scanner_read_next can tell the end: the reader has nothing more, or a NUL
\* is next.
EndSeen ==
  /\ UNCHANGED delivered
  /\ \/ ~HasNext /\ Quiet
     \/ Peek /\ Answer = NUL

\* A token has the place of its recogniser's start, or, at the end, of the reader.
Stamped(t) ==
  \/ t.type = "ERROR"
  \/ t.type # "EOS" /\ SamePlace(frame, t)
  \/ /\ t.type = "EOS" /\ EndSeen /\ t.start = Len(delivered')
     /\ t.line = reader'.lineNumber /\ t.column = reader'.columnNumber

Makes ==
  /\ \E t \in TokenSet : tokens' = Append(tokens, t) /\ Stamped(t)
  /\ pc' = "idle" /\ Suits(pc', frame')
  /\ UNCHANGED <<path, frame>>

(***************************************************************************)
(* The locals, edited one by one                                           *)
(***************************************************************************)

\* Storing a text.
LEMMA EditContent ==
  ASSUME NEW f \in FrameSet, NEW s \in Seq(Byte), NEW g, g = [f EXCEPT !.content = s]
  PROVE  /\ g \in FrameSet /\ SamePlace(f, g)
         /\ g.content = s /\ g.seeked = f.seeked /\ g.type = f.type
  BY DEF FrameSet, SamePlace

\* Storing the character looked at.
LEMMA EditNext ==
  ASSUME NEW f \in FrameSet, NEW c \in Byte \cup {None}, NEW g, g = [f EXCEPT !.next = c]
  PROVE  /\ g \in FrameSet /\ SamePlace(f, g)
         /\ g.content = f.content /\ g.seeked = f.seeked /\ g.type = f.type
  BY DEF FrameSet, SamePlace

\* Counting the characters looked at.
LEMMA EditSeeked ==
  ASSUME NEW f \in FrameSet, f.seeked <= SIZE, NEW g, g = [f EXCEPT !.seeked = @ + 1]
  PROVE  /\ g \in FrameSet /\ SamePlace(f, g)
         /\ g.content = f.content /\ g.seeked = f.seeked + 1 /\ g.type = f.type
  <1>1. f.seeked + 1 \in 0 .. SIZE + 1
    BY SizeAssumption DEF FrameSet
  <1>2. g = [f EXCEPT !.seeked = f.seeked + 1]
    OBVIOUS
  <1>3. QED
    BY <1>1, <1>2 DEF FrameSet, SamePlace

\* Deciding the type.
LEMMA EditType ==
  ASSUME NEW f \in FrameSet, NEW type \in NumberTypes, NEW g, g = [f EXCEPT !.type = type]
  PROVE  /\ g \in FrameSet /\ SamePlace(f, g)
         /\ g.content = f.content /\ g.seeked = f.seeked /\ g.type = type
  BY DEF FrameSet, SamePlace

\* The flags of a number, of a string and of scanner_read_next.
LEMMA EditFlags ==
  ASSUME NEW f \in FrameSet, NEW b \in BOOLEAN,
         NEW g, \/ g = [f EXCEPT !.negative = b]
                \/ g = [f EXCEPT !.floating = b]
                \/ g = [f EXCEPT !.escape = b]
                \/ g = [f EXCEPT !.again = b]
  PROVE  /\ g \in FrameSet /\ SamePlace(f, g)
         /\ g.content = f.content /\ g.seeked = f.seeked /\ g.type = f.type
  <1>1. CASE g = [f EXCEPT !.negative = b]
    BY <1>1 DEF FrameSet, SamePlace
  <1>2. CASE g = [f EXCEPT !.floating = b]
    BY <1>2 DEF FrameSet, SamePlace
  <1>3. CASE g = [f EXCEPT !.escape = b]
    BY <1>3 DEF FrameSet, SamePlace
  <1>4. CASE g = [f EXCEPT !.again = b]
    BY <1>4 DEF FrameSet, SamePlace
  <1>5. QED
    BY <1>1, <1>2, <1>3, <1>4

\* Setting out to consume n characters.
LEMMA EditLeft ==
  ASSUME NEW f \in FrameSet, NEW n \in 0..2, NEW label \in Labels,
         NEW g, g = [f EXCEPT !.left = n, !.after = label]
  PROVE  /\ g \in FrameSet /\ SamePlace(f, g)
         /\ g.content = f.content /\ g.left = n /\ g.after = label
  BY DEF FrameSet, SamePlace

(***************************************************************************)
(* The ways a step goes on                                                 *)
(***************************************************************************)

\* Going on with the locals as they are.
LEMMA GotoLands ==
  ASSUME NEW label \in Running, Goto(label), Suits(label, frame)
  PROVE  Lands(frame)
  BY DEF Goto, Lands, SamePlace

\* Going on with new locals.
LEMMA ContinueLands ==
  ASSUME NEW label \in Running, NEW f, NEW g, Continue(label, g), Suits(label, g), SamePlace(f, g)
  PROVE  Lands(f)
  BY DEF Continue, Lands

\* Consuming characters first.
LEMMA EatLands ==
  ASSUME NEW n \in 1..2, NEW label \in Afters, NEW f, NEW g \in FrameSet, EatThen(n, label, g),
         SamePlace(f, g),
         label \in {"string_peek", "string_end"} => Len(g.content) <= TOKEN_STRING_MAX_LENGTH
  PROVE  Lands(f)
  <1> DEFINE h == [g EXCEPT !.left = n, !.after = label]
  <1>1. label \in Labels /\ n \in 0..2
    BY DEF Afters, Labels
  <1>2. /\ h \in FrameSet /\ SamePlace(g, h)
        /\ h.content = g.content /\ h.left = n /\ h.after = label
    BY <1>1 DEF FrameSet, SamePlace
  <1>3. Continue("eat", h)
    BY DEF EatThen
  <1> HIDE DEF h
  <1>4. Suits("eat", h)
    BY <1>2 DEF Suits, Labels
  <1>5. "eat" \in Running
    BY DEF Running, Labels
  <1>6. SamePlace(f, h)
    BY <1>2 DEF SamePlace
  <1>7. QED
    BY <1>3, <1>4, <1>5, <1>6, ContinueLands

\* Making a token.
LEMMA EmitMakes ==
  ASSUME NEW type \in NumberTypes \cup {"EOS", "ERROR", "WORD", "OPERATOR", "STRING", "CHAR"},
         NEW line \in Nat, NEW column \in Nat, NEW content \in Seq(Byte), NEW start \in Nat,
         Emit(type, line, column, content, start), delivered' \in Seq(Byte), frame \in FrameSet,
         \/ type = "ERROR"
         \/ type # "EOS" /\ line = frame.line /\ column = frame.column /\ start = frame.start
         \/ /\ type = "EOS" /\ EndSeen /\ line = reader'.lineNumber /\ column = reader'.columnNumber
            /\ start = Len(delivered')
  PROVE  Makes
  <1> DEFINE t == [type |-> type, line |-> line, column |-> column,
                   content |-> content, start |-> start, end |-> Len(delivered')]
  <1>1. tokens' = Append(tokens, t) /\ pc' = "idle" /\ UNCHANGED <<path, frame>>
    BY DEF Emit
  <1>2. Len(delivered') \in Nat
    OBVIOUS
  <1>3. t \in TokenSet
    BY <1>2 DEF TokenSet
  <1>4. Stamped(t)
    BY DEF Stamped, SamePlace
  <1>5. Suits(pc', frame')
    BY <1>1 DEF Suits, Labels
  <1> HIDE DEF t
  <1>6. QED
    BY <1>1, <1>3, <1>4, <1>5 DEF Makes


(***************************************************************************)
(* What the answers of the reader are                                      *)
(***************************************************************************)

\* The types before and after a step, where the reader's own theorem supplies the latter.
Typed2 == ScanTypes /\ TypeOK /\ TypeOK'

\* The components of the two states.
LEMMA Facts ==
  ASSUME Typed2
  PROVE  /\ frame \in FrameSet /\ frame.content \in Seq(Byte) /\ frame.start \in Nat
         /\ frame.line \in Nat /\ frame.column \in Nat /\ Len(frame.content) \in Nat
         /\ delivered \in Seq(Byte) /\ Len(delivered) \in Nat
         /\ delivered' \in Seq(Byte) /\ Len(delivered') \in Nat
         /\ reader'.lineNumber \in Nat /\ reader'.columnNumber \in Nat
         /\ Answer \in Byte \cup {None} /\ Char(Answer) \in Byte
  <1>1. frame \in FrameSet
    BY DEF Typed2, ScanTypes, Suits
  <1>2. frame.content \in Seq(Byte) /\ frame.start \in Nat /\ frame.line \in Nat /\ frame.column \in Nat
    BY <1>1 DEF FrameSet
  <1>3. delivered \in Seq(Byte) /\ delivered' \in Seq(Byte)
    BY DEF Typed2, TypeOK
  <1>4. reader'.lineNumber \in Nat /\ reader'.columnNumber \in Nat
    BY DEF Typed2, TypeOK, Reader
  <1>5. Answer \in Byte \cup {None}
    BY DEF Typed2, TypeOK, Call, Answer
  <1>6. Char(Answer) \in Byte
    BY <1>5 DEF Char, Byte, None
  <1>7. Len(frame.content) \in Nat /\ Len(delivered) \in Nat /\ Len(delivered') \in Nat
    BY <1>2, <1>3
  <1>8. QED
    BY <1>1, <1>2, <1>3, <1>4, <1>5, <1>6, <1>7

\* A new set of locals.
LEMMA FrameTyped ==
  ASSUME TypeOK, NEW c \in Byte \cup {None}
  PROVE  /\ Frame(c) \in FrameSet /\ SamePlace(Frame(None), Frame(c))
         /\ Frame(c).content = <<>> /\ Frame(c).seeked = 0
  <1>1. Len(delivered) \in Nat /\ reader.lineNumber \in Nat /\ reader.columnNumber \in Nat
    BY DEF TypeOK, Reader
  <1>2. 0 \in 0 .. SIZE + 1 /\ <<>> \in Seq(Byte) /\ "idle" \in Labels
    BY SizeAssumption DEF Labels
  <1>3. QED
    BY <1>1, <1>2 DEF Frame, FrameSet, SamePlace

\* A lookahead that is answered stayed inside the buffer.
LEMMA AnsweredReach ==
  ASSUME NEW n \in Nat, PeekN(n), Answer # None
  PROVE  n < SIZE
  <1>1. SUFFICES ASSUME SIZE <= n PROVE FALSE
    BY SizeAssumption
  <1>2. ~(n < SIZE)
    BY <1>1, SizeAssumption
  <1>3. call' = [op |-> "peek_n", arg |-> n, ret |-> None]
    BY <1>1, <1>2 DEF PeekN, Returns
  <1>4. QED
    BY <1>3 DEF Answer

(***************************************************************************)
(* The shapes most steps have                                              *)
(***************************************************************************)

\* The labels that ask nothing of the locals.
Plain ==
  {"skip", "skip_slash", "line_comment", "block_comment", "block_second", "dispatch",
   "operator", "word", "char", "char_peek", "char_end"}

\* Any locals suit a plain label.
LEMMA PlainSuits ==
  ASSUME NEW label \in Plain, NEW f \in FrameSet
  PROVE  Suits(label, f) /\ label \in Running
  BY DEF Plain, Suits, Running, Labels

\* Going to a plain label.
LEMMA GotoPlain ==
  ASSUME NEW label \in Plain, Goto(label), frame \in FrameSet
  PROVE  Lands(frame)
  BY PlainSuits, GotoLands

\* Going to a plain label with new locals.
LEMMA ContinuePlain ==
  ASSUME NEW label \in Plain, NEW f, NEW g \in FrameSet, Continue(label, g), SamePlace(f, g)
  PROVE  Lands(f)
  BY PlainSuits, ContinueLands

\* Consuming characters on the way to a label that asks nothing.
LEMMA EatPlain ==
  ASSUME NEW n \in 1..2, NEW label \in Afters \ {"string_peek", "string_end"},
         EatThen(n, label, frame), frame \in FrameSet
  PROVE  Lands(frame)
  <1>1. SamePlace(frame, frame)
    BY DEF SamePlace
  <1>2. QED
    BY <1>1, EatLands

\* A token of nothing at the reader's own place.
LEMMA HereMakes ==
  ASSUME Typed2, NEW type \in {"ERROR", "EOS"}, EmitHere(type), UNCHANGED delivered,
         type = "EOS" => EndSeen
  PROVE  Makes
  <1>1. Emit(type, reader'.lineNumber, reader'.columnNumber, <<>>, Len(delivered))
    BY DEF EmitHere
  <1>2. <<>> \in Seq(Byte) /\ Len(delivered) = Len(delivered')
    OBVIOUS
  <1>3. QED
    BY <1>1, <1>2, Facts, EmitMakes

\* A token of what the recogniser gathered.
LEMMA LexemeMakes ==
  ASSUME Typed2, NEW type \in NumberTypes \cup {"WORD", "OPERATOR", "STRING", "CHAR"},
         EmitLexeme(type)
  PROVE  Makes
  <1>1. Emit(type, frame.line, frame.column, frame.content, frame.start)
    BY DEF EmitLexeme
  <1>2. type # "EOS"
    BY DEF NumberTypes
  <1>3. QED
    BY <1>1, <1>2, Facts, EmitMakes

\* An error of a number, at some column.
LEMMA NumberErrorMakes ==
  ASSUME Typed2, NEW column \in Nat, NumberError(column)
  PROVE  Makes
  <1>1. Emit("ERROR", frame.line, column, <<>>, frame.start)
    BY DEF NumberError
  <1>2. <<>> \in Seq(Byte)
    OBVIOUS
  <1>3. QED
    BY <1>1, <1>2, Facts, EmitMakes

(***************************************************************************)
(* scanner_skip_whitespace, step by step                                   *)
(***************************************************************************)

\* The end of the loop.
LEMMA SkipDoneLands ==
  ASSUME Typed2, SkipDone
  PROVE  Lands(frame)
  <1>1. CASE frame.again
    <2>1. Continue("skip", [frame EXCEPT !.again = FALSE])
      BY <1>1 DEF SkipDone
    <2>2. /\ [frame EXCEPT !.again = FALSE] \in FrameSet
          /\ SamePlace(frame, [frame EXCEPT !.again = FALSE])
      BY Facts DEF FrameSet, SamePlace
    <2>3. "skip" \in Plain
      BY DEF Plain
    <2>4. QED
      BY <2>1, <2>2, <2>3, ContinuePlain
  <1>2. CASE ~frame.again
    BY <1>2, Facts, GotoPlain DEF SkipDone, Plain
  <1>3. QED
    BY <1>1, <1>2

\* The head of the loop.
LEMMA SkipLands ==
  ASSUME Typed2, Skip
  PROVE  Lands(frame)
  <1>1. CASE SkipDone
    BY <1>1, SkipDoneLands
  <1>2. CASE EatThen(1, "skip", frame)
    BY <1>2, Facts, EatPlain DEF Afters
  <1>3. CASE Goto("skip_slash")
    BY <1>3, Facts, GotoPlain DEF Plain
  <1>4. QED
    BY <1>1, <1>2, <1>3 DEF Skip

\* Comments.
LEMMA CommentLands ==
  ASSUME Typed2, SkipSlash \/ LineComment \/ BlockComment \/ BlockSecond
  PROVE  Lands(frame)
  <1>1. CASE SkipDone
    BY <1>1, SkipDoneLands
  <1>2. CASE \E label \in {"line_comment", "skip", "block_second"} : Goto(label)
    BY <1>2, Facts, GotoPlain DEF Plain
  <1>3. CASE \E n \in 1..2, label \in {"block_comment", "line_comment", "skip"} :
               EatThen(n, label, frame)
    BY <1>3, Facts, EatPlain DEF Afters
  <1>4. 1 \in 1..2 /\ 2 \in 1..2
    OBVIOUS
  <1>5. CASE SkipSlash
    BY <1>1, <1>2, <1>3, <1>4, <1>5, Zenon DEF SkipSlash
  <1>6. CASE LineComment
    BY <1>2, <1>3, <1>4, <1>6, Zenon DEF LineComment
  <1>7. CASE BlockComment
    BY <1>2, <1>3, <1>4, <1>7, Zenon DEF BlockComment, CommentEnds
  <1>8. CASE BlockSecond
    BY <1>2, <1>3, <1>4, <1>8, Zenon DEF BlockSecond, CommentEnds
  <1>9. QED
    BY <1>5, <1>6, <1>7, <1>8


(***************************************************************************)
(* scanner_read_next, step by step                                         *)
(***************************************************************************)

\* The first thing scanner_read_next does.
LEMMA ReadNextLands ==
  ASSUME Typed2, ReadNext
  PROVE  Lands(Frame(None))
  <1>1. Frame(None) \in FrameSet /\ SamePlace(Frame(None), Frame(None))
    BY FrameTyped DEF Typed2
  <1>2. Continue("skip", Frame(None))
    BY DEF ReadNext
  <1>3. "skip" \in Plain
    BY DEF Plain
  <1>4. QED
    BY <1>1, <1>2, <1>3, ContinuePlain

\* One of a run of buf_reader_consume calls: it goes on, or to what comes after.
LEMMA EatStepLands ==
  ASSUME Typed2, Eat
  PROVE  Lands(frame)
  <1>1. /\ frame \in FrameSet /\ frame.left \in 1..2 /\ frame.after \in Afters
        /\ frame.after \in {"string_peek", "string_end"} =>
             Len(frame.content) <= TOKEN_STRING_MAX_LENGTH
    BY DEF Typed2, ScanTypes, Suits, Eat
  <1>2. frame.left - 1 \in 0..2
    BY <1>1
  <1>3. frame' = [frame EXCEPT !.left = frame.left - 1]
    BY DEF Eat
  <1>4. /\ frame' \in FrameSet /\ SamePlace(frame, frame')
        /\ frame'.content = frame.content /\ frame'.left = frame.left - 1
        /\ frame'.after = frame.after
    BY <1>1, <1>2, <1>3 DEF FrameSet, SamePlace
  <1>5. UNCHANGED <<path, tokens>>
    BY DEF Eat
  <1>6. CASE frame.left = 1
    <2>1. pc' = frame.after
      BY <1>6 DEF Eat
    <2>2. Suits(pc', frame') /\ pc' \in Running
      BY <1>1, <1>4, <2>1 DEF Suits, Afters, Labels, Running
    <2>3. QED
      BY <1>4, <1>5, <2>2 DEF Lands
  <1>7. CASE frame.left # 1
    <2>1. pc' = "eat"
      BY <1>7 DEF Eat
    <2>2. frame'.left \in 1..2
      BY <1>1, <1>4, <1>7
    <2>3. Suits(pc', frame') /\ pc' \in Running
      BY <1>1, <1>4, <2>1, <2>2 DEF Suits, Labels, Running
    <2>4. QED
      BY <1>4, <1>5, <2>3 DEF Lands
  <1>8. QED
    BY <1>6, <1>7

\* The dispatch on the first character.
LEMMA DispatchLands ==
  ASSUME Typed2, Dispatch
  PROVE  Lands(Frame(None)) \/ Makes
  <1>1. CASE ~HasNext /\ Quiet /\ EmitHere("EOS")
    <2>1. UNCHANGED delivered
      BY <1>1 DEF Quiet, vars
    <2>2. EndSeen
      BY <1>1, <2>1 DEF EndSeen
    <2>3. QED
      BY <1>1, <2>1, <2>2, HereMakes
  <1>2. CASE Peek /\ HasNext
    <2> DEFINE c == Answer
               f == [Frame(c) EXCEPT !.content = <<c>>]
    <2>1. UNCHANGED delivered
      BY <1>2 DEF Peek
    <2>2. c \in Byte \cup {None}
      BY Facts
    <2>3. Frame(c) \in FrameSet /\ SamePlace(Frame(None), Frame(c))
          /\ Frame(c).content = <<>> /\ Frame(c).seeked = 0
      BY <2>2, FrameTyped DEF Typed2
    <2>4. CASE Continue("word", Frame(c))
      BY <2>3, <2>4, ContinuePlain DEF Plain
    <2>5. CASE Continue("number", Frame(c))
      <3>1. Suits("number", Frame(c)) /\ "number" \in Running
        BY <2>3, SizeAssumption DEF Suits, Labels, Running
      <3>2. QED
        BY <2>3, <2>5, <3>1, ContinueLands
    <2>6. CASE (c = NUL /\ EmitHere("EOS")) \/ EmitHere("ERROR")
      <3>1. c = NUL => EndSeen
        BY <1>2, <2>1 DEF EndSeen
      <3>2. QED
        BY <2>1, <2>6, <3>1, HereMakes
    <2>7. CASE EatThen(1, "string_peek", Frame(c))
      <3>1. Len(Frame(c).content) <= TOKEN_STRING_MAX_LENGTH
        BY <2>3, LengthAssumption
      <3>2. 1 \in 1..2 /\ "string_peek" \in Afters
        BY DEF Afters
      <3>3. QED
        BY <2>3, <2>7, <3>1, <3>2, EatLands
    <2>8. CASE EatThen(1, "char", Frame(c))
      <3>1. 1 \in 1..2 /\ "char" \in Afters \ {"string_peek", "string_end"}
        BY DEF Afters
      <3>2. QED
        BY <2>3, <2>8, <3>1, EatLands
    <2>9. ASSUME c \in Single \cup Ambiguous
          PROVE  f \in FrameSet /\ SamePlace(Frame(None), f) /\ f.seeked = 0
      <3>1. c \in Byte
        BY <2>9 DEF Single, Ambiguous, DOT, STAR, MINUS, EXCLAM, SLASH, Byte
      <3>2. <<c>> \in Seq(Byte)
        BY <3>1
      <3>3. QED
        BY <2>3, <3>2 DEF FrameSet, SamePlace
    <2>10. CASE c \in Single /\ EatThen(1, "operator", f)
      <3>1. 1 \in 1..2 /\ "operator" \in Afters \ {"string_peek", "string_end"}
        BY DEF Afters
      <3>2. QED
        BY <2>9, <2>10, <3>1, EatLands
    <2>11. CASE c \in Ambiguous /\ Continue("second", f)
      <3>1. f \in FrameSet /\ SamePlace(Frame(None), f) /\ f.seeked = 0
        BY <2>9, <2>11
      <3>2. Suits("second", f) /\ "second" \in Running
        BY <3>1, SizeAssumption DEF Suits, Labels, Running
      <3>3. QED
        BY <2>11, <3>1, <3>2, ContinueLands
    <2>12. \/ Continue("word", Frame(c))
           \/ Continue("number", Frame(c))
           \/ c = NUL /\ EmitHere("EOS")
           \/ EmitHere("ERROR")
           \/ EatThen(1, "string_peek", Frame(c))
           \/ EatThen(1, "char", Frame(c))
           \/ c \in Single /\ EatThen(1, "operator", f)
           \/ c \in Ambiguous /\ Continue("second", f)
      BY <1>2, Zenon DEF Dispatch
    <2>13. QED
      BY <2>4, <2>5, <2>6, <2>7, <2>8, <2>10, <2>11, <2>12
  <1>3. QED
    BY <1>1, <1>2, Zenon DEF Dispatch

\* The second look at an operator.
LEMMA SecondLands ==
  ASSUME Typed2, Second
  PROVE  Lands(frame) \/ Makes
  <1> DEFINE pair == <<frame.next, Answer>>
             g == [frame EXCEPT !.content = pair]
             h == [frame EXCEPT !.again = TRUE]
  <1>1. UNCHANGED delivered
    BY DEF Second, PeekN
  <1>2. CASE pair \in Pairs /\ EatThen(2, "operator", g)
    <2>1. frame.next \in Byte /\ Answer \in Byte
      BY <1>2 DEF Pairs, MINUS, EXCLAM, Byte
    <2>2. pair \in Seq(Byte)
      BY <2>1
    <2>3. g \in FrameSet /\ SamePlace(frame, g)
      BY <2>2, Facts DEF FrameSet, SamePlace
    <2>4. 2 \in 1..2 /\ "operator" \in Afters \ {"string_peek", "string_end"}
      BY DEF Afters
    <2>5. QED
      BY <1>2, <2>3, <2>4, EatLands
  <1>3. CASE Continue("skip", h)
    <2>1. h \in FrameSet /\ SamePlace(frame, h)
      BY Facts DEF FrameSet, SamePlace
    <2>2. QED
      BY <1>3, <2>1, ContinuePlain DEF Plain
  <1>4. CASE Goto("third")
    <2>1. pc = "second"
      BY DEF Second
    <2>2. Suits("third", frame) /\ "third" \in Running
      BY <2>1, Facts DEF Typed2, ScanTypes, Suits, Labels, Running
    <2>3. QED
      BY <1>4, <2>2, GotoLands
  <1>5. CASE EmitHere("ERROR")
    BY <1>1, <1>5, HereMakes
  <1>6. CASE EatThen(1, "operator", frame)
    BY <1>6, Facts, EatPlain DEF Afters
  <1>7. QED
    BY <1>2, <1>3, <1>4, <1>5, <1>6, Zenon DEF Second

\* The third look.
LEMMA ThirdLands ==
  ASSUME Typed2, Third
  PROVE  Lands(frame)
  <1> DEFINE g == [frame EXCEPT !.content = <<>>]
             h == [frame EXCEPT !.again = TRUE]
  <1>1. CASE pc = "third" /\ Continue("number", g) /\ frame.seeked <= SIZE
    <2>1. <<>> \in Seq(Byte)
      OBVIOUS
    <2>2. g \in FrameSet /\ SamePlace(frame, g) /\ g.seeked = frame.seeked
      BY <2>1, Facts DEF FrameSet, SamePlace
    <2>3. Suits("number", g) /\ "number" \in Running
      BY <1>1, <2>2 DEF Suits, Labels, Running
    <2>4. QED
      BY <1>1, <2>2, <2>3, ContinueLands
  <1>2. CASE Continue("skip", h)
    <2>1. h \in FrameSet /\ SamePlace(frame, h)
      BY Facts DEF FrameSet, SamePlace
    <2>2. QED
      BY <1>2, <2>1, ContinuePlain DEF Plain
  <1>3. CASE EatThen(1, "operator", frame)
    BY <1>3, Facts, EatPlain DEF Afters
  <1>4. pc = "third" /\ frame.seeked <= SIZE
    BY DEF Third, Typed2, ScanTypes, Suits
  <1>5. QED
    BY <1>1, <1>2, <1>3, <1>4, Zenon DEF Third

\* The token of an operator.
LEMMA OperatorMakes ==
  ASSUME Typed2, Operator
  PROVE  Makes
  BY LexemeMakes DEF Operator


(***************************************************************************)
(* scanner_consume_identifier, step by step                                *)
(***************************************************************************)

\* A text of the locals with one more character.
LEMMA AppendTyped ==
  ASSUME Typed2
  PROVE  /\ Append(frame.content, Char(Answer)) \in Seq(Byte)
         /\ Len(Append(frame.content, Char(Answer))) = Len(frame.content) + 1
         /\ <<Char(Answer)>> \in Seq(Byte) /\ Len(<<Char(Answer)>>) = 1
  BY Facts

\* The first character, and each look at the next one.
LEMMA WordFirstLands ==
  ASSUME Typed2, WordFirst \/ WordPeek
  PROVE  Lands(frame)
  <1>1. CASE WordFirst
    <2> DEFINE g == [frame EXCEPT !.content = <<Char(Answer)>>]
    <2>1. g \in FrameSet /\ SamePlace(frame, g) /\ g.content = <<Char(Answer)>>
      BY Facts, AppendTyped DEF FrameSet, SamePlace
    <2>2. Len(g.content) <= TOKEN_MAX_LENGTH
      BY <2>1, AppendTyped, LengthAssumption
    <2>3. Suits("word_peek", g) /\ "word_peek" \in Running
      BY <2>1, <2>2 DEF Suits, Labels, Running
    <2>4. QED
      BY <1>1, <2>1, <2>3, ContinueLands DEF WordFirst
  <1>2. CASE WordPeek
    <2> DEFINE g == [frame EXCEPT !.next = Answer]
    <2>1. g \in FrameSet /\ SamePlace(frame, g) /\ g.content = frame.content
      BY Facts DEF FrameSet, SamePlace
    <2>2. Len(frame.content) <= TOKEN_MAX_LENGTH
      BY <1>2 DEF WordPeek, Typed2, ScanTypes, Suits
    <2>3. Suits("word_next", g) /\ "word_next" \in Running
      BY <2>1, <2>2 DEF Suits, Labels, Running
    <2>4. QED
      BY <1>2, <2>1, <2>3, ContinueLands DEF WordPeek
  <1>3. QED
    BY <1>1, <1>2

\* The loop stores a character only while the buffer has room, and the token is made after it.
LEMMA WordNextLands ==
  ASSUME Typed2, WordNext
  PROVE  Lands(frame) \/ Makes
  <1> DEFINE g == [frame EXCEPT !.content = Append(@, Char(Answer))]
  <1>1. CASE WordGoesOn(frame) /\ Continue("word_peek", g)
    <2>1. g \in FrameSet /\ SamePlace(frame, g) /\ g.content = Append(frame.content, Char(Answer))
      BY Facts, AppendTyped DEF FrameSet, SamePlace
    <2>2. Len(g.content) <= TOKEN_MAX_LENGTH
      BY <1>1, <2>1, AppendTyped, Facts, LengthAssumption DEF WordGoesOn, WordRoom
    <2>3. Suits("word_peek", g) /\ "word_peek" \in Running
      BY <2>1, <2>2 DEF Suits, Labels, Running
    <2>4. QED
      BY <1>1, <2>1, <2>3, ContinueLands
  <1>2. CASE EmitLexeme("WORD")
    BY <1>2, LexemeMakes
  <1>3. CASE Quiet /\ EmitHere("ERROR")
    BY <1>3, HereMakes DEF Quiet, vars
  <1>4. QED
    BY <1>1, <1>2, <1>3, Zenon DEF WordNext

(***************************************************************************)
(* scanner_consume_number, step by step                                    *)
(***************************************************************************)

\* A lookahead that was answered can be counted.
LEMMA SeekedTyped ==
  ASSUME Typed2, frame.seeked <= SIZE
  PROVE  /\ Seeked \in FrameSet /\ SamePlace(frame, Seeked)
         /\ Seeked.seeked = frame.seeked + 1 /\ frame.seeked \in Nat
  <1>1. frame.seeked \in 0 .. SIZE + 1
    BY Facts DEF FrameSet
  <1>2. frame.seeked + 1 \in 0 .. SIZE + 1 /\ frame.seeked \in Nat
    BY <1>1, SizeAssumption
  <1>3. QED
    BY <1>2, Facts DEF Seeked, FrameSet, SamePlace

\* The type is decided and the copying begins.
LEMMA TypedLands ==
  ASSUME NEW f, NEW g \in FrameSet, SamePlace(f, g), NEW type \in NumberTypes, Typed(g, type)
  PROVE  Lands(f)
  <1>1. /\ [g EXCEPT !.type = type] \in FrameSet /\ SamePlace(f, [g EXCEPT !.type = type])
        /\ [g EXCEPT !.type = type].type = type
    BY DEF FrameSet, SamePlace
  <1>2. Suits("number_copy", [g EXCEPT !.type = type]) /\ "number_copy" \in Running
    BY <1>1 DEF Suits, Labels, Running
  <1>3. QED
    BY <1>1, <1>2, ContinueLands DEF Typed

\* The suffixes name types of numbers.
LEMMA SuffixTypes ==
  /\ \A c \in DOMAIN Suffix : Suffix[c] \in NumberTypes
  /\ \A c \in DOMAIN Unsigned : Unsigned[c] \in NumberTypes
  BY DEF Suffix, Unsigned, NumberTypes

\* The lookahead goes on with a character counted.
LEMMA SeekOnLands ==
  ASSUME Typed2, frame.seeked < SIZE, NEW label \in {"number", "number_unsigned"}, NEW g,
         \/ g = Seeked
         \/ g = [Seeked EXCEPT !.negative = TRUE]
         \/ g = [Seeked EXCEPT !.floating = TRUE],
         Continue(label, g)
  PROVE  Lands(frame)
  <1>1. frame.seeked <= SIZE
    BY SizeAssumption, Facts DEF FrameSet
  <1>2. /\ Seeked \in FrameSet /\ SamePlace(frame, Seeked)
        /\ Seeked.seeked = frame.seeked + 1 /\ frame.seeked \in Nat
    BY <1>1, SeekedTyped
  <1>3. TRUE \in BOOLEAN
    OBVIOUS
  <1>4. g \in FrameSet /\ SamePlace(Seeked, g) /\ g.seeked = Seeked.seeked
    <2>1. CASE g = Seeked
      BY <1>2, <2>1 DEF SamePlace
    <2>2. CASE g # Seeked
      BY <1>2, <1>3, <2>2, EditFlags
    <2>3. QED
      BY <2>1, <2>2
  <1>5. g.seeked <= SIZE
    BY <1>2, <1>4, SizeAssumption
  <1>6. Suits(label, g) /\ label \in Running
    BY <1>4, <1>5 DEF Suits, Labels, Running
  <1>7. SamePlace(frame, g)
    BY <1>2, <1>4 DEF SamePlace
  <1>8. QED
    BY <1>6, <1>7, ContinueLands

\* The lookahead for the type, which never looks further than the buffer is long.
LEMMA NumberSeekLands ==
  ASSUME Typed2, NumberSeek
  PROVE  Lands(frame) \/ Makes
  <1>1. frame.seeked <= SIZE
    BY DEF NumberSeek, Typed2, ScanTypes, Suits
  <1>2. /\ Seeked \in FrameSet /\ SamePlace(frame, Seeked)
        /\ Seeked.seeked = frame.seeked + 1 /\ frame.seeked \in Nat
    BY <1>1, SeekedTyped
  <1>3. frame.column \in Nat /\ frame.column + (frame.seeked + 1) \in Nat
    BY <1>2, Facts
  <1>4. SamePlace(frame, frame)
    BY DEF SamePlace
  <1>5. CASE \E type \in NumberTypes : Typed(Seeked, type) \/ Typed(frame, type)
    BY <1>2, <1>4, <1>5, Facts, TypedLands
  <1>6. CASE \/ NumberError(frame.column + (frame.seeked + 1))
             \/ NumberError(frame.column)
    BY <1>3, <1>6, NumberErrorMakes
  <1>7. CASE /\ Answer # None
             /\ \/ Continue("number", [Seeked EXCEPT !.negative = TRUE])
                \/ Continue("number", [Seeked EXCEPT !.floating = TRUE])
                \/ Continue("number", Seeked)
                \/ Continue("number_unsigned", Seeked)
    <2>1. frame.seeked < SIZE
      BY <1>2, <1>7, AnsweredReach DEF NumberSeek
    <2>2. QED
      BY <1>7, <2>1, SeekOnLands
  <1>8. "INT32" \in NumberTypes /\ "DOUBLE" \in NumberTypes /\ DefaultType \in NumberTypes
    BY DEF NumberTypes, DefaultType
  <1>9. /\ MINUS # None /\ DOT # None /\ 117 # None /\ ~IsDigit(None)
    BY DEF MINUS, DOT, None, IsDigit
  <1>10. QED
    BY <1>5, <1>6, <1>7, <1>8, <1>9, SuffixTypes, Zenon DEF NumberSeek

\* The lookahead past the marker u.
LEMMA NumberUnsignedLands ==
  ASSUME Typed2, NumberUnsigned
  PROVE  Lands(frame) \/ Makes
  <1>1. frame.seeked <= SIZE
    BY DEF NumberUnsigned, Typed2, ScanTypes, Suits
  <1>2. /\ Seeked \in FrameSet /\ SamePlace(frame, Seeked) /\ frame.seeked \in Nat
    BY <1>1, SeekedTyped
  <1>3. frame.column + frame.seeked + 1 \in Nat
    BY <1>2, Facts
  <1>4. SamePlace(frame, frame)
    BY DEF SamePlace
  <1>5. CASE \E type \in NumberTypes : Typed(Seeked, type) \/ Typed(frame, type)
    BY <1>2, <1>4, <1>5, Facts, TypedLands
  <1>6. CASE NumberError(frame.column + frame.seeked + 1)
    BY <1>3, <1>6, NumberErrorMakes
  <1>7. "UINT32" \in NumberTypes
    BY DEF NumberTypes
  <1>8. QED
    BY <1>5, <1>6, <1>7, SuffixTypes, Zenon DEF NumberUnsigned

\* The copying of the characters that were looked at.
LEMMA NumberCopyLands ==
  ASSUME Typed2, NumberCopy
  PROVE  Lands(frame)
  <1> DEFINE g == [frame EXCEPT !.content = Append(@, Answer)]
  <1>1. frame.type \in NumberTypes
    BY DEF NumberCopy, Typed2, ScanTypes, Suits
  <1>2. CASE Goto("number_end")
    <2>1. Suits("number_end", frame) /\ "number_end" \in Running
      BY <1>1, Facts DEF Suits, Labels, Running
    <2>2. QED
      BY <1>2, <2>1, GotoLands
  <1>3. CASE Answer # None /\ Continue("number_copy", g)
    <2>1. Answer \in Byte
      BY <1>3, Facts
    <2>2. Append(frame.content, Answer) \in Seq(Byte)
      BY <2>1, Facts
    <2>3. g \in FrameSet /\ SamePlace(frame, g) /\ g.type = frame.type
      BY <2>2, Facts DEF FrameSet, SamePlace
    <2>4. Suits("number_copy", g) /\ "number_copy" \in Running
      BY <1>1, <2>3 DEF Suits, Labels, Running
    <2>5. QED
      BY <1>3, <2>3, <2>4, ContinueLands
  <1>4. QED
    BY <1>2, <1>3, Zenon DEF NumberCopy

\* The token of a number, or the error of one that is too long.
LEMMA NumberEndMakes ==
  ASSUME Typed2, NumberEnd
  PROVE  Makes
  <1>1. frame.type \in NumberTypes
    BY DEF NumberEnd, Typed2, ScanTypes, Suits
  <1>2. frame.column + Len(frame.content) + 1 \in Nat
    BY Facts
  <1>3. CASE EmitLexeme(frame.type)
    BY <1>1, <1>3, LexemeMakes
  <1>4. CASE NumberError(frame.column + Len(frame.content) + 1)
    BY <1>2, <1>4, NumberErrorMakes
  <1>5. QED
    BY <1>3, <1>4, Zenon DEF NumberEnd

(***************************************************************************)
(* scanner_consume_string and scanner_consume_char, step by step           *)
(***************************************************************************)

\* The look at the next character of a string.
LEMMA StringPeekLands ==
  ASSUME Typed2, StringPeek
  PROVE  Lands(frame)
  <1> DEFINE g == [frame EXCEPT !.next = Answer]
  <1>1. g \in FrameSet /\ SamePlace(frame, g) /\ g.content = frame.content
    BY Facts DEF FrameSet, SamePlace
  <1>2. Len(frame.content) <= TOKEN_STRING_MAX_LENGTH
    BY DEF StringPeek, Typed2, ScanTypes, Suits
  <1>3. Suits("string", g) /\ "string" \in Running
    BY <1>1, <1>2 DEF Suits, Labels, Running
  <1>4. QED
    BY <1>1, <1>3, ContinueLands DEF StringPeek

\* The loop stores a character only while the buffer has room.
LEMMA StringLands ==
  ASSUME Typed2, String
  PROVE  Lands(frame)
  <1> DEFINE g == [frame EXCEPT !.escape = TRUE]
             h == [frame EXCEPT !.escape = FALSE, !.content = Append(@, Char(Answer))]
  <1>1. Len(frame.content) <= TOKEN_STRING_MAX_LENGTH
    BY DEF String, Typed2, ScanTypes, Suits
  <1>2. CASE Continue("string_peek", g)
    <2>1. g \in FrameSet /\ SamePlace(frame, g) /\ g.content = frame.content
      BY Facts DEF FrameSet, SamePlace
    <2>2. Suits("string_peek", g) /\ "string_peek" \in Running
      BY <1>1, <2>1 DEF Suits, Labels, Running
    <2>3. QED
      BY <1>2, <2>1, <2>2, ContinueLands
  <1>3. CASE StringGoesOn(frame) /\ Continue("string_peek", h)
    <2>1. h \in FrameSet /\ SamePlace(frame, h) /\ h.content = Append(frame.content, Char(Answer))
      BY Facts, AppendTyped DEF FrameSet, SamePlace
    <2>2. Len(h.content) <= TOKEN_STRING_MAX_LENGTH
      BY <1>3, <2>1, AppendTyped, Facts, LengthAssumption DEF StringGoesOn, StringRoom
    <2>3. Suits("string_peek", h) /\ "string_peek" \in Running
      BY <2>1, <2>2 DEF Suits, Labels, Running
    <2>4. QED
      BY <1>3, <2>1, <2>3, ContinueLands
  <1>4. CASE EatThen(1, "string_end", frame)
    <2>1. 1 \in 1..2 /\ "string_end" \in Afters /\ SamePlace(frame, frame)
      BY DEF Afters, SamePlace
    <2>2. QED
      BY <1>1, <1>4, <2>1, Facts, EatLands
  <1>5. QED
    BY <1>2, <1>3, <1>4, Zenon DEF String

\* The token of a string, or the error of one that filled its buffer.
LEMMA StringEndMakes ==
  ASSUME Typed2, StringEnd
  PROVE  Makes
  <1>1. CASE EmitLexeme("STRING")
    BY <1>1, LexemeMakes
  <1>2. CASE Quiet /\ EmitHere("ERROR")
    BY <1>2, HereMakes DEF Quiet, vars
  <1>3. QED
    BY <1>1, <1>2, Zenon DEF StringEnd

\* A character literal.
LEMMA CharLands ==
  ASSUME Typed2, CharFirst \/ CharPeek \/ CharEnd
  PROVE  Lands(frame) \/ Makes
  <1>1. CASE CharFirst
    <2>1. /\ [frame EXCEPT !.content = <<Char(Answer)>>] \in FrameSet
          /\ SamePlace(frame, [frame EXCEPT !.content = <<Char(Answer)>>])
      BY Facts, AppendTyped DEF FrameSet, SamePlace
    <2>2. "char_peek" \in Plain
      BY DEF Plain
    <2>3. QED
      BY <1>1, <2>1, <2>2, ContinuePlain DEF CharFirst
  <1>2. CASE CharPeek
    <2>1. CASE EatThen(1, "char_end", frame)
      BY <2>1, Facts, EatPlain DEF Afters
    <2>2. CASE EmitHere("ERROR")
      BY <1>2, <2>2, HereMakes DEF CharPeek, Peek
    <2>3. QED
      BY <1>2, <2>1, <2>2 DEF CharPeek
  <1>3. CASE CharEnd
    BY <1>3, LexemeMakes DEF CharEnd
  <1>4. QED
    BY <1>1, <1>2, <1>3

\* Every step of a recogniser goes on with its token, begins one, or makes one.
LEMMA ScanStepShape ==
  ASSUME Typed2, ScanStep
  PROVE  Lands(frame) \/ Lands(Frame(None)) \/ Makes
  BY ReadNextLands, EatStepLands, SkipLands, CommentLands, DispatchLands, SecondLands,
     ThirdLands, OperatorMakes, WordFirstLands, WordNextLands, NumberSeekLands,
     NumberUnsignedLands, NumberCopyLands, NumberEndMakes, StringPeekLands, StringLands,
     StringEndMakes, CharLands, Zenon
  DEF ScanStep


(***************************************************************************)
(* Every step of the scanner is a step of the reader, or none              *)
(***************************************************************************)

\* A step of scanner_read_next makes one character call or none, and looks no further ahead
\* than the buffer is long.
LEMMA ScanStepCalls ==
  ASSUME ScanTypes, ScanStep
  PROVE  Read \/ Peek \/ (\E n \in 0..SIZE : PeekN(n)) \/ Quiet
  <1>1. 1 \in 0..SIZE
    BY SizeAssumption
  <1>2. CASE ReadNext \/ Eat \/ Skip \/ SkipSlash \/ LineComment \/ BlockComment \/ BlockSecond
    BY <1>1, <1>2, Zenon
    DEF ReadNext, Eat, Skip, SkipSlash, LineComment, BlockComment, BlockSecond
  <1>3. CASE Dispatch \/ Second \/ Third \/ Operator \/ WordFirst \/ WordPeek \/ WordNext
    BY <1>1, <1>3, Zenon DEF Dispatch, Second, Third, Operator, WordFirst, WordPeek, WordNext
  <1>4. CASE NumberSeek \/ NumberUnsigned
    <2>1. pc \in {"number", "number_unsigned"} /\ PeekN(frame.seeked)
      BY <1>4, Zenon DEF NumberSeek, NumberUnsigned
    <2>2. frame.seeked \in 0 .. SIZE + 1 /\ frame.seeked <= SIZE
      BY <2>1 DEF ScanTypes, Suits, FrameSet
    <2>3. frame.seeked \in 0..SIZE
      BY <2>2, SizeAssumption
    <2>4. QED
      BY <2>1, <2>3, Zenon
  <1>5. CASE NumberCopy \/ NumberEnd \/ StringPeek \/ String \/ StringEnd
    BY <1>5, Zenon DEF NumberCopy, NumberEnd, StringPeek, String, StringEnd
  <1>6. CASE CharFirst \/ CharPeek \/ CharEnd
    BY <1>6, Zenon DEF CharFirst, CharPeek, CharEnd
  <1>7. QED
    BY <1>2, <1>3, <1>4, <1>5, <1>6, Zenon DEF ScanStep

\* So the reader's theorems hold for the scanner's reader.
LEMMA ScannerDrives ==
  ASSUME ScanTypes, [ScannerNext]_allVars
  PROVE  [Next]_vars
  <1>1. path \in Names0
    BY DEF ScanTypes, Names0
  <1>2. CASE UNCHANGED allVars
    BY <1>2 DEF allVars
  <1>3. CASE ReaderNew \/ ScannerNew \/ ScannerDestroy
    BY <1>1, <1>3, Zenon DEF ReaderNew, ScannerNew, ScannerDestroy, Next, Lifecycle
  <1>4. CASE ScanStep
    BY <1>4, ScanStepCalls, Zenon DEF Next, CharCall, Quiet
  <1>5. QED
    BY <1>2, <1>3, <1>4, Zenon DEF ScannerNext

(***************************************************************************)
(* Type correctness, and the stack buffers                                 *)
(***************************************************************************)

\* Any locals suit the labels outside scanner_read_next.
LEMMA RestSuits ==
  ASSUME NEW label \in {"new", "open", "idle", "destroyed"}, NEW f \in FrameSet
  PROVE  Suits(label, f)
  BY DEF Suits, Labels

\* Nothing has been scanned in the initial state.
LEMMA InitTypes == ScannerInit => ScanTypes
  <1> SUFFICES ASSUME ScannerInit PROVE ScanTypes
    OBVIOUS
  <1>1. Init /\ path \in Names /\ pc = "new" /\ frame = Frame(None) /\ tokens = <<>>
    BY DEF ScannerInit
  <1>2. TypeOK
    BY <1>1, InitInvariant DEF IInv
  <1>3. Frame(None) \in FrameSet
    BY <1>2, FrameTyped
  <1>4. <<>> \in Seq(TokenSet)
    OBVIOUS
  <1>5. QED
    BY <1>1, <1>3, <1>4, RestSuits DEF ScanTypes

\* What a token is added to stays a sequence of tokens.
LEMMA MakesTypes ==
  ASSUME ScanTypes, Makes
  PROVE  ScanTypes'
  <1>1. PICK t \in TokenSet : tokens' = Append(tokens, t)
    BY DEF Makes
  <1>2. tokens' \in Seq(TokenSet)
    BY <1>1 DEF ScanTypes
  <1>3. QED
    BY <1>2 DEF ScanTypes, Makes

\* The scanner's variables keep their types and the locals suit the place they are used at.
LEMMA TypesStep ==
  ASSUME ScanTypes, TypeOK, TypeOK', [ScannerNext]_allVars
  PROVE  ScanTypes'
  <1>1. Typed2
    BY DEF Typed2
  <1>2. frame \in FrameSet
    BY <1>1, Facts
  <1>3. CASE ReaderNew
    <2>1. pc' = "open" /\ UNCHANGED <<path, frame, tokens>>
      BY <1>3 DEF ReaderNew, Goto
    <2>2. QED
      BY <1>2, <2>1, RestSuits DEF ScanTypes
  <1>4. CASE ScannerNew
    <2>1. pc' = "idle" /\ UNCHANGED <<path, frame, tokens>>
      BY <1>4 DEF ScannerNew, Goto
    <2>2. QED
      BY <1>2, <2>1, RestSuits DEF ScanTypes
  <1>5. CASE ScannerDestroy
    <2>1. pc' = "destroyed" /\ UNCHANGED path /\ tokens' = <<>> /\ frame' = Frame(None)
      BY <1>5 DEF ScannerDestroy
    <2>2. Frame(None) \in FrameSet /\ tokens' \in Seq(TokenSet)
      BY <2>1, FrameTyped
    <2>3. QED
      BY <2>1, <2>2, RestSuits DEF ScanTypes
  <1>6. CASE ScanStep
    <2>1. CASE Lands(frame) \/ Lands(Frame(None))
      BY <2>1 DEF Lands, ScanTypes
    <2>2. CASE Makes
      BY <2>2, MakesTypes
    <2>3. QED
      BY <1>1, <1>6, <2>1, <2>2, ScanStepShape
  <1>7. CASE UNCHANGED allVars
    <2>1. UNCHANGED <<path, pc, frame, tokens>>
      BY <1>7 DEF allVars, scanner
    <2>2. QED
      BY <2>1 DEF ScanTypes
  <1>8. QED
    BY <1>3, <1>4, <1>5, <1>6, <1>7 DEF ScannerNext

\* The reader's invariant together with the scanner's own.
ScanInv == IInv /\ ScanTypes

\* The scanner starts in it.
LEMMA ScanInvInit == ScannerInit => ScanInv
  BY InitInvariant, InitTypes DEF ScanInv, ScannerInit

\* Every step of scanner_read_all keeps it.
LEMMA ScanInvStep == ScanInv /\ [ScannerNext]_allVars => ScanInv'
  <1> SUFFICES ASSUME ScanInv, [ScannerNext]_allVars PROVE ScanInv'
    OBVIOUS
  <1>1. [Next]_vars
    BY ScannerDrives DEF ScanInv
  <1>2. IInv'
    BY <1>1, StepInvariant DEF ScanInv
  <1>3. TypeOK /\ TypeOK' /\ ScanTypes
    BY <1>2 DEF ScanInv, IInv
  <1>4. QED
    BY <1>2, <1>3, TypesStep DEF ScanInv

\* The scanner uses its reader as the reader may be used: whatever holds of every use of
\* buf_reader_* holds of the one scanner_read_all makes.
THEOREM ScannerUsesReader == ScannerSpec => Spec
  <1>1. ScannerInit => Init
    BY DEF ScannerInit
  <1>2. ScanInv /\ [ScannerNext]_allVars => [Next]_vars
    BY ScannerDrives DEF ScanInv
  <1>3. QED
    BY <1>1, <1>2, ScanInvInit, ScanInvStep, PTL DEF ScannerSpec, Spec

\* The scanner's locals, its token array and its reader have their types, with a lookahead
\* that is never longer than the buffer by more than the one character that was refused.
THEOREM ScannerTyping == ScannerSpec => []ScannerTypeOK
  <1>1. ScanInv => ScannerTypeOK
    BY DEF ScanInv, IInv, ScanTypes, Suits, ScannerTypeOK
  <1>2. QED
    BY <1>1, ScanInvInit, ScanInvStep, PTL DEF ScannerSpec

\* scanner_consume_identifier and scanner_consume_string never write past their buffers,
\* whatever TOKEN_MAX_LENGTH and TOKEN_STRING_MAX_LENGTH are and whatever the file holds.
THEOREM BuffersHoldHolds == ScannerSpec => []BuffersHold
  <1>1. ScanInv => BuffersHold
    BY DEF ScanInv, ScanTypes, Suits, BuffersHold
  <1>2. QED
    BY <1>1, ScanInvInit, ScanInvStep, PTL DEF ScannerSpec

===============================================================================

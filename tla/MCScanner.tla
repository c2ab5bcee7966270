------------------------------ MODULE MCScanner ------------------------------
(* Model values for Scanner.  The files are all the short texts over a few     *)
(* alphabets, one alphabet for each recogniser; a file's name is its number.   *)
EXTENDS Scanner

\* All texts over an alphabet (a tuple of characters) of at most n characters.
\* The empty concatenation has TLC compute each list once.
TextsOver(alphabet, n) ==
  LET k == Len(alphabet)
      Longer(texts) ==
        [i \in 1 .. k * Len(texts) |->
           Append(texts[((i - 1) \div k) + 1], alphabet[((i - 1) % k) + 1])] \o <<>>
      level[m \in 0..n] ==
        IF m = 0 THEN << <<>> >> ELSE LET shorter == level[m - 1] IN Longer(shorter)
      upTo[m \in 0..n] == IF m = 0 THEN level[0] ELSE upTo[m - 1] \o level[m]
  IN  upTo[n]

WordTexts == TextsOver(<<97, 95, 49, SPACE, NL, 36>>, 4)
NumberTexts ==
  TextsOver(<<56, MINUS, DOT, 117, 98, 100, SPACE>>, 4) \o TextsOver(<<56, MINUS, 117, 108>>, 4)
StringTexts == TextsOver(<<QUOTE, BACKSLASH, APOSTROPHE, 97, NL>>, 4)
CommentTexts == TextsOver(<<SLASH, STAR, 97, NL>>, 5)
OperatorTexts == TextsOver(<<61, 43, MINUS, EXCLAM, 60, 49>>, 3)

\* Every /* is followed by a star, or by a slash that is not the next character.
Stopped(text) ==
  \A i \in 1 .. Len(text) - 1 :
    text[i] = SLASH /\ text[i + 1] = STAR =>
      \E j \in i + 2 .. Len(text) : text[j] = STAR \/ (j > i + 2 /\ text[j] = SLASH)
StoppedTexts == SelectSeq(CommentTexts, Stopped)

Behind(prefix, texts) == [i \in DOMAIN texts |-> prefix \o texts[i]] \o <<>>
\* Numbers that are as long as the buffer, or end with it.
LongNumberTexts == Behind(<<56, 56>>, TextsOver(<<56, DOT, 98>>, 4))
\* Longer than the buffer, so that tokens and pairs straddle a refill.
ChunkTexts == TextsOver(<<97, 61, SPACE>>, 7)
\* Two characters behind the first four, the second of them in the next chunk.
Straddled == Behind(<<97, 97, SPACE, 97>>, TextsOver(<<61, SLASH, 56, DOT>>, 2))

\* Texts whose reads may fail, after any byte of any chunk.
FailingTexts ==
  Straddled \o TextsOver(<<97, 61, SPACE, NL>>, 3) \o
  TextsOver(<<SLASH, 97, NL>>, 4) \o TextsOver(<<QUOTE, 97, 56>>, 4) \o
  TextsOver(<<97, SPACE>>, 6)

SoundTexts ==
  WordTexts \o NumberTexts \o LongNumberTexts \o StringTexts \o StoppedTexts \o OperatorTexts \o ChunkTexts
AllTexts == SoundTexts \o FailingTexts
\* What each run substitutes for Names, Content and Normalize.
AllNames == DOMAIN AllTexts
AllContent == AllTexts
FailingNames == Len(SoundTexts) + 1 .. Len(AllTexts)
AllNormalize == [n \in AllNames |-> n]
CommentNames == DOMAIN CommentTexts
CommentContent == CommentTexts
CommentNormalize == [n \in CommentNames |-> n]

SmallMaxChars ==
  [t \in NumberTypes |-> CASE t \in {"INT8", "UINT8", "INT16", "UINT16"} -> 2
                           [] t \in {"INT32", "UINT32"} -> 3
                           [] OTHER -> 4]

\* The bits of the integer types: one digit reaches the bounds of the smallest,
\* three those of long long.
SmallWidth ==
  [t \in IntegerTypes |-> CASE t \in {"INT8", "UINT8"} -> 4
                            [] t \in {"INT16", "UINT16"} -> 5
                            [] t \in {"INT32", "UINT32"} -> 7
                            [] OTHER -> 10]
==============================================================================

---------------------------- MODULE MCPureCalls ----------------------------
(* The arguments of the calls.                                              *)
EXTENDS PureCalls

\* Words: every keyword, cut short, continued, and with one letter replaced.
Keyword == UNION {Spellings(t) : t \in DOMAIN VALUE}
Continued == {k \o tail : k \in Keyword, tail \in {"s", "e", "1", "_", "ne"}}
Replaced ==
  UNION {{SubSeq(k, 1, i - 1) \o letter \o From(k, i + 1) : i \in 1 .. Len(k)} :
           k \in Keyword, letter \in {"x", "o"}}

Near == UNION {{SubSeq(k, 1, n) : n \in 1 .. Len(k)} : k \in Keyword} \cup Continued \cup Replaced

OtherWords == {w \in Near : ~Misread(w)}

SmallWidth ==
  [t \in IntegerTypes |-> CASE t \in {"INT8", "UINT8"} -> 4
                            [] t \in {"INT16", "UINT16"} -> 5
                            [] t \in {"INT32", "UINT32"} -> 7
                            [] OTHER -> 10]

DecimalDigits ==
  LET digits[n \in 0..9999] ==
        IF n < 10 THEN <<48 + n>> ELSE Append(digits[n \div 10], 48 + (n % 10))
  IN  digits

\* The bounds of every type and their neighbours, behind every sign, in front of a
\* suffix or nothing; and texts without a digit.
NumeralSet ==
  [type : IntegerTypes,
   sign : {<<>>, <<MINUS_SIGN>>, <<32, PLUS_SIGN>>},
   digits : {<<>>, <<48, 49>>} \cup
            {DecimalDigits[n] : n \in {0, 1} \cup UNION {{2 ^ k - 1, 2 ^ k, 2 ^ k + 1} : k \in 3..10}},
   tail : {<<>>, <<98>>, <<MINUS_SIGN>>}]

\* All paths that fit with their NUL, and those of one byte too many, over a letter, a
\* dot and the separators.
PathNameSet ==
  UNION {[1..n -> {97, PERIOD, SLASH, BACKSLASH}] : n \in 0 .. OS_MAX_PATH_LENGTH}

Spelling == {d[1] : d \in Documented} \cup {"--", "--interactive", "name", "-x", "--x"}
ArgumentSet ==
  {""} \cup Spelling \cup {s \o t : s \in Spelling, t \in {"x", "=1", "-"}}
    \cup UNION {{SubSeq(s, 1, n) : n \in 1 .. Len(s)} : s \in Spelling}

FrameLists == UNION {[1..n -> {Unformatted} \cup 0..4] : n \in 1..3}
TraceSet == [frames : FrameLists, bufLen : 0..8]

=============================================================================

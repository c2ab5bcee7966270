------------------------------- MODULE Trace -------------------------------
(***************************************************************************)
(* trace_sprint of src/common/trace.c: the lines of a stack trace, written *)
(* into a buffer of the caller.  A frame is the length of its text; a      *)
(* character is <<its frame, its place in the frame's text>>.  The line    *)
(* written for a stack without frames is left out.                         *)
(***************************************************************************)
EXTENDS Integers, Sequences

CONSTANT LINE_LENGTH     \* the bytes of `line`, 512 in the code

ASSUME LineAssumption == LINE_LENGTH \in Nat \ {0}

\* A frame whose line snprintf could not format.
Unformatted == -1

Text(i, n) == [k \in 1..n |-> <<i, k>>]

\* Slip: no place is kept for the terminating NUL.
FitsLoose(written, n, bufLen) == written + n <= bufLen

Fits(written, n, bufLen) == written + n < bufLen

\* The loop from frame i on: what has been written, then what is written after it.
\* memcpy takes n bytes of `line`, the length that snprintf would have liked; the
\* ones past the end of `line` are no text of the frame.
Sprint(frames, bufLen) ==
  LET Line(i, n) == [k \in 1..n |-> IF k < LINE_LENGTH THEN <<i, k>> ELSE <<0, k>>]
      buf[i \in 0 .. Len(frames)] ==
        IF i = 0 THEN [text |-> <<>>, full |-> FALSE]
        ELSE LET b == buf[i - 1]
                 n == frames[i]
                 written == Len(b.text)
             IN  IF b.full \/ n <= 0 THEN b
                 ELSE IF Fits(written, n, bufLen) THEN [b EXCEPT !.text = @ \o Line(i, n)]
                 ELSE [text |-> b.text \o Line(i, bufLen - written - 1), full |-> TRUE]
  IN  IF bufLen = 0 THEN <<>> ELSE buf[Len(frames)].text

=============================================================================

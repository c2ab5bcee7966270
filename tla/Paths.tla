------------------------------- MODULE Paths -------------------------------
(***************************************************************************)
(* os_path_normalize of src/common/os.c.  A path is the sequence of its    *)
(* bytes; strtok and strcat are modelled by what they do to its            *)
(* components.                                                             *)
(***************************************************************************)
EXTENDS Integers, Sequences

CONSTANTS
  OS_PATH_SEPARATOR,       \* a slash on POSIX, a backslash on Windows
  OS_MAX_PATH_LENGTH       \* with the terminating NUL

PERIOD == 46
SLASH == 47
BACKSLASH == 92

ASSUME PathAssumption ==
  /\ OS_PATH_SEPARATOR \in {SLASH, BACKSLASH}
  /\ OS_MAX_PATH_LENGTH \in Nat /\ OS_MAX_PATH_LENGTH >= 2

\* The other one is replaced by that of the build before anything else.
IsSeparator(c) == c \in {SLASH, BACKSLASH}

\* str_copy_safe into the working copy: what does not fit is cut off.
WorkingCopy(path) ==
  SubSeq(path, 1, IF Len(path) < OS_MAX_PATH_LENGTH THEN Len(path) ELSE OS_MAX_PATH_LENGTH - 1)

\* strtok: the maximal pieces between separators; empty pieces do not exist.
Closed(scan) ==
  IF scan.open = <<>> THEN scan
  ELSE [pieces |-> Append(scan.pieces, scan.open), open |-> <<>>]

ReadByte(scan, c) ==
  IF IsSeparator(c) THEN Closed(scan) ELSE [scan EXCEPT !.open = Append(@, c)]

Scanned(path) ==
  LET scan[i \in 0 .. Len(path)] ==
        IF i = 0 THEN [pieces |-> <<>>, open |-> <<>>] ELSE ReadByte(scan[i - 1], path[i])
  IN  scan[Len(path)]

Components(path) == Closed(Scanned(path)).pieces

\* str_equals(token, ".", 1) compares one character, so every component that begins
\* with a dot is taken for "."; the branch for ".." behind it is never reached.
IsDot(component) == component[1] = PERIOD

\* Slip: a dot is dropped in front, too.
KeptNoDots(components) ==
  LET parts[i \in 0 .. Len(components)] ==
        IF i = 0 THEN <<>>
        ELSE IF ~IsDot(components[i]) THEN Append(parts[i - 1], components[i])
        ELSE parts[i - 1]
  IN  parts[Len(components)]

\* A dot is kept in front and dropped elsewhere.
Kept(components) ==
  LET parts[i \in 0 .. Len(components)] ==
        IF i = 0 THEN <<>>
        ELSE IF i = 1 \/ ~IsDot(components[i]) THEN Append(parts[i - 1], components[i])
        ELSE parts[i - 1]
  IN  parts[Len(components)]

\* The parts with separators between them; a leading separator is not put back.
Rebuilt(parts) ==
  LET path[i \in 0 .. Len(parts)] ==
        IF i = 0 THEN <<>>
        ELSE IF i = 1 THEN path[i - 1] \o parts[i]
        ELSE Append(path[i - 1], OS_PATH_SEPARATOR) \o parts[i]
  IN  path[Len(parts)]

Normalize(path) ==
  LET rebuilt == Rebuilt(Kept(Components(WorkingCopy(path))))
  IN  IF rebuilt = <<>> THEN <<PERIOD>> ELSE rebuilt

=============================================================================

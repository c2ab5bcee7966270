--------------------------- MODULE Program_proofs ---------------------------
(***************************************************************************)
(* Theorems about Program: for all command lines, all streams of tokens    *)
(* and every pattern of refused allocations, no block of the heap is       *)
(* misused, the array keeps its tokens, and the program implements the     *)
(* lifecycle of its global state.                                          *)
(***************************************************************************)
EXTENDS Program, Recursion_proofs, SequenceTheorems, TLAPS

(***************************************************************************)
(* What the operations on the heap do to a healthy one                     *)
(***************************************************************************)

\* A healthy heap: nothing has been misused, and a number not yet given out is not
\* the number of a live block.
Healthy(m) ==
  /\ m \in Heap
  /\ \A block \in m.live : block[2] <= m.made[block[1]]
  /\ m.fault = FALSE

\* A pointer is NULL or points to a live block of its own role.
Ref(m, pointer, role) == pointer = NULL \/ (pointer \in m.live /\ pointer[1] = role)

\* n comes out of m in good health, by steps that free only blocks of some roles and
\* make no global state.
Spares(m, n, roles) ==
  /\ Healthy(n)
  /\ n.made["gstate"] = m.made["gstate"]
  /\ \A block \in m.live : block[1] \notin roles => block \in n.live

\* NULL is no block.
LEMMA NullIsNoBlock == NULL \notin Block
  BY DEF NULL, Block, Roles

\* Using a live block changes nothing.
LEMMA TouchLive ==
  ASSUME NEW m, Healthy(m), NEW block \in m.live
  PROVE  Touch(m, block) = m
  <1>1. m = [live |-> m.live, made |-> m.made, refused |-> m.refused, fault |-> FALSE]
    BY DEF Healthy, Heap
  <1>2. (m.fault \/ block \notin m.live) = FALSE
    BY DEF Healthy
  <1>3. Touch(m, block) = [m EXCEPT !.fault = FALSE]
    BY <1>2 DEF Touch
  <1>4. QED
    BY <1>1, <1>3

\* A granted block is fresh.
LEMMA GrantedResult ==
  ASSUME NEW m, Healthy(m), NEW role \in Roles, NEW o, o = Granted(m, role)
  PROVE  /\ Healthy(o.mem)
         /\ o.pointer \in Block
         /\ o.pointer \notin m.live
         /\ o.pointer[1] = role
         /\ o.mem.live = m.live \cup {o.pointer}
         /\ o.mem.made = [m.made EXCEPT ![role] = @ + 1]
  <1> DEFINE block == <<role, m.made[role] + 1>>
             n == [live |-> m.live \cup {block}, made |-> [m.made EXCEPT ![role] = @ + 1],
                   refused |-> m.refused, fault |-> FALSE]
  <1>1. m \in Heap /\ m.made \in [Roles -> Nat] /\ m.live \subseteq Block
    BY DEF Healthy, Heap
  <1>2. o.pointer = block /\ o.mem = n
    BY <1>1 DEF Granted, Healthy, Heap
  <1>3. block \in Block
    BY <1>1 DEF Block
  <1>4. block \notin m.live
    BY <1>1 DEF Healthy
  <1>5. n.made \in [Roles -> Nat] /\ n.made[role] = m.made[role] + 1
        /\ \A other \in Roles : other # role => n.made[other] = m.made[other]
    BY <1>1
  <1>6. n \in Heap
    BY <1>1, <1>3, <1>5 DEF Heap, Healthy
  <1>7. ASSUME NEW b \in n.live
        PROVE  b[2] <= n.made[b[1]]
    <2>1. CASE b = block
      BY <2>1, <1>5, <1>1
    <2>2. CASE b \in m.live
      <3>1. b \in Block /\ b[2] <= m.made[b[1]]
        BY <2>2, <1>1 DEF Healthy
      <3>2. b[1] \in Roles /\ b[2] \in Nat
        BY <3>1 DEF Block
      <3>3. n.made[b[1]] = m.made[b[1]] \/ (b[1] = role /\ n.made[b[1]] = m.made[b[1]] + 1)
        BY <3>2, <1>5
      <3>4. m.made[b[1]] \in Nat
        BY <3>2, <1>1
      <3>5. QED
        BY <3>1, <3>2, <3>3, <3>4
    <2>3. QED
      BY <2>1, <2>2
  <1>8. Healthy(n)
    BY <1>6, <1>7 DEF Healthy
  <1>9. QED
    BY <1>2, <1>3, <1>4, <1>8

\* A refused allocation leaves the blocks as they are.
LEMMA RefusedResult ==
  ASSUME NEW m, Healthy(m), NEW role \in Roles, NEW o, o = RefusedTo(m, role)
  PROVE  /\ Healthy(o.mem)
         /\ o.pointer = NULL
         /\ o.mem.live = m.live
         /\ o.mem.made = m.made
  <1>1. o.mem = [live |-> m.live, made |-> m.made, refused |-> m.refused \cup {role},
                 fault |-> FALSE]
    BY DEF RefusedTo, Healthy, Heap
  <1>2. QED
    BY <1>1 DEF RefusedTo, Healthy, Heap

\* malloc answers NULL or a new block; the counts of the other roles stay.
LEMMA MallocResult ==
  ASSUME NEW m, Healthy(m), NEW role \in Roles, NEW o \in Malloc(m, role)
  PROVE  /\ Healthy(o.mem)
         /\ o.pointer \in Pointer
         /\ o.pointer \notin m.live
         /\ o.pointer # NULL => o.pointer \in o.mem.live /\ o.pointer[1] = role
         /\ o.pointer = NULL => o.mem.live = m.live
         /\ o.pointer # NULL => o.mem.live = m.live \cup {o.pointer}
         /\ \A other \in Roles : other # role => o.mem.made[other] = m.made[other]
         /\ o.pointer # NULL => o.mem.made[role] # 0
         /\ o.pointer = NULL => o.mem.made = m.made
  <1>1. m.made \in [Roles -> Nat] /\ m.live \subseteq Block
    BY DEF Healthy, Heap
  <1>2. CASE o = Granted(m, role)
    <2>1. /\ Healthy(o.mem) /\ o.pointer \in Block /\ o.pointer \notin m.live
          /\ o.pointer[1] = role /\ o.mem.live = m.live \cup {o.pointer}
          /\ o.mem.made = [m.made EXCEPT ![role] = @ + 1]
      BY <1>2, GrantedResult
    <2>2. /\ \A other \in Roles : other # role => o.mem.made[other] = m.made[other]
          /\ o.mem.made[role] = m.made[role] + 1 /\ m.made[role] \in Nat
      BY <2>1, <1>1
    <2>3. o.pointer # NULL /\ o.pointer \in Pointer
      BY <2>1, NullIsNoBlock DEF Pointer
    <2>4. o.mem.made[role] # 0
      BY <2>2
    <2>5. QED
      BY <2>1, <2>2, <2>3, <2>4
  <1>3. CASE o = RefusedTo(m, role)
    <2>1. Healthy(o.mem) /\ o.pointer = NULL /\ o.mem.live = m.live /\ o.mem.made = m.made
      BY <1>3, RefusedResult
    <2>2. QED
      BY <2>1, <1>1, NullIsNoBlock DEF Pointer
  <1>4. QED
    BY <1>2, <1>3 DEF Malloc

\* free of NULL or of a live block takes away this block and no other.
LEMMA FreeResult ==
  ASSUME NEW m, Healthy(m), NEW block, block = NULL \/ block \in m.live
  PROVE  /\ Healthy(Free(m, block))
         /\ Free(m, block).live = m.live \ {block}
         /\ Free(m, block).made = m.made
  <1>1. m.live \subseteq Block
    BY DEF Healthy, Heap
  <1>2. CASE block = NULL
    BY <1>2, <1>1, NullIsNoBlock DEF Free
  <1>3. CASE block \in m.live
    <2>1. block # NULL /\ Touch(m, block) = m
      BY <1>3, <1>1, NullIsNoBlock, TouchLive
    <2>2. Free(m, block) = [m EXCEPT !.live = @ \ {block}]
      BY <2>1 DEF Free
    <2>3. Free(m, block) = [live |-> m.live \ {block}, made |-> m.made,
                            refused |-> m.refused, fault |-> FALSE]
      BY <2>2 DEF Healthy, Heap
    <2>4. QED
      BY <2>3 DEF Healthy, Heap
  <1>4. QED
    BY <1>2, <1>3

\* Freeing a sequence of live blocks, none of which it names twice.
LEMMA FreeEachResult ==
  ASSUME NEW m, Healthy(m), NEW blocks,
         \A i \in DOMAIN blocks : blocks[i] = NULL \/ blocks[i] \in m.live,
         \A i, j \in DOMAIN blocks : blocks[i] # NULL /\ blocks[i] = blocks[j] => i = j,
         \A i \in DOMAIN blocks : i \in Int
  PROVE  /\ Healthy(FreeEach(m, blocks))
         /\ FreeEach(m, blocks).live = m.live \ {blocks[i] : i \in DOMAIN blocks}
         /\ FreeEach(m, blocks).made = m.made
  <1> DEFINE freed == {i \in DOMAIN blocks : blocks[i] # NULL}
             bad == \E i \in freed : \/ blocks[i] \notin m.live
                                     \/ \E j \in freed : j < i /\ blocks[j] = blocks[i]
  <1>1. \A i \in freed : blocks[i] \in m.live
    OBVIOUS
  <1>2. \A i, j \in freed : j < i => blocks[j] # blocks[i]
    OBVIOUS
  <1>3. bad = FALSE
    BY <1>1, <1>2
  <1>4. m.live \ {blocks[i] : i \in freed} = m.live \ {blocks[i] : i \in DOMAIN blocks}
    BY NullIsNoBlock DEF Healthy, Heap
  <1>5. m = [live |-> m.live, made |-> m.made, refused |-> m.refused, fault |-> FALSE]
    BY DEF Healthy, Heap
  <1>6. FreeEach(m, blocks) =
          [m EXCEPT !.live = @ \ {blocks[i] : i \in freed}, !.fault = @ \/ bad]
    BY DEF FreeEach
  <1>7. FreeEach(m, blocks) =
          [live |-> m.live \ {blocks[i] : i \in freed}, made |-> m.made,
           refused |-> m.refused, fault |-> FALSE]
    <2> HIDE DEF bad, freed
    <2>1. (m.fault \/ bad) = FALSE
      BY <1>3 DEF Healthy
    <2>2. QED
      BY <1>5, <1>6, <2>1
  <1>8. QED
    BY <1>4, <1>7 DEF Healthy, Heap

\* realloc of NULL or of a live block: afterwards there is a block, the old one or a
\* new one in its place; or it was refused, and the old one is still there.
LEMMA ReallocResult ==
  ASSUME NEW m, Healthy(m), NEW role \in Roles, NEW block, Ref(m, block, role),
         NEW o \in Realloc(m, block, role)
  PROVE  /\ Healthy(o.mem)
         /\ o.pointer \in Pointer
         /\ o.pointer = NULL => o.mem.live = m.live
         /\ o.pointer # NULL => /\ o.mem.live = (m.live \ {block}) \cup {o.pointer}
                                /\ o.pointer[1] = role
         /\ \A other \in Roles : other # role => o.mem.made[other] = m.made[other]
  <1>1. m.live \subseteq Block /\ m.made \in [Roles -> Nat]
    BY DEF Healthy, Heap
  <1>2. CASE block = NULL
    <2>1. o \in Malloc(m, role)
      BY <1>2 DEF Realloc
    <2>2. /\ Healthy(o.mem) /\ o.pointer \in Pointer
          /\ o.pointer # NULL => o.pointer[1] = role
          /\ o.pointer = NULL => o.mem.live = m.live
          /\ o.pointer # NULL => o.mem.live = m.live \cup {o.pointer}
          /\ \A other \in Roles : other # role => o.mem.made[other] = m.made[other]
      BY <2>1, MallocResult
    <2>3. m.live \ {block} = m.live
      BY <1>1, <1>2, NullIsNoBlock
    <2>4. o.pointer # NULL => o.mem.live = (m.live \ {block}) \cup {o.pointer}
      BY <2>2, <2>3
    <2>5. QED
      BY <2>2, <2>4
  <1>3. CASE block # NULL
    <2>1. block \in m.live /\ block[1] = role /\ Touch(m, block) = m
      BY <1>3, TouchLive DEF Ref
    <2>2. CASE o = [pointer |-> block, mem |-> Touch(m, block)]
      <3>1. o.pointer = block /\ o.mem = m
        BY <2>1, <2>2
      <3>2. QED
        BY <3>1, <2>1, <1>1, <1>3 DEF Pointer
    <2>3. CASE o = Granted(Free(m, block), role)
      <3>1. /\ Healthy(Free(m, block)) /\ Free(m, block).live = m.live \ {block}
            /\ Free(m, block).made = m.made
        BY <2>1, FreeResult
      <3>2. /\ Healthy(o.mem) /\ o.pointer \in Block /\ o.pointer[1] = role
            /\ o.mem.live = Free(m, block).live \cup {o.pointer}
            /\ o.mem.made = [Free(m, block).made EXCEPT ![role] = @ + 1]
        BY <3>1, <2>3, GrantedResult
      <3>3. \A other \in Roles : other # role => o.mem.made[other] = m.made[other]
        BY <3>1, <3>2, <1>1
      <3>4. QED
        BY <3>1, <3>2, <3>3, NullIsNoBlock DEF Pointer
    <2>4. CASE o = RefusedTo(m, role)
      BY <2>4, RefusedResult DEF Pointer
    <2>5. QED
      BY <1>3, <2>2, <2>3, <2>4 DEF Realloc
  <1>4. QED
    BY <1>2, <1>3

(***************************************************************************)
(* The same, as steps that spare most of the heap                          *)
(***************************************************************************)

\* Sparing steps follow each other.
LEMMA SparesTwice ==
  ASSUME NEW m, NEW n, NEW k, NEW R, NEW S, NEW T,
         Spares(m, n, R), Spares(n, k, S), R \subseteq T, S \subseteq T
  PROVE  Spares(m, k, T)
  BY DEF Spares

\* Nothing happens.
LEMMA SparesAll ==
  ASSUME NEW m, Healthy(m), NEW R
  PROVE  Spares(m, m, R)
  BY DEF Spares

\* A pointer of another role keeps its block.
LEMMA RefSpared ==
  ASSUME NEW m, NEW n, NEW R, Spares(m, n, R),
         NEW pointer, NEW role, role \notin R, Ref(m, pointer, role)
  PROVE  Ref(n, pointer, role)
  BY DEF Spares, Ref

\* malloc spares everything.
LEMMA MallocSpares ==
  ASSUME NEW m, Healthy(m), NEW role \in Roles \ {"gstate"}, NEW o \in Malloc(m, role)
  PROVE  /\ Spares(m, o.mem, {})
         /\ Ref(o.mem, o.pointer, role)
         /\ o.pointer \in Pointer
         /\ o.pointer \notin m.live
  <1>1. /\ Healthy(o.mem) /\ o.pointer \in Pointer /\ o.pointer \notin m.live
        /\ o.pointer # NULL => o.pointer \in o.mem.live /\ o.pointer[1] = role
        /\ o.pointer = NULL => o.mem.live = m.live
        /\ o.pointer # NULL => o.mem.live = m.live \cup {o.pointer}
        /\ \A other \in Roles : other # role => o.mem.made[other] = m.made[other]
    BY MallocResult
  <1>2. "gstate" \in Roles /\ "gstate" # role
    BY DEF Roles
  <1>3. o.mem.made["gstate"] = m.made["gstate"]
    BY <1>1, <1>2
  <1>4. QED
    BY <1>1, <1>3 DEF Spares, Ref

\* A refusal spares everything.
LEMMA RefusedSpares ==
  ASSUME NEW m, Healthy(m), NEW role \in Roles
  PROVE  Spares(m, RefusedTo(m, role).mem, {})
  BY RefusedResult DEF Spares

\* free spares the blocks of other roles.
LEMMA FreeSpares ==
  ASSUME NEW m, Healthy(m), NEW role, NEW block, Ref(m, block, role)
  PROVE  Spares(m, Free(m, block), {role})
  <1>1. block = NULL \/ (block \in m.live /\ block[1] = role)
    BY DEF Ref
  <1>2. /\ Healthy(Free(m, block)) /\ Free(m, block).live = m.live \ {block}
        /\ Free(m, block).made = m.made
    BY <1>1, FreeResult
  <1>3. block # NULL \/ m.live \ {block} = m.live
    BY NullIsNoBlock DEF Healthy, Heap
  <1>4. QED
    BY <1>1, <1>2, <1>3 DEF Spares

(***************************************************************************)
(* The inductive invariant                                                 *)
(***************************************************************************)

\* The driver's pointers.
Drives(m, d) ==
  /\ d \in [reader : Pointer, path : Pointer, stream : Pointer,
            scanner : Pointer, parser : Pointer, tree : Pointer]
  /\ Ref(m, d.reader, "reader")
  /\ Ref(m, d.path, "path")
  /\ Ref(m, d.stream, "stream")
  /\ Ref(m, d.scanner, "scanner")
  /\ Ref(m, d.parser, "parser")
  /\ Ref(m, d.tree, "tree")

\* Who owns what.
Owned ==
  /\ Ref(mem, gstate.block, "gstate")
  /\ gstate.cli \in {NULL, config.block}
  /\ Ref(mem, config.block, "config")
  /\ Ref(mem, config.file, "file")
  /\ Ref(mem, params.block, "params")
  /\ Drives(mem, driver)
  /\ Ref(mem, tokens.block, "tokens")
  /\ Ref(mem, tokens.values, "values")
  /\ Ref(mem, buffer, "number")

SetupLabels == {"cli", "new_params", "new_config", "options", "operand", "configured"}
TokenLabels == {"scan", "token_new", "token_content", "token_add"}
HeldLabels == {"print_first", "print", "parse", "parsing", "parsed"}
OpenLabels == {"open_exists", "open_is_file", "fopen"}
RunLabels ==
  {"run", "reader_new", "open", "scanner_new", "parser_new", "teardown", "crashed"}
    \cup OpenLabels \cup TokenLabels \cup HeldLabels
EndLabels == {"exit", "exited"}
ScannedLabels ==
  TokenLabels \cup HeldLabels \cup {"parser_new", "teardown", "crashed"} \cup EndLabels

\* The stages of the global state, and the status, by the place in the code.
Staged ==
  /\ pc = "main" => gstate.block = NULL /\ mem.made["gstate"] = 0
  /\ pc \in SetupLabels => gstate.block # NULL /\ gstate.cli = NULL
  /\ pc \in RunLabels => gstate.block # NULL /\ gstate.cli # NULL
  /\ gstate.block # NULL => mem.made["gstate"] # 0
  /\ pc \notin EndLabels => status = Running
  /\ pc \in EndLabels => status \in {GOOD, BAD_USAGE, NO_MEM}

\* What the places in the code rely on.
Relied ==
  /\ pc \in {"new_config", "options", "operand"} => params.pointer >= 1
  /\ pc \in {"options", "operand", "configured"} => config.block # NULL
  /\ pc = "open" => config.file # NULL
  /\ pc \in OpenLabels => driver.path # NULL
  /\ pc \in TokenLabels => caller \in HeldLabels \ {"parsed"}
  /\ pc \in TokenLabels \cup HeldLabels \cup {"parser_new"} => tokens.block # NULL
  /\ pc \notin ScannedLabels => tokens.block = NULL
  /\ pc \in HeldLabels => tokens.count >= 1
  /\ pc \in {"parsing", "parsed"} \/ (pc \in TokenLabels /\ caller = "parsing") =>
       driver.tree # NULL

Contents == {tokens.elements[i].content : i \in 1 .. tokens.count}

\* The token on its way into the array.
Underway ==
  /\ pc \in {"token_content", "token_add"} \cup HeldLabels =>
       token.shell \in mem.live /\ token.shell[1] = "shell"
  /\ pc \in {"token_content", "token_add"} => token.type = TypeAt(tokens.count + 1)
  /\ pc = "token_content" => token.type # "EOS" /\ token.content = NULL
  /\ pc = "token_add" =>
       IF token.type = "EOS" THEN token.content = NULL
       ELSE /\ token.content \in mem.live
            /\ token.content[1] = "content"
            /\ token.content \notin Contents

\* The elements in their block.
Stored ==
  tokens.block # NULL /\ pc \notin EndLabels =>
    /\ Len(tokens.elements) = tokens.capacity
    /\ \A content \in Contents : Ref(mem, content, "content")

ProgramInv ==
  /\ ProgramTypeOK
  /\ Healthy(mem)
  /\ Owned
  /\ Staged
  /\ Relied
  /\ Underway
  /\ Stored
  /\ ElementsKept

(***************************************************************************)
(* Parts of the invariant that a step leaves alone                         *)
(***************************************************************************)

\* The array is undisturbed by a step that frees neither texts nor elements.
LEMMA ArraySpared ==
  ASSUME ProgramInv,
         \A block \in mem.live :
           block[1] \in {"content", "values"} => block \in mem'.live,
         pc \notin EndLabels, UNCHANGED <<source, tokens>>
  PROVE  Stored' /\ (tokens.block # NULL => ArrayKept')
  <1>1. \A block \in mem.live :
          block[1] \in {"content", "values"} => block \in mem'.live
    OBVIOUS
  <1>2. Contents' = Contents
    BY DEF Contents
  <1>3. Stored'
    BY <1>1, <1>2 DEF ProgramInv, Stored, Ref
  <1>4. ASSUME tokens.block # NULL PROVE ArrayKept'
    <2>1. ArrayKept /\ Stored /\ Owned
      BY <1>4 DEF ProgramInv, ElementsKept, EndLabels
    <2>2. Filled' = Filled /\ \A i : TypeAt(i)' = TypeAt(i)
      BY DEF Filled, TypeAt
    <2>3. \A i \in Filled : tokens.elements[i].content \in mem'.live
      <3>1. \A i \in Filled : tokens.elements[i].content \in Contents
        BY DEF Filled, Contents
      <3>2. \A i \in Filled : tokens.elements[i].content[1] = "content"
        BY <1>4, <3>1, <2>1 DEF Stored, Filled, Ref
      <3>3. QED
        BY <3>2, <2>1, <1>1 DEF ArrayKept
    <2>4. tokens.values \in mem.live => tokens.values \in mem'.live
      <3>1. mem.live \subseteq Block
        BY DEF ProgramInv, Healthy, Heap
      <3>2. QED
        BY <3>1, <2>1, <1>1, NullIsNoBlock DEF Owned, Ref
    <2>5. QED
      BY <2>1, <2>2, <2>3, <2>4 DEF ArrayKept
  <1>5. QED
    BY <1>3, <1>4

\* The array and the token in the caller's hand are undisturbed by a step that frees
\* nothing of theirs.
LEMMA TokensKept ==
  ASSUME ProgramInv,
         \A block \in mem.live :
           block[1] \in {"content", "values", "shell"} => block \in mem'.live,
         pc \notin EndLabels, UNCHANGED <<source, tokens>>,
         pc' \notin {"token_content", "token_add"},
         pc' \in HeldLabels => pc \in HeldLabels /\ token' = token
  PROVE  Underway' /\ Stored' /\ ElementsKept'
  <1>1. \A block \in mem.live :
          block[1] \in {"content", "values", "shell"} => block \in mem'.live
    OBVIOUS
  <1>2. Underway'
    BY <1>1 DEF ProgramInv, Underway, HeldLabels
  <1>3. Stored' /\ (tokens.block # NULL => ArrayKept')
    BY <1>1, ArraySpared
  <1>4. ElementsKept'
    <2> SUFFICES ASSUME tokens.block # NULL, pc' \in HeldLabels
                 PROVE  LastHeld'
      BY <1>3 DEF ElementsKept, HeldLabels
    <2>1. LastHeld /\ Underway
      BY DEF ProgramInv, ElementsKept, EndLabels, HeldLabels
    <2>2. QED
      BY <2>1, <1>1 DEF LastHeld, Underway
  <1>5. QED
    BY <1>2, <1>3, <1>4

\* The driver keeps its blocks when others are freed.
LEMMA DrivesSpared ==
  ASSUME NEW m, NEW n, NEW R, Spares(m, n, R),
         R \cap {"reader", "path", "stream", "scanner", "parser", "tree"} = {},
         NEW d, Drives(m, d)
  PROVE  Drives(n, d)
  <1>1. \A pointer, role : role \notin R /\ Ref(m, pointer, role) => Ref(n, pointer, role)
    BY DEF Spares, Ref
  <1>2. QED
    BY <1>1 DEF Drives

\* It keeps them all when none is freed.
LEMMA DrivesKept ==
  ASSUME NEW m, NEW n, Spares(m, n, {}), NEW d, Drives(m, d)
  PROVE  Drives(n, d)
  BY DrivesSpared

\* Every step before the driver runs: what it may do to the parameters and to the
\* configuration, and where it may go.
LEMMA SetupStep ==
  ASSUME ProgramInv, pc \in SetupLabels,
         NEW R, Spares(mem, mem', R), R \subseteq {"params", "config"},
         UNCHANGED <<build, argv, gstate, tokenVars, driver>>,
         \/ pc' \in SetupLabels /\ status' = status
         \/ pc' = "exit" /\ status' \in {GOOD, BAD_USAGE, NO_MEM},
         params' \in [block : Pointer, pointer : Nat],
         config' \in [block : Pointer, mode : Modes \cup {"none"}, file : Pointer,
                      name : FileNames, interactive : BOOLEAN],
         Ref(mem', params'.block, "params"),
         Ref(mem', config'.block, "config"),
         Ref(mem', config'.file, "file"),
         pc' \in {"new_config", "options", "operand"} => params'.pointer >= 1,
         pc' \in {"options", "operand", "configured"} => config'.block # NULL
  PROVE  ProgramInv'
  <1>1. /\ ProgramTypeOK /\ Healthy(mem) /\ Owned /\ Staged /\ Relied
      BY DEF ProgramInv
  <1>2. Healthy(mem') /\ mem' \in Heap /\ mem'.made["gstate"] = mem.made["gstate"]
    BY DEF Spares, Healthy
  <1>3. ProgramTypeOK'
    <2>1. pc' \in Labels /\ status' \in {Running, GOOD, BAD_USAGE, NO_MEM, EARLY_ACCESS}
      BY <1>1 DEF Labels, SetupLabels, ProgramTypeOK
    <2>2. QED
      BY <1>1, <1>2, <2>1 DEF ProgramTypeOK, tokenVars
  <1>4. \A pointer, role : role \notin {"params", "config"} /\ Ref(mem, pointer, role) =>
          Ref(mem', pointer, role)
    BY DEF Spares, Ref
  <1>5. Owned'
    <2>1. Drives(mem', driver')
      BY <1>1, DrivesSpared DEF Owned
    <2>2. QED
      BY <1>1, <1>4, <2>1 DEF Owned, Staged, SetupLabels, tokenVars
  <1>6. Staged'
    BY <1>1, <1>2 DEF Staged, SetupLabels, RunLabels, OpenLabels, TokenLabels, HeldLabels, EndLabels
  <1>7. Relied'
    BY <1>1 DEF Relied, SetupLabels, OpenLabels, TokenLabels, HeldLabels, ScannedLabels,
                EndLabels, tokenVars
  <1>8. Underway' /\ Stored' /\ ElementsKept'
    <2>1. pc \notin EndLabels /\ pc' \notin {"token_content", "token_add"} \cup HeldLabels
      BY DEF SetupLabels, EndLabels, HeldLabels
    <2>2. \A block \in mem.live :
            block[1] \in {"content", "values", "shell"} => block \in mem'.live
      BY DEF Spares
    <2>3. QED
      BY <2>1, <2>2, TokensKept DEF tokenVars
  <1>9. QED
    BY <1>2, <1>3, <1>5, <1>6, <1>7, <1>8 DEF ProgramInv

(***************************************************************************)
(* One lemma per step: setting up and the command line                     *)
(***************************************************************************)

\* The program starts with nothing.
LEMMA InitInvariant == ProgramInit => ProgramInv
  <1> SUFFICES ASSUME ProgramInit PROVE ProgramInv
    OBVIOUS
  <1> USE DEF ProgramInit, ProcessInit, CommandLineInit, TokenArrayInit
  <1>1. EmptyHeap \in Heap /\ EmptyHeap.live = {} /\ EmptyHeap.fault = FALSE
        /\ EmptyHeap.made["gstate"] = 0
    BY DEF EmptyHeap, Heap, Roles
  <1>2. Healthy(mem)
    BY <1>1 DEF Healthy
  <1>3. NULL \in Pointer
    BY DEF Pointer
  <1>4. ProgramTypeOK
    <2>1. /\ pc \in Labels /\ status \in {Running, GOOD, BAD_USAGE, NO_MEM, EARLY_ACCESS}
          /\ mem \in Heap /\ build \in Builds /\ argv \in ArgumentLists
          /\ source \in TokenStreams \cup {<<>>} /\ caller \in Labels \cup {"none"}
      BY <1>1 DEF Labels
    <2>2. gstate \in [block : Pointer, cli : Pointer] /\ params \in [block : Pointer, pointer : Nat]
      BY <1>3 DEF NoState, NoParams
    <2>3. config \in [block : Pointer, mode : Modes \cup {"none"}, file : Pointer,
                      name : FileNames, interactive : BOOLEAN]
      <3>1. config.name \in FileNames /\ config.interactive \in BOOLEAN
        BY DEF NoConfig, FileNames
      <3>2. QED
        BY <1>3, <3>1 DEF NoConfig
    <2>4. tokens \in [block : Pointer, count : Nat, capacity : Nat, values : Pointer,
                      elements : Seq(Element)]
      BY <1>3 DEF NoTokens
    <2>5. token \in [type : TokenType, shell : Pointer, content : Pointer]
      BY <1>3 DEF NoToken, TokenType
    <2>6. driver \in [reader : Pointer, path : Pointer, stream : Pointer,
                      scanner : Pointer, parser : Pointer, tree : Pointer]
      BY <1>3 DEF NoDriver
    <2>7. buffer \in Pointer /\ overrun \in BOOLEAN
      BY <1>3
    <2>8. QED
      BY <2>1, <2>2, <2>3, <2>4, <2>5, <2>6, <2>7 DEF ProgramTypeOK
  <1>5. Owned
    BY <1>3 DEF Owned, Drives, Ref, NoState, NoConfig, NoParams, NoDriver, NoTokens
  <1>6. Staged
    BY <1>1 DEF Staged, NoState, SetupLabels, RunLabels, OpenLabels, TokenLabels, HeldLabels, EndLabels
  <1>7. Relied
    BY DEF Relied, OpenLabels, TokenLabels, HeldLabels, NoTokens
  <1>8. Underway /\ Stored /\ ElementsKept
    BY DEF Underway, Stored, ElementsKept, NoTokens, HeldLabels
  <1>9. QED
    BY <1>2, <1>4, <1>5, <1>6, <1>7, <1>8 DEF ProgramInv

\* The only state is made here, or refused.
LEMMA SetupGlobalStateKeeps ==
  ASSUME ProgramInv, SetupGlobalState, ProcessOnly
  PROVE  ProgramInv'
  <1>1. /\ ProgramTypeOK /\ Healthy(mem) /\ Owned /\ Staged /\ Relied
    BY DEF ProgramInv
  <1>2. pc = "main" /\ gstate.block = NULL /\ status = Running /\ gstate.cli \in {NULL, config.block}
    BY <1>1 DEF SetupGlobalState, Staged, EndLabels, Owned
  <1>3. PICK o \in Malloc(mem, "gstate") :
          /\ mem' = o.mem
          /\ gstate' = [block |-> o.pointer, cli |-> NULL]
          /\ IF o.pointer = NULL THEN ExitWith(NO_MEM) ELSE Goto("cli")
    BY <1>2 DEF SetupGlobalState
  <1>4. "gstate" \in Roles
    BY DEF Roles
  <1>5. /\ Healthy(mem') /\ o.pointer \in Pointer
        /\ Ref(mem', o.pointer, "gstate")
        /\ mem.live \subseteq mem'.live
        /\ o.pointer # NULL => mem'.made["gstate"] # 0
    BY <1>1, <1>3, <1>4, MallocResult DEF Ref
  <1>6. UNCHANGED <<config, build, argv, params, source, tokens, token, buffer, overrun, caller, driver>>
    BY DEF SetupGlobalState, ProcessOnly, cliVars, tokenVars
  <1>7. \/ pc' = "cli" /\ status' = Running /\ o.pointer # NULL
        \/ pc' = "exit" /\ status' = NO_MEM /\ o.pointer = NULL
    BY <1>2, <1>3 DEF ExitWith, Goto
  <1>8. ProgramTypeOK'
    <2>1. pc' \in Labels /\ status' \in {Running, GOOD, BAD_USAGE, NO_MEM, EARLY_ACCESS}
      BY <1>7 DEF Labels
    <2>2. gstate' \in [block : Pointer, cli : Pointer] /\ mem' \in Heap
      BY <1>3, <1>5 DEF Pointer, Healthy
    <2>3. QED
      BY <1>1, <1>6, <2>1, <2>2 DEF ProgramTypeOK
  <1>9. Owned'
    BY <1>1, <1>3, <1>5, <1>6 DEF Owned, Drives, Ref
  <1>10. Staged'
    BY <1>3, <1>5, <1>7
    DEF Staged, SetupLabels, RunLabels, OpenLabels, TokenLabels, HeldLabels, EndLabels
  <1>11. Relied'
    BY <1>1, <1>2, <1>6, <1>7 DEF Relied, OpenLabels, TokenLabels, HeldLabels, ScannedLabels, EndLabels
  <1>12. Underway' /\ Stored' /\ ElementsKept'
    <2>1. CASE pc' = "exit"
      BY <2>1 DEF Underway, Stored, ElementsKept, EndLabels, HeldLabels
    <2>2. CASE pc' = "cli"
      BY <2>2, <1>2, <1>5, <1>6, TokensKept DEF EndLabels, HeldLabels
    <2>3. QED
      BY <2>1, <2>2, <1>7
  <1>13. QED
    BY <1>5, <1>8, <1>9, <1>10, <1>11, <1>12 DEF ProgramInv

\* Without arguments the program ends; nothing has been allocated.
LEMMA ParseArgsKeeps ==
  ASSUME ProgramInv, ParseArgs, CommandLineOnly
  PROVE  ProgramInv'
  <1>1. /\ ProgramTypeOK /\ Healthy(mem) /\ Owned /\ pc = "cli"
    BY DEF ProgramInv, ParseArgs
  <1>2. UNCHANGED <<build, argv, gstate, tokenVars, driver, mem, config, params>>
    BY DEF ParseArgs, Keep, CommandLineOnly
  <1>3. Spares(mem, mem', {})
    BY <1>1, <1>2, SparesAll
  <1>4. \/ pc' = "new_params" /\ status' = status
        \/ pc' = "exit" /\ status' = GOOD
    BY DEF ParseArgs, ExitWith, Goto
  <1>5. /\ params' \in [block : Pointer, pointer : Nat]
        /\ config' \in [block : Pointer, mode : Modes \cup {"none"}, file : Pointer,
                        name : FileNames, interactive : BOOLEAN]
    BY <1>1, <1>2 DEF ProgramTypeOK
  <1>6. /\ Ref(mem', params'.block, "params") /\ Ref(mem', config'.block, "config")
        /\ Ref(mem', config'.file, "file")
    BY <1>1, <1>2 DEF Owned
  <1>7. QED
    BY <1>1, <1>2, <1>3, <1>4, <1>5, <1>6, SetupStep DEF SetupLabels

\* tula_cli_params is allocated.
LEMMA NewParamsKeeps ==
  ASSUME ProgramInv, NewParams, CommandLineOnly
  PROVE  ProgramInv'
  <1>1. /\ ProgramTypeOK /\ Healthy(mem) /\ Owned /\ pc = "new_params"
    BY DEF ProgramInv, NewParams
  <1>2. UNCHANGED <<build, argv, gstate, tokenVars, driver, config>>
    BY DEF NewParams, Keep, CommandLineOnly
  <1>3. PICK o \in Malloc(mem, "params") :
          /\ mem' = o.mem
          /\ params' = [block |-> o.pointer, pointer |-> 1]
          /\ IF o.pointer = NULL THEN ExitWith(NO_MEM) ELSE Goto("new_config")
    BY DEF NewParams
  <1>4. "params" \in Roles \ {"gstate"}
    BY DEF Roles
  <1>5. Spares(mem, mem', {}) /\ Ref(mem', o.pointer, "params") /\ o.pointer \in Pointer
    BY <1>1, <1>3, <1>4, MallocSpares
  <1>6. \/ pc' = "new_config" /\ status' = status
        \/ pc' = "exit" /\ status' = NO_MEM
    BY <1>3 DEF ExitWith, Goto
  <1>7. /\ params' \in [block : Pointer, pointer : Nat] /\ params'.pointer >= 1
        /\ Ref(mem', params'.block, "params")
    BY <1>3, <1>5
  <1>8. config' \in [block : Pointer, mode : Modes \cup {"none"}, file : Pointer,
                     name : FileNames, interactive : BOOLEAN]
    BY <1>1, <1>2 DEF ProgramTypeOK
  <1>9. Ref(mem', config'.block, "config") /\ Ref(mem', config'.file, "file")
    BY <1>1, <1>2, <1>5, RefSpared DEF Owned
  <1>10. QED
    BY <1>1, <1>2, <1>5, <1>6, <1>7, <1>8, <1>9, SetupStep DEF SetupLabels

\* tula_cli_config is allocated, or the parameters are freed.
LEMMA NewConfigKeeps ==
  ASSUME ProgramInv, NewConfig, CommandLineOnly
  PROVE  ProgramInv'
  <1>1. /\ ProgramTypeOK /\ Healthy(mem) /\ Owned /\ Relied /\ pc = "new_config"
    BY DEF ProgramInv, NewConfig
  <1>2. UNCHANGED <<build, argv, gstate, tokenVars, driver>>
    BY DEF NewConfig, Keep, CommandLineOnly
  <1>3. PICK o \in Malloc(mem, "config") :
          IF o.pointer = NULL
          THEN /\ mem' = Free(o.mem, params.block)
               /\ params' = NoParams
               /\ ExitWith(NO_MEM)
               /\ UNCHANGED config
          ELSE /\ mem' = o.mem
               /\ config' = [NoConfig EXCEPT !.block = o.pointer, !.mode = "version"]
               /\ Goto("options")
               /\ UNCHANGED params
    BY DEF NewConfig
  <1>4. "config" \in Roles \ {"gstate"}
    BY DEF Roles
  <1>5. /\ Spares(mem, o.mem, {}) /\ Ref(o.mem, o.pointer, "config") /\ o.pointer \in Pointer
        /\ Healthy(o.mem)
    BY <1>1, <1>4, MallocSpares DEF Spares
  <1>6. NULL \in Pointer /\ \A m, role : Ref(m, NULL, role)
    BY DEF Pointer, Ref
  <1>7. CASE o.pointer = NULL
    <2>1. /\ mem' = Free(o.mem, params.block) /\ params' = NoParams
          /\ pc' = "exit" /\ status' = NO_MEM /\ config' = config
      BY <1>3, <1>7 DEF ExitWith
    <2>2. Ref(o.mem, params.block, "params")
      BY <1>1, <1>5, RefSpared DEF Owned
    <2>3. Spares(o.mem, mem', {"params"})
      BY <2>1, <2>2, <1>5, FreeSpares
    <2>4. Spares(mem, mem', {"params"})
      BY <2>3, <1>5, SparesTwice
    <2>5. Ref(mem', config'.block, "config") /\ Ref(mem', config'.file, "file")
      BY <2>1, <2>4, <1>1, RefSpared DEF Owned
    <2>6. params' \in [block : Pointer, pointer : Nat] /\ Ref(mem', params'.block, "params")
      BY <2>1, <1>6 DEF NoParams
    <2>7. config' \in [block : Pointer, mode : Modes \cup {"none"}, file : Pointer,
                       name : FileNames, interactive : BOOLEAN]
      BY <2>1, <1>1 DEF ProgramTypeOK
    <2>8. QED
      BY <1>1, <1>2, <2>1, <2>4, <2>5, <2>6, <2>7, SetupStep DEF SetupLabels
  <1>8. CASE o.pointer # NULL
    <2>1. /\ mem' = o.mem /\ params' = params
          /\ config' = [NoConfig EXCEPT !.block = o.pointer, !.mode = "version"]
          /\ pc' = "options" /\ status' = status
      BY <1>3, <1>8 DEF Goto
    <2>2. config' = [block |-> o.pointer, mode |-> "version", file |-> NULL, name |-> "",
                     interactive |-> FALSE]
      BY <2>1 DEF NoConfig
    <2>3. config' \in [block : Pointer, mode : Modes \cup {"none"}, file : Pointer,
                       name : FileNames, interactive : BOOLEAN]
      BY <2>2, <1>5, <1>6 DEF Modes, FileNames
    <2>4. /\ Ref(mem', config'.block, "config") /\ Ref(mem', config'.file, "file")
          /\ config'.block # NULL
      <3>1. config'.block = o.pointer /\ config'.file = NULL
        BY <2>2
      <3>2. Ref(mem', o.pointer, "config") /\ Ref(mem', NULL, "file")
        BY <2>1, <1>5, <1>6
      <3>3. QED
        BY <3>1, <3>2, <1>8
    <2>5. params' \in [block : Pointer, pointer : Nat] /\ params'.pointer >= 1
      BY <2>1, <1>1 DEF ProgramTypeOK, Relied
    <2>6. Ref(mem', params'.block, "params") /\ Spares(mem, mem', {})
      BY <2>1, <1>1, <1>5, RefSpared DEF Owned
    <2>7. QED
      BY <1>1, <1>2, <2>1, <2>3, <2>4, <2>5, <2>6, SetupStep DEF SetupLabels
  <1>9. QED
    BY <1>7, <1>8

\* Giving up in front of the driver frees the parameters and the configuration.
LEMMA AbandonSpares ==
  ASSUME NEW m, Healthy(m), Ref(m, params.block, "params"), Ref(m, config.block, "config")
  PROVE  Spares(m, Abandon(m), {"params", "config"})
  <1>1. Spares(m, Free(m, params.block), {"params"})
    BY FreeSpares
  <1>2. Healthy(Free(m, params.block))
    BY <1>1 DEF Spares
  <1>3. Ref(Free(m, params.block), config.block, "config")
    BY <1>1, RefSpared
  <1>4. Spares(Free(m, params.block), Abandon(m), {"config"})
    BY <1>2, <1>3, FreeSpares DEF Abandon
  <1>5. QED
    BY <1>1, <1>4, SparesTwice

\* Consuming arguments stays behind the program's name.
LEMMA ConsumedType ==
  ASSUME ProgramTypeOK, params.pointer >= 1, NEW n \in Nat
  PROVE  /\ Consumed(n) \in [block : Pointer, pointer : Nat]
         /\ Consumed(n).pointer >= 1
         /\ Consumed(n).block = params.block
  <1>1. params \in [block : Pointer, pointer : Nat] /\ Len(argv) \in Nat
    BY ArgumentsAssumption DEF ProgramTypeOK
  <1> DEFINE p == IF params.pointer + n <= Len(argv) + 1 THEN params.pointer + n ELSE Len(argv) + 1
  <1>2. p \in Nat /\ p >= 1
    BY <1>1
  <1>3. Consumed(n) = [block |-> params.block, pointer |-> p]
    BY <1>1 DEF Consumed
  <1> HIDE DEF p
  <1>4. QED
    BY <1>1, <1>2, <1>3

\* Giving up frees both structs and forgets them.
LEMMA AbandonKeeps ==
  ASSUME ProgramInv, pc \in {"options", "operand"}, NEW m, Spares(mem, m, {}),
         mem' = Abandon(m), Abandoned, pc' = "exit", status' \in {GOOD, NO_MEM},
         UNCHANGED <<build, argv, gstate>>, CommandLineOnly
  PROVE  ProgramInv'
  <1>1. Owned /\ Healthy(m)
    BY DEF ProgramInv, Spares
  <1>2. Ref(m, params.block, "params") /\ Ref(m, config.block, "config")
    BY <1>1, RefSpared DEF Owned
  <1>3. Spares(m, mem', {"params", "config"})
    BY <1>1, <1>2, AbandonSpares
  <1>4. Spares(mem, mem', {"params", "config"})
    BY <1>3, SparesTwice
  <1>5. params' = NoParams /\ config' = NoConfig
    BY DEF Abandoned
  <1>6. NULL \in Pointer /\ "" \in FileNames /\ \A role : Ref(mem', NULL, role)
    BY DEF Pointer, FileNames, Ref
  <1>7. /\ params'.block = NULL /\ config'.block = NULL /\ config'.file = NULL
    BY <1>5 DEF NoParams, NoConfig
  <1>8. params' \in [block : Pointer, pointer : Nat]
    BY <1>5, <1>6 DEF NoParams
  <1>9. config' \in [block : Pointer, mode : Modes \cup {"none"}, file : Pointer,
                     name : FileNames, interactive : BOOLEAN]
    BY <1>5, <1>6 DEF NoConfig
  <1>10. UNCHANGED <<build, argv, gstate, tokenVars, driver>>
    BY DEF CommandLineOnly
  <1>11. QED
    BY <1>4, <1>6, <1>7, <1>8, <1>9, <1>10, SetupStep DEF SetupLabels

\* The name of the file is stored, or everything is given up.
LEMMA StoreFileKeeps ==
  ASSUME ProgramInv, pc \in {"options", "operand"},
         NEW i \in 1 .. Len(argv), NEW label \in {"options", "configured"}, NEW n \in Nat,
         StoreFile(argv[i], label, n), UNCHANGED <<build, argv, gstate>>, CommandLineOnly
  PROVE  ProgramInv'
  <1>1. /\ ProgramTypeOK /\ Healthy(mem) /\ Owned /\ Relied
    BY DEF ProgramInv
  <1>2. PICK o \in Malloc(mem, "file") :
          IF o.pointer = NULL
          THEN mem' = Abandon(o.mem) /\ Abandoned /\ ExitWith(NO_MEM)
          ELSE /\ mem' = o.mem
               /\ config' = [config EXCEPT !.file = o.pointer, !.name = FileName(argv[i])]
               /\ params' = Consumed(n)
               /\ Goto(label)
    BY DEF StoreFile
  <1>3. "file" \in Roles \ {"gstate"}
    BY DEF Roles
  <1>4. /\ Spares(mem, o.mem, {}) /\ Ref(o.mem, o.pointer, "file") /\ o.pointer \in Pointer
    BY <1>1, <1>3, MallocSpares
  <1>5. CASE o.pointer = NULL
    <2>1. mem' = Abandon(o.mem) /\ Abandoned /\ pc' = "exit" /\ status' = NO_MEM
      BY <1>2, <1>5 DEF ExitWith
    <2>2. QED
      BY <2>1, <1>4, AbandonKeeps
  <1>6. CASE o.pointer # NULL
    <2>1. /\ mem' = o.mem /\ params' = Consumed(n) /\ pc' = label /\ status' = status
          /\ config' = [config EXCEPT !.file = o.pointer, !.name = FileName(argv[i])]
      BY <1>2, <1>6 DEF Goto
    <2>2. params.pointer >= 1 /\ config.block # NULL
      BY <1>1 DEF Relied
    <2>3. /\ params' \in [block : Pointer, pointer : Nat] /\ params'.pointer >= 1
          /\ params'.block = params.block
      BY <2>1, <2>2, <1>1, ConsumedType
    <2>4. FileName(argv[i]) \in FileNames
      <3>1. argv \in ArgumentLists
        BY <1>1 DEF ProgramTypeOK
      <3>2. {argv[j] : j \in 1 .. Len(argv)} \in
              {{args[j] : j \in 1 .. Len(args)} : args \in ArgumentLists}
        BY <3>1, Zenon
      <3>3. argv[i] \in Words
        BY <3>2, Zenon DEF Words
      <3>4. QED
        BY <3>3, Zenon DEF FileNames
    <2>5. config \in [block : Pointer, mode : Modes \cup {"none"}, file : Pointer,
                      name : FileNames, interactive : BOOLEAN]
      BY <1>1 DEF ProgramTypeOK
    <2>6. /\ config' \in [block : Pointer, mode : Modes \cup {"none"}, file : Pointer,
                          name : FileNames, interactive : BOOLEAN]
          /\ config'.block = config.block /\ config'.file = o.pointer
      BY <2>1, <2>4, <2>5, <1>4
    <2>7. Ref(mem', params'.block, "params") /\ Ref(mem', config'.block, "config")
      BY <2>1, <2>3, <2>6, <1>1, <1>4, RefSpared DEF Owned
    <2>8. Ref(mem', config'.file, "file") /\ Spares(mem, mem', {})
      BY <2>1, <2>6, <1>4
    <2>9. UNCHANGED <<build, argv, gstate, tokenVars, driver>>
      BY DEF CommandLineOnly
    <2>10. QED
      BY <2>1, <2>2, <2>3, <2>6, <2>7, <2>8, <2>9, SetupStep DEF SetupLabels
  <1>7. QED
    BY <1>5, <1>6

\* A step of the command line that allocates and frees nothing.
LEMMA OptionKeeps ==
  ASSUME ProgramInv, pc \in {"options", "operand"}, UNCHANGED <<mem, build, argv, gstate>>,
         CommandLineOnly,
         \/ pc' \in {"options", "operand", "configured"} /\ status' = status
         \/ pc' = "exit" /\ status' = BAD_USAGE,
         params' = params \/ \E n \in Nat : params' = Consumed(n),
         NEW mode \in Modes \cup {"none"}, NEW interactive \in BOOLEAN,
         config' = [config EXCEPT !.mode = mode, !.interactive = interactive]
  PROVE  ProgramInv'
  <1>1. /\ ProgramTypeOK /\ Healthy(mem) /\ Owned /\ Relied
    BY DEF ProgramInv
  <1>2. params.pointer >= 1 /\ config.block # NULL
    BY <1>1 DEF Relied
  <1>3. /\ params' \in [block : Pointer, pointer : Nat] /\ params'.pointer >= 1
        /\ params'.block = params.block
    BY <1>1, <1>2, ConsumedType DEF ProgramTypeOK
  <1>4. config \in [block : Pointer, mode : Modes \cup {"none"}, file : Pointer,
                    name : FileNames, interactive : BOOLEAN]
    BY <1>1 DEF ProgramTypeOK
  <1>5. config' = [block |-> config.block, mode |-> mode, file |-> config.file,
                   name |-> config.name, interactive |-> interactive]
    BY <1>4
  <1>6. /\ config' \in [block : Pointer, mode : Modes \cup {"none"}, file : Pointer,
                        name : FileNames, interactive : BOOLEAN]
        /\ config'.block = config.block /\ config'.file = config.file
    BY <1>4, <1>5
  <1>7. Spares(mem, mem', {})
    BY <1>1, SparesAll
  <1>8. /\ Ref(mem', params'.block, "params") /\ Ref(mem', config'.block, "config")
        /\ Ref(mem', config'.file, "file")
    BY <1>1, <1>3, <1>6 DEF Owned
  <1>9. UNCHANGED <<build, argv, gstate, tokenVars, driver>>
    BY DEF CommandLineOnly
  <1>10. QED
    BY <1>2, <1>3, <1>6, <1>7, <1>8, <1>9, SetupStep DEF SetupLabels

\* The parts of the types that the options need.
LEMMA CommandLineTypes ==
  ASSUME ProgramTypeOK
  PROVE  /\ params.pointer \in Nat
         /\ Len(argv) \in Nat
         /\ config.mode \in Modes \cup {"none"}
         /\ config.interactive \in BOOLEAN
         /\ config = [config EXCEPT !.mode = config.mode, !.interactive = config.interactive]
  <1>1. params \in [block : Pointer, pointer : Nat] /\ argv \in Seq(STRING)
    BY ArgumentsAssumption DEF ProgramTypeOK
  <1>2. config \in [block : Pointer, mode : Modes \cup {"none"}, file : Pointer,
                    name : FileNames, interactive : BOOLEAN]
    BY DEF ProgramTypeOK
  <1>3. config = [block |-> config.block, mode |-> config.mode, file |-> config.file,
                  name |-> config.name, interactive |-> config.interactive]
    BY <1>2
  <1>4. config = [config EXCEPT !.mode = config.mode, !.interactive = config.interactive]
    BY <1>2, <1>3
  <1>5. QED
    BY <1>1, <1>2, <1>4

\* The mode stays one of the modes that there are.
LEMMA ModeFromType ==
  ASSUME ProgramTypeOK, NEW arg
  PROVE  ModeFrom(arg) \in Modes \cup {"none"}
  <1>1. config.mode \in Modes \cup {"none"}
    BY DEF ProgramTypeOK
  <1>2. CASE IsMode(arg)
    <2>1. \E mode \in Modes : BeginsWith(arg, mode)
      BY <1>2 DEF IsMode
    <2>2. ModeOf(arg) \in Modes
      BY <2>1 DEF ModeOf
    <2>3. QED
      BY <1>2, <2>2 DEF ModeFrom
  <1>3. CASE ~IsMode(arg)
    BY <1>1, <1>3 DEF ModeFrom
  <1>4. QED
    BY <1>2, <1>3

\* One option.
LEMMA ConsumeNextOptionKeeps ==
  ASSUME ProgramInv, ConsumeNextOption, CommandLineOnly
  PROVE  ProgramInv'
  <1> DEFINE option == ParseOptionType(build, At(0))
  <1>1. /\ ProgramTypeOK /\ Healthy(mem) /\ Owned /\ Relied /\ pc = "options"
    BY DEF ProgramInv, ConsumeNextOption
  <1>2. /\ params.pointer \in Nat /\ params.pointer >= 1 /\ Len(argv) \in Nat
        /\ config.mode \in Modes \cup {"none"} /\ config.interactive \in BOOLEAN
        /\ config = [config EXCEPT !.mode = config.mode, !.interactive = config.interactive]
    BY <1>1, CommandLineTypes DEF Relied
  <1>3. UNCHANGED <<build, argv, gstate>>
    BY DEF ConsumeNextOption, Keep
  <1>4. CASE Goto("operand") /\ UNCHANGED <<mem, config, params>>
    BY <1>1, <1>2, <1>3, <1>4, OptionKeeps DEF Goto
  <1>5. CASE HasNextArgument /\ OptionsEnd(option)
    <2>1. /\ pc' = "operand" /\ status' = status /\ UNCHANGED <<mem, config>>
          /\ params' = params \/ params' = Consumed(1)
      BY <1>5 DEF OptionsEnd, Goto
    <2>2. QED
      BY <1>1, <1>2, <1>3, <2>1, OptionKeeps
  <1>6. CASE HasNextArgument /\ OptionInvalid(option)
    BY <1>1, <1>2, <1>3, <1>6, OptionKeeps DEF OptionInvalid, ExitWith
  <1>7. CASE HasNextArgument /\ OptionHelp(option)
    <2>1. mem' = Abandon(mem) /\ Abandoned /\ pc' = "exit" /\ status' = GOOD
      BY <1>7 DEF OptionHelp, ExitWith
    <2>2. Spares(mem, mem, {})
      BY <1>1, SparesAll
    <2>3. QED
      BY <1>1, <1>3, <2>1, <2>2, AbandonKeeps
  <1>8. CASE HasNextArgument /\ OptionInputFile(option)
    <2>1. CASE Len(argv) > params.pointer
      <3>1. params.pointer + 1 \in 1 .. Len(argv)
        BY <1>2, <2>1
      <3>2. StoreFile(argv[params.pointer + 1], "options", 2)
        BY <1>8, <2>1 DEF OptionInputFile, At
      <3>3. QED
        BY <1>1, <1>3, <3>1, <3>2, StoreFileKeeps
    <2>2. CASE ~(Len(argv) > params.pointer)
      <3>1. params' = Consumed(1) /\ Goto("options") /\ UNCHANGED <<mem, config>>
        BY <1>8, <2>2 DEF OptionInputFile
      <3>2. QED
        BY <1>1, <1>2, <1>3, <3>1, OptionKeeps DEF Goto
    <2>3. QED
      BY <2>1, <2>2
  <1>9. CASE HasNextArgument /\ OptionTestMode(option)
    <2>1. /\ params' = Consumed(2) /\ pc' = "options" /\ status' = status /\ mem' = mem
          /\ config' = config \/ config' = [config EXCEPT !.mode = ModeFrom(At(1))]
      BY <1>9 DEF OptionTestMode, Goto
    <2>2. CASE config' = config
      BY <1>1, <1>2, <1>3, <2>1, <2>2, OptionKeeps
    <2>3. CASE config' = [config EXCEPT !.mode = ModeFrom(At(1))]
      <3>1. ModeFrom(At(1)) \in Modes \cup {"none"}
        BY <1>1, ModeFromType
      <3>2. config' = [config EXCEPT !.mode = ModeFrom(At(1)), !.interactive = config.interactive]
        BY <1>1, <2>3 DEF ProgramTypeOK
      <3>3. QED
        BY <1>1, <1>2, <1>3, <2>1, <3>1, <3>2, OptionKeeps
    <2>4. QED
      BY <2>1, <2>2, <2>3
  <1>10. CASE HasNextArgument /\ OptionInteractive(option)
    <2>1. /\ params' = Consumed(1) /\ pc' = "options" /\ status' = status /\ mem' = mem
          /\ config' = [config EXCEPT !.interactive = TRUE]
      BY <1>10 DEF OptionInteractive, Goto
    <2>2. config' = [config EXCEPT !.mode = config.mode, !.interactive = TRUE]
      BY <1>1, <2>1 DEF ProgramTypeOK
    <2>3. QED
      BY <1>1, <1>2, <1>3, <2>1, <2>2, OptionKeeps
  <1>11. QED
    BY <1>4, <1>5, <1>6, <1>7, <1>8, <1>9, <1>10 DEF ConsumeNextOption

\* The file behind the options.
LEMMA OperandKeeps ==
  ASSUME ProgramInv, Operand, CommandLineOnly
  PROVE  ProgramInv'
  <1>1. /\ ProgramTypeOK /\ Relied /\ pc = "operand" /\ UNCHANGED <<build, argv, gstate>>
    BY DEF ProgramInv, Operand, Keep
  <1>2. /\ params.pointer \in Nat /\ params.pointer >= 1 /\ Len(argv) \in Nat
        /\ config.mode \in Modes \cup {"none"} /\ config.interactive \in BOOLEAN
        /\ config = [config EXCEPT !.mode = config.mode, !.interactive = config.interactive]
    BY <1>1, CommandLineTypes DEF Relied
  <1>3. CASE HasNextArgument /\ StoreFile(At(0), "configured", 1)
    <2>1. params.pointer \in 1 .. Len(argv)
      BY <1>2, <1>3 DEF HasNextArgument
    <2>2. StoreFile(argv[params.pointer], "configured", 1)
      BY <1>2, <1>3 DEF At
    <2>3. QED
      BY <1>1, <2>1, <2>2, StoreFileKeeps
  <1>4. CASE Goto("configured") /\ UNCHANGED <<mem, config, params>>
    BY <1>1, <1>2, <1>4, OptionKeeps DEF Goto
  <1>5. QED
    BY <1>3, <1>4 DEF Operand

\* The configuration becomes part of the global state, which is complete now.
LEMMA ConfiguredKeeps ==
  ASSUME ProgramInv, Configured, CommandLineOnly
  PROVE  ProgramInv'
  <1>1. /\ ProgramTypeOK /\ Healthy(mem) /\ Owned /\ Staged /\ Relied /\ pc = "configured"
    BY DEF ProgramInv, Configured
  <1>2. /\ mem' = Free(mem, params.block) /\ params' = NoParams
        /\ gstate' = [gstate EXCEPT !.cli = config.block]
        /\ pc' = "run" /\ status' = status
        /\ UNCHANGED <<build, argv, config, source, tokens, token, buffer, overrun, caller, driver>>
    BY DEF Configured, Keep, Goto, CommandLineOnly, tokenVars
  <1>3. Spares(mem, mem', {"params"})
    BY <1>1, <1>2, FreeSpares DEF Owned
  <1>4. gstate.block # NULL /\ config.block # NULL /\ status = Running
    BY <1>1 DEF Staged, SetupLabels, Relied, EndLabels
  <1>5. /\ gstate \in [block : Pointer, cli : Pointer]
        /\ config.block \in Pointer /\ NULL \in Pointer
    BY <1>1 DEF ProgramTypeOK, Pointer
  <1>6. gstate' = [block |-> gstate.block, cli |-> config.block]
    BY <1>2, <1>5
  <1>7. ProgramTypeOK'
    <2>1. gstate' \in [block : Pointer, cli : Pointer] /\ params' \in [block : Pointer, pointer : Nat]
      BY <1>2, <1>5, <1>6 DEF NoParams
    <2>2. pc' \in Labels /\ mem' \in Heap
      BY <1>2, <1>3 DEF Labels, Spares, Healthy
    <2>3. QED
      BY <1>1, <1>2, <2>1, <2>2 DEF ProgramTypeOK
  <1>8. Owned'
    <2>1. \A pointer, role : role # "params" /\ Ref(mem, pointer, role) => Ref(mem', pointer, role)
      BY <1>3 DEF Spares, Ref
    <2>2. params'.block = NULL /\ Ref(mem', NULL, "params")
      BY <1>2 DEF NoParams, Ref
    <2>3. Drives(mem', driver')
      BY <1>1, <1>2, <1>3, DrivesSpared DEF Owned
    <2>4. QED
      BY <1>1, <1>2, <1>6, <2>1, <2>2, <2>3 DEF Owned
  <1>9. Staged'
    <2>1. mem'.made["gstate"] = mem.made["gstate"]
      BY <1>3 DEF Spares
    <2>2. QED
      BY <1>1, <1>2, <1>4, <1>6, <2>1
      DEF Staged, SetupLabels, RunLabels, OpenLabels, TokenLabels, HeldLabels, EndLabels
  <1>10. Relied'
    BY <1>1, <1>2 DEF Relied, OpenLabels, TokenLabels, HeldLabels, ScannedLabels, EndLabels
  <1>11. Underway' /\ Stored' /\ ElementsKept'
    <2>1. \A block \in mem.live :
            block[1] \in {"content", "values", "shell"} => block \in mem'.live
      BY <1>3 DEF Spares
    <2>2. QED
      BY <1>1, <1>2, <2>1, TokensKept DEF EndLabels, HeldLabels
  <1>12. QED
    BY <1>3, <1>7, <1>8, <1>9, <1>10, <1>11 DEF ProgramInv, Spares

(***************************************************************************)
(* One lemma per step: the driver                                          *)
(***************************************************************************)

\* Every step of the driver: what it must leave in order.
LEMMA AnyStep ==
  ASSUME ProgramInv, pc \in RunLabels,
         NEW R, Spares(mem, mem', R), R \cap {"gstate", "config", "file", "params"} = {},
         UNCHANGED <<cliVars, gstate, config>>,
         \/ pc' \in RunLabels /\ status' = status
         \/ pc' = "exit" /\ status' \in {GOOD, BAD_USAGE, NO_MEM},
         source' \in TokenStreams \cup {<<>>},
         tokens' \in [block : Pointer, count : Nat, capacity : Nat, values : Pointer,
                      elements : Seq(Element)],
         token' \in [type : TokenType, shell : Pointer, content : Pointer],
         caller' \in Labels \cup {"none"},
         buffer' \in Pointer, Ref(mem', buffer', "number"), overrun' \in BOOLEAN,
         Drives(mem', driver'),
         Ref(mem', tokens'.block, "tokens"), Ref(mem', tokens'.values, "values"),
         Relied', Underway', Stored', ElementsKept'
  PROVE  ProgramInv'
  <1>1. /\ ProgramTypeOK /\ Healthy(mem) /\ Owned /\ Staged
    BY DEF ProgramInv
  <1>2. Healthy(mem') /\ mem' \in Heap /\ mem'.made["gstate"] = mem.made["gstate"]
    BY DEF Spares, Healthy
  <1>3. ProgramTypeOK'
    <2>1. pc' \in Labels /\ status' \in {Running, GOOD, BAD_USAGE, NO_MEM, EARLY_ACCESS}
      BY <1>1 DEF Labels, RunLabels, OpenLabels, TokenLabels, HeldLabels, ProgramTypeOK
    <2>2. driver' \in [reader : Pointer, path : Pointer, stream : Pointer,
                       scanner : Pointer, parser : Pointer, tree : Pointer]
      BY DEF Drives
    <2>3. QED
      BY <1>1, <1>2, <2>1, <2>2 DEF ProgramTypeOK, cliVars
  <1>4. Owned'
    <2>1. \A pointer, role : role \notin R /\ Ref(mem, pointer, role) => Ref(mem', pointer, role)
      BY DEF Spares, Ref
    <2>2. QED
      BY <1>1, <2>1 DEF Owned, cliVars
  <1>5. Staged'
    BY <1>1, <1>2
    DEF Staged, SetupLabels, RunLabels, OpenLabels, TokenLabels, HeldLabels, EndLabels
  <1>6. QED
    BY <1>2, <1>3, <1>4, <1>5 DEF ProgramInv

\* A step of the driver outside the reading of a number.
LEMMA RunStep ==
  ASSUME ProgramInv, pc \in RunLabels,
         NEW R, Spares(mem, mem', R),
         R \cap {"gstate", "config", "file", "params", "number"} = {},
         UNCHANGED <<cliVars, gstate, config, buffer, overrun>>,
         \/ pc' \in RunLabels /\ status' = status
         \/ pc' = "exit" /\ status' \in {GOOD, BAD_USAGE, NO_MEM},
         source' \in TokenStreams \cup {<<>>},
         tokens' \in [block : Pointer, count : Nat, capacity : Nat, values : Pointer,
                      elements : Seq(Element)],
         token' \in [type : TokenType, shell : Pointer, content : Pointer],
         caller' \in Labels \cup {"none"},
         Drives(mem', driver'),
         Ref(mem', tokens'.block, "tokens"), Ref(mem', tokens'.values, "values"),
         Relied', Underway', Stored', ElementsKept'
  PROVE  ProgramInv'
  <1>1. buffer \in Pointer /\ overrun \in BOOLEAN /\ Ref(mem, buffer, "number")
    BY DEF ProgramInv, ProgramTypeOK, Owned
  <1>2. "number" \notin R /\ R \cap {"gstate", "config", "file", "params"} = {}
    OBVIOUS
  <1>3. Ref(mem', buffer, "number")
    BY <1>1, <1>2, RefSpared
  <1>4. buffer' \in Pointer /\ Ref(mem', buffer', "number") /\ overrun' \in BOOLEAN
    BY <1>1, <1>3
  <1>5. UNCHANGED <<cliVars, gstate, config>>
    OBVIOUS
  <1>6. QED
    BY <1>2, <1>4, <1>5, AnyStep

\* A step of the driver that leaves the tokens alone.
LEMMA DriverStep ==
  ASSUME ProgramInv, pc \in RunLabels,
         NEW R, Spares(mem, mem', R),
         R \cap {"gstate", "config", "file", "params",
                 "tokens", "content", "values", "number", "shell"} = {},
         UNCHANGED <<cliVars, gstate, config, source, tokens, token, buffer, overrun>>,
         \/ pc' \in RunLabels \ {"token_content", "token_add"} /\ status' = status
         \/ pc' = "exit" /\ status' \in {GOOD, BAD_USAGE, NO_MEM},
         caller' \in Labels \cup {"none"},
         pc' \in HeldLabels => pc \in HeldLabels,
         Drives(mem', driver'),
         Relied'
  PROVE  ProgramInv'
  <1>1. /\ ProgramTypeOK /\ Healthy(mem) /\ Owned
    BY DEF ProgramInv
  <1>2. Underway' /\ Stored' /\ ElementsKept'
    <2>1. \A block \in mem.live :
            block[1] \in {"content", "values", "shell"} => block \in mem'.live
      BY DEF Spares
    <2>2. pc \notin EndLabels /\ pc' \notin {"token_content", "token_add"}
      BY DEF EndLabels, RunLabels, OpenLabels, TokenLabels, HeldLabels
    <2>3. QED
      BY <2>1, <2>2, TokensKept
  <1>3. Ref(mem', tokens'.block, "tokens") /\ Ref(mem', tokens'.values, "values")
    BY <1>1, RefSpared DEF Owned
  <1>4. R \cap {"gstate", "config", "file", "params", "number"} = {}
    OBVIOUS
  <1>5. /\ source' \in TokenStreams \cup {<<>>}
        /\ tokens' \in [block : Pointer, count : Nat, capacity : Nat, values : Pointer,
                        elements : Seq(Element)]
        /\ token' \in [type : TokenType, shell : Pointer, content : Pointer]
    BY <1>1 DEF ProgramTypeOK
  <1>6. QED
    BY <1>2, <1>3, <1>4, <1>5, RunStep

\* A pointer that is set to a block of its role.
LEMMA DrivesSet ==
  ASSUME NEW m, NEW d, Drives(m, d), NEW pointer \in Pointer
  PROVE  /\ Ref(m, pointer, "reader") => Drives(m, [d EXCEPT !.reader = pointer])
         /\ Ref(m, pointer, "path") => Drives(m, [d EXCEPT !.path = pointer])
         /\ Ref(m, pointer, "stream") => Drives(m, [d EXCEPT !.stream = pointer])
         /\ Ref(m, pointer, "scanner") => Drives(m, [d EXCEPT !.scanner = pointer])
         /\ Ref(m, pointer, "parser") => Drives(m, [d EXCEPT !.parser = pointer])
         /\ Ref(m, pointer, "tree") => Drives(m, [d EXCEPT !.tree = pointer])
  BY DEF Drives

\* The live configuration and global state of a running driver.
LEMMA RunningState ==
  ASSUME ProgramInv, pc \in RunLabels
  PROVE  /\ gstate.block # NULL
         /\ gstate.cli \in mem.live
         /\ status = Running
         /\ config.file # NULL => config.file \in mem.live
         /\ driver.path # NULL => driver.path \in mem.live
         /\ driver.tree # NULL => driver.tree \in mem.live
         /\ caller \in Labels \cup {"none"}
         /\ Healthy(mem)
         /\ Drives(mem, driver)
  BY DEF ProgramInv, ProgramTypeOK, Owned, Staged, Ref, Drives,
         RunLabels, OpenLabels, TokenLabels, HeldLabels, EndLabels

\* run_test finds the global state set up.
LEMMA RunTestKeeps ==
  ASSUME ProgramInv, RunTest
  PROVE  ProgramInv'
  <1>1. pc = "run" /\ pc \in RunLabels
    BY DEF RunTest, RunLabels
  <1>2. /\ gstate.block # NULL /\ gstate.cli \in mem.live /\ Healthy(mem) /\ Drives(mem, driver)
        /\ caller \in Labels \cup {"none"}
    BY <1>1, RunningState
  <1>3. Touch(mem, gstate.cli) = mem
    BY <1>2, TouchLive
  <1>4. mem' = mem /\ pc' \in {"teardown", "reader_new"} /\ status' = status
    BY <1>2, <1>3 DEF RunTest, DriverReturns, Goto
  <1>5. UNCHANGED <<cliVars, gstate, config, source, tokens, token, buffer, overrun, caller, driver>>
    BY DEF RunTest, tokenVars
  <1>6. Spares(mem, mem', {})
    BY <1>2, <1>4, SparesAll
  <1>7. Relied'
    BY <1>1, <1>4, <1>5 DEF ProgramInv, Relied, OpenLabels, TokenLabels, HeldLabels, ScannedLabels, EndLabels
  <1>8. /\ pc' \in RunLabels \ {"token_content", "token_add"}
        /\ pc' \notin HeldLabels
    BY <1>4 DEF RunLabels, HeldLabels
  <1>9. QED
    BY <1>1, <1>2, <1>4, <1>5, <1>6, <1>7, <1>8, DriverStep

\* The reader is allocated.
LEMMA ReaderNewKeeps ==
  ASSUME ProgramInv, ReaderNew
  PROVE  ProgramInv'
  <1>1. pc = "reader_new" /\ pc \in RunLabels
    BY DEF ReaderNew, RunLabels
  <1>2. Healthy(mem) /\ Drives(mem, driver) /\ caller \in Labels \cup {"none"}
    BY <1>1, RunningState
  <1>3. PICK o \in Malloc(mem, "reader") :
          /\ mem' = o.mem
          /\ driver' = [driver EXCEPT !.reader = o.pointer]
          /\ IF o.pointer = NULL \/ config.file = NULL THEN DriverReturns ELSE Goto("open")
    BY DEF ReaderNew
  <1>4. "reader" \in Roles \ {"gstate"}
    BY DEF Roles
  <1>5. Spares(mem, mem', {}) /\ Ref(mem', o.pointer, "reader") /\ o.pointer \in Pointer
    BY <1>2, <1>3, <1>4, MallocSpares
  <1>6. Drives(mem', driver')
    <2>1. Drives(mem', driver)
      BY <1>2, <1>5, DrivesKept
    <2>2. QED
      BY <2>1, <1>3, <1>5, DrivesSet
  <1>7. UNCHANGED <<cliVars, gstate, config, source, tokens, token, buffer, overrun, caller>>
    BY DEF ReaderNew, tokenVars
  <1>8. /\ pc' \in {"teardown", "open"} /\ status' = status
        /\ pc' = "open" => config.file # NULL
    BY <1>3 DEF DriverReturns, Goto
  <1>9. Relied'
    BY <1>1, <1>7, <1>8 DEF ProgramInv, Relied, OpenLabels, TokenLabels, HeldLabels, ScannedLabels, EndLabels
  <1>10. /\ pc' \in RunLabels \ {"token_content", "token_add"}
         /\ pc' \notin HeldLabels
    BY <1>8 DEF RunLabels, HeldLabels
  <1>11. QED
    BY <1>1, <1>2, <1>5, <1>6, <1>7, <1>8, <1>9, <1>10, DriverStep

\* os_path_normalize gives NULL or a fresh path, and frees nothing.
LEMMA NormalizedSpares ==
  ASSUME NEW m, Healthy(m), NEW o \in Normalized(m)
  PROVE  /\ Spares(m, o.mem, {})
         /\ Ref(o.mem, o.pointer, "path")
         /\ o.pointer \in Pointer
         /\ o.pointer \notin m.live
  <1>1. "temp" \in Roles \ {"gstate"} /\ "path" \in Roles \ {"gstate"}
    BY DEF Roles
  <1>2. PICK t \in Malloc(m, "temp") :
          o \in IF t.pointer = NULL THEN {t} ELSE Malloc(t.mem, "path")
    BY DEF Normalized
  <1>3. Spares(m, t.mem, {}) /\ t.pointer \in Pointer /\ t.pointer \notin m.live /\ Healthy(t.mem)
    BY <1>1, MallocSpares DEF Spares
  <1>4. CASE t.pointer = NULL
    <2>1. o = t
      BY <1>2, <1>4
    <2>2. QED
      BY <2>1, <1>3, <1>4 DEF Ref
  <1>5. CASE t.pointer # NULL
    <2>1. o \in Malloc(t.mem, "path")
      BY <1>2, <1>5
    <2>2. /\ Spares(t.mem, o.mem, {}) /\ Ref(o.mem, o.pointer, "path")
          /\ o.pointer \in Pointer /\ o.pointer \notin t.mem.live
      BY <2>1, <1>1, <1>3, MallocSpares
    <2>3. Spares(m, o.mem, {})
      BY <2>2, <1>3, SparesTwice
    <2>4. o.pointer \notin m.live
      BY <2>2, <1>3 DEF Spares
    <2>5. QED
      BY <2>2, <2>3, <2>4
  <1>6. QED
    BY <1>4, <1>5

\* A block that m does not have is freed again, which spares all of m.
LEMMA FreshFreed ==
  ASSUME NEW m, NEW n, Healthy(m), Spares(m, n, {}), NEW role, NEW block,
         Ref(n, block, role), block \notin m.live
  PROVE  Spares(m, Free(n, block), {})
  <1>1. /\ Healthy(Free(n, block)) /\ Free(n, block).live = n.live \ {block}
        /\ Free(n, block).made = n.made
    BY FreeResult DEF Spares, Ref
  <1>2. QED
    BY <1>1 DEF Spares

\* The path is stored.
LEMMA OpenPathKeeps ==
  ASSUME ProgramInv, OpenPath
  PROVE  ProgramInv'
  <1>1. pc = "open" /\ pc \in RunLabels /\ config.file # NULL
    BY DEF OpenPath, RunLabels, ProgramInv, Relied
  <1>2. Healthy(mem) /\ Drives(mem, driver) /\ caller \in Labels \cup {"none"}
    BY <1>1, RunningState
  <1>3. Touch(mem, config.file) = mem
    BY <1>1, RunningState, TouchLive
  <1>4. PICK o \in Normalized(mem) :
          /\ mem' = o.mem
          /\ driver' = [driver EXCEPT !.path = o.pointer]
          /\ IF o.pointer = NULL THEN DriverReturns ELSE Goto("open_exists")
    BY <1>3 DEF OpenPath
  <1>5. Spares(mem, mem', {}) /\ Ref(mem', o.pointer, "path") /\ o.pointer \in Pointer
    BY <1>2, <1>4, NormalizedSpares
  <1>6. Drives(mem', driver')
    <2>1. Drives(mem', driver)
      BY <1>2, <1>5, DrivesKept
    <2>2. QED
      BY <2>1, <1>4, <1>5, DrivesSet
  <1>7. UNCHANGED <<cliVars, gstate, config, source, tokens, token, buffer, overrun, caller>>
    BY DEF OpenPath, tokenVars
  <1>8. /\ pc' \in {"teardown", "open_exists"} /\ status' = status
        /\ pc' = "open_exists" => driver'.path # NULL
    BY <1>2, <1>4 DEF DriverReturns, Goto, Drives
  <1>9. Relied'
    BY <1>1, <1>7, <1>8 DEF ProgramInv, Relied, OpenLabels, TokenLabels, HeldLabels, ScannedLabels, EndLabels
  <1>10. /\ pc' \in RunLabels \ {"token_content", "token_add"}
         /\ pc' \notin HeldLabels
    BY <1>8 DEF RunLabels, OpenLabels, HeldLabels
  <1>11. QED
    BY <1>1, <1>2, <1>5, <1>6, <1>7, <1>8, <1>9, <1>10, DriverStep

\* Each check frees the path that it made for itself.
LEMMA OpenChecksKeeps ==
  ASSUME ProgramInv, OpenChecks
  PROVE  ProgramInv'
  <1>1. pc \in OpenLabels /\ pc \in RunLabels /\ driver.path # NULL
    BY DEF OpenChecks, RunLabels, OpenLabels, ProgramInv, Relied
  <1>2. Healthy(mem) /\ Drives(mem, driver) /\ caller \in Labels \cup {"none"}
    BY <1>1, RunningState
  <1>3. Touch(mem, driver.path) = mem
    BY <1>1, RunningState, TouchLive
  <1>4. PICK o \in Normalized(mem) :
          /\ mem' = Free(o.mem, o.pointer)
          /\ pc' \in {"teardown", "open_is_file", "fopen"} /\ status' = status
    BY <1>3 DEF OpenChecks, DriverReturns, Goto
  <1>5. /\ Spares(mem, o.mem, {}) /\ Ref(o.mem, o.pointer, "path") /\ o.pointer \notin mem.live
    BY <1>2, NormalizedSpares
  <1>6. Spares(mem, mem', {})
    BY <1>2, <1>4, <1>5, FreshFreed
  <1>7. UNCHANGED <<cliVars, gstate, config, source, tokens, token, buffer, overrun, caller, driver>>
    BY DEF OpenChecks, tokenVars
  <1>8. Drives(mem', driver')
    BY <1>2, <1>6, <1>7, DrivesSpared
  <1>9. Relied'
    BY <1>1, <1>4, <1>7 DEF ProgramInv, Relied, OpenLabels, TokenLabels, HeldLabels, ScannedLabels, EndLabels
  <1>10. /\ pc' \in RunLabels \ {"token_content", "token_add"}
         /\ pc' \notin HeldLabels
    BY <1>4 DEF RunLabels, OpenLabels, HeldLabels
  <1>11. QED
    BY <1>1, <1>2, <1>4, <1>6, <1>7, <1>8, <1>9, <1>10, DriverStep

\* fopen: the stream is a block of the driver, and there is nothing to be scanned
\* before.
LEMMA OpenFileKeeps ==
  ASSUME ProgramInv, OpenFile
  PROVE  ProgramInv'
  <1>1. /\ pc = "fopen" /\ pc \in RunLabels /\ pc \notin EndLabels
        /\ driver.path # NULL /\ tokens.block = NULL
    BY DEF OpenFile, RunLabels, OpenLabels, ProgramInv, Relied, ScannedLabels, TokenLabels,
           HeldLabels, EndLabels
  <1>2. /\ Healthy(mem) /\ Drives(mem, driver) /\ caller \in Labels \cup {"none"}
        /\ Touch(mem, driver.path) = mem
    BY <1>1, RunningState, TouchLive
  <1>3. PICK o \in Malloc(mem, "stream") :
          /\ mem' = o.mem
          /\ driver' = [driver EXCEPT !.stream = o.pointer]
          /\ IF o.pointer = NULL THEN DriverReturns /\ UNCHANGED source
             ELSE Goto("scanner_new") /\ source' \in TokenStreams
    BY <1>2 DEF OpenFile
  <1>4. "stream" \in Roles \ {"gstate"}
    BY DEF Roles
  <1>5. Spares(mem, mem', {}) /\ Ref(mem', o.pointer, "stream") /\ o.pointer \in Pointer
    BY <1>2, <1>3, <1>4, MallocSpares
  <1>6. Drives(mem', driver')
    <2>1. Drives(mem', driver)
      BY <1>2, <1>5, DrivesKept
    <2>2. QED
      BY <2>1, <1>3, <1>5, DrivesSet
  <1>7. UNCHANGED <<cliVars, gstate, config, tokens, token, buffer, overrun, caller>>
    BY DEF OpenFile
  <1>8. /\ pc' \in {"teardown", "scanner_new"} /\ status' = status
        /\ source' \in TokenStreams \cup {<<>>}
    BY <1>3 DEF DriverReturns, Goto, ProgramInv, ProgramTypeOK
  <1>9. Relied'
    BY <1>1, <1>7, <1>8 DEF Relied, OpenLabels, TokenLabels, HeldLabels
  <1>10. Underway' /\ Stored' /\ ElementsKept'
    BY <1>1, <1>7, <1>8 DEF Underway, Stored, ElementsKept, HeldLabels
  <1>11. /\ Ref(mem', tokens'.block, "tokens") /\ Ref(mem', tokens'.values, "values")
         /\ tokens' \in [block : Pointer, count : Nat, capacity : Nat, values : Pointer,
                         elements : Seq(Element)]
         /\ token' \in [type : TokenType, shell : Pointer, content : Pointer]
         /\ caller' \in Labels \cup {"none"}
    BY <1>2, <1>5, <1>7, RefSpared DEF ProgramInv, Owned, ProgramTypeOK
  <1>12. pc' \in RunLabels
    BY <1>8 DEF RunLabels
  <1>13. QED
    BY <1>1, <1>5, <1>6, <1>7, <1>8, <1>9, <1>10, <1>11, <1>12, RunStep

\* Both blocks of the scanner are there: it begins with an empty array.
LEMMA ScannerMade ==
  ASSUME ProgramInv, ScannerNew,
         NEW s, NEW t, s \in Malloc(mem, "scanner"), s.pointer # NULL,
         t \in Malloc(s.mem, "tokens"), t.pointer # NULL,
         mem' = t.mem,
         driver' = [driver EXCEPT !.scanner = s.pointer],
         tokens' = NoTokens(t.pointer),
         IF config.mode = "scanner" THEN ReadToken("print_first")
         ELSE Goto("parser_new") /\ UNCHANGED caller
  PROVE  ProgramInv'
  <1>1. pc = "scanner_new" /\ pc \in RunLabels
    BY DEF ScannerNew, RunLabels
  <1>2. Healthy(mem) /\ Drives(mem, driver) /\ caller \in Labels \cup {"none"}
    BY <1>1, RunningState
  <1>3. "scanner" \in Roles \ {"gstate"} /\ "tokens" \in Roles \ {"gstate"}
    BY DEF Roles
  <1>4. /\ Spares(mem, s.mem, {}) /\ Healthy(s.mem)
        /\ Ref(s.mem, s.pointer, "scanner") /\ s.pointer \in Pointer
    BY <1>2, <1>3, MallocSpares DEF Spares
  <1>5. Spares(s.mem, mem', {}) /\ Ref(mem', t.pointer, "tokens") /\ t.pointer \in Pointer
    BY <1>3, <1>4, MallocSpares
  <1>6. Spares(mem, mem', {})
    BY <1>4, <1>5, SparesTwice
  <1>7. Drives(mem', driver')
    <2>1. Drives(mem', driver) /\ Ref(mem', s.pointer, "scanner")
      BY <1>2, <1>4, <1>5, <1>6, DrivesKept, RefSpared
    <2>2. QED
      BY <2>1, <1>4, DrivesSet
  <1>8. UNCHANGED <<cliVars, gstate, config, source, token, buffer, overrun>>
    BY DEF ScannerNew
  <1>9. /\ tokens'.block = t.pointer /\ tokens'.count = 0 /\ tokens'.capacity = 0
        /\ tokens'.values = NULL /\ tokens'.elements = <<>>
    BY DEF NoTokens
  <1>10. /\ pc' \in {"scan", "parser_new"} /\ status' = status
         /\ caller' \in Labels \cup {"none"}
         /\ pc' = "scan" => caller' = "print_first"
    BY <1>2 DEF ReadToken, Goto, Labels
  <1>11. Relied'
    BY <1>9, <1>10 DEF Relied, OpenLabels, TokenLabels, HeldLabels, ScannedLabels
  <1>12. Underway'
    BY <1>10 DEF Underway, HeldLabels
  <1>13. Stored'
    BY <1>9 DEF Stored, Contents
  <1>14. ElementsKept'
    BY <1>9, <1>10 DEF ElementsKept, ArrayKept, Filled
  <1>15. /\ Ref(mem', tokens'.block, "tokens") /\ Ref(mem', tokens'.values, "values")
         /\ tokens' \in [block : Pointer, count : Nat, capacity : Nat, values : Pointer,
                         elements : Seq(Element)]
    <2>1. NULL \in Pointer /\ <<>> \in Seq(Element)
      BY DEF Pointer
    <2>2. QED
      BY <2>1, <1>5, <1>9 DEF Ref, NoTokens
  <1>16. /\ token' \in [type : TokenType, shell : Pointer, content : Pointer]
         /\ source' \in TokenStreams \cup {<<>>}
    BY <1>8 DEF ProgramInv, ProgramTypeOK
  <1>17. pc' \in RunLabels
    BY <1>10 DEF RunLabels, TokenLabels
  <1>18. QED
    BY <1>1, <1>6, <1>7, <1>8, <1>10, <1>11, <1>12, <1>13, <1>14, <1>15, <1>16, <1>17, RunStep

\* The scanner is made, or what was made of it is freed again.
LEMMA ScannerNewKeeps ==
  ASSUME ProgramInv, ScannerNew
  PROVE  ProgramInv'
  <1>1. pc = "scanner_new" /\ pc \in RunLabels
    BY DEF ScannerNew, RunLabels
  <1>2. Healthy(mem) /\ Drives(mem, driver) /\ caller \in Labels \cup {"none"}
    BY <1>1, RunningState
  <1>3. PICK s \in Malloc(mem, "scanner") :
          \E t \in (IF s.pointer = NULL THEN {s} ELSE Malloc(s.mem, "tokens")) :
            IF t.pointer = NULL
            THEN /\ mem' = Free(t.mem, s.pointer)
                 /\ IF config.mode = "scanner" THEN Goto("crashed") ELSE DriverReturns
                 /\ UNCHANGED <<tokens, caller, driver>>
            ELSE /\ mem' = t.mem
                 /\ driver' = [driver EXCEPT !.scanner = s.pointer]
                 /\ tokens' = NoTokens(t.pointer)
                 /\ IF config.mode = "scanner" THEN ReadToken("print_first")
                    ELSE Goto("parser_new") /\ UNCHANGED caller
    BY DEF ScannerNew
  <1>4. PICK t \in (IF s.pointer = NULL THEN {s} ELSE Malloc(s.mem, "tokens")) :
          IF t.pointer = NULL
          THEN /\ mem' = Free(t.mem, s.pointer)
               /\ IF config.mode = "scanner" THEN Goto("crashed") ELSE DriverReturns
               /\ UNCHANGED <<tokens, caller, driver>>
          ELSE /\ mem' = t.mem
               /\ driver' = [driver EXCEPT !.scanner = s.pointer]
               /\ tokens' = NoTokens(t.pointer)
               /\ IF config.mode = "scanner" THEN ReadToken("print_first")
                  ELSE Goto("parser_new") /\ UNCHANGED caller
    BY <1>3
  <1>5. CASE t.pointer # NULL
    <2>1. s.pointer # NULL /\ t \in Malloc(s.mem, "tokens")
      BY <1>4, <1>5
    <2>2. QED
      BY <2>1, <1>4, <1>5, ScannerMade
  <1>6. CASE t.pointer = NULL
    <2>1. /\ mem' = Free(t.mem, s.pointer)
          /\ pc' \in {"crashed", "teardown"} /\ status' = status
          /\ UNCHANGED <<tokens, caller, driver>>
      BY <1>4, <1>6 DEF Goto, DriverReturns
    <2>2. "scanner" \in Roles \ {"gstate"} /\ "tokens" \in Roles \ {"gstate"}
      BY DEF Roles
    <2>3. /\ Spares(mem, s.mem, {}) /\ Healthy(s.mem) /\ s.pointer \notin mem.live
          /\ Ref(s.mem, s.pointer, "scanner")
      BY <1>2, <2>2, MallocSpares DEF Spares
    <2>4. Spares(s.mem, t.mem, {})
      BY <1>4, <2>2, <2>3, MallocSpares, SparesAll
    <2>5. Spares(mem, t.mem, {}) /\ Ref(t.mem, s.pointer, "scanner")
      BY <2>3, <2>4, SparesTwice, RefSpared
    <2>6. Spares(mem, mem', {})
      BY <1>2, <2>1, <2>3, <2>5, FreshFreed
    <2>7. UNCHANGED <<cliVars, gstate, config, source, tokens, token, buffer, overrun, caller, driver>>
      BY <2>1 DEF ScannerNew
    <2>8. Drives(mem', driver')
      BY <1>2, <2>6, <2>7, DrivesKept
    <2>9. Relied'
      BY <1>1, <2>1, <2>7
      DEF ProgramInv, Relied, OpenLabels, TokenLabels, HeldLabels, ScannedLabels, EndLabels
    <2>10. /\ pc' \in RunLabels \ {"token_content", "token_add"}
           /\ pc' \notin HeldLabels
      BY <2>1 DEF RunLabels, HeldLabels
    <2>11. QED
      BY <1>1, <1>2, <2>1, <2>6, <2>7, <2>8, <2>9, <2>10, DriverStep
  <1>7. QED
    BY <1>5, <1>6

(***************************************************************************)
(* One lemma per step: reading a token                                     *)
(***************************************************************************)

\* On its way out the program relies on nothing of this.
LEMMA ExitRelaxed ==
  ASSUME pc' = "exit"
  PROVE  Relied' /\ Underway' /\ Stored' /\ ElementsKept'
  BY DEF Relied, Underway, Stored, ElementsKept, OpenLabels, TokenLabels, HeldLabels,
         EndLabels, ScannedLabels

\* The types of what a reading of a token finds and leaves.
LEMMA TokenTypes ==
  ASSUME ProgramInv
  PROVE  /\ source \in Seq(Finding \ {"EOS"})
         /\ tokens.count \in Nat /\ tokens.capacity \in Nat
         /\ tokens.block \in Pointer /\ tokens.values \in Pointer
         /\ tokens.elements \in Seq(Element)
         /\ token.type \in TokenType /\ token.shell \in Pointer /\ token.content \in Pointer
         /\ token = [type |-> token.type, shell |-> token.shell, content |-> token.content]
         /\ tokens = [block |-> tokens.block, count |-> tokens.count,
                      capacity |-> tokens.capacity, values |-> tokens.values,
                      elements |-> tokens.elements]
         /\ tokens.block # NULL => tokens.block \in mem.live
  <1>1. source \in TokenStreams \cup {<<>>}
        /\ tokens \in [block : Pointer, count : Nat, capacity : Nat, values : Pointer,
                       elements : Seq(Element)]
        /\ token \in [type : TokenType, shell : Pointer, content : Pointer]
    BY DEF ProgramInv, ProgramTypeOK
  <1>2. source \in Seq(Finding \ {"EOS"})
    <2>1. CASE source \in TokenStreams
      BY <2>1, StreamsAssumption
    <2>2. CASE source = <<>>
      BY <2>2
    <2>3. QED
      BY <1>1, <2>1, <2>2
  <1>3. tokens.block # NULL => tokens.block \in mem.live
    BY DEF ProgramInv, Owned, Ref
  <1>4. /\ tokens.count \in Nat /\ tokens.capacity \in Nat
        /\ tokens.block \in Pointer /\ tokens.values \in Pointer
        /\ tokens.elements \in Seq(Element)
        /\ tokens = [block |-> tokens.block, count |-> tokens.count,
                     capacity |-> tokens.capacity, values |-> tokens.values,
                     elements |-> tokens.elements]
    BY <1>1
  <1>5. QED
    BY <1>1, <1>2, <1>3, <1>4

\* The type of the next token is the one that belongs behind the tokens read so far.
LEMMA NextTypeIsNext ==
  ASSUME ProgramInv
  PROVE  NextType \in TokenType /\ NextType = TypeAt(tokens.count + 1)
  <1>1. source \in Seq(Finding \ {"EOS"}) /\ tokens.count \in Nat
    BY TokenTypes
  <1>2. Len(source) \in Nat /\ (tokens.count < Len(source) <=> tokens.count + 1 <= Len(source))
    BY <1>1
  <1>3. TypeOf(Found) \in TokenType /\ TypeOf("EOS") = "EOS"
    BY DEF TypeOf, TokenType
  <1>4. QED
    BY <1>2, <1>3 DEF NextType, TypeAt, Found

\* A step that makes the next token keeps the invariant.
LEMMA TokenStep ==
  ASSUME ProgramInv, pc \in TokenLabels,
         Spares(mem, mem', {"number"}),
         UNCHANGED <<cliVars, gstate, config, source, tokens, caller, driver>>,
         pc' \in {"token_new", "token_content", "token_add", "crashed"}, status' = status,
         buffer' \in Pointer, Ref(mem', buffer', "number"), overrun' \in BOOLEAN,
         token' \in [type : TokenType, shell : Pointer, content : Pointer],
         Underway'
  PROVE  ProgramInv'
  <1>1. pc \in RunLabels /\ pc \notin EndLabels
    BY DEF RunLabels, EndLabels, TokenLabels
  <1>2. /\ Healthy(mem) /\ Drives(mem, driver) /\ caller \in Labels \cup {"none"}
    BY <1>1, RunningState
  <1>3. Stored' /\ (tokens.block # NULL => ArrayKept')
    <2>1. \A block \in mem.live : block[1] \in {"content", "values"} => block \in mem'.live
      BY DEF Spares
    <2>2. QED
      BY <2>1, <1>1, ArraySpared
  <1>4. ElementsKept'
    BY <1>3 DEF ElementsKept
  <1>5. Relied'
    BY DEF ProgramInv, Relied, OpenLabels, TokenLabels, HeldLabels, ScannedLabels, EndLabels
  <1>6. /\ Drives(mem', driver')
        /\ Ref(mem', tokens'.block, "tokens") /\ Ref(mem', tokens'.values, "values")
    BY <1>2, DrivesSpared, RefSpared DEF ProgramInv, Owned
  <1>7. /\ source' \in TokenStreams \cup {<<>>} /\ caller' \in Labels \cup {"none"}
        /\ tokens' \in [block : Pointer, count : Nat, capacity : Nat, values : Pointer,
                         elements : Seq(Element)]
    BY DEF ProgramInv, ProgramTypeOK
  <1>8. pc' \in RunLabels /\ {"number"} \cap {"gstate", "config", "file", "params"} = {}
    BY DEF RunLabels, TokenLabels
  <1>9. QED
    BY <1>1, <1>3, <1>4, <1>5, <1>6, <1>7, <1>8, AnyStep

\* A step of the reading that ends the program keeps the invariant.
LEMMA TokenExit ==
  ASSUME ProgramInv, pc \in TokenLabels,
         NEW R, Spares(mem, mem', R), R \subseteq {"shell"},
         UNCHANGED <<cliVars, gstate, config, source, buffer, overrun, caller, driver>>,
         pc' = "exit", status' = NO_MEM,
         token' \in [type : TokenType, shell : Pointer, content : Pointer],
         tokens' \in [block : Pointer, count : Nat, capacity : Nat, values : Pointer,
                      elements : Seq(Element)],
         tokens'.block = tokens.block, tokens'.values = tokens.values
  PROVE  ProgramInv'
  <1>1. pc \in RunLabels
    BY DEF RunLabels
  <1>2. Drives(mem, driver) /\ caller \in Labels \cup {"none"}
    BY <1>1, RunningState
  <1>3. /\ Drives(mem', driver')
        /\ Ref(mem', tokens'.block, "tokens") /\ Ref(mem', tokens'.values, "values")
    <2>1. "tokens" \notin R /\ "values" \notin R
      OBVIOUS
    <2>2. QED
      BY <2>1, <1>2, DrivesSpared, RefSpared DEF ProgramInv, Owned
  <1>4. source' \in TokenStreams \cup {<<>>} /\ caller' \in Labels \cup {"none"}
    BY <1>2 DEF ProgramInv, ProgramTypeOK
  <1>5. R \cap {"gstate", "config", "file", "params", "number"} = {}
    OBVIOUS
  <1>6. QED
    BY <1>1, <1>3, <1>4, <1>5, ExitRelaxed, RunStep

\* What is no number goes straight to token_new.
LEMMA ScanKeeps ==
  ASSUME ProgramInv, Scan, TokensOnly
  PROVE  ProgramInv'
  <1>1. /\ pc = "scan" /\ pc \in TokenLabels /\ pc \in RunLabels
        /\ pc' = "token_new" /\ status' = status
    BY DEF Scan, Goto, TokenLabels, RunLabels
  <1>2. /\ UNCHANGED <<mem, cliVars, gstate, config, source, tokens, caller, driver>>
        /\ UNCHANGED <<token, buffer, overrun>>
    BY DEF Scan, tokenVars, TokensOnly
  <1>3. Spares(mem, mem', {"number"})
    BY <1>2, SparesAll DEF ProgramInv
  <1>4. /\ token' \in [type : TokenType, shell : Pointer, content : Pointer]
        /\ buffer' \in Pointer /\ Ref(mem', buffer', "number") /\ overrun' \in BOOLEAN
    BY <1>2 DEF ProgramInv, ProgramTypeOK, Owned
  <1>5. Underway'
    BY <1>1 DEF Underway, HeldLabels
  <1>6. QED
    BY <1>1, <1>2, <1>3, <1>4, <1>5, TokenStep

\* A number goes there with its buffer, or without one when it is rejected; or the
\* program ends.
LEMMA ScanNumberKeeps ==
  ASSUME ProgramInv, ScanNumber, TokensOnly
  PROVE  ProgramInv'
  <1>1. pc = "scan" /\ pc \in TokenLabels /\ pc \in RunLabels
    BY DEF ScanNumber, TokenLabels, RunLabels
  <1>2. PICK o \in Malloc(mem, "number") :
          \/ /\ o.pointer = NULL
             /\ mem' = o.mem /\ ExitWith(NO_MEM)
             /\ UNCHANGED <<buffer, overrun>>
          \/ /\ o.pointer # NULL
             /\ mem' = IF Found = "REJECTED" THEN Free(o.mem, o.pointer) ELSE o.mem
             /\ buffer' = IF Found = "REJECTED" THEN NULL ELSE o.pointer
             /\ overrun' = (overrun \/ Found = "OVERLONG")
             /\ \/ Goto("token_new")
                \/ Found = "OVERLONG" /\ Goto("crashed")
    BY DEF ScanNumber
  <1>3. "number" \in Roles \ {"gstate"}
    BY DEF Roles
  <1>4. /\ Spares(mem, o.mem, {}) /\ Ref(o.mem, o.pointer, "number") /\ o.pointer \in Pointer
        /\ Healthy(o.mem)
    BY <1>1, <1>3, RunningState, MallocSpares DEF Spares
  <1>5. UNCHANGED <<cliVars, gstate, config, source, tokens, token, caller, driver>>
    BY DEF ScanNumber, TokensOnly
  <1>6. /\ token' \in [type : TokenType, shell : Pointer, content : Pointer]
        /\ tokens' \in [block : Pointer, count : Nat, capacity : Nat, values : Pointer,
                         elements : Seq(Element)]
        /\ tokens'.block = tokens.block /\ tokens'.values = tokens.values
    BY <1>5 DEF ProgramInv, ProgramTypeOK
  <1>7. CASE o.pointer = NULL
    <2>1. mem' = o.mem /\ pc' = "exit" /\ status' = NO_MEM /\ UNCHANGED <<buffer, overrun>>
      BY <1>2, <1>7 DEF ExitWith
    <2>2. QED
      BY <1>1, <1>4, <1>5, <1>6, <2>1, TokenExit
  <1>8. CASE o.pointer # NULL
    <2>1. /\ mem' = IF Found = "REJECTED" THEN Free(o.mem, o.pointer) ELSE o.mem
          /\ buffer' = IF Found = "REJECTED" THEN NULL ELSE o.pointer
          /\ overrun' = (overrun \/ Found = "OVERLONG")
          /\ pc' \in {"token_new", "crashed"} /\ status' = status
      BY <1>2, <1>8 DEF Goto
    <2>2. Spares(o.mem, mem', {"number"}) /\ Ref(mem', buffer', "number") /\ buffer' \in Pointer
      <3>1. CASE Found = "REJECTED"
        BY <3>1, <2>1, <1>4, FreeSpares DEF Ref, Pointer
      <3>2. CASE Found # "REJECTED"
        BY <3>2, <2>1, <1>4, SparesAll
      <3>3. QED
        BY <3>1, <3>2
    <2>3. Spares(mem, mem', {"number"})
      BY <1>4, <2>2, SparesTwice
    <2>4. overrun' \in BOOLEAN
      BY <2>1
    <2>5. Underway'
      BY <2>1 DEF Underway, HeldLabels
    <2>6. QED
      BY <1>1, <1>5, <1>6, <2>1, <2>2, <2>3, <2>4, <2>5, TokenStep
  <1>9. QED
    BY <1>7, <1>8

\* token_new's struct.
LEMMA TokenNewKeeps ==
  ASSUME ProgramInv, TokenNew, TokensOnly
  PROVE  ProgramInv'
  <1>1. pc = "token_new" /\ pc \in TokenLabels /\ pc \in RunLabels
    BY DEF TokenNew, TokenLabels, RunLabels
  <1>2. PICK o \in Malloc(mem, "shell") :
          /\ mem' = o.mem
          /\ token' = [type |-> NextType, shell |-> o.pointer, content |-> NULL]
          /\ IF o.pointer = NULL THEN ExitWith(NO_MEM)
             ELSE Goto(IF NextType = "EOS" THEN "token_add" ELSE "token_content")
    BY DEF TokenNew
  <1>3. "shell" \in Roles \ {"gstate"}
    BY DEF Roles
  <1>4. /\ Spares(mem, mem', {}) /\ Ref(mem', o.pointer, "shell") /\ o.pointer \in Pointer
    BY <1>1, <1>2, <1>3, RunningState, MallocSpares
  <1>5. UNCHANGED <<cliVars, gstate, config, source, tokens, buffer, overrun, caller, driver>>
    BY DEF TokenNew, TokensOnly
  <1>6. NextType \in TokenType /\ NextType = TypeAt(tokens.count + 1)
    BY NextTypeIsNext
  <1>7. token' \in [type : TokenType, shell : Pointer, content : Pointer]
    BY <1>2, <1>4, <1>6 DEF Pointer
  <1>8. CASE o.pointer = NULL
    <2>1. pc' = "exit" /\ status' = NO_MEM
      BY <1>2, <1>8 DEF ExitWith
    <2>2. /\ tokens' \in [block : Pointer, count : Nat, capacity : Nat, values : Pointer,
                          elements : Seq(Element)]
          /\ tokens'.block = tokens.block /\ tokens'.values = tokens.values
      BY <1>5 DEF ProgramInv, ProgramTypeOK
    <2>3. QED
      BY <1>1, <1>4, <1>5, <1>7, <2>1, <2>2, TokenExit
  <1>9. CASE o.pointer # NULL
    <2>1. /\ pc' = IF NextType = "EOS" THEN "token_add" ELSE "token_content"
          /\ status' = status
      BY <1>2, <1>9 DEF Goto
    <2>2. TypeAt(tokens.count + 1)' = TypeAt(tokens.count + 1)
      BY <1>5 DEF TypeAt
    <2>3. o.pointer \in mem'.live /\ o.pointer[1] = "shell"
      BY <1>4, <1>9 DEF Ref
    <2>4. token'.type = NextType /\ token'.shell = o.pointer /\ token'.content = NULL
      BY <1>2
    <2>5. Underway'
      BY <1>6, <2>1, <2>2, <2>3, <2>4 DEF Underway, HeldLabels
    <2>6. Spares(mem, mem', {"number"})
      BY <1>4 DEF Spares
    <2>7. buffer' \in Pointer /\ Ref(mem', buffer', "number") /\ overrun' \in BOOLEAN
      BY <1>4, <1>5, RefSpared DEF ProgramInv, ProgramTypeOK, Owned
    <2>8. QED
      BY <1>1, <1>5, <1>7, <2>1, <2>5, <2>6, <2>7, TokenStep
  <1>10. QED
    BY <1>8, <1>9

\* token_new's copy of the text, or the struct is freed.
LEMMA TokenContentKeeps ==
  ASSUME ProgramInv, TokenContent, TokensOnly
  PROVE  ProgramInv'
  <1>1. pc = "token_content" /\ pc \in TokenLabels /\ pc \in RunLabels /\ pc \notin EndLabels
    BY DEF TokenContent, TokenLabels, RunLabels, EndLabels
  <1>2. PICK o \in Malloc(mem, "content") :
          IF o.pointer = NULL
          THEN /\ mem' = Free(o.mem, token.shell) /\ token' = NoToken /\ ExitWith(NO_MEM)
               /\ UNCHANGED buffer
          ELSE /\ mem' = Free(o.mem, buffer) /\ token' = [token EXCEPT !.content = o.pointer]
               /\ buffer' = NULL /\ Goto("token_add")
    BY DEF TokenContent, BufferFreed
  <1>3. "content" \in Roles \ {"gstate"}
    BY DEF Roles
  <1>4. /\ Spares(mem, o.mem, {}) /\ Ref(o.mem, o.pointer, "content") /\ o.pointer \in Pointer
        /\ o.pointer \notin mem.live /\ Healthy(o.mem)
    BY <1>1, <1>3, RunningState, MallocSpares DEF Spares
  <1>5. UNCHANGED <<cliVars, gstate, config, source, tokens, overrun, caller, driver>>
    BY DEF TokenContent, TokensOnly
  <1>6. /\ token.shell \in mem.live /\ token.shell[1] = "shell"
        /\ token.type = TypeAt(tokens.count + 1) /\ token.type # "EOS" /\ token.content = NULL
    BY <1>1 DEF ProgramInv, Underway
  <1>7. CASE o.pointer = NULL
    <2>1. /\ mem' = Free(o.mem, token.shell) /\ token' = NoToken /\ pc' = "exit" /\ status' = NO_MEM
          /\ buffer' = buffer
      BY <1>2, <1>7 DEF ExitWith
    <2>2. Ref(o.mem, token.shell, "shell")
      BY <1>4, <1>6 DEF Ref, Spares
    <2>3. Spares(o.mem, mem', {"shell"})
      BY <1>4, <2>1, <2>2, FreeSpares
    <2>4. Spares(mem, mem', {"shell"})
      BY <1>4, <2>3, SparesTwice
    <2>5. token' \in [type : TokenType, shell : Pointer, content : Pointer]
      BY <2>1 DEF NoToken, TokenType, Pointer
    <2>6. /\ tokens' \in [block : Pointer, count : Nat, capacity : Nat, values : Pointer,
                          elements : Seq(Element)]
          /\ tokens'.block = tokens.block /\ tokens'.values = tokens.values
      BY <1>5 DEF ProgramInv, ProgramTypeOK
    <2>7. QED
      BY <1>1, <1>5, <2>1, <2>4, <2>5, <2>6, TokenExit
  <1>8. CASE o.pointer # NULL
    <2>1. /\ mem' = Free(o.mem, buffer) /\ token' = [token EXCEPT !.content = o.pointer]
          /\ buffer' = NULL /\ pc' = "token_add" /\ status' = status
      BY <1>2, <1>8 DEF Goto
    <2>2. /\ token' = [type |-> token.type, shell |-> token.shell, content |-> o.pointer]
          /\ token.type \in TokenType /\ token.shell \in Pointer
      BY <2>1, TokenTypes
    <2>3. token' \in [type : TokenType, shell : Pointer, content : Pointer]
      BY <2>2, <1>4
    <2>4. Contents' = Contents /\ TypeAt(tokens.count + 1)' = TypeAt(tokens.count + 1)
      BY <1>5 DEF Contents, TypeAt
    <2>5. o.pointer \notin Contents
      <3>1. tokens.block # NULL /\ ArrayKept
        BY <1>1 DEF ProgramInv, Relied, TokenLabels, ElementsKept
      <3>2. \A content \in Contents : content = NULL \/ content \in mem.live
        BY <3>1 DEF ArrayKept, Filled, Contents
      <3>3. QED
        BY <3>2, <1>4, <1>8
    <2>6. Ref(o.mem, buffer, "number")
      BY <1>4, RefSpared DEF ProgramInv, Owned
    <2>7. Spares(o.mem, mem', {"number"})
      BY <1>4, <2>1, <2>6, FreeSpares
    <2>8. Spares(mem, mem', {"number"})
      BY <1>4, <2>7, SparesTwice
    <2>9. /\ o.pointer \in mem'.live /\ o.pointer[1] = "content"
          /\ token.shell \in mem'.live
      BY <1>4, <1>6, <1>8, <2>7, <2>8 DEF Ref, Spares
    <2>10. Underway'
      BY <1>6, <2>1, <2>2, <2>4, <2>5, <2>9 DEF Underway, HeldLabels
    <2>11. buffer' \in Pointer /\ Ref(mem', buffer', "number") /\ overrun' \in BOOLEAN
      BY <1>5, <2>1 DEF Pointer, Ref, ProgramInv, ProgramTypeOK
    <2>12. QED
      BY <1>1, <1>5, <2>1, <2>3, <2>8, <2>10, <2>11, TokenStep
  <1>9. QED
    BY <1>7, <1>8

\* An array that must grow, does.
LEMMA GrowCapacityGrows ==
  ASSUME NEW capacity \in Nat
  PROVE  GrowCapacity(capacity) \in Nat /\ GrowCapacity(capacity) > capacity
  <1>1. /\ TULA_ARRAY_MIN_THRESHOLD \in Nat /\ TULA_ARRAY_MIN_THRESHOLD >= 1
        /\ TULA_ARRAY_GROW_FACTOR \in Nat /\ TULA_ARRAY_GROW_FACTOR >= 2
    BY GrowthAssumption
  <1>2. CASE capacity < TULA_ARRAY_MIN_THRESHOLD
    BY <1>1, <1>2 DEF GrowCapacity
  <1>3. CASE capacity >= TULA_ARRAY_MIN_THRESHOLD
    <2>1. capacity >= 1 /\ GrowCapacity(capacity) = capacity * TULA_ARRAY_GROW_FACTOR
      BY <1>1, <1>3 DEF GrowCapacity
    <2>2. \A a, b \in Nat : a >= 1 /\ b >= 2 => a * b \in Nat /\ a * b > a
      <3>1. \A a, c \in Nat : a * (c + 2) = a * c + a + a /\ a * c \in Nat
        OBVIOUS
      <3>2. \A b \in Nat : b >= 2 => b - 2 \in Nat /\ b = (b - 2) + 2
        OBVIOUS
      <3>3. QED
        BY <3>1, <3>2
    <2>3. QED
      BY <1>1, <2>1, <2>2
  <1>4. QED
    BY <1>1, <1>2, <1>3

\* Growing keeps what the array holds.
LEMMA GrownResult ==
  ASSUME ProgramInv, NEW values \in Pointer, Stored, tokens.block # NULL, pc \notin EndLabels
  PROVE  /\ Grown(tokens, values) =
              [block |-> tokens.block, count |-> tokens.count,
               capacity |-> GrowCapacity(tokens.capacity), values |-> values,
               elements |-> Grown(tokens, values).elements]
         /\ Grown(tokens, values).elements \in Seq(Element)
         /\ Len(Grown(tokens, values).elements) = GrowCapacity(tokens.capacity)
         /\ \A i \in 1 .. tokens.capacity :
              Grown(tokens, values).elements[i] = tokens.elements[i]
  <1> DEFINE capacity == GrowCapacity(tokens.capacity)
             elements == [i \in 1 .. capacity |->
                            IF i <= tokens.capacity THEN tokens.elements[i] ELSE Nothing]
  <1>1. /\ tokens.capacity \in Nat /\ tokens.elements \in Seq(Element)
        /\ Len(tokens.elements) = tokens.capacity
        /\ tokens = [block |-> tokens.block, count |-> tokens.count,
                     capacity |-> tokens.capacity, values |-> tokens.values,
                     elements |-> tokens.elements]
    BY TokenTypes DEF Stored
  <1>2. capacity \in Nat /\ capacity > tokens.capacity
    BY <1>1, GrowCapacityGrows
  <1>3. Grown(tokens, values) =
          [block |-> tokens.block, count |-> tokens.count, capacity |-> capacity,
           values |-> values, elements |-> elements]
    <2> HIDE DEF capacity
    <2>1. Grown(tokens, values) =
            [tokens EXCEPT !.capacity = capacity, !.values = values,
                           !.elements = [i \in 1 .. capacity |->
                                           IF i <= tokens.capacity THEN @[i] ELSE Nothing]]
      BY DEF Grown, capacity
    <2>2. QED
      BY <1>1, <2>1
  <1> HIDE DEF capacity
  <1>4. Nothing \in Element
    BY DEF Nothing, Element, TokenType, Pointer
  <1>5. \A i \in 1 .. capacity : elements[i] \in Element
    <2> SUFFICES ASSUME NEW i \in 1 .. capacity PROVE elements[i] \in Element
      OBVIOUS
    <2>1. CASE i <= tokens.capacity
      <3>1. i \in 1 .. Len(tokens.elements)
        BY <1>1, <1>2, <2>1
      <3>2. QED
        BY <1>1, <2>1, <3>1
    <2>2. QED
      BY <2>1, <1>4
  <1>6. elements \in Seq(Element) /\ Len(elements) = capacity
    BY <1>2, <1>5
  <1>7. \A i \in 1 .. tokens.capacity : elements[i] = tokens.elements[i]
    BY <1>1, <1>2
  <1> HIDE DEF elements
  <1>8. Grown(tokens, values).elements = elements
    BY <1>3
  <1>9. QED
    BY <1>3, <1>6, <1>7, <1>8 DEF capacity

\* The element that is put is the token, behind those that are there.
LEMMA PutResult ==
  ASSUME NEW t, NEW capacity \in Nat, NEW count \in Nat, count < capacity,
         NEW elements \in Seq(Element), Len(elements) = capacity,
         NEW block \in Pointer, NEW values \in Pointer,
         t = [block |-> block, count |-> count, capacity |-> capacity, values |-> values,
              elements |-> elements],
         token.type \in TokenType, token.content \in Pointer
  PROVE  /\ Put(t) = [block |-> block, count |-> count + 1, capacity |-> capacity,
                      values |-> values, elements |-> Put(t).elements]
         /\ Put(t).elements \in Seq(Element)
         /\ Len(Put(t).elements) = capacity
         /\ Put(t).elements[count + 1] = [type |-> token.type, content |-> token.content]
         /\ \A i \in 1 .. count : Put(t).elements[i] = elements[i]
  <1> DEFINE new == [type |-> token.type, content |-> token.content]
             put == [elements EXCEPT ![count + 1] = new]
  <1>1. Put(t) = [block |-> block, count |-> count + 1, capacity |-> capacity,
                  values |-> values, elements |-> put]
    <2> HIDE DEF new
    <2>1. Put(t) = [t EXCEPT !.count = @ + 1, !.elements[count + 1] = new]
      BY DEF Put, new
    <2>2. QED
      BY <2>1
  <1>2. new \in Element
    BY DEF Element
  <1> HIDE DEF new
  <1>3. count + 1 \in 1 .. Len(elements) /\ DOMAIN elements = 1 .. Len(elements)
    OBVIOUS
  <1>4. put \in Seq(Element) /\ Len(put) = capacity
    BY <1>2, <1>3
  <1>5. put[count + 1] = new
    BY <1>3
  <1>6. \A i \in 1 .. count : put[i] = elements[i]
    BY <1>3
  <1> HIDE DEF put
  <1>7. QED
    BY <1>1, <1>4, <1>5, <1>6 DEF new

\* The token becomes the last element of an array with room for it, and goes to the
\* caller.
LEMMA PutKeeps ==
  ASSUME ProgramInv, pc = "token_add", Spares(mem, mem', {"values"}),
         UNCHANGED <<cliVars, gstate, config, source, token, buffer, overrun, caller, driver>>,
         pc' = caller, status' = status,
         NEW capacity \in Nat, tokens.count < capacity,
         NEW elements \in Seq(Element), Len(elements) = capacity,
         NEW values \in Pointer, values \in mem'.live, values[1] = "values",
         \A i \in 1 .. tokens.count : elements[i] = tokens.elements[i],
         tokens' = Put([block |-> tokens.block, count |-> tokens.count,
                        capacity |-> capacity, values |-> values, elements |-> elements])
  PROVE  ProgramInv'
  <1>1. pc \in TokenLabels /\ pc \in RunLabels /\ pc \notin EndLabels
    BY DEF TokenLabels, RunLabels, EndLabels
  <1>2. /\ ProgramTypeOK /\ Owned /\ Relied /\ Underway /\ Stored /\ ArrayKept
        /\ tokens.block # NULL
    BY <1>1 DEF ProgramInv, ElementsKept, Relied, EndLabels
  <1>3. /\ tokens.count \in Nat /\ tokens.block \in Pointer
        /\ token.type \in TokenType /\ token.content \in Pointer
    BY TokenTypes
  <1>4. /\ tokens'.block = tokens.block /\ tokens'.count = tokens.count + 1
        /\ tokens'.capacity = capacity /\ tokens'.values = values
        /\ tokens' \in [block : Pointer, count : Nat, capacity : Nat, values : Pointer,
                        elements : Seq(Element)]
        /\ Len(tokens'.elements) = capacity
        /\ tokens'.elements[tokens.count + 1] = [type |-> token.type, content |-> token.content]
        /\ \A i \in 1 .. tokens.count : tokens'.elements[i] = elements[i]
    <2> DEFINE t == [block |-> tokens.block, count |-> tokens.count,
                     capacity |-> capacity, values |-> values, elements |-> elements]
    <2>1. /\ Put(t) = [block |-> tokens.block, count |-> tokens.count + 1,
                       capacity |-> capacity, values |-> values, elements |-> Put(t).elements]
          /\ Put(t).elements \in Seq(Element)
          /\ Len(Put(t).elements) = capacity
          /\ Put(t).elements[tokens.count + 1] = [type |-> token.type, content |-> token.content]
          /\ \A i \in 1 .. tokens.count : Put(t).elements[i] = elements[i]
      BY <1>3, PutResult
    <2>2. tokens' = Put(t) /\ tokens.count + 1 \in Nat
      BY <1>3
    <2> HIDE DEF t
    <2>3. /\ tokens'.block = tokens.block /\ tokens'.count = tokens.count + 1
          /\ tokens'.capacity = capacity /\ tokens'.values = values
          /\ tokens'.elements = Put(t).elements
      BY <2>1, <2>2
    <2>4. tokens' \in [block : Pointer, count : Nat, capacity : Nat, values : Pointer,
                       elements : Seq(Element)]
      BY <1>3, <2>1, <2>2
    <2>5. QED
      BY <2>1, <2>3, <2>4
  <1>5. \A i \in 1 .. tokens.count : tokens'.elements[i] = tokens.elements[i]
    BY <1>4
  <1>6. 1 .. tokens'.count = (1 .. tokens.count) \cup {tokens.count + 1}
    BY <1>3, <1>4
  <1>7. tokens'.elements[tokens'.count] = [type |-> token.type, content |-> token.content]
    BY <1>4
  <1>8. \A i : TypeAt(i)' = TypeAt(i)
    BY DEF TypeAt
  <1>9. Contents' = Contents \cup {token.content}
    <2>1. \A i \in 1 .. tokens.count : tokens'.elements[i].content = tokens.elements[i].content
      BY <1>5
    <2>2. tokens'.elements[tokens.count + 1].content = token.content
      BY <1>4
    <2>3. Contents' = {tokens'.elements[i].content : i \in (1 .. tokens.count) \cup {tokens.count + 1}}
      BY <1>6 DEF Contents
    <2>4. ASSUME NEW c PROVE c \in Contents' <=> c \in Contents \cup {token.content}
      <3>1. c \in Contents' <=>
              \/ \E i \in 1 .. tokens.count : c = tokens'.elements[i].content
              \/ c = tokens'.elements[tokens.count + 1].content
        BY <2>3
      <3>2. c \in Contents <=> \E i \in 1 .. tokens.count : c = tokens.elements[i].content
        BY DEF Contents
      <3>3. QED
        BY <2>1, <2>2, <3>1, <3>2
    <2>5. QED
      BY <2>4
  <1>10. /\ token.type = TypeAt(tokens.count + 1)
         /\ token.content # NULL => /\ token.content \in mem'.live
                                    /\ token.content[1] = "content"
                                    /\ token.content \notin Contents
         /\ token.content # NULL <=> token.type # "EOS"
         /\ token.shell \in mem'.live /\ token.shell[1] = "shell"
    <2>1. NULL \notin mem.live
      BY NullIsNoBlock DEF ProgramInv, Healthy, Heap
    <2>2. QED
      BY <1>2, <2>1 DEF Underway, Spares
  <1>11. \A content \in Contents : Ref(mem', content, "content")
    BY <1>2, RefSpared DEF Stored, EndLabels
  <1>12. Stored'
    <2>1. \A content \in Contents' : Ref(mem', content, "content")
      BY <1>9, <1>10, <1>11 DEF Ref
    <2>2. QED
      BY <1>4, <2>1 DEF Stored
  <1>13. Filled' = Filled \cup {i \in {tokens.count + 1} : token.content # NULL}
    BY <1>4, <1>5, <1>6 DEF Filled
  <1>14. /\ \A i \in Filled : i \in 1 .. tokens.count /\ tokens.elements[i].content \in Contents
         /\ \A i \in Filled : tokens.elements[i].content # NULL
         /\ \A i \in Filled : tokens'.elements[i].content = tokens.elements[i].content
    BY <1>5 DEF Filled, Contents
  <1>15. ArrayKept'
    <2>1. tokens'.count <= tokens'.capacity
      BY <1>3, <1>4
    <2>2. tokens'.values \in mem'.live
      BY <1>4
    <2>3. \A i \in 1 .. tokens'.count :
            tokens'.elements[i].type = TypeAt(i)' /\ (i \in Filled' <=> TypeAt(i)' # "EOS")
      <3> SUFFICES ASSUME NEW i \in 1 .. tokens'.count
                   PROVE  tokens'.elements[i].type = TypeAt(i) /\ (i \in Filled' <=> TypeAt(i) # "EOS")
        BY <1>8
      <3>1. CASE i \in 1 .. tokens.count
        <4>1. tokens.elements[i].type = TypeAt(i) /\ (i \in Filled <=> TypeAt(i) # "EOS")
          BY <1>2, <3>1 DEF ArrayKept
        <4>2. i # tokens.count + 1
          BY <1>3, <3>1
        <4>3. QED
          BY <1>5, <1>13, <3>1, <4>1, <4>2
      <3>2. CASE i = tokens.count + 1
        <4>1. i \notin Filled
          BY <1>3, <1>14, <3>2
        <4>2. QED
          BY <1>4, <1>10, <1>13, <3>2, <4>1
      <3>3. QED
        BY <1>6, <3>1, <3>2
    <2>4. \A i \in Filled' : tokens'.elements[i].content \in mem'.live
      <3>1. \A i \in Filled : tokens'.elements[i].content \in mem'.live
        BY <1>11, <1>14 DEF Ref
      <3>2. token.content # NULL => tokens'.elements[tokens.count + 1].content \in mem'.live
        BY <1>4, <1>10
      <3>3. QED
        BY <1>13, <3>1, <3>2
    <2>5. \A i, j \in Filled' : tokens'.elements[i].content = tokens'.elements[j].content => i = j
      <3>1. \A i, j \in Filled : tokens.elements[i].content = tokens.elements[j].content => i = j
        BY <1>2 DEF ArrayKept
      <3>2. \A i \in Filled : tokens'.elements[i].content \in Contents
        BY <1>14
      <3>3. token.content # NULL => tokens'.elements[tokens.count + 1].content \notin Contents
        BY <1>4, <1>10
      <3>4. QED
        BY <3>1, <3>2, <3>3, <1>13, <1>14
    <2>6. QED
      BY <2>1, <2>2, <2>3, <2>4, <2>5 DEF ArrayKept
  <1>16. LastHeld'
    BY <1>7, <1>10 DEF LastHeld
  <1>17. ElementsKept'
    BY <1>15, <1>16 DEF ElementsKept
  <1>18. pc' \in HeldLabels \ {"parsed"}
    BY <1>1, <1>2 DEF Relied
  <1>19. Underway'
    BY <1>10, <1>18 DEF Underway, HeldLabels
  <1>20. Relied'
    <2>1. tokens'.count >= 1
      BY <1>3, <1>4
    <2>2. QED
      BY <1>1, <1>2, <1>4, <1>18, <2>1
      DEF Relied, OpenLabels, TokenLabels, HeldLabels, ScannedLabels
  <1>21. /\ Drives(mem', driver')
         /\ Ref(mem', tokens'.block, "tokens") /\ Ref(mem', tokens'.values, "values")
    <2>1. Drives(mem, driver) /\ Ref(mem, tokens.block, "tokens")
      BY <1>2 DEF Owned
    <2>2. Drives(mem', driver') /\ Ref(mem', tokens'.block, "tokens")
      BY <1>4, <2>1, DrivesSpared, RefSpared
    <2>3. QED
      BY <1>4, <2>2 DEF Ref
  <1>22. /\ source' \in TokenStreams \cup {<<>>} /\ caller' \in Labels \cup {"none"}
         /\ token' \in [type : TokenType, shell : Pointer, content : Pointer]
    BY <1>2 DEF ProgramTypeOK
  <1>23. pc' \in RunLabels
    BY <1>18 DEF RunLabels
  <1>24. {"values"} \cap {"gstate", "config", "file", "params"} = {}
    OBVIOUS
  <1>25. QED
    BY <1>1, <1>4, <1>12, <1>17, <1>19, <1>20, <1>21, <1>22, <1>23, <1>24, RunStep

\* arr_token_add: in the block there is, in a larger one, or not at all.
LEMMA ArrTokenAddKeeps ==
  ASSUME ProgramInv, ArrTokenAdd, TokensOnly
  PROVE  ProgramInv'
  <1>1. pc = "token_add" /\ pc \in TokenLabels /\ pc \in RunLabels /\ pc \notin EndLabels
    BY DEF ArrTokenAdd, TokenLabels, RunLabels, EndLabels
  <1>2. UNCHANGED <<cliVars, gstate, config, source, token, buffer, overrun, caller, driver>>
    BY DEF ArrTokenAdd, TokensOnly
  <1>3. /\ Healthy(mem) /\ Stored /\ ArrayKept /\ tokens.block # NULL
        /\ Ref(mem, tokens.values, "values")
    BY <1>1 DEF ProgramInv, ElementsKept, Relied, EndLabels, Owned
  <1>4. /\ tokens.count \in Nat /\ tokens.capacity \in Nat
        /\ tokens.values \in Pointer /\ tokens.elements \in Seq(Element)
        /\ tokens = [block |-> tokens.block, count |-> tokens.count,
                     capacity |-> tokens.capacity, values |-> tokens.values,
                     elements |-> tokens.elements]
    BY TokenTypes
  <1>5. /\ tokens.count <= tokens.capacity /\ Len(tokens.elements) = tokens.capacity
        /\ tokens.capacity > 0 => tokens.values \in mem.live
    BY <1>1, <1>3 DEF ArrayKept, Stored
  <1>6. CASE ~Full(tokens)
    <2>1. tokens.count < tokens.capacity /\ tokens.values \in mem.live
      BY <1>4, <1>5, <1>6 DEF Full
    <2>2. mem' = mem
      <3>1. mem' = Touch(mem, tokens.values)
        BY <1>6, <2>1 DEF ArrTokenAdd, Returned, Written
      <3>2. QED
        BY <1>3, <2>1, <3>1, TouchLive
    <2>3. tokens' = Put(tokens) /\ pc' = caller /\ status' = status
      BY <1>6 DEF ArrTokenAdd, Goto
    <2>4. Spares(mem, mem', {"values"})
      BY <1>3, <2>2, SparesAll
    <2>5. tokens.values[1] = "values"
      BY <1>3, <2>1, NullIsNoBlock DEF Ref, Healthy, Heap
    <2>6. \A i \in 1 .. tokens.count : tokens.elements[i] = tokens.elements[i]
      OBVIOUS
    <2>7. tokens' = Put([block |-> tokens.block, count |-> tokens.count,
                         capacity |-> tokens.capacity, values |-> tokens.values,
                         elements |-> tokens.elements])
      BY <1>4, <2>3
    <2>8. QED
      BY <1>1, <1>2, <1>4, <1>5, <2>1, <2>2, <2>3, <2>4, <2>5, <2>6, <2>7, PutKeeps
  <1>7. CASE Full(tokens)
    <2>1. PICK o \in Realloc(mem, tokens.values, "values") :
            IF o.pointer = NULL
            THEN /\ mem' = o.mem
                 /\ tokens' = [tokens EXCEPT !.capacity = GrowCapacity(@)]
                 /\ ExitWith(NO_MEM)
            ELSE /\ mem' = Returned(Written(o.mem, Grown(tokens, o.pointer)))
                 /\ tokens' = Put(Grown(tokens, o.pointer))
                 /\ Goto(caller)
      BY <1>7 DEF ArrTokenAdd
    <2>2. "values" \in Roles /\ "gstate" \in Roles /\ "values" # "gstate"
      BY DEF Roles
    <2>3. /\ Healthy(o.mem) /\ o.pointer \in Pointer
          /\ o.pointer = NULL => o.mem.live = mem.live
          /\ o.pointer # NULL => /\ o.mem.live = (mem.live \ {tokens.values}) \cup {o.pointer}
                                 /\ o.pointer[1] = "values"
          /\ o.mem.made["gstate"] = mem.made["gstate"]
      BY <1>3, <2>2, ReallocResult
    <2>4. GrowCapacity(tokens.capacity) \in Nat /\ GrowCapacity(tokens.capacity) > tokens.capacity
      BY <1>4, GrowCapacityGrows
    <2>5. CASE o.pointer = NULL
      <3>1. /\ mem' = o.mem /\ pc' = "exit" /\ status' = NO_MEM
            /\ tokens' = [tokens EXCEPT !.capacity = GrowCapacity(@)]
        BY <2>1, <2>5 DEF ExitWith
      <3>2. Spares(mem, mem', {})
        BY <2>3, <2>5, <3>1 DEF Spares
      <3>3. tokens' = [block |-> tokens.block, count |-> tokens.count,
                       capacity |-> GrowCapacity(tokens.capacity), values |-> tokens.values,
                       elements |-> tokens.elements]
        BY <1>4, <3>1
      <3>4. /\ tokens' \in [block : Pointer, count : Nat, capacity : Nat, values : Pointer,
                            elements : Seq(Element)]
            /\ tokens'.block = tokens.block /\ tokens'.values = tokens.values
        BY <1>4, <2>4, <3>3, TokenTypes
      <3>5. token' \in [type : TokenType, shell : Pointer, content : Pointer]
        BY <1>2 DEF ProgramInv, ProgramTypeOK
      <3>6. QED
        BY <1>1, <1>2, <3>1, <3>2, <3>4, <3>5, TokenExit
    <2>6. CASE o.pointer # NULL
      <3> DEFINE capacity == GrowCapacity(tokens.capacity)
                 elements == Grown(tokens, o.pointer).elements
      <3>1. /\ Grown(tokens, o.pointer) =
                 [block |-> tokens.block, count |-> tokens.count,
                  capacity |-> capacity, values |-> o.pointer, elements |-> elements]
            /\ elements \in Seq(Element)
            /\ Len(elements) = capacity
            /\ \A i \in 1 .. tokens.capacity : elements[i] = tokens.elements[i]
        BY <1>1, <1>3, <2>3, GrownResult
      <3> HIDE DEF capacity, elements
      <3>2. capacity \in Nat /\ tokens.count < capacity
        BY <1>4, <1>5, <2>4 DEF capacity
      <3>3. /\ mem' = Written(o.mem, Grown(tokens, o.pointer))
            /\ tokens' = Put(Grown(tokens, o.pointer))
            /\ pc' = caller /\ status' = status
        BY <2>1, <2>6 DEF Returned, Goto
      <3>4. o.pointer \in o.mem.live
        BY <2>3, <2>6
      <3>5. mem' = o.mem
        <4>1. /\ Grown(tokens, o.pointer).count < Grown(tokens, o.pointer).capacity
              /\ Grown(tokens, o.pointer).values = o.pointer
          BY <3>1, <3>2
        <4>2. mem' = Touch(o.mem, o.pointer)
          BY <3>3, <4>1 DEF Written
        <4>3. QED
          BY <2>3, <3>4, <4>2, TouchLive
      <3>6. Spares(mem, mem', {"values"})
        <4>1. \A block \in mem.live : block[1] # "values" => block \in o.mem.live
          BY <1>3, <2>3, <2>6, NullIsNoBlock DEF Ref, Healthy, Heap
        <4>2. QED
          BY <2>3, <3>5, <4>1 DEF Spares
      <3>7. \A i \in 1 .. tokens.count : elements[i] = tokens.elements[i]
        BY <1>4, <1>5, <3>1
      <3>8. tokens' = Put([block |-> tokens.block, count |-> tokens.count,
                           capacity |-> capacity, values |-> o.pointer, elements |-> elements])
        BY <3>1, <3>3
      <3>9. QED
        BY <1>1, <1>2, <2>3, <2>6, <3>1, <3>2, <3>3, <3>4, <3>5, <3>6, <3>7, <3>8, PutKeeps
    <2>7. QED
      BY <2>5, <2>6
  <1>8. QED
    BY <1>6, <1>7

(***************************************************************************)
(* One lemma per step: the drivers' use of the tokens, and the end         *)
(***************************************************************************)

\* The token that the caller holds may be used.
LEMMA HeldUsable ==
  ASSUME ProgramInv, pc \in HeldLabels
  PROVE  HeldTouched(mem) = mem
  <1>1. /\ Healthy(mem) /\ Underway /\ Stored /\ ArrayKept /\ LastHeld
        /\ tokens.block # NULL /\ tokens.count >= 1 /\ tokens.count \in Nat
    BY TokenTypes DEF ProgramInv, ElementsKept, Relied, HeldLabels, EndLabels
  <1>2. token.shell \in mem.live /\ Touch(mem, token.shell) = mem
    BY <1>1, TouchLive DEF Underway
  <1>3. token.content = NULL \/ token.content \in mem.live
    <2>1. tokens.count \in 1 .. tokens.count /\ tokens.elements[tokens.count].content = token.content
      BY <1>1 DEF LastHeld
    <2>2. QED
      BY <1>1, <2>1 DEF ArrayKept, Filled
  <1>4. token.content # NULL => Touch(mem, token.content) = mem
    BY <1>1, <1>3, TouchLive
  <1>5. QED
    BY <1>2, <1>4 DEF HeldTouched

\* A step of the driver that changes nothing in the heap.
LEMMA QuietStep ==
  ASSUME ProgramInv, pc \in RunLabels, mem' = mem,
         UNCHANGED <<cliVars, gstate, config, source, tokens, token, buffer, overrun, driver>>,
         \/ pc' \in RunLabels \ {"token_content", "token_add"} /\ status' = status
         \/ pc' = "exit" /\ status' \in {GOOD, BAD_USAGE, NO_MEM},
         caller' \in Labels \cup {"none"},
         pc' \in HeldLabels => pc \in HeldLabels,
         Relied'
  PROVE  ProgramInv'
  <1>1. Healthy(mem) /\ Drives(mem, driver)
    BY RunningState
  <1>2. Spares(mem, mem', {}) /\ Drives(mem', driver')
    BY <1>1, SparesAll
  <1>3. QED
    BY <1>2, DriverStep

\* test_scanner prints the token and reads the next one.
LEMMA TestScannerKeeps ==
  ASSUME ProgramInv, TestScanner
  PROVE  ProgramInv'
  <1>1. pc \in {"print_first", "print"} /\ pc \in HeldLabels /\ pc \in RunLabels
    BY DEF TestScanner, HeldLabels, RunLabels
  <1>2. mem' = mem
    BY <1>1, HeldUsable DEF TestScanner
  <1>3. UNCHANGED <<cliVars, gstate, config, source, tokens, token, buffer, overrun, driver>>
    BY DEF TestScanner
  <1>4. /\ status' = status
        /\ \/ pc' = "teardown" /\ caller' = caller
           \/ pc' = "scan" /\ caller' = "print"
    BY DEF TestScanner, DriverReturns, Goto, ReadToken
  <1>5. caller' \in Labels \cup {"none"}
    BY <1>1, <1>4, RunningState DEF Labels
  <1>6. Relied'
    BY <1>1, <1>3, <1>4 DEF ProgramInv, Relied, OpenLabels, TokenLabels, HeldLabels, ScannedLabels
  <1>7. pc' \in RunLabels \ {"token_content", "token_add"} /\ pc' \notin HeldLabels
    BY <1>4 DEF RunLabels, TokenLabels, HeldLabels
  <1>8. QED
    BY <1>1, <1>2, <1>3, <1>4, <1>5, <1>6, <1>7, QuietStep

\* parser_new, and the first token it reads.
LEMMA ParserNewKeeps ==
  ASSUME ProgramInv, ParserNew
  PROVE  ProgramInv'
  <1>1. pc = "parser_new" /\ pc \in RunLabels
    BY DEF ParserNew, RunLabels
  <1>2. Healthy(mem) /\ Drives(mem, driver) /\ caller \in Labels \cup {"none"}
    BY <1>1, RunningState
  <1>3. PICK o \in Malloc(mem, "parser") :
          /\ mem' = o.mem
          /\ driver' = [driver EXCEPT !.parser = o.pointer]
          /\ IF o.pointer = NULL THEN ExitWith(NO_MEM) /\ UNCHANGED caller ELSE ReadToken("parse")
    BY DEF ParserNew
  <1>4. "parser" \in Roles \ {"gstate"}
    BY DEF Roles
  <1>5. Spares(mem, mem', {}) /\ Ref(mem', o.pointer, "parser") /\ o.pointer \in Pointer
    BY <1>2, <1>3, <1>4, MallocSpares
  <1>6. Drives(mem', driver')
    <2>1. Drives(mem', driver)
      BY <1>2, <1>5, DrivesKept
    <2>2. QED
      BY <2>1, <1>3, <1>5, DrivesSet
  <1>7. UNCHANGED <<cliVars, gstate, config, source, tokens, token, buffer, overrun>>
    BY DEF ParserNew
  <1>8. \/ pc' = "exit" /\ status' = NO_MEM /\ caller' = caller
        \/ pc' = "scan" /\ status' = status /\ caller' = "parse"
    BY <1>3 DEF ExitWith, ReadToken
  <1>9. Relied'
    <2>1. CASE pc' = "exit"
      BY <2>1, ExitRelaxed
    <2>2. CASE pc' = "scan" /\ caller' = "parse"
      <3>1. tokens'.block # NULL
        BY <1>1, <1>7 DEF ParserNew, ProgramInv, Relied
      <3>2. QED
        BY <2>2, <3>1 DEF Relied, OpenLabels, TokenLabels, HeldLabels, ScannedLabels
    <2>3. QED
      BY <1>8, <2>1, <2>2
  <1>10. /\ pc' \notin HeldLabels
         /\ caller' \in Labels \cup {"none"}
         /\ \/ pc' \in RunLabels \ {"token_content", "token_add"} /\ status' = status
            \/ pc' = "exit" /\ status' \in {GOOD, BAD_USAGE, NO_MEM}
    BY <1>2, <1>8 DEF RunLabels, TokenLabels, HeldLabels, Labels
  <1>11. QED
    BY <1>1, <1>2, <1>5, <1>6, <1>7, <1>9, <1>10, DriverStep

\* parser_parse begins the tree.
LEMMA ParserParseKeeps ==
  ASSUME ProgramInv, ParserParse
  PROVE  ProgramInv'
  <1>1. pc = "parse" /\ pc \in RunLabels /\ pc \in HeldLabels
    BY DEF ParserParse, RunLabels, HeldLabels
  <1>2. Healthy(mem) /\ Drives(mem, driver) /\ caller \in Labels \cup {"none"}
    BY <1>1, RunningState
  <1>3. PICK o \in Malloc(mem, "tree") :
          /\ mem' = o.mem
          /\ driver' = [driver EXCEPT !.tree = o.pointer]
          /\ IF o.pointer = NULL THEN ExitWith(NO_MEM) ELSE Goto("parsing")
    BY DEF ParserParse
  <1>4. "tree" \in Roles \ {"gstate"}
    BY DEF Roles
  <1>5. Spares(mem, mem', {}) /\ Ref(mem', o.pointer, "tree") /\ o.pointer \in Pointer
    BY <1>2, <1>3, <1>4, MallocSpares
  <1>6. Drives(mem', driver')
    <2>1. Drives(mem', driver)
      BY <1>2, <1>5, DrivesKept
    <2>2. QED
      BY <2>1, <1>3, <1>5, DrivesSet
  <1>7. UNCHANGED <<cliVars, gstate, config, source, tokens, token, buffer, overrun, caller>>
    BY DEF ParserParse, tokenVars
  <1>8. \/ pc' = "exit" /\ status' = NO_MEM
        \/ pc' = "parsing" /\ status' = status /\ o.pointer # NULL
    BY <1>3 DEF ExitWith, Goto
  <1>9. Relied'
    <2>1. CASE pc' = "exit"
      BY <2>1, ExitRelaxed
    <2>2. CASE pc' = "parsing" /\ o.pointer # NULL
      <3>1. driver'.tree # NULL
        BY <1>2, <1>3, <2>2 DEF Drives
      <3>2. tokens'.block # NULL /\ tokens'.count >= 1
        BY <1>1, <1>7 DEF ProgramInv, Relied
      <3>3. QED
        BY <2>2, <3>1, <3>2 DEF Relied, OpenLabels, TokenLabels, HeldLabels, ScannedLabels
    <2>3. QED
      BY <1>8, <2>1, <2>2
  <1>10. /\ caller' \in Labels \cup {"none"}
         /\ \/ pc' \in RunLabels \ {"token_content", "token_add"} /\ status' = status
            \/ pc' = "exit" /\ status' \in {GOOD, BAD_USAGE, NO_MEM}
    BY <1>2, <1>7, <1>8 DEF RunLabels, HeldLabels
  <1>11. QED
    BY <1>1, <1>2, <1>5, <1>6, <1>7, <1>9, <1>10, DriverStep

\* A look of the parser at its token: the refused node changes no block.
LEMMA ParsingKeeps ==
  ASSUME ProgramInv, Parsing
  PROVE  ProgramInv'
  <1>1. pc = "parsing" /\ pc \in HeldLabels /\ pc \in RunLabels
    BY DEF Parsing, HeldLabels, RunLabels
  <1>2. /\ Healthy(mem) /\ Drives(mem, driver) /\ caller \in Labels \cup {"none"}
        /\ HeldTouched(mem) = mem
    BY <1>1, RunningState, HeldUsable
  <1>3. UNCHANGED <<cliVars, gstate, config, source, tokens, token, buffer, overrun, driver>>
    BY DEF Parsing
  <1>4. CASE mem' = RefusedTo(HeldTouched(mem), "tree").mem /\ ExitWith(NO_MEM) /\ UNCHANGED caller
    <2>1. pc' = "exit" /\ status' = NO_MEM /\ caller' = caller
      BY <1>4 DEF ExitWith
    <2>2. Spares(mem, mem', {})
      BY <1>2, <1>4, RefusedSpares DEF Roles
    <2>3. Drives(mem', driver')
      BY <1>2, <1>3, <2>2, DrivesKept
    <2>4. pc' \notin HeldLabels /\ caller' \in Labels \cup {"none"}
      BY <1>2, <2>1 DEF HeldLabels
    <2>5. QED
      BY <1>1, <1>3, <2>1, <2>2, <2>3, <2>4, ExitRelaxed, DriverStep
  <1>5. CASE \/ mem' = HeldTouched(mem) /\ ReadToken("parsing")
             \/ mem' = HeldTouched(mem) /\ Goto("parsed") /\ UNCHANGED caller
    <2>1. /\ mem' = mem /\ status' = status
          /\ \/ pc' = "scan" /\ caller' = "parsing"
             \/ pc' = "parsed" /\ caller' = caller
      BY <1>2, <1>5 DEF ReadToken, Goto
    <2>2. driver'.tree # NULL /\ tokens'.block # NULL /\ tokens'.count >= 1
      BY <1>1, <1>3 DEF ProgramInv, Relied
    <2>3. Relied'
      BY <2>1, <2>2 DEF Relied, OpenLabels, TokenLabels, HeldLabels, ScannedLabels
    <2>4. /\ pc' \in RunLabels \ {"token_content", "token_add"}
          /\ caller' \in Labels \cup {"none"}
      BY <1>2, <2>1 DEF RunLabels, TokenLabels, HeldLabels, Labels
    <2>5. QED
      BY <1>1, <1>3, <2>1, <2>3, <2>4, QuietStep
  <1>6. QED
    BY <1>4, <1>5 DEF Parsing

\* arr_token_destroy frees the array, its elements and their texts.
LEMMA ArrayDestroyed ==
  ASSUME ProgramInv, pc \in HeldLabels, NEW m, NEW R,
         Spares(mem, m, R), R \cap {"content", "values", "tokens"} = {}
  PROVE  Spares(m, ArrTokenDestroy(m), {"content", "values", "tokens"})
  <1> DEFINE contents == [i \in 1 .. tokens.count |-> tokens.elements[i].content]
             emptied == FreeEach(m, contents)
             moved == Free(emptied, tokens.values)
  <1>1. /\ Stored /\ ArrayKept /\ Owned /\ tokens.block # NULL
        /\ tokens.count \in Nat /\ tokens.capacity \in Nat /\ tokens.count >= 1
    BY TokenTypes DEF ProgramInv, ElementsKept, Relied, HeldLabels, EndLabels
  <1>2. Healthy(m) /\ NULL \notin mem.live
    BY NullIsNoBlock DEF ProgramInv, Spares, Healthy, Heap
  <1>3. tokens.values \in mem.live /\ tokens.values # NULL /\ tokens.values[1] = "values"
    <2>1. tokens.capacity > 0
      BY <1>1 DEF ArrayKept
    <2>2. QED
      BY <1>1, <1>2, <2>1 DEF ArrayKept, Owned, Ref
  <1>4. tokens.values \in m.live /\ Ref(m, tokens.block, "tokens")
    BY <1>1, <1>3 DEF Spares, Owned, Ref
  <1>5. \A i \in 1 .. tokens.count : Ref(m, contents[i], "content")
    <2>1. \A i \in 1 .. tokens.count : contents[i] \in Contents
      BY DEF Contents
    <2>2. \A content \in Contents : Ref(m, content, "content")
      BY <1>1, RefSpared DEF Stored, HeldLabels, EndLabels
    <2>3. QED
      BY <2>1, <2>2
  <1>6. \A i, j \in 1 .. tokens.count : contents[i] # NULL /\ contents[i] = contents[j] => i = j
    BY <1>1 DEF ArrayKept, Filled
  <1>7. /\ Healthy(emptied)
        /\ emptied.live = m.live \ {contents[i] : i \in 1 .. tokens.count}
        /\ emptied.made = m.made
    <2>1. DOMAIN contents = 1 .. tokens.count /\ \A i \in 1 .. tokens.count : i \in Int
      OBVIOUS
    <2>2. \A i \in DOMAIN contents : contents[i] = NULL \/ contents[i] \in m.live
      BY <1>5, <2>1 DEF Ref
    <2>3. \A i, j \in DOMAIN contents : contents[i] # NULL /\ contents[i] = contents[j] => i = j
      BY <1>6, <2>1
    <2> HIDE DEF contents
    <2>4. /\ Healthy(emptied)
          /\ emptied.live = m.live \ {contents[i] : i \in DOMAIN contents}
          /\ emptied.made = m.made
      BY <1>2, <2>1, <2>2, <2>3, FreeEachResult
    <2>5. QED
      BY <2>1, <2>4
  <1>8. Spares(m, emptied, {"content"})
    <2>1. \A i \in 1 .. tokens.count : contents[i] \in m.live => contents[i][1] = "content"
      BY <1>2, <1>5, NullIsNoBlock DEF Ref, Healthy, Heap
    <2>2. QED
      BY <1>7, <2>1 DEF Spares
  <1> HIDE DEF emptied
  <1>9. Ref(emptied, tokens.values, "values") /\ Ref(emptied, tokens.block, "tokens")
    BY <1>3, <1>4, <1>8, RefSpared DEF Ref
  <1>10. Spares(emptied, moved, {"values"})
    BY <1>7, <1>9, FreeSpares
  <1> HIDE DEF moved
  <1>11. Ref(moved, tokens.block, "tokens") /\ Healthy(moved)
    <2>1. Ref(moved, tokens.block, "tokens")
      BY <1>9, <1>10, RefSpared
    <2>2. QED
      BY <1>10, <2>1 DEF Spares
  <1>12. Spares(moved, Free(moved, tokens.block), {"tokens"})
    BY <1>11, FreeSpares
  <1>13. ArrTokenDestroy(m) = Free(moved, tokens.block)
    <2>1. Touch(m, tokens.values) = m
      BY <1>2, <1>4, TouchLive
    <2>2. QED
      BY <1>1, <1>3, <2>1 DEF ArrTokenDestroy, moved, emptied
  <1>14. Spares(m, moved, {"content", "values"})
    BY <1>8, <1>10, SparesTwice
  <1>15. QED
    BY <1>12, <1>13, <1>14, SparesTwice

\* A block of one more role is freed.
LEMMA FreedNext ==
  ASSUME NEW m, NEW n, NEW R, Spares(m, n, R), NEW role, role \notin R,
         NEW pointer, Ref(m, pointer, role)
  PROVE  Spares(m, Free(n, pointer), R \cup {role})
  <1>1. Ref(n, pointer, role) /\ Healthy(n)
    <2>1. Ref(n, pointer, role)
      BY RefSpared
    <2>2. QED
      BY <2>1 DEF Spares
  <1>2. Spares(n, Free(n, pointer), {role})
    BY <1>1, FreeSpares
  <1>3. QED
    BY <1>2, SparesTwice

DriverRoles == {"reader", "path", "stream", "scanner", "parser", "tree"}
TokenRoles == {"content", "values", "tokens"}

\* parser_destroy frees the scanner with its reader and array, the tree and the parser,
\* each once.
LEMMA ParserDestroyed ==
  ASSUME ProgramInv, ParserDestroy
  PROVE  Spares(mem, mem', DriverRoles \cup TokenRoles)
  <1>1. pc = "parsed" /\ pc \in RunLabels /\ pc \in HeldLabels
    BY DEF ParserDestroy, RunLabels, HeldLabels
  <1>2. /\ Healthy(mem) /\ Drives(mem, driver) /\ driver.tree \in mem.live
    <2>1. driver.tree # NULL
      BY <1>1 DEF ProgramInv, Relied
    <2>2. QED
      BY <1>1, <2>1, RunningState
  <1>3. Touch(mem, driver.tree) = mem
    BY <1>2, TouchLive
  <1>4. /\ Ref(mem, driver.reader, "reader") /\ Ref(mem, driver.path, "path")
        /\ Ref(mem, driver.stream, "stream") /\ Ref(mem, driver.scanner, "scanner")
        /\ Ref(mem, driver.parser, "parser") /\ Ref(mem, driver.tree, "tree")
    BY <1>2 DEF Drives
  <1> DEFINE closed == Free(mem, driver.stream)
             pathless == Free(closed, driver.path)
             unread == Free(pathless, driver.reader)
             emptied == ArrTokenDestroy(unread)
             unscanned == Free(emptied, driver.scanner)
             felled == Free(unscanned, driver.tree)
  <1>5. mem' = Free(felled, driver.parser)
    BY <1>3 DEF ParserDestroy, ScannerDestroy, ReaderDestroy
  <1>6. Spares(mem, mem, {})
    BY <1>2, SparesAll
  <1>7. Spares(mem, closed, {"stream"})
    BY <1>4, <1>6, FreedNext
  <1> HIDE DEF closed
  <1>8. Spares(mem, pathless, {"stream"} \cup {"path"})
    BY <1>4, <1>7, FreedNext DEF pathless
  <1> HIDE DEF pathless
  <1>9. Spares(mem, unread, {"stream", "path"} \cup {"reader"})
    BY <1>4, <1>8, FreedNext DEF unread
  <1> HIDE DEF unread
  <1> DEFINE R == {"stream", "path", "reader", "content", "values", "tokens"}
  <1>10. Spares(mem, emptied, R)
    <2>1. Spares(unread, emptied, {"content", "values", "tokens"})
      BY <1>1, <1>9, ArrayDestroyed DEF emptied
    <2>2. QED
      BY <1>9, <2>1, SparesTwice
  <1> HIDE DEF emptied
  <1>11. Spares(mem, unscanned, R \cup {"scanner"})
    BY <1>4, <1>10, FreedNext DEF unscanned
  <1> HIDE DEF unscanned
  <1>12. Spares(mem, felled, R \cup {"scanner", "tree"})
    <2>1. Spares(mem, felled, (R \cup {"scanner"}) \cup {"tree"})
      BY <1>4, <1>11, FreedNext DEF felled
    <2>2. QED
      BY <2>1
  <1> HIDE DEF felled
  <1>13. Spares(mem, mem', (R \cup {"scanner", "tree"}) \cup {"parser"})
    BY <1>4, <1>5, <1>12, FreedNext
  <1>14. (R \cup {"scanner", "tree"}) \cup {"parser"} = DriverRoles \cup TokenRoles
    BY DEF DriverRoles, TokenRoles
  <1>15. QED
    BY <1>13, <1>14

\* Afterwards the driver has nothing.
LEMMA ParserDestroyKeeps ==
  ASSUME ProgramInv, ParserDestroy
  PROVE  ProgramInv'
  <1>1. pc = "parsed" /\ pc \in RunLabels
    BY DEF ParserDestroy, RunLabels, HeldLabels
  <1>2. Spares(mem, mem', DriverRoles \cup TokenRoles)
    BY ParserDestroyed
  <1>3. /\ tokens' = NoTokens(NULL) /\ driver' = NoDriver
        /\ pc' = "teardown" /\ status' = status
        /\ UNCHANGED <<cliVars, gstate, config, source, token, buffer, overrun, caller>>
    BY DEF ParserDestroy, DriverReturns, Goto
  <1>4. NULL \in Pointer /\ \A m, role : Ref(m, NULL, role)
    BY DEF Pointer, Ref
  <1>5. Drives(mem', driver')
    BY <1>3, <1>4 DEF Drives, NoDriver
  <1>6. /\ Ref(mem', tokens'.block, "tokens") /\ Ref(mem', tokens'.values, "values")
        /\ tokens' \in [block : Pointer, count : Nat, capacity : Nat, values : Pointer,
                        elements : Seq(Element)]
    BY <1>3, <1>4 DEF NoTokens
  <1>7. /\ source' \in TokenStreams \cup {<<>>} /\ caller' \in Labels \cup {"none"}
        /\ token' \in [type : TokenType, shell : Pointer, content : Pointer]
    BY <1>3 DEF ProgramInv, ProgramTypeOK
  <1>8. Relied' /\ Underway' /\ Stored' /\ ElementsKept'
    BY <1>3 DEF Relied, Underway, Stored, ElementsKept, NoTokens, OpenLabels, TokenLabels,
                HeldLabels, ScannedLabels
  <1>9. (DriverRoles \cup TokenRoles) \cap {"gstate", "config", "file", "params", "number"} = {}
    BY DEF DriverRoles, TokenRoles
  <1>10. pc' \in RunLabels
    BY <1>3 DEF RunLabels
  <1>11. QED
    BY <1>1, <1>2, <1>3, <1>5, <1>6, <1>7, <1>8, <1>9, <1>10, RunStep

\* cli_destroy and the state itself: the blocks are freed once, or there are none.
LEMMA TornDown ==
  ASSUME ProgramInv, TeardownGlobalState
  PROVE  /\ Spares(mem, mem', {"gstate", "config", "file"})
         /\ gstate' = NoState
         /\ config' = IF gstate.cli = NULL THEN config ELSE NoConfig
         /\ gstate.block = NULL => mem' = mem
         /\ gstate.block = NULL \/ gstate.cli = NULL => Ref(mem', config.file, "file")
         /\ gstate.cli = NULL => Ref(mem', config.block, "config")
  <1>1. /\ Healthy(mem) /\ Ref(mem, gstate.block, "gstate") /\ gstate.cli \in {NULL, config.block}
        /\ Ref(mem, config.block, "config") /\ Ref(mem, config.file, "file")
    BY DEF ProgramInv, Owned
  <1>2. gstate' = NoState /\ config' = IF gstate.cli = NULL THEN config ELSE NoConfig
    BY DEF TeardownGlobalState
  <1>3. Spares(mem, mem, {})
    BY <1>1, SparesAll
  <1>4. CASE gstate.block = NULL
    <2>1. mem' = mem
      BY <1>4 DEF TeardownGlobalState
    <2>2. Spares(mem, mem', {"gstate", "config", "file"})
      BY <1>1, <2>1, SparesAll
    <2>3. QED
      BY <1>1, <1>2, <2>1, <2>2
  <1>5. CASE gstate.block # NULL /\ gstate.cli = NULL
    <2>1. mem' = Free(mem, gstate.block)
      BY <1>5 DEF TeardownGlobalState, CliDestroy
    <2>2. Spares(mem, mem', {"gstate"})
      BY <1>1, <2>1, FreeSpares
    <2>3. Ref(mem', config.file, "file") /\ Ref(mem', config.block, "config")
      BY <1>1, <2>2, RefSpared
    <2>4. Spares(mem, mem', {"gstate", "config", "file"})
      BY <2>2 DEF Spares
    <2>5. QED
      BY <1>2, <1>5, <2>3, <2>4
  <1>6. CASE gstate.block # NULL /\ gstate.cli # NULL
    <2> DEFINE nameless == Free(mem, config.file)
               unset == Free(nameless, config.block)
    <2>1. mem' = Free(unset, gstate.block)
      BY <1>1, <1>6 DEF TeardownGlobalState, CliDestroy
    <2>2. Spares(mem, nameless, {} \cup {"file"})
      BY <1>1, <1>3, FreedNext
    <2> HIDE DEF nameless
    <2>3. Spares(mem, unset, {"file"} \cup {"config"})
      BY <1>1, <2>2, FreedNext DEF unset
    <2> HIDE DEF unset
    <2>4. Spares(mem, mem', {"file", "config"} \cup {"gstate"})
      BY <1>1, <2>1, <2>3, FreedNext
    <2>5. QED
      BY <1>2, <1>6, <2>4
  <1>7. QED
    BY <1>4, <1>5, <1>6

\* The way out, from main or from a helper.
LEMMA TeardownKeeps ==
  ASSUME ProgramInv, TeardownGlobalState, ProcessOnly,
         pc' \in EndLabels, status' \in {GOOD, BAD_USAGE, NO_MEM}
  PROVE  ProgramInv'
  <1>1. /\ Spares(mem, mem', {"gstate", "config", "file"})
        /\ gstate' = NoState
        /\ config' = IF gstate.cli = NULL THEN config ELSE NoConfig
        /\ gstate.cli = NULL => Ref(mem', config.file, "file") /\ Ref(mem', config.block, "config")
    BY TornDown
  <1>2. ProgramTypeOK /\ Owned
    BY DEF ProgramInv
  <1>3. UNCHANGED <<build, argv, params, source, tokens, token, buffer, overrun, caller, driver>>
    BY DEF ProcessOnly, cliVars, tokenVars
  <1>4. NULL \in Pointer /\ \A m, role : Ref(m, NULL, role)
    BY DEF Pointer, Ref
  <1>5. ProgramTypeOK'
    <2>1. pc' \in Labels /\ status' \in {Running, GOOD, BAD_USAGE, NO_MEM, EARLY_ACCESS}
      BY DEF Labels, EndLabels
    <2>2. gstate' \in [block : Pointer, cli : Pointer] /\ mem' \in Heap
      BY <1>1, <1>4 DEF NoState, Spares, Healthy
    <2>3. NoConfig \in [block : Pointer, mode : Modes \cup {"none"}, file : Pointer,
                        name : FileNames, interactive : BOOLEAN]
      BY <1>4 DEF NoConfig, FileNames
    <2>4. config' \in [block : Pointer, mode : Modes \cup {"none"}, file : Pointer,
                       name : FileNames, interactive : BOOLEAN]
      BY <1>1, <1>2, <2>3 DEF ProgramTypeOK
    <2>5. QED
      BY <1>2, <1>3, <2>1, <2>2, <2>4 DEF ProgramTypeOK
  <1>6. Owned'
    <2>1. /\ Ref(mem', gstate'.block, "gstate") /\ gstate'.cli \in {NULL, config'.block}
      BY <1>1, <1>4 DEF NoState
    <2>2. Ref(mem', config'.block, "config") /\ Ref(mem', config'.file, "file")
      BY <1>1, <1>4 DEF NoConfig
    <2>3. /\ Ref(mem', params'.block, "params")
          /\ Ref(mem', tokens'.block, "tokens") /\ Ref(mem', tokens'.values, "values")
          /\ Ref(mem', buffer', "number")
      BY <1>1, <1>2, <1>3, RefSpared DEF Owned
    <2>4. Drives(mem', driver')
      BY <1>1, <1>2, <1>3, DrivesSpared DEF Owned
    <2>5. QED
      BY <2>1, <2>2, <2>3, <2>4 DEF Owned
  <1>7. Staged'
    BY <1>1 DEF Staged, NoState, SetupLabels, RunLabels, OpenLabels, TokenLabels, HeldLabels, EndLabels
  <1>8. Relied' /\ Underway' /\ Stored' /\ ElementsKept'
    BY DEF Relied, Underway, Stored, ElementsKept, OpenLabels, TokenLabels, HeldLabels,
           ScannedLabels, EndLabels
  <1>9. QED
    BY <1>1, <1>5, <1>6, <1>7, <1>8 DEF ProgramInv, Spares

(***************************************************************************)
(* The theorems                                                            *)
(***************************************************************************)

\* Every step of the program keeps the invariant.
LEMMA NextInvariant ==
  ASSUME ProgramInv, ProgramNext
  PROVE  ProgramInv'
  <1>1. CASE SetupGlobalState /\ ProcessOnly
    BY <1>1, SetupGlobalStateKeeps
  <1>2. CASE ParseArgs /\ CommandLineOnly
    BY <1>2, ParseArgsKeeps
  <1>3. CASE NewParams /\ CommandLineOnly
    BY <1>3, NewParamsKeeps
  <1>4. CASE NewConfig /\ CommandLineOnly
    BY <1>4, NewConfigKeeps
  <1>5. CASE ConsumeNextOption /\ CommandLineOnly
    BY <1>5, ConsumeNextOptionKeeps
  <1>6. CASE Operand /\ CommandLineOnly
    BY <1>6, OperandKeeps
  <1>7. CASE Configured /\ CommandLineOnly
    BY <1>7, ConfiguredKeeps
  <1>8. CASE RunTest
    BY <1>8, RunTestKeeps
  <1>9. CASE ReaderNew
    BY <1>9, ReaderNewKeeps
  <1>10. CASE OpenPath
    BY <1>10, OpenPathKeeps
  <1>11. CASE OpenChecks
    BY <1>11, OpenChecksKeeps
  <1>12. CASE OpenFile
    BY <1>12, OpenFileKeeps
  <1>13. CASE ScannerNew
    BY <1>13, ScannerNewKeeps
  <1>14. CASE TokenNew /\ TokensOnly
    BY <1>14, TokenNewKeeps
  <1>15. CASE TokenContent /\ TokensOnly
    BY <1>15, TokenContentKeeps
  <1>16. CASE ArrTokenAdd /\ TokensOnly
    BY <1>16, ArrTokenAddKeeps
  <1>17. CASE TestScanner
    BY <1>17, TestScannerKeeps
  <1>18. CASE ParserNew
    BY <1>18, ParserNewKeeps
  <1>19. CASE ParserParse
    BY <1>19, ParserParseKeeps
  <1>20. CASE Parsing
    BY <1>20, ParsingKeeps
  <1>21. CASE ParserDestroy
    BY <1>21, ParserDestroyKeeps
  <1>22. CASE MainTeardown /\ ProcessOnly
    <2>1. TeardownGlobalState /\ pc' \in EndLabels /\ status' \in {GOOD, BAD_USAGE, NO_MEM}
      BY <1>22 DEF MainTeardown, ExitWith, EndLabels
    <2>2. QED
      BY <1>22, <2>1, TeardownKeeps
  <1>23. CASE TulaExit /\ ProcessOnly
    <2>1. TeardownGlobalState /\ pc' \in EndLabels /\ status' = status /\ pc \in EndLabels
      BY <1>23 DEF TulaExit, EndLabels
    <2>2. status' \in {GOOD, BAD_USAGE, NO_MEM}
      BY <2>1 DEF ProgramInv, Staged
    <2>3. QED
      BY <1>23, <2>1, <2>2, TeardownKeeps
  <1>24. CASE Scan /\ TokensOnly
    BY <1>24, ScanKeeps
  <1>25. CASE ScanNumber /\ TokensOnly
    BY <1>25, ScanNumberKeeps
  <1>26. QED
    BY <1>1, <1>2, <1>3, <1>4, <1>5, <1>6, <1>7, <1>8, <1>9, <1>10, <1>11, <1>12, <1>13,
       <1>14, <1>15, <1>16, <1>17, <1>18, <1>19, <1>20, <1>21, <1>22, <1>23, <1>24, <1>25
    DEF ProgramNext

\* When nothing happens, nothing changes.
LEMMA StutterInvariant ==
  ASSUME ProgramInv, UNCHANGED programVars
  PROVE  ProgramInv'
  <1>1. UNCHANGED <<pc, status, mem, gstate, config, build, argv, params, source, tokens,
                    token, buffer, overrun, caller, driver>>
    BY DEF programVars, processVars, cliVars, tokenVars
  <1>2. ProgramTypeOK' /\ Healthy(mem)'
    BY <1>1 DEF ProgramInv, ProgramTypeOK
  <1>3. Owned' /\ Staged' /\ Relied'
    BY <1>1 DEF ProgramInv, Owned, Staged, Relied
  <1>4. Filled' = Filled /\ Contents' = Contents /\ \A i : TypeAt(i)' = TypeAt(i)
    BY <1>1 DEF Filled, Contents, TypeAt
  <1>5. Underway' /\ Stored'
    BY <1>1, <1>4 DEF ProgramInv, Underway, Stored
  <1>6. ElementsKept'
    BY <1>1, <1>4 DEF ProgramInv, ElementsKept, ArrayKept, LastHeld
  <1>7. QED
    BY <1>2, <1>3, <1>5, <1>6 DEF ProgramInv

\* ProgramInv holds throughout: the pointers own live blocks of their kind, the global
\* state is where the place in the code needs it, and the array and the token on its way
\* into it are in order (main, setup_global_state, the drivers, arr_token_add, the exits).
THEOREM Invariance == ProgramSpec => []ProgramInv
  <1>1. ProgramInit => ProgramInv
    BY InitInvariant
  <1>2. ProgramInv /\ [ProgramNext]_programVars => ProgramInv'
    BY NextInvariant, StutterInvariant
  <1>3. QED
    BY <1>1, <1>2, PTL DEF ProgramSpec

\* The variables keep their types.
THEOREM ProgramTyping == ProgramSpec => []ProgramTypeOK
  <1>1. ProgramInv => ProgramTypeOK
    BY DEF ProgramInv
  <1>2. QED
    BY <1>1, Invariance, PTL

\* The file holds a number that is longer than the space of its type.
Overlong == \E i \in 1 .. Len(source) : source[i] = "OVERLONG"

\* Only an overlong number is copied behind its buffer, and none before there is a source.
Overran ==
  /\ overrun => Overlong
  /\ pc \notin ScannedLabels => ~overrun

\* The copy of an overlong number is noted, and nothing else is.
LEMMA OverrunNoted ==
  ASSUME ScanNumber
  PROVE  /\ overrun' => overrun \/ Found = "OVERLONG"
         /\ pc' = "crashed" => overrun'
  <1> DEFINE long == Found = "OVERLONG"
  <1>1. \/ pc' = "exit" /\ overrun' = overrun
        \/ overrun' = (overrun \/ long) /\ (pc' = "token_new" \/ long)
    BY DEF ScanNumber, ExitWith, Goto
  <1> HIDE DEF long
  <1>2. CASE pc' = "exit" /\ overrun' = overrun
    BY <1>2
  <1>3. CASE overrun' = (overrun \/ long) /\ (pc' = "token_new" \/ long)
    <2>1. long => (overrun \/ long) = TRUE
      OBVIOUS
    <2>2. ~overrun /\ ~long => (overrun \/ long) = FALSE
      OBVIOUS
    <2>3. (long => overrun' = TRUE) /\ (~overrun /\ ~long => overrun' = FALSE)
      BY <1>3, <2>1, <2>2
    <2>4. QED
      BY <1>3, <2>3 DEF long
  <1>4. QED
    BY <1>1, <1>2, <1>3 DEF long

\* Every step of the program keeps that.
LEMMA OverranStep ==
  ASSUME ProgramInv, Overran, [ProgramNext]_programVars
  PROVE  Overran'
  <1> USE DEF Goto, ExitWith, DriverReturns, ReadToken
  <1>1. CASE ScanNumber
    <2>1. /\ source' = source /\ pc' \in ScannedLabels
          /\ overrun' => overrun \/ Found = "OVERLONG"
      BY <1>1, OverrunNoted DEF ScanNumber, ScannedLabels, TokenLabels, EndLabels
    <2>2. Found = "OVERLONG" => Overlong
      <3> SUFFICES ASSUME Found = "OVERLONG"
                   PROVE  \E i \in 1 .. Len(source) : source[i] = "OVERLONG"
        BY DEF Overlong
      <3>1. tokens.count < Len(source) /\ source[tokens.count + 1] = "OVERLONG"
        <4>1. ~(tokens.count < Len(source)) => Found = "EOS"
          BY DEF Found
        <4>2. "EOS" # "OVERLONG"
          OBVIOUS
        <4>3. QED
          BY <4>1, <4>2 DEF Found
      <3>2. tokens.count \in Nat /\ Len(source) \in Nat
        BY TokenTypes
      <3>3. tokens.count + 1 \in 1 .. Len(source)
        <4> DEFINE n == Len(source)
        <4>1. tokens.count < n /\ tokens.count \in Nat /\ n \in Nat
          BY <3>1, <3>2
        <4> HIDE DEF n
        <4>2. tokens.count + 1 \in 1 .. n
          BY <4>1
        <4>3. QED
          BY <4>2 DEF n
      <3> WITNESS tokens.count + 1 \in 1 .. Len(source)
      <3>4. QED
        BY <3>1
    <2>3. Overlong' = Overlong
      BY <2>1 DEF Overlong
    <2>4. QED
      BY <2>1, <2>2, <2>3 DEF Overran
  <1>2. CASE OpenFile
    BY <1>2 DEF OpenFile, Overran, ScannedLabels, TokenLabels, HeldLabels, EndLabels
  <1>3. ASSUME source' = source, overrun' = overrun, pc \in ScannedLabels => pc' \in ScannedLabels
        PROVE  Overran'
    BY <1>3 DEF Overran, Overlong
  <1>4. CASE \/ SetupGlobalState /\ ProcessOnly
             \/ ParseArgs /\ CommandLineOnly
             \/ NewParams /\ CommandLineOnly
             \/ NewConfig /\ CommandLineOnly
             \/ ConsumeNextOption /\ CommandLineOnly
             \/ Operand /\ CommandLineOnly
             \/ Configured /\ CommandLineOnly
    <2>1. source' = source /\ overrun' = overrun
      BY <1>4 DEF ProcessOnly, CommandLineOnly, tokenVars
    <2>2. pc \in SetupLabels \cup {"main"}
      BY <1>4 DEF SetupGlobalState, ParseArgs, NewParams, NewConfig, ConsumeNextOption, Operand,
                  Configured, SetupLabels
    <2>3. pc \notin ScannedLabels
      BY <2>2 DEF SetupLabels, ScannedLabels, TokenLabels, HeldLabels, EndLabels
    <2>4. QED
      BY <2>1, <2>3, <1>3
  <1>5. CASE RunTest \/ ReaderNew \/ OpenPath \/ OpenChecks \/ ScannerNew
    <2>1. source' = source /\ overrun' = overrun
      BY <1>5 DEF RunTest, ReaderNew, OpenPath, OpenChecks, ScannerNew, tokenVars
    <2>2. pc \notin ScannedLabels
      BY <1>5 DEF RunTest, ReaderNew, OpenPath, OpenChecks, ScannerNew,
                  ScannedLabels, TokenLabels, HeldLabels, EndLabels
    <2>3. QED
      BY <2>1, <2>2, <1>3
  <1>6. CASE (Scan \/ TokenNew \/ TokenContent \/ ArrTokenAdd) /\ TokensOnly
    <2>1. source' = source /\ overrun' = overrun
      BY <1>6 DEF Scan, TokenNew, TokenContent, ArrTokenAdd, tokenVars
    <2>2. pc \in TokenLabels
      BY <1>6 DEF Scan, TokenNew, TokenContent, ArrTokenAdd, TokenLabels
    <2>3. caller \in HeldLabels
      BY <2>2 DEF ProgramInv, Relied
    <2>4. pc' \in TokenLabels \cup {caller, "exit"}
      BY <1>6 DEF Scan, TokenNew, TokenContent, ArrTokenAdd, TokenLabels
    <2>5. pc' \in ScannedLabels
      BY <2>3, <2>4 DEF ScannedLabels, EndLabels
    <2>6. QED
      BY <2>1, <2>5, <1>3
  <1>7. CASE TestScanner \/ ParserNew \/ ParserParse \/ Parsing \/ ParserDestroy
    <2>1. source' = source /\ overrun' = overrun
      BY <1>7 DEF TestScanner, ParserNew, ParserParse, Parsing, ParserDestroy, tokenVars
    <2>2. pc' \in TokenLabels \cup HeldLabels \cup {"teardown", "exit"}
      BY <1>7 DEF TestScanner, ParserNew, ParserParse, Parsing, ParserDestroy,
                  TokenLabels, HeldLabels
    <2>3. QED
      BY <2>1, <2>2, <1>3 DEF ScannedLabels, EndLabels
  <1>8. CASE (MainTeardown \/ TulaExit) /\ ProcessOnly
    <2>1. source' = source /\ overrun' = overrun
      BY <1>8 DEF ProcessOnly, tokenVars
    <2>2. pc' \in EndLabels
      BY <1>8 DEF MainTeardown, TulaExit, EndLabels
    <2>3. QED
      BY <2>1, <2>2, <1>3 DEF ScannedLabels
  <1>9. CASE UNCHANGED programVars
    BY <1>9, <1>3 DEF programVars, processVars, tokenVars
  <1>10. QED
    BY <1>1, <1>2, <1>4, <1>5, <1>6, <1>7, <1>8, <1>9 DEF ProgramNext

\* For every command line, every stream of tokens and every choice of the allocations
\* that are refused, the program frees no block twice and uses none that is freed or not
\* made; no token is written behind the array; and if the buffer of a number is too small
\* for it, the file holds an overlong one (free, realloc and the use of pointers
\* throughout src, scanner_consume_number).
THEOREM NoBadFreeHolds == ProgramSpec => []NoBadFree
  <1>1. ProgramInit => Overran
    BY DEF ProgramInit, TokenArrayInit, Overran
  <1>2. ProgramInv /\ Overran /\ [ProgramNext]_programVars => Overran'
    BY OverranStep
  <1>3. ProgramInv /\ Overran => NoBadFree
    BY DEF ProgramInv, Healthy, NoBadFree, Overran, Overlong
  <1>4. QED
    BY <1>1, <1>2, <1>3, Invariance, PTL DEF ProgramSpec

\* For every stream, every threshold and every factor of growth the array of
\* arr_token_add holds the tokens read so far, in order, each with a live text that it
\* shares with no other; and the caller's token is the last of them.
THEOREM ElementsKeptHolds == ProgramSpec => []ElementsKept
  <1>1. ProgramInv => ElementsKept
    BY DEF ProgramInv
  <1>2. QED
    BY <1>1, Invariance, PTL

(***************************************************************************)
(* The program implements the lifecycle of its global state                *)
(***************************************************************************)

\* The abstract state, status and outcome, as the refinement reads them.
LifeState ==
  IF gstate.block # NULL THEN (IF gstate.cli # NULL THEN "ready" ELSE "set up")
  ELSE IF mem.made["gstate"] = 0 THEN "none" ELSE "released"
LifeOutcome == IF pc \in {"exited", "crashed"} THEN pc ELSE "running"

\* A step between the set-up and the teardown leaves the state as it is, and is a
\* stutter, the decision to exit, or a crash.
LEMMA BetweenImplements ==
  ASSUME ProgramInv, ProgramInv', gstate' = gstate,
         pc \in (SetupLabels \cup RunLabels) \ {"crashed"},
         pc' # "exited", pc' = "crashed" => pc \in RunLabels
  PROVE  [Life!Next]_Life!lifecycleVars
  <1>1. /\ gstate.block # NULL /\ status = Running
        /\ pc \in RunLabels => gstate.cli # NULL
        /\ pc' \notin EndLabels => status' = Running
        /\ pc' \in EndLabels => status' \in {GOOD, BAD_USAGE, NO_MEM}
    BY DEF ProgramInv, Staged, SetupLabels, RunLabels, OpenLabels, TokenLabels, HeldLabels,
           EndLabels
  <1>2. LifeState' = LifeState /\ LifeState \in {"ready", "set up"}
        /\ (pc \in RunLabels => LifeState = "ready")
    BY <1>1 DEF LifeState
  <1>3. LifeOutcome = "running"
    BY DEF LifeOutcome, SetupLabels, RunLabels, OpenLabels, TokenLabels, HeldLabels
  <1>4. CASE pc' = "exit"
    <2>1. LifeOutcome' = "running" /\ status' \in {GOOD, BAD_USAGE, NO_MEM}
      BY <1>1, <1>4 DEF LifeOutcome, EndLabels
    <2>2. Life!Decide
      BY <1>1, <1>2, <1>3, <2>1
      DEF Life!Decide, Life!Working, Life!Undecided, Running, LifeState, LifeOutcome
    <2>3. QED
      BY <2>2 DEF Life!Next
  <1>5. CASE pc' = "crashed"
    <2>1. LifeOutcome' = "crashed" /\ status' = status
      BY <1>1, <1>5 DEF LifeOutcome, EndLabels
    <2>2. Life!Crash
      BY <1>1, <1>2, <1>3, <1>5, <2>1
      DEF Life!Crash, Life!Working, Life!Undecided, Running, LifeState, LifeOutcome
    <2>3. QED
      BY <2>2 DEF Life!Next
  <1>6. CASE pc' \notin {"exit", "crashed"}
    <2>1. LifeOutcome' = LifeOutcome /\ status' = status
      BY <1>1, <1>3, <1>6 DEF LifeOutcome, EndLabels
    <2>2. QED
      BY <1>2, <2>1 DEF Life!lifecycleVars, LifeState, LifeOutcome
  <1>7. QED
    BY <1>4, <1>5, <1>6

\* setup_global_state begins the life of the state, or exits without one.
LEMMA SetupImplements ==
  ASSUME ProgramInv, SetupGlobalState
  PROVE  [Life!Next]_Life!lifecycleVars
  <1>1. /\ pc = "main" /\ gstate.block = NULL /\ mem.made["gstate"] = 0 /\ status = Running
        /\ Healthy(mem)
    BY DEF SetupGlobalState, ProgramInv, Staged, EndLabels
  <1>2. PICK o \in Malloc(mem, "gstate") :
          /\ mem' = o.mem
          /\ gstate' = [block |-> o.pointer, cli |-> NULL]
          /\ IF o.pointer = NULL THEN ExitWith(NO_MEM) ELSE Goto("cli")
    BY <1>1 DEF SetupGlobalState
  <1>3. o.pointer = NULL => o.mem.made = mem.made
    BY <1>1, MallocResult DEF Roles
  <1>4. LifeState = "none" /\ LifeOutcome = "running"
    BY <1>1 DEF LifeState, LifeOutcome
  <1>5. CASE o.pointer = NULL
    <2>1. LifeState' = "none" /\ LifeOutcome' = "running" /\ status' = NO_MEM
      BY <1>1, <1>2, <1>3, <1>5 DEF LifeState, LifeOutcome, ExitWith
    <2>2. Life!Decide
      BY <1>1, <1>4, <2>1
      DEF Life!Decide, Life!Working, Life!Undecided, Running, LifeState, LifeOutcome
    <2>3. QED
      BY <2>2 DEF Life!Next
  <1>6. CASE o.pointer # NULL
    <2>1. LifeState' = "set up" /\ LifeOutcome' = "running" /\ status' = status
      BY <1>2, <1>6 DEF LifeState, LifeOutcome, Goto
    <2>2. Life!SetUp
      BY <1>1, <1>4, <2>1
      DEF Life!SetUp, Life!Working, Life!Undecided, Running, LifeState, LifeOutcome
    <2>3. QED
      BY <2>2 DEF Life!Next
  <1>7. QED
    BY <1>5, <1>6

\* The configuration completes it.
LEMMA ConfiguredImplements ==
  ASSUME ProgramInv, Configured
  PROVE  [Life!Next]_Life!lifecycleVars
  <1>1. /\ pc = "configured" /\ gstate.block # NULL /\ gstate.cli = NULL /\ status = Running
        /\ config.block # NULL /\ gstate \in [block : Pointer, cli : Pointer]
    BY DEF Configured, ProgramInv, ProgramTypeOK, Staged, Relied, SetupLabels, EndLabels
  <1>2. gstate' = [gstate EXCEPT !.cli = config.block] /\ pc' = "run" /\ status' = status
    BY DEF Configured, Goto
  <1>3. LifeState = "set up" /\ LifeOutcome = "running"
    BY <1>1 DEF LifeState, LifeOutcome
  <1>4. LifeState' = "ready" /\ LifeOutcome' = "running"
    BY <1>1, <1>2 DEF LifeState, LifeOutcome
  <1>5. Life!Ready
    BY <1>1, <1>2, <1>3, <1>4
    DEF Life!Ready, Life!Working, Life!Undecided, Running, LifeState, LifeOutcome
  <1>6. QED
    BY <1>5 DEF Life!Next

\* The two ways out release it.
LEMMA TeardownImplements ==
  ASSUME ProgramInv, MainTeardown \/ TulaExit
  PROVE  [Life!Next]_Life!lifecycleVars
  <1>1. /\ TeardownGlobalState /\ pc \in {"teardown", "exit"}
        /\ pc = "teardown" => pc' = "exit" /\ status' = GOOD
        /\ pc = "exit" => pc' = "exited" /\ status' = status
    BY DEF MainTeardown, TulaExit, ExitWith
  <1>2. /\ gstate' = NoState /\ Spares(mem, mem', {"gstate", "config", "file"})
        /\ gstate.block = NULL => mem' = mem
    BY <1>1, TornDown
  <1>3. /\ gstate.block # NULL => mem.made["gstate"] # 0
        /\ pc = "teardown" => gstate.block # NULL /\ gstate.cli # NULL /\ status = Running
        /\ pc = "exit" => status \in {GOOD, BAD_USAGE, NO_MEM}
    BY DEF ProgramInv, Staged, RunLabels, EndLabels
  <1>4. mem'.made["gstate"] = mem.made["gstate"]
    BY <1>2 DEF Spares
  <1>5. /\ LifeState' = IF LifeState = "none" THEN "none" ELSE "released"
        /\ pc = "teardown" => LifeState = "ready"
        /\ LifeOutcome = "running"
    BY <1>1, <1>2, <1>3, <1>4 DEF LifeState, LifeOutcome, NoState
  <1>6. CASE pc = "teardown"
    <2>1. LifeState' = "released" /\ LifeOutcome' = "running"
      BY <1>1, <1>5, <1>6 DEF LifeOutcome
    <2>2. Life!Decide
      BY <1>1, <1>3, <1>5, <1>6, <2>1
      DEF Life!Decide, Life!Working, Life!Undecided, Running, LifeState, LifeOutcome
    <2>3. QED
      BY <2>2 DEF Life!Next
  <1>7. CASE pc = "exit"
    <2>1. LifeOutcome' = "exited" /\ status # Running /\ status' = status
      BY <1>1, <1>3, <1>7 DEF LifeOutcome, GOOD, BAD_USAGE, NO_MEM, Running
    <2>2. Life!Exit
      BY <1>5, <2>1 DEF Life!Exit, Life!Undecided, Running, LifeState, LifeOutcome
    <2>3. QED
      BY <2>2 DEF Life!Next
  <1>8. QED
    BY <1>1, <1>6, <1>7

\* Each of the other steps lies between the set-up and the teardown.
LEMMA OtherImplements ==
  ASSUME ProgramInv, ProgramInv', ProgramNext,
         ~SetupGlobalState, ~Configured, ~MainTeardown, ~TulaExit
  PROVE  [Life!Next]_Life!lifecycleVars
  <1> USE DEF Goto, ExitWith, DriverReturns, ReadToken
  <1>1. CASE ParseArgs \/ NewParams \/ NewConfig \/ Operand
    <2>1. gstate' = gstate /\ pc \in SetupLabels /\ pc' \notin {"exited", "crashed"}
      BY <1>1 DEF ParseArgs, NewParams, NewConfig, Operand, StoreFile, SetupLabels
    <2>2. QED
      BY <2>1, BetweenImplements DEF RunLabels, SetupLabels
  <1>2. CASE ConsumeNextOption
    <2>1. gstate' = gstate /\ pc \in SetupLabels /\ pc' \notin {"exited", "crashed"}
      BY <1>2 DEF ConsumeNextOption, OptionsEnd, OptionInvalid, OptionHelp, OptionInputFile,
                  OptionTestMode, OptionInteractive, StoreFile, SetupLabels
    <2>2. QED
      BY <2>1, BetweenImplements DEF RunLabels, SetupLabels
  <1>3. CASE RunTest
    <2>1. gstate' = gstate /\ pc = "run" /\ pc' \notin {"exited", "crashed"}
      BY <1>3 DEF RunTest
    <2>2. QED
      BY <2>1, BetweenImplements DEF RunLabels
  <1>4. CASE ReaderNew \/ OpenPath \/ OpenChecks \/ OpenFile \/ ScannerNew
    <2>1. /\ gstate' = gstate /\ pc' # "exited"
          /\ pc \in {"reader_new", "open", "open_exists", "open_is_file", "fopen", "scanner_new"}
      BY <1>4 DEF ReaderNew, OpenPath, OpenChecks, OpenFile, ScannerNew
    <2>2. pc \in RunLabels \ {"crashed"}
      BY <2>1 DEF RunLabels, OpenLabels
    <2>3. QED
      BY <2>1, <2>2, BetweenImplements
  <1>5. CASE TokenNew \/ TokenContent
    <2>1. /\ gstate' = gstate /\ pc \in TokenLabels /\ pc' \notin {"exited", "crashed"}
      BY <1>5 DEF TokenNew, TokenContent, TokenLabels
    <2>2. pc \in RunLabels \ {"crashed"}
      BY <2>1 DEF RunLabels, TokenLabels
    <2>3. QED
      BY <2>1, <2>2, BetweenImplements
  <1>6. CASE ArrTokenAdd
    <2>1. gstate' = gstate /\ pc = "token_add" /\ pc' \in {caller, "exit"}
      BY <1>6 DEF ArrTokenAdd
    <2>2. caller \in HeldLabels
      BY <2>1 DEF ProgramInv, Relied, TokenLabels
    <2>3. pc \in RunLabels \ {"crashed"} /\ pc' \notin {"exited", "crashed"}
      BY <2>1, <2>2 DEF RunLabels, TokenLabels, HeldLabels
    <2>4. QED
      BY <2>1, <2>3, BetweenImplements
  <1>7. CASE TestScanner \/ ParserNew \/ ParserParse \/ Parsing \/ ParserDestroy
    <2>1. /\ gstate' = gstate /\ pc' \notin {"exited", "crashed"}
          /\ pc \in HeldLabels \cup {"parser_new"}
      BY <1>7 DEF TestScanner, ParserNew, ParserParse, Parsing, ParserDestroy, HeldLabels
    <2>2. pc \in RunLabels \ {"crashed"}
      BY <2>1 DEF RunLabels, HeldLabels
    <2>3. QED
      BY <2>1, <2>2, BetweenImplements
  <1>8. CASE Scan \/ ScanNumber
    <2>1. gstate' = gstate /\ pc = "scan" /\ pc' # "exited"
      BY <1>8 DEF Scan, ScanNumber
    <2>2. pc \in RunLabels \ {"crashed"}
      BY <2>1 DEF RunLabels, TokenLabels
    <2>3. QED
      BY <2>1, <2>2, BetweenImplements
  <1>9. QED
    BY <1>1, <1>2, <1>3, <1>4, <1>5, <1>6, <1>7, <1>8 DEF ProgramNext

\* The program implements the lifecycle of its global state: made once, complete before a
\* driver runs, released by every way out, kept only by a crash; and once there is an exit
\* status it stays (setup_global_state, teardown_global_state, tula_exit, main).
THEOREM LifecycleImplemented == ProgramSpec => ImplementsLifecycle
  <1>1. ProgramInit => Life!Init
    BY DEF ProgramInit, ProcessInit, NoState, EmptyHeap, Roles, Running, Life!Init, Life!Undecided
  <1>2. ProgramInv /\ ProgramInv' /\ [ProgramNext]_programVars => [Life!Next]_Life!lifecycleVars
    <2> SUFFICES ASSUME ProgramInv, ProgramInv', [ProgramNext]_programVars
                 PROVE  [Life!Next]_Life!lifecycleVars
      OBVIOUS
    <2>1. CASE UNCHANGED programVars
      BY <2>1 DEF programVars, processVars, Life!lifecycleVars
    <2>2. CASE ProgramNext
      BY <2>2, SetupImplements, ConfiguredImplements, TeardownImplements, OtherImplements
    <2>3. QED
      BY <2>1, <2>2
  <1>3. QED
    BY <1>1, <1>2, Invariance, PTL DEF ProgramSpec, ImplementsLifecycle, Life!Spec

(***************************************************************************)
(* The arguments, as the options are consumed                              *)
(***************************************************************************)

\* What the places of the options are from the i-th argument on, given what they are from
\* the arguments further on.
AheadStep(from, i) ==
  IF i > Len(argv) THEN {}
  ELSE IF Option(i) \in TakesValue THEN {i} \cup from[i + 2]
  ELSE IF Option(i) = "INTERACTIVE" THEN {i} \cup from[i + 1]
  ELSE {i}

\* The places of the options from the i-th argument on, with the argument that ends them.
Ahead == CHOOSE from : from = [i \in 1 .. Len(argv) + 2 |-> AheadStep(from, i)]

\* Ahead is defined: it looks only at arguments further on.
LEMMA AheadDefined ==
  ASSUME ProgramTypeOK
  PROVE  /\ Ahead = [i \in 1 .. Len(argv) + 2 |-> AheadStep(Ahead, i)]
         /\ Reached = Ahead[1]
         /\ Len(argv) \in Nat
  <1> DEFINE D == 1 .. Len(argv) + 2
             V == SUBSET Nat
             rank == [i \in D |-> Len(argv) + 2 - i]
             Step == [gi \in [D -> V] \X D |-> AheadStep(gi[1], gi[2])]
  <1>1. Len(argv) \in Nat /\ Len(argv) + 2 \in Nat /\ {} \in V
    BY ArgumentsAssumption DEF ProgramTypeOK
  <1>2. \A i \in D : rank[i] \in 0 .. Len(argv) + 2
    BY <1>1
  <1>3. \A i \in D : i <= Len(argv) => i + 1 \in D /\ i + 2 \in D /\ {i} \in V
    BY <1>1
  <1>4. ASSUME NEW g \in [D -> V], NEW i \in D
        PROVE  AheadStep(g, i) \in V
    BY <1>1, <1>3 DEF AheadStep
  <1>5. ASSUME NEW g \in [D -> V], NEW h \in [D -> V], NEW i \in D,
               \A j \in D : i < j => g[j] = h[j]
        PROVE  AheadStep(g, i) = AheadStep(h, i)
    <2>1. i <= Len(argv) => g[i + 1] = h[i + 1] /\ g[i + 2] = h[i + 2]
      BY <1>3, <1>5
    <2>2. ~(i > Len(argv)) => i <= Len(argv)
      BY <1>1
    <2>3. QED
      BY <2>1, <2>2, Zenon DEF AheadStep
  <1>6. Descends(D, V, rank, Step)
    <2> SUFFICES ASSUME NEW g \in [D -> V], NEW i \in D
                 PROVE  /\ Step[<<g, i>>] \in V
                        /\ \A h \in [D -> V] :
                             (\A j \in D : rank[j] < rank[i] => g[j] = h[j]) =>
                               Step[<<g, i>>] = Step[<<h, i>>]
      BY DEF Descends
    <2>1. Step[<<g, i>>] = AheadStep(g, i)
      OBVIOUS
    <2>2. ASSUME NEW h \in [D -> V], \A j \in D : rank[j] < rank[i] => g[j] = h[j]
          PROVE  Step[<<g, i>>] = Step[<<h, i>>]
      <3>1. \A j \in D : i < j => g[j] = h[j]
        BY <1>1, <2>2
      <3>2. Step[<<h, i>>] = AheadStep(h, i)
        OBVIOUS
      <3>3. QED
        BY <1>5, <2>1, <3>1, <3>2
    <2>3. QED
      BY <1>4, <2>1, <2>2
  <1>7. Recurses(D, V, Step)
    <2> HIDE DEF D, V, rank, Step
    <2>1. QED
      BY <1>1, <1>2, <1>6, RecursionExists
  <1>8. \E f : f = [i \in D |-> AheadStep(f, i)]
    <2>1. PICK f \in [D -> V] : \A i \in D : f[i] = Step[<<f, i>>]
      BY <1>7 DEF Recurses
    <2>2. \A i \in D : Step[<<f, i>>] = AheadStep(f, i)
      OBVIOUS
    <2>3. QED
      BY <2>1, <2>2
  <1> HIDE DEF D
  <1>9. Ahead = [i \in D |-> AheadStep(Ahead, i)]
    BY <1>8 DEF Ahead, D
  <1>10. Reached = Ahead[1]
    BY DEF Reached, Ahead, AheadStep
  <1>11. QED
    BY <1>1, <1>9, <1>10 DEF D

\* What lies ahead lies ahead, and among the arguments.
LEMMA AheadLies ==
  ASSUME ProgramTypeOK, NEW p \in 1 .. Len(argv) + 2
  PROVE  Ahead[p] \subseteq p .. Len(argv)
  <1>1. Len(argv) \in Nat /\ \A i \in 1 .. Len(argv) + 2 : Ahead[i] = AheadStep(Ahead, i)
    BY AheadDefined
  <1> DEFINE P == {m \in Nat : \A i \in 1 .. Len(argv) + 2 :
                                 Len(argv) + 2 - i <= m => Ahead[i] \subseteq i .. Len(argv)}
  <1>2. 0 \in P
    <2>1. \A i \in 1 .. Len(argv) + 2 : Len(argv) + 2 - i <= 0 => i > Len(argv)
      BY <1>1
    <2>2. \A i \in 1 .. Len(argv) + 2 : i > Len(argv) => Ahead[i] = {}
      BY <1>1, Zenon DEF AheadStep
    <2>3. QED
      BY <2>1, <2>2
  <1>3. ASSUME NEW m \in 0 .. (Len(argv) + 2) - 1, m \in P PROVE m + 1 \in P
    <2> SUFFICES ASSUME NEW i \in 1 .. Len(argv) + 2, Len(argv) + 2 - i <= m + 1
                 PROVE  Ahead[i] \subseteq i .. Len(argv)
      BY <1>1
    <2>1. CASE i > Len(argv)
      BY <1>1, <2>1 DEF AheadStep
    <2>2. CASE ~(i > Len(argv))
      <3>1. /\ i + 1 \in 1 .. Len(argv) + 2 /\ Len(argv) + 2 - (i + 1) <= m
            /\ i + 2 \in 1 .. Len(argv) + 2 /\ Len(argv) + 2 - (i + 2) <= m
        BY <1>1, <2>2
      <3>2. Ahead[i + 1] \subseteq (i + 1) .. Len(argv) /\ Ahead[i + 2] \subseteq (i + 2) .. Len(argv)
        BY <1>3, <3>1
      <3>3. {i} \cup Ahead[i + 1] \subseteq i .. Len(argv) /\ {i} \cup Ahead[i + 2] \subseteq i .. Len(argv)
        BY <1>1, <2>2, <3>2
      <3>4. {i} \subseteq i .. Len(argv)
        BY <1>1, <2>2
      <3>5. Ahead[i] = AheadStep(Ahead, i)
        BY <1>1
      <3>6. QED
        BY <2>2, <3>3, <3>4, <3>5, Zenon DEF AheadStep
    <2>3. QED
      BY <2>1, <2>2
  <1> HIDE DEF P
  <1>4. \A m \in 0 .. Len(argv) + 2 : m \in P
    <2>1. Len(argv) + 2 \in Nat
      BY <1>1
    <2>2. QED
      BY <1>2, <1>3, <2>1, NumbersUpTo
  <1>5. Len(argv) + 2 - p \in 0 .. Len(argv) + 2 /\ Len(argv) + 2 - p <= Len(argv) + 2 - p
    BY <1>1
  <1>6. QED
    BY <1>4, <1>5 DEF P

\* The places of the options consumed in front of an argument.
Behind(p) == {j \in Reached : j < p}

\* The arguments that are values of an option, of those at some places.
ValuesOf(places, option) ==
  {i + 1 : i \in {j \in places : Option(j) = option /\ j < Len(argv)}}

\* What the options at some places, and the files named, make of a configuration.
Says(c, places, files) ==
  LET modes == {i \in ValuesOf(places, "TEST_MODE") : IsMode(argv[i])}
  IN  /\ IF modes = {} THEN c.mode = "version"
         ELSE BeginsWith(argv[Greatest(modes)], c.mode)
      /\ IF files = {} THEN c.file = NULL
         ELSE c.file # NULL /\ c.name = FileName(argv[Greatest(files)])
      /\ c.interactive <=> \E j \in places : Option(j) = "INTERACTIVE"

Consumable == TakesValue \cup {"INTERACTIVE"}

\* The options in front of the next argument are consumed, with their values.
Consuming(p) ==
  /\ p \in 1 .. Len(argv) + 1
  /\ Reached = Behind(p) \cup Ahead[p]
  /\ \A j \in Behind(p) : Option(j) \in Consumable
  /\ \A j \in Behind(p) : Option(j) \in TakesValue => j + 1 < p \/ j = Len(argv)

\* The files that the options name; only a debug build has such an option.
NamedBy(places) == IF build = "debug" THEN ValuesOf(places, "INPUT_FILE") ELSE {}

\* The operand, where the full build looks for it.
OperandIsNext ==
  build = "full" => Files = IF params.pointer <= Len(argv) THEN {params.pointer} ELSE {}

\* The invariant of the arguments.
ArgumentsInv ==
  /\ pc = "new_config" => params.pointer = 1
  /\ pc = "options" =>
       /\ Consuming(params.pointer)
       /\ Says(config, Behind(params.pointer), NamedBy(Behind(params.pointer)))
  /\ pc \in {"operand", "configured"} \cup RunLabels => ~Has({"INVALID"})
  /\ pc = "operand" => Says(config, Reached, NamedBy(Reached)) /\ OperandIsNext
  /\ pc \in {"configured", "run"} => Says(config, Reached, Files)

\* The greatest of some numbers is the one that none exceeds.
LEMMA GreatestIs ==
  ASSUME NEW S \in SUBSET Int, NEW m \in S, \A j \in S : j <= m
  PROVE  Greatest(S) = m
  <1>1. Greatest(S) \in S /\ \A j \in S : j <= Greatest(S)
    BY DEF Greatest
  <1>2. Greatest(S) \in Int /\ m \in Int /\ Greatest(S) <= m /\ m <= Greatest(S)
    BY <1>1
  <1>3. QED
    BY <1>2

\* Where the options are.
LEMMA ReachedLies ==
  ASSUME ProgramTypeOK
  PROVE  Len(argv) \in Nat /\ Reached \subseteq 1 .. Len(argv) /\ Reached \subseteq Int
  <1>1. Len(argv) \in Nat /\ Reached = Ahead[1] /\ 1 \in 1 .. Len(argv) + 2
    BY AheadDefined
  <1>2. Reached \subseteq 1 .. Len(argv)
    BY <1>1, AheadLies
  <1>3. QED
    BY <1>1, <1>2

\* Only a debug build has an option for a file.
LEMMA FileOptionIsDebug ==
  ASSUME NEW i, Option(i) = "INPUT_FILE"
  PROVE  build = "debug"
  BY DEF Option, ParseOptionType, LongOption, ShortOption

\* The consumption begins with the first argument.
LEMMA ConsumingBegins ==
  ASSUME ProgramTypeOK
  PROVE  Consuming(1) /\ Behind(1) = {}
  <1>1. Len(argv) \in Nat /\ Reached \subseteq 1 .. Len(argv) /\ Reached = Ahead[1]
    BY ReachedLies, AheadDefined
  <1>2. Behind(1) = {}
    BY <1>1 DEF Behind
  <1>3. 1 \in 1 .. Len(argv) + 1
    BY <1>1
  <1>4. QED
    BY <1>1, <1>2, <1>3 DEF Consuming

\* It goes on behind an option and its value.
LEMMA ConsumingGoesOn ==
  ASSUME ProgramTypeOK, NEW p, Consuming(p), p <= Len(argv),
         NEW q, \/ Option(p) \in TakesValue /\ q = IF p + 2 <= Len(argv) + 1 THEN p + 2 ELSE Len(argv) + 1
                \/ Option(p) = "INTERACTIVE" /\ q = p + 1
  PROVE  Consuming(q) /\ Behind(q) = Behind(p) \cup {p} /\ p \notin Behind(p)
  <1>1. /\ Len(argv) \in Nat /\ Reached \subseteq 1 .. Len(argv)
        /\ \A i \in 1 .. Len(argv) + 2 : Ahead[i] = AheadStep(Ahead, i)
    BY ReachedLies, AheadDefined
  <1>2. p \in 1 .. Len(argv) /\ q \in 1 .. Len(argv) + 1 /\ p < q
    BY <1>1 DEF Consuming
  <1>3. /\ p \in 1 .. Len(argv) + 2 /\ q \in 1 .. Len(argv) + 2
        /\ p + 1 \in 1 .. Len(argv) + 2 /\ p + 2 \in 1 .. Len(argv) + 2
        /\ ~(p > Len(argv))
    BY <1>1, <1>2
  <1>4. "INTERACTIVE" \notin TakesValue
    BY DEF TakesValue
  <1>5. Ahead[p] = {p} \cup Ahead[q]
    <2>1. Ahead[p] = AheadStep(Ahead, p)
      BY <1>1, <1>3
    <2>2. CASE Option(p) = "INTERACTIVE" /\ q = p + 1
      BY <1>3, <1>4, <2>1, <2>2, Zenon DEF AheadStep
    <2>3. CASE Option(p) \in TakesValue /\ q = IF p + 2 <= Len(argv) + 1 THEN p + 2 ELSE Len(argv) + 1
      <3>1. Ahead[p] = {p} \cup Ahead[p + 2]
        BY <1>3, <2>1, <2>3, Zenon DEF AheadStep
      <3>2. CASE q = p + 2
        BY <3>1, <3>2
      <3>3. CASE q # p + 2
        <4>1. p + 2 > Len(argv) /\ q > Len(argv)
          BY <1>1, <1>2, <2>3, <3>3
        <4>2. AheadStep(Ahead, p + 2) = {} /\ AheadStep(Ahead, q) = {}
          BY <4>1, Zenon DEF AheadStep
        <4>3. QED
          BY <1>1, <1>3, <3>1, <4>2
      <3>4. QED
        BY <3>2, <3>3
    <2>4. QED
      BY <2>2, <2>3, <1>4
  <1>6. Ahead[q] \subseteq q .. Len(argv)
    BY <1>3, AheadLies
  <1>7. Reached = Behind(p) \cup {p} \cup Ahead[q]
    BY <1>5 DEF Consuming
  <1>8. Behind(q) = Behind(p) \cup {p} /\ p \notin Behind(p)
    <2>1. \A j \in Ahead[q] : ~(j < q)
      BY <1>1, <1>2, <1>6
    <2>2. \A j \in Behind(p) : j \in Reached /\ j < p /\ j < q
      BY <1>1, <1>2 DEF Behind
    <2>3. p \in Reached /\ p < q /\ ~(p < p)
      BY <1>2, <1>7
    <2>4. \A j : j \in Behind(q) => j \in Behind(p) \cup {p}
      BY <1>7, <2>1 DEF Behind
    <2>5. \A j : j \in Behind(p) \cup {p} => j \in Behind(q)
      BY <2>2, <2>3 DEF Behind
    <2>6. Behind(q) = Behind(p) \cup {p}
      BY <2>4, <2>5
    <2>7. QED
      BY <2>2, <2>3, <2>6
  <1>9. \A j \in Behind(q) : Option(j) \in Consumable
    BY <1>8 DEF Consuming, Consumable
  <1>10. \A j \in Behind(q) : Option(j) \in TakesValue => j + 1 < q \/ j = Len(argv)
    <2>1. ASSUME NEW j \in Behind(p), Option(j) \in TakesValue PROVE j + 1 < q \/ j = Len(argv)
      <3>1. j + 1 < p \/ j = Len(argv)
        BY <2>1 DEF Consuming
      <3>2. j \in 1 .. Len(argv)
        BY <1>1 DEF Behind
      <3>3. QED
        BY <1>1, <1>2, <3>1, <3>2
    <2>2. Option(p) \in TakesValue => p + 1 < q \/ p = Len(argv)
      BY <1>1, <1>2, <1>4
    <2>3. QED
      BY <1>8, <2>1, <2>2
  <1>11. QED
    BY <1>2, <1>7, <1>8, <1>9, <1>10 DEF Consuming

\* It ends at an argument that is nothing to consume, which is the last place.
LEMMA ConsumingEnds ==
  ASSUME ProgramTypeOK, NEW p, Consuming(p), p <= Len(argv), Option(p) \notin Consumable
  PROVE  /\ Reached = Behind(p) \cup {p}
         /\ p \in Reached /\ p \notin Behind(p)
         /\ Greatest(Reached) = p
         /\ \A option : option \notin Consumable => (Has({option}) <=> Option(p) = option)
  <1>1. /\ Len(argv) \in Nat /\ Reached \subseteq 1 .. Len(argv) /\ Reached \subseteq Int
        /\ \A i \in 1 .. Len(argv) + 2 : Ahead[i] = AheadStep(Ahead, i)
    BY ReachedLies, AheadDefined
  <1>2. p \in 1 .. Len(argv) + 2 /\ ~(p > Len(argv)) /\ p \in Int
    BY <1>1 DEF Consuming
  <1>3. AheadStep(Ahead, p) = {p}
    BY <1>2, Zenon DEF AheadStep, Consumable
  <1>4. Reached = Behind(p) \cup {p}
    BY <1>1, <1>2, <1>3 DEF Consuming
  <1>5. p \notin Behind(p) /\ \A j \in Reached : j <= p
    <2>1. \A j \in Behind(p) : j \in Int /\ j < p
      BY <1>1 DEF Behind
    <2>2. QED
      BY <1>2, <1>4, <2>1
  <1>6. Greatest(Reached) = p
    BY <1>1, <1>4, <1>5, GreatestIs
  <1>7. \A option : option \notin Consumable => (Has({option}) <=> Option(p) = option)
    BY <1>4 DEF Has, Consuming
  <1>8. QED
    BY <1>4, <1>5, <1>6, <1>7

\* Or with the last argument.
LEMMA ConsumingOver ==
  ASSUME ProgramTypeOK, NEW p, Consuming(p), ~(p <= Len(argv))
  PROVE  Reached = Behind(p) /\ \A option : option \notin Consumable => ~Has({option})
  <1>1. /\ Len(argv) \in Nat
        /\ \A i \in 1 .. Len(argv) + 2 : Ahead[i] = AheadStep(Ahead, i)
    BY AheadDefined
  <1>2. p \in 1 .. Len(argv) + 2 /\ p > Len(argv)
    BY <1>1 DEF Consuming
  <1>3. AheadStep(Ahead, p) = {}
    BY <1>2, Zenon DEF AheadStep
  <1>4. Reached = Behind(p)
    BY <1>1, <1>2, <1>3 DEF Consuming
  <1>5. QED
    BY <1>4 DEF Has, Consuming

\* The arguments stay what they are, and with them what they say.
LEMMA ArgumentsStay ==
  ASSUME build' = build, argv' = argv
  PROVE  /\ Reached' = Reached
         /\ Files' = Files
         /\ \A options : Has(options)' <=> Has(options)
         /\ \A p : Behind(p)' = Behind(p) /\ (Consuming(p)' <=> Consuming(p))
         /\ \A places : NamedBy(places)' = NamedBy(places)
         /\ \A c, places, files : Says(c, places, files)' <=> Says(c, places, files)
  <1>1. \A i : Option(i)' = Option(i)
    BY DEF Option
  <1>2. Reached' = Reached
    BY DEF Reached, Option
  <1>3. \A options : Has(options)' <=> Has(options)
    BY <1>1, <1>2 DEF Has
  <1>4. \A places, option : ValuesOf(places, option)' = ValuesOf(places, option)
    BY <1>1 DEF ValuesOf
  <1>5. \A option : Values(option)' = Values(option)
    BY <1>1, <1>2 DEF Values
  <1>6. Files' = Files
    <2>1. (Has({"UNKNOWN"})' <=> Has({"UNKNOWN"})) /\ (Has({"END_OF_OPTIONS"})' <=> Has({"END_OF_OPTIONS"}))
      BY <1>3
    <2>2. QED
      BY <1>2, <1>5, <2>1 DEF Files
  <1>7. \A p : Behind(p)' = Behind(p)
    BY <1>2 DEF Behind
  <1>8. Ahead' = Ahead
    BY DEF Ahead, AheadStep, Option
  <1>9. \A p : Consuming(p)' <=> Consuming(p)
    BY <1>1, <1>2, <1>7, <1>8 DEF Consuming
  <1>10. \A places : NamedBy(places)' = NamedBy(places)
    BY <1>4 DEF NamedBy
  <1>11. \A c, places, files : Says(c, places, files)' <=> Says(c, places, files)
    BY <1>1, <1>4 DEF Says
  <1>12. QED
    BY <1>2, <1>3, <1>6, <1>7, <1>9, <1>10, <1>11

\* The values consumed so far lie in front of the next argument's.
LEMMA ValuesGrow ==
  ASSUME ProgramTypeOK, NEW p, Consuming(p), p <= Len(argv), NEW option \in TakesValue
  PROVE  /\ ValuesOf(Behind(p) \cup {p}, option) =
              ValuesOf(Behind(p), option) \cup
                (IF Option(p) = option /\ p < Len(argv) THEN {p + 1} ELSE {})
         /\ \A i \in ValuesOf(Behind(p), option) : i \in Int /\ i <= p + 1
  <1>1. Len(argv) \in Nat /\ Reached \subseteq 1 .. Len(argv) /\ p \in Int
    BY ReachedLies DEF Consuming
  <1>2. ASSUME NEW j \in Behind(p), Option(j) = option, j < Len(argv)
        PROVE  j + 1 \in Int /\ j + 1 <= p + 1
    <2>1. j \in Int /\ j < p
      BY <1>1 DEF Behind
    <2>2. QED
      BY <1>1, <2>1
  <1>3. \A i \in ValuesOf(Behind(p), option) : i \in Int /\ i <= p + 1
    BY <1>2 DEF ValuesOf
  <1>4. QED
    BY <1>3 DEF ValuesOf

\* Of some numbers and one that none exceeds, this one is the greatest.
LEMMA LatestIsGreatest ==
  ASSUME NEW S, NEW m \in Int, \A i \in S : i \in Int /\ i <= m
  PROVE  Greatest(S \cup {m}) = m
  <1>1. S \cup {m} \in SUBSET Int /\ m \in S \cup {m} /\ \A i \in S \cup {m} : i <= m
    OBVIOUS
  <1>2. QED
    BY <1>1, GreatestIs

\* A mode is consumed: the last value that is one counts.
LEMMA ModeSaid ==
  ASSUME ProgramTypeOK, NEW p, Consuming(p), p <= Len(argv), Option(p) = "TEST_MODE",
         NEW files, Says(config, Behind(p), files), NEW c,
         c = IF Len(argv) > p THEN [config EXCEPT !.mode = ModeFrom(argv[p + 1])] ELSE config
  PROVE  Says(c, Behind(p) \cup {p}, files)
  <1> DEFINE before == {i \in ValuesOf(Behind(p), "TEST_MODE") : IsMode(argv[i])}
             after == {i \in ValuesOf(Behind(p) \cup {p}, "TEST_MODE") : IsMode(argv[i])}
  <1>1. "TEST_MODE" \in TakesValue /\ "TEST_MODE" # "INTERACTIVE"
    BY DEF TakesValue
  <1>2. Len(argv) \in Nat /\ p \in Int
    BY ReachedLies DEF Consuming
  <1>3. /\ ValuesOf(Behind(p) \cup {p}, "TEST_MODE") =
             ValuesOf(Behind(p), "TEST_MODE") \cup (IF p < Len(argv) THEN {p + 1} ELSE {})
        /\ \A i \in ValuesOf(Behind(p), "TEST_MODE") : i \in Int /\ i <= p + 1
    BY <1>1, ValuesGrow
  <1>4. /\ c.file = config.file /\ c.name = config.name /\ c.interactive = config.interactive
        /\ c.mode = IF Len(argv) > p THEN ModeFrom(argv[p + 1]) ELSE config.mode
    BY DEF ProgramTypeOK
  <1>5. (\E j \in Behind(p) \cup {p} : Option(j) = "INTERACTIVE")
          <=> (\E j \in Behind(p) : Option(j) = "INTERACTIVE")
    BY <1>1
  <1>6. IF after = {} THEN c.mode = "version" ELSE BeginsWith(argv[Greatest(after)], c.mode)
    <2>1. IF before = {} THEN config.mode = "version"
          ELSE BeginsWith(argv[Greatest(before)], config.mode)
      BY DEF Says
    <2>2. CASE p < Len(argv) /\ IsMode(argv[p + 1])
      <3>1. after = before \cup {p + 1}
        BY <1>3, <2>2
      <3>2. Greatest(after) = p + 1
        <4>1. \A i \in before : i \in Int /\ i <= p + 1
          BY <1>3
        <4>2. p + 1 \in Int
          BY <1>2
        <4> HIDE DEF before, after
        <4>3. QED
          BY <3>1, <4>1, <4>2, LatestIsGreatest
      <3>3. c.mode = ModeOf(argv[p + 1])
        BY <1>2, <1>4, <2>2 DEF ModeFrom
      <3>4. BeginsWith(argv[p + 1], ModeOf(argv[p + 1]))
        BY <2>2 DEF IsMode, ModeOf
      <3>5. QED
        BY <3>1, <3>2, <3>3, <3>4
    <2>3. CASE ~(p < Len(argv) /\ IsMode(argv[p + 1]))
      <3>1. after = before
        BY <1>3, <2>3
      <3>2. c.mode = config.mode
        BY <1>2, <1>4, <2>3 DEF ModeFrom
      <3>3. QED
        BY <2>1, <3>1, <3>2
    <2>4. QED
      BY <2>2, <2>3
  <1> HIDE DEF after
  <1>7. QED
    BY <1>4, <1>5, <1>6 DEF Says, after

\* What an option says that is no mode leaves the modes alone.
LEMMA ModesLeft ==
  ASSUME ProgramTypeOK, NEW p, Consuming(p), p <= Len(argv), Option(p) # "TEST_MODE"
  PROVE  ValuesOf(Behind(p) \cup {p}, "TEST_MODE") = ValuesOf(Behind(p), "TEST_MODE")
  BY ValuesGrow DEF TakesValue

\* And the same of the files.
LEMMA FilesLeft ==
  ASSUME ProgramTypeOK, NEW p, Consuming(p), p <= Len(argv),
         Option(p) # "INPUT_FILE" \/ ~(p < Len(argv))
  PROVE  NamedBy(Behind(p) \cup {p}) = NamedBy(Behind(p))
  BY ValuesGrow DEF TakesValue, NamedBy

\* A file is named: the last one counts.
LEMMA FileSaid ==
  ASSUME ProgramTypeOK, NEW p, Consuming(p), p < Len(argv), Option(p) = "INPUT_FILE",
         Says(config, Behind(p), NamedBy(Behind(p))), NEW file, file # NULL, NEW c,
         c = [config EXCEPT !.file = file, !.name = FileName(argv[p + 1])]
  PROVE  Says(c, Behind(p) \cup {p}, NamedBy(Behind(p) \cup {p}))
  <1>1. "INPUT_FILE" \in TakesValue /\ "INPUT_FILE" # "INTERACTIVE" /\ "INPUT_FILE" # "TEST_MODE"
    BY DEF TakesValue
  <1>2. Len(argv) \in Nat /\ p \in Int /\ p <= Len(argv)
    <2>1. Len(argv) \in Nat /\ p \in Int
      BY ReachedLies DEF Consuming
    <2>2. QED
      BY <2>1
  <1>3. /\ NamedBy(Behind(p) \cup {p}) = NamedBy(Behind(p)) \cup {p + 1}
        /\ \A i \in NamedBy(Behind(p)) : i \in Int /\ i <= p + 1
    <2>1. build = "debug"
      BY FileOptionIsDebug
    <2>2. QED
      BY <1>1, <1>2, <2>1, ValuesGrow DEF NamedBy
  <1>4. Greatest(NamedBy(Behind(p) \cup {p})) = p + 1
    <2>1. p + 1 \in Int
      BY <1>2
    <2>2. Greatest(NamedBy(Behind(p)) \cup {p + 1}) = p + 1
      BY <1>3, <2>1, LatestIsGreatest
    <2>3. QED
      BY <1>3, <2>2
  <1>5. /\ c.file = file /\ c.name = FileName(argv[p + 1])
        /\ c.interactive = config.interactive /\ c.mode = config.mode
    BY DEF ProgramTypeOK
  <1>6. (\E j \in Behind(p) \cup {p} : Option(j) = "INTERACTIVE")
          <=> (\E j \in Behind(p) : Option(j) = "INTERACTIVE")
    BY <1>1
  <1>7. ValuesOf(Behind(p) \cup {p}, "TEST_MODE") = ValuesOf(Behind(p), "TEST_MODE")
    BY <1>1, <1>2, ModesLeft
  <1>8. NamedBy(Behind(p) \cup {p}) # {}
    BY <1>3
  <1>9. QED
    BY <1>4, <1>5, <1>6, <1>7, <1>8 DEF Says

\* The word for the interactive mode.
LEMMA InteractiveSaid ==
  ASSUME ProgramTypeOK, NEW p, Consuming(p), p <= Len(argv), Option(p) = "INTERACTIVE",
         NEW files, Says(config, Behind(p), files), NEW c,
         c = [config EXCEPT !.interactive = TRUE]
  PROVE  Says(c, Behind(p) \cup {p}, files)
  <1>1. c.file = config.file /\ c.name = config.name /\ c.mode = config.mode /\ c.interactive
    BY DEF ProgramTypeOK
  <1>2. ValuesOf(Behind(p) \cup {p}, "TEST_MODE") = ValuesOf(Behind(p), "TEST_MODE")
    BY ModesLeft
  <1>3. QED
    BY <1>1, <1>2 DEF Says

\* The name of a file without the value that would be it says nothing.
LEMMA NothingSaid ==
  ASSUME ProgramTypeOK, NEW p, Consuming(p), p <= Len(argv), Option(p) = "INPUT_FILE",
         NEW files, Says(config, Behind(p), files)
  PROVE  Says(config, Behind(p) \cup {p}, files)
  <1>1. ValuesOf(Behind(p) \cup {p}, "TEST_MODE") = ValuesOf(Behind(p), "TEST_MODE")
    BY ModesLeft
  <1>2. (\E j \in Behind(p) \cup {p} : Option(j) = "INTERACTIVE")
          <=> (\E j \in Behind(p) : Option(j) = "INTERACTIVE")
    OBVIOUS
  <1>3. QED
    BY <1>1, <1>2 DEF Says

\* What the consumption of one option goes by.
LEMMA OptionFacts ==
  ASSUME ProgramInv, ArgumentsInv, pc = "options"
  PROVE  /\ ProgramTypeOK
         /\ Len(argv) \in Nat
         /\ params.pointer \in Nat /\ params.pointer >= 1
         /\ At(0) = argv[params.pointer] /\ At(1) = argv[params.pointer + 1]
         /\ ParseOptionType(build, At(0)) = Option(params.pointer)
         /\ Consuming(params.pointer)
         /\ Says(config, Behind(params.pointer), NamedBy(Behind(params.pointer)))
         /\ \A n \in Nat : Consumed(n).pointer =
              IF params.pointer + n <= Len(argv) + 1 THEN params.pointer + n ELSE Len(argv) + 1
  <1>1. ProgramTypeOK /\ Relied
    BY DEF ProgramInv
  <1>2. Len(argv) \in Nat /\ params.pointer \in Nat /\ params.pointer >= 1
    BY <1>1, CommandLineTypes DEF Relied
  <1>3. params.pointer + 0 = params.pointer
    BY <1>2
  <1>4. At(0) = argv[params.pointer] /\ At(1) = argv[params.pointer + 1]
    BY <1>3 DEF At
  <1>5. ParseOptionType(build, At(0)) = Option(params.pointer)
    BY <1>4 DEF Option
  <1>6. \A n \in Nat : Consumed(n).pointer =
          IF params.pointer + n <= Len(argv) + 1 THEN params.pointer + n ELSE Len(argv) + 1
    BY <1>1 DEF ProgramTypeOK, Consumed
  <1>7. QED
    BY <1>1, <1>2, <1>4, <1>5, <1>6 DEF ArgumentsInv

\* The options end in front of the operand, or with the arguments.
LEMMA OptionsEndSays ==
  ASSUME ProgramInv, ArgumentsInv, pc = "options", build' = build, argv' = argv,
         pc' = "operand", config' = config,
         \/ /\ params.pointer <= Len(argv)
            /\ \/ Option(params.pointer) = "UNKNOWN" /\ params' = params
               \/ Option(params.pointer) = "END_OF_OPTIONS" /\ params' = Consumed(1)
         \/ ~(params.pointer <= Len(argv)) /\ params' = params
  PROVE  ArgumentsInv'
  <1> DEFINE p == params.pointer
  <1>1. /\ ProgramTypeOK /\ Len(argv) \in Nat /\ p \in Nat /\ p >= 1
        /\ Consuming(p) /\ Says(config, Behind(p), NamedBy(Behind(p)))
        /\ Consumed(1).pointer = IF p + 1 <= Len(argv) + 1 THEN p + 1 ELSE Len(argv) + 1
    BY OptionFacts
  <1>2. /\ "UNKNOWN" \notin Consumable /\ "END_OF_OPTIONS" \notin Consumable
        /\ "INVALID" \notin Consumable
    BY DEF Consumable, TakesValue
  <1>3. ~Has({"INVALID"}) /\ Says(config, Reached, NamedBy(Reached))
        /\ (build = "full" => Files = IF params'.pointer <= Len(argv) THEN {params'.pointer} ELSE {})
    <2>1. CASE ~(p <= Len(argv)) /\ params' = params
      <3>1. Reached = Behind(p) /\ \A option : option \notin Consumable => ~Has({option})
        BY <1>1, <2>1, ConsumingOver
      <3>2. ~Has({"INVALID"}) /\ ~Has({"UNKNOWN"}) /\ ~Has({"END_OF_OPTIONS"})
        BY <1>2, <3>1
      <3>3. build = "full" => Files = {}
        BY <3>2 DEF Files
      <3>4. QED
        BY <1>1, <2>1, <3>1, <3>2, <3>3
    <2>2. CASE p <= Len(argv) /\ Option(p) \in {"UNKNOWN", "END_OF_OPTIONS"}
      <3>1. /\ Reached = Behind(p) \cup {p} /\ Greatest(Reached) = p
            /\ \A option : option \notin Consumable => (Has({option}) <=> Option(p) = option)
        BY <1>1, <1>2, <2>2, ConsumingEnds
      <3>2. /\ ~Has({"INVALID"})
            /\ Has({"UNKNOWN"}) <=> Option(p) = "UNKNOWN"
            /\ Has({"END_OF_OPTIONS"}) <=> Option(p) = "END_OF_OPTIONS"
        BY <1>2, <2>2, <3>1
      <3>3. Says(config, Reached, NamedBy(Reached))
        <4>1. Option(p) # "TEST_MODE" /\ Option(p) # "INPUT_FILE" /\ Option(p) # "INTERACTIVE"
          BY <2>2
        <4>2. /\ ValuesOf(Reached, "TEST_MODE") = ValuesOf(Behind(p), "TEST_MODE")
              /\ NamedBy(Reached) = NamedBy(Behind(p))
          BY <1>1, <2>2, <3>1, <4>1, ModesLeft, FilesLeft
        <4>3. (\E j \in Reached : Option(j) = "INTERACTIVE")
                <=> (\E j \in Behind(p) : Option(j) = "INTERACTIVE")
          BY <3>1, <4>1
        <4>4. QED
          BY <1>1, <4>2, <4>3 DEF Says
      <3>4. ASSUME build = "full"
            PROVE  Files = IF params'.pointer <= Len(argv) THEN {params'.pointer} ELSE {}
        <4>1. CASE Option(p) = "UNKNOWN"
          <5>1. params' = params /\ "UNKNOWN" # "END_OF_OPTIONS"
            BY <1>1, <2>2, <4>1
          <5>2. Files = {i \in 1 .. Len(argv) : i = p}
            BY <3>1, <3>2, <3>4, <4>1 DEF Files
          <5>3. p \in 1 .. Len(argv)
            BY <1>1, <2>2
          <5>4. QED
            BY <2>2, <5>1, <5>2, <5>3
        <4>2. CASE Option(p) = "END_OF_OPTIONS"
          <5>1. params'.pointer = p + 1
            BY <1>1, <2>2, <4>2
          <5>2. Files = {i \in 1 .. Len(argv) : i = p + 1}
            BY <3>1, <3>2, <3>4, <4>2 DEF Files
          <5>3. p + 1 <= Len(argv) => p + 1 \in 1 .. Len(argv)
            BY <1>1
          <5>4. ~(p + 1 <= Len(argv)) => p + 1 \notin 1 .. Len(argv)
            BY <1>1
          <5>5. QED
            BY <5>1, <5>2, <5>3, <5>4
        <4>3. QED
          BY <2>2, <4>1, <4>2
      <3>5. QED
        BY <3>2, <3>3, <3>4
    <2>3. QED
      BY <2>1, <2>2
  <1>4. OperandIsNext'
    BY <1>3, ArgumentsStay DEF OperandIsNext
  <1>5. (Says(config, Reached, NamedBy(Reached)))'
    <2>1. Says(config, Reached, NamedBy(Reached))' <=> Says(config', Reached', NamedBy(Reached)')
      BY ArgumentsStay
    <2>2. NamedBy(Reached)' = NamedBy(Reached)
      BY ArgumentsStay DEF NamedBy
    <2>3. QED
      BY <1>3, <2>1, <2>2, ArgumentsStay
  <1>6. ~Has({"INVALID"})'
    BY <1>3, ArgumentsStay
  <1>7. QED
    BY <1>4, <1>5, <1>6 DEF ArgumentsInv, RunLabels, OpenLabels, TokenLabels, HeldLabels

\* An option is consumed, and the next one is looked for.
LEMMA OptionSays ==
  ASSUME build' = build, argv' = argv, pc' = "options",
         Consuming(params'.pointer),
         Says(config', Behind(params'.pointer), NamedBy(Behind(params'.pointer)))
  PROVE  ArgumentsInv'
  <1>1. Consuming(params.pointer)'
    BY ArgumentsStay
  <1>2. Says(config, Behind(params.pointer), NamedBy(Behind(params.pointer)))'
    <2>1. Behind(params.pointer)' = Behind(params'.pointer)
      BY ArgumentsStay
    <2>2. NamedBy(Behind(params.pointer))' = NamedBy(Behind(params'.pointer))
      BY <2>1, ArgumentsStay DEF NamedBy, ValuesOf, Option
    <2>3. QED
      BY <2>1, <2>2, ArgumentsStay DEF Says, ValuesOf, Option
  <1>3. QED
    BY <1>1, <1>2 DEF ArgumentsInv, RunLabels, OpenLabels, TokenLabels, HeldLabels

\* One option.
LEMMA ConsumeNextOptionSays ==
  ASSUME ProgramInv, ArgumentsInv, ConsumeNextOption, CommandLineOnly
  PROVE  ArgumentsInv'
  <1> DEFINE p == params.pointer
             option == ParseOptionType(build, At(0))
  <1>1. pc = "options" /\ build' = build /\ argv' = argv
    BY DEF ConsumeNextOption, Keep
  <1>2. /\ ProgramTypeOK /\ Len(argv) \in Nat /\ p \in Nat /\ p >= 1
        /\ At(1) = argv[p + 1] /\ option = Option(p) /\ At(0) = argv[p]
        /\ Consuming(p) /\ Says(config, Behind(p), NamedBy(Behind(p)))
        /\ Consumed(1).pointer = IF p + 1 <= Len(argv) + 1 THEN p + 1 ELSE Len(argv) + 1
        /\ Consumed(2).pointer = IF p + 2 <= Len(argv) + 1 THEN p + 2 ELSE Len(argv) + 1
    BY <1>1, OptionFacts
  <1>3. HasNextArgument <=> p <= Len(argv)
    BY DEF HasNextArgument
  <1> HIDE DEF p, option
  <1>4. CASE ~HasNextArgument /\ Goto("operand") /\ UNCHANGED <<mem, config, params>>
    BY <1>1, <1>3, <1>4, OptionsEndSays DEF Goto, p
  <1>5. CASE HasNextArgument /\ OptionsEnd(option)
    <2>1. /\ pc' = "operand" /\ config' = config
          /\ \/ option = "UNKNOWN" /\ params' = params
             \/ option = "END_OF_OPTIONS" /\ params' = Consumed(1)
      BY <1>5 DEF OptionsEnd, Goto
    <2>2. QED
      BY <1>1, <1>2, <1>3, <1>5, <2>1, OptionsEndSays DEF p
  <1>6. CASE HasNextArgument /\ (OptionInvalid(option) \/ OptionHelp(option))
    <2>1. pc' = "exit"
      BY <1>6 DEF OptionInvalid, OptionHelp, ExitWith
    <2>2. QED
      BY <2>1 DEF ArgumentsInv, RunLabels, OpenLabels, TokenLabels, HeldLabels
  <1>7. CASE HasNextArgument /\ OptionInputFile(option)
    <2>1. option = "INPUT_FILE" /\ p <= Len(argv)
      BY <1>3, <1>7 DEF OptionInputFile
    <2>2. Option(p) \in TakesValue
      BY <1>2, <2>1 DEF TakesValue
    <2>3. CASE Len(argv) > p
      <3>1. StoreFile(argv[p + 1], "options", 2)
        BY <1>2, <1>7, <2>3 DEF OptionInputFile, p
      <3>2. PICK o \in Malloc(mem, "file") :
              IF o.pointer = NULL
              THEN mem' = Abandon(o.mem) /\ Abandoned /\ ExitWith(NO_MEM)
              ELSE /\ mem' = o.mem
                   /\ config' = [config EXCEPT !.file = o.pointer, !.name = FileName(argv[p + 1])]
                   /\ params' = Consumed(2)
                   /\ Goto("options")
        BY <3>1 DEF StoreFile
      <3>3. CASE o.pointer = NULL
        <4>1. pc' = "exit"
          BY <3>2, <3>3 DEF ExitWith
        <4>2. QED
          BY <4>1 DEF ArgumentsInv, RunLabels, OpenLabels, TokenLabels, HeldLabels
      <3>4. CASE o.pointer # NULL
        <4>1. /\ config' = [config EXCEPT !.file = o.pointer, !.name = FileName(argv[p + 1])]
              /\ params'.pointer = IF p + 2 <= Len(argv) + 1 THEN p + 2 ELSE Len(argv) + 1
              /\ pc' = "options"
          BY <1>2, <3>2, <3>4 DEF Goto
        <4>2. Consuming(params'.pointer) /\ Behind(params'.pointer) = Behind(p) \cup {p}
          BY <1>2, <2>1, <2>2, <4>1, ConsumingGoesOn, Zenon
        <4>3. Says(config', Behind(p) \cup {p}, NamedBy(Behind(p) \cup {p}))
          <5>1. p < Len(argv)
            BY <1>2, <2>3
          <5>2. QED
            BY <1>2, <2>1, <3>4, <4>1, <5>1, FileSaid
        <4>4. QED
          BY <1>1, <4>1, <4>2, <4>3, OptionSays
      <3>5. QED
        BY <3>3, <3>4
    <2>4. CASE ~(Len(argv) > p)
      <3>1. params' = Consumed(1) /\ pc' = "options" /\ config' = config
        BY <1>7, <2>4 DEF OptionInputFile, Goto, p
      <3>2. params'.pointer = IF p + 2 <= Len(argv) + 1 THEN p + 2 ELSE Len(argv) + 1
        BY <1>2, <2>1, <2>4, <3>1
      <3>3. Consuming(params'.pointer) /\ Behind(params'.pointer) = Behind(p) \cup {p}
        BY <1>2, <2>1, <2>2, <3>2, ConsumingGoesOn, Zenon
      <3>4. Says(config, Behind(p) \cup {p}, NamedBy(Behind(p) \cup {p}))
        <4>1. ~(p < Len(argv))
          BY <1>2, <2>4
        <4>2. NamedBy(Behind(p) \cup {p}) = NamedBy(Behind(p))
          BY <1>2, <2>1, <4>1, FilesLeft
        <4>3. QED
          BY <1>2, <2>1, <4>2, NothingSaid
      <3>5. QED
        BY <1>1, <3>1, <3>3, <3>4, OptionSays
    <2>5. QED
      BY <2>3, <2>4
  <1>8. CASE HasNextArgument /\ OptionTestMode(option)
    <2>1. /\ option = "TEST_MODE" /\ params' = Consumed(2) /\ pc' = "options" /\ p <= Len(argv)
          /\ config' = IF Len(argv) > p THEN [config EXCEPT !.mode = ModeFrom(argv[p + 1])] ELSE config
      BY <1>2, <1>3, <1>8 DEF OptionTestMode, Goto, p
    <2>2. Option(p) \in TakesValue /\ "TEST_MODE" # "INPUT_FILE"
      BY <1>2, <2>1 DEF TakesValue
    <2>3. Consuming(params'.pointer) /\ Behind(params'.pointer) = Behind(p) \cup {p}
      BY <1>2, <2>1, <2>2, ConsumingGoesOn, Zenon
    <2>4. Says(config', Behind(p) \cup {p}, NamedBy(Behind(p)))
      BY <1>2, <2>1, ModeSaid
    <2>5. NamedBy(Behind(p) \cup {p}) = NamedBy(Behind(p))
      BY <1>2, <2>1, <2>2, FilesLeft
    <2>6. QED
      BY <1>1, <2>1, <2>3, <2>4, <2>5, OptionSays
  <1>9. CASE HasNextArgument /\ OptionInteractive(option)
    <2>1. /\ option = "INTERACTIVE" /\ params' = Consumed(1) /\ pc' = "options" /\ p <= Len(argv)
          /\ config' = [config EXCEPT !.interactive = TRUE]
      BY <1>3, <1>9 DEF OptionInteractive, Goto
    <2>2. params'.pointer = p + 1 /\ "INTERACTIVE" # "INPUT_FILE"
      BY <1>2, <2>1
    <2>3. Consuming(params'.pointer) /\ Behind(params'.pointer) = Behind(p) \cup {p}
      BY <1>2, <2>1, <2>2, ConsumingGoesOn
    <2>4. Says(config', Behind(p) \cup {p}, NamedBy(Behind(p)))
      BY <1>2, <2>1, InteractiveSaid
    <2>5. NamedBy(Behind(p) \cup {p}) = NamedBy(Behind(p))
      BY <1>2, <2>1, <2>2, FilesLeft
    <2>6. QED
      BY <1>1, <2>1, <2>3, <2>4, <2>5, OptionSays
  <1>10. QED
    BY <1>4, <1>5, <1>6, <1>7, <1>8, <1>9 DEF ConsumeNextOption, option

\* The configuration begins as the one of no options.
LEMMA NewConfigSays ==
  ASSUME ProgramInv, ArgumentsInv, NewConfig, CommandLineOnly
  PROVE  ArgumentsInv'
  <1>1. pc = "new_config" /\ build' = build /\ argv' = argv /\ params.pointer = 1
    BY DEF NewConfig, Keep, ArgumentsInv
  <1>2. PICK o \in Malloc(mem, "config") :
          IF o.pointer = NULL
          THEN /\ mem' = Free(o.mem, params.block)
               /\ params' = NoParams
               /\ ExitWith(NO_MEM)
               /\ UNCHANGED config
          ELSE /\ mem' = o.mem
               /\ config' = [NoConfig EXCEPT !.block = o.pointer, !.mode = "version"]
               /\ Goto("options")
               /\ UNCHANGED params
    BY DEF NewConfig
  <1>3. CASE o.pointer = NULL
    <2>1. pc' = "exit"
      BY <1>2, <1>3 DEF ExitWith
    <2>2. QED
      BY <2>1 DEF ArgumentsInv, RunLabels, OpenLabels, TokenLabels, HeldLabels
  <1>4. CASE o.pointer # NULL
    <2>1. /\ pc' = "options" /\ params'.pointer = 1
          /\ config' = [block |-> o.pointer, mode |-> "version", file |-> NULL, name |-> "",
                        interactive |-> FALSE]
      BY <1>1, <1>2, <1>4 DEF NoConfig, Goto
    <2>2. Consuming(1) /\ Behind(1) = {}
      BY ConsumingBegins DEF ProgramInv
    <2>3. \A option : ValuesOf({}, option) = {}
      BY DEF ValuesOf
    <2>4. NamedBy({}) = {}
      BY <2>3 DEF NamedBy
    <2>5. Says(config', {}, {})
      BY <2>1, <2>3 DEF Says
    <2>6. QED
      BY <1>1, <2>1, <2>2, <2>4, <2>5, OptionSays
  <1>5. QED
    BY <1>3, <1>4

\* Behind the options and the operand the configuration is complete.
LEMMA CompleteSays ==
  ASSUME build' = build, argv' = argv, pc' \in {"configured", "run"},
         ~Has({"INVALID"}), Says(config', Reached, Files)
  PROVE  ArgumentsInv'
  <1>1. ~Has({"INVALID"})'
    BY ArgumentsStay
  <1>2. Says(config, Reached, Files)'
    BY ArgumentsStay DEF Says, ValuesOf, Option
  <1>3. QED
    BY <1>1, <1>2 DEF ArgumentsInv

\* The operand names the file of the full build.
LEMMA OperandSays ==
  ASSUME ProgramInv, ArgumentsInv, Operand, CommandLineOnly
  PROVE  ArgumentsInv'
  <1> DEFINE p == params.pointer
  <1>1. /\ pc = "operand" /\ build' = build /\ argv' = argv
        /\ ~Has({"INVALID"}) /\ Says(config, Reached, NamedBy(Reached))
        /\ build = "full" => Files = IF p <= Len(argv) THEN {p} ELSE {}
    BY DEF Operand, Keep, ArgumentsInv, OperandIsNext
  <1>2. ProgramTypeOK /\ p \in Nat /\ p >= 1 /\ Len(argv) \in Nat
    BY <1>1, CommandLineTypes DEF ProgramInv, Relied
  <1>3. At(0) = argv[p]
    <2>1. p + 0 = p
      BY <1>2
    <2>2. QED
      BY <2>1 DEF At
  <1>4. HasNextArgument <=> p <= Len(argv)
    BY DEF HasNextArgument
  <1> HIDE DEF p
  <1>5. CASE build = "full" /\ HasNextArgument
    <2>1. StoreFile(argv[p], "configured", 1)
      BY <1>3, <1>5 DEF Operand
    <2>2. PICK o \in Malloc(mem, "file") :
            IF o.pointer = NULL
            THEN mem' = Abandon(o.mem) /\ Abandoned /\ ExitWith(NO_MEM)
            ELSE /\ mem' = o.mem
                 /\ config' = [config EXCEPT !.file = o.pointer, !.name = FileName(argv[p])]
                 /\ params' = Consumed(1)
                 /\ Goto("configured")
      BY <2>1 DEF StoreFile
    <2>3. CASE o.pointer = NULL
      <3>1. pc' = "exit"
        BY <2>2, <2>3 DEF ExitWith
      <3>2. QED
        BY <3>1 DEF ArgumentsInv, RunLabels, OpenLabels, TokenLabels, HeldLabels
    <2>4. CASE o.pointer # NULL
      <3>1. /\ config' = [config EXCEPT !.file = o.pointer, !.name = FileName(argv[p])]
            /\ pc' = "configured"
        BY <2>2, <2>4 DEF Goto
      <3>2. /\ config'.file = o.pointer /\ config'.name = FileName(argv[p])
            /\ config'.mode = config.mode /\ config'.interactive = config.interactive
        BY <1>2, <3>1 DEF ProgramTypeOK
      <3>3. Files = {p}
        BY <1>1, <1>4, <1>5
      <3>4. Greatest({p}) = p
        <4>1. {p} \in SUBSET Int /\ p \in {p} /\ \A j \in {p} : j <= p
          BY <1>2
        <4>2. QED
          BY <4>1, GreatestIs
      <3>5. Says(config', Reached, Files)
        BY <1>1, <2>4, <3>2, <3>3, <3>4 DEF Says
      <3>6. QED
        BY <1>1, <3>1, <3>5, CompleteSays
    <2>5. QED
      BY <2>3, <2>4
  <1>6. CASE ~(build = "full" /\ HasNextArgument)
    <2>1. pc' = "configured" /\ config' = config
      BY <1>6 DEF Operand, Goto
    <2>2. NamedBy(Reached) = Files
      <3>1. build = "debug" => Files = Values("INPUT_FILE")
        BY DEF Files
      <3>2. Values("INPUT_FILE") = ValuesOf(Reached, "INPUT_FILE")
        BY DEF Values, ValuesOf
      <3>3. build = "full" => Files = {}
        BY <1>1, <1>4, <1>6
      <3>4. build # "debug" /\ build # "full" => Files = {}
        BY DEF Files
      <3>5. QED
        BY <3>1, <3>2, <3>3, <3>4 DEF NamedBy
    <2>3. QED
      BY <1>1, <2>1, <2>2, CompleteSays
  <1>7. QED
    BY <1>5, <1>6

\* The places of the drivers: they are left for the way out only.
LEMMA DriverPlaces ==
  ASSUME ProgramInv, ProgramNext, pc \in RunLabels
  PROVE  /\ pc' \in (RunLabels \ {"run"}) \cup {"exit"}
         /\ build' = build /\ argv' = argv
  <1> USE DEF Goto, ExitWith, DriverReturns, ReadToken, cliVars, processVars
  <1>1. CASE RunTest \/ ReaderNew \/ OpenPath \/ OpenChecks \/ OpenFile \/ ScannerNew
    BY <1>1 DEF RunTest, ReaderNew, OpenPath, OpenChecks, OpenFile, ScannerNew, RunLabels,
                OpenLabels, TokenLabels
  <1>2. CASE (TokenNew \/ TokenContent) /\ TokensOnly
    BY <1>2 DEF TokenNew, TokenContent, TokensOnly, RunLabels, TokenLabels
  <1>3. CASE (Scan \/ ScanNumber) /\ TokensOnly
    BY <1>3 DEF Scan, ScanNumber, TokensOnly, RunLabels, TokenLabels
  <1>4. CASE ArrTokenAdd /\ TokensOnly
    <2>1. pc = "token_add" /\ pc' \in {caller, "exit"} /\ build' = build /\ argv' = argv
      BY <1>4 DEF ArrTokenAdd, TokensOnly
    <2>2. caller \in HeldLabels
      BY <2>1 DEF ProgramInv, Relied, TokenLabels
    <2>3. QED
      BY <2>1, <2>2 DEF RunLabels, HeldLabels
  <1>5. CASE TestScanner \/ ParserNew \/ ParserParse \/ Parsing \/ ParserDestroy
    BY <1>5 DEF TestScanner, ParserNew, ParserParse, Parsing, ParserDestroy, RunLabels,
                HeldLabels, TokenLabels
  <1>6. CASE MainTeardown /\ ProcessOnly
    BY <1>6 DEF MainTeardown, ProcessOnly
  <1>7. CASE \/ SetupGlobalState \/ ParseArgs \/ NewParams \/ NewConfig \/ ConsumeNextOption
             \/ Operand \/ Configured \/ TulaExit
    <2>1. pc \in {"main", "cli", "new_params", "new_config", "options", "operand",
                  "configured", "exit"}
      BY <1>7 DEF SetupGlobalState, ParseArgs, NewParams, NewConfig, ConsumeNextOption,
                  Operand, Configured, TulaExit
    <2>2. QED
      BY <2>1 DEF RunLabels, OpenLabels, TokenLabels, HeldLabels
  <1>8. QED
    BY <1>1, <1>2, <1>3, <1>4, <1>5, <1>6, <1>7 DEF ProgramNext

\* At every step.
LEMMA ArgumentsStep ==
  ASSUME ProgramInv, ArgumentsInv, [ProgramNext]_programVars
  PROVE  ArgumentsInv'
  <1>1. CASE UNCHANGED programVars
    <2>1. UNCHANGED <<pc, config, params, build, argv>>
      BY <1>1 DEF programVars, processVars, cliVars
    <2>2. QED
      BY <2>1, ArgumentsStay DEF ArgumentsInv, OperandIsNext
  <1>2. CASE ProgramNext /\ pc \in RunLabels
    <2>1. pc' \in (RunLabels \ {"run"}) \cup {"exit"} /\ build' = build /\ argv' = argv
      BY <1>2, DriverPlaces
    <2>2. pc' \notin {"new_config", "options", "operand", "configured", "run"}
      BY <2>1 DEF RunLabels, OpenLabels, TokenLabels, HeldLabels
    <2>3. ~Has({"INVALID"})'
      BY <1>2, <2>1, ArgumentsStay DEF ArgumentsInv
    <2>4. QED
      BY <2>2, <2>3 DEF ArgumentsInv
  <1>3. CASE \/ SetupGlobalState \/ ParseArgs \/ TulaExit
    <2>1. pc' \in {"cli", "exit", "new_params", "exited"}
      BY <1>3 DEF SetupGlobalState, ParseArgs, TulaExit, Goto, ExitWith, ProgramInv, Staged
    <2>2. QED
      BY <2>1 DEF ArgumentsInv, RunLabels, OpenLabels, TokenLabels, HeldLabels
  <1>4. CASE NewParams
    <2>1. pc' \in {"exit", "new_config"} /\ params'.pointer = 1
      BY <1>4 DEF NewParams, Goto, ExitWith
    <2>2. QED
      BY <2>1 DEF ArgumentsInv, RunLabels, OpenLabels, TokenLabels, HeldLabels
  <1>5. CASE Configured
    <2>1. pc = "configured" /\ pc' = "run" /\ config' = config /\ build' = build /\ argv' = argv
      BY <1>5 DEF Configured, Goto, Keep
    <2>2. QED
      BY <2>1, CompleteSays DEF ArgumentsInv
  <1>6. CASE ProgramNext /\ pc \notin RunLabels
    <2>1. \/ SetupGlobalState \/ ParseArgs \/ TulaExit \/ NewParams \/ Configured
          \/ NewConfig /\ CommandLineOnly
          \/ ConsumeNextOption /\ CommandLineOnly
          \/ Operand /\ CommandLineOnly
      <3>1. ~(RunTest \/ ReaderNew \/ OpenPath \/ OpenChecks \/ OpenFile \/ ScannerNew)
        BY <1>6 DEF RunTest, ReaderNew, OpenPath, OpenChecks, OpenFile, ScannerNew, RunLabels,
                    OpenLabels
      <3>2. ~(Scan \/ ScanNumber \/ TokenNew \/ TokenContent \/ ArrTokenAdd \/ MainTeardown)
        BY <1>6 DEF Scan, ScanNumber, TokenNew, TokenContent, ArrTokenAdd, MainTeardown, RunLabels, TokenLabels
      <3>3. ~(TestScanner \/ ParserNew \/ ParserParse \/ Parsing \/ ParserDestroy)
        BY <1>6 DEF TestScanner, ParserNew, ParserParse, Parsing, ParserDestroy, RunLabels,
                    HeldLabels
      <3>4. QED
        BY <1>6, <3>1, <3>2, <3>3 DEF ProgramNext
    <2>2. QED
      BY <1>3, <1>4, <1>5, <2>1, NewConfigSays, ConsumeNextOptionSays, OperandSays
  <1>7. QED
    BY <1>1, <1>2, <1>6

\* It holds at first, when nothing has been consumed.
LEMMA ArgumentsBegin ==
  ASSUME ProgramInit
  PROVE  ArgumentsInv
  BY DEF ProgramInit, ProcessInit, ArgumentsInv, RunLabels, OpenLabels, TokenLabels, HeldLabels

\* The copy of a name is the name without its quotes: the room that str_len counts is what
\* str_copy_safe fills.
LEMMA NameUnquoted ==
  ASSUME NEW Character, NEW arg \in Seq(Character)
  PROVE  FileName(arg) = Unquoted(arg)
  <1>1. Len(arg) \in Nat
    OBVIOUS
  <1>2. CASE ~IsQuoted(arg)
    <2>1. Room(arg) = Len(arg) + 1 /\ Room(arg) # 0
      BY <1>1, <1>2 DEF Room
    <2>2. FileName(arg) = SubSeq(arg, 1, Len(arg))
      BY <1>1, <1>2, <2>1 DEF FileName, CopySafe
    <2>3. SubSeq(arg, 1, Len(arg)) = arg
      BY SubSeqFull
    <2>4. QED
      BY <1>2, <2>2, <2>3 DEF Unquoted
  <1>3. CASE IsQuoted(arg)
    <2> DEFINE rest == SubSeq(arg, 2, Len(arg))
               room == Room(arg)
    <2>1. FileName(arg) = CopySafe(rest, room)
      BY <1>3 DEF FileName, ArgFrom
    <2>2. Unquoted(arg) = SubSeq(arg, 2, Len(arg) - 1)
      BY <1>3 DEF Unquoted
    <2>3. room \in Nat /\ room # 0 /\ (Len(arg) > 2 => room = Len(arg) - 1)
          /\ (~(Len(arg) > 2) => room = 1)
      <3>1. room = IF Len(arg) > 2 THEN Len(arg) - 1 ELSE 1
        BY <1>3, Zenon DEF Room
      <3>2. \A l \in Nat : l > 2 => l - 1 \in Nat /\ l - 1 # 0
        OBVIOUS
      <3> HIDE DEF room
      <3>3. CASE Len(arg) > 2
        BY <1>1, <3>1, <3>2, <3>3
      <3>4. CASE ~(Len(arg) > 2)
        BY <3>1, <3>4
      <3>5. QED
        BY <3>3, <3>4
    <2>4. \A i \in 2 .. Len(arg) : arg[i] \in Character
      BY <1>1
    <2>5. /\ rest \in Seq(Character)
          /\ Len(rest) = IF 2 <= Len(arg) THEN Len(arg) - 1 ELSE 0
          /\ \A i \in 1 .. Len(arg) - 1 : rest[i] = arg[i + 1]
      <3>1. /\ SubSeq(arg, 2, Len(arg)) \in Seq(Character)
            /\ Len(SubSeq(arg, 2, Len(arg))) = IF 2 <= Len(arg) THEN Len(arg) - 2 + 1 ELSE 0
            /\ \A i \in 1 .. Len(arg) - 2 + 1 : SubSeq(arg, 2, Len(arg))[i] = arg[2 + i - 1]
        BY <1>1, <2>4, SubSeqProperties
      <3>2. QED
        BY <1>1, <3>1
    <2> HIDE DEF rest, room
    <2>6. CASE Len(arg) > 2
      <3>1. Len(rest) = Len(arg) - 1 /\ Len(arg) - 2 \in Nat
        BY <1>1, <2>5, <2>6
      <3>2. FileName(arg) = SubSeq(rest, 1, Len(arg) - 2)
        BY <1>1, <2>1, <2>3, <2>6, <3>1 DEF CopySafe
      <3>3. /\ SubSeq(rest, 1, Len(arg) - 2) \in Seq(Character)
            /\ Len(SubSeq(rest, 1, Len(arg) - 2)) = Len(arg) - 2
            /\ \A i \in 1 .. Len(arg) - 2 : SubSeq(rest, 1, Len(arg) - 2)[i] = arg[i + 1]
        <4>1. \A i \in 1 .. Len(arg) - 2 : rest[i] \in Character /\ rest[i] = arg[i + 1]
          BY <1>1, <2>5, <3>1
        <4>2. /\ SubSeq(rest, 1, Len(arg) - 2) \in Seq(Character)
              /\ Len(SubSeq(rest, 1, Len(arg) - 2)) =
                   IF 1 <= Len(arg) - 2 THEN (Len(arg) - 2) - 1 + 1 ELSE 0
              /\ \A i \in 1 .. (Len(arg) - 2) - 1 + 1 :
                   SubSeq(rest, 1, Len(arg) - 2)[i] = rest[1 + i - 1]
          BY <3>1, <4>1, SubSeqProperties
        <4>3. QED
          BY <2>6, <3>1, <4>1, <4>2
      <3>4. /\ SubSeq(arg, 2, Len(arg) - 1) \in Seq(Character)
            /\ Len(SubSeq(arg, 2, Len(arg) - 1)) = Len(arg) - 2
            /\ \A i \in 1 .. Len(arg) - 2 : SubSeq(arg, 2, Len(arg) - 1)[i] = arg[i + 1]
        <4>1. /\ SubSeq(arg, 2, Len(arg) - 1) \in Seq(Character)
              /\ Len(SubSeq(arg, 2, Len(arg) - 1)) =
                   IF 2 <= Len(arg) - 1 THEN (Len(arg) - 1) - 2 + 1 ELSE 0
              /\ \A i \in 1 .. (Len(arg) - 1) - 2 + 1 :
                   SubSeq(arg, 2, Len(arg) - 1)[i] = arg[2 + i - 1]
          BY <1>1, SubSeqProperties
        <4>2. QED
          BY <1>1, <2>6, <4>1
      <3>5. SubSeq(rest, 1, Len(arg) - 2) = SubSeq(arg, 2, Len(arg) - 1)
        BY <3>3, <3>4, SeqEqual
      <3>6. QED
        BY <2>2, <3>2, <3>5
    <2>7. CASE ~(Len(arg) > 2)
      <3>1. Len(rest) \in Nat /\ Len(rest) <= 1
        BY <1>1, <2>5, <2>7
      <3>2. FileName(arg) = SubSeq(rest, 1, 0)
        BY <2>1, <2>3, <2>7, <3>1 DEF CopySafe
      <3>3. SubSeq(rest, 1, 0) = <<>> /\ SubSeq(arg, 2, Len(arg) - 1) = <<>>
        BY <1>1, <2>7, SubSeqEmpty
      <3>4. QED
        BY <2>2, <3>2, <3>3
    <2>8. QED
      BY <2>6, <2>7
  <1>4. QED
    BY <1>2, <1>3

\* Among numbers with a bound there is a greatest.
LEMMA GreatestBounded ==
  ASSUME NEW n \in Nat, NEW S \in SUBSET (1 .. n), S # {}
  PROVE  Greatest(S) \in S
  <1> DEFINE T == {n - i : i \in S}
  <1>1. T \in SUBSET Nat /\ T # {}
    <2>1. \A i \in S : n - i \in Nat
      OBVIOUS
    <2>2. QED
      BY <2>1
  <1>2. \E m \in T : \A k \in T : m <= k
    <2> HIDE DEF T
    <2>1. QED
      BY <1>1, LeastNumber
  <1>3. PICK i \in S : \A j \in S : n - i <= n - j
    BY <1>2
  <1>4. \A j \in S : j <= i
    BY <1>3
  <1>5. QED
    BY <1>4 DEF Greatest

\* The arguments that name files are arguments.
LEMMA FilesLie ==
  ASSUME ProgramTypeOK, Files # {}
  PROVE  Greatest(Files) \in 1 .. Len(argv)
  <1>1. Len(argv) \in Nat /\ Reached \subseteq 1 .. Len(argv)
    BY ReachedLies
  <1>2. Files \subseteq 1 .. Len(argv)
    <2>1. ASSUME NEW i \in Values("INPUT_FILE") PROVE i \in 1 .. Len(argv)
      <3>1. PICK j \in Reached : i = j + 1 /\ j < Len(argv)
        BY <2>1 DEF Values
      <3>2. j \in 1 .. Len(argv)
        BY <1>1
      <3>3. QED
        BY <1>1, <3>1, <3>2
    <2>2. QED
      BY <2>1 DEF Files
  <1>3. Greatest(Files) \in Files
    BY <1>1, <1>2, GreatestBounded
  <1>4. QED
    BY <1>2, <1>3

\* What the driver runs with is what the arguments say, in whatever order and how often
\* (cli_parse_args): the last value of each option counts, and a file's name loses its
\* quotes.  A string is the sequence of its characters.
THEOREM ConfigFromArgumentsHolds ==
  ASSUME NEW CONSTANT Character, STRING = Seq(Character)
  PROVE  ProgramSpec => []ConfigFromArguments
  <1>1. ProgramInv /\ ArgumentsInv => ConfigFromArguments
    <2> SUFFICES ASSUME ProgramInv, ArgumentsInv, pc = "run" PROVE ConfigFromArguments
      BY DEF ConfigFromArguments
    <2> DEFINE modes == {i \in Values("TEST_MODE") : IsMode(argv[i])}
    <2>1. Says(config, Reached, Files)
      BY DEF ArgumentsInv
    <2>2. \A option : ValuesOf(Reached, option) = Values(option)
      BY DEF Values, ValuesOf
    <2>3. IF modes = {} THEN config.mode = "version"
          ELSE BeginsWith(argv[Greatest(modes)], config.mode)
      <3>1. modes = {i \in ValuesOf(Reached, "TEST_MODE") : IsMode(argv[i])}
        BY <2>2
      <3> HIDE DEF modes
      <3>2. QED
        BY <2>1, <3>1 DEF Says
    <2>4. config.interactive <=> Has({"INTERACTIVE"})
      BY <2>1 DEF Says, Has
    <2>5. IF Files = {} THEN config.file = NULL
          ELSE config.file # NULL /\ config.name = FileName(argv[Greatest(Files)])
      BY <2>1 DEF Says
    <2>6. config.file # NULL => config.file \in mem.live
      BY DEF ProgramInv, Owned, Ref
    <2>7. ASSUME Files # {} PROVE config.name = Unquoted(argv[Greatest(Files)])
      <3>1. argv \in Seq(Seq(Character)) /\ Len(argv) \in Nat
        BY ArgumentsAssumption DEF ProgramInv, ProgramTypeOK
      <3>2. Greatest(Files) \in 1 .. Len(argv)
        BY <2>7, FilesLie DEF ProgramInv
      <3>3. argv[Greatest(Files)] \in Seq(Character)
        BY <3>1, <3>2
      <3>4. FileName(argv[Greatest(Files)]) = Unquoted(argv[Greatest(Files)])
        BY <3>3, NameUnquoted
      <3>5. QED
        BY <2>5, <2>7, <3>4
    <2>8. QED
      BY <2>3, <2>4, <2>5, <2>6, <2>7 DEF ConfigFromArguments
  <1>2. QED
    BY <1>1, ArgumentsBegin, ArgumentsStep, Invariance, PTL DEF ProgramSpec

(***************************************************************************)
(* What the operations leave of a heap, well or badly used                 *)
(***************************************************************************)

\* A heap has these fields.
Shaped(m) == m = [live |-> m.live, made |-> m.made, refused |-> m.refused, fault |-> m.fault]

\* n differs from m in its live blocks, and in whether it was misused.
Frees(m, n) == Shaped(n) /\ n.refused = m.refused /\ n.made = m.made

\* The use of a block is no change of the rest.
LEMMA TouchFrees ==
  ASSUME NEW m, Shaped(m), NEW block
  PROVE  Frees(m, Touch(m, block)) /\ Touch(m, block).live = m.live
  <1>1. Touch(m, block) = [m EXCEPT !.fault = m.fault \/ block \notin m.live]
    BY DEF Touch
  <1> DEFINE bad == m.fault \/ block \notin m.live
  <1>2. Touch(m, block) = [m EXCEPT !.fault = bad]
    BY <1>1
  <1> HIDE DEF bad
  <1>3. Touch(m, block) = [live |-> m.live, made |-> m.made, refused |-> m.refused, fault |-> bad]
    BY <1>2 DEF Shaped
  <1>4. QED
    BY <1>3 DEF Frees, Shaped

\* free takes away the block.
LEMMA FreeFrees ==
  ASSUME NEW m, Shaped(m), NEW block
  PROVE  /\ Frees(m, Free(m, block))
         /\ Free(m, block).live = IF block = NULL THEN m.live ELSE m.live \ {block}
  <1>1. CASE block = NULL
    BY <1>1 DEF Free, Frees
  <1>2. CASE block # NULL
    <2> DEFINE n == Touch(m, block)
    <2>1. Shaped(n) /\ n.refused = m.refused /\ n.made = m.made /\ n.live = m.live
      BY TouchFrees DEF Frees
    <2>2. Free(m, block) = [n EXCEPT !.live = @ \ {block}]
      BY <1>2 DEF Free
    <2> HIDE DEF n
    <2>3. Free(m, block) = [live |-> n.live \ {block}, made |-> n.made,
                            refused |-> n.refused, fault |-> n.fault]
      BY <2>1, <2>2 DEF Shaped
    <2>4. QED
      BY <1>2, <2>1, <2>3 DEF Frees, Shaped
  <1>3. QED
    BY <1>1, <1>2

\* The blocks of a sequence are taken away.
LEMMA FreeEachFrees ==
  ASSUME NEW m, Shaped(m), NEW blocks
  PROVE  /\ Frees(m, FreeEach(m, blocks))
         /\ FreeEach(m, blocks).live =
              m.live \ {blocks[i] : i \in {j \in DOMAIN blocks : blocks[j] # NULL}}
  <1> DEFINE freed == {i \in DOMAIN blocks : blocks[i] # NULL}
             bad == \E i \in freed : \/ blocks[i] \notin m.live
                                     \/ \E j \in freed : j < i /\ blocks[j] = blocks[i]
             misused == m.fault \/ bad
  <1>1. FreeEach(m, blocks) =
          [m EXCEPT !.live = m.live \ {blocks[i] : i \in freed}, !.fault = misused]
    BY DEF FreeEach
  <1> HIDE DEF freed, bad, misused
  <1>2. FreeEach(m, blocks) = [live |-> m.live \ {blocks[i] : i \in freed}, made |-> m.made,
                               refused |-> m.refused, fault |-> misused]
    BY <1>1 DEF Shaped
  <1>3. Frees(m, FreeEach(m, blocks)) /\ FreeEach(m, blocks).live = m.live \ {blocks[i] : i \in freed}
    BY <1>2 DEF Frees, Shaped
  <1>4. QED
    BY <1>3 DEF freed

\* A grant of a block, and a refusal.
Grants(m, o, role) ==
  /\ o.pointer # NULL /\ o.pointer[1] = role
  /\ o.mem.live = m.live \cup {o.pointer} /\ o.mem.refused = m.refused
  /\ o.mem.made = [m.made EXCEPT ![role] = @ + 1]
Refuses(m, o, role) ==
  /\ o.pointer = NULL
  /\ o.mem.live = m.live /\ o.mem.made = m.made
  /\ o.mem.refused = m.refused \cup {role}

\* A refused allocation answers no block.
LEMMA NullIsNoGrant ==
  ASSUME NEW role \in Roles, NEW n
  PROVE  <<role, n>> # NULL
  BY DEF Roles, NULL

\* A block is granted.
LEMMA GrantedGrants ==
  ASSUME NEW m, Shaped(m), NEW role \in Roles
  PROVE  Shaped(Granted(m, role).mem) /\ Grants(m, Granted(m, role), role)
  <1> DEFINE block == <<role, m.made[role] + 1>>
             n == [m EXCEPT !.live = @ \cup {block}, !.made[role] = @ + 1]
  <1>1. Granted(m, role) = [pointer |-> block, mem |-> n]
    BY DEF Granted
  <1>2. block # NULL /\ block[1] = role
    BY NullIsNoGrant
  <1> DEFINE more == [m.made EXCEPT ![role] = @ + 1]
             blocks == m.live \cup {block}
  <1>3. n = [live |-> blocks, made |-> more, refused |-> m.refused, fault |-> m.fault]
    <2>1. n = [m EXCEPT !.live = blocks, !.made = more]
      BY DEF Shaped
    <2> HIDE DEF n, more, blocks
    <2>2. QED
      BY <2>1 DEF Shaped
  <1> HIDE DEF block
  <1> HIDE DEF n
  <1>4. /\ Shaped(n) /\ n.live = m.live \cup {block} /\ n.refused = m.refused
        /\ n.made = [m.made EXCEPT ![role] = @ + 1]
    BY <1>3 DEF Shaped
  <1>5. Granted(m, role).pointer = block /\ Granted(m, role).mem = n
    BY <1>1
  <1>6. QED
    BY <1>2, <1>4, <1>5 DEF Grants

\* A block is refused.
LEMMA RefusedRefuses ==
  ASSUME NEW m, Shaped(m), NEW role
  PROVE  Shaped(RefusedTo(m, role).mem) /\ Refuses(m, RefusedTo(m, role), role)
  <1> DEFINE n == [m EXCEPT !.refused = @ \cup {role}]
  <1>1. RefusedTo(m, role) = [pointer |-> NULL, mem |-> n]
    BY DEF RefusedTo
  <1> DEFINE roles == m.refused \cup {role}
  <1>2. n = [live |-> m.live, made |-> m.made, refused |-> roles, fault |-> m.fault]
    <2>1. n = [m EXCEPT !.refused = roles]
      BY DEF Shaped
    <2> HIDE DEF n, roles
    <2>2. QED
      BY <2>1 DEF Shaped
  <1> HIDE DEF n
  <1>3. RefusedTo(m, role).pointer = NULL /\ RefusedTo(m, role).mem = n
    BY <1>1
  <1>4. QED
    BY <1>2, <1>3 DEF Refuses, Shaped

\* malloc does one or the other.
LEMMA MallocAnswers ==
  ASSUME NEW m, Shaped(m), NEW role \in Roles, NEW o \in Malloc(m, role)
  PROVE  Shaped(o.mem) /\ (Grants(m, o, role) \/ Refuses(m, o, role))
  BY GrantedGrants, RefusedRefuses DEF Malloc

\* realloc keeps the block, moves it, or refuses.
LEMMA ReallocAnswers ==
  ASSUME NEW m, Shaped(m), NEW role \in Roles, NEW block, NEW o \in Realloc(m, block, role)
  PROVE  /\ Shaped(o.mem)
         /\ \/ Refuses(m, o, role)
            \/ /\ o.pointer # NULL /\ o.mem.refused = m.refused
               /\ o.mem.live \subseteq m.live \cup {o.pointer}
               /\ block # NULL /\ block # o.pointer => block \notin o.mem.live
               /\ \A other \in DOMAIN m.made : other # role => o.mem.made[other] = m.made[other]
  <1>2. CASE block = NULL
    <2>1. o \in Malloc(m, role)
      BY <1>2 DEF Realloc
    <2>2. Shaped(o.mem) /\ (Grants(m, o, role) \/ Refuses(m, o, role))
      BY <2>1, MallocAnswers
    <2>3. \A other \in DOMAIN m.made : other # role => [m.made EXCEPT ![role] = @ + 1][other] = m.made[other]
      OBVIOUS
    <2>4. QED
      BY <1>2, <2>2, <2>3 DEF Grants
  <1>3. CASE block # NULL
    <2>1. CASE o = [pointer |-> block, mem |-> Touch(m, block)]
      <3>1. o.pointer = block /\ o.mem = Touch(m, block)
        BY <2>1
      <3>2. Frees(m, o.mem) /\ o.mem.live = m.live
        BY <3>1, TouchFrees
      <3>3. QED
        BY <1>3, <3>1, <3>2 DEF Frees
    <2>2. CASE o = Granted(Free(m, block), role)
      <3>1. Frees(m, Free(m, block)) /\ Free(m, block).live = m.live \ {block}
        BY <1>3, FreeFrees
      <3>2. Shaped(o.mem) /\ Grants(Free(m, block), o, role)
        BY <2>2, <3>1, GrantedGrants DEF Frees
      <3>3. QED
        BY <3>1, <3>2 DEF Grants, Frees
    <2>3. CASE o = RefusedTo(m, role)
      BY <2>3, RefusedRefuses
    <2>4. QED
      BY <1>3, <2>1, <2>2, <2>3 DEF Realloc
  <1>4. QED
    BY <1>2, <1>3

\* The heap of the program has the fields of a heap.
LEMMA HeapShaped ==
  ASSUME NEW m \in Heap
  PROVE  Shaped(m)
  BY DEF Heap, Shaped

(***************************************************************************)
(* The exit status                                                         *)
(***************************************************************************)

\* The allocations whose refusal the code answers with its exit for out of memory.
Checked ==
  {"gstate", "params", "config", "file", "number", "shell", "content", "values", "parser", "tree"}
Unchecked == {"scanner", "tokens"}

\* The status tells what was refused, or that the options are bad.
Reason ==
  /\ status = NO_MEM <=> mem.refused \cap Checked # {}
  /\ status = BAD_USAGE <=> status # NO_MEM /\ Has({"INVALID"})
  /\ status \in {GOOD, BAD_USAGE, NO_MEM}

\* The invariant: as long as the program runs nothing checked has been refused.
ReasonInv ==
  /\ pc \notin EndLabels => mem.refused \cap Checked = {}
  /\ pc \in EndLabels => Reason
  /\ pc = "crashed" => mem.refused \cap Unchecked # {} \/ overrun

\* The same has been refused of what the code checks.
SameChecked == mem'.refused \cap Checked = mem.refused \cap Checked

\* The program goes on.
LEMMA ReasonGoesOn ==
  ASSUME ReasonInv, pc \notin EndLabels, pc' \notin EndLabels, pc' # "crashed", SameChecked
  PROVE  ReasonInv'
  BY DEF ReasonInv, SameChecked

\* Something checked is refused.
LEMMA ReasonNoMem ==
  ASSUME pc' = "exit", status' = NO_MEM, NEW role \in Checked, role \in mem'.refused
  PROVE  ReasonInv'
  <1>1. mem'.refused \cap Checked # {}
    OBVIOUS
  <1>2. Reason'
    BY <1>1 DEF Reason, NO_MEM, BAD_USAGE, GOOD
  <1>3. QED
    BY <1>2 DEF ReasonInv, EndLabels

\* The options are good, and all is done.
LEMMA ReasonGood ==
  ASSUME ReasonInv, pc \notin EndLabels, pc' = "exit", status' = GOOD, SameChecked,
         build' = build, argv' = argv, ~Has({"INVALID"})
  PROVE  ReasonInv'
  <1>1. mem'.refused \cap Checked = {}
    BY DEF ReasonInv, SameChecked
  <1>2. ~Has({"INVALID"})'
    BY ArgumentsStay
  <1>3. Reason'
    BY <1>1, <1>2 DEF Reason, NO_MEM, BAD_USAGE, GOOD
  <1>4. QED
    BY <1>3 DEF ReasonInv, EndLabels

\* An option is bad.
LEMMA ReasonBadUsage ==
  ASSUME ReasonInv, pc \notin EndLabels, pc' = "exit", status' = BAD_USAGE, SameChecked,
         build' = build, argv' = argv, Has({"INVALID"})
  PROVE  ReasonInv'
  <1>1. mem'.refused \cap Checked = {}
    BY DEF ReasonInv, SameChecked
  <1>2. Has({"INVALID"})'
    BY ArgumentsStay
  <1>3. Reason'
    BY <1>1, <1>2 DEF Reason, NO_MEM, BAD_USAGE, GOOD
  <1>4. QED
    BY <1>3 DEF ReasonInv, EndLabels

\* The heap in good health, as one with its fields.
LEMMA MemShaped ==
  ASSUME ProgramInv
  PROVE  Shaped(mem)
  BY HeapShaped DEF ProgramInv, ProgramTypeOK

\* Giving up frees two blocks.
LEMMA AbandonFrees ==
  ASSUME NEW m, Shaped(m)
  PROVE  Frees(m, Abandon(m))
  <1>1. Frees(m, Free(m, params.block))
    BY FreeFrees
  <1>2. Frees(Free(m, params.block), Abandon(m))
    BY <1>1, FreeFrees DEF Abandon, Frees
  <1>3. QED
    BY <1>1, <1>2 DEF Frees

\* setup_global_state
LEMMA SetupReason ==
  ASSUME ProgramInv, ReasonInv, SetupGlobalState
  PROVE  ReasonInv'
  <1>1. pc = "main" /\ gstate.block = NULL /\ Shaped(mem)
    BY MemShaped DEF SetupGlobalState, ProgramInv, Staged
  <1>2. PICK o \in Malloc(mem, "gstate") :
          /\ mem' = o.mem
          /\ IF o.pointer = NULL THEN ExitWith(NO_MEM) ELSE Goto("cli")
    BY <1>1 DEF SetupGlobalState
  <1>3. Grants(mem, o, "gstate") \/ Refuses(mem, o, "gstate")
    BY <1>1, MallocAnswers DEF Roles
  <1>4. CASE Refuses(mem, o, "gstate")
    BY <1>2, <1>4, ReasonNoMem DEF Refuses, ExitWith, Checked
  <1>5. CASE Grants(mem, o, "gstate")
    <2>1. pc' = "cli" /\ SameChecked
      BY <1>2, <1>5 DEF Grants, Goto, SameChecked
    <2>2. QED
      BY <1>1, <2>1, ReasonGoesOn DEF EndLabels
  <1>6. QED
    BY <1>3, <1>4, <1>5

\* The command line without arguments, and the parameters and the configuration.
LEMMA CliReason ==
  ASSUME ProgramInv, ReasonInv, ArgumentsInv, ParseArgs \/ NewParams \/ NewConfig
  PROVE  ReasonInv'
  <1>1. pc \in {"cli", "new_params", "new_config"} /\ pc \notin EndLabels /\ Shaped(mem)
        /\ build' = build /\ argv' = argv
    BY MemShaped DEF ParseArgs, NewParams, NewConfig, EndLabels, Keep
  <1>2. CASE ParseArgs
    <2>1. mem' = mem /\ SameChecked
      BY <1>2 DEF ParseArgs, SameChecked
    <2>2. CASE argv = <<>>
      <3>1. pc' = "exit" /\ status' = GOOD
        BY <1>2, <2>2 DEF ParseArgs, ExitWith
      <3>2. ~Has({"INVALID"})
        <4>1. Reached \subseteq 1 .. Len(argv)
          BY ReachedLies DEF ProgramInv
        <4>2. Reached = {}
          BY <2>2, <4>1
        <4>3. QED
          BY <4>2 DEF Has
      <3>3. QED
        BY <1>1, <2>1, <3>1, <3>2, ReasonGood
    <2>3. CASE argv # <<>>
      BY <1>1, <1>2, <2>1, <2>3, ReasonGoesOn DEF ParseArgs, Goto, EndLabels
    <2>4. QED
      BY <2>2, <2>3
  <1>3. CASE NewParams
    <2>1. PICK o \in Malloc(mem, "params") :
            /\ mem' = o.mem
            /\ IF o.pointer = NULL THEN ExitWith(NO_MEM) ELSE Goto("new_config")
      BY <1>3 DEF NewParams
    <2>2. Grants(mem, o, "params") \/ Refuses(mem, o, "params")
      BY <1>1, MallocAnswers DEF Roles
    <2>3. CASE Refuses(mem, o, "params")
      BY <2>1, <2>3, ReasonNoMem DEF Refuses, ExitWith, Checked
    <2>4. CASE Grants(mem, o, "params")
      <3>1. pc' = "new_config" /\ SameChecked
        BY <2>1, <2>4 DEF Grants, Goto, SameChecked
      <3>2. QED
        BY <1>1, <3>1, ReasonGoesOn DEF EndLabels
    <2>5. QED
      BY <2>2, <2>3, <2>4
  <1>4. CASE NewConfig
    <2>1. PICK o \in Malloc(mem, "config") :
            IF o.pointer = NULL THEN mem' = Free(o.mem, params.block) /\ ExitWith(NO_MEM)
            ELSE mem' = o.mem /\ Goto("options")
      BY <1>4 DEF NewConfig
    <2>2. Shaped(o.mem) /\ (Grants(mem, o, "config") \/ Refuses(mem, o, "config"))
      BY <1>1, MallocAnswers DEF Roles
    <2>3. CASE Refuses(mem, o, "config")
      <3>1. mem' = Free(o.mem, params.block) /\ pc' = "exit" /\ status' = NO_MEM
        BY <2>1, <2>3 DEF Refuses, ExitWith
      <3>2. mem'.refused = o.mem.refused /\ "config" \in o.mem.refused
        BY <2>2, <2>3, <3>1, FreeFrees DEF Frees, Refuses
      <3>3. QED
        BY <3>1, <3>2, ReasonNoMem DEF Checked
    <2>4. CASE Grants(mem, o, "config")
      <3>1. pc' = "options" /\ SameChecked
        BY <2>1, <2>4 DEF Grants, Goto, SameChecked
      <3>2. QED
        BY <1>1, <3>1, ReasonGoesOn DEF EndLabels
    <2>5. QED
      BY <2>2, <2>3, <2>4
  <1>5. QED
    BY <1>2, <1>3, <1>4

\* The name of a file is stored, or everything is given up.
LEMMA StoreFileReason ==
  ASSUME ProgramInv, ReasonInv, pc \notin EndLabels,
         NEW arg, NEW label \in {"options", "configured"}, NEW n, StoreFile(arg, label, n)
  PROVE  ReasonInv'
  <1>1. Shaped(mem)
    BY MemShaped
  <1>2. PICK o \in Malloc(mem, "file") :
          IF o.pointer = NULL THEN mem' = Abandon(o.mem) /\ ExitWith(NO_MEM)
          ELSE mem' = o.mem /\ Goto(label)
    BY DEF StoreFile
  <1>3. Shaped(o.mem) /\ (Grants(mem, o, "file") \/ Refuses(mem, o, "file"))
    BY <1>1, MallocAnswers DEF Roles
  <1>4. CASE Refuses(mem, o, "file")
    <2>1. mem' = Abandon(o.mem) /\ pc' = "exit" /\ status' = NO_MEM
      BY <1>2, <1>4 DEF Refuses, ExitWith
    <2>2. mem'.refused = o.mem.refused /\ "file" \in o.mem.refused
      BY <1>3, <1>4, <2>1, AbandonFrees DEF Frees, Refuses
    <2>3. QED
      BY <2>1, <2>2, ReasonNoMem DEF Checked
  <1>5. CASE Grants(mem, o, "file")
    <2>1. pc' = label /\ SameChecked
      BY <1>2, <1>5 DEF Grants, Goto, SameChecked
    <2>2. pc' \notin EndLabels /\ pc' # "crashed"
      BY <2>1 DEF EndLabels
    <2>3. QED
      BY <2>1, <2>2, ReasonGoesOn
  <1>6. QED
    BY <1>3, <1>4, <1>5

\* An option that ends the program with good or bad usage is the one that the status names.
LEMMA EndingOptions ==
  ASSUME ProgramInv, ArgumentsInv, pc = "options", params.pointer <= Len(argv),
         Option(params.pointer) \notin Consumable
  PROVE  \A option : option \notin Consumable => (Has({option}) <=> Option(params.pointer) = option)
  BY OptionFacts, ConsumingEnds

\* One option.
LEMMA ConsumeReason ==
  ASSUME ProgramInv, ReasonInv, ArgumentsInv, ConsumeNextOption
  PROVE  ReasonInv'
  <1> DEFINE option == ParseOptionType(build, At(0))
  <1>1. pc = "options" /\ pc \notin EndLabels /\ build' = build /\ argv' = argv /\ Shaped(mem)
    BY MemShaped DEF ConsumeNextOption, Keep, EndLabels
  <1>2. option = Option(params.pointer) /\ (HasNextArgument => params.pointer <= Len(argv))
    BY <1>1, OptionFacts DEF HasNextArgument
  <1>3. ASSUME pc' \in {"operand", "options"}, mem' = mem
        PROVE  ReasonInv'
    BY <1>1, <1>3, ReasonGoesOn DEF SameChecked, EndLabels
  <1> HIDE DEF option
  <1>4. CASE Goto("operand") /\ UNCHANGED <<mem, config, params>>
    BY <1>3, <1>4 DEF Goto
  <1>5. CASE OptionsEnd(option)
    BY <1>3, <1>5 DEF OptionsEnd, Goto
  <1>6. CASE HasNextArgument /\ OptionInvalid(option)
    <2>1. option = "INVALID" /\ pc' = "exit" /\ status' = BAD_USAGE /\ mem' = mem
      BY <1>6 DEF OptionInvalid, ExitWith
    <2>2. "INVALID" \notin Consumable
      BY DEF Consumable, TakesValue
    <2>3. Has({"INVALID"})
      BY <1>1, <1>2, <1>6, <2>1, <2>2, EndingOptions
    <2>4. QED
      BY <1>1, <2>1, <2>3, ReasonBadUsage DEF SameChecked
  <1>7. CASE HasNextArgument /\ OptionHelp(option)
    <2>1. /\ option \in {"HELP", "VERSION_SHORT", "VERSION_FULL"}
          /\ pc' = "exit" /\ status' = GOOD /\ mem' = Abandon(mem)
      BY <1>7 DEF OptionHelp, ExitWith
    <2>2. option \notin Consumable /\ "INVALID" \notin Consumable /\ option # "INVALID"
      BY <2>1 DEF Consumable, TakesValue
    <2>3. ~Has({"INVALID"})
      BY <1>1, <1>2, <1>7, <2>2, EndingOptions
    <2>4. SameChecked
      BY <1>1, <2>1, AbandonFrees DEF SameChecked, Frees
    <2>5. QED
      BY <1>1, <2>1, <2>3, <2>4, ReasonGood
  <1>8. CASE OptionInputFile(option)
    <2>1. CASE Len(argv) > params.pointer
      BY <1>1, <1>8, <2>1, StoreFileReason DEF OptionInputFile
    <2>2. CASE ~(Len(argv) > params.pointer)
      BY <1>3, <1>8, <2>2 DEF OptionInputFile, Goto
    <2>3. QED
      BY <2>1, <2>2
  <1>9. CASE OptionTestMode(option) \/ OptionInteractive(option)
    BY <1>3, <1>9 DEF OptionTestMode, OptionInteractive, Goto
  <1>10. QED
    BY <1>4, <1>5, <1>6, <1>7, <1>8, <1>9 DEF ConsumeNextOption, option

\* The operand, and the end of the set-up.
LEMMA OperandReason ==
  ASSUME ProgramInv, ReasonInv, Operand \/ Configured
  PROVE  ReasonInv'
  <1>1. pc \notin EndLabels /\ Shaped(mem)
    BY MemShaped DEF Operand, Configured, EndLabels
  <1>2. CASE Operand
    <2>1. CASE StoreFile(At(0), "configured", 1)
      BY <1>1, <2>1, StoreFileReason
    <2>2. CASE Goto("configured") /\ UNCHANGED <<mem, config, params>>
      BY <1>1, <2>2, ReasonGoesOn DEF Goto, SameChecked, EndLabels
    <2>3. QED
      BY <1>2, <2>1, <2>2 DEF Operand
  <1>3. CASE Configured
    <2>1. mem' = Free(mem, params.block) /\ pc' = "run"
      BY <1>3 DEF Configured, Goto
    <2>2. SameChecked
      BY <1>1, <2>1, FreeFrees DEF SameChecked, Frees
    <2>3. QED
      BY <1>1, <2>1, <2>2, ReasonGoesOn DEF EndLabels
  <1>4. QED
    BY <1>2, <1>3

\* Nothing checked has been refused on the way from m to n.
Same(m, n) == Shaped(n) /\ n.refused \cap Checked = m.refused \cap Checked

\* The other allocations of the drivers; these are not checked either.
Given == {"reader", "path", "temp", "stream"}

\* An allocation that is not checked.
LEMMA MallocSame ==
  ASSUME NEW m, Shaped(m), NEW role \in Unchecked \cup Given, NEW o \in Malloc(m, role)
  PROVE  Same(m, o.mem)
  <1>1. role \in Roles /\ role \notin Checked
    BY DEF Unchecked, Given, Roles, Checked
  <1>2. Shaped(o.mem) /\ (Grants(m, o, role) \/ Refuses(m, o, role))
    BY <1>1, MallocAnswers
  <1>3. o.mem.refused = m.refused \/ o.mem.refused = m.refused \cup {role}
    BY <1>2 DEF Grants, Refuses
  <1>4. QED
    BY <1>1, <1>2, <1>3 DEF Same

\* A use or a free.
LEMMA FreesSame ==
  ASSUME NEW m, NEW n, Frees(m, n)
  PROVE  Same(m, n)
  BY DEF Frees, Same

\* os_path_normalize
LEMMA NormalizedSame ==
  ASSUME NEW m, Shaped(m), NEW o \in Normalized(m)
  PROVE  Same(m, o.mem)
  <1>1. PICK t \in Malloc(m, "temp") : o \in IF t.pointer = NULL THEN {t} ELSE Malloc(t.mem, "path")
    BY DEF Normalized
  <1>2. Same(m, t.mem)
    BY <1>1, MallocSame DEF Given
  <1>3. CASE o = t
    BY <1>2, <1>3
  <1>4. CASE o \in Malloc(t.mem, "path")
    <2>1. Same(t.mem, o.mem)
      BY <1>2, <1>4, MallocSame DEF Given, Same
    <2>2. QED
      BY <1>2, <2>1 DEF Same
  <1>5. QED
    BY <1>1, <1>3, <1>4

\* A step of a driver to another place of it.
LEMMA DriverGoesOn ==
  ASSUME ReasonInv, pc \in RunLabels, pc' \in RunLabels \ {"crashed"}, Same(mem, mem')
  PROVE  ReasonInv'
  <1>1. pc \notin EndLabels /\ pc' \notin EndLabels
    BY DEF RunLabels, EndLabels, OpenLabels, TokenLabels, HeldLabels
  <1>2. QED
    BY <1>1, ReasonGoesOn DEF Same, SameChecked

\* The driver is chosen, and its reader made.  The global state is never missed.
LEMMA ReaderReason ==
  ASSUME ProgramInv, ReasonInv, RunTest \/ ReaderNew
  PROVE  ReasonInv'
  <1>1. pc \in RunLabels /\ Shaped(mem)
    BY MemShaped DEF RunTest, ReaderNew, RunLabels
  <1>2. CASE RunTest
    <2>1. gstate.block # NULL
      BY <1>1, RunningState
    <2>2. pc' \in {"teardown", "reader_new"} /\ (mem' = mem \/ mem' = Touch(mem, gstate.cli))
      BY <1>2, <2>1 DEF RunTest, DriverReturns, Goto
    <2>3. Same(mem, mem')
      BY <1>1, <2>2, TouchFrees, FreesSame DEF Same
    <2>4. QED
      BY <1>1, <2>2, <2>3, DriverGoesOn DEF RunLabels
  <1>3. CASE ReaderNew
    <2>1. pc' \in {"teardown", "open"} /\ \E o \in Malloc(mem, "reader") : mem' = o.mem
      BY <1>3 DEF ReaderNew, DriverReturns, Goto
    <2>2. Same(mem, mem')
      BY <1>1, <2>1, MallocSame DEF Given
    <2>3. QED
      BY <1>1, <2>1, <2>2, DriverGoesOn DEF RunLabels
  <1>4. QED
    BY <1>2, <1>3

\* The file is opened.
LEMMA OpenReason ==
  ASSUME ProgramInv, ReasonInv, OpenPath \/ OpenChecks \/ OpenFile
  PROVE  ReasonInv'
  <1>1. pc \in RunLabels /\ Shaped(mem)
    BY MemShaped DEF OpenPath, OpenChecks, OpenFile, RunLabels, OpenLabels
  <1>2. pc' \in {"teardown", "open_exists", "open_is_file", "fopen", "scanner_new"}
    BY DEF OpenPath, OpenChecks, OpenFile, DriverReturns, Goto
  <1>3. Same(mem, mem')
    <2>1. CASE OpenPath
      <3>1. \E o \in Normalized(Touch(mem, config.file)) : mem' = o.mem
        BY <2>1 DEF OpenPath
      <3>2. Frees(mem, Touch(mem, config.file))
        BY <1>1, TouchFrees
      <3>3. QED
        BY <3>1, <3>2, NormalizedSame, FreesSame DEF Same
    <2>2. CASE OpenChecks
      <3>1. PICK o \in Normalized(Touch(mem, driver.path)) : mem' = Free(o.mem, o.pointer)
        BY <2>2 DEF OpenChecks
      <3>2. Same(mem, Touch(mem, driver.path))
        BY <1>1, TouchFrees, FreesSame
      <3>3. Same(Touch(mem, driver.path), o.mem)
        BY <3>2, NormalizedSame DEF Same
      <3>4. Same(o.mem, mem')
        BY <3>1, <3>3, FreeFrees, FreesSame DEF Same
      <3>5. QED
        BY <3>2, <3>3, <3>4 DEF Same
    <2>3. CASE OpenFile
      <3>1. \E o \in Malloc(Touch(mem, driver.path), "stream") : mem' = o.mem
        BY <2>3 DEF OpenFile
      <3>2. Same(mem, Touch(mem, driver.path))
        BY <1>1, TouchFrees, FreesSame
      <3>3. QED
        BY <3>1, <3>2, MallocSame DEF Same, Given
    <2>4. QED
      BY <2>1, <2>2, <2>3
  <1>4. QED
    BY <1>1, <1>2, <1>3, DriverGoesOn DEF RunLabels, OpenLabels

\* scanner_new is refused quietly, or the program crashes for it.
LEMMA ScannerReason ==
  ASSUME ProgramInv, ReasonInv, ScannerNew
  PROVE  ReasonInv'
  <1>1. pc = "scanner_new" /\ pc \in RunLabels /\ pc \notin EndLabels /\ Shaped(mem)
    BY MemShaped DEF ScannerNew, RunLabels, EndLabels
  <1>2. PICK s \in Malloc(mem, "scanner") :
          \E t \in (IF s.pointer = NULL THEN {s} ELSE Malloc(s.mem, "tokens")) :
            \/ /\ t.pointer = NULL
               /\ mem' = Free(t.mem, s.pointer)
               /\ pc' \in {"crashed", "teardown"}
            \/ mem' = t.mem /\ pc' \in {"scan", "parser_new"}
    BY DEF ScannerNew, ReadToken, Goto, DriverReturns
  <1>3. PICK t \in (IF s.pointer = NULL THEN {s} ELSE Malloc(s.mem, "tokens")) :
          \/ /\ t.pointer = NULL
             /\ mem' = Free(t.mem, s.pointer)
             /\ pc' \in {"crashed", "teardown"}
          \/ mem' = t.mem /\ pc' \in {"scan", "parser_new"}
    BY <1>2
  <1>4. Same(mem, s.mem) /\ (Grants(mem, s, "scanner") \/ Refuses(mem, s, "scanner"))
    BY <1>1, <1>2, MallocSame, MallocAnswers DEF Unchecked, Roles
  <1>5. /\ Same(mem, t.mem)
        /\ t.pointer = NULL => t.mem.refused \cap Unchecked # {}
    <2>1. CASE s.pointer = NULL
      <3>1. t = s /\ s.mem.refused = mem.refused \cup {"scanner"}
        BY <1>3, <1>4, <2>1 DEF Grants, Refuses
      <3>2. QED
        BY <1>4, <3>1 DEF Unchecked
    <2>2. CASE s.pointer # NULL
      <3>1. t \in Malloc(s.mem, "tokens") /\ Shaped(s.mem)
        BY <1>3, <1>4, <2>2 DEF Same
      <3>2. Same(s.mem, t.mem) /\ (Grants(s.mem, t, "tokens") \/ Refuses(s.mem, t, "tokens"))
        BY <3>1, MallocSame, MallocAnswers DEF Unchecked, Roles
      <3>3. t.pointer = NULL => "tokens" \in t.mem.refused
        BY <3>2 DEF Grants, Refuses
      <3>4. QED
        BY <1>4, <3>2, <3>3 DEF Same, Unchecked
    <2>3. QED
      BY <2>1, <2>2
  <1>6. Frees(t.mem, Free(t.mem, s.pointer))
    BY <1>5, FreeFrees DEF Same
  <1>7. Same(mem, mem')
    BY <1>3, <1>5, <1>6 DEF Same, Frees
  <1>8. CASE pc' = "crashed"
    <2>1. mem'.refused \cap Unchecked # {}
      BY <1>3, <1>5, <1>6, <1>8 DEF Frees
    <2>2. mem'.refused \cap Checked = {}
      BY <1>1, <1>7 DEF Same, ReasonInv
    <2>3. QED
      BY <1>8, <2>1, <2>2 DEF ReasonInv, EndLabels
  <1>9. CASE pc' # "crashed"
    BY <1>1, <1>3, <1>7, <1>9, DriverGoesOn DEF RunLabels, TokenLabels
  <1>10. QED
    BY <1>8, <1>9

\* A token is found, and the buffer of a number made for it.
LEMMA ScanReason ==
  ASSUME ProgramInv, ReasonInv, Scan \/ ScanNumber
  PROVE  ReasonInv'
  <1>1. pc \in RunLabels /\ pc \notin EndLabels /\ Shaped(mem)
    BY MemShaped DEF Scan, ScanNumber, RunLabels, TokenLabels, EndLabels
  <1>2. CASE Scan
    <2>1. pc' = "token_new" /\ mem' = mem
      BY <1>2 DEF Scan, Goto
    <2>2. Same(mem, mem')
      BY <1>1, <2>1 DEF Same
    <2>3. QED
      BY <1>1, <2>1, <2>2, DriverGoesOn DEF RunLabels, TokenLabels
  <1>3. CASE ScanNumber
    <2>1. PICK o \in Malloc(mem, "number") :
            \/ o.pointer = NULL /\ mem' = o.mem /\ ExitWith(NO_MEM)
            \/ /\ o.pointer # NULL
               /\ mem' \in {o.mem, Free(o.mem, o.pointer)}
               /\ pc' \in {"token_new", "crashed"}
      BY <1>3 DEF ScanNumber, Goto
    <2>2. Shaped(o.mem) /\ (Grants(mem, o, "number") \/ Refuses(mem, o, "number"))
      BY <1>1, <2>1, MallocAnswers DEF Roles
    <2>3. CASE Refuses(mem, o, "number")
      BY <2>1, <2>3, ReasonNoMem DEF Refuses, ExitWith, Checked
    <2>4. CASE Grants(mem, o, "number")
      <3>1. mem' \in {o.mem, Free(o.mem, o.pointer)} /\ pc' \in {"token_new", "crashed"}
        BY <2>1, <2>4 DEF Grants
      <3>2. pc' = "token_new" \/ (pc' = "crashed" /\ overrun')
        BY <1>3, <3>1, OverrunNoted
      <3>3. Shaped(o.mem) /\ o.mem.refused = mem.refused
        BY <2>2, <2>4 DEF Grants
      <3>4. Frees(o.mem, Free(o.mem, o.pointer))
        BY <3>3, FreeFrees
      <3>5. Same(mem, mem')
        BY <3>1, <3>3, <3>4 DEF Frees, Same
      <3>6. CASE pc' = "token_new"
        BY <1>1, <3>5, <3>6, DriverGoesOn DEF RunLabels, TokenLabels
      <3>7. CASE pc' = "crashed" /\ overrun'
        BY <1>1, <3>5, <3>7 DEF Same, ReasonInv, EndLabels
      <3>8. QED
        BY <3>2, <3>6, <3>7
    <2>5. QED
      BY <2>2, <2>3, <2>4
  <1>4. QED
    BY <1>2, <1>3

\* A token is made and its text copied.
LEMMA TokenReason ==
  ASSUME ProgramInv, ReasonInv, TokenNew \/ TokenContent
  PROVE  ReasonInv'
  <1>1. pc \in RunLabels /\ Shaped(mem)
    BY MemShaped DEF TokenNew, TokenContent, RunLabels, TokenLabels
  <1>2. CASE TokenNew
    <2>1. PICK o \in Malloc(mem, "shell") :
            /\ mem' = o.mem
            /\ IF o.pointer = NULL THEN ExitWith(NO_MEM)
               ELSE Goto(IF NextType = "EOS" THEN "token_add" ELSE "token_content")
      BY <1>2 DEF TokenNew
    <2>2. Shaped(mem') /\ (Grants(mem, o, "shell") \/ Refuses(mem, o, "shell"))
      BY <1>1, <2>1, MallocAnswers DEF Roles
    <2>3. CASE Refuses(mem, o, "shell")
      BY <2>1, <2>3, ReasonNoMem DEF Refuses, ExitWith, Checked
    <2>4. CASE Grants(mem, o, "shell")
      <3>1. pc' \in {"token_add", "token_content"} /\ Same(mem, mem')
        BY <2>1, <2>2, <2>4 DEF Grants, Goto, Same
      <3>2. QED
        BY <1>1, <3>1, DriverGoesOn DEF RunLabels, TokenLabels
    <2>5. QED
      BY <2>2, <2>3, <2>4
  <1>3. CASE TokenContent
    <2>1. PICK o \in Malloc(mem, "content") :
            IF o.pointer = NULL THEN mem' = Free(o.mem, token.shell) /\ ExitWith(NO_MEM)
            ELSE mem' = Free(o.mem, buffer) /\ Goto("token_add")
      BY <1>3 DEF TokenContent, BufferFreed
    <2>2. Shaped(o.mem) /\ (Grants(mem, o, "content") \/ Refuses(mem, o, "content"))
      BY <1>1, <2>1, MallocAnswers DEF Roles
    <2>3. CASE Refuses(mem, o, "content")
      <3>1. mem' = Free(o.mem, token.shell) /\ pc' = "exit" /\ status' = NO_MEM
        BY <2>1, <2>3 DEF Refuses, ExitWith
      <3>2. mem'.refused = o.mem.refused /\ "content" \in o.mem.refused
        BY <2>2, <2>3, <3>1, FreeFrees DEF Frees, Refuses
      <3>3. QED
        BY <3>1, <3>2, ReasonNoMem DEF Checked
    <2>4. CASE Grants(mem, o, "content")
      <3>1. pc' = "token_add" /\ mem' = Free(o.mem, buffer) /\ o.mem.refused = mem.refused
        BY <2>1, <2>4 DEF Grants, Goto
      <3>2. Same(mem, mem')
        BY <2>2, <3>1, FreeFrees DEF Frees, Same
      <3>3. QED
        BY <1>1, <3>1, <3>2, DriverGoesOn DEF RunLabels, TokenLabels
    <2>5. QED
      BY <2>2, <2>3, <2>4
  <1>4. QED
    BY <1>2, <1>3

\* The token is added to the array, which may have to grow.
LEMMA AddReason ==
  ASSUME ProgramInv, ReasonInv, ArrTokenAdd
  PROVE  ReasonInv'
  <1>1. pc = "token_add" /\ pc \in RunLabels /\ Shaped(mem)
    BY MemShaped DEF ArrTokenAdd, RunLabels, TokenLabels
  <1>2. caller \in RunLabels \ {"crashed"}
    BY <1>1 DEF ProgramInv, Relied, TokenLabels, RunLabels, HeldLabels
  <1>3. \A m : Shaped(m) => \A t : Frees(m, Returned(Written(m, t)))
    BY TouchFrees DEF Returned, Written
  <1>4. CASE ~Full(tokens)
    <2>1. mem' = Returned(Written(mem, tokens)) /\ pc' = caller
      BY <1>4 DEF ArrTokenAdd, Goto
    <2>2. Same(mem, mem')
      BY <1>1, <1>3, <2>1, FreesSame
    <2>3. QED
      BY <1>1, <1>2, <2>1, <2>2, DriverGoesOn
  <1>5. CASE Full(tokens)
    <2>1. PICK o \in Realloc(mem, tokens.values, "values") :
            IF o.pointer = NULL THEN mem' = o.mem /\ ExitWith(NO_MEM)
            ELSE mem' = Returned(Written(o.mem, Grown(tokens, o.pointer))) /\ Goto(caller)
      BY <1>5 DEF ArrTokenAdd
    <2>2. /\ Shaped(o.mem)
          /\ Refuses(mem, o, "values") \/ (o.pointer # NULL /\ o.mem.refused = mem.refused)
      BY <1>1, <2>1, ReallocAnswers DEF Roles
    <2>3. CASE Refuses(mem, o, "values")
      BY <2>1, <2>3, ReasonNoMem DEF Refuses, ExitWith, Checked
    <2>4. CASE o.pointer # NULL /\ o.mem.refused = mem.refused
      <3>1. pc' = caller /\ Frees(o.mem, mem')
        BY <1>3, <2>1, <2>2, <2>4 DEF Goto
      <3>2. Same(mem, mem')
        BY <2>4, <3>1 DEF Frees, Same
      <3>3. QED
        BY <1>1, <1>2, <3>1, <3>2, DriverGoesOn
    <2>5. QED
      BY <2>2, <2>3, <2>4
  <1>6. QED
    BY <1>4, <1>5

\* The held token is read, whether its text is there or not.
LEMMA HeldFrees ==
  ASSUME ProgramInv
  PROVE  Frees(mem, HeldTouched(mem))
  <1>1. Frees(mem, Touch(mem, token.shell))
    BY MemShaped, TouchFrees
  <1>2. Frees(Touch(mem, token.shell), Touch(Touch(mem, token.shell), token.content))
    BY <1>1, TouchFrees DEF Frees
  <1>3. QED
    BY <1>1, <1>2 DEF HeldTouched, Frees

\* test_scanner, and what the parser allocates.
LEMMA ParserReason ==
  ASSUME ProgramInv, ReasonInv, TestScanner \/ ParserNew \/ ParserParse \/ Parsing
  PROVE  ReasonInv'
  <1>1. pc \in RunLabels /\ Shaped(mem) /\ Same(mem, HeldTouched(mem)) /\ Shaped(HeldTouched(mem))
    BY MemShaped, HeldFrees, FreesSame
       DEF TestScanner, ParserNew, ParserParse, Parsing, RunLabels, HeldLabels, Frees
  <1>2. CASE TestScanner
    <2>1. mem' = HeldTouched(mem) /\ pc' \in {"teardown", "scan"}
      BY <1>2 DEF TestScanner, DriverReturns, Goto, ReadToken
    <2>2. QED
      BY <1>1, <2>1, DriverGoesOn DEF RunLabels, TokenLabels
  <1>3. ASSUME NEW role \in {"parser", "tree"}, NEW o \in Malloc(mem, role), mem' = o.mem,
               NEW label \in {"scan", "parsing"},
               IF o.pointer = NULL THEN ExitWith(NO_MEM) ELSE pc' = label
        PROVE  ReasonInv'
    <2>1. role \in Roles /\ role \in Checked
      BY <1>3 DEF Roles, Checked
    <2>2. Shaped(mem') /\ (Grants(mem, o, role) \/ Refuses(mem, o, role))
      BY <1>1, <1>3, <2>1, MallocAnswers
    <2>3. CASE Refuses(mem, o, role)
      BY <1>3, <2>1, <2>3, ReasonNoMem DEF Refuses, ExitWith
    <2>4. CASE Grants(mem, o, role)
      <3>1. pc' = label /\ Same(mem, mem')
        BY <1>3, <2>2, <2>4 DEF Grants, Same
      <3>2. QED
        BY <1>1, <1>3, <3>1, DriverGoesOn DEF RunLabels, TokenLabels, HeldLabels
    <2>5. QED
      BY <2>2, <2>3, <2>4
  <1>4. CASE ParserNew
    <2>1. \E o \in Malloc(mem, "parser") :
            mem' = o.mem /\ IF o.pointer = NULL THEN ExitWith(NO_MEM) ELSE pc' = "scan"
      BY <1>4 DEF ParserNew, ReadToken
    <2>2. QED
      BY <1>3, <2>1
  <1>5. CASE ParserParse
    <2>1. \E o \in Malloc(mem, "tree") :
            mem' = o.mem /\ IF o.pointer = NULL THEN ExitWith(NO_MEM) ELSE pc' = "parsing"
      BY <1>5 DEF ParserParse, Goto
    <2>2. QED
      BY <1>3, <2>1
  <1>6. CASE Parsing
    <2>1. \/ mem' = RefusedTo(HeldTouched(mem), "tree").mem /\ pc' = "exit" /\ status' = NO_MEM
          \/ mem' = HeldTouched(mem) /\ pc' \in {"scan", "parsed"}
      BY <1>6 DEF Parsing, ExitWith, ReadToken, Goto
    <2>2. "tree" \in RefusedTo(HeldTouched(mem), "tree").mem.refused
      BY <1>1, RefusedRefuses DEF Refuses
    <2>3. CASE mem' = RefusedTo(HeldTouched(mem), "tree").mem /\ pc' = "exit" /\ status' = NO_MEM
      BY <2>2, <2>3, ReasonNoMem DEF Checked
    <2>4. CASE mem' = HeldTouched(mem) /\ pc' \in {"scan", "parsed"}
      BY <1>1, <2>4, DriverGoesOn DEF RunLabels, TokenLabels, HeldLabels
    <2>5. QED
      BY <2>1, <2>3, <2>4
  <1>7. QED
    BY <1>2, <1>4, <1>5, <1>6

\* The tokens are destroyed.
LEMMA DestroyFrees ==
  ASSUME NEW m, Shaped(m)
  PROVE  Frees(m, ArrTokenDestroy(m))
  <1> DEFINE contents == [i \in 1 .. tokens.count |-> tokens.elements[i].content]
             emptied == FreeEach(Touch(m, tokens.values), contents)
             freed == IF tokens.values = NULL THEN m ELSE Free(emptied, tokens.values)
  <1>1. Frees(m, Touch(m, tokens.values))
    BY TouchFrees
  <1>2. Frees(Touch(m, tokens.values), emptied)
    BY <1>1, FreeEachFrees DEF Frees
  <1>3. Frees(emptied, Free(emptied, tokens.values))
    BY <1>2, FreeFrees DEF Frees
  <1>4. Frees(m, m)
    BY DEF Frees
  <1>5. ArrTokenDestroy(m) = IF tokens.block = NULL THEN m ELSE Free(freed, tokens.block)
    BY DEF ArrTokenDestroy
  <1> HIDE DEF emptied
  <1>6. Frees(m, freed)
    BY <1>1, <1>2, <1>3, <1>4 DEF Frees
  <1> HIDE DEF freed
  <1>7. Frees(freed, Free(freed, tokens.block))
    BY <1>6, FreeFrees DEF Frees
  <1>8. QED
    BY <1>4, <1>5, <1>6, <1>7 DEF Frees

\* parser_destroy
LEMMA ParserDestroyReason ==
  ASSUME ProgramInv, ReasonInv, ParserDestroy
  PROVE  ReasonInv'
  <1>1. pc \in RunLabels /\ Shaped(mem) /\ pc' = "teardown"
    BY MemShaped DEF ParserDestroy, RunLabels, HeldLabels, DriverReturns, Goto
  <1> DEFINE a == Touch(mem, driver.tree)
             b == Free(a, driver.stream)
             c == Free(b, driver.path)
             d == Free(c, driver.reader)
             e == ArrTokenDestroy(d)
             f == Free(e, driver.scanner)
             g == Free(f, driver.tree)
  <1>2. mem' = Free(g, driver.parser)
    BY DEF ParserDestroy, ScannerDestroy, ReaderDestroy
  <1>3. Frees(mem, a)
    BY <1>1, TouchFrees
  <1>4. \A m, block : Shaped(m) => Frees(m, Free(m, block))
    BY FreeFrees
  <1> HIDE DEF a
  <1>5. Frees(a, b)
    BY <1>3, <1>4 DEF Frees
  <1> HIDE DEF b
  <1>6. Frees(b, c)
    BY <1>4, <1>5 DEF Frees
  <1> HIDE DEF c
  <1>7. Frees(c, d)
    BY <1>4, <1>6 DEF Frees
  <1> HIDE DEF d
  <1>8. Frees(d, e)
    BY <1>7, DestroyFrees DEF Frees
  <1> HIDE DEF e
  <1>9. Frees(e, f)
    BY <1>4, <1>8 DEF Frees
  <1> HIDE DEF f
  <1>10. Frees(f, g)
    BY <1>4, <1>9 DEF Frees
  <1> HIDE DEF g
  <1>11. Frees(g, mem')
    BY <1>2, <1>4, <1>10 DEF Frees
  <1>12. Frees(mem, mem')
    BY <1>3, <1>5, <1>6, <1>7, <1>8, <1>9, <1>10, <1>11 DEF Frees
  <1>13. QED
    BY <1>1, <1>12, FreesSame, DriverGoesOn DEF RunLabels

\* The teardown, before the exit and in it.
LEMMA TeardownReason ==
  ASSUME ProgramInv, ReasonInv, ArgumentsInv,
         \/ MainTeardown /\ ProcessOnly
         \/ TulaExit /\ ProcessOnly
  PROVE  ReasonInv'
  <1>1. Shaped(mem) /\ build' = build /\ argv' = argv
    BY MemShaped DEF ProcessOnly, cliVars
  <1>2. Frees(mem, mem')
    <2>1. \A m, block : Shaped(m) => Frees(m, Free(m, block))
      BY FreeFrees
    <2>2. \A m : Shaped(m) => Frees(m, m)
      BY DEF Frees
    <2>3. Frees(mem, Free(mem, config.file))
      BY <1>1, <2>1
    <2>4. Frees(Free(mem, config.file), Free(Free(mem, config.file), gstate.cli))
      BY <2>1, <2>3 DEF Frees
    <2>5. Frees(mem, CliDestroy(mem, gstate.cli))
      BY <1>1, <2>2, <2>3, <2>4 DEF CliDestroy, Frees
    <2>6. Frees(CliDestroy(mem, gstate.cli), Free(CliDestroy(mem, gstate.cli), gstate.block))
      BY <2>1, <2>5 DEF Frees
    <2>7. mem' = IF gstate.block = NULL THEN mem
                 ELSE Free(CliDestroy(mem, gstate.cli), gstate.block)
      BY DEF MainTeardown, TulaExit, TeardownGlobalState
    <2>8. QED
      BY <1>1, <2>2, <2>5, <2>6, <2>7 DEF Frees
  <1>3. SameChecked
    BY <1>2 DEF Frees, SameChecked
  <1>4. CASE MainTeardown
    <2>1. pc = "teardown" /\ pc' = "exit" /\ status' = GOOD
      BY <1>4 DEF MainTeardown, ExitWith
    <2>2. pc \in RunLabels /\ pc \notin EndLabels /\ ~Has({"INVALID"})
      BY <2>1 DEF ArgumentsInv, RunLabels, EndLabels
    <2>3. QED
      BY <1>1, <1>3, <2>1, <2>2, ReasonGood
  <1>5. CASE TulaExit
    <2>1. pc = "exit" /\ pc' = "exited" /\ status' = status
      BY <1>5 DEF TulaExit
    <2>2. Reason
      BY <2>1 DEF ReasonInv, EndLabels
    <2>3. Has({"INVALID"})' <=> Has({"INVALID"})
      BY <1>1, ArgumentsStay
    <2>4. Reason'
      BY <1>3, <2>1, <2>2, <2>3 DEF Reason, SameChecked
    <2>5. QED
      BY <2>1, <2>4 DEF ReasonInv, EndLabels
  <1>6. QED
    BY <1>4, <1>5

\* At every step.
LEMMA ReasonStep ==
  ASSUME ProgramInv, ReasonInv, ArgumentsInv, [ProgramNext]_programVars
  PROVE  ReasonInv'
  <1>1. CASE UNCHANGED programVars
    <2>1. UNCHANGED <<pc, status, mem, build, argv, overrun>>
      BY <1>1 DEF programVars, processVars, cliVars, tokenVars
    <2>2. Has({"INVALID"})' <=> Has({"INVALID"})
      BY <2>1, ArgumentsStay
    <2>3. Reason' <=> Reason
      BY <2>1, <2>2 DEF Reason
    <2>4. QED
      BY <2>1, <2>3 DEF ReasonInv
  <1>2. CASE \/ SetupGlobalState \/ ParseArgs \/ NewParams \/ NewConfig
             \/ ConsumeNextOption \/ Operand \/ Configured
    BY <1>2, SetupReason, CliReason, ConsumeReason, OperandReason
  <1>3. CASE RunTest \/ ReaderNew \/ OpenPath \/ OpenChecks \/ OpenFile \/ ScannerNew
    BY <1>3, ReaderReason, OpenReason, ScannerReason
  <1>4. CASE Scan \/ ScanNumber \/ TokenNew \/ TokenContent \/ ArrTokenAdd
    BY <1>4, ScanReason, TokenReason, AddReason
  <1>5. CASE TestScanner \/ ParserNew \/ ParserParse \/ Parsing \/ ParserDestroy
    BY <1>5, ParserReason, ParserDestroyReason
  <1>6. CASE \/ MainTeardown /\ ProcessOnly
             \/ TulaExit /\ ProcessOnly
    BY <1>6, TeardownReason
  <1>7. QED
    BY <1>1, <1>2, <1>3, <1>4, <1>5, <1>6 DEF ProgramNext

\* It holds at first.
LEMMA ReasonBegin ==
  ASSUME ProgramInit
  PROVE  ReasonInv
  BY DEF ProgramInit, ProcessInit, EmptyHeap, ReasonInv, EndLabels

\* The exit status tells why the program ended (the exit helpers of exit.c and their
\* callers): whatever else was refused before, whatever the options say, and whatever
\* numbers the scanner makes room for.
THEOREM StatusTellsReasonHolds == ProgramSpec => []StatusTellsReason
  <1>1. ReasonInv => StatusTellsReason
    BY DEF ReasonInv, Reason, StatusTellsReason, EndLabels, Checked, Unchecked
  <1>2. QED
    BY <1>1, ReasonBegin, ReasonStep, ArgumentsBegin, ArgumentsStep, Invariance, PTL DEF ProgramSpec

(***************************************************************************)
(* What is left behind                                                     *)
(***************************************************************************)

\* Left by design: the structs of the tokens, and the working copies of the paths.
Scraps == {"shell", "temp"}

\* Neither the driver nor the array holds anything.
Idle ==
  /\ driver = NoDriver
  /\ tokens.block = NULL /\ tokens.values = NULL /\ tokens.count = 0

\* The blocks that something points to; a text on its way into the array is one, and so is
\* the buffer of a number.
ProcessOwns == {gstate.block, config.block, config.file, params.block}
DriverOwns ==
  {driver.reader, driver.path, driver.stream, driver.scanner, driver.parser, driver.tree}
TokensOwn == {tokens.block, tokens.values} \cup Contents
TokenOwns == {buffer} \cup (IF pc = "token_add" THEN {token.content} ELSE {})
Owners == ProcessOwns \cup DriverOwns \cup TokensOwn \cup TokenOwns

\* Every live block has its owner, or is a scrap.
Attached == \A block \in mem.live : block \in Owners \/ block[1] \in Scraps

\* The buffer of a number is there until its token has the text.
Handed ==
  buffer # NULL =>
    \/ pc \in EndLabels \cup {"crashed", "token_content"}
    \/ pc = "token_new" /\ NextType # "EOS"

\* Whom the token under way goes to.
Reader == IF pc \in TokenLabels THEN caller ELSE pc

Begun == {"main", "run", "reader_new"} \cup SetupLabels
Opening == {"open"} \cup OpenLabels
Unscanned == Opening \cup {"scanner_new"}
Unparsed == Unscanned \cup {"parser_new"}

\* The pointers that are not set yet, or no longer; a pointer set twice loses a block.
Unset ==
  /\ config.file # NULL => mem.made["file"] # 0
  /\ pc \in {"main", "cli", "new_params"} \cup RunLabels => params.block = NULL
  /\ pc \in {"main", "cli", "new_params", "new_config"} => config.block = NULL /\ config.file = NULL
  /\ pc \in Begun => Idle /\ mem.made["reader"] = 0 /\ mem.made["parser"] = 0
  /\ pc = "open" => driver.path = NULL
  /\ pc \in Opening => driver.stream = NULL
  /\ pc \in Unscanned =>
       driver.scanner = NULL /\ tokens.block = NULL /\ tokens.values = NULL /\ tokens.count = 0
  /\ pc \in Unparsed => driver.parser = NULL
  /\ pc \in Unparsed \/ Reader = "parse" => driver.tree = NULL
  /\ pc \in Unparsed \/ Reader \in {"print_first", "print"} =>
       mem.made["reader"] # 0 /\ mem.made["parser"] = 0
  /\ pc = "teardown" => Idle \/ (mem.made["reader"] # 0 /\ mem.made["parser"] = 0)

\* All goes well, and no name of a file is lost.
Smooth == mem.refused = {} /\ mem.made["file"] <= 1

\* The condition of NothingKept, but for the place.
Praised ==
  /\ status = GOOD /\ mem.refused = {}
  /\ mem.made["reader"] = 0 \/ mem.made["parser"] = 1
  /\ mem.made["file"] <= IF Has({"HELP", "VERSION_SHORT", "VERSION_FULL"}) THEN 0 ELSE 1

\* At the end only the global state is left to be freed.
Left == \A block \in mem.live : block[1] \in Scraps \/ (pc = "exit" /\ block = gstate.block)

\* The invariant of what is kept.
KeptInv ==
  /\ pc \notin EndLabels \cup {"crashed"} /\ Smooth => Attached /\ Unset
  /\ pc \in EndLabels /\ Praised => Left

\* A refusal ends it.
LEMMA KeptRefused ==
  ASSUME mem'.refused # {}
  PROVE  KeptInv'
  BY DEF KeptInv, Smooth, Praised

\* The program goes on.
LEMMA KeptGoes ==
  ASSUME pc' \notin EndLabels, Smooth' => Attached' /\ Unset'
  PROVE  KeptInv'
  BY DEF KeptInv

\* The program ends badly.
LEMMA KeptBad ==
  ASSUME pc' \in EndLabels, status' # GOOD
  PROVE  KeptInv'
  BY DEF KeptInv, Praised

\* The program ends.
LEMMA KeptEnds ==
  ASSUME pc' \in EndLabels, Praised' => Left'
  PROVE  KeptInv'
  BY DEF KeptInv

\* A heap with its counts.
Counted(m) == Shaped(m) /\ m.made \in [Roles -> Nat]

\* n has one block more than m, and nothing has been refused.
Adds(m, n, block, role) ==
  /\ Counted(n)
  /\ m.refused = {} /\ n.refused = {}
  /\ block # NULL /\ block[1] = role
  /\ n.live = m.live \cup {block}
  /\ n.made[role] = m.made[role] + 1
  /\ \A other \in Roles \ {role} : n.made[other] = m.made[other]

\* malloc, when it does not refuse.
LEMMA MallocAdds ==
  ASSUME NEW m, Counted(m), NEW role \in Roles, NEW o \in Malloc(m, role), o.mem.refused = {}
  PROVE  Adds(m, o.mem, o.pointer, role)
  <1>1. Shaped(o.mem) /\ (Grants(m, o, role) \/ Refuses(m, o, role))
    BY MallocAnswers DEF Counted
  <1>2. Grants(m, o, role)
    BY <1>1 DEF Refuses
  <1>3. o.mem.made = [m.made EXCEPT ![role] = @ + 1]
    BY <1>2 DEF Grants
  <1>4. m.made[role] \in Nat /\ m.made[role] + 1 \in Nat
    BY DEF Counted
  <1>5. o.mem.made \in [Roles -> Nat] /\ o.mem.made[role] = m.made[role] + 1
    BY <1>3, <1>4 DEF Counted
  <1>6. \A other \in Roles \ {role} : o.mem.made[other] = m.made[other]
    BY <1>3 DEF Counted
  <1>7. QED
    BY <1>1, <1>2, <1>5, <1>6 DEF Grants, Adds, Counted

\* A free of a counted heap.
LEMMA FreesCounted ==
  ASSUME NEW m, NEW n, Counted(m), Frees(m, n)
  PROVE  Counted(n)
  BY DEF Counted, Frees

\* What went well has gone well before.
LEMMA SmoothBefore ==
  ASSUME Counted(mem), Smooth',
         \/ Frees(mem, mem')
         \/ \E block, role : role \in Roles /\ Adds(mem, mem', block, role)
  PROVE  Smooth
  <1>1. "file" \in Roles /\ mem.made["file"] \in Nat
    BY DEF Counted, Roles
  <1>2. CASE Frees(mem, mem')
    BY <1>2 DEF Frees, Smooth
  <1>3. CASE \E block, role : role \in Roles /\ Adds(mem, mem', block, role)
    <2>1. PICK block, role : role \in Roles /\ Adds(mem, mem', block, role)
      BY <1>3
    <2>2. mem'.made["file"] = mem.made["file"] \/ mem'.made["file"] = mem.made["file"] + 1
      BY <1>1, <2>1 DEF Adds
    <2>3. QED
      BY <1>1, <2>1, <2>2 DEF Smooth, Adds
  <1>4. QED
    BY <1>2, <1>3

\* The heap of the program is one.
LEMMA MemCounted ==
  ASSUME ProgramInv
  PROVE  Counted(mem) /\ NULL \notin mem.live
  BY MemShaped, NullIsNoBlock DEF ProgramInv, ProgramTypeOK, Heap, Counted

\* The blocks have their owners after a step that gives one more to somebody.
LEMMA AttachedBy ==
  ASSUME ProgramInv, Attached, NEW p, mem'.live \subseteq mem.live \cup {p},
         p \in Owners' \/ p[1] \in Scraps, Owners \subseteq Owners' \cup {NULL}
  PROVE  Attached'
  <1>1. NULL \notin mem.live
    BY MemCounted
  <1>2. QED
    BY <1>1 DEF Attached

\* The conditions in force while the program runs.
LEMMA KeptSoFar ==
  ASSUME KeptInv, pc \notin EndLabels \cup {"crashed"}, Smooth
  PROVE  Attached /\ Unset
  BY DEF KeptInv

SetupFacts == {"main"} \cup SetupLabels

\* While the program is set up only the process owns blocks.
LEMMA SetupOwns ==
  ASSUME pc \in SetupFacts, UNCHANGED <<tokenVars, driver>>,
         ProcessOwns \subseteq ProcessOwns' \cup {NULL}
  PROVE  Owners \subseteq Owners' \cup {NULL}
  <1>1. tokens' = tokens /\ buffer' = buffer /\ driver' = driver /\ pc # "token_add"
    BY DEF tokenVars, SetupFacts, SetupLabels
  <1>2. TokensOwn' = TokensOwn /\ DriverOwns' = DriverOwns /\ TokenOwns \subseteq TokenOwns'
    BY <1>1 DEF TokensOwn, Contents, DriverOwns, TokenOwns
  <1>3. QED
    BY <1>2 DEF Owners

\* What is not set when the set-up goes on.
LEMMA SetupUnset ==
  ASSUME pc \in SetupFacts, pc' \in SetupLabels \cup {"run"}, Unset, UNCHANGED <<tokenVars, driver>>,
         mem'.made["reader"] = mem.made["reader"], mem'.made["parser"] = mem.made["parser"],
         pc' = "run" => params'.block = NULL,
         pc' \in {"cli", "new_params"} => params'.block = NULL,
         pc' \in {"cli", "new_params", "new_config"} => config'.block = NULL /\ config'.file = NULL,
         config'.file # NULL => mem'.made["file"] # 0
  PROVE  Unset'
  <1>1. tokens' = tokens /\ driver' = driver
    BY DEF tokenVars
  <1>2. pc \in Begun
    BY DEF SetupFacts, Begun
  <1>3. Idle /\ mem.made["reader"] = 0 /\ mem.made["parser"] = 0
    BY <1>2 DEF Unset
  <1>4. Idle' /\ mem'.made["reader"] = 0 /\ mem'.made["parser"] = 0
    BY <1>1, <1>3 DEF Idle
  <1>5. /\ pc' \notin Unparsed /\ Reader' = pc' /\ pc' \notin {"parse", "print_first", "print"}
        /\ pc' \notin {"teardown", "main", "open"} /\ pc' \notin Opening /\ pc' \notin Unscanned
        /\ pc' \in RunLabels => pc' = "run"
    BY DEF SetupLabels, Unparsed, Unscanned, Opening, OpenLabels, Reader, TokenLabels, RunLabels,
           HeldLabels
  <1>6. QED
    BY <1>4, <1>5 DEF Unset

\* setup_global_state
LEMMA SetupKept ==
  ASSUME ProgramInv, KeptInv, SetupGlobalState, ProcessOnly
  PROVE  KeptInv'
  <1> SUFFICES ASSUME mem'.refused = {} PROVE KeptInv'
    BY KeptRefused
  <1>1. pc = "main" /\ gstate.block = NULL /\ Counted(mem) /\ pc \notin EndLabels \cup {"crashed"}
    BY MemCounted DEF SetupGlobalState, ProgramInv, Staged, EndLabels
  <1>2. PICK o \in Malloc(mem, "gstate") :
          /\ mem' = o.mem
          /\ gstate' = [block |-> o.pointer, cli |-> NULL]
          /\ IF o.pointer = NULL THEN ExitWith(NO_MEM) ELSE Goto("cli")
    BY <1>1 DEF SetupGlobalState
  <1>3. "gstate" \in Roles /\ Adds(mem, mem', o.pointer, "gstate")
    BY <1>1, <1>2, MallocAdds DEF Roles
  <1>4. /\ pc' = "cli" /\ gstate'.block = o.pointer
        /\ config' = config /\ params' = params /\ UNCHANGED <<tokenVars, driver>>
    BY <1>2, <1>3 DEF Adds, Goto, SetupGlobalState, ProcessOnly, cliVars
  <1>5. ASSUME Smooth' PROVE Attached' /\ Unset'
    <2>1. Attached /\ Unset
      BY <1>1, <1>3, <1>5, SmoothBefore, KeptSoFar
    <2>2. ProcessOwns \subseteq ProcessOwns' \cup {NULL} /\ o.pointer \in Owners'
      BY <1>1, <1>4 DEF ProcessOwns, Owners
    <2>3. Attached'
      BY <1>1, <1>3, <1>4, <2>1, <2>2, SetupOwns, AttachedBy DEF Adds, SetupFacts
    <2>4. /\ mem'.made["reader"] = mem.made["reader"] /\ mem'.made["parser"] = mem.made["parser"]
          /\ mem'.made["file"] = mem.made["file"]
      BY <1>3 DEF Adds, Roles
    <2>5. params.block = NULL /\ config.block = NULL /\ config.file = NULL
      BY <1>1, <2>1 DEF Unset
    <2>6. Unset'
      BY <1>1, <1>4, <2>1, <2>4, <2>5, SetupUnset DEF SetupFacts, SetupLabels
    <2>7. QED
      BY <2>3, <2>6
  <1>6. QED
    BY <1>4, <1>5, KeptGoes DEF EndLabels

\* Without arguments there is only the global state.
LEMMA ParseArgsKept ==
  ASSUME ProgramInv, Handed, KeptInv, ParseArgs, CommandLineOnly
  PROVE  KeptInv'
  <1>1. /\ pc = "cli" /\ pc \notin EndLabels \cup {"crashed"} /\ Counted(mem)
        /\ mem' = mem /\ gstate' = gstate /\ config' = config /\ params' = params
        /\ UNCHANGED <<tokenVars, driver>>
    BY MemCounted DEF ParseArgs, CommandLineOnly, EndLabels
  <1>2. CASE argv # <<>>
    <2>1. pc' = "new_params"
      BY <1>2 DEF ParseArgs, Goto
    <2>2. ASSUME Smooth' PROVE Attached' /\ Unset'
      <3>1. Attached /\ Unset
        BY <1>1, <2>2, KeptSoFar DEF Smooth
      <3>2. ProcessOwns' = ProcessOwns
        BY <1>1 DEF ProcessOwns
      <3>3. Owners \subseteq Owners' \cup {NULL}
        BY <1>1, <3>2, SetupOwns DEF SetupFacts, SetupLabels
      <3>4. NULL \notin mem.live
        BY MemCounted
      <3>5. Attached'
        BY <1>1, <3>1, <3>3, <3>4 DEF Attached
      <3>6. params.block = NULL /\ config.block = NULL /\ config.file = NULL
        BY <1>1, <3>1 DEF Unset
      <3>7. Unset'
        BY <1>1, <2>1, <3>1, <3>6, SetupUnset DEF SetupFacts, SetupLabels
      <3>8. QED
        BY <3>5, <3>7
    <2>3. QED
      BY <2>1, <2>2, KeptGoes DEF EndLabels
  <1>3. CASE argv = <<>>
    <2>1. pc' = "exit"
      BY <1>3 DEF ParseArgs, ExitWith
    <2>2. ASSUME Praised' PROVE Left'
      <3>1. Smooth
        <4>1. mem.made["file"] \in Nat
          BY <1>1 DEF Counted, Roles
        <4>2. QED
          BY <1>1, <2>2, <4>1 DEF Praised, Smooth
      <3>2. Attached /\ Unset
        BY <1>1, <3>1, KeptSoFar
      <3>3. /\ params.block = NULL /\ config.block = NULL /\ config.file = NULL
            /\ Idle
        BY <1>1, <3>2 DEF Unset, Begun, SetupLabels
      <3>4. Owners \subseteq {gstate.block, NULL}
        <4>1. Contents = {}
          BY <3>3 DEF Idle, Contents
        <4>2. buffer = NULL
          BY <1>1 DEF Handed, EndLabels
        <4>3. QED
          BY <1>1, <3>3, <4>1, <4>2
             DEF Idle, NoDriver, Owners, ProcessOwns, DriverOwns, TokensOwn, TokenOwns
      <3>5. NULL \notin mem.live
        BY MemCounted
      <3>6. QED
        BY <1>1, <2>1, <3>2, <3>4, <3>5 DEF Attached, Left
    <2>3. QED
      BY <2>1, <2>2, KeptEnds DEF EndLabels
  <1>4. QED
    BY <1>2, <1>3

\* The parameters.
LEMMA NewParamsKept ==
  ASSUME ProgramInv, KeptInv, NewParams, CommandLineOnly
  PROVE  KeptInv'
  <1> SUFFICES ASSUME mem'.refused = {} PROVE KeptInv'
    BY KeptRefused
  <1>1. pc = "new_params" /\ Counted(mem) /\ pc \notin EndLabels \cup {"crashed"}
    BY MemCounted DEF NewParams, EndLabels
  <1>2. PICK o \in Malloc(mem, "params") :
          /\ mem' = o.mem
          /\ params' = [block |-> o.pointer, pointer |-> 1]
          /\ IF o.pointer = NULL THEN ExitWith(NO_MEM) ELSE Goto("new_config")
    BY DEF NewParams
  <1>3. "params" \in Roles /\ Adds(mem, mem', o.pointer, "params")
    BY <1>1, <1>2, MallocAdds DEF Roles
  <1>4. /\ pc' = "new_config" /\ params'.block = o.pointer
        /\ config' = config /\ gstate' = gstate /\ UNCHANGED <<tokenVars, driver>>
    BY <1>2, <1>3 DEF Adds, Goto, NewParams, CommandLineOnly
  <1>5. ASSUME Smooth' PROVE Attached' /\ Unset'
    <2>1. Attached /\ Unset
      BY <1>1, <1>3, <1>5, SmoothBefore, KeptSoFar
    <2>2. params.block = NULL /\ config.block = NULL /\ config.file = NULL
      BY <1>1, <2>1 DEF Unset
    <2>3. ProcessOwns \subseteq ProcessOwns' \cup {NULL} /\ o.pointer \in Owners'
      BY <1>4, <2>2 DEF ProcessOwns, Owners
    <2>4. Attached'
      BY <1>1, <1>3, <1>4, <2>1, <2>3, SetupOwns, AttachedBy DEF Adds, SetupFacts, SetupLabels
    <2>5. mem'.made["reader"] = mem.made["reader"] /\ mem'.made["parser"] = mem.made["parser"]
      BY <1>3 DEF Adds, Roles
    <2>6. Unset'
      BY <1>1, <1>4, <2>1, <2>2, <2>5, SetupUnset DEF SetupFacts, SetupLabels
    <2>7. QED
      BY <2>4, <2>6
  <1>6. QED
    BY <1>4, <1>5, KeptGoes DEF EndLabels

\* The configuration.
LEMMA NewConfigKept ==
  ASSUME ProgramInv, KeptInv, NewConfig, CommandLineOnly
  PROVE  KeptInv'
  <1> SUFFICES ASSUME mem'.refused = {} PROVE KeptInv'
    BY KeptRefused
  <1>1. pc = "new_config" /\ Counted(mem) /\ pc \notin EndLabels \cup {"crashed"}
    BY MemCounted DEF NewConfig, EndLabels
  <1>2. PICK o \in Malloc(mem, "config") :
          IF o.pointer = NULL THEN mem' = Free(o.mem, params.block)
          ELSE /\ mem' = o.mem
               /\ config' = [NoConfig EXCEPT !.block = o.pointer, !.mode = "version"]
               /\ Goto("options")
               /\ UNCHANGED params
    BY DEF NewConfig
  <1>3. "config" \in Roles /\ Adds(mem, o.mem, o.pointer, "config")
    <2>1. "config" \in Roles
      BY DEF Roles
    <2>2. Shaped(o.mem)
      BY <1>1, <2>1, MallocAnswers DEF Counted
    <2>3. o.mem.refused = {}
      <3>1. Frees(o.mem, Free(o.mem, params.block))
        BY <2>2, FreeFrees
      <3>2. mem' = o.mem \/ mem' = Free(o.mem, params.block)
        BY <1>2
      <3>3. QED
        BY <3>1, <3>2 DEF Frees
    <2>4. QED
      BY <1>1, <2>1, <2>3, MallocAdds
  <1>4. /\ pc' = "options" /\ mem' = o.mem /\ params' = params
        /\ config'.block = o.pointer /\ config'.file = NULL
        /\ gstate' = gstate /\ UNCHANGED <<tokenVars, driver>>
    BY <1>2, <1>3 DEF Adds, Goto, NewConfig, CommandLineOnly, NoConfig
  <1>5. ASSUME Smooth' PROVE Attached' /\ Unset'
    <2>1. Attached /\ Unset
      BY <1>1, <1>3, <1>4, <1>5, SmoothBefore, KeptSoFar
    <2>2. config.block = NULL /\ config.file = NULL
      BY <1>1, <2>1 DEF Unset
    <2>3. ProcessOwns \subseteq ProcessOwns' \cup {NULL} /\ o.pointer \in Owners'
      BY <1>4, <2>2 DEF ProcessOwns, Owners
    <2>4. Attached'
      BY <1>1, <1>3, <1>4, <2>1, <2>3, SetupOwns, AttachedBy DEF Adds, SetupFacts, SetupLabels
    <2>5. mem'.made["reader"] = mem.made["reader"] /\ mem'.made["parser"] = mem.made["parser"]
      BY <1>3, <1>4 DEF Adds, Roles
    <2>6. Unset'
      BY <1>1, <1>4, <2>1, <2>2, <2>5, SetupUnset DEF SetupFacts, SetupLabels
    <2>7. QED
      BY <2>4, <2>6
  <1>6. QED
    BY <1>4, <1>5, KeptGoes DEF EndLabels

\* The name of a file is kept; of two the first is lost, and nothing more is said.
LEMMA StoreFileKept ==
  ASSUME ProgramInv, KeptInv, pc \in {"options", "operand"},
         NEW arg, NEW label \in {"options", "configured"}, NEW n, StoreFile(arg, label, n),
         UNCHANGED <<gstate, tokenVars, driver>>
  PROVE  KeptInv'
  <1> SUFFICES ASSUME mem'.refused = {} PROVE KeptInv'
    BY KeptRefused
  <1>1. pc \in SetupFacts /\ Counted(mem) /\ pc \notin EndLabels \cup {"crashed"}
    BY MemCounted DEF EndLabels, SetupFacts, SetupLabels
  <1>2. PICK o \in Malloc(mem, "file") :
          IF o.pointer = NULL THEN mem' = Abandon(o.mem)
          ELSE /\ mem' = o.mem
               /\ config' = [config EXCEPT !.file = o.pointer, !.name = FileName(arg)]
               /\ params' = Consumed(n)
               /\ Goto(label)
    BY DEF StoreFile
  <1>3. "file" \in Roles /\ Adds(mem, o.mem, o.pointer, "file")
    <2>1. "file" \in Roles
      BY DEF Roles
    <2>2. Shaped(o.mem)
      BY <1>1, <2>1, MallocAnswers DEF Counted
    <2>3. o.mem.refused = {}
      <3>1. Frees(o.mem, Abandon(o.mem))
        BY <2>2, AbandonFrees
      <3>2. mem' = o.mem \/ mem' = Abandon(o.mem)
        BY <1>2
      <3>3. QED
        BY <3>1, <3>2 DEF Frees
    <2>4. QED
      BY <1>1, <2>1, <2>3, MallocAdds
  <1>4. /\ pc' = label /\ mem' = o.mem
        /\ params'.block = params.block
        /\ config'.block = config.block /\ config'.file = o.pointer
    <2>1. /\ pc' = label /\ mem' = o.mem /\ params' = Consumed(n)
          /\ config' = [config EXCEPT !.file = o.pointer, !.name = FileName(arg)]
      BY <1>2, <1>3 DEF Adds, Goto
    <2>2. Consumed(n).block = params.block
      BY CommandLineTypes DEF Consumed
    <2>3. config = [block |-> config.block, mode |-> config.mode, file |-> config.file,
                    name |-> config.name, interactive |-> config.interactive]
      BY DEF ProgramInv, ProgramTypeOK
    <2>4. config'.block = config.block /\ config'.file = o.pointer
      BY <2>1, <2>3
    <2>5. QED
      BY <2>1, <2>2, <2>4
  <1>5. ASSUME Smooth' PROVE Attached' /\ Unset'
    <2>1. Attached /\ Unset
      BY <1>1, <1>3, <1>4, <1>5, SmoothBefore, KeptSoFar
    <2>2. mem'.made["file"] = mem.made["file"] + 1 /\ mem.made["file"] \in Nat
          /\ mem'.made["file"] <= 1
      BY <1>1, <1>3, <1>4, <1>5 DEF Adds, Smooth, Counted
    <2>3. mem.made["file"] = 0 /\ mem'.made["file"] # 0
      BY <2>2
    <2>4. config.file = NULL
      BY <2>1, <2>3 DEF Unset
    <2>5. ProcessOwns \subseteq ProcessOwns' \cup {NULL} /\ o.pointer \in Owners'
      BY <1>4, <2>4 DEF ProcessOwns, Owners
    <2>6. Attached'
      BY <1>1, <1>3, <1>4, <2>1, <2>5, SetupOwns, AttachedBy DEF Adds
    <2>7. mem'.made["reader"] = mem.made["reader"] /\ mem'.made["parser"] = mem.made["parser"]
      BY <1>3, <1>4 DEF Adds, Roles
    <2>8. label \in SetupLabels /\ label \notin {"run", "cli", "new_params", "new_config"}
      BY DEF SetupLabels
    <2>9. Unset'
      BY <1>1, <1>4, <2>1, <2>3, <2>7, <2>8, SetupUnset
    <2>10. QED
      BY <2>6, <2>9
  <1>6. QED
    BY <1>4, <1>5, KeptGoes DEF EndLabels

\* A step of the set-up that leaves the heap alone.
LEMMA QuietKept ==
  ASSUME ProgramInv, KeptInv, pc \in {"options", "operand"},
         pc' \in {"options", "operand", "configured"}, mem' = mem,
         params'.block = params.block, config'.block = config.block, config'.file = config.file,
         UNCHANGED <<gstate, tokenVars, driver>>
  PROVE  KeptInv'
  <1>1. /\ pc \in SetupFacts /\ pc \notin EndLabels \cup {"crashed"}
        /\ pc' \in SetupLabels /\ pc' \notin {"run", "cli", "new_params", "new_config"}
        /\ pc' \notin EndLabels
    BY DEF EndLabels, SetupFacts, SetupLabels
  <1>2. ASSUME Smooth' PROVE Attached' /\ Unset'
    <2>1. Attached /\ Unset
      BY <1>1, <1>2, KeptSoFar DEF Smooth
    <2>2. ProcessOwns' = ProcessOwns
      BY DEF ProcessOwns
    <2>3. Owners \subseteq Owners' \cup {NULL} /\ NULL \notin mem.live
      BY <1>1, <2>2, SetupOwns, MemCounted
    <2>4. Attached'
      BY <2>1, <2>3 DEF Attached
    <2>5. Unset'
      BY <1>1, <2>1, SetupUnset DEF Unset
    <2>6. QED
      BY <2>4, <2>5
  <1>3. QED
    BY <1>1, <1>2, KeptGoes

\* An option that only prints leaves the global state, if no file was named before it.
LEMMA HelpKept ==
  ASSUME ProgramInv, Handed, KeptInv, ArgumentsInv, pc = "options", params.pointer <= Len(argv),
         OptionHelp(Option(params.pointer)), UNCHANGED <<build, argv, gstate, tokenVars, driver>>
  PROVE  KeptInv'
  <1> DEFINE option == Option(params.pointer)
  <1>1. /\ option \in {"HELP", "VERSION_SHORT", "VERSION_FULL"}
        /\ pc' = "exit" /\ mem' = Abandon(mem)
    BY DEF OptionHelp, ExitWith
  <1>2. option \notin Consumable
    BY <1>1 DEF Consumable, TakesValue
  <1>3. Has({option}) /\ Has({"HELP", "VERSION_SHORT", "VERSION_FULL"})
    <2>1. Has({option})
      BY <1>2, EndingOptions
    <2>2. QED
      BY <1>1, <2>1 DEF Has
  <1> HIDE DEF option
  <1>4. Counted(mem) /\ NULL \notin mem.live /\ Frees(mem, mem')
    BY <1>1, MemCounted, AbandonFrees DEF Counted
  <1>5. ASSUME Praised' PROVE Left'
    <2>1. Has({"HELP", "VERSION_SHORT", "VERSION_FULL"})'
      BY <1>3, ArgumentsStay
    <2>2. mem.made["file"] = 0 /\ mem.refused = {}
      <3>1. mem'.made["file"] <= 0 /\ mem'.refused = {}
        BY <1>5, <2>1 DEF Praised
      <3>2. mem.made["file"] \in Nat /\ mem.made["file"] <= 0 /\ mem.refused = {}
        BY <1>4, <3>1 DEF Counted, Frees, Roles
      <3>3. QED
        BY <3>2
    <2>3. pc \notin EndLabels \cup {"crashed"} /\ Smooth
      BY <2>2 DEF Smooth, EndLabels
    <2>4. Attached /\ Unset
      BY <2>3, KeptSoFar
    <2>5. config.file = NULL /\ Idle
      BY <2>2, <2>4 DEF Unset, Begun, SetupLabels
    <2>6. Owners \subseteq {gstate.block, params.block, config.block, NULL}
      <3>1. Contents = {}
        BY <2>5 DEF Idle, Contents
      <3>2. buffer = NULL
        BY DEF Handed, EndLabels
      <3>3. QED
        BY <2>5, <3>1, <3>2
           DEF Idle, NoDriver, Owners, ProcessOwns, DriverOwns, TokensOwn, TokenOwns
    <2>7. mem'.live \subseteq mem.live \ {params.block, config.block}
      <3>1. /\ Frees(mem, Free(mem, params.block))
            /\ Free(mem, params.block).live =
                 IF params.block = NULL THEN mem.live ELSE mem.live \ {params.block}
        BY <1>4, FreeFrees DEF Counted
      <3>2. mem'.live = IF config.block = NULL THEN Free(mem, params.block).live
                        ELSE Free(mem, params.block).live \ {config.block}
        BY <1>1, <3>1, FreeFrees DEF Abandon, Frees
      <3>3. QED
        BY <1>4, <3>1, <3>2
    <2>8. QED
      BY <1>1, <1>4, <2>4, <2>6, <2>7 DEF Attached, Left
  <1>6. QED
    BY <1>1, <1>5, KeptEnds DEF EndLabels

\* One option.
LEMMA ConsumeKept ==
  ASSUME ProgramInv, Handed, KeptInv, ArgumentsInv, ConsumeNextOption, CommandLineOnly
  PROVE  KeptInv'
  <1> DEFINE option == ParseOptionType(build, At(0))
  <1>1. pc = "options" /\ UNCHANGED <<build, argv, gstate, tokenVars, driver>>
    BY DEF ConsumeNextOption, CommandLineOnly, Keep
  <1>2. option = Option(params.pointer) /\ (HasNextArgument => params.pointer <= Len(argv))
    BY <1>1, OptionFacts DEF HasNextArgument
  <1>3. \A n : Consumed(n).block = params.block
    BY CommandLineTypes DEF Consumed
  <1>4. config = [block |-> config.block, mode |-> config.mode, file |-> config.file,
                  name |-> config.name, interactive |-> config.interactive]
    BY DEF ProgramInv, ProgramTypeOK
  <1> HIDE DEF option
  <1>5. CASE Goto("operand") /\ UNCHANGED <<mem, config, params>>
    BY <1>1, <1>5, QuietKept DEF Goto
  <1>6. CASE OptionsEnd(option)
    BY <1>1, <1>3, <1>6, QuietKept DEF OptionsEnd, Goto
  <1>7. CASE OptionInvalid(option)
    BY <1>7, KeptBad DEF OptionInvalid, ExitWith, EndLabels, BAD_USAGE, GOOD
  <1>8. CASE HasNextArgument /\ OptionHelp(option)
    BY <1>1, <1>2, <1>8, HelpKept
  <1>9. CASE OptionInputFile(option)
    <2>1. CASE Len(argv) > params.pointer
      BY <1>1, <1>9, <2>1, StoreFileKept DEF OptionInputFile
    <2>2. CASE ~(Len(argv) > params.pointer)
      BY <1>1, <1>3, <1>9, <2>2, QuietKept DEF OptionInputFile, Goto
    <2>3. QED
      BY <2>1, <2>2
  <1>10. CASE OptionTestMode(option)
    <2>1. /\ pc' = "options" /\ mem' = mem /\ params' = Consumed(2)
          /\ config' = config \/ config' = [config EXCEPT !.mode = ModeFrom(At(1))]
      BY <1>10 DEF OptionTestMode, Goto
    <2>2. config'.block = config.block /\ config'.file = config.file
      BY <1>4, <2>1
    <2>3. QED
      BY <1>1, <1>3, <2>1, <2>2, QuietKept
  <1>11. CASE OptionInteractive(option)
    <2>1. /\ pc' = "options" /\ mem' = mem /\ params' = Consumed(1)
          /\ config' = [config EXCEPT !.interactive = TRUE]
      BY <1>11 DEF OptionInteractive, Goto
    <2>2. config'.block = config.block /\ config'.file = config.file
      BY <1>4, <2>1
    <2>3. QED
      BY <1>1, <1>3, <2>1, <2>2, QuietKept
  <1>12. QED
    BY <1>5, <1>6, <1>7, <1>8, <1>9, <1>10, <1>11 DEF ConsumeNextOption, option

\* The operand.
LEMMA OperandKept ==
  ASSUME ProgramInv, KeptInv, Operand, CommandLineOnly
  PROVE  KeptInv'
  <1>1. pc = "operand" /\ UNCHANGED <<gstate, tokenVars, driver>>
    BY DEF Operand, CommandLineOnly
  <1>2. CASE StoreFile(At(0), "configured", 1)
    BY <1>1, <1>2, StoreFileKept
  <1>3. CASE Goto("configured") /\ UNCHANGED <<mem, config, params>>
    BY <1>1, <1>3, QuietKept DEF Goto
  <1>4. QED
    BY <1>2, <1>3 DEF Operand

\* The parameters are freed, and the drivers begin with nothing.
LEMMA ConfiguredKept ==
  ASSUME ProgramInv, KeptInv, Configured, CommandLineOnly
  PROVE  KeptInv'
  <1>1. /\ pc = "configured" /\ pc' = "run" /\ mem' = Free(mem, params.block)
        /\ params' = NoParams /\ config' = config /\ gstate' = [gstate EXCEPT !.cli = config.block]
        /\ UNCHANGED <<tokenVars, driver>>
    BY DEF Configured, CommandLineOnly, Goto
  <1>2. gstate'.block = gstate.block /\ params'.block = NULL
    BY <1>1 DEF ProgramInv, ProgramTypeOK, NoParams
  <1>3. /\ pc \in SetupFacts /\ pc \notin EndLabels \cup {"crashed"}
        /\ Counted(mem) /\ NULL \notin mem.live
    BY <1>1, MemCounted DEF SetupFacts, SetupLabels, EndLabels
  <1>4. /\ Frees(mem, mem')
        /\ mem'.live = IF params.block = NULL THEN mem.live ELSE mem.live \ {params.block}
    BY <1>1, <1>3, FreeFrees DEF Counted
  <1>5. ASSUME Smooth' PROVE Attached' /\ Unset'
    <2>1. Attached /\ Unset
      BY <1>3, <1>4, <1>5, SmoothBefore, KeptSoFar
    <2>2. Owners \subseteq Owners' \cup {NULL, params.block}
      <3>1. ProcessOwns \subseteq ProcessOwns' \cup {NULL, params.block}
        BY <1>1, <1>2 DEF ProcessOwns
      <3>2. tokens' = tokens /\ buffer' = buffer /\ driver' = driver
        BY <1>1 DEF tokenVars
      <3>3. TokensOwn' = TokensOwn /\ DriverOwns' = DriverOwns /\ TokenOwns \subseteq TokenOwns'
        BY <1>1, <3>2 DEF TokensOwn, Contents, DriverOwns, TokenOwns
      <3>4. QED
        BY <3>1, <3>3 DEF Owners
    <2>3. Attached'
      BY <1>3, <1>4, <2>1, <2>2 DEF Attached
    <2>4. mem'.made = mem.made
      BY <1>4 DEF Frees
    <2>5. config'.file # NULL => mem'.made["file"] # 0
      BY <1>1, <2>1, <2>4 DEF Unset
    <2>6. Unset'
      BY <1>1, <1>2, <1>3, <2>1, <2>4, <2>5, SetupUnset
    <2>7. QED
      BY <2>3, <2>6
  <1>6. QED
    BY <1>1, <1>5, KeptGoes DEF EndLabels

\* What the drivers leave of the configuration and of its file.
Steady == UNCHANGED <<cliVars, gstate, config>>

\* A driver that gets more keeps what it has.
LEMMA DriverOwnsMore ==
  ASSUME Steady, tokens' = tokens, buffer' = buffer, pc # "token_add", DriverOwns \subseteq DriverOwns' \cup {NULL}
  PROVE  Owners \subseteq Owners' \cup {NULL}
  <1>1. ProcessOwns' = ProcessOwns
    BY DEF Steady, cliVars, ProcessOwns
  <1>2. TokensOwn' = TokensOwn /\ TokenOwns \subseteq TokenOwns'
    BY DEF TokensOwn, Contents, TokenOwns
  <1>3. QED
    BY <1>1, <1>2 DEF Owners

\* The parameters are freed for good, and the file stays.
LEMMA SteadyUnset ==
  ASSUME Steady, pc \in RunLabels, pc' \in RunLabels, Unset, mem'.made["file"] = mem.made["file"]
  PROVE  /\ config'.file # NULL => mem'.made["file"] # 0
         /\ params'.block = NULL
         /\ pc' \notin {"main", "cli", "new_params", "new_config"} \cup SetupLabels
  BY DEF Steady, cliVars, Unset, RunLabels, OpenLabels, TokenLabels, HeldLabels, SetupLabels

\* A step of the drivers that nothing is refused to has not been refused anything before.
LEMMA SmoothBack ==
  ASSUME mem.refused = {}, mem'.made["file"] = mem.made["file"], Smooth'
  PROVE  Smooth
  BY DEF Smooth

\* run_test
LEMMA RunTestKept ==
  ASSUME ProgramInv, KeptInv, RunTest
  PROVE  KeptInv'
  <1>1. /\ pc = "run" /\ pc \in RunLabels /\ Steady /\ UNCHANGED <<tokenVars, driver>>
        /\ Counted(mem) /\ NULL \notin mem.live
    BY MemCounted DEF RunTest, RunLabels, Steady
  <1>2. gstate.block # NULL
    BY <1>1, RunningState
  <1>3. pc' \in {"teardown", "reader_new"} /\ (mem' = mem \/ mem' = Touch(mem, gstate.cli))
    BY <1>2 DEF RunTest, DriverReturns, Goto
  <1>4. mem'.live = mem.live /\ mem'.made = mem.made /\ mem'.refused = mem.refused
    BY <1>1, <1>3, TouchFrees DEF Counted, Frees
  <1>5. ASSUME Smooth' PROVE Attached' /\ Unset'
    <2>1. Attached /\ Unset
      BY <1>1, <1>4, <1>5, KeptSoFar DEF Smooth, EndLabels
    <2>2. Owners \subseteq Owners' \cup {NULL}
      BY <1>1, DriverOwnsMore DEF tokenVars, DriverOwns
    <2>3. Attached'
      BY <1>1, <1>4, <2>1, <2>2 DEF Attached
    <2>4. Idle /\ mem.made["reader"] = 0 /\ mem.made["parser"] = 0
      BY <1>1, <2>1 DEF Unset, Begun
    <2>5. Idle' /\ mem'.made["reader"] = 0 /\ mem'.made["parser"] = 0
      BY <1>1, <1>4, <2>4 DEF Idle, tokenVars
    <2>6. pc' \in RunLabels
      BY <1>3 DEF RunLabels
    <2>7. Unset'
      BY <1>1, <1>3, <1>4, <2>1, <2>5, <2>6, SteadyUnset
         DEF Unset, Reader, Begun, Opening, Unscanned, Unparsed, OpenLabels, TokenLabels
    <2>8. QED
      BY <2>3, <2>7
  <1>6. QED
    BY <1>3, <1>5, KeptGoes DEF EndLabels

\* The pointers of the driver are its fields.
LEMMA DriverFields ==
  ASSUME ProgramInv
  PROVE  driver = [reader |-> driver.reader, path |-> driver.path, stream |-> driver.stream,
                   scanner |-> driver.scanner, parser |-> driver.parser, tree |-> driver.tree]
  BY DEF ProgramInv, ProgramTypeOK

\* buf_reader_new
LEMMA ReaderNewKept ==
  ASSUME ProgramInv, KeptInv, ReaderNew
  PROVE  KeptInv'
  <1> SUFFICES ASSUME mem'.refused = {} PROVE KeptInv'
    BY KeptRefused
  <1>1. /\ pc = "reader_new" /\ pc \in RunLabels /\ Steady /\ UNCHANGED tokenVars
        /\ Counted(mem)
    BY MemCounted DEF ReaderNew, RunLabels, Steady
  <1>2. PICK o \in Malloc(mem, "reader") :
          /\ mem' = o.mem
          /\ driver' = [driver EXCEPT !.reader = o.pointer]
          /\ pc' \in {"teardown", "open"}
    BY DEF ReaderNew, DriverReturns, Goto
  <1>3. Adds(mem, mem', o.pointer, "reader")
    BY <1>1, <1>2, MallocAdds DEF Roles
  <1>4. /\ mem'.made["reader"] = mem.made["reader"] + 1 /\ mem.made["reader"] \in Nat
        /\ mem'.made["parser"] = mem.made["parser"] /\ mem'.made["file"] = mem.made["file"]
    BY <1>1, <1>3 DEF Adds, Counted, Roles
  <1>5. ASSUME Smooth' PROVE Attached' /\ Unset'
    <2>1. Attached /\ Unset
      BY <1>1, <1>3, <1>4, <1>5, SmoothBack, KeptSoFar DEF Adds, EndLabels
    <2>2. Idle /\ mem.made["reader"] = 0 /\ mem.made["parser"] = 0
      BY <1>1, <2>1 DEF Unset, Begun
    <2>3. driver' = [reader |-> o.pointer, path |-> NULL, stream |-> NULL,
                     scanner |-> NULL, parser |-> NULL, tree |-> NULL]
      BY <1>2, <2>2 DEF Idle, NoDriver
    <2>4. Owners \subseteq Owners' \cup {NULL} /\ o.pointer \in Owners'
      <3>1. DriverOwns \subseteq {NULL} /\ o.pointer \in DriverOwns'
        BY <2>2, <2>3 DEF Idle, NoDriver, DriverOwns
      <3>2. QED
        BY <1>1, <3>1, DriverOwnsMore DEF tokenVars, Owners
    <2>5. Attached'
      BY <1>3, <2>1, <2>4, AttachedBy DEF Adds
    <2>6. pc' \in RunLabels
      BY <1>2 DEF RunLabels
    <2>7. mem'.made["reader"] # 0 /\ mem'.made["parser"] = 0
      BY <1>4, <2>2
    <2>8. tokens'.block = NULL /\ tokens'.values = NULL /\ tokens'.count = 0
      BY <1>1, <2>2 DEF Idle, tokenVars
    <2>9. /\ driver'.path = NULL /\ driver'.stream = NULL /\ driver'.scanner = NULL
          /\ driver'.parser = NULL /\ driver'.tree = NULL
      BY <2>3
    <2>10. pc' \notin Begun
      BY <1>2 DEF Begun, SetupLabels
    <2>11. Unset'
      BY <1>1, <1>4, <2>1, <2>6, <2>7, <2>8, <2>9, <2>10, SteadyUnset DEF Unset
    <2>12. QED
      BY <2>5, <2>11
  <1>6. QED
    BY <1>2, <1>5, KeptGoes DEF EndLabels

\* os_path_normalize, when nothing is refused.
LEMMA NormalizedAdds ==
  ASSUME NEW m, Counted(m), NEW o \in Normalized(m), o.mem.refused = {}
  PROVE  /\ Counted(o.mem) /\ m.refused = {} /\ o.pointer # NULL
         /\ \A role \in {"reader", "parser", "file"} : o.mem.made[role] = m.made[role]
         /\ \E temp : temp[1] = "temp" /\ o.mem.live = m.live \cup {temp} \cup {o.pointer}
  <1>1. PICK t \in Malloc(m, "temp") : o \in IF t.pointer = NULL THEN {t} ELSE Malloc(t.mem, "path")
    BY DEF Normalized
  <1>2. Shaped(t.mem) /\ (Grants(m, t, "temp") \/ Refuses(m, t, "temp"))
    BY <1>1, MallocAnswers DEF Counted, Roles
  <1>3. t.mem.refused = {}
    <2>1. CASE o = t
      BY <2>1
    <2>2. CASE o \in Malloc(t.mem, "path")
      <3>1. Grants(t.mem, o, "path") \/ Refuses(t.mem, o, "path")
        BY <1>2, <2>2, MallocAnswers DEF Roles
      <3>2. QED
        BY <3>1 DEF Grants, Refuses
    <2>3. QED
      BY <1>1, <2>1, <2>2
  <1>4. Adds(m, t.mem, t.pointer, "temp")
    BY <1>1, <1>3, MallocAdds DEF Roles
  <1>5. o \in Malloc(t.mem, "path") /\ Counted(t.mem)
    BY <1>1, <1>4 DEF Adds
  <1>6. Adds(t.mem, o.mem, o.pointer, "path")
    BY <1>5, MallocAdds DEF Roles
  <1>7. \A role \in {"reader", "parser", "file"} : o.mem.made[role] = m.made[role]
    <2>1. \A role \in {"reader", "parser", "file"} : role \in Roles /\ role # "temp" /\ role # "path"
      BY DEF Roles
    <2>2. QED
      BY <1>4, <1>6, <2>1 DEF Adds
  <1>8. t.pointer[1] = "temp" /\ o.mem.live = m.live \cup {t.pointer} \cup {o.pointer}
    BY <1>4, <1>6 DEF Adds
  <1>9. QED
    BY <1>4, <1>6, <1>7, <1>8 DEF Adds

\* The path of the reader.
LEMMA OpenPathKept ==
  ASSUME ProgramInv, KeptInv, OpenPath
  PROVE  KeptInv'
  <1> SUFFICES ASSUME mem'.refused = {} PROVE KeptInv'
    BY KeptRefused
  <1>1. /\ pc = "open" /\ pc \in RunLabels /\ Steady /\ UNCHANGED tokenVars
        /\ Counted(mem)
    BY MemCounted DEF OpenPath, RunLabels, Steady
  <1> DEFINE m == Touch(mem, config.file)
  <1>2. PICK o \in Normalized(m) :
          /\ mem' = o.mem
          /\ driver' = [driver EXCEPT !.path = o.pointer]
          /\ IF o.pointer = NULL THEN DriverReturns ELSE Goto("open_exists")
    BY DEF OpenPath
  <1>3. Frees(mem, m) /\ m.live = mem.live /\ Counted(m)
    BY <1>1, TouchFrees, FreesCounted DEF Counted
  <1> HIDE DEF m
  <1>4. /\ mem.refused = {} /\ o.pointer # NULL
        /\ mem'.made["reader"] = mem.made["reader"] /\ mem'.made["parser"] = mem.made["parser"]
        /\ mem'.made["file"] = mem.made["file"]
        /\ \E temp : temp[1] = "temp" /\ mem'.live = mem.live \cup {temp} \cup {o.pointer}
    BY <1>2, <1>3, NormalizedAdds DEF Frees
  <1>5. pc' = "open_exists"
    BY <1>2, <1>4 DEF Goto
  <1>6. ASSUME Smooth' PROVE Attached' /\ Unset'
    <2>1. Attached /\ Unset
      BY <1>1, <1>4, <1>6, SmoothBack, KeptSoFar DEF EndLabels
    <2>2. /\ driver.path = NULL /\ driver.stream = NULL /\ driver.scanner = NULL
          /\ driver.parser = NULL /\ driver.tree = NULL
          /\ tokens.block = NULL /\ tokens.values = NULL /\ tokens.count = 0
          /\ mem.made["reader"] # 0 /\ mem.made["parser"] = 0
      BY <1>1, <2>1 DEF Unset, Opening, Unscanned, Unparsed
    <2>3. driver' = [reader |-> driver.reader, path |-> o.pointer, stream |-> NULL,
                     scanner |-> NULL, parser |-> NULL, tree |-> NULL]
      BY <1>2, <2>2, DriverFields
    <2>4. Owners \subseteq Owners' \cup {NULL} /\ o.pointer \in Owners'
      <3>1. DriverOwns \subseteq DriverOwns' \cup {NULL} /\ o.pointer \in DriverOwns'
        BY <2>2, <2>3 DEF DriverOwns
      <3>2. QED
        BY <1>1, <3>1, DriverOwnsMore DEF tokenVars, Owners
    <2>5. Attached'
      <3>1. NULL \notin mem.live
        BY MemCounted
      <3>2. QED
        BY <1>4, <2>1, <2>4, <3>1 DEF Attached, Scraps
    <2>6. pc' \in RunLabels
      BY <1>5 DEF RunLabels, OpenLabels
    <2>7. /\ driver'.stream = NULL /\ driver'.scanner = NULL
          /\ driver'.parser = NULL /\ driver'.tree = NULL
          /\ tokens'.block = NULL /\ tokens'.values = NULL /\ tokens'.count = 0
          /\ mem'.made["reader"] # 0 /\ mem'.made["parser"] = 0
      BY <1>1, <1>4, <2>2, <2>3 DEF tokenVars
    <2>8. pc' \notin Begun /\ pc' \notin {"open", "teardown"}
      BY <1>5 DEF Begun, SetupLabels
    <2>9. Unset'
      BY <1>1, <1>4, <2>1, <2>6, <2>7, <2>8, SteadyUnset DEF Unset
    <2>10. QED
      BY <2>5, <2>9
  <1>7. QED
    BY <1>5, <1>6, KeptGoes DEF EndLabels

\* The checks of the path.
LEMMA OpenChecksKept ==
  ASSUME ProgramInv, KeptInv, OpenChecks
  PROVE  KeptInv'
  <1> SUFFICES ASSUME mem'.refused = {} PROVE KeptInv'
    BY KeptRefused
  <1>1. /\ pc \in {"open_exists", "open_is_file"} /\ pc \in RunLabels /\ Steady
        /\ UNCHANGED <<tokenVars, driver>> /\ Counted(mem) /\ NULL \notin mem.live
        /\ pc' \in {"teardown", "open_is_file", "fopen"}
    BY MemCounted DEF OpenChecks, RunLabels, OpenLabels, Steady, DriverReturns, Goto
  <1> DEFINE m == Touch(mem, driver.path)
  <1>2. PICK o \in Normalized(m) : mem' = Free(o.mem, o.pointer)
    BY DEF OpenChecks
  <1>3. Frees(mem, m) /\ m.live = mem.live /\ Counted(m)
    BY <1>1, TouchFrees, FreesCounted DEF Counted
  <1> HIDE DEF m
  <1>4. Frees(o.mem, mem') /\ mem'.live = IF o.pointer = NULL THEN o.mem.live ELSE o.mem.live \ {o.pointer}
    <2>1. Shaped(o.mem)
      BY <1>3, NormalizedSame DEF Same, Counted
    <2>2. QED
      BY <1>2, <2>1, FreeFrees
  <1>5. o.mem.refused = {}
    BY <1>4 DEF Frees
  <1>6. /\ mem.refused = {} /\ mem'.made["file"] = mem.made["file"]
        /\ mem'.made["reader"] = mem.made["reader"] /\ mem'.made["parser"] = mem.made["parser"]
        /\ \A block \in mem'.live : block \in mem.live \/ block[1] = "temp"
    <2>1. /\ m.refused = {} /\ o.pointer # NULL
          /\ \A role \in {"reader", "parser", "file"} : o.mem.made[role] = m.made[role]
          /\ \E temp : temp[1] = "temp" /\ o.mem.live = m.live \cup {temp} \cup {o.pointer}
      BY <1>3, <1>5, NormalizedAdds
    <2>2. \A block \in mem'.live : block \in mem.live \/ block[1] = "temp"
      BY <1>3, <1>4, <2>1
    <2>3. QED
      BY <1>3, <1>4, <2>1, <2>2 DEF Frees
  <1>7. ASSUME Smooth' PROVE Attached' /\ Unset'
    <2>1. Attached /\ Unset
      BY <1>1, <1>6, <1>7, SmoothBack, KeptSoFar DEF EndLabels
    <2>2. Owners \subseteq Owners' \cup {NULL}
      BY <1>1, DriverOwnsMore DEF tokenVars, DriverOwns
    <2>3. Attached'
      <3>1. \A block \in mem'.live : block # NULL \/ block[1] = "temp"
        BY <1>1, <1>6
      <3>2. QED
        BY <1>6, <2>1, <2>2, <3>1 DEF Attached, Scraps, NULL
    <2>4. /\ driver.stream = NULL /\ driver.scanner = NULL /\ driver.parser = NULL /\ driver.tree = NULL
          /\ tokens.block = NULL /\ tokens.values = NULL /\ tokens.count = 0
          /\ mem.made["reader"] # 0 /\ mem.made["parser"] = 0
      BY <1>1, <2>1 DEF Unset, Opening, Unscanned, Unparsed, OpenLabels
    <2>5. /\ driver'.stream = NULL /\ driver'.scanner = NULL
          /\ driver'.parser = NULL /\ driver'.tree = NULL
          /\ tokens'.block = NULL /\ tokens'.values = NULL /\ tokens'.count = 0
          /\ mem'.made["reader"] # 0 /\ mem'.made["parser"] = 0
      BY <1>1, <1>6, <2>4 DEF tokenVars
    <2>6. pc' \in RunLabels /\ pc' \notin Begun /\ pc' # "open"
      BY <1>1 DEF Begun, SetupLabels, RunLabels, OpenLabels
    <2>7. Unset'
      BY <1>1, <1>6, <2>1, <2>5, <2>6, SteadyUnset DEF Unset
    <2>8. QED
      BY <2>3, <2>7
  <1>8. QED
    BY <1>1, <1>7, KeptGoes DEF EndLabels

\* fopen
LEMMA OpenFileKept ==
  ASSUME ProgramInv, KeptInv, OpenFile
  PROVE  KeptInv'
  <1> SUFFICES ASSUME mem'.refused = {} PROVE KeptInv'
    BY KeptRefused
  <1>1. /\ pc = "fopen" /\ pc \in RunLabels /\ Steady /\ Counted(mem)
        /\ tokens' = tokens /\ buffer' = buffer
    BY MemCounted DEF OpenFile, RunLabels, OpenLabels, Steady, tokenVars
  <1> DEFINE m == Touch(mem, driver.path)
  <1>2. PICK o \in Malloc(m, "stream") :
          /\ mem' = o.mem
          /\ driver' = [driver EXCEPT !.stream = o.pointer]
          /\ IF o.pointer = NULL THEN DriverReturns ELSE Goto("scanner_new")
    BY DEF OpenFile
  <1>3. Frees(mem, m) /\ m.live = mem.live /\ Counted(m)
    BY <1>1, TouchFrees, FreesCounted DEF Counted
  <1> HIDE DEF m
  <1>4. Adds(m, mem', o.pointer, "stream")
    BY <1>2, <1>3, MallocAdds DEF Roles
  <1>5. /\ mem.refused = {} /\ mem'.live = mem.live \cup {o.pointer} /\ pc' = "scanner_new"
        /\ mem'.made["reader"] = mem.made["reader"] /\ mem'.made["parser"] = mem.made["parser"]
        /\ mem'.made["file"] = mem.made["file"]
    BY <1>2, <1>3, <1>4 DEF Adds, Frees, Roles, Goto
  <1>6. ASSUME Smooth' PROVE Attached' /\ Unset'
    <2>1. Attached /\ Unset
      BY <1>1, <1>5, <1>6, SmoothBack, KeptSoFar DEF EndLabels
    <2>2. /\ driver.stream = NULL /\ driver.scanner = NULL /\ driver.parser = NULL /\ driver.tree = NULL
          /\ tokens.block = NULL /\ tokens.values = NULL /\ tokens.count = 0
          /\ mem.made["reader"] # 0 /\ mem.made["parser"] = 0
      BY <1>1, <2>1 DEF Unset, Opening, Unscanned, Unparsed, OpenLabels
    <2>3. driver' = [reader |-> driver.reader, path |-> driver.path, stream |-> o.pointer,
                     scanner |-> NULL, parser |-> NULL, tree |-> NULL]
      BY <1>2, <2>2, DriverFields
    <2>4. Owners \subseteq Owners' \cup {NULL} /\ o.pointer \in Owners'
      <3>1. DriverOwns \subseteq DriverOwns' \cup {NULL} /\ o.pointer \in DriverOwns'
        BY <2>2, <2>3 DEF DriverOwns
      <3>2. QED
        BY <1>1, <3>1, DriverOwnsMore DEF Owners
    <2>5. Attached'
      BY <1>5, <2>1, <2>4, AttachedBy
    <2>6. /\ driver'.scanner = NULL /\ driver'.parser = NULL /\ driver'.tree = NULL
          /\ tokens'.block = NULL /\ tokens'.values = NULL /\ tokens'.count = 0
          /\ mem'.made["reader"] # 0 /\ mem'.made["parser"] = 0
      BY <1>1, <1>5, <2>2, <2>3
    <2>7. pc' \in RunLabels /\ pc' \notin Begun /\ pc' \notin Opening /\ pc' \notin {"open", "teardown"}
      BY <1>5 DEF Begun, SetupLabels, RunLabels, Opening, OpenLabels
    <2>8. Unset'
      BY <1>1, <1>5, <2>1, <2>6, <2>7, SteadyUnset DEF Unset
    <2>9. QED
      BY <2>5, <2>8
  <1>7. QED
    BY <1>5, <1>6, KeptGoes DEF EndLabels

\* The places at which tokens are made and taken.
TakingLabels == TokenLabels \cup {"print_first", "print", "parse", "parsing"}

\* While tokens are made and taken no pointer of the driver changes.
LEMMA TakingUnset ==
  ASSUME Steady, driver' = driver, pc \in RunLabels, pc' \in TakingLabels, Unset,
         \A role \in {"reader", "parser", "file"} : mem'.made[role] = mem.made[role],
         \/ Reader' = Reader
         \/ Reader = "print_first" /\ Reader' = "print"
  PROVE  Unset'
  <1>1. /\ pc' \in RunLabels /\ pc' \notin Begun /\ pc' \notin Unparsed /\ pc' # "teardown"
        /\ pc' \notin Opening /\ pc' \notin Unscanned /\ pc' # "open"
    BY DEF TakingLabels, RunLabels, TokenLabels, HeldLabels, Begun, SetupLabels, Unparsed,
           Unscanned, Opening, OpenLabels
  <1>2. /\ config'.file # NULL => mem'.made["file"] # 0
        /\ params'.block = NULL
        /\ pc' \notin {"main", "cli", "new_params", "new_config"} \cup SetupLabels
    BY <1>1, SteadyUnset
  <1>3. Reader' = "parse" => driver'.tree = NULL
    BY DEF Unset
  <1>4. Reader' \in {"print_first", "print"} => mem'.made["reader"] # 0 /\ mem'.made["parser"] = 0
    BY DEF Unset
  <1>5. QED
    BY <1>1, <1>2, <1>3, <1>4 DEF Unset

\* scanner_new
LEMMA ScannerNewKept ==
  ASSUME ProgramInv, KeptInv, ScannerNew
  PROVE  KeptInv'
  <1> SUFFICES ASSUME mem'.refused = {} PROVE KeptInv'
    BY KeptRefused
  <1>1. pc = "scanner_new" /\ pc \in RunLabels /\ Steady /\ Counted(mem) /\ buffer' = buffer
    BY MemCounted DEF ScannerNew, RunLabels, Steady
  <1>2. PICK s \in Malloc(mem, "scanner") :
          \E t \in (IF s.pointer = NULL THEN {s} ELSE Malloc(s.mem, "tokens")) :
            IF t.pointer = NULL THEN mem' = Free(t.mem, s.pointer)
            ELSE /\ mem' = t.mem
                 /\ driver' = [driver EXCEPT !.scanner = s.pointer]
                 /\ tokens' = NoTokens(t.pointer)
                 /\ IF config.mode = "scanner" THEN ReadToken("print_first")
                    ELSE Goto("parser_new")
    BY DEF ScannerNew
  <1>3. PICK t \in (IF s.pointer = NULL THEN {s} ELSE Malloc(s.mem, "tokens")) :
          IF t.pointer = NULL THEN mem' = Free(t.mem, s.pointer)
          ELSE /\ mem' = t.mem
               /\ driver' = [driver EXCEPT !.scanner = s.pointer]
               /\ tokens' = NoTokens(t.pointer)
               /\ IF config.mode = "scanner" THEN ReadToken("print_first")
                  ELSE Goto("parser_new")
    BY <1>2
  <1>4. Shaped(s.mem) /\ (Grants(mem, s, "scanner") \/ Refuses(mem, s, "scanner"))
    BY <1>1, <1>2, MallocAnswers DEF Counted, Roles
  <1>5. /\ Shaped(t.mem)
        /\ t = s \/ (t \in Malloc(s.mem, "tokens") /\ s.mem.refused \subseteq t.mem.refused)
    <2>1. CASE s.pointer = NULL
      BY <1>3, <1>4, <2>1
    <2>2. CASE s.pointer # NULL
      <3>1. t \in Malloc(s.mem, "tokens")
        BY <1>3, <2>2
      <3>2. Shaped(t.mem) /\ (Grants(s.mem, t, "tokens") \/ Refuses(s.mem, t, "tokens"))
        BY <1>4, <3>1, MallocAnswers DEF Roles
      <3>3. QED
        BY <3>1, <3>2 DEF Grants, Refuses
    <2>3. QED
      BY <2>1, <2>2
  <1>6. t.mem.refused = {} /\ s.mem.refused = {}
    <2>1. mem' = t.mem \/ mem' = Free(t.mem, s.pointer)
      BY <1>3
    <2>2. Frees(t.mem, Free(t.mem, s.pointer))
      BY <1>5, FreeFrees
    <2>3. QED
      BY <1>5, <2>1, <2>2 DEF Frees
  <1>7. Adds(mem, s.mem, s.pointer, "scanner")
    BY <1>1, <1>2, <1>6, MallocAdds DEF Roles
  <1>8. Adds(s.mem, t.mem, t.pointer, "tokens")
    <2>1. t \in Malloc(s.mem, "tokens") /\ Counted(s.mem)
      BY <1>3, <1>7 DEF Adds
    <2>2. QED
      BY <1>6, <2>1, MallocAdds DEF Roles
  <1>9. /\ mem' = t.mem /\ tokens' = NoTokens(t.pointer)
        /\ driver' = [driver EXCEPT !.scanner = s.pointer]
        /\ \/ pc' = "parser_new"
           \/ pc' = "scan" /\ caller' = "print_first"
    BY <1>3, <1>8 DEF Adds, ReadToken, Goto
  <1>10. /\ mem.refused = {} /\ mem'.live = mem.live \cup {s.pointer, t.pointer}
         /\ \A role \in {"reader", "parser", "file"} : mem'.made[role] = mem.made[role]
    <2>1. \A role \in {"reader", "parser", "file"} : role \in Roles \ {"scanner", "tokens"}
      BY DEF Roles
    <2>2. QED
      BY <1>7, <1>8, <1>9, <2>1 DEF Adds
  <1>11. ASSUME Smooth' PROVE Attached' /\ Unset'
    <2>1. Attached /\ Unset
      BY <1>1, <1>10, <1>11, SmoothBack, KeptSoFar DEF EndLabels
    <2>2. /\ driver.scanner = NULL /\ driver.parser = NULL /\ driver.tree = NULL
          /\ tokens.block = NULL /\ tokens.values = NULL /\ tokens.count = 0
          /\ mem.made["reader"] # 0 /\ mem.made["parser"] = 0
      BY <1>1, <2>1 DEF Unset, Unscanned, Unparsed
    <2>3. driver' = [reader |-> driver.reader, path |-> driver.path, stream |-> driver.stream,
                     scanner |-> s.pointer, parser |-> NULL, tree |-> NULL]
      BY <1>9, <2>2, DriverFields
    <2>4. Owners \subseteq Owners' \cup {NULL}
      <3>1. ProcessOwns' = ProcessOwns
        BY <1>1 DEF Steady, cliVars, ProcessOwns
      <3>2. DriverOwns \subseteq DriverOwns' \cup {NULL}
        BY <2>2, <2>3 DEF DriverOwns
      <3>3. TokensOwn \subseteq {NULL} /\ TokenOwns \subseteq TokenOwns'
        BY <1>1, <2>2 DEF TokensOwn, Contents, TokenOwns
      <3>4. QED
        BY <3>1, <3>2, <3>3 DEF Owners
    <2>5. s.pointer \in Owners' /\ t.pointer \in Owners'
      BY <1>9, <2>3 DEF NoTokens, Owners, DriverOwns, TokensOwn
    <2>6. Attached'
      <3>1. NULL \notin mem.live
        BY MemCounted
      <3>2. QED
        BY <1>10, <2>1, <2>4, <2>5, <3>1 DEF Attached
    <2>7. mem'.made["reader"] # 0 /\ mem'.made["parser"] = 0 /\ mem'.made["file"] = mem.made["file"]
      BY <1>10, <2>2
    <2>8. driver'.parser = NULL /\ driver'.tree = NULL
      BY <2>3
    <2>9. /\ pc' \in RunLabels /\ pc' \notin Begun /\ pc' \notin Unscanned /\ pc' \notin Opening
          /\ pc' \notin {"open", "teardown"}
      BY <1>9 DEF Begun, SetupLabels, RunLabels, Unscanned, Opening, OpenLabels, TokenLabels
    <2>10. Unset'
      BY <1>1, <2>1, <2>7, <2>8, <2>9, SteadyUnset DEF Unset
    <2>11. QED
      BY <2>6, <2>10
  <1>12. QED
    BY <1>9, <1>11, KeptGoes DEF EndLabels

\* A number gets its buffer, or has already given it back.
LEMMA ScanKept ==
  ASSUME ProgramInv, Handed, KeptInv, Scan \/ ScanNumber, TokensOnly
  PROVE  KeptInv'
  <1> SUFFICES ASSUME mem'.refused = {} PROVE KeptInv'
    BY KeptRefused
  <1>1. /\ pc = "scan" /\ pc \in RunLabels /\ Steady
        /\ tokens' = tokens /\ caller' = caller /\ driver' = driver /\ Counted(mem)
    BY MemCounted DEF Scan, ScanNumber, TokensOnly, RunLabels, TokenLabels, Steady, tokenVars
  <1>2. buffer = NULL
    BY <1>1 DEF Handed, EndLabels
  <1>3. /\ pc' \in {"token_new", "crashed"}
        /\ mem.refused = {}
        /\ \A role \in {"reader", "parser", "file"} : mem'.made[role] = mem.made[role]
        /\ mem'.live \subseteq mem.live \cup {buffer'}
    <2>1. CASE Scan
      BY <2>1 DEF Scan, Goto
    <2>2. CASE ScanNumber
      <3>1. PICK o \in Malloc(mem, "number") :
              \/ o.pointer = NULL /\ mem' = o.mem
              \/ /\ o.pointer # NULL
                 /\ \/ mem' = o.mem /\ buffer' = o.pointer
                    \/ mem' = Free(o.mem, o.pointer)
                 /\ pc' \in {"token_new", "crashed"}
        BY <2>2 DEF ScanNumber, Goto
      <3>2. Shaped(o.mem)
        BY <1>1, <3>1, MallocAnswers DEF Counted, Roles
      <3>3. /\ Frees(o.mem, Free(o.mem, o.pointer))
            /\ Free(o.mem, o.pointer).live = IF o.pointer = NULL THEN o.mem.live
                                             ELSE o.mem.live \ {o.pointer}
        BY <3>2, FreeFrees
      <3>4. o.mem.refused = {}
        BY <3>1, <3>3 DEF Frees
      <3>5. Adds(mem, o.mem, o.pointer, "number")
        BY <1>1, <3>1, <3>4, MallocAdds DEF Roles
      <3>6. \A role \in {"reader", "parser", "file"} : o.mem.made[role] = mem.made[role]
        <4>1. \A role \in {"reader", "parser", "file"} : role \in Roles \ {"number"}
          BY DEF Roles
        <4>2. QED
          BY <3>5, <4>1 DEF Adds
      <3>7. /\ o.pointer # NULL /\ o.mem.live = mem.live \cup {o.pointer}
            /\ mem.refused = {}
        BY <3>5 DEF Adds
      <3>8. CASE mem' = o.mem /\ buffer' = o.pointer
        BY <3>1, <3>6, <3>7, <3>8
      <3>9. CASE mem' = Free(o.mem, o.pointer)
        BY <3>1, <3>3, <3>6, <3>7, <3>9 DEF Frees
      <3>10. QED
        BY <3>1, <3>7, <3>8, <3>9
    <2>3. QED
      BY <2>1, <2>2
  <1>4. ASSUME pc' = "token_new", Smooth' PROVE Attached' /\ Unset'
    <2>1. Attached /\ Unset
      BY <1>1, <1>3, <1>4, SmoothBack, KeptSoFar DEF EndLabels
    <2>2. Owners \subseteq Owners' \cup {NULL}
      <3>1. ProcessOwns' = ProcessOwns /\ DriverOwns' = DriverOwns /\ TokensOwn' = TokensOwn
        BY <1>1 DEF Steady, cliVars, ProcessOwns, DriverOwns, TokensOwn, Contents
      <3>2. TokenOwns \subseteq {NULL}
        BY <1>1, <1>2 DEF TokenOwns
      <3>3. QED
        BY <3>1, <3>2 DEF Owners
    <2>3. buffer' \in Owners'
      BY DEF Owners, TokenOwns
    <2>4. Attached'
      BY <1>3, <2>1, <2>2, <2>3, AttachedBy
    <2>5. pc' \in TakingLabels /\ Reader' = Reader
      BY <1>1, <1>4 DEF TakingLabels, TokenLabels, Reader
    <2>6. Unset'
      BY <1>1, <1>3, <2>1, <2>5, TakingUnset
    <2>7. QED
      BY <2>4, <2>6
  <1>5. CASE pc' = "token_new"
    BY <1>4, <1>5, KeptGoes DEF EndLabels
  <1>6. CASE pc' = "crashed"
    BY <1>6 DEF KeptInv, EndLabels
  <1>7. QED
    BY <1>3, <1>5, <1>6

\* A token without its text.
LEMMA TokenNewKept ==
  ASSUME ProgramInv, KeptInv, TokenNew, TokensOnly
  PROVE  KeptInv'
  <1> SUFFICES ASSUME mem'.refused = {} PROVE KeptInv'
    BY KeptRefused
  <1>1. /\ pc = "token_new" /\ pc \in RunLabels /\ Steady
        /\ tokens' = tokens /\ caller' = caller /\ buffer' = buffer /\ driver' = driver
        /\ Counted(mem)
    BY MemCounted DEF TokenNew, TokensOnly, RunLabels, TokenLabels, Steady
  <1>2. PICK o \in Malloc(mem, "shell") :
          /\ mem' = o.mem
          /\ IF o.pointer = NULL THEN ExitWith(NO_MEM)
             ELSE Goto(IF NextType = "EOS" THEN "token_add" ELSE "token_content")
    BY DEF TokenNew
  <1>3. Adds(mem, mem', o.pointer, "shell")
    BY <1>1, <1>2, MallocAdds DEF Roles
  <1>4. pc' \in {"token_content", "token_add"}
    BY <1>2, <1>3 DEF Adds, Goto
  <1>5. \A other \in {"reader", "parser", "file"} : mem'.made[other] = mem.made[other]
    <2>1. \A other \in {"reader", "parser", "file"} : other \in Roles \ {"shell"}
      BY DEF Roles
    <2>2. QED
      BY <1>3, <2>1 DEF Adds
  <1>6. ASSUME Smooth' PROVE Attached' /\ Unset'
    <2>1. Attached /\ Unset
      BY <1>1, <1>3, <1>5, <1>6, SmoothBack, KeptSoFar DEF EndLabels, Adds
    <2>2. Owners \subseteq Owners' \cup {NULL}
      BY <1>1, DriverOwnsMore DEF DriverOwns
    <2>3. Attached'
      BY <1>3, <2>1, <2>2, AttachedBy DEF Adds, Scraps
    <2>4. pc' \in TakingLabels /\ Reader' = Reader
      BY <1>1, <1>4 DEF TakingLabels, TokenLabels, Reader
    <2>5. Unset'
      BY <1>1, <1>5, <2>1, <2>4, TakingUnset
    <2>6. QED
      BY <2>3, <2>5
  <1>7. QED
    BY <1>4, <1>6, KeptGoes DEF EndLabels

\* The token gets its text, and the buffer of a number is freed.
LEMMA TokenContentKept ==
  ASSUME ProgramInv, KeptInv, TokenContent, TokensOnly
  PROVE  KeptInv'
  <1> SUFFICES ASSUME mem'.refused = {} PROVE KeptInv'
    BY KeptRefused
  <1>1. /\ pc = "token_content" /\ pc \in RunLabels /\ Steady
        /\ tokens' = tokens /\ caller' = caller /\ driver' = driver
        /\ Counted(mem) /\ NULL \notin mem.live
    BY MemCounted DEF TokenContent, TokensOnly, RunLabels, TokenLabels, Steady
  <1>2. PICK o \in Malloc(mem, "content") :
          IF o.pointer = NULL THEN mem' = Free(o.mem, token.shell)
          ELSE /\ mem' = Free(o.mem, buffer)
               /\ token' = [token EXCEPT !.content = o.pointer] /\ Goto("token_add")
    BY DEF TokenContent, BufferFreed
  <1>3. Shaped(o.mem)
    BY <1>1, <1>2, MallocAnswers DEF Counted, Roles
  <1>4. /\ Frees(o.mem, Free(o.mem, buffer)) /\ Frees(o.mem, Free(o.mem, token.shell))
        /\ Free(o.mem, buffer).live = IF buffer = NULL THEN o.mem.live ELSE o.mem.live \ {buffer}
    BY <1>3, FreeFrees
  <1>5. o.mem.refused = {}
    BY <1>2, <1>4 DEF Frees
  <1>6. Adds(mem, o.mem, o.pointer, "content")
    BY <1>1, <1>2, <1>5, MallocAdds DEF Roles
  <1>7. /\ mem' = Free(o.mem, buffer) /\ pc' = "token_add"
        /\ token' = [token EXCEPT !.content = o.pointer]
    BY <1>2, <1>6 DEF Adds, Goto
  <1>8. token'.content = o.pointer
    BY <1>7, TokenTypes
  <1>9. /\ mem.refused = {} /\ o.mem.live = mem.live \cup {o.pointer}
        /\ mem'.live = IF buffer = NULL THEN o.mem.live ELSE o.mem.live \ {buffer}
    BY <1>4, <1>6, <1>7 DEF Adds
  <1>10. \A other \in {"reader", "parser", "file"} : mem'.made[other] = mem.made[other]
    <2>1. \A other \in {"reader", "parser", "file"} : other \in Roles \ {"content"}
      BY DEF Roles
    <2>2. QED
      BY <1>4, <1>6, <1>7, <2>1 DEF Adds, Frees
  <1>11. ASSUME Smooth' PROVE Attached' /\ Unset'
    <2>1. Attached /\ Unset
      BY <1>1, <1>9, <1>10, <1>11, SmoothBack, KeptSoFar DEF EndLabels
    <2>2. Owners \subseteq Owners' \cup {buffer}
      <3>1. ProcessOwns' = ProcessOwns /\ DriverOwns' = DriverOwns /\ TokensOwn' = TokensOwn
        BY <1>1 DEF Steady, cliVars, ProcessOwns, DriverOwns, TokensOwn, Contents
      <3>2. TokenOwns \subseteq {buffer}
        BY <1>1 DEF TokenOwns
      <3>3. QED
        BY <3>1, <3>2 DEF Owners
    <2>3. o.pointer \in Owners'
      BY <1>7, <1>8 DEF Owners, TokenOwns
    <2>4. Attached'
      BY <1>1, <1>9, <2>1, <2>2, <2>3 DEF Attached
    <2>5. pc' \in TakingLabels /\ Reader' = Reader
      BY <1>1, <1>7 DEF TakingLabels, TokenLabels, Reader
    <2>6. Unset'
      BY <1>1, <1>10, <2>1, <2>5, TakingUnset
    <2>7. QED
      BY <2>4, <2>6
  <1>12. QED
    BY <1>7, <1>11, KeptGoes DEF EndLabels

\* The array keeps its texts, and has the one that is put.
LEMMA PutOwns ==
  ASSUME ProgramInv,
         NEW capacity \in Nat, tokens.count < capacity,
         NEW elements \in Seq(Element), Len(elements) = capacity, NEW values \in Pointer,
         \A i \in 1 .. tokens.count : elements[i] = tokens.elements[i],
         tokens' = Put([block |-> tokens.block, count |-> tokens.count,
                        capacity |-> capacity, values |-> values, elements |-> elements])
  PROVE  /\ tokens'.block = tokens.block /\ tokens'.values = values
         /\ Contents \cup {token.content} \subseteq Contents'
  <1>1. /\ tokens.count \in Nat /\ tokens.block \in Pointer
        /\ token.type \in TokenType /\ token.content \in Pointer
    BY TokenTypes
  <1>2. /\ tokens' = [block |-> tokens.block, count |-> tokens.count + 1, capacity |-> capacity,
                      values |-> values, elements |-> tokens'.elements]
        /\ tokens'.elements[tokens.count + 1] = [type |-> token.type, content |-> token.content]
        /\ \A i \in 1 .. tokens.count : tokens'.elements[i] = elements[i]
    BY <1>1, PutResult
  <1>3. tokens'.block = tokens.block /\ tokens'.values = values /\ tokens'.count = tokens.count + 1
    BY <1>2
  <1>4. tokens.count + 1 \in 1 .. tokens.count + 1 /\ 1 .. tokens.count \subseteq 1 .. tokens.count + 1
    BY <1>1
  <1>5. token.content \in Contents'
    BY <1>2, <1>3, <1>4 DEF Contents
  <1>6. Contents \subseteq Contents'
    <2>1. \A i \in 1 .. tokens.count : tokens'.elements[i].content = tokens.elements[i].content
      BY <1>2
    <2>2. QED
      BY <1>3, <1>4, <2>1 DEF Contents
  <1>7. QED
    BY <1>3, <1>5, <1>6

\* The text on its way becomes one of the array, and the elements keep their block,
\* moved or not.
LEMMA ArrTokenAddKept ==
  ASSUME ProgramInv, KeptInv, ArrTokenAdd, TokensOnly
  PROVE  KeptInv'
  <1> SUFFICES ASSUME mem'.refused = {} PROVE KeptInv'
    BY KeptRefused
  <1>1. /\ pc = "token_add" /\ pc \in RunLabels /\ Steady
        /\ caller' = caller /\ buffer' = buffer /\ driver' = driver
        /\ Counted(mem) /\ NULL \notin mem.live
    BY MemCounted DEF ArrTokenAdd, TokensOnly, RunLabels, TokenLabels, Steady
  <1>2. caller \in {"print_first", "print", "parse", "parsing"}
    BY <1>1 DEF ProgramInv, Relied, TokenLabels, HeldLabels
  <1>3. /\ tokens.block # NULL /\ tokens.count <= tokens.capacity
        /\ Len(tokens.elements) = tokens.capacity /\ Stored
    BY <1>1 DEF ProgramInv, Relied, TokenLabels, Stored, ElementsKept, ArrayKept, EndLabels
  <1>4. /\ tokens.count \in Nat /\ tokens.capacity \in Nat
        /\ tokens.values \in Pointer /\ tokens.elements \in Seq(Element)
        /\ tokens = [block |-> tokens.block, count |-> tokens.count,
                     capacity |-> tokens.capacity, values |-> tokens.values,
                     elements |-> tokens.elements]
    BY TokenTypes
  <1>5. \A m : Shaped(m) => \A t : Frees(m, Returned(Written(m, t))) /\ Returned(Written(m, t)).live = m.live
    BY TouchFrees DEF Returned, Written
  <1>6. /\ pc' = caller
        /\ tokens'.block = tokens.block /\ Contents \cup {token.content} \subseteq Contents'
        /\ mem.refused = {}
        /\ \A role \in {"reader", "parser", "file"} : mem'.made[role] = mem.made[role]
        /\ mem'.live \subseteq mem.live \cup {tokens'.values}
        /\ tokens.values # tokens'.values => tokens.values \notin mem'.live
    <2>1. CASE ~Full(tokens)
      <3>1. mem' = Returned(Written(mem, tokens)) /\ tokens' = Put(tokens) /\ pc' = caller
        BY <2>1 DEF ArrTokenAdd, Goto
      <3>2. Frees(mem, mem') /\ mem'.live = mem.live
        BY <1>1, <1>5, <3>1 DEF Counted
      <3>3. tokens.count < tokens.capacity
        BY <1>3, <1>4, <2>1 DEF Full
      <3>4. /\ tokens'.block = tokens.block /\ tokens'.values = tokens.values
            /\ Contents \cup {token.content} \subseteq Contents'
        <4>1. \A i \in 1 .. tokens.count : tokens.elements[i] = tokens.elements[i]
          OBVIOUS
        <4>2. tokens' = Put([block |-> tokens.block, count |-> tokens.count,
                             capacity |-> tokens.capacity, values |-> tokens.values,
                             elements |-> tokens.elements])
          BY <1>4, <3>1
        <4>3. QED
          BY <1>3, <1>4, <3>3, <4>1, <4>2, PutOwns
      <3>5. QED
        BY <3>1, <3>2, <3>4 DEF Frees
    <2>2. CASE Full(tokens)
      <3>1. PICK o \in Realloc(mem, tokens.values, "values") :
              IF o.pointer = NULL THEN mem' = o.mem
              ELSE /\ mem' = Returned(Written(o.mem, Grown(tokens, o.pointer)))
                   /\ tokens' = Put(Grown(tokens, o.pointer))
                   /\ pc' = caller
        BY <2>2 DEF ArrTokenAdd, Goto
      <3>2. /\ Shaped(o.mem)
            /\ \/ Refuses(mem, o, "values")
               \/ /\ o.pointer # NULL /\ o.mem.refused = mem.refused
                  /\ o.mem.live \subseteq mem.live \cup {o.pointer}
                  /\ tokens.values # NULL /\ tokens.values # o.pointer => tokens.values \notin o.mem.live
                  /\ \A other \in DOMAIN mem.made : other # "values" => o.mem.made[other] = mem.made[other]
        BY <1>1, <3>1, ReallocAnswers DEF Counted, Roles
      <3>3. ~Refuses(mem, o, "values")
        BY <3>1 DEF Refuses
      <3>4. /\ o.pointer # NULL /\ o.mem.refused = mem.refused
            /\ o.mem.live \subseteq mem.live \cup {o.pointer}
            /\ tokens.values # NULL /\ tokens.values # o.pointer => tokens.values \notin o.mem.live
            /\ \A other \in DOMAIN mem.made : other # "values" => o.mem.made[other] = mem.made[other]
        BY <3>2, <3>3
      <3>5. /\ mem' = Returned(Written(o.mem, Grown(tokens, o.pointer)))
            /\ tokens' = Put(Grown(tokens, o.pointer)) /\ pc' = caller
        BY <3>1, <3>4
      <3>6. Frees(o.mem, mem') /\ mem'.live = o.mem.live
        BY <1>5, <3>2, <3>5
      <3>7. o.pointer \in Pointer
        <4>1. Healthy(mem) /\ Ref(mem, tokens.values, "values") /\ "values" \in Roles
          BY DEF ProgramInv, Owned, Roles
        <4>2. QED
          BY <3>1, <4>1, ReallocResult
      <3>8. /\ tokens'.block = tokens.block /\ tokens'.values = o.pointer
            /\ Contents \cup {token.content} \subseteq Contents'
        <4> DEFINE grown == Grown(tokens, o.pointer).elements
                   capacity == GrowCapacity(tokens.capacity)
        <4>1. /\ Grown(tokens, o.pointer) =
                    [block |-> tokens.block, count |-> tokens.count, capacity |-> capacity,
                     values |-> o.pointer, elements |-> grown]
              /\ grown \in Seq(Element) /\ Len(grown) = capacity
              /\ \A i \in 1 .. tokens.capacity : grown[i] = tokens.elements[i]
          BY <1>1, <1>3, <3>7, GrownResult DEF EndLabels
        <4>2. capacity \in Nat /\ tokens.capacity < capacity
          BY <1>4, GrowCapacityGrows
        <4> HIDE DEF grown, capacity
        <4>3. tokens.count < capacity /\ \A i \in 1 .. tokens.count : grown[i] = tokens.elements[i]
          BY <1>3, <1>4, <4>1, <4>2
        <4>4. tokens' = Put([block |-> tokens.block, count |-> tokens.count, capacity |-> capacity,
                             values |-> o.pointer, elements |-> grown])
          BY <3>5, <4>1
        <4>5. QED
          BY <3>7, <4>1, <4>2, <4>3, <4>4, PutOwns
      <3>9. mem.refused = {}
        BY <3>4, <3>6 DEF Frees
      <3>10. \A role \in {"reader", "parser", "file"} : mem'.made[role] = mem.made[role]
        <4>1. \A role \in {"reader", "parser", "file"} : role \in DOMAIN mem.made /\ role # "values"
          BY <1>1 DEF Counted, Roles
        <4>2. QED
          BY <3>4, <3>6, <4>1 DEF Frees
      <3>11. QED
        BY <1>1, <3>4, <3>5, <3>6, <3>7, <3>8, <3>9, <3>10 DEF Pointer
    <2>3. QED
      BY <2>1, <2>2
  <1>7. ASSUME Smooth' PROVE Attached' /\ Unset'
    <2>1. Attached /\ Unset
      BY <1>1, <1>6, <1>7, SmoothBack, KeptSoFar DEF EndLabels
    <2>2. Owners \subseteq Owners' \cup {tokens.values}
      <3>1. ProcessOwns' = ProcessOwns /\ DriverOwns' = DriverOwns
        BY <1>1 DEF Steady, cliVars, ProcessOwns, DriverOwns
      <3>2. TokensOwn \cup TokenOwns \subseteq TokensOwn' \cup TokenOwns' \cup {tokens.values}
        BY <1>1, <1>6 DEF TokensOwn, TokenOwns
      <3>3. QED
        BY <3>1, <3>2 DEF Owners
    <2>3. tokens'.values \in Owners'
      BY DEF Owners, TokensOwn
    <2>4. Attached'
      BY <1>6, <2>1, <2>2, <2>3 DEF Attached
    <2>5. pc' \in TakingLabels /\ Reader' = Reader
      BY <1>1, <1>2, <1>6 DEF TakingLabels, TokenLabels, Reader
    <2>6. Unset'
      BY <1>1, <1>6, <2>1, <2>5, TakingUnset
    <2>7. QED
      BY <2>4, <2>6
  <1>8. pc' \notin EndLabels
    BY <1>2, <1>6 DEF EndLabels
  <1>9. QED
    BY <1>7, <1>8, KeptGoes

\* Reading the token leaves the live blocks.
LEMMA HeldLive ==
  ASSUME ProgramInv
  PROVE  HeldTouched(mem).live = mem.live
  <1>1. Shaped(mem)
    BY MemShaped
  <1>2. Shaped(Touch(mem, token.shell)) /\ Touch(mem, token.shell).live = mem.live
    BY <1>1, TouchFrees DEF Frees
  <1>3. Touch(Touch(mem, token.shell), token.content).live = mem.live
    BY <1>2, TouchFrees
  <1>4. QED
    BY <1>2, <1>3 DEF HeldTouched

\* test_scanner, which leaves everything where it is.
LEMMA TestScannerKept ==
  ASSUME ProgramInv, KeptInv, TestScanner
  PROVE  KeptInv'
  <1>1. /\ pc \in {"print_first", "print"} /\ pc \in RunLabels /\ Steady
        /\ tokens' = tokens /\ buffer' = buffer /\ driver' = driver
        /\ Counted(mem) /\ NULL \notin mem.live
        /\ pc' = "teardown" \/ (pc' = "scan" /\ caller' = "print")
    BY MemCounted
       DEF TestScanner, RunLabels, HeldLabels, Steady, DriverReturns, Goto, ReadToken
  <1>2. Frees(mem, mem') /\ mem'.live = mem.live
    <2>1. mem' = HeldTouched(mem)
      BY DEF TestScanner
    <2>2. QED
      BY <2>1, HeldFrees, HeldLive
  <1>3. ASSUME Smooth' PROVE Attached' /\ Unset'
    <2>1. Attached /\ Unset
      BY <1>1, <1>2, <1>3, KeptSoFar DEF Frees, Smooth, EndLabels
    <2>2. Owners \subseteq Owners' \cup {NULL}
      BY <1>1, DriverOwnsMore DEF DriverOwns
    <2>3. Attached'
      BY <1>1, <1>2, <2>1, <2>2 DEF Attached
    <2>4. CASE pc' = "scan"
      <3>1. pc' \in TakingLabels /\ Reader' = "print" /\ Reader = pc
        BY <1>1, <2>4 DEF TakingLabels, TokenLabels, Reader
      <3>2. QED
        BY <1>1, <1>2, <2>1, <2>3, <3>1, TakingUnset DEF Frees
    <2>5. CASE pc' = "teardown"
      <3>1. Reader = pc
        BY <1>1 DEF Reader, TokenLabels
      <3>2. mem.made["reader"] # 0 /\ mem.made["parser"] = 0
        BY <1>1, <2>1, <3>1 DEF Unset
      <3>3. pc' \in RunLabels /\ pc' \notin Begun /\ pc' \notin Unparsed /\ pc' \notin Unscanned
            /\ pc' \notin Opening /\ pc' # "open" /\ Reader' = "teardown"
        BY <2>5 DEF RunLabels, Begun, SetupLabels, Unparsed, Unscanned, Opening, OpenLabels, Reader,
                    TokenLabels
      <3>4. Unset'
        BY <1>1, <1>2, <2>1, <3>2, <3>3, SteadyUnset DEF Unset, Frees
      <3>5. QED
        BY <2>3, <3>4
    <2>6. QED
      BY <1>1, <2>4, <2>5
  <1>4. QED
    BY <1>1, <1>3, KeptGoes DEF EndLabels

\* The parser and its tree.
LEMMA ParserNewKept ==
  ASSUME ProgramInv, KeptInv, ParserNew
  PROVE  KeptInv'
  <1> SUFFICES ASSUME mem'.refused = {} PROVE KeptInv'
    BY KeptRefused
  <1>1. /\ pc = "parser_new" /\ pc \in RunLabels /\ Steady /\ Counted(mem)
        /\ tokens' = tokens /\ buffer' = buffer
    BY MemCounted DEF ParserNew, RunLabels, Steady, tokenVars
  <1>2. PICK o \in Malloc(mem, "parser") :
          /\ mem' = o.mem
          /\ driver' = [driver EXCEPT !.parser = o.pointer]
          /\ IF o.pointer = NULL THEN ExitWith(NO_MEM) ELSE ReadToken("parse")
    BY DEF ParserNew
  <1>3. Adds(mem, mem', o.pointer, "parser")
    BY <1>1, <1>2, MallocAdds DEF Roles
  <1>4. pc' = "scan" /\ caller' = "parse"
    BY <1>2, <1>3 DEF Adds, ReadToken
  <1>5. mem.refused = {} /\ mem'.made["file"] = mem.made["file"]
    BY <1>3 DEF Adds, Roles
  <1>6. ASSUME Smooth' PROVE Attached' /\ Unset'
    <2>1. Attached /\ Unset
      BY <1>1, <1>5, <1>6, SmoothBack, KeptSoFar DEF EndLabels
    <2>2. driver.parser = NULL /\ driver.tree = NULL
      BY <1>1, <2>1 DEF Unset, Unparsed
    <2>3. driver' = [reader |-> driver.reader, path |-> driver.path, stream |-> driver.stream,
                     scanner |-> driver.scanner, parser |-> o.pointer, tree |-> NULL]
      BY <1>2, <2>2, DriverFields
    <2>4. Owners \subseteq Owners' \cup {NULL} /\ o.pointer \in Owners'
      <3>1. DriverOwns \subseteq DriverOwns' \cup {NULL} /\ o.pointer \in DriverOwns'
        BY <2>2, <2>3 DEF DriverOwns
      <3>2. QED
        BY <1>1, <3>1, DriverOwnsMore DEF Owners
    <2>5. Attached'
      BY <1>3, <2>1, <2>4, AttachedBy DEF Adds
    <2>6. /\ pc' \in RunLabels /\ pc' \notin Begun /\ pc' \notin Unparsed /\ pc' \notin Unscanned
          /\ pc' \notin Opening /\ pc' \notin {"open", "teardown"} /\ Reader' = "parse"
      BY <1>4 DEF RunLabels, Begun, SetupLabels, Unparsed, Unscanned, Opening, OpenLabels, Reader,
                  TokenLabels
    <2>7. driver'.tree = NULL
      BY <2>3
    <2>8. Unset'
      BY <1>1, <1>5, <2>1, <2>6, <2>7, SteadyUnset DEF Unset
    <2>9. QED
      BY <2>5, <2>8
  <1>7. QED
    BY <1>4, <1>6, KeptGoes DEF EndLabels

\* parser_parse begins its tree.
LEMMA ParserParseKept ==
  ASSUME ProgramInv, KeptInv, ParserParse
  PROVE  KeptInv'
  <1> SUFFICES ASSUME mem'.refused = {} PROVE KeptInv'
    BY KeptRefused
  <1>1. /\ pc = "parse" /\ pc \in RunLabels /\ Steady /\ UNCHANGED tokenVars /\ Counted(mem)
    BY MemCounted DEF ParserParse, RunLabels, HeldLabels, Steady
  <1>2. PICK o \in Malloc(mem, "tree") :
          /\ mem' = o.mem
          /\ driver' = [driver EXCEPT !.tree = o.pointer]
          /\ IF o.pointer = NULL THEN ExitWith(NO_MEM) ELSE Goto("parsing")
    BY DEF ParserParse
  <1>3. Adds(mem, mem', o.pointer, "tree")
    BY <1>1, <1>2, MallocAdds DEF Roles
  <1>4. pc' = "parsing"
    BY <1>2, <1>3 DEF Adds, Goto
  <1>5. mem.refused = {} /\ mem'.made["file"] = mem.made["file"]
    BY <1>3 DEF Adds, Roles
  <1>6. ASSUME Smooth' PROVE Attached' /\ Unset'
    <2>1. Attached /\ Unset
      BY <1>1, <1>5, <1>6, SmoothBack, KeptSoFar DEF EndLabels
    <2>2. driver.tree = NULL
      BY <1>1, <2>1 DEF Unset, Reader, TokenLabels
    <2>3. driver' = [reader |-> driver.reader, path |-> driver.path, stream |-> driver.stream,
                     scanner |-> driver.scanner, parser |-> driver.parser, tree |-> o.pointer]
      BY <1>2, DriverFields
    <2>4. Owners \subseteq Owners' \cup {NULL} /\ o.pointer \in Owners'
      <3>1. DriverOwns \subseteq DriverOwns' \cup {NULL} /\ o.pointer \in DriverOwns'
        BY <2>2, <2>3 DEF DriverOwns
      <3>2. QED
        BY <1>1, <3>1, DriverOwnsMore DEF tokenVars, Owners
    <2>5. Attached'
      BY <1>3, <2>1, <2>4, AttachedBy DEF Adds
    <2>6. /\ pc' \in RunLabels /\ pc' \notin Begun /\ pc' \notin Unparsed /\ pc' \notin Unscanned
          /\ pc' \notin Opening /\ pc' \notin {"open", "teardown"} /\ Reader' = "parsing"
      BY <1>4 DEF RunLabels, Begun, SetupLabels, Unparsed, Unscanned, Opening, OpenLabels, Reader,
                  TokenLabels, HeldLabels
    <2>7. Unset'
      BY <1>1, <1>5, <2>1, <2>6, SteadyUnset DEF Unset
    <2>8. QED
      BY <2>5, <2>7
  <1>7. QED
    BY <1>4, <1>6, KeptGoes DEF EndLabels

\* The parser takes a token, or has come to its end.
LEMMA ParsingKept ==
  ASSUME ProgramInv, KeptInv, Parsing
  PROVE  KeptInv'
  <1> SUFFICES ASSUME mem'.refused = {} PROVE KeptInv'
    BY KeptRefused
  <1>1. /\ pc = "parsing" /\ pc \in RunLabels /\ Steady
        /\ tokens' = tokens /\ buffer' = buffer /\ driver' = driver /\ Counted(mem) /\ NULL \notin mem.live
    BY MemCounted DEF Parsing, RunLabels, HeldLabels, Steady
  <1>2. Frees(mem, HeldTouched(mem)) /\ HeldTouched(mem).live = mem.live
    BY HeldFrees, HeldLive
  <1>3. /\ mem' = HeldTouched(mem)
        /\ pc' = "parsed" \/ (pc' = "scan" /\ caller' = "parsing")
    <2>1. "tree" \in RefusedTo(HeldTouched(mem), "tree").mem.refused
      BY <1>2, RefusedRefuses DEF Frees, Refuses
    <2>2. QED
      BY <2>1 DEF Parsing, ReadToken, Goto
  <1>4. ASSUME Smooth' PROVE Attached' /\ Unset'
    <2>1. Attached /\ Unset
      BY <1>1, <1>2, <1>3, <1>4, KeptSoFar DEF Frees, Smooth, EndLabels
    <2>2. Owners \subseteq Owners' \cup {NULL}
      BY <1>1, DriverOwnsMore DEF DriverOwns
    <2>3. Attached'
      BY <1>1, <1>2, <1>3, <2>1, <2>2 DEF Attached
    <2>4. /\ pc' \in RunLabels /\ pc' \notin Begun /\ pc' \notin Unparsed /\ pc' \notin Unscanned
          /\ pc' \notin Opening /\ pc' \notin {"open", "teardown"}
          /\ Reader' \in {"parsing", "parsed"}
      BY <1>3 DEF RunLabels, Begun, SetupLabels, Unparsed, Unscanned, Opening, OpenLabels, Reader,
                  TokenLabels, HeldLabels
    <2>5. Unset'
      BY <1>1, <1>2, <1>3, <2>1, <2>4, SteadyUnset DEF Unset, Frees
    <2>6. QED
      BY <2>3, <2>5
  <1>5. QED
    BY <1>3, <1>4, KeptGoes DEF EndLabels

\* n has no more live blocks than m, and of those in S none.
Takes(m, n, S) == Frees(m, n) /\ n.live \subseteq m.live /\ n.live \cap S \subseteq {NULL}

\* free takes its block.
LEMMA FreeTakes ==
  ASSUME NEW m, NEW n, NEW S, NEW block, Takes(m, n, S)
  PROVE  Takes(m, Free(n, block), S \cup {block})
  <1>1. Frees(n, Free(n, block)) /\ Free(n, block).live = IF block = NULL THEN n.live ELSE n.live \ {block}
    BY FreeFrees DEF Takes, Frees
  <1>2. QED
    BY <1>1 DEF Takes, Frees

\* arr_token_destroy takes the array, and what is in it.
LEMMA DestroyTakes ==
  ASSUME NEW m, NEW n, NEW S, Takes(m, n, S), tokens.block # NULL, tokens.values # NULL
  PROVE  Takes(m, ArrTokenDestroy(n), S \cup TokensOwn)
  <1> DEFINE contents == [i \in 1 .. tokens.count |-> tokens.elements[i].content]
             touched == Touch(n, tokens.values)
             emptied == FreeEach(touched, contents)
  <1>1. ArrTokenDestroy(n) = Free(Free(emptied, tokens.values), tokens.block)
    BY DEF ArrTokenDestroy
  <1>2. Frees(n, touched) /\ touched.live = n.live
    BY TouchFrees DEF Takes, Frees
  <1>3. /\ Frees(touched, emptied)
        /\ emptied.live = n.live \ {contents[i] : i \in {j \in DOMAIN contents : contents[j] # NULL}}
    <2> HIDE DEF contents, touched
    <2>1. Shaped(touched)
      BY <1>2 DEF Frees
    <2>2. /\ Frees(touched, emptied)
          /\ emptied.live = touched.live \ {contents[i] : i \in {j \in DOMAIN contents : contents[j] # NULL}}
      BY <2>1, FreeEachFrees
    <2>3. QED
      BY <2>2, <1>2
  <1>4. \A content \in Contents : content = NULL \/ content \notin emptied.live
    <2>1. DOMAIN contents = 1 .. tokens.count
          /\ \A i \in 1 .. tokens.count : contents[i] = tokens.elements[i].content
      OBVIOUS
    <2> HIDE DEF contents, emptied
    <2>2. QED
      BY <1>3, <2>1 DEF Contents
  <1> HIDE DEF emptied
  <1>5. Takes(m, emptied, S \cup Contents)
    BY <1>2, <1>3, <1>4 DEF Takes, Frees
  <1>6. Takes(m, Free(emptied, tokens.values), (S \cup Contents) \cup {tokens.values})
    BY <1>5, FreeTakes
  <1>7. Takes(m, ArrTokenDestroy(n), ((S \cup Contents) \cup {tokens.values}) \cup {tokens.block})
    BY <1>1, <1>6, FreeTakes
  <1>8. ((S \cup Contents) \cup {tokens.values}) \cup {tokens.block} = S \cup TokensOwn
    BY DEF TokensOwn
  <1>9. QED
    BY <1>7, <1>8

\* parser_destroy takes everything that the driver and the array hold.
LEMMA ParserTakes ==
  ASSUME ProgramInv, ParserDestroy
  PROVE  Takes(mem, mem', DriverOwns \cup TokensOwn)
  <1>1. pc = "parsed" /\ Shaped(mem) /\ NULL \notin mem.live
    BY MemShaped, MemCounted DEF ParserDestroy
  <1>2. tokens.block # NULL /\ tokens.values # NULL
    <2>1. tokens.block # NULL /\ tokens.count >= 1 /\ ArrayKept
      BY <1>1 DEF ProgramInv, Relied, HeldLabels, ElementsKept
    <2>2. tokens.capacity > 0
      BY <2>1, TokenTypes DEF ArrayKept
    <2>3. QED
      BY <1>1, <2>1, <2>2 DEF ArrayKept
  <1> DEFINE a == Touch(mem, driver.tree)
             b == Free(a, driver.stream)
             c == Free(b, driver.path)
             d == Free(c, driver.reader)
             e == ArrTokenDestroy(d)
             f == Free(e, driver.scanner)
             g == Free(f, driver.tree)
             E == {driver.stream, driver.path, driver.reader} \cup TokensOwn
  <1>3. mem' = Free(g, driver.parser)
    BY DEF ParserDestroy, ScannerDestroy, ReaderDestroy
  <1>4. Takes(mem, a, {})
    BY <1>1, TouchFrees DEF Takes
  <1> HIDE DEF a
  <1>5. Takes(mem, b, {driver.stream})
    <2>1. Takes(mem, b, {} \cup {driver.stream})
      BY <1>4, FreeTakes
    <2>2. QED
      BY <2>1
  <1> HIDE DEF b
  <1>6. Takes(mem, c, {driver.stream} \cup {driver.path})
    BY <1>5, FreeTakes
  <1> HIDE DEF c
  <1>7. Takes(mem, d, ({driver.stream} \cup {driver.path}) \cup {driver.reader})
    BY <1>6, FreeTakes
  <1> HIDE DEF d
  <1>8. Takes(mem, e, E)
    <2>1. Takes(mem, e, (({driver.stream} \cup {driver.path}) \cup {driver.reader}) \cup TokensOwn)
      BY <1>2, <1>7, DestroyTakes
    <2>2. (({driver.stream} \cup {driver.path}) \cup {driver.reader}) \cup TokensOwn = E
      OBVIOUS
    <2> HIDE DEF E
    <2>3. QED
      BY <2>1, <2>2
  <1> HIDE DEF e
  <1>9. Takes(mem, f, E \cup {driver.scanner})
    BY <1>8, FreeTakes
  <1> HIDE DEF f
  <1>10. Takes(mem, g, (E \cup {driver.scanner}) \cup {driver.tree})
    BY <1>9, FreeTakes
  <1> HIDE DEF g
  <1>11. Takes(mem, mem', ((E \cup {driver.scanner}) \cup {driver.tree}) \cup {driver.parser})
    BY <1>3, <1>10, FreeTakes
  <1>12. ((E \cup {driver.scanner}) \cup {driver.tree}) \cup {driver.parser} = DriverOwns \cup TokensOwn
    BY DEF DriverOwns
  <1> HIDE DEF E
  <1>13. QED
    BY <1>11, <1>12

\* parser_destroy leaves neither the driver nor the array anything.
LEMMA ParserDestroyKept ==
  ASSUME ProgramInv, KeptInv, ParserDestroy
  PROVE  KeptInv'
  <1>1. /\ pc = "parsed" /\ pc \in RunLabels /\ pc' = "teardown" /\ Steady
        /\ tokens' = NoTokens(NULL) /\ buffer' = buffer /\ driver' = NoDriver
        /\ NULL \notin mem.live
    BY MemCounted DEF ParserDestroy, RunLabels, HeldLabels, DriverReturns, Goto, Steady
  <1>2. Takes(mem, mem', DriverOwns \cup TokensOwn)
    BY ParserTakes
  <1>3. ASSUME Smooth' PROVE Attached' /\ Unset'
    <2>1. Attached /\ Unset
      BY <1>1, <1>2, <1>3, KeptSoFar DEF Takes, Frees, Smooth, EndLabels
    <2>2. ProcessOwns' = ProcessOwns /\ TokenOwns \subseteq TokenOwns'
      BY <1>1 DEF Steady, cliVars, ProcessOwns, TokenOwns
    <2>3. Attached'
      BY <1>1, <1>2, <2>1, <2>2 DEF Attached, Owners, Takes
    <2>4. Idle'
      BY <1>1 DEF Idle, NoTokens
    <2>5. /\ pc' \in RunLabels /\ pc' \notin Begun /\ pc' \notin Unparsed /\ pc' \notin Unscanned
          /\ pc' \notin Opening /\ pc' # "open" /\ Reader' = "teardown"
      BY <1>1 DEF RunLabels, Begun, SetupLabels, Unparsed, Unscanned, Opening, OpenLabels, Reader,
                  TokenLabels
    <2>6. Unset'
      BY <1>1, <1>2, <2>1, <2>4, <2>5, SteadyUnset DEF Unset, Takes, Frees
    <2>7. QED
      BY <2>3, <2>6
  <1>4. QED
    BY <1>1, <1>3, KeptGoes DEF EndLabels

\* teardown_global_state takes what the global state holds.
LEMMA TeardownTakes ==
  ASSUME ProgramInv, TeardownGlobalState
  PROVE  /\ Takes(mem, mem', {gstate.block})
         /\ gstate.block # NULL /\ gstate.cli # NULL =>
              Takes(mem, mem', {config.file, config.block, gstate.block})
  <1>1. Shaped(mem) /\ gstate.cli \in {NULL, config.block}
    BY MemShaped DEF ProgramInv, Owned
  <1>2. mem' = IF gstate.block = NULL THEN mem ELSE Free(CliDestroy(mem, gstate.cli), gstate.block)
    BY DEF TeardownGlobalState
  <1>3. Takes(mem, mem, {})
    BY <1>1 DEF Takes, Frees
  <1>4. CASE gstate.block = NULL
    BY <1>2, <1>3, <1>4 DEF Takes
  <1>5. CASE gstate.block # NULL /\ gstate.cli = NULL
    <2>1. mem' = Free(mem, gstate.block)
      BY <1>2, <1>5 DEF CliDestroy
    <2>2. Takes(mem, mem', {} \cup {gstate.block})
      BY <1>3, <2>1, FreeTakes
    <2>3. QED
      BY <1>5, <2>2
  <1>6. CASE gstate.block # NULL /\ gstate.cli # NULL
    <2> DEFINE m == Free(mem, config.file)
               n == Free(m, gstate.cli)
    <2>1. mem' = Free(n, gstate.block)
      BY <1>2, <1>6 DEF CliDestroy
    <2>2. Takes(mem, m, {} \cup {config.file})
      BY <1>3, FreeTakes
    <2> HIDE DEF m
    <2>3. Takes(mem, n, ({} \cup {config.file}) \cup {gstate.cli})
      BY <2>2, FreeTakes
    <2> HIDE DEF n
    <2>4. Takes(mem, mem', (({} \cup {config.file}) \cup {gstate.cli}) \cup {gstate.block})
      BY <2>1, <2>3, FreeTakes
    <2>5. QED
      BY <1>1, <1>6, <2>4 DEF Takes
  <1>7. QED
    BY <1>4, <1>5, <1>6

\* main's own teardown leaves nothing but scraps, if all went well.
LEMMA MainTeardownKept ==
  ASSUME ProgramInv, Handed, KeptInv, MainTeardown, ProcessOnly
  PROVE  KeptInv'
  <1>1. /\ pc = "teardown" /\ pc \in RunLabels /\ pc' = "exit"
        /\ Counted(mem) /\ NULL \notin mem.live
    BY MemCounted DEF MainTeardown, ExitWith, RunLabels
  <1>2. gstate.block # NULL /\ gstate.cli # NULL
    BY <1>1 DEF ProgramInv, Staged
  <1>3. Takes(mem, mem', {config.file, config.block, gstate.block})
    BY <1>2, TeardownTakes DEF MainTeardown
  <1>4. ASSUME Praised' PROVE Left'
    <2>1. /\ mem.refused = {} /\ mem'.made = mem.made
          /\ mem.made["file"] \in Nat /\ mem.made["reader"] \in Nat
      BY <1>1, <1>3, <1>4 DEF Praised, Takes, Frees, Counted, Roles
    <2>2. Smooth /\ (mem.made["reader"] = 0 \/ mem.made["parser"] = 1)
      <3>1. mem.made["file"] <= 1
        BY <1>4, <2>1 DEF Praised
      <3>2. QED
        BY <1>4, <2>1, <3>1 DEF Praised, Smooth
    <2>3. Attached /\ Unset
      BY <1>1, <2>2, KeptSoFar DEF EndLabels
    <2>4. Idle /\ params.block = NULL
      <3>1. ~(mem.made["reader"] # 0 /\ mem.made["parser"] = 0)
        BY <2>2
      <3>2. QED
        BY <1>1, <2>3, <3>1 DEF Unset
    <2>5. Owners \subseteq {gstate.block, config.block, config.file, NULL}
      <3>1. Contents = {}
        BY <2>4 DEF Idle, Contents
      <3>2. buffer = NULL
        BY <1>1 DEF Handed, EndLabels
      <3>3. QED
        BY <1>1, <2>4, <3>1, <3>2
           DEF Idle, NoDriver, Owners, ProcessOwns, DriverOwns, TokensOwn, TokenOwns
    <2>6. QED
      BY <1>1, <1>3, <2>3, <2>5 DEF Takes, Attached, Left
  <1>5. QED
    BY <1>1, <1>4, KeptEnds DEF EndLabels

\* tula_exit frees what is left of the global state.
LEMMA TulaExitKept ==
  ASSUME ProgramInv, KeptInv, TulaExit, ProcessOnly
  PROVE  KeptInv'
  <1>1. /\ pc = "exit" /\ pc' = "exited" /\ status' = status
        /\ build' = build /\ argv' = argv /\ NULL \notin mem.live
    BY MemCounted DEF TulaExit, ProcessOnly, cliVars
  <1>2. Takes(mem, mem', {gstate.block})
    BY TeardownTakes DEF TulaExit
  <1>3. ASSUME Praised' PROVE Left'
    <2>1. Has({"HELP", "VERSION_SHORT", "VERSION_FULL"})' <=> Has({"HELP", "VERSION_SHORT", "VERSION_FULL"})
      BY <1>1, ArgumentsStay
    <2>2. mem'.made = mem.made /\ mem'.refused = mem.refused
      BY <1>2 DEF Takes, Frees
    <2>3. Praised
      BY <1>1, <1>3, <2>1, <2>2 DEF Praised
    <2>4. Left
      BY <1>1, <2>3 DEF KeptInv, EndLabels
    <2>5. QED
      BY <1>1, <1>2, <2>4 DEF Left, Takes
  <1>4. QED
    BY <1>1, <1>3, KeptEnds DEF EndLabels

\* A number hands its buffer on to the making of its token, which gives it back.
LEMMA HandedStep ==
  ASSUME ProgramInv, Handed, [ProgramNext]_programVars
  PROVE  Handed'
  <1>1. ASSUME buffer' = buffer,
               pc \notin EndLabels \cup {"crashed", "token_content", "token_new"}
        PROVE  Handed'
    BY <1>1 DEF Handed
  <1>2. ASSUME tokens' = tokens, source' = source
        PROVE  NextType' = NextType
    BY <1>2 DEF NextType, Found
  <1>3. CASE UNCHANGED programVars
    <2>1. UNCHANGED <<pc, buffer, tokens, source>>
      BY <1>3 DEF programVars, processVars, tokenVars
    <2>2. QED
      BY <1>2, <2>1 DEF Handed
  <1>4. CASE \/ SetupGlobalState /\ ProcessOnly
             \/ ParseArgs /\ CommandLineOnly
             \/ NewParams /\ CommandLineOnly
             \/ NewConfig /\ CommandLineOnly
    BY <1>1, <1>4
       DEF SetupGlobalState, ParseArgs, NewParams, NewConfig, ProcessOnly, CommandLineOnly,
           tokenVars, EndLabels
  <1>5. CASE \/ ConsumeNextOption /\ CommandLineOnly
             \/ Operand /\ CommandLineOnly
             \/ Configured /\ CommandLineOnly
    BY <1>1, <1>5
       DEF ConsumeNextOption, Operand, Configured, CommandLineOnly, tokenVars, EndLabels
  <1>6. CASE RunTest \/ ReaderNew \/ OpenPath \/ OpenChecks \/ OpenFile \/ ScannerNew
    BY <1>1, <1>6
       DEF RunTest, ReaderNew, OpenPath, OpenChecks, OpenFile, ScannerNew, tokenVars, EndLabels
  <1>7. CASE Scan
    BY <1>1, <1>7 DEF Scan, tokenVars, EndLabels
  <1>8. CASE ScanNumber
    <2>1. pc = "scan" /\ buffer = NULL /\ Found \in Numbers /\ NextType' = NextType
      BY <1>2, <1>8 DEF ScanNumber, Handed, EndLabels
    <2>2. NextType # "EOS"
      BY <2>1 DEF NextType, TypeOf, Numbers
    <2>3. pc' = "exit" \/ pc' \in {"token_new", "crashed"}
      BY <1>8 DEF ScanNumber, ExitWith, Goto
    <2>4. QED
      BY <2>1, <2>2, <2>3 DEF Handed, EndLabels
  <1>9. CASE TokenNew
    <2>1. pc = "token_new" /\ buffer' = buffer
      BY <1>9 DEF TokenNew
    <2>2. pc' = "exit" \/ NextType = "EOS" \/ pc' = "token_content"
      BY <1>9 DEF TokenNew, ExitWith, Goto
    <2>3. QED
      BY <2>1, <2>2 DEF Handed, EndLabels
  <1>10. CASE TokenContent
    <2>1. pc' = "exit" \/ buffer' = NULL
      BY <1>10 DEF TokenContent, ExitWith
    <2>2. QED
      BY <2>1 DEF Handed, EndLabels
  <1>11. CASE ArrTokenAdd
    BY <1>1, <1>11 DEF ArrTokenAdd, EndLabels
  <1>12. CASE TestScanner \/ ParserNew \/ ParserParse \/ Parsing \/ ParserDestroy
    BY <1>1, <1>12
       DEF TestScanner, ParserNew, ParserParse, Parsing, ParserDestroy, tokenVars, EndLabels
  <1>13. CASE MainTeardown /\ ProcessOnly
    BY <1>1, <1>13 DEF MainTeardown, ProcessOnly, tokenVars, EndLabels
  <1>14. CASE TulaExit /\ ProcessOnly
    BY <1>14 DEF TulaExit, Handed, EndLabels
  <1>15. QED
    BY <1>3, <1>4, <1>5, <1>6, <1>7, <1>8, <1>9, <1>10, <1>11, <1>12, <1>13, <1>14
       DEF ProgramNext

\* At first there is no buffer.
LEMMA HandedBegin ==
  ASSUME ProgramInit
  PROVE  Handed
  BY DEF ProgramInit, TokenArrayInit, Handed

\* At every step.
LEMMA KeptStep ==
  ASSUME ProgramInv, Handed, KeptInv, ArgumentsInv, [ProgramNext]_programVars
  PROVE  KeptInv'
  <1>1. CASE UNCHANGED programVars
    <2>1. /\ UNCHANGED <<pc, status, mem, gstate, config, build, argv, params>>
          /\ UNCHANGED <<tokens, token, buffer, caller, driver>>
      BY <1>1 DEF programVars, processVars, cliVars, tokenVars
    <2>2. \A options : Has(options)' <=> Has(options)
      BY <2>1, ArgumentsStay
    <2>3. Owners' = Owners
      BY <2>1 DEF Owners, ProcessOwns, DriverOwns, TokensOwn, TokenOwns, Contents
    <2>4. (Attached' <=> Attached) /\ (Left' <=> Left) /\ (Smooth' <=> Smooth)
      BY <2>1, <2>3 DEF Attached, Left, Smooth
    <2>5. Praised' <=> Praised
      BY <2>1, <2>2 DEF Praised
    <2>6. Unset' <=> Unset
      BY <2>1 DEF Unset, Idle, Reader
    <2>7. QED
      BY <2>1, <2>4, <2>5, <2>6 DEF KeptInv
  <1>2. CASE \/ SetupGlobalState /\ ProcessOnly
             \/ ParseArgs /\ CommandLineOnly
             \/ NewParams /\ CommandLineOnly
             \/ NewConfig /\ CommandLineOnly
    BY <1>2, SetupKept, ParseArgsKept, NewParamsKept, NewConfigKept
  <1>3. CASE \/ ConsumeNextOption /\ CommandLineOnly
             \/ Operand /\ CommandLineOnly
             \/ Configured /\ CommandLineOnly
    BY <1>3, ConsumeKept, OperandKept, ConfiguredKept
  <1>4. CASE RunTest \/ ReaderNew \/ OpenPath \/ OpenChecks \/ OpenFile \/ ScannerNew
    BY <1>4, RunTestKept, ReaderNewKept, OpenPathKept, OpenChecksKept, OpenFileKept, ScannerNewKept
  <1>5. CASE \/ (Scan \/ ScanNumber) /\ TokensOnly
             \/ TokenNew /\ TokensOnly
             \/ TokenContent /\ TokensOnly
             \/ ArrTokenAdd /\ TokensOnly
    BY <1>5, ScanKept, TokenNewKept, TokenContentKept, ArrTokenAddKept
  <1>6. CASE TestScanner \/ ParserNew \/ ParserParse \/ Parsing \/ ParserDestroy
    BY <1>6, TestScannerKept, ParserNewKept, ParserParseKept, ParsingKept, ParserDestroyKept
  <1>7. CASE \/ MainTeardown /\ ProcessOnly
             \/ TulaExit /\ ProcessOnly
    BY <1>7, MainTeardownKept, TulaExitKept
  <1>8. QED
    BY <1>1, <1>2, <1>3, <1>4, <1>5, <1>6, <1>7 DEF ProgramNext

\* It holds at first, when there is nothing to keep.
LEMMA KeptBegin ==
  ASSUME ProgramInit
  PROVE  KeptInv
  <1>1. /\ pc = "main" /\ mem = EmptyHeap /\ config = NoConfig /\ driver = NoDriver
        /\ tokens = NoTokens(NULL) /\ params = NoParams
    BY DEF ProgramInit, ProcessInit, CommandLineInit, TokenArrayInit
  <1>2. mem.live = {} /\ mem.made["reader"] = 0 /\ mem.made["parser"] = 0
    BY <1>1 DEF EmptyHeap, Roles
  <1>3. Attached
    BY <1>2 DEF Attached
  <1>4. Idle /\ params.block = NULL /\ config.block = NULL /\ config.file = NULL
    BY <1>1 DEF Idle, NoTokens, NoParams, NoConfig
  <1>5. pc \notin Opening /\ pc \notin Unscanned /\ pc \notin Unparsed /\ Reader = "main"
    BY <1>1 DEF Opening, Unscanned, Unparsed, OpenLabels, Reader, TokenLabels
  <1>6. Unset
    BY <1>1, <1>2, <1>4, <1>5 DEF Unset
  <1>7. QED
    BY <1>1, <1>3, <1>6 DEF KeptInv, EndLabels

\* When all goes well nothing is left behind but the structs of the tokens and the
\* working copies of paths (parser_destroy, teardown_global_state, and the exits of
\* consume_next_option that only print).
THEOREM NothingKeptHolds == ProgramSpec => []NothingKept
  <1>1. KeptInv => NothingKept
    BY DEF KeptInv, Praised, Left, Scraps, NothingKept, EndLabels
  <1>2. QED
    BY <1>1, HandedBegin, HandedStep, KeptBegin, KeptStep, ArgumentsBegin, ArgumentsStep, Invariance, PTL DEF ProgramSpec

=============================================================================

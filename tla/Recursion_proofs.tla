--------------------------- MODULE Recursion_proofs ---------------------------
(***************************************************************************)
(* What recursion over data needs: every set of natural numbers has a      *)
(* least one, and a recursive function whose calls lead downwards exists.  *)
(* The library states the principle of induction for a predicate; these    *)
(* state it for a set, and for a step given as a function.  A loop over a  *)
(* sequence is told by how it begins and what each turn does, so that a    *)
(* longer sequence is a turn more.                                         *)
(***************************************************************************)
EXTENDS Integers, SequenceTheorems, WellFoundedInduction, TLAPS

\* Every nonempty set of natural numbers has a least element.
LEMMA LeastNumber ==
  ASSUME NEW T \in SUBSET Nat, T # {}
  PROVE  \E m \in T : \A n \in T : m <= n
  <1> DEFINE R == {ss \in Nat \X Nat : ss[1] < ss[2]}
  <1>1. IsWellFoundedOn(R, Nat)
    BY NatLessThanWellFounded DEF OpToRel
  <1>2. \A i, j \in Nat : i < j => <<i, j>> \in R
    OBVIOUS
  <1> HIDE DEF R
  <1>3. PICK m \in T : \A n \in T : ~ (<<n, m>> \in R)
    BY <1>1, WFMin
  <1>4. \A n \in T : ~ (n < m)
    BY <1>2, <1>3
  <1>5. QED
    BY <1>4

\* Induction: a set of numbers that holds 0, and with each number below a bound the next,
\* holds all up to the bound.
LEMMA NumbersUpTo ==
  ASSUME NEW bound \in Nat, NEW P, 0 \in P,
         \A m \in 0 .. bound - 1 : m \in P => m + 1 \in P
  PROVE  \A m \in 0 .. bound : m \in P
  <1> DEFINE T == {m \in 0 .. bound : m \notin P}
  <1>1. T \in SUBSET Nat
    OBVIOUS
  <1> SUFFICES T = {}
    OBVIOUS
  <1> SUFFICES ASSUME T # {} PROVE FALSE
    OBVIOUS
  <1>2. PICK m \in T : \A n \in T : m <= n
    BY <1>1, LeastNumber
  <1>3. m \in 0 .. bound /\ m \notin P /\ m # 0
    BY <1>2
  <1>4. m - 1 \in 0 .. bound - 1 /\ (m - 1) + 1 = m
    BY <1>3
  <1>5. m - 1 \notin T
    BY <1>2, <1>4
  <1>6. m - 1 \in P
    BY <1>4, <1>5
  <1>7. QED
    BY <1>3, <1>4, <1>6

\* A function on D that calls itself only at elements of a lower rank: Step gives its value
\* at an element from the function as a whole.
Descends(D, V, rank, Step) ==
  \A g \in [D -> V] : \A k \in D :
    /\ Step[<<g, k>>] \in V
    /\ \A h \in [D -> V] :
         (\A j \in D : rank[j] < rank[k] => g[j] = h[j]) => Step[<<g, k>>] = Step[<<h, k>>]

\* There is such a function.
Recurses(D, V, Step) == \E f \in [D -> V] : \A k \in D : f[k] = Step[<<f, k>>]

\* Such a function exists when the ranks have a bound.
LEMMA RecursionExists ==
  ASSUME NEW D, NEW V, NEW v \in V, NEW bound \in Nat, NEW rank, \A k \in D : rank[k] \in 0 .. bound,
         NEW Step, Descends(D, V, rank, Step)
  PROVE  Recurses(D, V, Step)
  <1> DEFINE Upto(f, m) == \A k \in D : rank[k] < m => f[k] = Step[<<f, k>>]
             P == {m \in Nat : \E f \in [D -> V] : Upto(f, m)}
  <1>1. 0 \in P
    <2>1. [k \in D |-> v] \in [D -> V]
      OBVIOUS
    <2>2. \A k \in D : ~(rank[k] < 0)
      OBVIOUS
    <2>3. QED
      BY <2>1, <2>2
  <1>2. ASSUME NEW m \in Nat, m \in P PROVE m + 1 \in P
    <2>1. PICK f \in [D -> V] : Upto(f, m)
      BY <1>2
    <2> DEFINE g == [k \in D |-> IF rank[k] = m THEN Step[<<f, k>>] ELSE f[k]]
    <2>2. \A k \in D : Step[<<f, k>>] \in V
      BY DEF Descends
    <2>3. g \in [D -> V]
      BY <2>2
    <2>4. \A k \in D : rank[k] < m => g[k] = f[k]
      OBVIOUS
    <2>5. \A k \in D : rank[k] = m => g[k] = Step[<<f, k>>]
      OBVIOUS
    <2> HIDE DEF g
    <2>6. ASSUME NEW k \in D, rank[k] < m + 1 PROVE g[k] = Step[<<g, k>>]
      <3>1. \A j \in D : rank[j] < rank[k] => rank[j] < m
        BY <2>6
      <3>2. \A j \in D : rank[j] < rank[k] => g[j] = f[j]
        BY <2>4, <3>1
      <3>3. Step[<<g, k>>] = Step[<<f, k>>]
        BY <2>3, <3>2 DEF Descends
      <3>4. rank[k] = m \/ rank[k] < m
        <4>1. rank[k] \in 0 .. bound
          OBVIOUS
        <4>2. QED
          BY <2>6, <4>1
      <3>5. QED
        BY <2>1, <2>4, <2>5, <3>3, <3>4
    <2>7. Upto(g, m + 1)
      BY <2>6
    <2>8. QED
      BY <2>3, <2>7
  <1> HIDE DEF Upto
  <1>3. bound + 1 \in P
    <2>1. \A m \in 0 .. (bound + 1) - 1 : m \in P => m + 1 \in P
      BY <1>2
    <2> HIDE DEF P
    <2>2. bound + 1 \in Nat /\ bound + 1 \in 0 .. bound + 1
      OBVIOUS
    <2>3. QED
      BY <1>1, <2>1, <2>2, NumbersUpTo
  <1>4. PICK f \in [D -> V] : Upto(f, bound + 1)
    BY <1>3
  <1>5. \A k \in D : rank[k] < bound + 1
    OBVIOUS
  <1>6. \A k \in D : f[k] = Step[<<f, k>>]
    BY <1>4, <1>5 DEF Upto
  <1>7. QED
    BY <1>6 DEF Recurses

\* A loop: there is a function that begins with v, and whose value at i Next gives from that
\* at i - 1.
Loops(N, V, v, Next) ==
  \E f : /\ f = [i \in 0 .. N |-> IF i = 0 THEN v ELSE Next[<<f[i - 1], i>>]]
         /\ f \in [0 .. N -> V]

LEMMA LoopExists ==
  ASSUME NEW N \in Nat, NEW V, NEW v \in V, NEW Next,
         \A x \in V : \A i \in 1 .. N : Next[<<x, i>>] \in V
  PROVE  Loops(N, V, v, Next)
  <1> DEFINE D == 0 .. N
             rank == [k \in D |-> k]
             Step == [fk \in [D -> V] \X D |->
                        IF fk[2] = 0 THEN v ELSE Next[<<fk[1][fk[2] - 1], fk[2]>>]]
  <1>1. \A k \in D : rank[k] = k /\ rank[k] \in 0 .. N /\ (k # 0 => k - 1 \in D /\ k \in 1 .. N)
    OBVIOUS
  <1>2. \A f \in [D -> V] : \A k \in D :
          Step[<<f, k>>] = IF k = 0 THEN v ELSE Next[<<f[k - 1], k>>]
    OBVIOUS
  <1> HIDE DEF Step, rank
  <1>3. ASSUME NEW f \in [D -> V], NEW k \in D PROVE Step[<<f, k>>] \in V
    <2>1. k # 0 => f[k - 1] \in V
      BY <1>1
    <2>2. QED
      BY <1>1, <1>2, <2>1
  <1>4. ASSUME NEW f \in [D -> V], NEW h \in [D -> V], NEW k \in D,
               \A j \in D : rank[j] < rank[k] => f[j] = h[j]
        PROVE  Step[<<f, k>>] = Step[<<h, k>>]
    <2>1. k # 0 => f[k - 1] = h[k - 1]
      BY <1>1, <1>4
    <2>2. QED
      BY <1>2, <2>1
  <1>5. Descends(D, V, rank, Step)
    BY <1>3, <1>4 DEF Descends
  <1>6. Recurses(D, V, Step)
    BY <1>1, <1>5, RecursionExists
  <1>7. PICK f \in [D -> V] : \A k \in D : f[k] = Step[<<f, k>>]
    BY <1>6 DEF Recurses
  <1>8. f = [i \in D |-> IF i = 0 THEN v ELSE Next[<<f[i - 1], i>>]]
    BY <1>2, <1>7
  <1>9. QED
    BY <1>8 DEF Loops

\* What a loop begins with, and each turn keeps, it keeps.
LEMMA LoopStays ==
  ASSUME NEW N \in Nat, NEW V, NEW f, f[0] \in V, \A i \in 1 .. N : f[i - 1] \in V => f[i] \in V
  PROVE  \A i \in 0 .. N : f[i] \in V
  <1> DEFINE P == {i \in 0 .. N : f[i] \in V}
  <1>1. 0 \in P
    OBVIOUS
  <1>2. ASSUME NEW i \in 0 .. N - 1, i \in P PROVE i + 1 \in P
    <2>1. i + 1 \in 1 .. N /\ (i + 1) - 1 = i /\ i + 1 \in 0 .. N
      OBVIOUS
    <2>2. QED
      BY <1>2, <2>1
  <1>3. \A i \in 0 .. N : i \in P
    <2> HIDE DEF P
    <2>1. QED
      BY <1>1, <1>2, NumbersUpTo
  <1>4. QED
    BY <1>3

\* A set that holds the empty sequence, and with each sequence the ones that are longer by an
\* element, holds all.
LEMMA SequencesGrow ==
  ASSUME NEW A, NEW P, <<>> \in P, \A s \in Seq(A) : \A x \in A : s \in P => Append(s, x) \in P
  PROVE  \A s \in Seq(A) : s \in P
  <1> SUFFICES ASSUME NEW s \in Seq(A) PROVE s \in P
    OBVIOUS
  <1> DEFINE N == Len(s)
             T == {m \in 0 .. N : SubSeq(s, 1, m) \in P}
  <1>1. N \in Nat
    OBVIOUS
  <1>2. 0 \in T
    <2>1. SubSeq(s, 1, 0) = <<>>
      OBVIOUS
    <2>2. SubSeq(s, 1, 0) \in P
      BY <2>1
    <2>3. 0 \in 0 .. N
      BY <1>1
    <2> HIDE DEF N
    <2>4. QED
      BY <2>2, <2>3
  <1>3. ASSUME NEW m \in 0 .. N - 1, m \in T PROVE m + 1 \in T
    <2> DEFINE u == SubSeq(s, 1, m)
               w == SubSeq(s, 1, m + 1)
    <2>1. \A i \in 1 .. m + 1 : i \in 1 .. N /\ s[i] \in A
      <3>1. \A i \in 1 .. m + 1 : i \in 1 .. N
        BY <1>1
      <3>2. QED
        BY <3>1, ElementOfSeq
    <2>2. /\ u \in Seq(A) /\ Len(u) = m /\ \A i \in 1 .. m : u[i] = s[i]
      BY <1>1, <2>1
    <2>3. /\ w \in Seq(A) /\ Len(w) = m + 1 /\ \A i \in 1 .. m + 1 : w[i] = s[i]
      BY <1>1, <2>1
    <2>4. s[m + 1] \in A
      BY <1>1, <2>1
    <2> HIDE DEF u, w, N
    <2> DEFINE z == Append(u, s[m + 1])
    <2>5. /\ z \in Seq(A) /\ Len(z) = m + 1 /\ \A i \in 1 .. m : z[i] = u[i]
          /\ z[m + 1] = s[m + 1]
      BY <2>2, <2>4, AppendProperties
    <2> HIDE DEF z
    <2>6. \A i \in 1 .. m + 1 : z[i] = w[i]
      <3>1. \A i \in 1 .. m + 1 : i \in 1 .. m \/ i = m + 1
        BY <1>1
      <3>2. QED
        BY <2>2, <2>3, <2>5, <3>1
    <2>7. z = w
      BY <2>3, <2>5, <2>6, SeqEqual
    <2>8. u \in P
      BY <1>3 DEF u
    <2>9. w \in P
      BY <2>2, <2>4, <2>7, <2>8 DEF z
    <2>10. m + 1 \in 0 .. N
      BY <1>1
    <2>11. QED
      BY <2>9, <2>10 DEF w
  <1>4. N \in 0 .. N
    BY <1>1
  <1> HIDE DEF N
  <1>5. N \in T
    <2> HIDE DEF T
    <2>1. QED
      BY <1>1, <1>2, <1>3, <1>4, NumbersUpTo
  <1>6. SubSeq(s, 1, N) = s
    BY SubSeqFull DEF N
  <1>7. QED
    BY <1>5, <1>6

\* A loop over a sequence that begins with v ends with y; its turn is given the value so far,
\* the place and the element.
RunsTo(Next, v, s, y) ==
  \E f : /\ f[0] = v
         /\ \A i \in 1 .. Len(s) : f[i] = Next[<<f[i - 1], i, s[i]>>]
         /\ y = f[Len(s)]

\* There is such a loop.
Runs(Next, V, v, s) ==
  \E f : /\ f = [i \in 0 .. Len(s) |-> IF i = 0 THEN v ELSE Next[<<f[i - 1], i, s[i]>>]]
         /\ f \in [0 .. Len(s) -> V]

\* Each turn keeps to V.
Stays(Next, V, A) == \A x \in V : \A i \in Nat : \A a \in A : Next[<<x, i, a>>] \in V

LEMMA RunExists ==
  ASSUME NEW A, NEW V, NEW v \in V, NEW s \in Seq(A), NEW Next, Stays(Next, V, A)
  PROVE  Runs(Next, V, v, s)
  <1> DEFINE N == Len(s)
             Turn == [xi \in V \X (1 .. N) |-> Next[<<xi[1], xi[2], s[xi[2]]>>]]
  <1>1. N \in Nat /\ \A i \in 1 .. N : s[i] \in A /\ i \in Nat
    BY ElementOfSeq
  <1>2. \A x \in V : \A i \in 1 .. N : Turn[<<x, i>>] = Next[<<x, i, s[i]>>]
    OBVIOUS
  <1>3. \A x \in V : \A i \in 1 .. N : Turn[<<x, i>>] \in V
    BY <1>1, <1>2 DEF Stays
  <1> HIDE DEF Turn, N
  <1>4. PICK f : /\ f = [i \in 0 .. N |-> IF i = 0 THEN v ELSE Turn[<<f[i - 1], i>>]]
                 /\ f \in [0 .. N -> V]
    <2>1. Loops(N, V, v, Turn)
      BY <1>1, <1>3, LoopExists
    <2>2. QED
      BY <2>1 DEF Loops
  <1>5. \A i \in 0 .. N : i # 0 => i \in 1 .. N /\ f[i - 1] \in V
    BY <1>1, <1>4
  <1>6. \A i \in 0 .. N : i # 0 => Turn[<<f[i - 1], i>>] = Next[<<f[i - 1], i, s[i]>>]
    BY <1>2, <1>5
  <1>7. f = [i \in 0 .. N |-> IF i = 0 THEN v ELSE Next[<<f[i - 1], i, s[i]>>]]
    BY <1>4, <1>6
  <1>8. QED
    BY <1>4, <1>7 DEF Runs, N

LEMMA RunStays ==
  ASSUME NEW A, NEW V, NEW v \in V, NEW s \in Seq(A), NEW Next, Stays(Next, V, A),
         NEW y, RunsTo(Next, v, s, y)
  PROVE  y \in V
  <1>1. PICK f : /\ f[0] = v
                 /\ \A i \in 1 .. Len(s) : f[i] = Next[<<f[i - 1], i, s[i]>>]
                 /\ y = f[Len(s)]
    BY DEF RunsTo
  <1> DEFINE N == Len(s)
  <1>2. N \in Nat /\ N \in 0 .. N
    OBVIOUS
  <1>3. \A i \in 1 .. N : s[i] \in A /\ i \in Nat
    BY ElementOfSeq
  <1>4. \A i \in 1 .. N : f[i - 1] \in V => f[i] \in V
    BY <1>1, <1>3 DEF Stays
  <1>5. y = f[N] /\ f[0] \in V
    BY <1>1
  <1> HIDE DEF N
  <1>6. \A i \in 0 .. N : f[i] \in V
    BY <1>2, <1>4, <1>5, LoopStays
  <1>7. QED
    BY <1>2, <1>5, <1>6

LEMMA RunUnique ==
  ASSUME NEW A, NEW s \in Seq(A), NEW v, NEW Next, NEW y, RunsTo(Next, v, s, y),
         NEW z, RunsTo(Next, v, s, z)
  PROVE  y = z
  <1>1. PICK f : /\ f[0] = v
                 /\ \A i \in 1 .. Len(s) : f[i] = Next[<<f[i - 1], i, s[i]>>]
                 /\ y = f[Len(s)]
    BY DEF RunsTo
  <1>2. PICK g : /\ g[0] = v
                 /\ \A i \in 1 .. Len(s) : g[i] = Next[<<g[i - 1], i, s[i]>>]
                 /\ z = g[Len(s)]
    BY DEF RunsTo
  <1> DEFINE N == Len(s)
             P == {i \in 0 .. N : f[i] = g[i]}
  <1>3. N \in Nat /\ N \in 0 .. N /\ 0 \in 0 .. N
    OBVIOUS
  <1>4. ASSUME NEW m \in 0 .. N - 1, m \in P PROVE m + 1 \in P
    <2>1. m + 1 \in 1 .. N /\ (m + 1) - 1 = m /\ m + 1 \in 0 .. N
      BY <1>3
    <2>2. f[m] = g[m]
      BY <1>4
    <2>3. f[m + 1] = g[m + 1]
      BY <1>1, <1>2, <2>1, <2>2
    <2>4. QED
      BY <2>1, <2>3
  <1>5. 0 \in P
    BY <1>1, <1>2, <1>3
  <1>6. y = f[N] /\ z = g[N]
    BY <1>1, <1>2
  <1>7. N \in P
    <2> HIDE DEF P, N
    <2>1. QED
      BY <1>3, <1>4, <1>5, NumbersUpTo
  <1>8. QED
    BY <1>6, <1>7

LEMMA RunAppend ==
  ASSUME NEW A, NEW s \in Seq(A), NEW x \in A, NEW v, NEW Next, NEW y, RunsTo(Next, v, s, y)
  PROVE  RunsTo(Next, v, Append(s, x), Next[<<y, Len(s) + 1, x>>])
  <1>1. PICK f : /\ f[0] = v
                 /\ \A i \in 1 .. Len(s) : f[i] = Next[<<f[i - 1], i, s[i]>>]
                 /\ y = f[Len(s)]
    BY DEF RunsTo
  <1> DEFINE N == Len(s)
             t == Append(s, x)
             g == [i \in 0 .. N + 1 |-> IF i = N + 1 THEN Next[<<y, N + 1, x>>] ELSE f[i]]
  <1>2. N \in Nat
    OBVIOUS
  <1>3. Len(t) = N + 1 /\ t[N + 1] = x /\ \A i \in 1 .. N : t[i] = s[i]
    BY AppendProperties
  <1>4. y = f[N] /\ f[0] = v /\ \A i \in 1 .. N : f[i] = Next[<<f[i - 1], i, s[i]>>]
    BY <1>1
  <1> HIDE DEF N, t
  <1>5. \A i \in 0 .. N : g[i] = f[i]
    BY <1>2
  <1>6. g[N + 1] = Next[<<y, N + 1, x>>]
    BY <1>2
  <1> HIDE DEF g
  <1>7. ASSUME NEW i \in 1 .. N + 1 PROVE g[i] = Next[<<g[i - 1], i, t[i]>>]
    <2>1. CASE i = N + 1
      <3>1. i - 1 = N /\ N \in 0 .. N
        BY <1>2, <2>1
      <3>2. g[i - 1] = y
        BY <1>4, <1>5, <3>1
      <3>3. QED
        BY <1>3, <1>6, <2>1, <3>2
    <2>2. CASE i # N + 1
      <3>1. i \in 1 .. N /\ i \in 0 .. N /\ i - 1 \in 0 .. N
        BY <1>2, <2>2
      <3>2. QED
        BY <1>3, <1>4, <1>5, <3>1
    <2>3. QED
      BY <2>1, <2>2
  <1>8. g[0] = v
    <2>1. 0 \in 0 .. N
      BY <1>2
    <2>2. QED
      BY <1>4, <1>5, <2>1
  <1>9. RunsTo(Next, v, t, Next[<<y, N + 1, x>>])
    BY <1>3, <1>6, <1>7, <1>8 DEF RunsTo
  <1>10. QED
    BY <1>9 DEF N, t

LEMMA RunEmpty ==
  ASSUME NEW v, NEW Next
  PROVE  RunsTo(Next, v, <<>>, v)
  <1> DEFINE f == [i \in {0} |-> v]
  <1>1. f[0] = v /\ Len(<<>>) = 0 /\ \A i \in 1 .. 0 : FALSE
    OBVIOUS
  <1> HIDE DEF f
  <1>2. QED
    BY <1>1 DEF RunsTo

================================================================================

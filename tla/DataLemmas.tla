----------------------------- MODULE DataLemmas -----------------------------
(***************************************************************************)
(* What several proofs use of numbers and sequences.                       *)
(***************************************************************************)
EXTENDS MergeWalk, FiniteSetTheorems, WellFoundedInduction, SequenceTheorems, TLAPS

\* A non-empty set of numbers has a least element: the initial segments below
\* its elements have a minimal one, finite sets being well ordered by
\* inclusion.
LEMMA LeastNumber ==
  ASSUME NEW T, T \subseteq Nat, T # {}
  PROVE  \E m \in T : \A k \in T : m <= k
<1> DEFINE U == {0 .. m : m \in T}
<1>1. U \subseteq FiniteSubsetsOf(Nat)
  <2> SUFFICES ASSUME NEW m \in T
               PROVE  0 .. m \in FiniteSubsetsOf(Nat)
    OBVIOUS
  <2>1. m \in Nat
    OBVIOUS
  <2>2. IsFiniteSet(0 .. m)
    BY <2>1, FS_Interval
  <2>3. 0 .. m \in SUBSET Nat
    BY <2>1
  <2> QED
    BY <2>2, <2>3 DEF FiniteSubsetsOf
<1>2. U # {}
  OBVIOUS
<1>3. PICK s \in U : \A u \in U : <<u, s>> \notin StrictSubsetOrdering(Nat)
  <2> HIDE DEF U
  <2>1. IsWellFoundedOn(StrictSubsetOrdering(Nat), FiniteSubsetsOf(Nat))
    BY FS_StrictSubsetOrderingWellFounded
  <2> QED
    BY <1>1, <1>2, <2>1, WFMin
<1>4. PICK m \in T : s = 0 .. m
  OBVIOUS
<1>5. ASSUME NEW k \in T
      PROVE  m <= k
  <2>1. m \in Nat /\ k \in Nat
    OBVIOUS
  <2> SUFFICES ASSUME k < m
               PROVE  FALSE
    BY <2>1
  <2>2. 0 .. k \subseteq 0 .. m /\ 0 .. k # 0 .. m
    BY <2>1
  <2>3. <<0 .. k, 0 .. m>> \in StrictSubsetOrdering(Nat)
    <3>1. 0 .. k \in SUBSET Nat /\ 0 .. m \in SUBSET Nat
      BY <2>1
    <3> QED
      BY <2>2, <3>1 DEF StrictSubsetOrdering
  <2> QED
    BY <1>3, <1>4, <2>3
<1> QED
  BY <1>5

-----------------------------------------------------------------------------
\* A strict order has something in a finite set that it puts nothing above:
\* one of those with the fewest above them.
LEMMA Topmost ==
  ASSUME NEW T, IsFiniteSet(T), T # {}, NEW B,
         \A x \in T : <<x, x>> \notin B,
         \A x, y, z \in T : <<x, y>> \in B /\ <<y, z>> \in B => <<x, z>> \in B
  PROVE  \E x \in T : \A y \in T : <<x, y>> \notin B
<1>1. PICK o : o = [x \in T |-> {y \in T : <<x, y>> \in B}]
  OBVIOUS
<1>2. \A x, y \in T : y \in o[x] <=> <<x, y>> \in B
  BY <1>1
<1>3. \A x \in T : o[x] \in SUBSET T
  BY <1>1
<1> DEFINE C == {Cardinality(o[x]) : x \in T}
<1>4. ASSUME NEW x \in T
      PROVE  IsFiniteSet(o[x]) /\ Cardinality(o[x]) \in Nat
  <2>1. IsFiniteSet(o[x])
    BY <1>3, FS_Subset
  <2> QED
    BY <2>1, FS_CardinalityType
<1>5. PICK u \in C : \A v \in C : u <= v
  <2>1. C \subseteq Nat /\ C # {}
    BY <1>4
  <2> HIDE DEF C
  <2> QED
    BY <2>1, LeastNumber
<1>6. PICK x \in T : u = Cardinality(o[x])
  OBVIOUS
<1>7. ASSUME NEW y \in T, <<x, y>> \in B
      PROVE  FALSE
  <2>1. o[y] \in SUBSET o[x] /\ y \in o[x] /\ y \notin o[y]
    BY <1>2, <1>3, <1>7
  <2>2. Cardinality(o[y]) <= Cardinality(o[x]) /\ (Cardinality(o[x]) = Cardinality(o[y]) => o[x] = o[y])
    BY <1>4, <2>1, FS_Subset
  <2>3. Cardinality(o[x]) <= Cardinality(o[y])
    BY <1>5, <1>6
  <2>4. Cardinality(o[x]) \in Nat /\ Cardinality(o[y]) \in Nat
    BY <1>4
  <2> QED
    BY <2>1, <2>2, <2>3, <2>4
<1> QED
  BY <1>7

-----------------------------------------------------------------------------
(***************************************************************************)
(* Induction, with the set of those that a statement holds of in the place *)
(* of the statement.                                                       *)
(***************************************************************************)
LEMMA Induction ==
  ASSUME NEW P, 0 \in P, \A i \in Nat : i \in P => i + 1 \in P
  PROVE  Nat \subseteq P
<1> DEFINE T == Nat \ P
<1>1. SUFFICES ASSUME T # {}
               PROVE  FALSE
  OBVIOUS
<1>2. PICK i \in T : \A j \in T : i <= j
  BY <1>1, LeastNumber
<1>3. i \in Nat /\ i # 0
  OBVIOUS
<1>4. i - 1 \in Nat /\ i - 1 + 1 = i
  BY <1>3
<1>5. i - 1 \notin T
  BY <1>2, <1>4
<1> QED
  BY <1>2, <1>4, <1>5

\* Every sequence is made by appending.
LEMMA SeqInduction ==
  ASSUME NEW V, NEW P, <<>> \in P,
         \A s \in Seq(V), x \in V : s \in P => Append(s, x) \in P
  PROVE  Seq(V) \subseteq P
<1> DEFINE L == {i \in Nat : \A s \in Seq(V) : Len(s) = i => s \in P}
<1>1. 0 \in L
  BY EmptySeq
<1>2. ASSUME NEW i \in Nat, i \in L
      PROVE  i + 1 \in L
  <2> SUFFICES ASSUME NEW s \in Seq(V), Len(s) = i + 1
               PROVE  s \in P
    OBVIOUS
  <2>1. s # <<>>
    BY <1>2, EmptySeq
  <2>2. PICK t \in Seq(V), x \in V : s = Append(t, x)
    BY <2>1, SequenceEmptyOrAppend
  <2>3. Len(s) = Len(t) + 1 /\ Len(t) \in Nat
    BY <2>2, AppendProperties, LenProperties
  <2>4. Len(t) = i
    BY <1>2, <2>3
  <2> QED
    BY <1>2, <2>2, <2>4
<1>3. Nat \subseteq L
  <2> HIDE DEF L
  <2> QED
    BY <1>1, <1>2, Induction
<1> QED
  BY <1>3, LenProperties

\* What a function is at 0, and how it goes on from one number to the next.
Recursive(f, b, h, N) == f[0] = b /\ \A i \in 1 .. N : f[i] = h[<<f[i - 1], i>>]

\* There is such a function.
LEMMA Recursion ==
  ASSUME NEW V, NEW b \in V, NEW N \in Nat, NEW h \in [V \X (1 .. N) -> V]
  PROVE  \E f \in [0 .. N -> V] : Recursive(f, b, h, N)
<1> DEFINE Goes(f, j) == /\ f[0] = b
                         /\ \A i \in 1 .. j : f[i] = h[<<f[i - 1], i>>]
           P == {j \in Nat : j <= N => \E f \in [0 .. j -> V] : Goes(f, j)}
<1>1. 0 \in P
  <2>1. PICK f : f = [i \in 0 .. 0 |-> b]
    OBVIOUS
  <2>2. f \in [0 .. 0 -> V] /\ Goes(f, 0)
    BY <2>1
  <2> QED
    BY <2>2
<1>2. ASSUME NEW j \in Nat, j \in P
      PROVE  j + 1 \in P
  <2> SUFFICES ASSUME j + 1 <= N
               PROVE  \E f \in [0 .. j + 1 -> V] : Goes(f, j + 1)
    OBVIOUS
  <2>1. PICK f \in [0 .. j -> V] : Goes(f, j)
    BY <1>2
  <2>2. f[j] \in V /\ j + 1 \in 1 .. N
    BY <2>1
  <2>3. PICK x \in V : x = h[<<f[j], j + 1>>]
    BY <2>2
  <2>4. PICK g : g = [i \in 0 .. j + 1 |-> IF i = j + 1 THEN x ELSE f[i]]
    OBVIOUS
  <2>5. g \in [0 .. j + 1 -> V]
    BY <2>1, <2>3, <2>4
  <2>6. g[0] = b /\ g[j + 1] = x /\ \A i \in 0 .. j : g[i] = f[i]
    BY <2>1, <2>4
  <2>7. ASSUME NEW i \in 1 .. j + 1
        PROVE  g[i] = h[<<g[i - 1], i>>]
    <3>1. i - 1 \in 0 .. j /\ g[i - 1] = f[i - 1]
      BY <2>6
    <3>2. CASE i = j + 1
      BY <2>3, <2>6, <3>1, <3>2
    <3>3. CASE i # j + 1
      <4>1. i \in 1 .. j /\ i \in 0 .. j
        BY <3>3
      <4> QED
        BY <2>1, <2>6, <3>1, <4>1
    <3> QED
      BY <3>2, <3>3
  <2>8. Goes(g, j + 1)
    BY <2>6, <2>7
  <2> QED
    BY <2>5, <2>8
<1>3. N \in P
  <2> HIDE DEF P
  <2> QED
    BY <1>1, <1>2, Induction
<1> QED
  BY <1>3 DEF Recursive

\* Two functions that begin alike and go on alike are alike.
LEMMA SameRecursion ==
  ASSUME NEW N \in Nat, NEW f, NEW g, f[0] = g[0],
         \A i \in 1 .. N : f[i - 1] = g[i - 1] => f[i] = g[i]
  PROVE  f[N] = g[N]
<1> DEFINE P == {j \in Nat : j <= N => f[j] = g[j]}
<1>1. 0 \in P
  OBVIOUS
<1>2. ASSUME NEW j \in Nat, j \in P
      PROVE  j + 1 \in P
  <2> SUFFICES ASSUME j + 1 <= N
               PROVE  f[j + 1] = g[j + 1]
    OBVIOUS
  <2>1. j + 1 \in 1 .. N /\ j + 1 - 1 = j /\ j <= N
    OBVIOUS
  <2>2. f[j] = g[j]
    BY <1>2, <2>1
  <2> QED
    BY <2>1, <2>2
<1>3. N \in P
  <2> HIDE DEF P
  <2> QED
    BY <1>1, <1>2, Induction
<1> QED
  BY <1>3

-----------------------------------------------------------------------------
\* What is in a sequence that is added to or taken from at an end.
LEMMA RangeNone ==
  ASSUME NEW V
  PROVE  <<>> \in Seq(V) /\ Range(<<>>) = {}
<1>1. <<>> \in Seq(V) /\ Len(<<>>) = 0
  OBVIOUS
<1>2. Range(<<>>) = {<<>>[i] : i \in 1 .. Len(<<>>)}
  BY <1>1, RangeEquality
<1> QED
  BY <1>1, <1>2

\* Appending adds the one appended.
LEMMA RangeAppend ==
  ASSUME NEW V, NEW s \in Seq(V), NEW x \in V
  PROVE  Range(Append(s, x)) = Range(s) \cup {x} /\ Append(s, x) \in Seq(V)
<1>1. Append(s, x) = s \o <<x>> /\ Append(s, x) \in Seq(V)
  BY AppendIsConcat, AppendProperties
<1>2. <<x>> \in Seq(V)
  OBVIOUS
<1>3. Range(<<x>>) = {x}
  <2>1. Range(<<x>>) = {<<x>>[i] : i \in 1 .. 1}
    <3>1. Len(<<x>>) = 1
      OBVIOUS
    <3> QED
      BY <1>2, <3>1, RangeEquality
  <2>2. 1 .. 1 = {1} /\ <<x>>[1] = x
    OBVIOUS
  <2> QED
    BY <2>1, <2>2
<1>4. Range(s \o <<x>>) = Range(s) \cup Range(<<x>>)
  <2>1. PICK o \in Seq(V) : o = <<x>>
    BY <1>2
  <2>2. Range(s \o o) = Range(s) \cup Range(o)
    BY RangeConcatenation
  <2> QED
    BY <2>1, <2>2
<1> QED
  BY <1>1, <1>3, <1>4

\* Taking the first takes that one only.
LEMMA RangeTail ==
  ASSUME NEW V, NEW s \in Seq(V), s # <<>>
  PROVE  /\ Range(s) = {Head(s)} \cup Range(Tail(s)) /\ Head(s) \in V
         /\ Tail(s) \in Seq(V) /\ Len(Tail(s)) = Len(s) - 1 /\ Len(s) \in Nat \ {0}
<1>1. PICK n \in Nat \ {0} : n = Len(s)
  BY EmptySeq
<1>2. PICK t : t = Tail(s)
  OBVIOUS
<1>3. t \in Seq(V) /\ Len(t) = n - 1 /\ \A i \in 1 .. n - 1 : t[i] = s[i + 1]
  BY <1>1, <1>2, HeadTailProperties
<1>4. Range(s) = {s[i] : i \in 1 .. n} /\ Range(t) = {t[i] : i \in 1 .. n - 1}
  BY <1>1, <1>3, RangeEquality
<1>5. Head(s) = s[1] /\ Head(s) \in V
  BY HeadTailProperties
<1>6. Range(s) \subseteq {s[1]} \cup Range(t)
  <2> SUFFICES ASSUME NEW i \in 1 .. n, i # 1
               PROVE  s[i] \in Range(t)
    BY <1>4
  <2>1. i - 1 \in 1 .. n - 1 /\ i - 1 + 1 = i
    OBVIOUS
  <2>2. t[i - 1] = s[i]
    BY <1>3, <2>1
  <2> QED
    BY <1>4, <2>1, <2>2
<1>7. {s[1]} \cup Range(t) \subseteq Range(s)
  <2>1. 1 \in 1 .. n
    OBVIOUS
  <2>2. ASSUME NEW i \in 1 .. n - 1
        PROVE  t[i] \in Range(s)
    <3>1. i + 1 \in 1 .. n /\ t[i] = s[i + 1]
      BY <1>3
    <3> QED
      BY <1>4, <3>1
  <2> QED
    BY <1>4, <2>1, <2>2
<1> QED
  BY <1>1, <1>2, <1>3, <1>5, <1>6, <1>7

\* Taking the last takes that one only.
LEMMA RangeFront ==
  ASSUME NEW V, NEW s \in Seq(V), s # <<>>
  PROVE  /\ Range(s) = {s[Len(s)]} \cup Range(SubSeq(s, 1, Len(s) - 1))
         /\ SubSeq(s, 1, Len(s) - 1) \in Seq(V)
<1>1. PICK n \in Nat \ {0} : n = Len(s)
  BY EmptySeq
<1>2. PICK f : f = SubSeq(s, 1, n - 1)
  OBVIOUS
<1>3. f \in Seq(V) /\ Len(f) = n - 1 /\ \A i \in 1 .. n - 1 : f[i] = s[i]
  <2>1. 1 \in Int /\ n - 1 \in Int /\ \A i \in 1 .. n - 1 : s[i] \in V
    BY <1>1, ElementOfSeq
  <2>2. /\ f \in Seq(V) /\ Len(f) = IF 1 <= n - 1 THEN n - 1 - 1 + 1 ELSE 0
        /\ \A i \in 1 .. n - 1 - 1 + 1 : f[i] = s[1 + i - 1]
    <3>1. PICK k \in Int : k = n - 1
      BY <2>1
    <3>2. /\ SubSeq(s, 1, k) \in Seq(V)
          /\ Len(SubSeq(s, 1, k)) = IF 1 <= k THEN k - 1 + 1 ELSE 0
          /\ \A i \in 1 .. k - 1 + 1 : SubSeq(s, 1, k)[i] = s[1 + i - 1]
      <4>1. \A i \in 1 .. k : s[i] \in V
        BY <2>1, <3>1
      <4> QED
        BY <2>1, <4>1, SubSeqProperties
    <3> QED
      BY <1>2, <3>1, <3>2
  <2> QED
    BY <2>2
<1>4. Range(s) = {s[i] : i \in 1 .. n} /\ Range(f) = {f[i] : i \in 1 .. n - 1}
  BY <1>1, <1>3, RangeEquality
<1>5. 1 .. n = (1 .. n - 1) \cup {n}
  OBVIOUS
<1> QED
  BY <1>1, <1>2, <1>3, <1>4, <1>5
-----------------------------------------------------------------------------
(***************************************************************************)
(* The walk of merge.  Whatever its deque loses, it only meets commits     *)
(* that lie below the one it began with.                                   *)
(***************************************************************************)

\* A function on 1 .. n is a sequence of length n.
LEMMA FunctionLen ==
  ASSUME NEW V, NEW n \in Nat, NEW s \in [1 .. n -> V]
  PROVE  s \in Seq(V) /\ Len(s) = n
<1>1. s \in Seq(V)
  BY SeqDef
<1>2. Len(s) = n
  BY <1>1, LenProperties
<1> QED
  BY <1>1, <1>2

\* Deques with slots in V, one at least when they count something.
Deques(V) ==
  {d \in [slots : Seq(V), filled : Nat, start : Nat, end : Nat] : d.filled # 0 => Len(d.slots) # 0}

\* What is read from such a deque is in V.
LEMMA DequeReads ==
  ASSUME NEW V, NEW d \in Deques(V), Len(d.slots) # 0, NEW i \in Nat
  PROVE  Dq!Nth(d, i) \in V
<1>1. PICK n \in Nat \ {0} : n = Len(d.slots)
  BY LenProperties DEF Deques
<1>2. d.slots \in Seq(V) /\ d.start + i \in Nat
  BY DEF Deques
<1>3. (d.start + i) % n \in 0 .. n - 1
  <2>1. PICK j \in Nat : j = d.start + i
    BY <1>2
  <2>2. j % n \in 0 .. n - 1
    OBVIOUS
  <2> QED
    BY <2>1, <2>2
<1> QED
  BY <1>1, <1>2, <1>3, ElementOfSeq DEF Dq!Nth

\* A push at the back.
LEMMA DequePushes ==
  ASSUME NEW V, NoCommit \in V, NEW d \in Deques(V), NEW x \in V
  PROVE  Dq!PushedBack(d, x) \in Deques(V)
<1>1. /\ d.slots \in Seq(V) /\ d.filled \in Nat /\ d.start \in Nat /\ d.end \in Nat
      /\ d.filled # 0 => Len(d.slots) # 0
  BY DEF Deques
<1>2. PICK r : r = Dq!Room(d)
  OBVIOUS
<1>3. r \in Seq(V) /\ Len(r) \in Nat \ {0}
  <2>1. PICK n \in Nat : n = Len(d.slots)
    BY <1>1, LenProperties
  <2>2. CASE d.filled # n
    <3>1. r = d.slots /\ n # 0
      BY <1>1, <1>2, <2>1, <2>2 DEF Dq!Room
    <3> QED
      BY <1>1, <2>1, <3>1
  <2>3. CASE d.filled = n /\ d.slots = <<>>
    <3>1. r = [i \in 1 .. 2 |-> IF i <= n THEN Dq!Nth(d, i - 1) ELSE NoCommit] /\ n = 0
      BY <1>2, <2>1, <2>3, EmptySeq DEF Dq!Room, Dq!Grown
    <3>2. r \in [1 .. 2 -> V]
      BY <3>1
    <3>3. r \in Seq(V) /\ Len(r) = 2
      <4>1. 2 \in Nat
        OBVIOUS
      <4> QED
        BY <3>2, <4>1, FunctionLen
    <3> QED
      BY <3>3
  <2>4. CASE d.filled = n /\ d.slots # <<>>
    <3>1. r = [i \in 1 .. 2 * n |-> IF i <= n THEN Dq!Nth(d, i - 1) ELSE NoCommit]
      BY <1>2, <2>1, <2>4 DEF Dq!Room, Dq!Grown
    <3>2. n # 0
      BY <1>1, <2>1, <2>4, EmptySeq
    <3>3. \A i \in 1 .. 2 * n : i <= n => Dq!Nth(d, i - 1) \in V
      BY <2>1, <3>2, DequeReads
    <3>4. r \in [1 .. 2 * n -> V] /\ 2 * n \in Nat \ {0}
      BY <3>1, <3>2, <3>3
    <3>5. r \in Seq(V) /\ Len(r) = 2 * n
      BY <3>4, FunctionLen
    <3> QED
      BY <3>4, <3>5
  <2> QED
    BY <2>2, <2>3, <2>4
<1>4. PICK n \in Nat \ {0} : n = Len(r)
  BY <1>3
<1>5. PICK s : s = [r EXCEPT ![d.end + 1] = x]
  OBVIOUS
<1>6. s \in Seq(V) /\ Len(s) # 0
  <2>1. s \in [1 .. n -> V]
    BY <1>3, <1>4, <1>5, SeqDef, LenProperties
  <2>2. s \in Seq(V) /\ Len(s) = n
    BY <1>4, <2>1, FunctionLen
  <2> QED
    BY <1>4, <2>2
<1>7. (d.end + 1) % n \in Nat
  <2>1. PICK j \in Nat : j = d.end + 1
    BY <1>1
  <2>2. j % n \in Nat
    BY <1>4
  <2> QED
    BY <2>1, <2>2
<1>8. Dq!PushedBack(d, x) =
        [slots |-> s, filled |-> d.filled + 1, start |-> d.start, end |-> (d.end + 1) % n]
  BY <1>2, <1>4, <1>5 DEF Dq!PushedBack
<1> QED
  BY <1>1, <1>6, <1>7, <1>8 DEF Deques

\* Pushes of several.
LEMMA DequePushesAll ==
  ASSUME NEW V, NoCommit \in V, NEW d \in Deques(V), NEW s \in Seq(V)
  PROVE  Dq!PushedAll(d, s) \in Deques(V)
<1>1. PICK N \in Nat : N = Len(s)
  BY LenProperties
<1>2. PICK Q : Q = Deques(V)
  OBVIOUS
<1>3. PICK h : h = [q \in Q \X (1 .. N) |-> Dq!PushedBack(q[1], s[q[2]])]
  OBVIOUS
<1>4. ASSUME NEW e \in Q, NEW i \in 1 .. N
      PROVE  h[<<e, i>>] = Dq!PushedBack(e, s[i]) /\ Dq!PushedBack(e, s[i]) \in Q
  <2>1. s[i] \in V
    BY <1>1, ElementOfSeq
  <2>2. Dq!PushedBack(e, s[i]) \in Q
    BY <1>2, <2>1, DequePushes
  <2> QED
    BY <1>3, <2>2
<1>5. h \in [Q \X (1 .. N) -> Q]
  BY <1>3, <1>4
<1>6. d \in Q
  BY <1>2
<1>7. PICK f \in [0 .. N -> Q] : Recursive(f, d, h, N)
  BY <1>5, <1>6, Recursion
<1>8. f[0] = d /\ \A i \in 1 .. N : f[i] = Dq!PushedBack(f[i - 1], s[i])
  <2>1. ASSUME NEW i \in 1 .. N
        PROVE  f[i] = Dq!PushedBack(f[i - 1], s[i])
    <3>1. i - 1 \in 0 .. N
      OBVIOUS
    <3>2. f[i - 1] \in Q /\ f[i] = h[<<f[i - 1], i>>]
      BY <1>7, <3>1 DEF Recursive
    <3> QED
      BY <1>4, <3>2
  <2> QED
    BY <1>7, <2>1 DEF Recursive
<1>9. f = [n \in 0 .. N |-> IF n = 0 THEN d ELSE Dq!PushedBack(f[n - 1], s[n])]
  <2>1. \A n \in 0 .. N : f[n] = IF n = 0 THEN d ELSE Dq!PushedBack(f[n - 1], s[n])
    BY <1>8
  <2> QED
    BY <1>7, <2>1
<1>10. PICK g : /\ g = [n \in 0 .. N |-> IF n = 0 THEN d ELSE Dq!PushedBack(g[n - 1], s[n])]
                /\ Dq!PushedAll(d, s) = g[N]
  BY Zenon, <1>1, <1>9 DEF Dq!PushedAll
<1>11. \A n \in 0 .. N : g[n] = IF n = 0 THEN d ELSE Dq!PushedBack(g[n - 1], s[n])
  BY Zenon, <1>10
<1>12. f[N] = g[N]
  <2>1. f[0] = g[0]
    BY <1>8, <1>11
  <2>2. ASSUME NEW i \in 1 .. N, f[i - 1] = g[i - 1]
        PROVE  f[i] = g[i]
    BY <1>8, <1>11, <2>2
  <2> QED
    BY <2>1, <2>2, SameRecursion
<1> QED
  BY <1>2, <1>7, <1>10, <1>12

\* A pop at the front.
LEMMA DequePops ==
  ASSUME NEW V, NEW d \in Deques(V), d.filled # 0
  PROVE  Dq!PoppedFront(d) \in Deques(V) /\ Dq!Front(d) \in V
<1>1. /\ d \in [slots : Seq(V), filled : Nat, start : Nat, end : Nat]
      /\ Len(d.slots) # 0
  BY DEF Deques
<1>2. PICK n \in Nat \ {0} : n = Len(d.slots)
  BY <1>1, LenProperties
<1>3. (d.start + 1) % n \in Nat
  <2>1. PICK j \in Nat : j = d.start + 1
    BY <1>1
  <2>2. j % n \in Nat
    OBVIOUS
  <2> QED
    BY <2>1, <2>2
<1>4. Dq!PoppedFront(d) = [d EXCEPT !.filled = d.filled - 1, !.start = (d.start + 1) % n]
  BY <1>2 DEF Dq!PoppedFront
<1>5. Dq!PoppedFront(d) \in Deques(V)
  <2>1. d.filled - 1 \in Nat
    BY <1>1
  <2> QED
    BY <1>1, <1>3, <1>4, <2>1 DEF Deques
<1> QED
  BY <1>1, <1>5, DequeReads DEF Dq!Front

\* States of a walk that has met nothing but commits of V.
Walks(V, ours) ==
  {w \in [dq : Deques(V),
          answer : {"walking", "divergent", "crash", "fast-forward", "exception"}] :
     w.answer = "fast-forward" => ours \in V \ {NoCommit}}

\* A round keeps to commits of V when V has their parents.
LEMMA RoundWithin ==
  ASSUME NEW V, NoCommit \in V, NEW parents, NEW readable, NEW ours,
         \A d \in V \ {NoCommit} : parents[d] \in Seq(V),
         NEW w \in Walks(V, ours)
  PROVE  Round(parents, readable, ours, w) \in Walks(V, ours)
<1>1. w.dq \in Deques(V) /\ w \in [dq : Deques(V),
          answer : {"walking", "divergent", "crash", "fast-forward", "exception"}]
  BY DEF Walks
<1>2. CASE w.answer # "walking"
  BY <1>2 DEF Round
<1>3. CASE w.answer = "walking" /\ w.dq.filled = 0
  <2>1. Round(parents, readable, ours, w) = [w EXCEPT !.answer = "divergent"]
    BY <1>3 DEF Round
  <2> QED
    BY <1>1, <2>1 DEF Walks
<1>4. CASE w.answer = "walking" /\ w.dq.filled # 0
  <2>1. PICK cur, rest : cur = Dq!Front(w.dq) /\ rest = Dq!PoppedFront(w.dq)
    OBVIOUS
  <2>2. cur \in V /\ rest \in Deques(V)
    BY <1>1, <1>4, <2>1, DequePops
  <2>3. PICK then : then = Looked(parents, readable, ours, cur)
    OBVIOUS
  <2>4. /\ then \in {"walking", "crash", "fast-forward", "exception"}
        /\ then \in {"walking", "fast-forward"} => cur # NoCommit
        /\ then = "fast-forward" => cur = ours
    BY <2>3 DEF Looked
  <2>5. PICK dq : dq = IF then = "walking" THEN Dq!PushedAll(rest, parents[cur]) ELSE rest
    OBVIOUS
  <2>6. dq \in Deques(V)
    <3>1. CASE then = "walking"
      <4>1. parents[cur] \in Seq(V)
        BY <2>2, <2>4, <3>1
      <4> QED
        BY <2>2, <2>5, <3>1, <4>1, DequePushesAll
    <3> QED
      BY <2>2, <2>5, <3>1
  <2>7. Round(parents, readable, ours, w) = [answer |-> then, dq |-> dq]
    BY <1>4, <2>1, <2>3, <2>5 DEF Round
  <2> QED
    BY <2>2, <2>4, <2>6, <2>7 DEF Walks
<1> QED
  BY <1>2, <1>3, <1>4

\* V holds, with a commit, the parents of it.
ParentsWithin(parents, V) == \A d \in V \ {NoCommit} : parents[d] \in Seq(V)

\* A walk that meets ours has come to it from c, by parents alone.
LEMMA WalkedBelow ==
  ASSUME NEW V, NoCommit \in V, NEW parents, NEW readable, NEW ours, NEW c \in V, c \in Nat,
         ParentsWithin(parents, V),
         Walked(parents, readable, ours, c) = "fast-forward"
  PROVE  ours \in V \ {NoCommit}
<1> USE DEF ParentsWithin
<1>1. PICK N \in Nat : N = Rounds(c)
  <2>1. IsFiniteSet(SUBSET (1 .. c))
    <3>1. IsFiniteSet(1 .. c)
      BY FS_Interval
    <3> QED
      BY Zenon, <3>1, FS_SUBSET
  <2> QED
    BY <2>1, FS_CardinalityType DEF Rounds
<1>2. PICK W : W = Walks(V, ours)
  OBVIOUS
<1>3. PICK h : h = [q \in W \X (1 .. N) |-> Round(parents, readable, ours, q[1])]
  OBVIOUS
<1>4. ASSUME NEW w \in W, NEW i \in 1 .. N
      PROVE  /\ h[<<w, i>>] = Round(parents, readable, ours, w)
             /\ Round(parents, readable, ours, w) \in W
  <2>1. Round(parents, readable, ours, w) \in W
    BY <1>2, RoundWithin
  <2> QED
    BY <1>3, <2>1
<1>5. h \in [W \X (1 .. N) -> W]
  BY <1>3, <1>4
<1>6. PICK b \in W : b = FirstRound(c)
  <2>1. Dq!EmptyDeque \in Deques(V)
    <3>1. <<>> \in Seq(V)
      BY EmptySeq
    <3> QED
      BY <3>1 DEF Dq!EmptyDeque, Deques
  <2>2. Dq!PushedBack(Dq!EmptyDeque, c) \in Deques(V)
    BY <2>1, DequePushes
  <2> QED
    BY <1>2, <2>2 DEF FirstRound, Walks
<1>7. PICK f \in [0 .. N -> W] : Recursive(f, b, h, N)
  BY <1>5, Recursion
<1>8. f[0] = b /\ \A i \in 1 .. N : f[i] = Round(parents, readable, ours, f[i - 1])
  <2>1. ASSUME NEW i \in 1 .. N
        PROVE  f[i] = Round(parents, readable, ours, f[i - 1])
    <3>1. i - 1 \in 0 .. N
      OBVIOUS
    <3>2. f[i - 1] \in W /\ f[i] = h[<<f[i - 1], i>>]
      BY <1>7, <3>1 DEF Recursive
    <3> QED
      BY <1>4, <3>2
  <2> QED
    BY <1>7, <2>1 DEF Recursive
<1>9. f = [n \in 0 .. N |-> IF n = 0 THEN b ELSE Round(parents, readable, ours, f[n - 1])]
  <2>1. \A n \in 0 .. N : f[n] = IF n = 0 THEN b ELSE Round(parents, readable, ours, f[n - 1])
    BY <1>8
  <2> QED
    BY <1>7, <2>1
<1>10. PICK g : /\ g = [n \in 0 .. N |-> IF n = 0 THEN b
                                         ELSE Round(parents, readable, ours, g[n - 1])]
                /\ Walked(parents, readable, ours, c) = g[N].answer
  BY Zenon, <1>1, <1>6, <1>9 DEF Walked
<1>11. \A n \in 0 .. N : g[n] = IF n = 0 THEN b ELSE Round(parents, readable, ours, g[n - 1])
  BY Zenon, <1>10
<1>12. f[N] = g[N]
  <2>1. f[0] = g[0]
    BY <1>8, <1>11
  <2>2. ASSUME NEW i \in 1 .. N, f[i - 1] = g[i - 1]
        PROVE  f[i] = g[i]
    BY <1>8, <1>11, <2>2
  <2> QED
    BY <2>1, <2>2, SameRecursion
<1> QED
  BY <1>2, <1>7, <1>10, <1>12 DEF Walks
=============================================================================

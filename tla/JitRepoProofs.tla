---------------------------- MODULE JitRepoProofs ----------------------------
(***************************************************************************)
(* Proofs about JitRepo, for any set of paths, texts and branches, and     *)
(* about the nesting of the trees it commits, for any set of files.        *)
(***************************************************************************)
EXTENDS JitRepo, WriteTree, DataLemmas

-----------------------------------------------------------------------------
(***************************************************************************)
(* The index file.                                                         *)
(***************************************************************************)

\* What the words of an index file are taken from.
AnyWord == Text \cup Key \cup Stray

\* pathString of anything is a key.
LEMMA PathStringType ==
  ASSUME NEW t
  PROVE  PathString(t) \in Key
BY DEF PathString, Key

\* The words s with the line of the n-th key after them, if f has that key.
Longer(f, s, n) ==
  IF Sorted[n] \in DOMAIN f THEN s \o Append(Parts[Sorted[n]], f[Sorted[n]]) ELSE s

\* They are words again.
LEMMA LongerType ==
  ASSUME NEW f \in Tree, NEW s \in Seq(AnyWord), NEW n \in 1 .. Len(Sorted)
  PROVE  Longer(f, s, n) \in Seq(AnyWord)
<1>1. PICK k : k = Sorted[n]
  OBVIOUS
<1>2. k \in Key
  BY <1>1, SortedAssumption, ElementOfSeq
<1>3. PICK line : line = Parts[k]
  OBVIOUS
<1>4. line \in Seq(AnyWord)
  <2>1. line \in Seq(Path \cup {Dot} \cup Stray)
    BY <1>2, <1>3, WordAssumption
  <2>2. Path \cup {Dot} \cup Stray \subseteq AnyWord
    BY DEF AnyWord, Key
  <2> QED
    BY <2>1, <2>2
<1>5. CASE k \in DOMAIN f
  <2>1. f[k] \in AnyWord
    BY <1>5 DEF Tree, AnyWord
  <2>2. Append(line, f[k]) \in Seq(AnyWord)
    BY <1>4, <2>1, AppendProperties
  <2>3. s \o Append(line, f[k]) \in Seq(AnyWord)
    BY <2>2, ConcatProperties
  <2> QED
    BY <1>1, <1>3, <1>5, <2>3 DEF Longer
<1>6. CASE k \notin DOMAIN f
  BY <1>1, <1>6 DEF Longer
<1> QED
  BY <1>5, <1>6

\* save writes line after line.
LEMMA SavedByLines ==
  ASSUME NEW f \in Tree
  PROVE  /\ Len(Sorted) \in Nat
         /\ \E g \in [0 .. Len(Sorted) -> Seq(AnyWord)] :
              /\ g[0] = <<>>
              /\ \A n \in 1 .. Len(Sorted) : g[n] = Longer(f, g[n - 1], n)
              /\ Saved(f) = g[Len(Sorted)]
<1>1. PICK N \in Nat : N = Len(Sorted)
  BY SortedAssumption, LenProperties
<1>2. PICK Q : Q = Seq(AnyWord)
  OBVIOUS
<1>3. PICK h : h = [q \in Q \X (1 .. N) |-> Longer(f, q[1], q[2])]
  OBVIOUS
<1>4. ASSUME NEW s \in Q, NEW n \in 1 .. N
      PROVE  h[<<s, n>>] = Longer(f, s, n) /\ Longer(f, s, n) \in Q
  <2>1. Longer(f, s, n) \in Q
    BY <1>1, <1>2, LongerType
  <2> QED
    BY <1>3, <2>1
<1>5. h \in [Q \X (1 .. N) -> Q]
  BY <1>3, <1>4
<1>6. <<>> \in Q
  BY <1>2, EmptySeq
<1>7. PICK g \in [0 .. N -> Q] : Recursive(g, <<>>, h, N)
  BY <1>5, <1>6, Recursion
<1>8. g[0] = <<>> /\ \A n \in 1 .. N : g[n] = Longer(f, g[n - 1], n)
  <2>1. ASSUME NEW n \in 1 .. N
        PROVE  g[n] = Longer(f, g[n - 1], n)
    <3>1. n - 1 \in 0 .. N
      OBVIOUS
    <3>2. g[n - 1] \in Q /\ g[n] = h[<<g[n - 1], n>>]
      BY <1>7, <3>1 DEF Recursive
    <3> QED
      BY <1>4, <3>2
  <2> QED
    BY <1>7, <2>1 DEF Recursive
<1>9. g = [n \in 0 .. N |->
             IF n = 0 THEN <<>>
             ELSE IF Sorted[n] \in DOMAIN f
                    THEN g[n - 1] \o Append(Parts[Sorted[n]], f[Sorted[n]])
             ELSE g[n - 1]]
  <2>1. \A n \in 0 .. N : g[n] = IF n = 0 THEN <<>>
                                 ELSE IF Sorted[n] \in DOMAIN f
                                        THEN g[n - 1] \o Append(Parts[Sorted[n]], f[Sorted[n]])
                                 ELSE g[n - 1]
    <3> TAKE n \in 0 .. N
    <3>1. CASE n = 0
      BY Zenon, <1>8, <3>1
    <3>2. CASE n # 0
      <4>1. n \in 1 .. N
        BY <3>2
      <4> QED
        BY Zenon, <1>8, <3>2, <4>1 DEF Longer
    <3> QED
      BY <3>1, <3>2
  <2> QED
    BY <1>7, <2>1
<1>10. PICK e : /\ e = [n \in 0 .. N |->
                          IF n = 0 THEN <<>>
                          ELSE IF Sorted[n] \in DOMAIN f
                                 THEN e[n - 1] \o Append(Parts[Sorted[n]], f[Sorted[n]])
                          ELSE e[n - 1]]
                /\ Saved(f) = e[N]
  BY Zenon, <1>1, <1>9 DEF Saved
<1>11. \A n \in 0 .. N : e[n] = IF n = 0 THEN <<>>
                                ELSE IF Sorted[n] \in DOMAIN f
                                       THEN e[n - 1] \o Append(Parts[Sorted[n]], f[Sorted[n]])
                                ELSE e[n - 1]
  BY Zenon, <1>10
<1>12. e[N] = g[N]
  <2>1. e[0] = g[0]
    BY <1>8, <1>11
  <2>2. ASSUME NEW n \in 1 .. N, e[n - 1] = g[n - 1]
        PROVE  e[n] = g[n]
    BY <1>8, <1>11, <2>2 DEF Longer
  <2> QED
    BY <2>1, <2>2, SameRecursion
<1> QED
  BY <1>1, <1>2, <1>7, <1>8, <1>10, <1>12

\* A set of numbers up to n that has one has a last one.
LEMMA LastOne ==
  ASSUME NEW n \in Nat, NEW I, I \subseteq 1 .. n, I # {}
  PROVE  \E i \in I : \A j \in i + 1 .. n : j \notin I
<1>1. PICK T : T = {n - i : i \in I}
  OBVIOUS
<1>2. T \subseteq Nat /\ T # {}
  <2>1. \A i \in I : n - i \in Nat
    <3> TAKE i \in I
    <3>1. i \in 1 .. n
      OBVIOUS
    <3> QED
      BY <3>1
  <2> QED
    BY <1>1, <2>1
<1>3. PICK m \in T : \A k \in T : m <= k
  BY <1>2, LeastNumber
<1>4. PICK i \in I : m = n - i
  BY <1>1, <1>3
<1>5. ASSUME NEW j \in i + 1 .. n, j \in I
      PROVE  FALSE
  <2>1. n - j \in T
    BY <1>1, <1>5
  <2>2. n - i <= n - j
    BY <1>3, <1>4, <2>1
  <2> QED
    BY <1>4, <1>5, <2>2
<1> QED
  BY <1>4, <1>5

\* The last time a path is read.
LastRead(s, n, x) ==
  CHOOSE i \in 1 .. n : /\ PathString(s[2 * i - 1]) = x
                        /\ \A j \in i + 1 .. n : PathString(s[2 * j - 1]) # x

\* There is one if the path is read at all.
LEMMA LastReadFound ==
  ASSUME NEW s, NEW n \in Nat, NEW i \in 1 .. n
  PROVE  LET x == PathString(s[2 * i - 1])
         IN  /\ LastRead(s, n, x) \in 1 .. n
             /\ PathString(s[2 * LastRead(s, n, x) - 1]) = x
<1>1. PICK x : x = PathString(s[2 * i - 1])
  OBVIOUS
<1>2. PICK I : I = {j \in 1 .. n : PathString(s[2 * j - 1]) = x}
  OBVIOUS
<1>3. i \in I /\ I \subseteq 1 .. n
  BY <1>1, <1>2
<1>4. PICK l \in I : \A j \in l + 1 .. n : j \notin I
  BY <1>3, LastOne
<1>5. /\ l \in 1 .. n /\ PathString(s[2 * l - 1]) = x
      /\ \A j \in l + 1 .. n : PathString(s[2 * j - 1]) # x
  <2>1. l \in 1 .. n /\ PathString(s[2 * l - 1]) = x
    BY <1>2, <1>4
  <2>2. ASSUME NEW j \in l + 1 .. n
        PROVE  PathString(s[2 * j - 1]) # x
    <3>1. j \in 1 .. n /\ j \notin I
      BY <1>4, <2>1
    <3> QED
      BY <1>2, <3>1
  <2> QED
    BY <2>1, <2>2
<1>6. LastRead(s, n, x) \in 1 .. n /\ PathString(s[2 * LastRead(s, n, x) - 1]) = x
  BY Zenon, <1>5 DEF LastRead
<1> QED
  BY <1>1, <1>6

\* What is read is an index.
LEMMA ReadBackType ==
  ASSUME NEW s \in Seq(AnyWord), NEW n \in Nat, 2 * n <= Len(s)
  PROVE  ReadBack(s, n) \in Tree
<1> DEFINE X == {PathString(s[2 * i - 1]) : i \in 1 .. n}
<1>1. ReadBack(s, n) = [x \in X |-> s[2 * LastRead(s, n, x)]]
  BY DEF ReadBack, LastRead
<1>2. X \in SUBSET Key
  BY PathStringType
<1>3. ASSUME NEW x \in X
      PROVE  s[2 * LastRead(s, n, x)] \in AnyWord
  <2>1. PICK l \in 1 .. n : l = LastRead(s, n, x)
    BY LastReadFound
  <2>2. PICK m \in Nat : m = Len(s)
    BY LenProperties
  <2>3. 2 * l \in 1 .. Len(s)
    BY <2>2
  <2> QED
    BY <2>1, <2>3, ElementOfSeq
<1> HIDE DEF X
<1>4. ReadBack(s, n) \in [X -> AnyWord]
  BY <1>1, <1>3
<1> QED
  BY <1>2, <1>4 DEF Tree, AnyWord

\* Half of a number.
LEMMA Half ==
  ASSUME NEW l \in Nat
  PROVE  l \div 2 \in Nat /\ 2 * (l \div 2) <= l /\ \A m \in Nat : l = 2 * m => l \div 2 = m
OBVIOUS

\* load produces an index whatever file it reads.
LEMMA LoadType ==
  ASSUME NEW f \in Tree
  PROVE  Load(f) \in Tree
<1>1. PICK s : s = Saved(f)
  OBVIOUS
<1>2. s \in Seq(AnyWord)
  <2>1. PICK N \in Nat : N = Len(Sorted)
    BY SavedByLines
  <2>2. PICK g \in [0 .. N -> Seq(AnyWord)] : s = g[N]
    BY <1>1, <2>1, SavedByLines
  <2> QED
    BY <2>2
<1>3. PICK l \in Nat : l = Len(s)
  BY <1>2, LenProperties
<1>4. ReadBack(s, l \div 2) \in Tree
  BY <1>2, <1>3, Half, ReadBackType
<1> QED
  BY <1>1, <1>3, <1>4 DEF Load

\* The words s pair the keys of f with their hashes, those of its keys among
\* them that are among the first n.
Paired(f, s, n) ==
  \E m \in Nat :
    /\ Len(s) = 2 * m
    /\ \A i \in 1 .. m : s[2 * i - 1] \in DOMAIN f /\ s[2 * i] = f[s[2 * i - 1]]
    /\ \A j \in 1 .. n : Sorted[j] \in DOMAIN f => \E i \in 1 .. m : s[2 * i - 1] = Sorted[j]

\* The line of a key without a space is one more pair.
LEMMA PairedLonger ==
  ASSUME NEW f \in Tree, \A k \in DOMAIN f : OneWord(k),
         NEW s \in Seq(AnyWord), NEW o \in Nat, NEW n \in 1 .. Len(Sorted), n = o + 1,
         Paired(f, s, o)
  PROVE  Paired(f, Longer(f, s, n), n)
<1>1. PICK k : k = Sorted[n]
  OBVIOUS
<1>2. PICK m \in Nat :
        /\ Len(s) = 2 * m
        /\ \A i \in 1 .. m : s[2 * i - 1] \in DOMAIN f /\ s[2 * i] = f[s[2 * i - 1]]
        /\ \A j \in 1 .. o : Sorted[j] \in DOMAIN f => \E i \in 1 .. m : s[2 * i - 1] = Sorted[j]
  BY DEF Paired
<1>3. CASE k \notin DOMAIN f
  <2>1. Longer(f, s, n) = s
    BY <1>1, <1>3 DEF Longer
  <2>2. ASSUME NEW j \in 1 .. n, Sorted[j] \in DOMAIN f
        PROVE  j \in 1 .. o
    BY <1>1, <1>3, <2>2
  <2>3. \A j \in 1 .. n : Sorted[j] \in DOMAIN f => \E i \in 1 .. m : s[2 * i - 1] = Sorted[j]
    BY <1>2, <2>2
  <2>4. Paired(f, s, n)
    BY <1>2, <2>3 DEF Paired
  <2> QED
    BY <2>1, <2>4
<1>4. CASE k \in DOMAIN f
  <2>1. k \in AnyWord /\ f[k] \in AnyWord
    BY <1>4 DEF Tree, AnyWord
  <2>2. PICK line : line = Append(Parts[k], f[k])
    OBVIOUS
  <2>3. line \in Seq(AnyWord) /\ Len(line) = 2 /\ line[1] = k /\ line[2] = f[k]
    <3>1. PICK one : one = <<k>>
      OBVIOUS
    <3>2. one \in Seq(AnyWord) /\ Len(one) = 1 /\ one[1] = k
      BY <2>1, <3>1
    <3>3. line = Append(one, f[k])
      BY <1>4, <2>2, <3>1 DEF OneWord
    <3>4. PICK h \in AnyWord : h = f[k]
      BY <2>1
    <3>5. /\ Append(one, h) \in Seq(AnyWord) /\ Len(Append(one, h)) = Len(one) + 1
          /\ \A i \in 1 .. Len(one) : Append(one, h)[i] = one[i]
          /\ Append(one, h)[Len(one) + 1] = h
      <4>1. one \in Seq(AnyWord) /\ h \in AnyWord
        BY <3>2
      <4> QED
        BY ONLY <4>1, AppendProperties
    <3> QED
      BY <3>2, <3>3, <3>4, <3>5
  <2>4. PICK t : t = s \o line
    OBVIOUS
  <2>5. /\ Len(t) = 2 * m + 2
        /\ \A i \in 1 .. 2 * m + 2 : t[i] = IF i <= 2 * m THEN s[i] ELSE line[i - 2 * m]
    <3>1. /\ Len(s \o line) = Len(s) + Len(line)
          /\ \A i \in 1 .. Len(s) + Len(line) :
               (s \o line)[i] = IF i <= Len(s) THEN s[i] ELSE line[i - Len(s)]
      BY <2>3, ConcatProperties
    <3> QED
      BY <1>2, <2>3, <2>4, <3>1
  <2>6. \A i \in 1 .. m : t[2 * i - 1] = s[2 * i - 1] /\ t[2 * i] = s[2 * i]
    BY <2>5
  <2>7. t[2 * (m + 1) - 1] = k /\ t[2 * (m + 1)] = f[k]
    <3>1. 2 * (m + 1) - 1 = 2 * m + 1 /\ 2 * (m + 1) = 2 * m + 2
      OBVIOUS
    <3>2. t[2 * m + 1] = line[1] /\ t[2 * m + 2] = line[2]
      <4>1. PICK a \in Nat : a = 2 * m
        OBVIOUS
      <4>2. a + 1 \in 1 .. a + 2 /\ a + 2 \in 1 .. a + 2 /\ ~(a + 1 <= a) /\ ~(a + 2 <= a)
            /\ a + 1 - a = 1 /\ a + 2 - a = 2
        OBVIOUS
      <4>3. \A i \in 1 .. a + 2 : t[i] = IF i <= a THEN s[i] ELSE line[i - a]
        BY <2>5, <4>1
      <4>4. t[a + 1] = line[a + 1 - a] /\ t[a + 2] = line[a + 2 - a]
        BY <4>2, <4>3
      <4> QED
        BY <4>1, <4>2, <4>4
    <3> QED
      BY <2>3, <3>1, <3>2
  <2>8. \A i \in 1 .. m + 1 : t[2 * i - 1] \in DOMAIN f /\ t[2 * i] = f[t[2 * i - 1]]
    <3> SUFFICES ASSUME NEW i \in 1 .. m + 1
                 PROVE  t[2 * i - 1] \in DOMAIN f /\ t[2 * i] = f[t[2 * i - 1]]
      OBVIOUS
    <3>1. CASE i \in 1 .. m
      BY <1>2, <2>6, <3>1
    <3>2. CASE i = m + 1
      BY <1>4, <2>7, <3>2
    <3> QED
      BY <3>1, <3>2
  <2>9. ASSUME NEW j \in 1 .. n, Sorted[j] \in DOMAIN f
        PROVE  \E i \in 1 .. m + 1 : t[2 * i - 1] = Sorted[j]
    <3>1. CASE j = n
      <4>1. m + 1 \in 1 .. m + 1
        OBVIOUS
      <4> QED
        BY <1>1, <2>7, <3>1, <4>1
    <3>2. CASE j \in 1 .. o
      <4>1. PICK i \in 1 .. m : s[2 * i - 1] = Sorted[j]
        BY <1>2, <2>9, <3>2
      <4>2. i \in 1 .. m + 1 /\ t[2 * i - 1] = Sorted[j]
        BY <2>6, <4>1
      <4> QED
        BY <4>2
    <3> QED
      BY <3>1, <3>2
  <2>10. Len(t) = 2 * (m + 1) /\ m + 1 \in Nat
    BY <2>5
  <2>11. Paired(f, t, n)
    BY <2>8, <2>9, <2>10 DEF Paired
  <2> QED
    BY <1>1, <1>4, <2>2, <2>4, <2>11 DEF Longer
<1> QED
  BY <1>3, <1>4

\* So is the whole file when no key has a space.
LEMMA SavedPaired ==
  ASSUME NEW f \in Tree, \A k \in DOMAIN f : OneWord(k)
  PROVE  Saved(f) \in Seq(AnyWord) /\ Paired(f, Saved(f), Len(Sorted))
<1>1. PICK N \in Nat : N = Len(Sorted)
  BY SavedByLines
<1>2. PICK g \in [0 .. N -> Seq(AnyWord)] :
        g[0] = <<>> /\ (\A n \in 1 .. N : g[n] = Longer(f, g[n - 1], n)) /\ Saved(f) = g[N]
  BY <1>1, SavedByLines
<1> DEFINE P == {n \in Nat : n <= N => Paired(f, g[n], n)}
<1>3. 0 \in P
  <2>1. Len(<<>>) = 2 * 0 /\ 0 \in Nat
    OBVIOUS
  <2>2. \A i \in 1 .. 0 : FALSE
    OBVIOUS
  <2>3. Paired(f, <<>>, 0)
    BY <2>1, <2>2 DEF Paired
  <2> QED
    BY <1>2, <2>3
<1>4. ASSUME NEW n \in Nat, n \in P
      PROVE  n + 1 \in P
  <2> SUFFICES ASSUME n + 1 <= N
               PROVE  Paired(f, g[n + 1], n + 1)
    OBVIOUS
  <2>1. PICK k \in 1 .. N : k = n + 1
    OBVIOUS
  <2>2. n \in 0 .. N /\ k - 1 = n
    BY <2>1
  <2>3. g[n] \in Seq(AnyWord) /\ Paired(f, g[n], n)
    BY <1>4, <2>2
  <2>4. Paired(f, Longer(f, g[n], k), k)
    BY <1>1, <2>1, <2>3, PairedLonger
  <2>5. g[k] = Longer(f, g[n], k)
    BY <1>2, <2>2
  <2> QED
    BY <2>1, <2>4, <2>5
<1>5. Nat \subseteq P
  <2> HIDE DEF P
  <2> QED
    BY <1>3, <1>4, Induction
<1>6. Paired(f, g[N], N) /\ g[N] \in Seq(AnyWord)
  BY <1>5
<1> QED
  BY <1>1, <1>2, <1>6

\* load reads back what was saved while every listed file is there, under a
\* name without a space.
LEMMA LoadIdentity ==
  ASSUME NEW f \in Tree, \A k \in DOMAIN f : OneWord(k) /\ PathString(k) = k
  PROVE  Load(f) = f
<1>1. PICK s : s = Saved(f)
  OBVIOUS
<1>2. s \in Seq(AnyWord) /\ Paired(f, s, Len(Sorted))
  BY <1>1, SavedPaired
<1>3. PICK m \in Nat :
        /\ Len(s) = 2 * m
        /\ \A i \in 1 .. m : s[2 * i - 1] \in DOMAIN f /\ s[2 * i] = f[s[2 * i - 1]]
        /\ \A j \in 1 .. Len(Sorted) :
             Sorted[j] \in DOMAIN f => \E i \in 1 .. m : s[2 * i - 1] = Sorted[j]
  BY <1>2 DEF Paired
<1>4. Load(f) = ReadBack(s, m)
  <2>1. PICK l \in Nat : l = Len(s)
    BY <1>2, LenProperties
  <2>2. l \div 2 = m
    BY <1>3, <2>1, Half
  <2> QED
    BY <1>1, <2>1, <2>2 DEF Load
<1> DEFINE X == {PathString(s[2 * i - 1]) : i \in 1 .. m}
<1>5. ReadBack(s, m) = [x \in X |-> s[2 * LastRead(s, m, x)]]
  BY DEF ReadBack, LastRead
<1>6. \A i \in 1 .. m : PathString(s[2 * i - 1]) = s[2 * i - 1]
  BY <1>3
<1>7. X = DOMAIN f
  <2>1. X \subseteq DOMAIN f
    BY <1>3, <1>6
  <2>2. ASSUME NEW k \in DOMAIN f
        PROVE  k \in X
    <3>1. k \in Key
      BY DEF Tree
    <3>2. PICK j \in 1 .. Len(Sorted) : k = Sorted[j]
      <4>1. Range(Sorted) = {Sorted[j] : j \in 1 .. Len(Sorted)}
        BY SortedAssumption, RangeEquality
      <4> QED
        BY <3>1, <4>1, SortedAssumption
    <3>3. PICK i \in 1 .. m : s[2 * i - 1] = k
      BY <1>3, <3>2
    <3> QED
      BY <1>6, <3>3
  <2> QED
    BY <2>1, <2>2
<1>8. ASSUME NEW x \in X
      PROVE  s[2 * LastRead(s, m, x)] = f[x]
  <2>1. PICK i \in 1 .. m : x = PathString(s[2 * i - 1])
    OBVIOUS
  <2>2. PICK l \in 1 .. m : l = LastRead(s, m, x) /\ PathString(s[2 * l - 1]) = x
    BY <2>1, LastReadFound
  <2>3. s[2 * l - 1] = x
    BY <1>6, <2>2
  <2> QED
    BY <1>3, <2>2, <2>3
<1>9. f = [k \in DOMAIN f |-> f[k]]
  BY DEF Tree
<1> HIDE DEF X
<1> QED
  BY <1>4, <1>5, <1>7, <1>8, <1>9

\* HashMap::set over an index leaves an index.
LEMMA OverlayType ==
  ASSUME NEW f \in Tree, NEW g \in Tree
  PROVE  Overlay(f, g) \in Tree
<1> DEFINE K == DOMAIN f \cup DOMAIN g
           h == [k \in K |-> IF k \in DOMAIN g THEN g[k] ELSE f[k]]
<1>1. K \in SUBSET Key
  BY DEF Tree
<1>2. \A k \in K : h[k] \in Text \cup Key \cup Stray
  BY DEF Tree
<1>3. h \in [K -> Text \cup Key \cup Stray]
  BY <1>2
<1> QED
  BY <1>1, <1>3 DEF Overlay, Tree

\* writeTree makes a tree of any index.
LEMMA SnapshotType ==
  ASSUME NEW f \in Tree
  PROVE  Snapshot(f) \in Tree
<1>1. Written(DOMAIN f) \subseteq DOMAIN f
  BY DEF Written
<1> QED
  BY <1>1 DEF Snapshot, Restrict, Tree

-----------------------------------------------------------------------------
(***************************************************************************)
(* Types.                                                                  *)
(***************************************************************************)

Commits == [tree : Tree, parents : Seq(Ids)]

\* The tree of a stored commit, and what restoring it takes from it.
LEMMA StoredTree ==
  ASSUME TypeOK, NEW c \in Stored
  PROVE  /\ commits[c] \in Commits
         /\ commits[c].tree \in Tree
         /\ Kept(c) \subseteq Key
         /\ \A k \in Kept(c) : commits[c].tree[k] \in Text
<1>1. commits[c] \in Commits
  <2>1. commits \in Seq(Commits)
    BY DEF TypeOK, Commits
  <2> QED
    BY <2>1 DEF Stored
<1>2. commits[c].tree \in Tree
  BY <1>1 DEF Commits
<1> QED
  BY <1>1, <1>2 DEF TypeOK, Kept, Tree

\* The commits that are stored are within the bound.
LEMMA StoredIds ==
  ASSUME TypeOK
  PROVE  Len(commits) \in Nat /\ Stored \subseteq Ids
BY RefAssumption DEF TypeOK, Stored, Ids

\* What HEAD stands for when it resolves.
LEMMA HeadCommitType ==
  ASSUME TypeOK, HeadResolves
  PROVE  HeadCommit \in Ids \cup {NoCommit}
BY DEF TypeOK, HeadResolves, HeadCommit, Tip

\* A checkout leaves a text, or no file, under each path.
LEMMA RestoredType ==
  ASSUME TypeOK, NEW c \in Stored
  PROVE  Restored(c) \in [Path -> Text \cup {NoFile}]
BY StoredTree DEF Restored, TypeOK

\* readTree adds entries that an index can hold.
LEMMA TreeEntriesType ==
  ASSUME TypeOK, NEW c \in Stored
  PROVE  TreeEntries(c) \in Tree
<1> DEFINE names == (Kept(c) \cap Path) \cup (IF Kept(c) \subseteq Path THEN {} ELSE {Dot})
           g == [k \in names |-> IF k \in Kept(c) THEN commits[c].tree[k]
                                                  ELSE commits[c].tree[Blank]]
<1>1. names \in SUBSET Key
  BY DEF Key
<1>2. ASSUME NEW k \in names
      PROVE  g[k] \in Text \cup Key \cup Stray
  <2>1. CASE k \in Kept(c)
    BY <2>1, StoredTree
  <2>2. CASE k \notin Kept(c)
    <3>1. k = Dot /\ ~(Kept(c) \subseteq Path)
      BY <2>2
    <3>2. Blank \in Kept(c)
      BY <2>2, <3>1, StoredTree DEF Key
    <3> QED
      BY <2>2, <3>2, StoredTree
  <2> QED
    BY <2>1, <2>2
<1>3. g \in [names -> Text \cup Key \cup Stray]
  BY <1>2
<1> QED
  BY <1>1, <1>3 DEF TreeEntries, Tree

\* commit makes a commit of the type of those that are stored.
LEMMA NewCommitType ==
  ASSUME TypeOK, HeadResolves
  PROVE  NewCommit \in Commits
<1>1. Snapshot(Load(index)) \in Tree
  BY LoadType, SnapshotType DEF TypeOK
<1>2. NewCommit.parents \in Seq(Ids)
  <2>1. HeadCommit \in Ids \cup {NoCommit} /\ mergeHead \in Ids \cup {NoCommit}
    BY HeadCommitType DEF TypeOK
  <2>2. (IF HeadCommit # NoCommit THEN <<HeadCommit>> ELSE <<>>) \in Seq(Ids)
    BY <2>1
  <2>3. (IF mergeHead # NoCommit THEN <<mergeHead>> ELSE <<>>) \in Seq(Ids)
    BY <2>1
  <2> QED
    BY <2>2, <2>3 DEF NewCommit
<1> QED
  BY <1>1, <1>2 DEF NewCommit, Commits

\* Every command leaves files of the right form: no commit it stores is
\* malformed and no reference it writes is anything but a commit.
THEOREM TypeCorrect == Spec => []TypeOK
<1>1. Init => TypeOK
  <2> SUFFICES ASSUME Init
               PROVE  TypeOK
    OBVIOUS
  <2>1. index \in Tree
    <3>1. index \in [{} -> Text \cup Key \cup Stray] /\ {} \in SUBSET Key
      BY DEF Init
    <3> QED
      BY <3>1 DEF Tree
  <2>2. refs \in [Branch -> Ids \cup {NoCommit}]
    BY DEF Init
  <2>3. Len(commits) <= MaxCommits /\ commits \in Seq(Commits)
    BY RefAssumption DEF Init
  <2> QED
    BY <2>1, <2>2, <2>3, RefAssumption DEF Init, TypeOK, Commits
<1>2. TypeOK /\ [Next]_vars => TypeOK'
  <2> SUFFICES ASSUME TypeOK, [Next]_vars
               PROVE  TypeOK'
    OBVIOUS
  <2>1. ASSUME NEW p \in Path, NEW t \in Edits[p], Edit(p, t)
        PROVE  TypeOK'
    BY <2>1, TextAssumption DEF Edit, TypeOK, Text, Stored
  <2>2. ASSUME NEW p \in Volatile, Delete(p)
        PROVE  TypeOK'
    BY <2>2, VolatileAssumption DEF Delete, TypeOK
  <2>3. ASSUME NEW p \in Volatile, AddMissing(p)
        PROVE  TypeOK'
    <3>1. [k \in {PathString(p)} |-> EmptyText] \in Tree
      <4>1. {PathString(p)} \in SUBSET Key /\ EmptyText \in Text \cup Key \cup Stray
        BY PathStringType, TextAssumption DEF Text
      <4>2. [k \in {PathString(p)} |-> EmptyText]
              \in [{PathString(p)} -> Text \cup Key \cup Stray]
        BY <4>1
      <4> QED
        BY <4>1, <4>2 DEF Tree
    <3>2. index' \in Tree
      BY <2>3, <3>1, LoadType, OverlayType DEF AddMissing, TypeOK
    <3>3. blobs' \subseteq Text
      BY <2>3, TextAssumption DEF AddMissing, TypeOK, Text
    <3> QED
      BY <2>3, <3>2, <3>3 DEF AddMissing, TypeOK
  <2>4. ASSUME NEW t \in Addable, Add(t)
        PROVE  TypeOK'
    <3>1. Below(t) \subseteq Path /\ \A p \in Below(t) : wd[p] \in Text
      BY DEF Below, TypeOK
    <3>2. [p \in Below(t) |-> wd[p]] \in Tree
      BY <3>1 DEF Tree, Key
    <3>3. index' \in Tree
      BY <2>4, <3>2, LoadType, OverlayType DEF Add, TypeOK
    <3>4. blobs' \subseteq Text
      BY <2>4, <3>1 DEF Add, TypeOK
    <3> QED
      BY <2>4, <3>3, <3>4 DEF Add, TypeOK
  <2>5. CASE Commit
    <3>1. NewCommit \in Commits
      BY <2>5, NewCommitType DEF Commit
    <3>2. Len(commits) + 1 \in Ids
      BY <2>5, StoredIds, RefAssumption DEF Commit, Ids
    <3>3. commits' \in Seq(Commits) /\ Len(commits') <= MaxCommits
      BY <2>5, <3>1, <3>2 DEF Commit, TypeOK, Commits, Ids
    <3>4. refs' \in [Branch -> Ids \cup {NoCommit}]
      BY <2>5, <3>2 DEF Commit, TypeOK, Advanced
    <3> QED
      BY <2>5, <3>3, <3>4 DEF Commit, TypeOK, Commits
  <2>6. ASSUME NEW t \in Branch \cup Ids \cup {HeadName}, Checkout(t)
        PROVE  TypeOK'
    <3>1. Resolve(t) \in Stored
      BY <2>6 DEF Checkout
    <3>2. wd' \in [Path -> Text \cup {NoFile}]
      BY <2>6, <3>1, RestoredType DEF Checkout
    <3>3. index' \in Tree
      BY <2>6, <3>1, LoadType, TreeEntriesType, OverlayType DEF Checkout, TypeOK
    <3> QED
      BY <2>6, <3>2, <3>3 DEF Checkout, TypeOK
  <2>7. ASSUME NEW b \in Branch, MakeBranch(b)
        PROVE  TypeOK'
    BY <2>7, HeadCommitType DEF MakeBranch, TypeOK
  <2>8. ASSUME NEW t \in Branch \cup Ids \cup {HeadName}, MergeFastForward(t)
        PROVE  TypeOK'
    <3>1. Resolve(t) \in Stored /\ Resolve(t) \in Ids
      BY <2>8, StoredIds DEF MergeFastForward, Mergeable
    <3>2. wd' \in [Path -> Text \cup {NoFile}]
      BY <2>8, <3>1, RestoredType DEF MergeFastForward
    <3>3. refs' \in [Branch -> Ids \cup {NoCommit}]
      BY <2>8, <3>1 DEF MergeFastForward, Advanced, TypeOK
    <3> QED
      BY <2>8, <3>2, <3>3 DEF MergeFastForward, TypeOK
  <2>9. ASSUME NEW t \in Branch \cup Ids \cup {HeadName}, MergeDivergent(t)
        PROVE  TypeOK'
    <3> DEFINE ours   == commits[HeadCommit].tree
               theirs == commits[Resolve(t)].tree
               common == Kept(HeadCommit) \cap Kept(Resolve(t))
    <3>1. HeadCommit \in Stored /\ Resolve(t) \in Stored /\ Resolve(t) \in Ids
      BY <2>9, StoredIds DEF MergeDivergent, Mergeable
    <3>2. \A p \in common : Merged(ours[p], theirs[p]) \in Text
      BY <3>1, StoredTree DEF Merged, Text
    <3>3. PICK done : wd' = [p \in Path |-> IF p \in done \cap common
                                              THEN Merged(ours[p], theirs[p])
                                              ELSE wd[p]]
      BY <2>9 DEF MergeDivergent
    <3>4. wd' \in [Path -> Text \cup {NoFile}]
      BY <3>2, <3>3 DEF TypeOK
    <3>5. mergeHead' \in Ids \cup {NoCommit}
      BY <2>9, <3>1 DEF MergeDivergent, TypeOK
    <3> QED
      BY <2>9, <3>4, <3>5 DEF MergeDivergent, TypeOK
  <2>10. CASE UNCHANGED vars
    BY <2>10 DEF vars, TypeOK
  <2> QED
    BY <2>1, <2>2, <2>3, <2>4, <2>5, <2>6, <2>7, <2>8, <2>9, <2>10 DEF Next
<1> QED
  BY <1>1, <1>2, PTL DEF Spec

-----------------------------------------------------------------------------
(***************************************************************************)
(* References.                                                             *)
(***************************************************************************)

\* The steps that do not touch commits and references.
LEMMA HistoryUntouched ==
  ASSUME [Next]_vars,
         ~Commit,
         ~(\E t \in Branch \cup Ids \cup {HeadName} :
             Checkout(t) \/ MergeFastForward(t) \/ MergeDivergent(t)),
         ~(\E b \in Branch : MakeBranch(b))
  PROVE  UNCHANGED <<commits, refs, head, mergeHead>>
BY DEF Next, vars, Edit, Delete, AddMissing, Add

\* Only commit changes the commits, by adding one.
LEMMA CommitsGrow ==
  ASSUME TypeOK, [Next]_vars
  PROVE  /\ Len(commits) \in Nat
         /\ \/ commits' = commits
            \/ Commit /\ Len(commits') = Len(commits) + 1
<1>1. CASE Commit
  BY <1>1 DEF Commit, TypeOK
<1>2. ~Commit => commits' = commits
  BY HistoryUntouched DEF Checkout, MakeBranch, MergeFastForward, MergeDivergent
<1> QED
  BY <1>1, <1>2 DEF TypeOK

\* The parents of a new commit are HEAD's commit and MERGE_HEAD's.
LEMMA NewParents ==
  ASSUME TypeOK, HistoryClosed, HeadResolves
  PROVE  Range(NewCommit.parents) = {HeadCommit, mergeHead} \ {NoCommit}
<1> DEFINE p == IF HeadCommit # NoCommit THEN <<HeadCommit>> ELSE <<>>
           q == IF mergeHead # NoCommit THEN <<mergeHead>> ELSE <<>>
<1>1. NewCommit.parents = p \o q
  BY DEF NewCommit
<1>2. p \in Seq(Ids) /\ q \in Seq(Ids)
  BY HeadCommitType DEF TypeOK
<1>3. Range(p) = {HeadCommit} \ {NoCommit} /\ Range(q) = {mergeHead} \ {NoCommit}
  BY DEF Range
<1> HIDE DEF p, q
<1>4. Range(p \o q) = Range(p) \cup Range(q)
  BY <1>2, RangeConcatenation
<1> QED
  BY <1>1, <1>3, <1>4

\* Branches, HEAD and MERGE_HEAD always name stored commits, and the parents
\* of a stored commit are stored.
THEOREM NothingDangles == Spec => []HistoryClosed
<1>1. Init => HistoryClosed
  BY RefAssumption DEF Init, HistoryClosed, HeadCommit, Tip, Stored, Range
<1>2. TypeOK /\ HistoryClosed /\ [Next]_vars => HistoryClosed'
  <2> SUFFICES ASSUME TypeOK, HistoryClosed, [Next]_vars
               PROVE  HistoryClosed'
    OBVIOUS
  <2>1. CASE Commit
    <3> DEFINE n == Len(commits) + 1
    <3>1. /\ Len(commits) \in Nat
          /\ Stored' = 1 .. n
          /\ commits'[n] = NewCommit
          /\ \A c \in Stored : commits'[c] = commits[c]
      BY <2>1 DEF Commit, TypeOK, Stored
    <3>2. Stored \subseteq Stored' /\ n \in Stored'
      BY <3>1 DEF Stored
    <3>3. Range(refs') \subseteq Stored' \cup {NoCommit}
      BY <2>1, <3>2 DEF Commit, Advanced, HistoryClosed, TypeOK, Range
    <3>4. HeadResolves' => HeadCommit' \in Stored' \cup {NoCommit}
      BY <2>1, <3>2 DEF Commit, Advanced, HistoryClosed, HeadResolves, HeadCommit, Tip
    <3>5. \A c \in Stored' : Range(commits'[c].parents) \subseteq 1 .. (c - 1)
      <4> SUFFICES ASSUME NEW c \in Stored'
                   PROVE  Range(commits'[c].parents) \subseteq 1 .. (c - 1)
        OBVIOUS
      <4>1. CASE c \in Stored
        BY <3>1, <4>1 DEF HistoryClosed, Parents
      <4>2. CASE c = n
        <5>1. HeadResolves
          BY <2>1 DEF Commit
        <5>2. Range(NewCommit.parents) \subseteq Stored
          BY <5>1, NewParents DEF HistoryClosed
        <5> QED
          BY <3>1, <4>2, <5>2 DEF Stored
      <4> QED
        BY <3>1, <4>1, <4>2 DEF Stored
    <3>6. mergeHead' = NoCommit
      BY <2>1 DEF Commit
    <3> QED
      BY <3>3, <3>4, <3>5, <3>6 DEF HistoryClosed, Parents
  <2>2. ASSUME NEW t \in Branch \cup Ids \cup {HeadName}, Checkout(t)
        PROVE  HistoryClosed'
    <3>1. UNCHANGED <<commits, refs, mergeHead>> /\ head' = t /\ Resolve(t) \in Stored
      BY <2>2 DEF Checkout
    <3>2. HeadResolves' => HeadCommit' \in Stored
      BY <3>1 DEF HeadResolves, HeadCommit, Resolve, Tip
    <3> QED
      BY <3>1, <3>2 DEF HistoryClosed, Stored, Parents
  <2>3. ASSUME NEW b \in Branch, MakeBranch(b)
        PROVE  HistoryClosed'
    <3>1. UNCHANGED <<commits, head, mergeHead>> /\ HeadCommit \in Stored \cup {NoCommit}
      BY <2>3 DEF MakeBranch, HistoryClosed
    <3>2. Range(refs') \subseteq Stored \cup {NoCommit}
      BY <2>3, <3>1 DEF MakeBranch, HistoryClosed, Range, TypeOK
    <3>3. HeadResolves' => HeadCommit' \in Stored \cup {NoCommit}
      BY <2>3, <3>1 DEF MakeBranch, HeadResolves, HeadCommit, Tip, TypeOK
    <3> QED
      BY <3>1, <3>2, <3>3 DEF HistoryClosed, Stored, Parents
  <2>4. ASSUME NEW t \in Branch \cup Ids \cup {HeadName}, MergeFastForward(t)
        PROVE  HistoryClosed'
    <3>1. UNCHANGED <<commits, head, mergeHead>> /\ Resolve(t) \in Stored
      BY <2>4 DEF MergeFastForward, Mergeable
    <3>2. Range(refs') \subseteq Stored \cup {NoCommit}
      BY <2>4, <3>1 DEF MergeFastForward, HistoryClosed, Advanced, Range, TypeOK
    <3>3. HeadResolves' => HeadCommit' \in Stored \cup {NoCommit}
      BY <2>4, <3>1 DEF MergeFastForward, HistoryClosed, Advanced, HeadResolves, HeadCommit, Tip
    <3> QED
      BY <3>1, <3>2, <3>3 DEF HistoryClosed, Stored, Parents
  <2>5. ASSUME NEW t \in Branch \cup Ids \cup {HeadName}, MergeDivergent(t)
        PROVE  HistoryClosed'
    <3>1. /\ UNCHANGED <<commits, refs, head>>
          /\ mergeHead' \in {mergeHead, Resolve(t)}
          /\ Resolve(t) \in Stored
      BY <2>5 DEF MergeDivergent, Mergeable
    <3> QED
      BY <3>1 DEF HistoryClosed, Stored, Parents, HeadResolves, HeadCommit, Tip
  <2>6. CASE UNCHANGED <<commits, refs, head, mergeHead>>
    BY <2>6 DEF HistoryClosed, Stored, Parents, HeadResolves, HeadCommit, Tip
  <2> QED
    BY <2>1, <2>2, <2>3, <2>4, <2>5, <2>6, HistoryUntouched
<1> QED
  BY <1>1, <1>2, TypeCorrect, PTL DEF Spec

-----------------------------------------------------------------------------
(***************************************************************************)
(* Branches.                                                               *)
(***************************************************************************)

\* A walk that meets ours does so below the commit it began with: whatever its
\* deque loses, it has come there by parents.
LEMMA MetBelow ==
  ASSUME TypeOK, NEW c \in Stored, HeadCommit \in Stored, Meets(c)
  PROVE  HeadCommit \in Ancestors(c)
<1>1. SUFFICES ASSUME NEW S \in SUBSET (1 .. Len(commits)), c \in S,
                      \A d \in S : Range(commits[d].parents) \subseteq S
               PROVE  HeadCommit \in S
  BY DEF Ancestors, AncestorsIn, Stored
<1>2. PICK ps, readable, ours, V :
        /\ ps = [d \in Stored |-> commits[d].parents]
        /\ readable = {d \in Stored : Readable(d)}
        /\ ours = HeadCommit
        /\ V = S \cup {NoCommit}
  OBVIOUS
<1>3. ASSUME NEW d \in V \ {NoCommit}
      PROVE  ps[d] \in Seq(V)
  <2>1. d \in S /\ d \in Stored
    BY <1>2 DEF Stored
  <2>2. PICK q \in Seq(Ids) : q = commits[d].parents
    BY <2>1, StoredTree DEF Commits
  <2>3. ps[d] = q /\ Range(q) \subseteq V
    BY <1>1, <1>2, <2>1, <2>2
  <2>4. \A i \in 1 .. Len(q) : q[i] \in V
    <3>1. Range(q) = {q[i] : i \in 1 .. Len(q)}
      BY RangeEquality
    <3> QED
      BY <2>3, <3>1
  <2>5. q \in Seq(V)
    <3>1. PICK n \in Nat : n = Len(q)
      BY LenProperties
    <3>2. q = [i \in 1 .. n |-> q[i]]
      BY <3>1, LenProperties
    <3>3. q \in [1 .. n -> V]
      BY <2>4, <3>1, <3>2
    <3> QED
      BY <3>3, FunctionLen
  <2> QED
    BY <2>3, <2>5
<1>4. Walked(ps, readable, ours, c) = "fast-forward"
  BY <1>2 DEF Meets, Walk
<1>5. NoCommit \in V /\ c \in V /\ c \in Nat
  BY <1>1, <1>2 DEF Stored
<1>6. ours \in V \ {NoCommit}
  <2>1. ParentsWithin(ps, V)
    BY <1>3 DEF ParentsWithin
  <2> QED
    BY Zenon, <1>4, <1>5, <2>1, WalkedBelow
<1> QED
  BY <1>2, <1>6

\* No branch loses a commit from its history, except by the branch command.
THEOREM TipsAdvance == Spec => TipsOnlyAdvance
<1>1. TypeOK /\ HistoryClosed /\ [Next]_vars =>
        [\A b \in Branch :
           \/ refs[b] = NoCommit
           \/ refs'[b] = HeadCommit
           \/ refs[b] \in AncestorsIn(commits', refs'[b])]_vars
  <2> SUFFICES ASSUME TypeOK, HistoryClosed, Next, NEW b \in Branch, refs[b] # NoCommit
               PROVE  refs'[b] = HeadCommit \/ refs[b] \in AncestorsIn(commits', refs'[b])
    OBVIOUS
  <2>1. refs[b] \in Stored
    BY DEF TypeOK, HistoryClosed, Range
  <2>2. Stored \subseteq 1 .. Len(commits')
    BY CommitsGrow DEF Stored
  <2>3. CASE refs'[b] = refs[b]
    BY <2>1, <2>2, <2>3 DEF AncestorsIn
  <2>4. CASE Commit
    <3> DEFINE n == Len(commits) + 1
    <3>1. CASE b = head
      <4>1. refs'[b] = n /\ HeadCommit = refs[b] /\ HeadResolves
        BY <2>4, <3>1 DEF Commit, Advanced, HeadCommit, Tip
      <4>2. commits'[n] = NewCommit /\ Len(commits') = n /\ Len(commits) \in Nat
        BY <2>4 DEF Commit, TypeOK
      <4>3. refs[b] \in Range(commits'[n].parents)
        BY <4>1, <4>2, NewParents
      <4>4. refs[b] \in 1 .. Len(commits')
        BY <2>1, <2>2
      <4>5. n \in 1 .. Len(commits')
        BY <4>2
      <4> QED
        BY <4>1, <4>3, <4>4, <4>5 DEF AncestorsIn
    <3>2. CASE b # head
      BY <2>3, <2>4, <3>2 DEF Commit, Advanced
    <3> QED
      BY <3>1, <3>2
  <2>5. ASSUME NEW t \in Branch \cup Ids \cup {HeadName}, MergeFastForward(t)
        PROVE  refs'[b] = HeadCommit \/ refs[b] \in AncestorsIn(commits', refs'[b])
    <3>1. CASE b = head
      <4>1. /\ refs'[b] = Resolve(t) /\ HeadCommit = refs[b] /\ commits' = commits
            /\ Resolve(t) \in Stored /\ HeadCommit \in Ancestors(Resolve(t))
        <5>1. /\ Resolve(t) \in Stored /\ HeadCommit \in Stored /\ Meets(Resolve(t))
              /\ refs' = Advanced(Resolve(t)) /\ commits' = commits
          BY <2>5 DEF MergeFastForward, Mergeable
        <5>2. HeadCommit \in Ancestors(Resolve(t))
          BY <5>1, MetBelow
        <5>3. refs'[b] = Resolve(t) /\ HeadCommit = refs[b]
          BY <3>1, <5>1 DEF Advanced, HeadCommit, Tip
        <5> QED
          BY <5>1, <5>2, <5>3
      <4> QED
        BY <4>1 DEF Ancestors
    <3>2. CASE b # head
      BY <2>3, <2>5, <3>2 DEF MergeFastForward, Advanced
    <3> QED
      BY <3>1, <3>2
  <2>6. ASSUME NEW x \in Branch, MakeBranch(x)
        PROVE  refs'[b] = HeadCommit \/ refs[b] \in AncestorsIn(commits', refs'[b])
    BY <2>3, <2>6 DEF MakeBranch, TypeOK
  <2> QED
    BY <2>3, <2>4, <2>5, <2>6 DEF Next, Edit, Delete, AddMissing, Add, Checkout, MergeDivergent
<1> QED
  BY <1>1, TypeCorrect, NothingDangles, PTL DEF Spec, TipsOnlyAdvance

-----------------------------------------------------------------------------
(***************************************************************************)
(* Merges.                                                                 *)
(***************************************************************************)

\* While a merge is pending, HEAD has a commit for the next one to follow.
MergeInv == mergeHead # NoCommit /\ HeadResolves => HeadCommit # NoCommit

\* Two sequences of one element joined.  Commit builds its parents that way.
LEMMA Pair ==
  ASSUME NEW S, NEW a \in S, NEW b \in S
  PROVE  <<a>> \o <<b>> = <<a, b>>
<1> DEFINE s == <<a>>  t == <<b>>  st == s \o t  ab == <<a, b>>
<1>1. /\ s \in Seq(S) /\ Len(s) = 1 /\ s[1] = a
      /\ t \in Seq(S) /\ Len(t) = 1 /\ t[1] = b
  OBVIOUS
<1>2. /\ st \in Seq(S) /\ Len(st) = 2
      /\ \A i \in 1 .. 2 : st[i] = IF i <= 1 THEN s[i] ELSE t[i - 1]
  <2> HIDE DEF s, t
  <2> QED
    BY <1>1, ConcatProperties
<1>3. st[1] = a /\ st[2] = b
  <2> HIDE DEF s, t, st
  <2> QED
    BY <1>1, <1>2
<1>4. ab \in Seq(S) /\ Len(ab) = 2 /\ ab[1] = a /\ ab[2] = b
  OBVIOUS
<1> HIDE DEF st, ab
<1>5. \A i \in 1 .. 2 : st[i] = ab[i]
  BY <1>3, <1>4
<1>6. st = [i \in 1 .. 2 |-> st[i]] /\ ab = [i \in 1 .. 2 |-> ab[i]]
  <2>1. st \in [1 .. 2 -> S] /\ ab \in [1 .. 2 -> S]
    BY <1>2, <1>4
  <2> QED
    BY <2>1
<1> QED
  BY <1>5, <1>6 DEF st, ab

\* MERGE_HEAD is set only while HEAD leads to a commit.
LEMMA MergeInvariant == Spec => []MergeInv
<1>1. Init => MergeInv
  BY DEF Init, MergeInv
<1>2. TypeOK /\ HistoryClosed /\ MergeInv /\ [Next]_vars => MergeInv'
  <2> SUFFICES ASSUME TypeOK, HistoryClosed, MergeInv, [Next]_vars
               PROVE  MergeInv'
    OBVIOUS
  <2>1. CASE Commit
    BY <2>1 DEF Commit, MergeInv
  <2>2. ASSUME NEW t \in Branch \cup Ids \cup {HeadName}, Checkout(t)
        PROVE  MergeInv'
    <3>1. UNCHANGED <<refs, mergeHead>> /\ head' = t /\ Resolve(t) # NoCommit
      BY <2>2 DEF Checkout, Stored, NoCommit
    <3> QED
      BY <3>1 DEF MergeInv, HeadResolves, HeadCommit, Resolve, Tip
  <2>3. ASSUME NEW b \in Branch, MakeBranch(b)
        PROVE  MergeInv'
    BY <2>3 DEF MakeBranch, MergeInv, HeadResolves, HeadCommit, Tip, TypeOK
  <2>4. ASSUME NEW t \in Branch \cup Ids \cup {HeadName}, MergeFastForward(t)
        PROVE  MergeInv'
    <3>1. UNCHANGED <<head, mergeHead>> /\ Resolve(t) # NoCommit
      BY <2>4 DEF MergeFastForward, Mergeable, Stored, NoCommit
    <3> QED
      BY <2>4, <3>1 DEF MergeFastForward, MergeInv, HeadResolves, HeadCommit, Tip, Advanced
  <2>5. ASSUME NEW t \in Branch \cup Ids \cup {HeadName}, MergeDivergent(t)
        PROVE  MergeInv'
    <3>1. UNCHANGED <<refs, head>> /\ HeadCommit # NoCommit
      BY <2>5 DEF MergeDivergent, Mergeable, Stored, NoCommit
    <3> QED
      BY <3>1 DEF MergeInv, HeadResolves, HeadCommit, Tip
  <2>6. CASE UNCHANGED <<commits, refs, head, mergeHead>>
    BY <2>6 DEF MergeInv, HeadResolves, HeadCommit, Tip
  <2> QED
    BY <2>1, <2>2, <2>3, <2>4, <2>5, <2>6, HistoryUntouched
<1> QED
  BY <1>1, <1>2, TypeCorrect, NothingDangles, PTL DEF Spec

\* A pending merge is ended by a commit that has both sides as its parents.
THEOREM MergesRecorded == Spec => MergeRecorded
<1>1. TypeOK /\ MergeInv /\ [Next]_vars =>
        [mergeHead # NoCommit /\ mergeHead' = NoCommit =>
           /\ Len(commits') = Len(commits) + 1
           /\ commits'[Len(commits')].parents = <<HeadCommit, mergeHead>>]_vars
  <2> SUFFICES ASSUME TypeOK, MergeInv, Next, mergeHead # NoCommit, mergeHead' = NoCommit
               PROVE  /\ Len(commits') = Len(commits) + 1
                      /\ commits'[Len(commits')].parents = <<HeadCommit, mergeHead>>
    OBVIOUS
  <2>1. Commit
    <3>1. ASSUME NEW t \in Branch \cup Ids \cup {HeadName}, MergeDivergent(t)
          PROVE  mergeHead' # NoCommit
      <4>1. Resolve(t) \in Stored
        BY <3>1 DEF MergeDivergent, Mergeable
      <4>2. mergeHead' = mergeHead \/ mergeHead' = Resolve(t)
        BY <3>1 DEF MergeDivergent
      <4> QED
        BY <4>1, <4>2 DEF Stored, NoCommit
    <3>2. ASSUME NEW t \in Branch \cup Ids \cup {HeadName}, MergeFastForward(t) \/ Checkout(t)
          PROVE  mergeHead' # NoCommit
      BY <3>2 DEF MergeFastForward, Checkout
    <3>3. ASSUME NEW b \in Branch, MakeBranch(b)
          PROVE  mergeHead' # NoCommit
      BY <3>3 DEF MakeBranch
    <3>4. mergeHead' = mergeHead => mergeHead' # NoCommit
      OBVIOUS
    <3> QED
      BY <3>1, <3>2, <3>3, <3>4, HistoryUntouched
  <2>2. /\ Len(commits') = Len(commits) + 1
        /\ commits'[Len(commits')] = NewCommit
    BY <2>1 DEF Commit, TypeOK
  <2>3. HeadCommit # NoCommit /\ HeadCommit \in Ids /\ mergeHead \in Ids
    BY <2>1, HeadCommitType DEF Commit, MergeInv, TypeOK
  <2>4. NewCommit.parents = <<HeadCommit>> \o <<mergeHead>>
    BY <2>3 DEF NewCommit
  <2>5. <<HeadCommit>> \o <<mergeHead>> = <<HeadCommit, mergeHead>>
    BY <2>3, Pair
  <2> QED
    BY <2>2, <2>4, <2>5
<1> QED
  BY <1>1, MergeInvariant, TypeCorrect, PTL DEF Spec, MergeRecorded

-----------------------------------------------------------------------------
(***************************************************************************)
(* Files.  While no file disappears from the working directory, every      *)
(* listed file exists, load reads the index back as it was, and so the     *)
(* index only grows.                                                       *)
(***************************************************************************)

\* No name of a file has a space in it.
NoSpaces == \A k \in Path : OneWord(k)

IndexListed == \A k \in DOMAIN index : k \in Path /\ wd[k] # NoFile

FilesInv == IndexListed /\ BlobsStored /\ SnapshotsGrow

\* An index with more files makes a tree with more files.
LEMMA WrittenMonotone ==
  ASSUME NEW K, NEW L, K \subseteq L
  PROVE  Written(K) \subseteq Written(L)
<1>1. Dirs(K) \subseteq Dirs(L)
  BY DEF Dirs
<1> QED
  BY <1>1 DEF Written

\* The tree of an index holds the keys that are written, and no other.
LEMMA SnapshotDomain ==
  ASSUME NEW f
  PROVE  DOMAIN Snapshot(f) = Written(DOMAIN f) /\ Written(DOMAIN f) \subseteq DOMAIN f
BY DEF Snapshot, Restrict, Written

\* While the files it lists exist, an index is read back as it was.
LEMMA ListedReadBack ==
  ASSUME NoSpaces
  PROVE  TypeOK /\ IndexListed => Load(index) = index
<1> SUFFICES ASSUME TypeOK, IndexListed
             PROVE  Load(index) = index
  OBVIOUS
<1>1. \A k \in DOMAIN index : OneWord(k) /\ PathString(k) = k
  BY DEF NoSpaces, IndexListed, PathString
<1> QED
  BY <1>1, LoadIdentity DEF TypeOK

\* In such a repository a tree has its paths only, all of them stored.
LEMMA TreesKept ==
  ASSUME NoSpaces, TypeOK, FilesInv, NEW c \in Stored
  PROVE  /\ Kept(c) = DOMAIN commits[c].tree
         /\ Kept(c) \subseteq Path
         /\ Kept(c) \subseteq DOMAIN index
         /\ TreeEntries(c) = commits[c].tree
<1>1. DOMAIN commits[c].tree \subseteq DOMAIN index
  BY SnapshotDomain DEF FilesInv, SnapshotsGrow
<1>2. Kept(c) = DOMAIN commits[c].tree
  BY <1>1 DEF FilesInv, IndexListed, NoSpaces, BlobsStored, Kept, Range
<1>3. Kept(c) \subseteq Path
  BY <1>1, <1>2 DEF FilesInv, IndexListed
<1>4. commits[c].tree = [k \in Kept(c) |-> commits[c].tree[k]]
  BY <1>2, StoredTree DEF Tree
<1> QED
  BY <1>1, <1>2, <1>3, <1>4 DEF TreeEntries

\* What keys and values an overlay has.
LEMMA OverlayDomain ==
  ASSUME NEW f, NEW g
  PROVE  /\ DOMAIN Overlay(f, g) = DOMAIN f \cup DOMAIN g
         /\ Range(Overlay(f, g)) \subseteq Range(f) \cup Range(g)
         /\ \A k \in DOMAIN g : Overlay(f, g)[k] = g[k]
BY DEF Overlay, Range

\* Texts of files that exist are texts.
LEMMA RestoredListed ==
  ASSUME TypeOK, FilesInv, NEW c \in Stored, NEW k \in DOMAIN index
  PROVE  k \in Path /\ Restored(c)[k] # NoFile
<1>1. k \in Path /\ wd[k] # NoFile
  BY DEF FilesInv, IndexListed
<1> QED
  BY <1>1, StoredTree, TextAssumption DEF Restored

\* While no file is deleted, the index lists files that exist and only grows.
LEMMA FilesInvariant ==
  ASSUME Volatile = {}, NoSpaces
  PROVE  Spec => []FilesInv
<1>1. Init => FilesInv
  BY DEF Init, FilesInv, IndexListed, BlobsStored, SnapshotsGrow, Stored, Range
<1>2. TypeOK /\ FilesInv /\ [Next]_vars => FilesInv'
  <2> SUFFICES ASSUME TypeOK, FilesInv, [Next]_vars
               PROVE  FilesInv'
    OBVIOUS
  <2>1. Load(index) = index
    BY ListedReadBack DEF FilesInv
  <2>2. ASSUME NEW p \in Path, NEW t \in Edits[p], Edit(p, t)
        PROVE  FilesInv'
    <3>1. UNCHANGED <<index, blobs, commits>> /\ \A q \in Path : wd[q] # NoFile => wd'[q] # NoFile
      BY <2>2, TextAssumption DEF Edit, TypeOK, Text
    <3> QED
      BY <3>1 DEF FilesInv, IndexListed, BlobsStored, SnapshotsGrow, Stored
  <2>3. ASSUME NEW t \in Addable, Add(t)
        PROVE  FilesInv'
    <3> DEFINE g == [p \in Below(t) |-> wd[p]]
    <3>1. /\ UNCHANGED <<wd, commits>>
          /\ blobs' = blobs \cup {wd[p] : p \in Below(t)}
          /\ index' = Overlay(index, g)
      BY <2>1, <2>3 DEF Add
    <3>2. DOMAIN index' = DOMAIN index \cup Below(t) /\ Range(index') \subseteq Range(index) \cup Range(g)
      <4>1. PICK i, h : i = index /\ h = g
        OBVIOUS
      <4>2. DOMAIN h = Below(t)
        BY ONLY <4>1
      <4>3. index' = Overlay(i, h)
        BY ONLY <3>1, <4>1
      <4>4. DOMAIN Overlay(i, h) = DOMAIN i \cup DOMAIN h /\ Range(Overlay(i, h)) \subseteq Range(i) \cup Range(h)
        BY OverlayDomain
      <4> QED
        BY ONLY <4>1, <4>2, <4>3, <4>4
    <3>3. IndexListed'
      BY <3>1, <3>2 DEF FilesInv, IndexListed, Below
    <3>4. BlobsStored'
      <4>1. Range(g) = {wd[p] : p \in Below(t)}
        BY DEF Range
      <4>2. Range(index') \subseteq blobs'
        BY <3>1, <3>2, <4>1 DEF FilesInv, BlobsStored
      <4>3. blobs \subseteq blobs' /\ Stored' = Stored
        BY <3>1 DEF Stored
      <4> QED
        BY <3>1, <4>2, <4>3 DEF FilesInv, BlobsStored
    <3>5. Written(DOMAIN index) \subseteq Written(DOMAIN index')
      BY <3>2, WrittenMonotone
    <3>6. SnapshotsGrow'
      BY <3>1, <3>5 DEF FilesInv, SnapshotsGrow, Stored
    <3> QED
      BY <3>3, <3>4, <3>6 DEF FilesInv
  <2>4. CASE Commit
    <3> DEFINE n == Len(commits) + 1
    <3>1. /\ UNCHANGED <<wd, index, blobs>>
          /\ Len(commits) \in Nat
          /\ Stored' = 1 .. n
          /\ commits'[n].tree = Snapshot(index)
          /\ \A c \in Stored : commits'[c] = commits[c]
      BY <2>1, <2>4 DEF Commit, TypeOK, Stored, NewCommit
    <3>2. DOMAIN Snapshot(index) = Written(DOMAIN index)
      BY SnapshotDomain
    <3>3. Range(Snapshot(index)) \subseteq Range(index)
      BY SnapshotDomain DEF Snapshot, Restrict, Range
    <3>4. \A c \in Stored' : c \in Stored \/ c = n
      BY <3>1 DEF Stored
    <3>5. BlobsStored'
      BY <3>1, <3>3, <3>4 DEF FilesInv, BlobsStored
    <3>6. SnapshotsGrow'
      <4>1. \A c \in Stored' : DOMAIN commits'[c].tree \subseteq Written(DOMAIN index)
        BY <3>1, <3>2, <3>4 DEF FilesInv, SnapshotsGrow
      <4>2. ASSUME NEW c \in Stored', NEW d \in Stored', c < d
            PROVE  DOMAIN commits'[c].tree \subseteq DOMAIN commits'[d].tree
        <5>1. c \in Stored
          BY <3>1, <4>2 DEF Stored
        <5> QED
          BY <3>1, <3>2, <3>4, <4>1, <4>2, <5>1 DEF FilesInv, SnapshotsGrow
      <4> QED
        BY <3>1, <4>1, <4>2 DEF SnapshotsGrow
    <3>7. IndexListed'
      BY <3>1 DEF FilesInv, IndexListed
    <3> QED
      BY <3>5, <3>6, <3>7 DEF FilesInv
  <2>5. ASSUME NEW t \in Branch \cup Ids \cup {HeadName}, Checkout(t)
        PROVE  FilesInv'
    <3> DEFINE c == Resolve(t)
    <3>1. /\ c \in Stored
          /\ wd' = Restored(c)
          /\ index' = Overlay(index, commits[c].tree)
          /\ UNCHANGED <<blobs, commits>>
      BY <2>1, <2>5, TreesKept DEF Checkout
    <3>2. DOMAIN index' = DOMAIN index /\ Range(index') \subseteq Range(index) \cup Range(commits[c].tree)
      <4>1. DOMAIN commits[c].tree \subseteq DOMAIN index
        BY <3>1, TreesKept
      <4>2. /\ DOMAIN index' = DOMAIN index \cup DOMAIN commits[c].tree
            /\ Range(index') \subseteq Range(index) \cup Range(commits[c].tree)
        BY <3>1, OverlayDomain
      <4> QED
        BY <4>1, <4>2
    <3>3. IndexListed'
      BY <3>1, <3>2, RestoredListed DEF IndexListed
    <3>4. BlobsStored'
      BY <3>1, <3>2 DEF FilesInv, BlobsStored, Stored
    <3>5. SnapshotsGrow'
      BY <3>1, <3>2 DEF FilesInv, SnapshotsGrow, Stored
    <3> QED
      BY <3>3, <3>4, <3>5 DEF FilesInv
  <2>6. ASSUME NEW t \in Branch \cup Ids \cup {HeadName}, MergeFastForward(t)
        PROVE  FilesInv'
    <3>1. /\ Resolve(t) \in Stored
          /\ wd' = Restored(Resolve(t))
          /\ UNCHANGED <<index, blobs, commits>>
      BY <2>6 DEF MergeFastForward, Mergeable
    <3>2. IndexListed'
      BY <3>1, RestoredListed DEF IndexListed
    <3> QED
      BY <3>1, <3>2 DEF FilesInv, BlobsStored, SnapshotsGrow, Stored
  <2>7. ASSUME NEW t \in Branch \cup Ids \cup {HeadName}, MergeDivergent(t)
        PROVE  FilesInv'
    <3> DEFINE ours   == commits[HeadCommit].tree
               theirs == commits[Resolve(t)].tree
               common == Kept(HeadCommit) \cap Kept(Resolve(t))
    <3>1. HeadCommit \in Stored /\ Resolve(t) \in Stored /\ UNCHANGED <<index, blobs, commits>>
      BY <2>7 DEF MergeDivergent, Mergeable
    <3>2. \A p \in common : Merged(ours[p], theirs[p]) # NoFile
      BY <3>1, StoredTree, TextAssumption DEF Merged, Text
    <3>3. PICK done : wd' = [p \in Path |-> IF p \in done \cap common
                                              THEN Merged(ours[p], theirs[p])
                                              ELSE wd[p]]
      BY <2>7 DEF MergeDivergent
    <3>4. IndexListed'
      BY <3>1, <3>2, <3>3 DEF FilesInv, IndexListed
    <3> QED
      BY <3>1, <3>4 DEF FilesInv, BlobsStored, SnapshotsGrow, Stored
  <2>8. CASE UNCHANGED <<wd, index, blobs, commits>>
    BY <2>8 DEF FilesInv, IndexListed, BlobsStored, SnapshotsGrow, Stored
  <2> QED
    BY <2>2, <2>3, <2>4, <2>5, <2>6, <2>7, <2>8 DEF Next, MakeBranch, vars
<1> QED
  BY <1>1, <1>2, TypeCorrect, PTL DEF Spec

\* While the user deletes no file and adds only files that exist, no file
\* drops out of the history, on whatever branch it was committed.
THEOREM HistoryKeepsFiles ==
  ASSUME Volatile = {}, NoSpaces
  PROVE  Spec => []SnapshotsGrow
<1>1. FilesInv => SnapshotsGrow
  BY DEF FilesInv
<1> QED
  BY <1>1, FilesInvariant, PTL

\* And every hash in the index and in the trees is that of a stored blob.
THEOREM HashesResolve ==
  ASSUME Volatile = {}, NoSpaces
  PROVE  Spec => []BlobsStored
<1>1. FilesInv => BlobsStored
  BY DEF FilesInv
<1> QED
  BY <1>1, FilesInvariant, PTL

\* No command drops a file from an index whose files exist, under names
\* without spaces, or lists another hash for it than that of its text.
THEOREM StagingStays == Spec => StagingKept
<1>1. TypeOK /\ [Next]_vars =>
        [(\A k \in DOMAIN index : k \in Path /\ OneWord(k) /\ wd[k] # NoFile) =>
           \A k \in DOMAIN index : k \in DOMAIN index' /\ index'[k] \in {index[k], wd'[k]}]_vars
  <2> SUFFICES ASSUME TypeOK, Next,
                      \A k \in DOMAIN index : k \in Path /\ OneWord(k) /\ wd[k] # NoFile,
                      NEW k \in DOMAIN index
               PROVE  k \in DOMAIN index' /\ index'[k] \in {index[k], wd'[k]}
    OBVIOUS
  <2>1. Load(index) = index
    <3>1. \A j \in DOMAIN index : OneWord(j) /\ PathString(j) = j
      BY DEF PathString
    <3> QED
      BY <3>1, LoadIdentity DEF TypeOK
  <2>2. PICK i : i = index
    OBVIOUS
  <2>3. ASSUME NEW t \in Addable, Add(t)
        PROVE  k \in DOMAIN index' /\ index'[k] \in {index[k], wd'[k]}
    <3>1. PICK g : g = [p \in Below(t) |-> wd[p]]
      OBVIOUS
    <3>2. index' = Overlay(i, g) /\ wd' = wd
      BY <2>1, <2>2, <2>3, <3>1 DEF Add
    <3>3. k \in DOMAIN g => g[k] = wd[k]
      BY <3>1
    <3> QED
      BY <2>2, <3>2, <3>3 DEF Overlay
  <2>4. ASSUME NEW p \in Volatile, AddMissing(p)
        PROVE  k \in DOMAIN index' /\ index'[k] \in {index[k], wd'[k]}
    <3>1. PICK g : g = [j \in {PathString(p)} |-> EmptyText]
      OBVIOUS
    <3>2. index' = Overlay(i, g)
      BY <2>1, <2>2, <2>4, <3>1 DEF AddMissing
    <3>3. k \notin DOMAIN g
      BY <2>4, <3>1, PathAssumption DEF AddMissing, PathString
    <3> QED
      BY <2>2, <3>2, <3>3 DEF Overlay
  <2>5. ASSUME NEW t \in Branch \cup Ids \cup {HeadName}, Checkout(t)
        PROVE  k \in DOMAIN index' /\ index'[k] \in {index[k], wd'[k]}
    <3>1. PICK c \in Stored : c = Resolve(t)
      BY <2>5 DEF Checkout
    <3>2. PICK g : g = TreeEntries(c)
      OBVIOUS
    <3>3. index' = Overlay(i, g) /\ wd' = Restored(c)
      BY <2>1, <2>2, <2>5, <3>1, <3>2 DEF Checkout
    <3>4. k \in DOMAIN g => g[k] = wd'[k]
      <4> SUFFICES ASSUME k \in DOMAIN g
                   PROVE  g[k] = wd'[k]
        OBVIOUS
      <4>1. k \in Path /\ k # Dot
        BY PathAssumption
      <4>2. k \in Kept(c) /\ g[k] = commits[c].tree[k]
        BY <3>2, <4>1 DEF TreeEntries
      <4> QED
        BY <3>3, <4>1, <4>2 DEF Restored
    <3> QED
      BY <2>2, <3>3, <3>4 DEF Overlay
  <2>6. CASE index' = index
    BY <2>6
  <2> QED
    BY <2>3, <2>4, <2>5, <2>6
       DEF Next, Edit, Delete, Commit, MakeBranch, MergeFastForward, MergeDivergent
<1> QED
  BY <1>1, TypeCorrect, PTL DEF Spec, StagingKept

-----------------------------------------------------------------------------
(***************************************************************************)
(* Checkout.                                                               *)
(***************************************************************************)

\* Checking out a commit and committing at once repeats its files.
THEOREM CheckoutRepeats ==
  ASSUME Volatile = {}, NoSpaces
  PROVE  Spec => CheckoutRoundTrip
<1>1. TypeOK /\ FilesInv => Load(index) = index
  BY ListedReadBack DEF FilesInv
<1>2. /\ TypeOK /\ FilesInv /\ TypeOK' /\ FilesInv'
      /\ (Load(index) = index)'
      /\ [Next]_vars
      => [head' # head /\ HeadResolves' => Repeats(HeadCommit)']_vars
  <2> SUFFICES ASSUME TypeOK, FilesInv, FilesInv', (Load(index) = index)', Next,
                      head' # head, HeadResolves'
               PROVE  Repeats(HeadCommit)'
    OBVIOUS
  <2> SUFFICES ASSUME NEW k \in DOMAIN commits'[HeadCommit'].tree
               PROVE  /\ k \in DOMAIN Snapshot(index')
                      /\ Snapshot(index')[k] = commits'[HeadCommit'].tree[k]
                      /\ Status(index, k)' = "clean"
    BY DEF Repeats
  <2> DEFINE c == HeadCommit'
  <2>1. PICK t \in Branch \cup Ids \cup {HeadName} : Checkout(t)
    BY DEF Next, Edit, Delete, AddMissing, Add, Commit, MakeBranch, MergeFastForward,
           MergeDivergent
  <2>2. /\ c = Resolve(t) /\ c \in Stored
        /\ wd' = Restored(c)
        /\ UNCHANGED commits
    BY <2>1 DEF Checkout, HeadResolves, HeadCommit, Resolve, Tip
  <2>3. k \in Kept(c) /\ k \in Path /\ k \in DOMAIN index /\ TreeEntries(c) = commits[c].tree
    BY <2>2, TreesKept
  <2>4. index' = Overlay(Load(index), commits[c].tree)
    BY <2>1, <2>2, <2>3 DEF Checkout
  <2>5. index'[k] = commits[c].tree[k] /\ k \in DOMAIN index'
    <3>1. k \in DOMAIN commits[c].tree
      BY <2>2
    <3> QED
      BY <2>4, <3>1 DEF Overlay
  <2>6. k \in Written(DOMAIN index')
    BY <2>2 DEF FilesInv, SnapshotsGrow, Stored
  <2>7. k \in DOMAIN Snapshot(index') /\ Snapshot(index')[k] = index'[k]
    BY <2>6 DEF Snapshot, Restrict
  <2>8. wd'[k] = commits[c].tree[k]
    BY <2>2, <2>3 DEF Restored
  <2>9. wd'[k] # NoFile
    BY <2>2, <2>3, <2>8, StoredTree, TextAssumption
  <2>10. Status(index, k)' = "clean"
    BY <2>5, <2>8, <2>9 DEF Status
  <2> QED
    BY <2>2, <2>5, <2>7, <2>10
<1> QED
  BY <1>1, <1>2, FilesInvariant, TypeCorrect, PTL DEF Spec, CheckoutRoundTrip

-----------------------------------------------------------------------------
(***************************************************************************)
(* JitRepo implements History.                                             *)
(***************************************************************************)

\* Both modules call the same commits ancestors.
LEMMA SameBelow ==
  ASSUME TypeOK, NEW c \in Stored
  PROVE  H!Nodes = Stored /\ H!Below(c) = Ancestors(c)
<1>1. Len([d \in Stored |-> Parents(d)]) = Len(commits)
  BY DEF TypeOK, Stored
<1>2. H!Nodes = Stored
  BY <1>1 DEF H!Nodes, Stored
<1> QED
  BY <1>2 DEF H!Below, Ancestors, AncestorsIn, Parents, Stored

\* Parents are commits.
LEMMA StoredParents ==
  ASSUME TypeOK, NEW c \in Stored
  PROVE  Parents(c) \subseteq Ids
<1>1. commits[c].parents \in Seq(Ids)
  BY StoredTree DEF Commits
<1> QED
  BY <1>1 DEF Parents, Range

\* Seen without its files, every run of the commands is one of History: a step
\* of a command is a step of History or leaves the history alone.
THEOREM Implements == Spec => HistoryImplemented
<1>1. Init => H!HInit
  BY DEF Init, H!HInit, H!NoCommit, NoCommit, Stored
<1>2. TypeOK /\ HistoryClosed /\ [Next]_vars => [H!HNext]_H!hvars
  <2> SUFFICES ASSUME TypeOK, HistoryClosed, [Next]_vars
               PROVE  [H!HNext]_H!hvars
    OBVIOUS
  <2>1. CASE Commit
    <3> DEFINE ps == [c \in Stored |-> Parents(c)]
               n  == Len(commits) + 1
    <3>1. /\ Len(commits) \in Nat
          /\ Stored' = 1 .. n
          /\ commits'[n] = NewCommit
          /\ \A c \in Stored : commits'[c] = commits[c]
      BY <2>1 DEF Commit, TypeOK, Stored
    <3>2. Len(ps) = Len(commits)
      BY <3>1 DEF Stored
    <3>3. Range(commits'[n].parents) = {HeadCommit, mergeHead} \ {NoCommit}
      BY <2>1, <3>1, NewParents DEF Commit
    <3>4. ps' = Append(ps, {HeadCommit, mergeHead} \ {NoCommit})
      <4> DEFINE new == {HeadCommit, mergeHead} \ {NoCommit}
      <4>1. ps' = [c \in 1 .. n |-> Range(commits'[c].parents)]
        BY <3>1 DEF Parents
      <4>2. ps \in Seq(SUBSET Ids) /\ new \in SUBSET Ids
        <5>1. \A c \in 1 .. Len(commits) : ps[c] \in SUBSET Ids
          BY StoredParents DEF Stored
        <5>2. ps = [c \in 1 .. Len(commits) |-> ps[c]]
          BY DEF Stored
        <5>3. new \in SUBSET Ids
          BY <2>1, HeadCommitType DEF Commit, TypeOK
        <5> QED
          BY <3>1, <5>1, <5>2, <5>3
      <4>3. /\ Append(ps, new) \in Seq(SUBSET Ids)
            /\ Len(Append(ps, new)) = n
            /\ \A c \in Stored : Append(ps, new)[c] = ps[c]
            /\ Append(ps, new)[n] = new
        <5> HIDE DEF ps, new
        <5> QED
          BY <3>2, <4>2, AppendProperties DEF Stored
      <4>4. Append(ps, new) = [c \in 1 .. n |-> Append(ps, new)[c]]
        <5> DEFINE longer == Append(ps, new)
        <5>1. longer \in Seq(SUBSET Ids) /\ Len(longer) = n
          BY <4>3
        <5> HIDE DEF longer
        <5>2. longer \in [1 .. n -> SUBSET Ids]
          BY <5>1
        <5>3. longer = [c \in 1 .. n |-> longer[c]]
          BY <5>2
        <5> QED
          BY <5>3 DEF longer
      <4>5. ASSUME NEW c \in 1 .. n
            PROVE  Range(commits'[c].parents) = Append(ps, new)[c]
        <5>1. CASE c \in Stored
          <6>1. ps[c] = Range(commits[c].parents)
            BY <5>1 DEF Parents
          <6> QED
            BY <3>1, <4>3, <5>1, <6>1
        <5>2. CASE c = n
          BY <3>3, <4>3, <5>2
        <5> QED
          BY <3>1, <5>1, <5>2 DEF Stored
      <4> QED
        BY <4>1, <4>4, <4>5
    <3>5. H!Record
      BY <2>1, <3>2, <3>4 DEF Commit, H!Record, H!Advance, H!Current, Advanced, HeadCommit, Tip,
         HeadResolves, NoCommit, H!NoCommit
    <3> QED
      BY <3>5 DEF H!HNext
  <2>2. ASSUME NEW t \in Branch \cup Ids \cup {HeadName}, Checkout(t)
        PROVE  H!HNext
    <3>1. t # HeadName => Resolve(t) = H!At(t)
      BY DEF Resolve, Tip, H!At
    <3>2. t \in Branch \cup Stored \cup {HeadName}
      BY <2>2, RefAssumption DEF Checkout, Resolve, Tip
    <3>3. H!Switch(t)
      BY <2>2, <3>1, SameBelow DEF Checkout, H!Switch, Stored, Parents
    <3> QED
      BY <3>2, <3>3, SameBelow DEF H!HNext
  <2>3. ASSUME NEW b \in Branch, MakeBranch(b)
        PROVE  H!HNext
    <3>1. H!Point(b)
      BY <2>3 DEF MakeBranch, H!Point, H!Current, HeadCommit, Tip, HeadResolves, Stored, Parents
    <3> QED
      BY <3>1 DEF H!HNext
  <2>4. ASSUME NEW t \in Branch \cup Ids \cup {HeadName}, MergeFastForward(t)
        PROVE  H!HNext
    <3>1. Resolve(t) \in Stored /\ HeadCommit \in Ancestors(Resolve(t))
      <4>1. Resolve(t) \in Stored /\ HeadCommit \in Stored /\ Meets(Resolve(t))
        BY <2>4 DEF MergeFastForward, Mergeable
      <4> QED
        BY <4>1, MetBelow
    <3>2. H!FastForward(Resolve(t))
      BY <2>4, <3>1, SameBelow DEF MergeFastForward, Mergeable, H!FastForward, H!Advance, H!Current,
         Advanced, HeadCommit, Tip, HeadResolves, Stored, Parents
    <3> QED
      BY <3>1, <3>2, SameBelow DEF H!HNext
  <2>5. ASSUME NEW t \in Branch \cup Ids \cup {HeadName}, MergeDivergent(t)
        PROVE  [H!HNext]_H!hvars
    <3>1. /\ HeadResolves /\ HeadCommit \in Stored /\ Resolve(t) \in Stored
          /\ UNCHANGED <<commits, refs, head>>
          /\ mergeHead' \in {mergeHead, Resolve(t)}
      BY <2>5 DEF MergeDivergent, Mergeable
    <3>2. CASE mergeHead' = mergeHead
      BY <3>1, <3>2 DEF H!hvars, Stored, Parents
    <3>3. CASE mergeHead' = Resolve(t)
      <4>1. H!BeginMerge(Resolve(t))
        BY <3>1, <3>3, SameBelow DEF H!BeginMerge, H!Current, HeadCommit, Tip, HeadResolves, Stored,
           Parents
      <4> QED
        BY <3>1, <4>1, SameBelow DEF H!HNext
    <3> QED
      BY <3>1, <3>2, <3>3
  <2>6. CASE UNCHANGED <<commits, refs, head, mergeHead>>
    BY <2>6 DEF H!hvars, Stored, Parents
  <2> QED
    BY <2>1, <2>2, <2>3, <2>4, <2>5, <2>6, HistoryUntouched
<1> QED
  BY <1>1, <1>2, TypeCorrect, NothingDangles, PTL DEF Spec, HistoryImplemented, H!HSpec

-----------------------------------------------------------------------------
(***************************************************************************)
(* The nesting of the trees (WriteTree): the function that holds the tree  *)
(* of every directory exists, because what is entered into a tree is above *)
(* it in a strict order of finitely many directories; then what the root's *)
(* tree has follows along that order.                                      *)
(***************************************************************************)
\* The beginning of a path, its directory, and its last name.
LEMMA Beginning ==
  ASSUME NEW p \in Seq(STRING), NEW i \in 1 .. Len(p)
  PROVE  /\ SubSeq(p, 1, i) \in Seq(STRING) /\ Len(SubSeq(p, 1, i)) = i
         /\ SubSeq(p, 1, i) # <<>> /\ SubSeq(p, 1, i)[i] = p[i]
         /\ Dir(SubSeq(p, 1, i)) = SubSeq(p, 1, i - 1)
<1>1. Len(p) \in Nat /\ i \in Nat \ {0} /\ \A j \in 1 .. i : p[j] \in STRING
  BY LenProperties, ElementOfSeq
<1>2. PICK s : s = SubSeq(p, 1, i)
  OBVIOUS
<1>3. 1 \in Int /\ i \in Int
  BY <1>1
<1>4. s \in Seq(STRING) /\ Len(s) = i /\ \A j \in 1 .. i : s[j] = p[j]
  <2>1. /\ SubSeq(p, 1, i) \in Seq(STRING)
        /\ Len(SubSeq(p, 1, i)) = IF 1 <= i THEN i - 1 + 1 ELSE 0
        /\ \A j \in 1 .. i - 1 + 1 : SubSeq(p, 1, i)[j] = p[1 + j - 1]
    BY ONLY <1>1, <1>3, SubSeqProperties
  <2> QED
    BY <1>1, <1>2, <2>1
<1>5. s # <<>> /\ s[i] = p[i]
  BY <1>1, <1>4, EmptySeq
<1>6. SubSeq(s, 1, i - 1) = SubSeq(p, 1, i - 1)
  <2>1. CASE i = 1
    <3>1. SubSeq(s, 1, 0) = <<>> /\ SubSeq(p, 1, 0) = <<>>
      BY SubSeqEmpty
    <3> QED
      BY <2>1, <3>1
  <2>2. CASE i # 1
    <3>1. 1 \in 1 .. Len(p) /\ i \in 1 .. Len(p) /\ 1 \in 1 .. i - 1 + 1 /\ i - 1 \in 1 .. i - 1 + 1
      BY <1>1, <2>2
    <3>2. SubSeq(SubSeq(p, 1, i), 1, i - 1) = SubSeq(p, 1 + 1 - 1, 1 + (i - 1) - 1)
      BY <1>4, <3>1, SubSeqOfSubSeq
    <3>3. 1 + 1 - 1 = 1 /\ 1 + (i - 1) - 1 = i - 1
      BY <1>1
    <3> QED
      BY <1>2, <3>2, <3>3
  <2> QED
    BY <2>1, <2>2
<1> QED
  BY <1>2, <1>4, <1>5, <1>6 DEF Dir

\* The directory of a path is shorter by one name.
LEMMA DirOf ==
  ASSUME NEW p \in Seq(STRING), p # <<>>
  PROVE  /\ Dir(p) \in Seq(STRING) /\ Len(Dir(p)) = Len(p) - 1
         /\ Len(p) \in Nat \ {0} /\ Len(Dir(p)) \in Nat
<1>1. PICK j \in Nat \ {0} : j = Len(p)
  BY EmptySeq, LenProperties
<1>2. PICK i \in Int : i = j - 1
  OBVIOUS
<1>3. \A x \in 1 .. i : p[x] \in STRING
  <2> SUFFICES ASSUME NEW x \in 1 .. i
               PROVE  p[x] \in STRING
    OBVIOUS
  <2>1. x \in 1 .. Len(p)
    BY <1>1, <1>2
  <2> QED
    BY <2>1, ElementOfSeq
<1>4. /\ SubSeq(p, 1, i) \in Seq(STRING)
      /\ Len(SubSeq(p, 1, i)) = IF 1 <= i THEN i - 1 + 1 ELSE 0
  BY ONLY <1>3, SubSeqProperties
<1> QED
  BY <1>1, <1>2, <1>4 DEF Dir

-----------------------------------------------------------------------------
\* The directories _writeTree may be called for.
Places(K) == Dirs(K) \cup {<<>>}

\* They are finitely many.
LEMMA PlacesFinite ==
  ASSUME NEW K, K \subseteq File, IsFiniteSet(K)
  PROVE  IsFiniteSet(Places(K)) /\ Places(K) \subseteq Seq(STRING)
<1>1. PICK f : f = [p \in K |-> Dir(p)]
  OBVIOUS
<1>2. f \in Surjection(K, Dirs(K))
  BY <1>1 DEF Dirs, Surjection
<1>3. IsFiniteSet(Dirs(K))
  BY <1>2, FS_Surjection
<1>4. IsFiniteSet(Places(K))
  BY <1>3, FS_AddElement DEF Places
<1>5. ASSUME NEW p \in K
      PROVE  Dir(p) \in Seq(STRING)
  BY FileAssumption, DirOf
<1>6. Dirs(K) \subseteq Seq(STRING)
  BY <1>5 DEF Dirs
<1>7. <<>> \in Seq(STRING)
  BY EmptySeq
<1> QED
  BY <1>4, <1>6, <1>7 DEF Places

\* Those whose trees are entered into the tree of d.
Entered(K, d) == Nested(K, d) \cup Glued(K, d)

\* The tree of d, with the tree of each of those in f.
TreeAt(K, d, f) ==
  {<<<<p[Len(p)]>>, p>> : p \in {q \in K : Dir(q) = d}}
  \cup UNION {{<<<<NameIn(d, e)>> \o t[1], t[2]>> : t \in f[e]} : e \in Entered(K, d)}

\* That f holds the tree of every directory.
Spelt(K, f) == f = [d \in Places(K) |-> TreeAt(K, d, f)]

\* What is in the tree of d.
EntryOf(K, d, f, x) ==
  \/ \E p \in K : Dir(p) = d /\ x = <<<<p[Len(p)]>>, p>>
  \/ \E e \in Entered(K, d) : \E t \in f[e] : x = <<<<NameIn(d, e)>> \o t[1], t[2]>>

\* TreeAt has just those entries.
LEMMA InTree ==
  ASSUME NEW K, NEW d, NEW f, NEW x
  PROVE  x \in TreeAt(K, d, f) <=> EntryOf(K, d, f, x)
<1> DEFINE Sub(e) == {<<<<NameIn(d, e)>> \o t[1], t[2]>> : t \in f[e]}
           Own == {<<<<p[Len(p)]>>, p>> : p \in {q \in K : Dir(q) = d}}
           Subs == Entered(K, d)
<1>1. x \in Own <=> \E p \in K : Dir(p) = d /\ x = <<<<p[Len(p)]>>, p>>
  OBVIOUS
<1>2. \A e : x \in Sub(e) <=> \E t \in f[e] : x = <<<<NameIn(d, e)>> \o t[1], t[2]>>
  OBVIOUS
<1>3. TreeAt(K, d, f) = Own \cup UNION {Sub(e) : e \in Subs}
  BY Zenon DEF TreeAt
<1> HIDE DEF Sub, Own, Subs
<1>4. x \in UNION {Sub(e) : e \in Subs} <=> \E e \in Subs : x \in Sub(e)
  OBVIOUS
<1>5. x \in TreeAt(K, d, f) <=> x \in Own \/ \E e \in Subs : x \in Sub(e)
  BY <1>3, <1>4
<1> QED
  BY Zenon, <1>1, <1>2, <1>5 DEF Subs, EntryOf

\* The tree of d is made from the trees entered.
LEMMA SameTree ==
  ASSUME NEW K, NEW d, NEW f, NEW g, \A e \in Entered(K, d) : f[e] = g[e]
  PROVE  TreeAt(K, d, f) = TreeAt(K, d, g)
<1>1. ASSUME NEW x
      PROVE  x \in TreeAt(K, d, f) <=> x \in TreeAt(K, d, g)
  <2>1. EntryOf(K, d, f, x) <=> EntryOf(K, d, g, x)
    BY DEF EntryOf
  <2> QED
    BY <2>1, InTree
<1> QED
  <2>1. PICK S, T : S = TreeAt(K, d, f) /\ T = TreeAt(K, d, g)
    OBVIOUS
  <2>2. \A x : x \in S <=> x \in T
    BY <1>1, <2>1
  <2>3. S = T
    BY ONLY <2>2
  <2> QED
    BY <2>1, <2>3

\* What is entered lies below, or beside with a longer name: a strict order.
Beneath(d, e) ==
  \/ Len(d) < Len(e)
  \/ Len(d) = Len(e) /\ <<d[Len(d)], e[Len(e)]>> \in DOMAIN Rest

Under(K) == {q \in Places(K) \X Places(K) : Beneath(q[1], q[2])}

\* The pairs of the order.
LEMMA InUnder ==
  ASSUME NEW K, NEW d \in Places(K), NEW e \in Places(K)
  PROVE  <<d, e>> \in Under(K) <=> Beneath(d, e)
<1>1. PICK q : q = <<d, e>>
  OBVIOUS
<1>2. q[1] = d /\ q[2] = e /\ q \in Places(K) \X Places(K)
  BY <1>1
<1>3. q \in Under(K) <=> Beneath(d, e)
  BY <1>2 DEF Under
<1> QED
  BY <1>1, <1>3

\* It is a strict order.
LEMMA UnderStrict ==
  ASSUME NEW K, K \subseteq File, IsFiniteSet(K)
  PROVE  /\ \A x \in Places(K) : <<x, x>> \notin Under(K)
         /\ \A x, y, z \in Places(K) :
              <<x, y>> \in Under(K) /\ <<y, z>> \in Under(K) => <<x, z>> \in Under(K)
<1>1. \A x \in Places(K) : Len(x) \in Nat
  BY PlacesFinite, LenProperties
<1>2. \A a, b : <<a, b>> \in DOMAIN Rest => a # b
  <2>1. \A a, b : <<a, b>>[1] = a /\ <<a, b>>[2] = b
    OBVIOUS
  <2> QED
    BY <2>1, RestAssumption
<1>3. \A a, b, c : <<a, b>> \in DOMAIN Rest /\ <<b, c>> \in DOMAIN Rest
                     => <<a, c>> \in DOMAIN Rest
  <2> SUFFICES ASSUME NEW a, NEW b, NEW c, <<a, b>> \in DOMAIN Rest, <<b, c>> \in DOMAIN Rest
               PROVE  <<a, c>> \in DOMAIN Rest
    OBVIOUS
  <2>1. PICK q, r : q = <<a, b>> /\ r = <<b, c>>
    OBVIOUS
  <2>2. q[1] = a /\ q[2] = b /\ r[1] = b /\ r[2] = c
    BY <2>1
  <2> QED
    BY <2>1, <2>2, RestAssumption
<1>4. ASSUME NEW x \in Places(K)
      PROVE  ~Beneath(x, x)
  <2>1. PICK l \in Nat : l = Len(x)
    BY <1>1
  <2>2. PICK a : a = x[l]
    OBVIOUS
  <2>3. ~(l < l)
    OBVIOUS
  <2>4. <<a, a>> \notin DOMAIN Rest
    BY Zenon, <1>2
  <2> QED
    BY Zenon, <2>1, <2>2, <2>3, <2>4 DEF Beneath
<1>5. ASSUME NEW x \in Places(K), NEW y \in Places(K), NEW z \in Places(K),
             Beneath(x, y), Beneath(y, z)
      PROVE  Beneath(x, z)
  <2>1. Len(x) \in Nat /\ Len(y) \in Nat /\ Len(z) \in Nat
    BY <1>1
  <2>2. CASE Len(x) < Len(z)
    BY <2>2 DEF Beneath
  <2>3. CASE ~(Len(x) < Len(z))
    <3>1. Len(x) = Len(y) /\ Len(y) = Len(z)
      BY <1>5, <2>1, <2>3 DEF Beneath
    <3>2. <<x[Len(x)], y[Len(y)]>> \in DOMAIN Rest /\ <<y[Len(y)], z[Len(z)]>> \in DOMAIN Rest
      BY <1>5, <2>1, <3>1 DEF Beneath
    <3>3. <<x[Len(x)], z[Len(z)]>> \in DOMAIN Rest
      BY Zenon, <1>3, <3>2
    <3>4. Len(x) = Len(z)
      BY <3>1
    <3> QED
      BY Zenon, <3>3, <3>4 DEF Beneath
  <2> QED
    BY <2>2, <2>3
<1> QED
  BY <1>4, <1>5, InUnder

\* What is entered is above in that order.
LEMMA EnteredAbove ==
  ASSUME NEW K, K \subseteq File, IsFiniteSet(K), NEW d \in Places(K), NEW e \in Entered(K, d)
  PROVE  e \in Places(K) /\ <<d, e>> \in Under(K)
<1>1. e \in Dirs(K) /\ e # <<>>
  BY DEF Entered, Nested, Glued
<1>2. e \in Places(K) /\ d \in Seq(STRING) /\ e \in Seq(STRING)
  BY <1>1, PlacesFinite DEF Places
<1>3. Len(Dir(e)) = Len(e) - 1 /\ Len(e) \in Nat \ {0}
  BY <1>1, <1>2, DirOf
<1>4. CASE e \in Nested(K, d)
  <2>1. Dir(e) = d
    BY <1>4 DEF Nested
  <2>2. Len(d) < Len(e)
    BY <1>3, <2>1
  <2> QED
    BY <1>2, <2>2, InUnder DEF Beneath
<1>5. CASE e \in Glued(K, d)
  <2>1. d # <<>> /\ Dir(e) = Dir(d) /\ <<d[Len(d)], e[Len(e)]>> \in DOMAIN Rest
    BY <1>5 DEF Glued
  <2>2. Len(Dir(d)) = Len(d) - 1 /\ Len(d) \in Nat \ {0}
    BY <1>2, <2>1, DirOf
  <2>3. Len(d) = Len(e)
    BY <1>3, <2>1, <2>2
  <2> QED
    BY <1>2, <2>1, <2>3, InUnder DEF Beneath
<1> QED
  BY <1>4, <1>5 DEF Entered

\* The part of the trees that can be told: with a set of directories that has
\* all that are entered.
Told(K, S, f) ==
  (\A d \in S : Entered(K, d) \subseteq S) /\ f = [d \in S |-> TreeAt(K, d, f)]

\* One more can be told when all that are entered into it can.
LEMMA OneMoreTold ==
  ASSUME NEW K, NEW S, NEW f, Told(K, S, f), NEW x, x \notin S, Entered(K, x) \subseteq S
  PROVE  \E g : Told(K, S \cup {x}, g)
<1>1. PICK U : U = S \cup {x}
  OBVIOUS
<1>2. PICK g : g = [d \in U |-> TreeAt(K, d, f)]
  OBVIOUS
<1>3. \A d \in U : Entered(K, d) \subseteq S
  BY <1>1 DEF Told
<1>4. \A d \in S : f[d] = TreeAt(K, d, f)
  BY Zenon DEF Told
<1>5. \A d \in S : g[d] = f[d]
  BY <1>1, <1>2, <1>4
<1>6. ASSUME NEW d \in U
      PROVE  TreeAt(K, d, f) = TreeAt(K, d, g)
  <2>1. \A e \in Entered(K, d) : f[e] = g[e]
    BY <1>3, <1>5
  <2> QED
    BY <2>1, SameTree
<1>7. g = [d \in U |-> TreeAt(K, d, g)]
  BY <1>2, <1>6
<1>8. \A d \in U : Entered(K, d) \subseteq U
  BY <1>1, <1>3
<1> QED
  BY Zenon, <1>1, <1>7, <1>8 DEF Told

\* So all can be told, the directories being finitely many.
LEMMA TreesExist ==
  ASSUME NEW K, K \subseteq File, IsFiniteSet(K)
  PROVE  \E f : Spelt(K, f)
<1>1. PICK D : D = Places(K)
  OBVIOUS
<1>2. IsFiniteSet(D)
  BY <1>1, PlacesFinite
<1> DEFINE Good == {S \in SUBSET D : \E f : Told(K, S, f)}
           C == {Cardinality(D \ S) : S \in Good}
<1>3. {} \in Good
  <2>1. PICK f : f = [d \in {} |-> TreeAt(K, d, d)]
    OBVIOUS
  <2>2. Told(K, {}, f)
    BY <2>1 DEF Told
  <2> QED
    BY <2>2
<1>4. \A S \in SUBSET D : IsFiniteSet(D \ S) /\ Cardinality(D \ S) \in Nat
  <2> TAKE S \in SUBSET D
  <2>1. D \ S \in SUBSET D
    OBVIOUS
  <2>2. IsFiniteSet(D \ S)
    BY <1>2, <2>1, FS_Subset
  <2> QED
    BY <2>2, FS_CardinalityType
<1>5. PICK u \in C : \A v \in C : u <= v
  <2>1. C \subseteq Nat /\ C # {}
    BY <1>3, <1>4
  <2> HIDE DEF C
  <2> QED
    BY <2>1, LeastNumber
<1>6. PICK S \in Good : u = Cardinality(D \ S)
  OBVIOUS
<1>7. PICK f : Told(K, S, f)
  OBVIOUS
<1>8. ASSUME D \ S # {}
      PROVE  FALSE
  <2>1. PICK T, B : T = D \ S /\ B = Under(K)
    OBVIOUS
  <2>2. IsFiniteSet(T) /\ T # {} /\ T \subseteq D
    BY <1>4, <1>8, <2>1
  <2>3. /\ \A x \in T : <<x, x>> \notin B
        /\ \A x, y, z \in T : <<x, y>> \in B /\ <<y, z>> \in B => <<x, z>> \in B
    BY <1>1, <2>1, <2>2, UnderStrict
  <2>4. PICK x \in T : \A y \in T : <<x, y>> \notin B
    BY ONLY <2>2, <2>3, Topmost
  <2>5. x \in D /\ x \notin S
    BY <2>1
  <2>6. Entered(K, x) \subseteq S
    BY <1>1, <2>1, <2>4, <2>5, EnteredAbove
  <2>7. \E g : Told(K, S \cup {x}, g)
    BY <1>7, <2>5, <2>6, OneMoreTold
  <2>8. PICK U : U = S \cup {x}
    OBVIOUS
  <2>9. U \in Good
    BY <2>5, <2>7, <2>8
  <2>10. Cardinality(D \ U) \in C
    BY <2>9
  <2>11. D \ U = T \ {x}
    BY <2>1, <2>8
  <2>12. Cardinality(T \ {x}) = Cardinality(T) - 1
    BY <2>2, FS_RemoveElement
  <2>13. Cardinality(T) \in Nat
    BY <2>2, FS_CardinalityType
  <2>14. u <= Cardinality(T \ {x}) /\ u = Cardinality(T)
    BY <1>5, <1>6, <2>1, <2>10, <2>11
  <2> QED
    BY <2>12, <2>13, <2>14
<1>9. S = D
  BY <1>8
<1>10. Told(K, D, f)
  BY <1>7, <1>9
<1> QED
  BY Zenon, <1>1, <1>10 DEF Told, Spelt

\* The tree of the root is one of them.
LEMMA TreeRoot ==
  ASSUME NEW K, K \subseteq File, IsFiniteSet(K)
  PROVE  \E f : Spelt(K, f) /\ TreePaths(K) = f[<<>>]
<1>1. \E f : Spelt(K, f)
  BY TreesExist
<1> QED
  BY Zenon, <1>1 DEF Spelt, TreeAt, TreePaths, Places, Entered

\* What is in the tree of a directory.
LEMMA InSpelt ==
  ASSUME NEW K, NEW f, Spelt(K, f), NEW d \in Places(K), NEW x
  PROVE  x \in f[d] <=> EntryOf(K, d, f, x)
<1>1. f[d] = TreeAt(K, d, f)
  BY Zenon DEF Spelt
<1> QED
  BY <1>1, InTree

-----------------------------------------------------------------------------
\* A written file is in the tree of each directory above it, under what
\* remains of its path, and so in the root's under its own.
LEMMA OwnEntered ==
  ASSUME NEW K, K \subseteq File, NEW f, Spelt(K, f), NEW p \in Written(K)
  PROVE  <<p, p>> \in f[<<>>]
<1>1. p \in K /\ p \in Seq(STRING) /\ p # <<>>
  BY FileAssumption DEF Written
<1>2. PICK l \in Nat \ {0} : l = Len(p)
  BY <1>1, EmptySeq, LenProperties
<1>3. \A i \in 1 .. l - 1 : SubSeq(p, 1, i) \in Dirs(K)
  BY <1>2 DEF Written
<1> DEFINE P == {j \in Nat : j < l => <<SubSeq(p, l - j, l), p>> \in f[SubSeq(p, 1, l - 1 - j)]}
<1>4. 0 \in P
  <2>1. SubSeq(p, l, l) = <<p[l]>>
    <3>1. l \in 1 .. Len(p) /\ l \in l .. Len(p)
      BY <1>2
    <3>2. SubSeq(p, l, l) = <<p[l]>> \o SubSeq(p, l + 1, l)
      BY <1>1, <3>1, SubSeqRecursiveFirst
    <3>3. SubSeq(p, l + 1, l) = <<>>
      BY <1>2, SubSeqEmpty
    <3>4. <<p[l]>> \in Seq(STRING)
      BY <1>1, <3>1, ElementOfSeq
    <3>5. <<p[l]>> \o <<>> = <<p[l]>>
      BY <3>4, ConcatEmptySeq
    <3> QED
      BY <3>2, <3>3, <3>5
  <2>2. PICK d : d = SubSeq(p, 1, l - 1)
    OBVIOUS
  <2>3. Dir(p) = d /\ d \in Places(K)
    BY <1>1, <1>2, <2>2 DEF Dir, Places, Dirs
  <2>4. EntryOf(K, d, f, <<SubSeq(p, l, l), p>>)
    BY <1>1, <1>2, <2>1, <2>3 DEF EntryOf
  <2>5. <<SubSeq(p, l, l), p>> \in f[d]
    BY <2>3, <2>4, InSpelt
  <2>6. l - 0 = l /\ l - 1 - 0 = l - 1
    BY <1>2
  <2> QED
    BY <2>2, <2>5, <2>6
<1>5. ASSUME NEW j \in Nat, j \in P
      PROVE  j + 1 \in P
  <2> SUFFICES ASSUME j + 1 < l
               PROVE  <<SubSeq(p, l - (j + 1), l), p>> \in f[SubSeq(p, 1, l - 1 - (j + 1))]
    OBVIOUS
  <2>1. PICK i \in Nat \ {0} : i = l - 1 - j
    BY <1>2
  <2>2. i \in 1 .. l - 1 /\ i \in 1 .. Len(p) /\ l \in i .. Len(p)
    BY <1>2, <2>1
  <2>3. PICK e, d : e = SubSeq(p, 1, i) /\ d = SubSeq(p, 1, i - 1)
    OBVIOUS
  <2>4. e \in Dirs(K) /\ e # <<>> /\ Dir(e) = d /\ e[Len(e)] = p[i]
    BY <1>1, <1>3, <2>2, <2>3, Beginning
  <2>5. d \in Places(K)
    <3>1. CASE i = 1
      <4>1. d = <<>>
        BY <2>3, <3>1, SubSeqEmpty
      <4> QED
        BY <4>1 DEF Places
    <3>2. CASE i # 1
      <4>1. i - 1 \in 1 .. l - 1
        BY <1>2, <2>2, <3>2
      <4> QED
        BY <1>3, <2>3, <4>1 DEF Places
    <3> QED
      BY <3>1, <3>2
  <2>6. e \in Entered(K, d) /\ NameIn(d, e) = p[i]
    BY <2>4 DEF Entered, Nested, NameIn
  <2>7. PICK t : t = <<SubSeq(p, i + 1, l), p>>
    OBVIOUS
  <2>8. t \in f[e]
    <3>1. l - j = i + 1 /\ j < l
      BY <1>2, <2>1
    <3> QED
      BY <1>5, <2>1, <2>3, <2>7, <3>1
  <2>9. <<p[i]>> \o SubSeq(p, i + 1, l) = SubSeq(p, i, l)
    BY <1>1, <2>2, SubSeqRecursiveFirst
  <2>10. t[1] = SubSeq(p, i + 1, l) /\ t[2] = p
    BY <2>7
  <2>11. <<SubSeq(p, i, l), p>> = <<<<NameIn(d, e)>> \o t[1], t[2]>>
    BY <2>6, <2>9, <2>10
  <2>12. EntryOf(K, d, f, <<SubSeq(p, i, l), p>>)
    BY Zenon, <2>6, <2>8, <2>11 DEF EntryOf
  <2>13. <<SubSeq(p, i, l), p>> \in f[d]
    BY <2>5, <2>12, InSpelt
  <2>14. l - (j + 1) = i /\ l - 1 - (j + 1) = i - 1
    BY <1>2, <2>1
  <2> QED
    BY <2>3, <2>13, <2>14
<1>6. Nat \subseteq P
  <2> HIDE DEF P
  <2> QED
    BY <1>4, <1>5, Induction
<1>7. l - 1 \in Nat /\ l - 1 < l /\ l - (l - 1) = 1 /\ l - 1 - (l - 1) = 0
  BY <1>2
<1>8. <<SubSeq(p, l - (l - 1), l), p>> \in f[SubSeq(p, 1, l - 1 - (l - 1))]
  BY <1>6, <1>7
<1>9. SubSeq(p, 1, l) = p /\ SubSeq(p, 1, 0) = <<>>
  BY <1>1, <1>2, SubSeqFull, SubSeqEmpty
<1> QED
  BY <1>7, <1>8, <1>9

\* What a directory's tree has when none is beside it with a longer name: a
\* file below it, under what remains of its path, with a directory that holds
\* a file at every step.
Spells(K, d, x) ==
  \E p \in K : /\ Len(d) < Len(p) /\ d = SubSeq(p, 1, Len(d))
               /\ x = <<SubSeq(p, Len(d) + 1, Len(p)), p>>
               /\ \A i \in Len(d) + 1 .. Len(p) - 1 : SubSeq(p, 1, i) \in Dirs(K)

\* A directory's own files are spelt so.
LEMMA SpellsFile ==
  ASSUME NEW K, K \subseteq File, NEW p \in K
  PROVE  Spells(K, Dir(p), <<<<p[Len(p)]>>, p>>)
<1>1. p \in Seq(STRING) /\ p # <<>>
  BY FileAssumption
<1>2. PICK l \in Nat \ {0} : l = Len(p)
  BY <1>1, EmptySeq, LenProperties
<1>3. PICK d : d = Dir(p)
  OBVIOUS
<1>4. Len(d) = l - 1 /\ d = SubSeq(p, 1, l - 1)
  BY <1>1, <1>2, <1>3, DirOf DEF Dir
<1>5. SubSeq(p, l, l) = <<p[l]>>
  <2>1. l \in 1 .. Len(p) /\ l \in l .. Len(p)
    BY <1>2
  <2>2. SubSeq(p, l, l) = <<p[l]>> \o SubSeq(p, l + 1, l)
    BY <1>1, <2>1, SubSeqRecursiveFirst
  <2>3. SubSeq(p, l + 1, l) = <<>>
    BY <1>2, SubSeqEmpty
  <2>4. <<p[l]>> \in Seq(STRING)
    BY <1>1, <2>1, ElementOfSeq
  <2>5. <<p[l]>> \o <<>> = <<p[l]>>
    BY <2>4, ConcatEmptySeq
  <2> QED
    BY <2>2, <2>3, <2>5
<1>6. l - 1 + 1 = l /\ l - 1 < l
  BY <1>2
<1>7. \A i \in l .. l - 1 : FALSE
  BY <1>2
<1>8. Spells(K, d, <<<<p[l]>>, p>>)
  BY <1>2, <1>4, <1>5, <1>6, <1>7 DEF Spells
<1> QED
  BY <1>2, <1>3, <1>8

\* So is what comes from the tree of a sub-directory.
LEMMA SpellsNested ==
  ASSUME NEW K, K \subseteq File, NEW d, NEW e \in Nested(K, d), NEW t, Spells(K, e, t)
  PROVE  Spells(K, d, <<<<NameIn(d, e)>> \o t[1], t[2]>>)
<1>1. e \in Dirs(K) /\ e # <<>> /\ Dir(e) = d /\ NameIn(d, e) = e[Len(e)]
  BY DEF Nested, NameIn
<1>2. PICK p \in K : /\ Len(e) < Len(p) /\ e = SubSeq(p, 1, Len(e))
                     /\ t = <<SubSeq(p, Len(e) + 1, Len(p)), p>>
                     /\ \A i \in Len(e) + 1 .. Len(p) - 1 : SubSeq(p, 1, i) \in Dirs(K)
  BY DEF Spells
<1>3. p \in Seq(STRING) /\ p # <<>>
  BY FileAssumption
<1>4. PICK l \in Nat \ {0} : l = Len(p)
  BY <1>3, EmptySeq, LenProperties
<1>5. e \in Seq(STRING)
  <2>1. PICK q \in K : e = Dir(q)
    BY <1>1 DEF Dirs
  <2> QED
    BY <2>1, FileAssumption, DirOf
<1>6. PICK i \in Nat \ {0} : i = Len(e)
  BY <1>1, <1>5, EmptySeq, LenProperties
<1>7. i < l /\ i \in 1 .. Len(p) /\ l \in i .. Len(p)
  BY <1>2, <1>4, <1>6
<1>8. e = SubSeq(p, 1, i)
  BY <1>2, <1>6
<1>9. e[i] = p[i] /\ d = SubSeq(p, 1, i - 1)
  BY <1>1, <1>3, <1>7, <1>8, Beginning
<1>10. Len(d) = i - 1
  BY <1>1, <1>5, <1>6, DirOf
<1>11. <<p[i]>> \o SubSeq(p, i + 1, l) = SubSeq(p, i, l)
  BY <1>3, <1>7, SubSeqRecursiveFirst
<1>12. t[1] = SubSeq(p, i + 1, l) /\ t[2] = p
  BY <1>2, <1>4, <1>6
<1>13. <<<<NameIn(d, e)>> \o t[1], t[2]>> = <<SubSeq(p, i, l), p>>
  BY <1>1, <1>6, <1>9, <1>11, <1>12
<1>14. \A j \in i .. l - 1 : SubSeq(p, 1, j) \in Dirs(K)
  <2> SUFFICES ASSUME NEW j \in i .. l - 1, j # i
               PROVE  SubSeq(p, 1, j) \in Dirs(K)
    BY <1>1, <1>8
  <2>1. j \in i + 1 .. l - 1
    BY <1>7
  <2> QED
    BY <1>2, <1>4, <1>6, <2>1
<1>15. i - 1 + 1 = i /\ i - 1 < l
  BY <1>7
<1>16. Spells(K, d, <<SubSeq(p, i, l), p>>)
  BY <1>4, <1>9, <1>10, <1>14, <1>15 DEF Spells
<1> QED
  BY <1>13, <1>16

\* Nothing else is in the trees, those of the directories below before those
\* above.
LEMMA OnlySpelt ==
  ASSUME NEW K, K \subseteq File, IsFiniteSet(K), ~Siblings(K), NEW f, Spelt(K, f)
  PROVE  \A d \in Places(K) : \A x \in f[d] : Spells(K, d, x)
<1>1. PICK T : T = {d \in Places(K) : \E x \in f[d] : ~Spells(K, d, x)}
  OBVIOUS
<1>2. SUFFICES ASSUME T # {}
               PROVE  FALSE
  BY <1>1
<1>3. PICK B : B = Under(K)
  OBVIOUS
<1>4. IsFiniteSet(T) /\ T \subseteq Places(K)
  <2>1. PICK D : D = Places(K)
    OBVIOUS
  <2>2. IsFiniteSet(D) /\ T \in SUBSET D
    BY <1>1, <2>1, PlacesFinite
  <2>3. IsFiniteSet(T)
    BY ONLY <2>2, FS_Subset
  <2> QED
    BY <2>1, <2>2, <2>3
<1>5. /\ \A x \in T : <<x, x>> \notin B
      /\ \A x, y, z \in T : <<x, y>> \in B /\ <<y, z>> \in B => <<x, z>> \in B
  BY <1>3, <1>4, UnderStrict
<1>6. PICK d \in T : \A e \in T : <<d, e>> \notin B
  BY ONLY <1>2, <1>4, <1>5, Topmost
<1>7. d \in Places(K)
  BY <1>4
<1>8. PICK x \in f[d] : ~Spells(K, d, x)
  BY <1>1
<1>9. EntryOf(K, d, f, x)
  BY <1>7, InSpelt
<1>10. CASE \E p \in K : Dir(p) = d /\ x = <<<<p[Len(p)]>>, p>>
  BY <1>8, <1>10, SpellsFile
<1>11. CASE \E e \in Entered(K, d) : \E t \in f[e] : x = <<<<NameIn(d, e)>> \o t[1], t[2]>>
  <2>1. PICK e \in Entered(K, d) : \E t \in f[e] : x = <<<<NameIn(d, e)>> \o t[1], t[2]>>
    BY <1>11
  <2>2. PICK t \in f[e] : x = <<<<NameIn(d, e)>> \o t[1], t[2]>>
    BY <2>1
  <2>3. e \in Places(K) /\ e \notin T
    BY <1>3, <1>6, <1>7, EnteredAbove
  <2>4. Spells(K, e, t)
    BY <1>1, <2>3
  <2>5. Glued(K, d) = {}
    <3>1. CASE d = <<>>
      BY <3>1 DEF Glued
    <3>2. CASE d \in Dirs(K)
      BY <3>2 DEF Siblings
    <3> QED
      BY <1>7, <3>1, <3>2 DEF Places
  <2>6. e \in Nested(K, d)
    BY <2>5 DEF Entered
  <2> QED
    BY <1>8, <2>2, <2>4, <2>6, SpellsNested
<1> QED
  BY <1>9, <1>10, <1>11 DEF EntryOf

\* Whatever the names, the files in the trees are those of the index.
LEMMA OnlyStaged ==
  ASSUME NEW K, K \subseteq File, IsFiniteSet(K), NEW f, Spelt(K, f)
  PROVE  \A d \in Places(K) : \A x \in f[d] : x[2] \in K
<1>1. PICK T : T = {d \in Places(K) : \E x \in f[d] : x[2] \notin K}
  OBVIOUS
<1>2. SUFFICES ASSUME T # {}
               PROVE  FALSE
  BY <1>1
<1>3. PICK B : B = Under(K)
  OBVIOUS
<1>4. IsFiniteSet(T) /\ T \subseteq Places(K)
  <2>1. PICK D : D = Places(K)
    OBVIOUS
  <2>2. IsFiniteSet(D) /\ T \in SUBSET D
    BY <1>1, <2>1, PlacesFinite
  <2>3. IsFiniteSet(T)
    BY ONLY <2>2, FS_Subset
  <2> QED
    BY <2>1, <2>2, <2>3
<1>5. /\ \A x \in T : <<x, x>> \notin B
      /\ \A x, y, z \in T : <<x, y>> \in B /\ <<y, z>> \in B => <<x, z>> \in B
  BY <1>3, <1>4, UnderStrict
<1>6. PICK d \in T : \A e \in T : <<d, e>> \notin B
  BY ONLY <1>2, <1>4, <1>5, Topmost
<1>7. d \in Places(K)
  BY <1>4
<1>8. PICK x \in f[d] : x[2] \notin K
  BY <1>1
<1>9. EntryOf(K, d, f, x)
  BY <1>7, InSpelt
<1>10. CASE \E p \in K : Dir(p) = d /\ x = <<<<p[Len(p)]>>, p>>
  BY <1>8, <1>10
<1>11. CASE \E e \in Entered(K, d) : \E t \in f[e] : x = <<<<NameIn(d, e)>> \o t[1], t[2]>>
  <2>1. PICK e \in Entered(K, d) : \E t \in f[e] : x = <<<<NameIn(d, e)>> \o t[1], t[2]>>
    BY <1>11
  <2>2. PICK t \in f[e] : x = <<<<NameIn(d, e)>> \o t[1], t[2]>>
    BY <2>1
  <2>3. e \in Places(K) /\ e \notin T
    BY <1>3, <1>6, <1>7, EnteredAbove
  <2>4. t[2] \in K
    BY <1>1, <2>3
  <2> QED
    BY <1>8, <2>2, <2>4
<1> QED
  BY <1>9, <1>10, <1>11 DEF EntryOf

-----------------------------------------------------------------------------
\* The index lists finitely many files.
LEMMA StagedFinite == TSpec => [](IsFiniteSet(staged) /\ staged \subseteq File)
<1> DEFINE Inv == IsFiniteSet(staged) /\ staged \subseteq File
<1>1. TInit => Inv
  BY FS_EmptySet DEF TInit
<1>2. ASSUME Inv, [TNext]_staged
      PROVE  Inv'
  <2>1. CASE TNext
    <3>1. PICK x \in File : staged' = staged \cup {x}
      BY <2>1 DEF TNext, Stage
    <3>2. PICK S : S = staged
      OBVIOUS
    <3>3. IsFiniteSet(S \cup {x})
      BY <1>2, <3>2, FS_AddElement
    <3> QED
      BY <1>2, <3>1, <3>2, <3>3
  <2>2. CASE UNCHANGED staged
    BY <1>2, <2>2
  <2> QED
    BY <1>2, <2>1, <2>2
<1> QED
  BY <1>1, <1>2, PTL DEF TSpec

\* The tree commit stores has every staged file that has only directories with
\* files above it, under its own path; what it has is staged; and it has it under
\* another path only where the name of a directory begins with that of one beside
\* it, shorter by two characters or more.
THEOREM TreesRight == TSpec => []TreeHoldsWritten
<1>1. ASSUME IsFiniteSet(staged), staged \subseteq File
      PROVE  TreeHoldsWritten
  <2>1. PICK K : K = staged
    OBVIOUS
  <2>2. IsFiniteSet(K) /\ K \subseteq File
    BY <1>1, <2>1
  <2>3. PICK f : Spelt(K, f) /\ TreePaths(K) = f[<<>>]
    BY <2>2, TreeRoot
  <2>4. <<>> \in Places(K) /\ Len(<<>>) = 0
    BY DEF Places
  <2>5. ASSUME NEW p \in Written(K)
        PROVE  <<p, p>> \in TreePaths(K)
    BY <2>2, <2>3, OwnEntered
  <2>6. ASSUME NEW x \in TreePaths(K)
        PROVE  x[2] \in K
    BY <2>2, <2>3, <2>4, OnlyStaged
  <2>7. ASSUME ~Siblings(K), NEW x \in TreePaths(K)
        PROVE  x[1] = x[2]
    <3>1. Spells(K, <<>>, x)
      BY <2>2, <2>3, <2>4, <2>7, OnlySpelt
    <3>2. PICK p \in K : x = <<SubSeq(p, 0 + 1, Len(p)), p>>
      BY <2>4, <3>1 DEF Spells
    <3>3. p \in Seq(STRING)
      BY <2>2, FileAssumption
    <3>4. SubSeq(p, 1, Len(p)) = p /\ 0 + 1 = 1
      BY <3>3, SubSeqFull
    <3> QED
      BY <3>2, <3>4
  <2>8. \A p \in Written(K) : <<p, p>> \in TreePaths(K)
    BY <2>5
  <2>9. \A x \in TreePaths(K) : x[2] \in K /\ (x[1] = x[2] \/ Siblings(K))
    BY <2>6, <2>7
  <2> QED
    BY <2>1, <2>8, <2>9 DEF TreeHoldsWritten
<1> QED
  BY <1>1, StagedFinite, PTL
=============================================================================

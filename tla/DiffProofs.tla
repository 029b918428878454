----------------------------- MODULE DiffProofs -----------------------------
(***************************************************************************)
(* diff ends with a shortest script between two files, and merge loses no  *)
(* line of it, for files of any number of lines.                           *)
(***************************************************************************)
EXTENDS Diff, DataLemmas

-----------------------------------------------------------------------------
(***************************************************************************)
(* The inductive invariant.  A place x, y stands for the first x lines of  *)
(* file1 and the first y lines of file2.                                   *)
(***************************************************************************)
Places == 0 .. 2 * max
Rows == [Places -> Int]

\* The row that a round begins with, its diagonals, and all within its reach.
Earlier(r) == IF r = 0 THEN [i \in Places |-> 0] ELSE trace[r]
Diagonals(r) == {max - r + 2 * j : j \in 0 .. r}
Reach(r) == max - r .. max + r

\* What round r makes of the diagonal i of a row.
Down(R, r, i) == i = max - r \/ (i # max + r /\ R[i - 1] < R[i + 1])
From(R, r, i) == IF Down(R, r, i) THEN R[i + 1] ELSE R[i - 1] + 1
Far(R, r, i) == Slid(From(R, r, i), From(R, r, i) + max - i)

\* What it has made of Q when it is to go on with the diagonal e.
Partly(R, Q, r, e) ==
  /\ R \in Rows
  /\ \A i \in Places : R[i] = IF i \in Diagonals(r) /\ i < e THEN Far(Q, r, i) ELSE Q[i]

\* Alignments of the lines up to a place, and the lines that one leaves over.
Below(x, y) == {A \in Alignments : \A p \in A : p[1] <= x /\ p[2] <= y}
Cost(x, y, A) == x + y - 2 * Cardinality(A)

\* Every place of a row is reached with r changed lines, and none beyond it is;
\* on no diagonal both files are used up.
Led(x, y, r) == x \in Nat /\ y \in Nat /\ \E A \in Below(x, y) : Cost(x, y, A) <= r
Sound(R, r) == \A i \in Reach(r) : Led(R[i], R[i] + max - i, r)
Furthest(R, r) ==
  \A x \in 0 .. n, y \in 0 .. m : \A A \in Below(x, y) :
    Cost(x, y, A) <= r => max + x - y \in Reach(r) /\ x <= R[max + x - y]
Ends(R, i) == R[i] >= n /\ R[i] + max - i >= m
Open(R, r) == \A i \in Reach(r) : ~Ends(R, i)

Complete(r) ==
  /\ Partly(trace[r + 1], Earlier(r), r, max + r + 1)
  /\ Sound(trace[r + 1], r) /\ Furthest(trace[r + 1], r) /\ Open(trace[r + 1], r)

Entry == {Blank, "-", "+"} \X Line
Script == Seq(Entry)

Typed ==
  /\ file1 \in Seq(Line) /\ file2 \in Seq(Line) /\ max > 0
  /\ phase \in {"search", "back", "done"}
  /\ trace \in Seq(Rows) /\ lines \in Script

Searching ==
  phase = "search" =>
    /\ d = Len(trace) /\ k \in Diagonals(d) /\ lines = <<>>
    /\ Partly(del, Earlier(d), d, k)
    /\ \A i \in Diagonals(d) : i < k => ~Ends(del, i)
    /\ \A r \in 0 .. d - 1 : Complete(r)

Changes == Len(trace) - 1

Found ==
  phase # "search" =>
    /\ Changes \in 0 .. max
    /\ \A r \in 0 .. Changes - 1 : Complete(r)
    /\ \A i \in Places \ Diagonals(Changes) : trace[Changes + 1][i] = Earlier(Changes)[i]
    /\ \A A \in Alignments : max - 2 * Cardinality(A) >= Changes

\* The script spells the files behind a place.
Spells(s, x, y) ==
  /\ With(s, {Blank, "-"}) = SubSeq(file1, x + 1, n)
  /\ With(s, {Blank, "+"}) = SubSeq(file2, y + 1, m)

Returning ==
  phase = "back" =>
    LET x == trace[d + 1][k]
    IN  /\ d \in 0 .. Changes /\ k \in Diagonals(d)
        /\ x = Far(Earlier(d), d, k) /\ x \in 0 .. n /\ x + max - k \in 0 .. m
        /\ Spells(lines, x, x + max - k)
        /\ Len(With(lines, {"-", "+"})) = Changes - d

Ready ==
  phase = "done" => Spells(lines, 0, 0) /\ Len(With(lines, {"-", "+"})) = Changes

DiffInv == Typed /\ Searching /\ Found /\ Returning /\ Ready

-----------------------------------------------------------------------------
(***************************************************************************)
(* The files, and equal lines in them.                                     *)
(***************************************************************************)
\* The sizes of the files.
LEMMA Sizes ==
  ASSUME Typed
  PROVE  n \in Nat /\ m \in Nat /\ max \in Nat /\ max = n + m /\ max > 0
<1>1. n \in Nat /\ m \in Nat
  BY LenProperties DEF Typed, n, m
<1>2. max = n + m
  BY DEF max
<1>3. n + m \in Nat
  BY <1>1
<1>4. max > 0
  BY DEF Typed
<1> QED
  BY <1>1, <1>2, <1>3, <1>4

\* A set of numbers up to a bound has a greatest.
LEMMA Greatest ==
  ASSUME NEW N \in Nat, NEW S, S \subseteq 0 .. N, S # {}
  PROVE  Max(S) \in S /\ \A i \in S : i <= Max(S)
<1> DEFINE T == {N - i : i \in S}
<1>0. \A i \in S : i \in Nat /\ N - i \in Nat
  OBVIOUS
<1>1. T \subseteq Nat /\ T # {}
  BY <1>0
<1>2. PICK t \in T : \A u \in T : t <= u
  <2> HIDE DEF T
  <2> QED
    BY <1>1, LeastNumber
<1>3. PICK i \in S : t = N - i
  BY <1>2
<1>4. \A j \in S : i >= j
  <2> SUFFICES ASSUME NEW j \in S
               PROVE  i >= j
    OBVIOUS
  <2>1. N - j \in T
    OBVIOUS
  <2>2. t <= N - j
    BY <1>2, <2>1
  <2> QED
    BY <1>0, <1>3, <2>2
<1>5. \E x \in S : \A j \in S : x >= j
  BY <1>4
<1>6. Max(S) \in S /\ \A j \in S : Max(S) >= j
  BY <1>5, Zenon DEF Max
<1> QED
  BY <1>6

\* Sliding passes equal lines, and stops only where the next ones differ or a
\* file ends.
LEMMA Slides ==
  ASSUME Typed, NEW x \in Nat, NEW y \in Nat
  PROVE  \E i \in Nat :
           /\ Slid(x, y) = x + i
           /\ \A j \in 1 .. i : x + j <= n /\ y + j <= m /\ file1[x + j] = file2[y + j]
           /\ ~(x + i + 1 <= n /\ y + i + 1 <= m /\ file1[x + i + 1] = file2[y + i + 1])
<1> DEFINE Equal(j) == x + j <= n /\ y + j <= m /\ file1[x + j] = file2[y + j]
           S == {i \in 0 .. n : \A j \in 1 .. i : Equal(j)}
<1>1. n \in Nat /\ m \in Nat
  BY Sizes
<1>2. 0 \in S
  BY <1>1
<1>3. PICK i : i = Max(S)
  OBVIOUS
<1>4. i \in S /\ \A j \in S : j <= i
  BY <1>1, <1>2, <1>3, Greatest
<1>5. Slid(x, y) = x + i
  BY <1>3 DEF Slid
<1>6. i \in 0 .. n /\ \A j \in 1 .. i : Equal(j)
  BY <1>4
<1>7. ASSUME Equal(i + 1)
      PROVE  FALSE
  <2>1. i + 1 \in 0 .. n
    BY <1>1, <1>6, <1>7
  <2>2. ASSUME NEW j \in 1 .. i + 1
        PROVE  Equal(j)
    <3>1. CASE j = i + 1
      BY <1>7, <3>1
    <3>2. CASE j # i + 1
      <4>1. j \in 1 .. i
        BY <1>6, <3>2
      <4> QED
        BY <1>6, <4>1
    <3> QED
      BY <3>1, <3>2
  <2>3. i + 1 \in S
    BY <2>1, <2>2
  <2>4. i + 1 <= i
    BY <1>4, <2>3
  <2> QED
    BY <1>6, <2>4
<1>8. ~(x + i + 1 <= n /\ y + i + 1 <= m /\ file1[x + i + 1] = file2[y + i + 1])
  <2>1. x + (i + 1) = x + i + 1 /\ y + (i + 1) = y + i + 1
    BY <1>6
  <2> QED
    BY <1>7, <2>1
<1> QED
  BY <1>5, <1>6, <1>8

-----------------------------------------------------------------------------
(***************************************************************************)
(* Alignments.                                                             *)
(***************************************************************************)
\* What an alignment is.
LEMMA Aligned ==
  ASSUME Typed, NEW A
  PROVE  A \in Alignments <=>
           /\ \A p \in A : p \in (1 .. n) \X (1 .. m) /\ file1[p[1]] = file2[p[2]]
           /\ \A p, q \in A : p[1] < q[1] <=> p[2] < q[2]
BY DEF Alignments

\* One pairs at most as many lines as there are on either side.
LEMMA Few ==
  ASSUME Typed, NEW x \in Nat, NEW y \in Nat, NEW A \in Below(x, y)
  PROVE  /\ IsFiniteSet(A) /\ Cardinality(A) \in Nat
         /\ Cardinality(A) <= x /\ Cardinality(A) <= y
<1>1. n \in Nat /\ m \in Nat
  BY Sizes
<1>2. /\ \A p \in A : p \in (1 .. n) \X (1 .. m) /\ p[1] <= x /\ p[2] <= y
      /\ \A p, q \in A : p[1] < q[1] <=> p[2] < q[2]
  BY Aligned DEF Below
<1>3. \A p, q \in A : p[1] = q[1] => p = q
  BY <1>1, <1>2
<1>4. \A p, q \in A : p[2] = q[2] => p = q
  BY <1>1, <1>2
<1>5. IsFiniteSet(1 .. x) /\ Cardinality(1 .. x) = x /\ IsFiniteSet(1 .. y) /\ Cardinality(1 .. y) = y
  BY FS_Interval
<1>6. PICK f, g : f = [p \in A |-> p[1]] /\ g = [p \in A |-> p[2]]
  OBVIOUS
<1>7. f \in Injection(A, 1 .. x)
  BY <1>1, <1>2, <1>3, <1>6 DEF Injection, IsInjective
<1>8. g \in Injection(A, 1 .. y)
  BY <1>1, <1>2, <1>4, <1>6 DEF Injection, IsInjective
<1>9. IsFiniteSet(A) /\ Cardinality(A) <= x
  BY <1>5, <1>7, FS_Injection
<1>10. Cardinality(A) <= y
  BY <1>5, <1>8, FS_Injection
<1> QED
  BY <1>9, <1>10, FS_CardinalityType

\* Every alignment is below the ends of the files.
LEMMA AllBelow ==
  ASSUME Typed, NEW x \in Nat, NEW y \in Nat, x >= n, y >= m
  PROVE  Alignments \subseteq Below(x, y) /\ Below(x, y) \subseteq Alignments
<1>1. n \in Nat /\ m \in Nat
  BY Sizes
<1> QED
  BY <1>1, Aligned DEF Below

\* Adding a pair of equal lines behind all others leaves as many lines over.
LEMMA Longer ==
  ASSUME Typed, NEW x \in Nat, NEW y \in Nat, NEW A \in Below(x, y),
         x + 1 <= n, y + 1 <= m, file1[x + 1] = file2[y + 1]
  PROVE  \E B \in Below(x + 1, y + 1) : Cost(x + 1, y + 1, B) = Cost(x, y, A)
<1>1. n \in Nat /\ m \in Nat
  BY Sizes
<1>2. /\ \A q \in A : q \in (1 .. n) \X (1 .. m) /\ file1[q[1]] = file2[q[2]] /\ q[1] <= x /\ q[2] <= y
      /\ \A q, s \in A : q[1] < s[1] <=> q[2] < s[2]
  BY Aligned DEF Below
<1>3. PICK p, B : p = <<x + 1, y + 1>> /\ B = A \cup {p}
  OBVIOUS
<1>4. p \in (1 .. n) \X (1 .. m) /\ file1[p[1]] = file2[p[2]] /\ p[1] = x + 1 /\ p[2] = y + 1
  BY <1>1, <1>3
<1>5. \A q \in B : /\ q \in (1 .. n) \X (1 .. m) /\ file1[q[1]] = file2[q[2]]
                   /\ q[1] <= x + 1 /\ q[2] <= y + 1
  BY <1>1, <1>2, <1>3, <1>4
<1>6. ASSUME NEW q \in B, NEW s \in B
      PROVE  q[1] < s[1] <=> q[2] < s[2]
  <2>1. CASE q \in A /\ s \in A
    BY <1>2, <2>1
  <2>2. CASE q \in A /\ s = p
    BY <1>1, <1>2, <1>4, <2>2
  <2>3. CASE q = p /\ s \in A
    BY <1>1, <1>2, <1>4, <2>3
  <2>4. CASE q = p /\ s = p
    BY <1>4, <2>4
  <2> QED
    BY <1>3, <2>1, <2>2, <2>3, <2>4
<1>7. B \in Below(x + 1, y + 1)
  <2>1. B \in Alignments
    BY <1>5, <1>6, Aligned
  <2> QED
    BY <1>5, <2>1 DEF Below
<1>8. Cardinality(B) = Cardinality(A) + 1
  <2>1. p \notin A
    BY <1>1, <1>2, <1>4
  <2>2. IsFiniteSet(A)
    BY Few
  <2> QED
    BY <1>3, <2>1, <2>2, FS_AddElement
<1>9. x + 1 + (y + 1) - 2 * (Cardinality(A) + 1) = x + y - 2 * Cardinality(A)
  <2>1. Cardinality(A) \in Nat
    BY Few
  <2> QED
    BY <2>1
<1>10. Cost(x + 1, y + 1, B) = Cost(x, y, A)
  BY <1>8, <1>9 DEF Cost
<1> QED
  BY <1>7, <1>10

\* So does any number of them.
LEMMA LongerBy ==
  ASSUME Typed, NEW x \in Nat, NEW y \in Nat, NEW A \in Below(x, y), NEW i \in Nat,
         \A j \in 1 .. i : x + j <= n /\ y + j <= m /\ file1[x + j] = file2[y + j]
  PROVE  \E B \in Below(x + i, y + i) : Cost(x + i, y + i, B) = Cost(x, y, A)
<1> DEFINE P == {j \in Nat : j <= i =>
                   \E B \in Below(x + j, y + j) : Cost(x + j, y + j, B) = Cost(x, y, A)}
<1>1. 0 \in P
  <2>1. x + 0 = x /\ y + 0 = y
    OBVIOUS
  <2> QED
    BY <2>1
<1>2. ASSUME NEW j \in Nat, j \in P
      PROVE  j + 1 \in P
  <2> SUFFICES ASSUME j + 1 <= i
               PROVE  \E B \in Below(x + (j + 1), y + (j + 1)) :
                        Cost(x + (j + 1), y + (j + 1), B) = Cost(x, y, A)
    OBVIOUS
  <2>1. PICK B \in Below(x + j, y + j) : Cost(x + j, y + j, B) = Cost(x, y, A)
    BY <1>2
  <2>2. PICK u, v : u = x + j /\ v = y + j
    OBVIOUS
  <2>3. u \in Nat /\ v \in Nat /\ u + 1 = x + (j + 1) /\ v + 1 = y + (j + 1)
    BY <2>2
  <2>4. u + 1 <= n /\ v + 1 <= m /\ file1[u + 1] = file2[v + 1]
    BY <2>3
  <2>5. \E C \in Below(u + 1, v + 1) : Cost(u + 1, v + 1, C) = Cost(u, v, B)
    BY <2>1, <2>2, <2>3, <2>4, Longer
  <2> QED
    BY <2>1, <2>2, <2>3, <2>5
<1>3. i \in P
  <2> HIDE DEF P
  <2> QED
    BY <1>1, <1>2, Induction
<1> QED
  BY <1>3

\* The last lines below a place are paired with each other, or one of them is
\* not paired.
LEMMA LastLines ==
  ASSUME Typed, NEW x \in Nat, NEW y \in Nat, NEW A \in Below(x, y), x > 0
  PROVE  \/ A \in Below(x - 1, y)
         \/ y > 0 /\ A \in Below(x, y - 1)
         \/ /\ x <= n /\ y > 0 /\ y <= m /\ file1[x] = file2[y]
            /\ \E B \in Below(x - 1, y - 1) : Cost(x - 1, y - 1, B) = Cost(x, y, A)
<1>1. n \in Nat /\ m \in Nat
  BY Sizes
<1>2. /\ \A q \in A : q \in (1 .. n) \X (1 .. m) /\ file1[q[1]] = file2[q[2]] /\ q[1] <= x /\ q[2] <= y
      /\ \A q, s \in A : q[1] < s[1] <=> q[2] < s[2]
      /\ A \in Alignments
  BY Aligned DEF Below
<1>3. CASE \A q \in A : q[1] # x
  <2>1. \A q \in A : q[1] <= x - 1 /\ q[2] <= y
    BY <1>1, <1>2, <1>3
  <2> QED
    BY <1>2, <2>1 DEF Below
<1>4. CASE y > 0 /\ \A q \in A : q[2] # y
  <2>1. \A q \in A : q[1] <= x /\ q[2] <= y - 1
    BY <1>1, <1>2, <1>4
  <2> QED
    BY <1>2, <1>4, <2>1 DEF Below
<1>5. ASSUME NEW p \in A, p[1] = x, NEW q \in A, q[2] = y
      PROVE  /\ x <= n /\ y > 0 /\ y <= m /\ file1[x] = file2[y]
             /\ \E B \in Below(x - 1, y - 1) : Cost(x - 1, y - 1, B) = Cost(x, y, A)
  <2>1. p[2] = y
    <3>1. p[1] < q[1] <=> p[2] < q[2]
      BY <1>2
    <3>2. p[2] \in Nat /\ p[2] <= y /\ q[1] \in Nat /\ q[1] <= x
      BY <1>1, <1>2
    <3> QED
      BY <1>5, <3>1, <3>2
  <2>2. p = <<x, y>> /\ x <= n /\ y > 0 /\ y <= m /\ file1[x] = file2[y]
    BY <1>1, <1>2, <1>5, <2>1
  <2>3. PICK B : B = A \ {p}
    OBVIOUS
  <2>4. \A s \in B : s[1] <= x - 1 /\ s[2] <= y - 1
    <3> SUFFICES ASSUME NEW s \in B
                 PROVE  s[1] <= x - 1 /\ s[2] <= y - 1
      OBVIOUS
    <3>1. s \in A /\ s # p /\ s \in (1 .. n) \X (1 .. m) /\ s[1] <= x /\ s[2] <= y
      BY <1>2, <2>3
    <3>2. (s[1] < p[1] <=> s[2] < p[2]) /\ (p[1] < s[1] <=> p[2] < s[2])
      BY <1>2, <3>1
    <3>3. s[1] # x \/ s[2] # y
      BY <1>1, <2>2, <3>1
    <3>4. s[1] \in Nat /\ s[2] \in Nat
      BY <1>1, <3>1
    <3> QED
      BY <1>5, <2>1, <3>1, <3>2, <3>3, <3>4
  <2>5. B \in Alignments
    <3>1. B \subseteq A
      BY <2>3
    <3> QED
      BY <1>2, <3>1, Aligned
  <2>6. B \in Below(x - 1, y - 1)
    BY <2>4, <2>5 DEF Below
  <2>7. Cardinality(B) = Cardinality(A) - 1 /\ Cardinality(A) \in Nat
    BY <2>3, Few, FS_RemoveElement
  <2>8. x - 1 + (y - 1) - 2 * (Cardinality(A) - 1) = x + y - 2 * Cardinality(A)
    BY <2>7
  <2>9. Cost(x - 1, y - 1, B) = Cost(x, y, A)
    BY <2>7, <2>8 DEF Cost
  <2> QED
    BY <2>2, <2>6, <2>9
<1>6. CASE y = 0
  <2>1. A = {}
    BY <1>1, <1>2, <1>6
  <2> QED
    BY <1>2, <2>1 DEF Below
<1> QED
  BY <1>3, <1>4, <1>5, <1>6

\* At least as many lines are left over as one side has more than the other.
LEMMA LeftOver ==
  ASSUME Typed, NEW x \in Nat, NEW y \in Nat, NEW A \in Below(x, y)
  PROVE  Cost(x, y, A) \in Nat /\ Cost(x, y, A) >= x - y /\ Cost(x, y, A) >= y - x
<1>1. PICK a : a = Cardinality(A)
  OBVIOUS
<1>2. a \in Nat /\ a <= x /\ a <= y
  BY <1>1, Few
<1>3. Cost(x, y, A) = x + y - 2 * a
  BY <1>1 DEF Cost
<1> QED
  BY <1>2, <1>3

\* A place is on a diagonal of the round of its cost.
LEMMA Parity ==
  ASSUME Typed, NEW x \in Nat, NEW y \in Nat, NEW A \in Below(x, y), NEW r \in Nat,
         Cost(x, y, A) = r
  PROVE  max + x - y \in Diagonals(r)
<1>1. PICK a, z : a = Cardinality(A) /\ z = max
  OBVIOUS
<1>2. a \in Nat /\ a <= x /\ a <= y /\ z \in Nat
  BY <1>1, Few, Sizes
<1>3. r = x + y - 2 * a
  BY <1>1 DEF Cost
<1>4. x - a \in 0 .. r /\ z + x - y = z - r + 2 * (x - a)
  BY <1>2, <1>3
<1> QED
  BY <1>1, <1>4 DEF Diagonals

-----------------------------------------------------------------------------
(***************************************************************************)
(* A round.                                                                *)
(***************************************************************************)
\* The diagonals of a round, and those beside them that the round before it has
\* reached.
LEMMA Beside ==
  ASSUME Typed, NEW r \in 0 .. max, NEW i \in Diagonals(r)
  PROVE  /\ i \in Int /\ i \in Reach(r) /\ i \in Places
         /\ i # max + r \/ r = 0 => i + 1 \in Places
         /\ i # max - r => i - 1 \in Places /\ i - 1 \in Reach(r - 1)
         /\ i # max + r => i + 1 \in Reach(r - 1)
         /\ i = max - r /\ r > 0 => i # max + r
         /\ i + 1 \notin Diagonals(r) /\ i - 1 \notin Diagonals(r)
<1>1. PICK z : z = max
  OBVIOUS
<1>2. z \in Nat /\ z > 0 /\ r \in 0 .. z
  BY <1>1, Sizes
<1>3. PICK j \in 0 .. r : i = z - r + 2 * j
  BY <1>1 DEF Diagonals
<1>4. /\ i \in Int /\ i \in z - r .. z + r /\ i \in 0 .. 2 * z
      /\ i # z + r \/ r = 0 => i + 1 \in 0 .. 2 * z
      /\ i # z - r => i - 1 \in 0 .. 2 * z /\ i - 1 \in z - (r - 1) .. z + (r - 1)
      /\ i # z + r => i + 1 \in z - (r - 1) .. z + (r - 1)
      /\ i = z - r /\ r > 0 => i # z + r
  BY <1>2, <1>3
<1>5. \A u \in 0 .. r : i + 1 # z - r + 2 * u /\ i - 1 # z - r + 2 * u
  BY <1>2, <1>3
<1> QED
  BY <1>1, <1>4, <1>5 DEF Diagonals, Reach, Places

\* Where a round goes on from is reached.
LEMMA Onward ==
  ASSUME Typed, NEW r \in 0 .. max, NEW Q \in Rows, NEW i \in Diagonals(r),
         IF r = 0 THEN Q = [j \in Places |-> 0] ELSE Sound(Q, r - 1)
  PROVE  Led(From(Q, r, i), From(Q, r, i) + max - i, r)
<1>1. max \in Nat /\ max > 0
  BY Sizes
<1>2. PICK f, z : f = From(Q, r, i) /\ z = max
  OBVIOUS
<1>3. CASE r = 0
  <2>1. i = z /\ Down(Q, r, i) /\ i + 1 \in Places
    BY <1>1, <1>2, <1>3, Beside DEF Diagonals, Down, Reach
  <2>2. f = 0
    BY <1>2, <1>3, <2>1 DEF From
  <2>3. f + z - i = 0 /\ 0 \in Nat /\ 0 <= n /\ 0 <= m
    BY <1>1, <1>2, <2>1, <2>2, Sizes
  <2>4. {} \in Below(0, 0)
    BY Aligned DEF Below
  <2>5. Cost(0, 0, {}) = 0
    BY FS_EmptySet DEF Cost
  <2>6. Led(0, 0, 0)
    BY <2>4, <2>5 DEF Led
  <2> QED
    BY <1>2, <1>3, <2>2, <2>3, <2>6
<1>4. ASSUME r # 0, NEW e \in {-1, 1}, i + e \in Reach(r - 1),
             f = IF e = 1 THEN Q[i + 1] ELSE Q[i - 1] + 1
      PROVE  Led(f, f + z - i, r)
  <2>0. i + (-1) = i - 1 /\ i \in Int /\ z \in Nat /\ r \in Nat
    BY <1>1, <1>2, Beside
  <2>1. PICK x, y : x = Q[i + e] /\ y = x + z - (i + e)
    OBVIOUS
  <2>2. Led(x, y, r - 1)
    BY <1>2, <1>4, <2>1 DEF Sound
  <2>3. PICK A \in Below(x, y) : Cost(x, y, A) <= r - 1
    BY <2>2 DEF Led
  <2>4. x \in Nat /\ y \in Nat
    BY <2>2 DEF Led
  <2>5. PICK a \in Nat : a = Cardinality(A)
    BY <2>3, <2>4, Few
  <2>6. x + y - 2 * a <= r - 1
    BY <2>3, <2>5 DEF Cost
  <2>7. /\ e = 1 => f = x /\ f + z - i = y + 1
        /\ e = -1 => f = x + 1 /\ f + z - i = y
    BY <1>4, <2>0, <2>1, <2>4
  <2>8. f \in Nat /\ f + z - i \in Nat /\ x <= f /\ y <= f + z - i /\ f + (f + z - i) = x + y + 1
    BY <1>4, <2>4, <2>7
  <2>9. A \in Below(f, f + z - i)
    <3>1. A \in Alignments /\ \A p \in A : p[1] <= x /\ p[2] <= y /\ p[1] \in Nat /\ p[2] \in Nat
      BY <2>3, Aligned, Sizes DEF Below
    <3>2. \A p \in A : p[1] <= f /\ p[2] <= f + z - i
      BY <2>4, <2>8, <3>1
    <3> QED
      BY <3>1, <3>2 DEF Below
  <2>10. Cost(f, f + z - i, A) <= r
    <3>1. f + (f + z - i) - 2 * a <= r
      BY <2>0, <2>4, <2>6, <2>8
    <3> QED
      BY <2>5, <3>1 DEF Cost
  <2> QED
    BY <2>8, <2>9, <2>10 DEF Led
<1>5. CASE r # 0
  <2>0. i \in Int /\ i + (-1) = i - 1 /\ r > 0
    BY <1>1, <1>5, Beside
  <2>1. CASE Down(Q, r, i)
    <3>1. i # max + r
      BY <2>0, <2>1, Beside DEF Down
    <3>2. i + 1 \in Reach(r - 1)
      BY <3>1, Beside
    <3>3. f = Q[i + 1]
      BY <1>2, <2>1 DEF From
    <3> QED
      BY <1>2, <1>4, <1>5, <3>2, <3>3
  <2>2. CASE ~Down(Q, r, i)
    <3>1. i # max - r
      BY <2>2 DEF Down
    <3>2. i + (-1) \in Reach(r - 1)
      BY <2>0, <3>1, Beside
    <3>3. f = Q[i - 1] + 1
      BY <1>2, <2>2 DEF From
    <3> QED
      BY <1>2, <1>4, <1>5, <3>2, <3>3
  <2> QED
    BY <2>1, <2>2
<1> QED
  BY <1>2, <1>3, <1>5

\* What a round makes of a diagonal is reached by a path along equal lines.
LEMMA FarSlides ==
  ASSUME Typed, NEW r \in 0 .. max, NEW Q \in Rows, NEW i \in Diagonals(r),
         Led(From(Q, r, i), From(Q, r, i) + max - i, r)
  PROVE  \E f, y, u \in Nat :
           /\ f = From(Q, r, i) /\ y = f + max - i /\ Far(Q, r, i) = f + u
           /\ Far(Q, r, i) + max - i = y + u
           /\ \A j \in 1 .. u : f + j <= n /\ y + j <= m /\ file1[f + j] = file2[y + j]
           /\ ~(f + u + 1 <= n /\ y + u + 1 <= m /\ file1[f + u + 1] = file2[y + u + 1])
<1>1. max \in Nat /\ i \in Int
  BY Sizes, Beside
<1>2. PICK f, y : f = From(Q, r, i) /\ y = f + max - i
  OBVIOUS
<1>3. f \in Nat /\ y \in Nat
  BY <1>2 DEF Led
<1>4. Far(Q, r, i) = Slid(f, y)
  BY <1>2 DEF Far
<1>5. PICK u \in Nat :
        /\ Slid(f, y) = f + u
        /\ \A j \in 1 .. u : f + j <= n /\ y + j <= m /\ file1[f + j] = file2[y + j]
        /\ ~(f + u + 1 <= n /\ y + u + 1 <= m /\ file1[f + u + 1] = file2[y + u + 1])
  BY <1>3, Slides
<1>6. f + u + max - i = y + u
  BY <1>1, <1>2, <1>3
<1>7. Far(Q, r, i) = f + u
  BY <1>4, <1>5
<1>8. Far(Q, r, i) + max - i = y + u
  BY <1>6, <1>7
<1> QED
  BY <1>2, <1>3, <1>5, <1>7, <1>8, Zenon

\* What a round makes of a diagonal is reached with the lines it may change.
LEMMA FarLed ==
  ASSUME Typed, NEW r \in 0 .. max, NEW Q \in Rows, NEW i \in Diagonals(r),
         Led(From(Q, r, i), From(Q, r, i) + max - i, r)
  PROVE  Led(Far(Q, r, i), Far(Q, r, i) + max - i, r)
<1>1. PICK f \in Nat, y \in Nat, u \in Nat :
        /\ f = From(Q, r, i) /\ y = f + max - i /\ Far(Q, r, i) = f + u
        /\ Far(Q, r, i) + max - i = y + u
        /\ \A j \in 1 .. u : f + j <= n /\ y + j <= m /\ file1[f + j] = file2[y + j]
  BY FarSlides
<1>2. PICK A \in Below(f, y) : Cost(f, y, A) <= r
  BY <1>1 DEF Led
<1>3. PICK B \in Below(f + u, y + u) : Cost(f + u, y + u, B) = Cost(f, y, A)
  BY <1>1, <1>2, LongerBy
<1>4. Led(f + u, y + u, r)
  BY <1>2, <1>3 DEF Led
<1> QED
  BY <1>1, <1>4

\* It goes on from the better of the two diagonals beside it.
LEMMA Better ==
  ASSUME Typed, NEW r \in 0 .. max, NEW Q \in Rows, NEW i \in Diagonals(r)
  PROVE  /\ i - 1 \in Reach(r - 1) => Q[i - 1] + 1 <= From(Q, r, i) /\ Q[i - 1] \in Int
         /\ i + 1 \in Reach(r - 1) => Q[i + 1] <= From(Q, r, i) /\ Q[i + 1] \in Int
<1>1. PICK z : z = max
  OBVIOUS
<1>2. z \in Nat /\ r \in Nat /\ i \in Int
  BY <1>1, Sizes, Beside
<1>3. \A j \in Reach(r - 1) : j \in z - (r - 1) .. z + (r - 1) /\ j \in Places /\ Q[j] \in Int
  BY <1>1, <1>2 DEF Reach, Places, Rows
<1>4. ASSUME i - 1 \in Reach(r - 1)
      PROVE  Q[i - 1] + 1 <= From(Q, r, i)
  <2>1. i # z - r /\ Q[i - 1] \in Int
    BY <1>2, <1>3, <1>4
  <2>2. CASE Down(Q, r, i)
    <3>1. Q[i - 1] < Q[i + 1] /\ i # max + r
      BY <1>1, <2>1, <2>2 DEF Down
    <3>2. Q[i + 1] \in Int
      BY <1>3, <3>1, Beside
    <3>3. From(Q, r, i) = Q[i + 1]
      BY <2>2 DEF From
    <3> QED
      BY <2>1, <3>1, <3>2, <3>3
  <2>3. CASE ~Down(Q, r, i)
    BY <2>1, <2>3 DEF From
  <2> QED
    BY <2>2, <2>3
<1>5. ASSUME i + 1 \in Reach(r - 1)
      PROVE  Q[i + 1] <= From(Q, r, i)
  <2>1. i # z + r /\ Q[i + 1] \in Int
    BY <1>2, <1>3, <1>5
  <2>2. CASE Down(Q, r, i)
    BY <2>1, <2>2 DEF From
  <2>3. CASE ~Down(Q, r, i)
    <3>1. ~(Q[i - 1] < Q[i + 1]) /\ i # max - r
      BY <1>1, <2>1, <2>3 DEF Down
    <3>2. Q[i - 1] \in Int
      BY <1>3, <3>1, Beside
    <3>3. From(Q, r, i) = Q[i - 1] + 1
      BY <2>3 DEF From
    <3> QED
      BY <2>1, <3>1, <3>2, <3>3
  <2> QED
    BY <2>2, <2>3
<1> QED
  BY <1>3, <1>4, <1>5

\* No script with as many changed lines gets further on a diagonal: it ends with
\* a changed line, and did not get further before it, or with an equal line.
LEMMA FarFurthest ==
  ASSUME Typed, NEW r \in 0 .. max, NEW Q \in Rows, NEW i \in Diagonals(r),
         Led(From(Q, r, i), From(Q, r, i) + max - i, r), r > 0 => Furthest(Q, r - 1),
         NEW x \in 0 .. n, NEW y \in 0 .. m, i = max + x - y,
         NEW A \in Below(x, y), Cost(x, y, A) <= r
  PROVE  x <= Far(Q, r, i)
<1>0. PICK z : z = max
  OBVIOUS
<1>1. n \in Nat /\ m \in Nat /\ z \in Nat /\ r \in Nat /\ i \in Int
  BY <1>0, Sizes, Beside
<1>2. PICK f \in Nat, w \in Nat, u \in Nat :
        /\ f = From(Q, r, i) /\ w = f + z - i /\ Far(Q, r, i) = f + u
        /\ ~(f + u + 1 <= n /\ w + u + 1 <= m /\ file1[f + u + 1] = file2[w + u + 1])
  BY <1>0, FarSlides
<1> DEFINE P == {a \in Nat : a <= n =>
                   \A b \in 0 .. m : i = z + a - b =>
                     \A B \in Below(a, b) : Cost(a, b, B) <= r => a <= f + u}
<1>3. 0 \in P
  BY <1>2
<1>4. ASSUME NEW a \in Nat, a \in P
      PROVE  a + 1 \in P
  <2> SUFFICES ASSUME a + 1 <= n, NEW b \in 0 .. m, i = z + (a + 1) - b,
                      NEW B \in Below(a + 1, b), Cost(a + 1, b, B) <= r
               PROVE  a + 1 <= f + u
    OBVIOUS
  <2>1. b \in Nat /\ a + 1 \in Nat /\ a + 1 > 0 /\ a + 1 - 1 = a
    BY <1>1
  <2>2. PICK c \in Nat : c = Cardinality(B)
    BY <2>1, Few
  <2>3. a + 1 + b - 2 * c <= r /\ a + 1 + b - 2 * c \in Nat
    BY <2>1, <2>2, LeftOver DEF Cost
  <2>4. CASE B \in Below(a, b)
    <3>1. a + b - 2 * c <= r - 1 /\ r > 0
      <4>1. a + b - 2 * c >= 0
        BY <2>1, <2>2, <2>4, LeftOver DEF Cost
      <4> QED
        BY <1>1, <2>1, <2>3, <4>1
    <3>2. Cost(a, b, B) <= r - 1
      BY <2>2, <3>1 DEF Cost
    <3>3. a \in 0 .. n
      BY <1>1
    <3>4. z + a - b \in Reach(r - 1) /\ a <= Q[z + a - b]
      BY <1>0, <2>4, <3>1, <3>2, <3>3 DEF Furthest
    <3>5. z + a - b = i - 1
      BY <1>1, <2>1
    <3>6. i - 1 \in Reach(r - 1) /\ a <= Q[i - 1]
      BY <3>4, <3>5
    <3>7. Q[i - 1] + 1 <= f /\ Q[i - 1] \in Int
      BY <1>2, <3>6, Better
    <3> QED
      BY <1>2, <3>6, <3>7
  <2>5. CASE b > 0 /\ B \in Below(a + 1, b - 1)
    <3>1. a + 1 + (b - 1) - 2 * c <= r - 1 /\ r > 0
      <4>1. b - 1 \in Nat
        BY <2>1, <2>5
      <4>2. a + 1 + (b - 1) - 2 * c >= 0
        BY <2>1, <2>2, <2>5, <4>1, LeftOver DEF Cost
      <4> QED
        BY <1>1, <2>1, <2>3, <4>2
    <3>2. Cost(a + 1, b - 1, B) <= r - 1
      BY <2>2, <3>1 DEF Cost
    <3>3. a + 1 \in 0 .. n /\ b - 1 \in 0 .. m
      BY <1>1, <2>5
    <3>4. z + (a + 1) - (b - 1) \in Reach(r - 1) /\ a + 1 <= Q[z + (a + 1) - (b - 1)]
      BY <1>0, <2>5, <3>1, <3>2, <3>3 DEF Furthest
    <3>5. z + (a + 1) - (b - 1) = i + 1
      BY <1>1, <2>1
    <3>6. i + 1 \in Reach(r - 1) /\ a + 1 <= Q[i + 1]
      BY <3>4, <3>5
    <3>7. Q[i + 1] <= f /\ Q[i + 1] \in Int
      BY <1>2, <3>6, Better
    <3> QED
      BY <1>2, <3>6, <3>7
  <2>6. ASSUME b > 0, file1[a + 1] = file2[b], NEW C \in Below(a, b - 1),
               Cost(a, b - 1, C) = Cost(a + 1, b, B)
        PROVE  a + 1 <= f + u
    <3>1. b - 1 \in 0 .. m /\ i = z + a - (b - 1) /\ a <= n
      BY <1>1, <2>1, <2>6
    <3>2. Cost(a, b - 1, C) <= r
      BY <2>6
    <3>3. a <= f + u
      BY <1>4, <2>6, <3>1, <3>2
    <3> SUFFICES ASSUME ~(a + 1 <= f + u)
                 PROVE  FALSE
      OBVIOUS
    <3>4. a + 1 = f + u + 1
      BY <1>2, <3>3
    <3>5. b = w + u + 1
      <4>1. w = f + z - i /\ i = z + (a + 1) - b
        BY <1>2
      <4> QED
        BY <1>1, <2>1, <3>4, <4>1
    <3>6. f + u + 1 <= n /\ w + u + 1 <= m /\ file1[f + u + 1] = file2[w + u + 1]
      BY <1>1, <2>6, <3>4, <3>5
    <3> QED
      BY <1>2, <3>6
  <2>7. \/ B \in Below(a + 1 - 1, b)
        \/ b > 0 /\ B \in Below(a + 1, b - 1)
        \/ /\ a + 1 <= n /\ b > 0 /\ b <= m /\ file1[a + 1] = file2[b]
           /\ \E C \in Below(a + 1 - 1, b - 1) : Cost(a + 1 - 1, b - 1, C) = Cost(a + 1, b, B)
    BY <2>1, LastLines
  <2> QED
    BY <2>1, <2>4, <2>5, <2>6, <2>7
<1>5. x \in P
  <2> HIDE DEF P
  <2> QED
    BY <1>1, <1>3, <1>4, Induction
<1>6. x <= n /\ i = z + x - y
  BY <1>0, <1>1
<1> QED
  BY <1>2, <1>5, <1>6

\* What a complete round leaves is reached, no script with as many changed lines
\* gets further, and no file is used up.
LEMMA RoundDone ==
  ASSUME Typed, NEW r \in 0 .. max, NEW Q \in Rows, NEW R \in Rows,
         IF r = 0 THEN Q = [j \in Places |-> 0]
         ELSE Sound(Q, r - 1) /\ Furthest(Q, r - 1) /\ Open(Q, r - 1),
         Partly(R, Q, r, max + r + 1), \A i \in Diagonals(r) : ~Ends(R, i)
  PROVE  Sound(R, r) /\ Furthest(R, r) /\ Open(R, r)
<1>0. PICK z : z = max
  OBVIOUS
<1>1. n \in Nat /\ m \in Nat /\ z \in Nat /\ r \in Nat /\ r <= z
  BY <1>0, Sizes
<1>2. \A i \in Diagonals(r) :
        /\ Led(From(Q, r, i), From(Q, r, i) + max - i, r)
        /\ R[i] = Far(Q, r, i) /\ i \in Reach(r) /\ i \in Int
  <2> SUFFICES ASSUME NEW i \in Diagonals(r)
               PROVE  /\ Led(From(Q, r, i), From(Q, r, i) + max - i, r)
                      /\ R[i] = Far(Q, r, i) /\ i \in Reach(r) /\ i \in Int
    OBVIOUS
  <2>1. i \in Int /\ i \in Reach(r) /\ i \in Places
    BY Beside
  <2>2. i < z + r + 1
    BY <1>0, <1>1, <2>1 DEF Reach
  <2>3. R[i] = Far(Q, r, i)
    BY <1>0, <2>1, <2>2 DEF Partly
  <2>4. Led(From(Q, r, i), From(Q, r, i) + max - i, r)
    BY Onward
  <2> QED
    BY <2>1, <2>3, <2>4
<1>3. ASSUME NEW i \in Reach(r), i \notin Diagonals(r)
      PROVE  r > 0 /\ i \in Reach(r - 1) /\ R[i] = Q[i] /\ i \in Int
  <2>1. i \in z - r .. z + r /\ i \in Int
    BY <1>0, <1>1 DEF Reach
  <2>2. \A j \in 0 .. r : i # z - r + 2 * j
    BY <1>0, <1>3 DEF Diagonals
  <2>3. i # z - r + 2 * 0 /\ i # z - r + 2 * r
    BY <1>1, <2>2
  <2>4. i \in z - (r - 1) .. z + (r - 1) /\ r > 0
    BY <1>1, <2>1, <2>3
  <2>5. i \in 0 .. 2 * z
    BY <1>1, <2>1
  <2>6. R[i] = Q[i]
    BY <1>0, <1>3, <2>5 DEF Partly, Places
  <2> QED
    BY <1>0, <2>1, <2>4, <2>6 DEF Reach
<1>4. Sound(R, r)
  <2> SUFFICES ASSUME NEW i \in Reach(r)
               PROVE  Led(R[i], R[i] + max - i, r)
    BY DEF Sound
  <2>1. CASE i \in Diagonals(r)
    <3>1. Led(Far(Q, r, i), Far(Q, r, i) + max - i, r)
      BY <1>2, <2>1, FarLed
    <3> QED
      BY <1>2, <2>1, <3>1
  <2>2. CASE i \notin Diagonals(r)
    <3>1. r > 0 /\ i \in Reach(r - 1) /\ R[i] = Q[i]
      BY <1>3, <2>2
    <3>2. Sound(Q, r - 1)
      BY <3>1
    <3>3. Led(Q[i], Q[i] + max - i, r - 1)
      BY <3>1, <3>2 DEF Sound
    <3>4. PICK x, y : x = R[i] /\ y = R[i] + max - i
      OBVIOUS
    <3>5. Led(x, y, r - 1)
      BY <3>1, <3>3, <3>4
    <3>6. PICK A \in Below(x, y) : x \in Nat /\ y \in Nat /\ Cost(x, y, A) <= r - 1
      BY <3>5 DEF Led
    <3>7. Cost(x, y, A) \in Nat
      BY <3>6, LeftOver
    <3>8. Cost(x, y, A) <= r
      BY <1>1, <3>6, <3>7
    <3>9. Led(x, y, r)
      BY <3>6, <3>8 DEF Led
    <3> QED
      BY <3>4, <3>9
  <2> QED
    BY <2>1, <2>2
<1>5. Furthest(R, r)
  <2> SUFFICES ASSUME NEW x \in 0 .. n, NEW y \in 0 .. m, NEW A \in Below(x, y),
                      Cost(x, y, A) <= r
               PROVE  max + x - y \in Reach(r) /\ x <= R[max + x - y]
    BY DEF Furthest
  <2>1. PICK i : i = max + x - y
    OBVIOUS
  <2>2. x \in Nat /\ y \in Nat
    BY <1>1
  <2>3. CASE i \in Diagonals(r)
    <3>1. r > 0 => Furthest(Q, r - 1)
      BY <1>1
    <3>2. x <= Far(Q, r, i)
      BY <1>2, <2>1, <2>3, <3>1, FarFurthest
    <3> QED
      BY <1>2, <2>1, <2>3, <3>2
  <2>4. CASE i \notin Diagonals(r)
    <3>1. Cost(x, y, A) # r
      BY <1>1, <2>1, <2>2, <2>4, Parity
    <3>2. Cost(x, y, A) \in Nat
      BY <2>2, LeftOver
    <3>3. Cost(x, y, A) <= r - 1 /\ r > 0
      BY <1>1, <3>1, <3>2
    <3>4. i \in Reach(r - 1) /\ x <= Q[i]
      BY <2>1, <3>3 DEF Furthest
    <3>5. i \in Reach(r)
      <4>1. i \in z - (r - 1) .. z + (r - 1)
        BY <1>0, <3>4 DEF Reach
      <4>2. i \in z - r .. z + r
        BY <1>1, <4>1
      <4> QED
        BY <1>0, <4>2 DEF Reach
    <3>6. R[i] = Q[i]
      BY <1>3, <2>4, <3>5
    <3> QED
      BY <2>1, <3>4, <3>5, <3>6
  <2> QED
    BY <2>3, <2>4
<1>6. Open(R, r)
  <2> SUFFICES ASSUME NEW i \in Reach(r)
               PROVE  ~Ends(R, i)
    BY DEF Open
  <2>1. CASE i \notin Diagonals(r)
    <3>1. r > 0 /\ i \in Reach(r - 1) /\ R[i] = Q[i]
      BY <1>3, <2>1
    <3>2. Open(Q, r - 1)
      BY <3>1
    <3>3. ~Ends(Q, i)
      BY <3>1, <3>2 DEF Open
    <3> QED
      BY <3>1, <3>3 DEF Ends
  <2> QED
    BY <2>1
<1> QED
  BY <1>4, <1>5, <1>6

\* When a round begins, no alignment leaves fewer lines over than it changes.
LEMMA Fewest ==
  ASSUME Typed, NEW r \in 0 .. max, NEW Q \in Rows,
         r > 0 => Furthest(Q, r - 1) /\ Open(Q, r - 1), NEW A \in Alignments
  PROVE  max - 2 * Cardinality(A) >= r /\ Cardinality(A) \in Nat
<1>0. PICK z : z = max
  OBVIOUS
<1>1. n \in Nat /\ m \in Nat /\ z = n + m /\ z \in Nat /\ r \in Nat
  BY <1>0, Sizes
<1>2. A \in Below(n, m)
  BY <1>1, AllBelow
<1>3. PICK a \in Nat : a = Cardinality(A)
  BY <1>1, <1>2, Few
<1>4. Cost(n, m, A) = z - 2 * a /\ z - 2 * a \in Nat
  <2>1. Cost(n, m, A) = n + m - 2 * a /\ Cost(n, m, A) \in Nat
    BY <1>1, <1>2, <1>3, LeftOver DEF Cost
  <2> QED
    BY <1>1, <2>1
<1>5. ASSUME z - 2 * a <= r - 1
      PROVE  FALSE
  <2>1. r > 0
    BY <1>1, <1>4, <1>5
  <2>2. n \in 0 .. n /\ m \in 0 .. m
    BY <1>1
  <2>3. max + n - m \in Reach(r - 1) /\ n <= Q[max + n - m]
    BY <1>2, <1>4, <1>5, <2>1, <2>2 DEF Furthest
  <2>4. PICK i : i = z + n - m
    OBVIOUS
  <2>5. i \in Reach(r - 1) /\ n <= Q[i] /\ i \in Int
    BY <1>0, <1>1, <2>3, <2>4
  <2>6. Q[i] \in Int
    <3>1. i \in z - (r - 1) .. z + (r - 1)
      BY <1>0, <2>5 DEF Reach
    <3>2. i \in 0 .. 2 * z
      BY <1>0, <1>1, <3>1
    <3> QED
      BY <1>0, <3>2 DEF Rows, Places
  <2>7. Q[i] + z - i >= m
    BY <1>1, <2>4, <2>5, <2>6
  <2>8. Ends(Q, i)
    BY <1>0, <2>5, <2>6, <2>7 DEF Ends
  <2> QED
    BY <2>1, <2>5, <2>8 DEF Open
<1>6. z - 2 * a >= r
  BY <1>1, <1>4, <1>5
<1> QED
  BY <1>0, <1>3, <1>6

\* A diagonal of it on which both files are used up is at their ends.
LEMMA Ended ==
  ASSUME Typed, NEW r \in 0 .. max, NEW Q \in Rows,
         r > 0 => Furthest(Q, r - 1) /\ Open(Q, r - 1),
         NEW x, NEW y, Led(x, y, r), x >= n, y >= m
  PROVE  x = n /\ y = m
<1>1. n \in Nat /\ m \in Nat /\ max = n + m /\ x \in Nat /\ y \in Nat /\ r \in Nat
  BY Sizes DEF Led
<1>2. PICK A \in Below(x, y) : Cost(x, y, A) <= r
  BY DEF Led
<1>3. A \in Alignments
  BY <1>2 DEF Below
<1>4. PICK a \in Nat : a = Cardinality(A) /\ max - 2 * a >= r
  BY <1>3, Fewest
<1>5. x + y - 2 * a <= r
  BY <1>2, <1>4 DEF Cost
<1>6. n + m - 2 * a >= r
  BY <1>1, <1>4
<1> QED
  BY <1>1, <1>5, <1>6

-----------------------------------------------------------------------------
(***************************************************************************)
(* The lines of a script with some of the signs.                           *)
(***************************************************************************)
Chosen(sign, S, t) == IF sign \in S THEN t ELSE <<>>
Picked(f, s, S) ==
  /\ f[0] = <<>>
  /\ \A i \in 1 .. Len(s) : f[i] = IF s[i][1] \in S THEN Append(f[i - 1], s[i][2]) ELSE f[i - 1]
PickedAs(f, s, S) ==
  f = [i \in 0 .. Len(s) |->
         IF i = 0 THEN <<>>
         ELSE IF s[i][1] \in S THEN Append(f[i - 1], s[i][2]) ELSE f[i - 1]]

\* They are picked one after the other.
LEMMA Picks ==
  ASSUME NEW s \in Script, NEW S
  PROVE  \E f \in [0 .. Len(s) -> Seq(Line)] : Picked(f, s, S) /\ With(s, S) = f[Len(s)]
<1>1. PICK N \in Nat : N = Len(s)
  BY LenProperties DEF Script
<1>2. \A i \in 1 .. N : s[i][2] \in Line
  <2>1. \A i \in 1 .. N : s[i] \in Entry
    BY <1>1, ElementOfSeq DEF Script
  <2> QED
    BY <2>1 DEF Entry
<1>3. PICK h : h = [p \in Seq(Line) \X (1 .. N) |->
                     IF s[p[2]][1] \in S THEN Append(p[1], s[p[2]][2]) ELSE p[1]]
  OBVIOUS
<1>4. h \in [Seq(Line) \X (1 .. N) -> Seq(Line)]
  <2> SUFFICES ASSUME NEW t \in Seq(Line), NEW i \in 1 .. N
               PROVE  (IF s[i][1] \in S THEN Append(t, s[i][2]) ELSE t) \in Seq(Line)
    BY <1>3
  <2>1. s[i][2] \in Line
    BY <1>2
  <2> QED
    BY <2>1, AppendProperties
<1>5. <<>> \in Seq(Line)
  OBVIOUS
<1>6. PICK f \in [0 .. N -> Seq(Line)] : f[0] = <<>> /\ \A i \in 1 .. N : f[i] = h[<<f[i - 1], i>>]
  <2>1. PICK V, b : V = Seq(Line) /\ b = <<>>
    OBVIOUS
  <2>2. b \in V /\ h \in [V \X (1 .. N) -> V]
    BY <1>4, <1>5, <2>1
  <2>3. \E f \in [0 .. N -> V] : Recursive(f, b, h, N)
    BY <2>2, Recursion
  <2> QED
    BY <2>1, <2>3 DEF Recursive
<1>7. \A i \in 1 .. N : f[i] = IF s[i][1] \in S THEN Append(f[i - 1], s[i][2]) ELSE f[i - 1]
  <2> SUFFICES ASSUME NEW i \in 1 .. N
               PROVE  f[i] = IF s[i][1] \in S THEN Append(f[i - 1], s[i][2]) ELSE f[i - 1]
    OBVIOUS
  <2>1. i - 1 \in 0 .. N
    OBVIOUS
  <2>2. <<f[i - 1], i>> \in Seq(Line) \X (1 .. N)
    BY <1>6, <2>1
  <2> QED
    BY <1>3, <1>6, <2>2
<1>8. PickedAs(f, s, S)
  <2>1. \A i \in 0 .. N : i # 0 => i \in 1 .. N
    OBVIOUS
  <2> QED
    BY <1>1, <1>6, <1>7, <2>1 DEF PickedAs
<1>9. \E g : PickedAs(g, s, S) /\ With(s, S) = g[Len(s)]
  BY <1>8, Zenon DEF With, PickedAs
<1>10. PICK g : PickedAs(g, s, S) /\ With(s, S) = g[Len(s)]
  BY <1>9
<1>11. g[0] = <<>> /\ \A i \in 1 .. N : g[i] = IF s[i][1] \in S THEN Append(g[i - 1], s[i][2]) ELSE g[i - 1]
  <2>1. \A i \in 1 .. N : i \in 0 .. N /\ i # 0
    OBVIOUS
  <2>2. 0 \in 0 .. N
    OBVIOUS
  <2> QED
    BY <1>1, <1>10, <2>1, <2>2 DEF PickedAs
<1>12. \A i \in 1 .. N : f[i - 1] = g[i - 1] => f[i] = g[i]
  BY <1>7, <1>11
<1>13. f[0] = g[0]
  BY <1>6, <1>11
<1>14. f[N] = g[N]
  BY <1>12, <1>13, SameRecursion
<1> QED
  BY <1>1, <1>6, <1>7, <1>10, <1>14 DEF Picked

\* They are lines.
LEMMA WithLines ==
  ASSUME NEW s \in Script, NEW S
  PROVE  With(s, S) \in Seq(Line)
<1>1. PICK f \in [0 .. Len(s) -> Seq(Line)] : With(s, S) = f[Len(s)]
  BY Picks
<1>2. Len(s) \in 0 .. Len(s)
  BY LenProperties DEF Script
<1> QED
  BY <1>1, <1>2

\* An empty script has none.
LEMMA WithNone ==
  ASSUME NEW S
  PROVE  With(<<>>, S) = <<>> /\ <<>> \in Script
<1>1. <<>> \in Script /\ Len(<<>>) = 0
  BY DEF Script
<1>2. PICK f : Picked(f, <<>>, S) /\ With(<<>>, S) = f[Len(<<>>)]
  BY <1>1, Picks
<1> QED
  BY <1>1, <1>2 DEF Picked

\* A line more is one more of them, if it has one of the signs.
LEMMA WithAppend ==
  ASSUME NEW s \in Script, NEW l \in Entry, NEW S
  PROVE  /\ Append(s, l) \in Script
         /\ With(Append(s, l), S) = IF l[1] \in S THEN Append(With(s, S), l[2]) ELSE With(s, S)
<1>1. PICK N \in Nat : N = Len(s)
  BY LenProperties DEF Script
<1>2. PICK t : t = Append(s, l)
  OBVIOUS
<1>3. t \in Script /\ Len(t) = N + 1 /\ t[N + 1] = l /\ \A i \in 1 .. N : t[i] = s[i]
  BY <1>1, <1>2, AppendProperties DEF Script
<1>4. PICK f \in [0 .. N -> Seq(Line)] : Picked(f, s, S) /\ With(s, S) = f[N]
  BY <1>1, Picks
<1>5. PICK g : Picked(g, t, S) /\ With(t, S) = g[N + 1]
  BY <1>3, Picks
<1>6. \A i \in 1 .. N : f[i - 1] = g[i - 1] => f[i] = g[i]
  <2>1. \A i \in 1 .. N : i \in 1 .. N + 1
    OBVIOUS
  <2> QED
    BY <1>1, <1>3, <1>4, <1>5, <2>1 DEF Picked
<1>7. f[0] = g[0]
  BY <1>4, <1>5 DEF Picked
<1>8. f[N] = g[N]
  BY <1>6, <1>7, SameRecursion
<1>9. g[N + 1] = IF l[1] \in S THEN Append(g[N], l[2]) ELSE g[N]
  <2>1. N + 1 \in 1 .. N + 1 /\ N + 1 - 1 = N
    OBVIOUS
  <2> QED
    BY <1>3, <1>5, <2>1 DEF Picked
<1> QED
  BY <1>2, <1>3, <1>4, <1>5, <1>8, <1>9

\* Those of two scripts one after the other.
LEMMA WithConcat ==
  ASSUME NEW s \in Script, NEW t \in Script, NEW S
  PROVE  s \o t \in Script /\ With(s \o t, S) = With(s, S) \o With(t, S)
<1> DEFINE P == {u \in Script : s \o u \in Script /\ With(s \o u, S) = With(s, S) \o With(u, S)}
<1>0. PICK e : e = <<>>
  OBVIOUS
<1>1. e \in P
  <2>1. With(e, S) = <<>> /\ e \in Script
    BY <1>0, WithNone
  <2>2. s \o e = s
    BY <1>0, ConcatEmptySeq DEF Script
  <2>3. With(s, S) \o e = With(s, S)
    <3>1. PICK v \in Seq(Line) : v = With(s, S)
      BY WithLines
    <3> QED
      BY <1>0, <3>1, ConcatEmptySeq
  <2> QED
    BY <1>0, <2>1, <2>2, <2>3
<1>2. ASSUME NEW u \in Script, NEW l \in Entry, u \in P
      PROVE  Append(u, l) \in P
  <2>1. PICK v : v = s \o u
    OBVIOUS
  <2>2. v \in Script /\ With(v, S) = With(s, S) \o With(u, S)
    BY <1>2, <2>1
  <2>3. s \o Append(u, l) = Append(v, l)
    <3>1. Append(u, l) = u \o <<l>> /\ Append(v, l) = v \o <<l>>
      BY <2>2, AppendIsConcat DEF Script
    <3>2. (s \o u) \o <<l>> = s \o (u \o <<l>>)
      <4>1. PICK o : o = <<l>>
        OBVIOUS
      <4>2. o \in Seq(Entry)
        BY <4>1
      <4>3. (s \o u) \o o = s \o (u \o o)
        BY <4>2, ConcatAssociative DEF Script
      <4> QED
        BY <4>1, <4>3
    <3> QED
      BY <2>1, <3>1, <3>2
  <2>4. /\ Append(v, l) \in Script /\ Append(u, l) \in Script
        /\ With(s, S) \in Seq(Line) /\ With(u, S) \in Seq(Line)
        /\ With(Append(v, l), S) = IF l[1] \in S THEN Append(With(v, S), l[2]) ELSE With(v, S)
        /\ With(Append(u, l), S) = IF l[1] \in S THEN Append(With(u, S), l[2]) ELSE With(u, S)
    <3>1. u \in Script
      BY <1>2
    <3>2. Append(v, l) \in Script /\ Append(u, l) \in Script
      BY <2>2, <3>1, WithAppend
    <3>3. With(s, S) \in Seq(Line) /\ With(u, S) \in Seq(Line)
      BY <3>1, WithLines
    <3>4. \A r \in Script :
            With(Append(r, l), S) = IF l[1] \in S THEN Append(With(r, S), l[2]) ELSE With(r, S)
      BY WithAppend
    <3>5. /\ With(Append(v, l), S) = IF l[1] \in S THEN Append(With(v, S), l[2]) ELSE With(v, S)
          /\ With(Append(u, l), S) = IF l[1] \in S THEN Append(With(u, S), l[2]) ELSE With(u, S)
      BY <2>2, <3>1, <3>4
    <3> QED
      BY <3>2, <3>3, <3>5, Zenon
  <2>5. With(Append(v, l), S) = With(s, S) \o With(Append(u, l), S)
    <3>1. PICK a \in Seq(Line), b \in Seq(Line) : a = With(s, S) /\ b = With(u, S)
      BY <2>4
    <3>2. l[2] \in Line
      BY DEF Entry
    <3>3. Append(a \o b, l[2]) = a \o Append(b, l[2])
      <4>1. PICK o : o = <<l[2]>>
        OBVIOUS
      <4>2. o \in Seq(Line)
        BY <3>2, <4>1
      <4>3. (a \o b) \o o = a \o (b \o o)
        BY <4>2, ConcatAssociative
      <4>4. a \o b \in Seq(Line)
        BY ConcatProperties
      <4>5. Append(a \o b, l[2]) = (a \o b) \o o /\ Append(b, l[2]) = b \o o
        BY <3>2, <4>1, <4>4, AppendIsConcat
      <4> QED
        BY <4>3, <4>5
    <3> QED
      BY <2>2, <2>4, <3>1, <3>3
  <2> QED
    BY <2>3, <2>4, <2>5
<1>3. t \in P
  <2>1. \A u \in Seq(Entry), l \in Entry : u \in P => Append(u, l) \in P
    BY <1>2 DEF Script
  <2> HIDE DEF P
  <2> QED
    BY <1>0, <1>1, <2>1, SeqInduction DEF Script
<1> QED
  BY <1>3

\* Those of one line.
LEMMA WithOne ==
  ASSUME NEW l \in Entry, NEW S
  PROVE  <<l>> \in Script /\ With(<<l>>, S) = Chosen(l[1], S, <<l[2]>>)
<1>1. PICK e : e = <<>>
  OBVIOUS
<1>2. e \in Script /\ With(e, S) = <<>>
  BY <1>1, WithNone
<1>3. Append(e, l) \in Script /\ With(Append(e, l), S) = IF l[1] \in S THEN Append(e, l[2]) ELSE e
  BY <1>1, <1>2, WithAppend
<1>4. Append(e, l) = <<l>> /\ Append(e, l[2]) = <<l[2]>>
  BY <1>1
<1> QED
  BY <1>1, <1>3, <1>4 DEF Chosen

\* Those of equal lines.
LEMMA WithSame ==
  ASSUME Typed, NEW x \in Nat, NEW u \in Nat, x + u <= n, NEW S
  PROVE  /\ Same(x, x + u) \in Script
         /\ With(Same(x, x + u), S) = Chosen(Blank, S, SubSeq(file1, x + 1, x + u))
<1>1. n = Len(file1) /\ file1 \in Seq(Line) /\ n \in Nat
  BY Sizes DEF Typed, n
<1> DEFINE Equal(j) == [i \in 1 .. j |-> <<Blank, file1[x + i]>>]
           P == {j \in Nat : x + j <= n =>
                   /\ Equal(j) \in Script
                   /\ With(Equal(j), S) = Chosen(Blank, S, SubSeq(file1, x + 1, x + j))}
<1>2. 0 \in P
  <2>1. Equal(0) = <<>>
    OBVIOUS
  <2>2. SubSeq(file1, x + 1, x + 0) = <<>>
    <3>1. x + 1 \in Int /\ x + 0 \in Int /\ x + 0 < x + 1
      OBVIOUS
    <3> QED
      BY <3>1, SubSeqEmpty
  <2> QED
    BY <2>1, <2>2, WithNone DEF Chosen
<1>3. ASSUME NEW j \in Nat, j \in P
      PROVE  j + 1 \in P
  <2> HIDE DEF Equal
  <2> SUFFICES ASSUME x + (j + 1) <= n
               PROVE  /\ Equal(j + 1) \in Script
                      /\ With(Equal(j + 1), S) = Chosen(Blank, S, SubSeq(file1, x + 1, x + (j + 1)))
    OBVIOUS
  <2>1. x + j <= n /\ x + j + 1 \in 1 .. n /\ x + 1 \in 1 .. n /\ x + (j + 1) = x + j + 1
    BY <1>1
  <2>2. PICK s, l : s = Equal(j) /\ l = <<Blank, file1[x + j + 1]>>
    OBVIOUS
  <2>3. s \in Script /\ With(s, S) = Chosen(Blank, S, SubSeq(file1, x + 1, x + j))
    BY <1>3, <2>1, <2>2
  <2>4. file1[x + j + 1] \in Line
    BY <1>1, <2>1, ElementOfSeq
  <2>5. l \in Entry /\ l[1] = Blank /\ l[2] = file1[x + j + 1]
    BY <2>2, <2>4 DEF Entry
  <2>6. Append(s, l) = Equal(j + 1)
    <3>1. s = [i \in 1 .. j |-> <<Blank, file1[x + i]>>]
      BY <2>2 DEF Equal
    <3>2. PICK t : t = Append(s, l)
      OBVIOUS
    <3>3. Len(s) = j
      BY <3>1
    <3>4. /\ t \in Script /\ Len(t) = j + 1 /\ t[j + 1] = l
          /\ \A i \in 1 .. j : t[i] = s[i]
      BY <2>3, <2>5, <3>2, <3>3, AppendProperties DEF Script
    <3>5. t = [i \in 1 .. j + 1 |-> t[i]]
      BY <3>4, LenProperties DEF Script
    <3>6. \A i \in 1 .. j + 1 : t[i] = <<Blank, file1[x + i]>>
      <4> SUFFICES ASSUME NEW i \in 1 .. j + 1
                   PROVE  t[i] = <<Blank, file1[x + i]>>
        OBVIOUS
      <4>1. CASE i = j + 1
        BY <2>1, <2>2, <3>4, <4>1
      <4>2. CASE i # j + 1
        <5>1. i \in 1 .. j
          BY <4>2
        <5> QED
          BY <3>1, <3>4, <5>1
      <4> QED
        BY <4>1, <4>2
    <3> QED
      BY <3>2, <3>5, <3>6 DEF Equal
  <2>7. /\ Append(s, l) \in Script
        /\ With(Append(s, l), S) = IF Blank \in S THEN Append(With(s, S), l[2]) ELSE With(s, S)
    BY <2>3, <2>5, WithAppend, Zenon
  <2>8. SubSeq(file1, x + 1, x + j + 1) = Append(SubSeq(file1, x + 1, x + j), l[2])
    <3>1. PICK a, b : a = x + 1 /\ b = x + j + 1
      OBVIOUS
    <3>2. a \in 1 .. Len(file1) /\ b \in a .. Len(file1) /\ b - 1 = x + j
      BY <1>1, <2>1, <3>1
    <3>3. SubSeq(file1, a, b) = SubSeq(file1, a, b - 1) \o <<file1[b]>>
      BY <1>1, <3>2, SubSeqRecursiveSecond
    <3>4. SubSeq(file1, a, b - 1) \in Seq(Line)
      <4>1. a \in Int /\ b - 1 \in Int /\ \A i \in a .. b - 1 : i \in 1 .. Len(file1)
        BY <1>1, <3>2
      <4>2. \A i \in a .. b - 1 : file1[i] \in Line
        BY <1>1, <4>1, ElementOfSeq
      <4> QED
        BY <4>1, <4>2, SubSeqProperties
    <3>5. file1[b] = l[2] /\ file1[b] \in Line
      BY <2>4, <2>5, <3>1
    <3>6. Append(SubSeq(file1, a, b - 1), file1[b]) = SubSeq(file1, a, b - 1) \o <<file1[b]>>
      BY <3>4, <3>5, AppendIsConcat
    <3> QED
      BY <3>1, <3>2, <3>3, <3>5, <3>6
  <2> QED
    BY <2>1, <2>3, <2>5, <2>6, <2>7, <2>8 DEF Chosen
<1>4. u \in P
  <2> HIDE DEF P
  <2> QED
    BY <1>2, <1>3, Induction
<1>5. Same(x, x + u) = Equal(u)
  <2>1. x + u - x = u
    OBVIOUS
  <2> QED
    BY <2>1 DEF Same
<1> QED
  BY <1>4, <1>5

-----------------------------------------------------------------------------
(***************************************************************************)
(* The way back.                                                           *)
(***************************************************************************)
\* The part of a file behind a place, and a line before it.
LEMMA Parts ==
  ASSUME NEW f \in Seq(Line), NEW x \in Nat, x < Len(f)
  PROVE  /\ SubSeq(f, x + 1, Len(f)) = <<f[x + 1]>> \o SubSeq(f, x + 1 + 1, Len(f))
         /\ f[x + 1] \in Line
<1>1. PICK a : a = x + 1
  OBVIOUS
<1>2. Len(f) \in Nat
  BY LenProperties
<1>3. a \in 1 .. Len(f) /\ Len(f) \in a .. Len(f)
  BY <1>1, <1>2
<1>4. SubSeq(f, a, Len(f)) = <<f[a]>> \o SubSeq(f, a + 1, Len(f))
  BY <1>3, SubSeqRecursiveFirst
<1>5. f[a] \in Line
  BY <1>3, ElementOfSeq
<1> QED
  BY <1>1, <1>4, <1>5

\* Two parts of a file side by side are one.
LEMMA Joined ==
  ASSUME NEW f \in Seq(Line), NEW x \in Nat, NEW u \in Nat, x + u <= Len(f)
  PROVE  /\ SubSeq(f, x + 1, x + u) \o SubSeq(f, x + u + 1, Len(f)) = SubSeq(f, x + 1, Len(f))
         /\ SubSeq(f, x + 1, x + u) \in Seq(Line) /\ Len(SubSeq(f, x + 1, x + u)) = u
         /\ \A j \in 1 .. u : SubSeq(f, x + 1, x + u)[j] = f[x + j]
         /\ SubSeq(f, x + 1, Len(f)) \in Seq(Line)
<1>1. PICK a, b, c : a = x + 1 /\ b = x + u /\ c = Len(f)
  OBVIOUS
<1>2. c \in Nat
  BY <1>1, LenProperties
<1>3. a \in 1 .. c + 1 /\ b \in a - 1 .. c /\ c \in b .. c
  BY <1>1, <1>2
<1>4. SubSeq(f, a, b) \o SubSeq(f, b + 1, c) = SubSeq(f, a, c)
  BY <1>1, <1>3, ConcatAdjacentSubSeq
<1>5. a \in Int /\ b \in Int /\ c \in Int
  BY <1>1, <1>2
<1>6. /\ \A i \in a .. b : i \in 1 .. Len(f)
      /\ \A i \in a .. c : i \in 1 .. Len(f)
  BY <1>1, <1>2
<1>7. /\ \A i \in a .. b : f[i] \in Line
      /\ \A i \in a .. c : f[i] \in Line
  BY <1>6, ElementOfSeq
<1>8. /\ SubSeq(f, a, b) \in Seq(Line) /\ Len(SubSeq(f, a, b)) = IF a <= b THEN b - a + 1 ELSE 0
      /\ \A j \in 1 .. b - a + 1 : SubSeq(f, a, b)[j] = f[a + j - 1]
  BY <1>5, <1>7, SubSeqProperties
<1>9. SubSeq(f, a, c) \in Seq(Line)
  BY <1>5, <1>7, SubSeqProperties
<1>10. b - a + 1 = u /\ (IF a <= b THEN b - a + 1 ELSE 0) = u
  BY <1>1
<1>11. \A j \in 1 .. u : SubSeq(f, a, b)[j] = f[x + j]
  <2>1. \A j \in 1 .. u : a + j - 1 = x + j
    BY <1>1
  <2> QED
    BY <1>8, <1>10, <2>1
<1> QED
  BY <1>1, <1>4, <1>8, <1>9, <1>10, <1>11

\* A script goes on spelling the files with the equal lines before it, and
\* changes no more lines.
LEMMA Passed ==
  ASSUME Typed, NEW s \in Script, NEW x \in Nat, NEW y \in Nat, NEW u \in Nat,
         x + u <= n, y + u <= m, \A j \in 1 .. u : file1[x + j] = file2[y + j],
         Spells(s, x + u, y + u)
  PROVE  /\ Same(x, x + u) \o s \in Script /\ Spells(Same(x, x + u) \o s, x, y)
         /\ With(Same(x, x + u) \o s, {"-", "+"}) = With(s, {"-", "+"})
<1>1. /\ n = Len(file1) /\ file1 \in Seq(Line) /\ n \in Nat
      /\ m = Len(file2) /\ file2 \in Seq(Line) /\ m \in Nat
  BY Sizes DEF Typed, n, m
<1>2. PICK a, b, e : a = SubSeq(file1, x + 1, x + u) /\ b = SubSeq(file2, y + 1, y + u) /\ e = Same(x, x + u)
  OBVIOUS
<1>3. /\ a \o SubSeq(file1, x + u + 1, n) = SubSeq(file1, x + 1, n)
      /\ a \in Seq(Line) /\ Len(a) = u /\ \A j \in 1 .. u : a[j] = file1[x + j]
  <2>1. x + u <= Len(file1) /\ file1 \in Seq(Line)
    BY <1>1
  <2>2. /\ SubSeq(file1, x + 1, x + u) \o SubSeq(file1, x + u + 1, Len(file1)) = SubSeq(file1, x + 1, Len(file1))
        /\ SubSeq(file1, x + 1, x + u) \in Seq(Line) /\ Len(SubSeq(file1, x + 1, x + u)) = u
        /\ \A j \in 1 .. u : SubSeq(file1, x + 1, x + u)[j] = file1[x + j]
    BY <2>1, Joined, Zenon
  <2> QED
    BY <1>1, <1>2, <2>2
<1>4. /\ b \o SubSeq(file2, y + u + 1, m) = SubSeq(file2, y + 1, m)
      /\ b \in Seq(Line) /\ Len(b) = u /\ \A j \in 1 .. u : b[j] = file2[y + j]
  <2>1. y + u <= Len(file2) /\ file2 \in Seq(Line)
    BY <1>1
  <2>2. /\ SubSeq(file2, y + 1, y + u) \o SubSeq(file2, y + u + 1, Len(file2)) = SubSeq(file2, y + 1, Len(file2))
        /\ SubSeq(file2, y + 1, y + u) \in Seq(Line) /\ Len(SubSeq(file2, y + 1, y + u)) = u
        /\ \A j \in 1 .. u : SubSeq(file2, y + 1, y + u)[j] = file2[y + j]
    BY <2>1, Joined, Zenon
  <2> QED
    BY <1>1, <1>2, <2>2
<1>5. a = b
  BY <1>3, <1>4, SeqEqual
<1>6. e \in Script /\ \A S : With(e, S) = Chosen(Blank, S, a)
  BY <1>2, WithSame
<1>7. Blank \in {Blank, "-"} /\ Blank \in {Blank, "+"} /\ Blank \notin {"-", "+"}
  BY Zenon DEF Blank
<1>8. With(e, {Blank, "-"}) = a /\ With(e, {Blank, "+"}) = a /\ With(e, {"-", "+"}) = <<>>
  BY <1>6, <1>7 DEF Chosen
<1>9. e \o s \in Script /\ \A S : With(e \o s, S) = With(e, S) \o With(s, S)
  BY <1>6, WithConcat
<1>10. With(e \o s, {"-", "+"}) = With(s, {"-", "+"})
  <2>1. PICK w \in Seq(Line) : w = With(s, {"-", "+"})
    BY WithLines
  <2>2. <<>> \o w = w
    BY ConcatEmptySeq
  <2> QED
    BY <1>8, <1>9, <2>1, <2>2
<1>11. Spells(e \o s, x, y)
  BY <1>3, <1>4, <1>5, <1>8, <1>9 DEF Spells
<1> QED
  BY <1>2, <1>9, <1>10, <1>11

\* So it does with the deleted or inserted line before it, and changes one more.
LEMMA Deleted ==
  ASSUME Typed, NEW s \in Script, NEW x \in Nat, NEW y \in Nat, x + 1 <= n, Spells(s, x + 1, y)
  PROVE  /\ <<<<"-", file1[x + 1]>>>> \o s \in Script
         /\ Spells(<<<<"-", file1[x + 1]>>>> \o s, x, y)
         /\ Len(With(<<<<"-", file1[x + 1]>>>> \o s, {"-", "+"})) = 1 + Len(With(s, {"-", "+"}))
<1>1. /\ n = Len(file1) /\ file1 \in Seq(Line) /\ n \in Nat
  BY Sizes DEF Typed, n
<1>2. PICK l, e, v : l = <<"-", file1[x + 1]>> /\ e = <<l>> /\ v = file1[x + 1]
  OBVIOUS
<1>3. SubSeq(file1, x + 1, n) = <<v>> \o SubSeq(file1, x + 1 + 1, n) /\ v \in Line
  <2>1. x < Len(file1)
    BY <1>1
  <2> QED
    BY <1>1, <1>2, <2>1, Parts
<1>4. l \in Entry /\ l[1] = "-" /\ l[2] = v
  BY <1>2, <1>3 DEF Entry
<1>5. e \in Script /\ \A S : With(e, S) = Chosen("-", S, <<v>>)
  BY <1>2, <1>4, WithOne
<1>6. "-" \in {Blank, "-"} /\ "-" \notin {Blank, "+"} /\ "-" \in {"-", "+"}
  BY Zenon DEF Blank
<1>7. With(e, {Blank, "-"}) = <<v>> /\ With(e, {Blank, "+"}) = <<>> /\ With(e, {"-", "+"}) = <<v>>
  BY <1>5, <1>6 DEF Chosen
<1>8. e \o s \in Script /\ \A S : With(e \o s, S) = With(e, S) \o With(s, S)
  BY <1>5, WithConcat
<1>9. Len(With(e \o s, {"-", "+"})) = 1 + Len(With(s, {"-", "+"}))
  <2>1. PICK w \in Seq(Line) : w = With(s, {"-", "+"})
    BY WithLines
  <2>2. PICK o : o = <<v>>
    OBVIOUS
  <2>3. o \in Seq(Line) /\ Len(o) = 1
    BY <1>3, <2>2
  <2>4. Len(o \o w) = Len(o) + Len(w)
    BY <2>3, ConcatProperties
  <2> QED
    BY <1>7, <1>8, <2>1, <2>2, <2>3, <2>4
<1>10. With(e \o s, {Blank, "+"}) = With(s, {Blank, "+"})
  <2>1. PICK w \in Seq(Line) : w = With(s, {Blank, "+"})
    BY WithLines
  <2>2. <<>> \o w = w
    BY ConcatEmptySeq
  <2> QED
    BY <1>7, <1>8, <2>1, <2>2
<1>11. Spells(e \o s, x, y)
  BY <1>3, <1>7, <1>8, <1>10 DEF Spells
<1> QED
  BY <1>2, <1>8, <1>9, <1>11

\* The same, of a line that is inserted.
LEMMA Inserted ==
  ASSUME Typed, NEW s \in Script, NEW x \in Nat, NEW y \in Nat, y + 1 <= m, Spells(s, x, y + 1)
  PROVE  /\ <<<<"+", file2[y + 1]>>>> \o s \in Script
         /\ Spells(<<<<"+", file2[y + 1]>>>> \o s, x, y)
         /\ Len(With(<<<<"+", file2[y + 1]>>>> \o s, {"-", "+"})) = 1 + Len(With(s, {"-", "+"}))
<1>1. /\ m = Len(file2) /\ file2 \in Seq(Line) /\ m \in Nat
  BY Sizes DEF Typed, m
<1>2. PICK l, e, v : l = <<"+", file2[y + 1]>> /\ e = <<l>> /\ v = file2[y + 1]
  OBVIOUS
<1>3. SubSeq(file2, y + 1, m) = <<v>> \o SubSeq(file2, y + 1 + 1, m) /\ v \in Line
  <2>1. y < Len(file2)
    BY <1>1
  <2> QED
    BY <1>1, <1>2, <2>1, Parts
<1>4. l \in Entry /\ l[1] = "+" /\ l[2] = v
  BY <1>2, <1>3 DEF Entry
<1>5. e \in Script /\ \A S : With(e, S) = Chosen("+", S, <<v>>)
  BY <1>2, <1>4, WithOne
<1>6. "+" \notin {Blank, "-"} /\ "+" \in {Blank, "+"} /\ "+" \in {"-", "+"}
  BY Zenon DEF Blank
<1>7. With(e, {Blank, "-"}) = <<>> /\ With(e, {Blank, "+"}) = <<v>> /\ With(e, {"-", "+"}) = <<v>>
  BY <1>5, <1>6 DEF Chosen
<1>8. e \o s \in Script /\ \A S : With(e \o s, S) = With(e, S) \o With(s, S)
  BY <1>5, WithConcat
<1>9. Len(With(e \o s, {"-", "+"})) = 1 + Len(With(s, {"-", "+"}))
  <2>1. PICK w \in Seq(Line) : w = With(s, {"-", "+"})
    BY WithLines
  <2>2. PICK o : o = <<v>>
    OBVIOUS
  <2>3. o \in Seq(Line) /\ Len(o) = 1
    BY <1>3, <2>2
  <2>4. Len(o \o w) = Len(o) + Len(w)
    BY <2>3, ConcatProperties
  <2> QED
    BY <1>7, <1>8, <2>1, <2>2, <2>3, <2>4
<1>10. With(e \o s, {Blank, "-"}) = With(s, {Blank, "-"})
  <2>1. PICK w \in Seq(Line) : w = With(s, {Blank, "-"})
    BY WithLines
  <2>2. <<>> \o w = w
    BY ConcatEmptySeq
  <2> QED
    BY <1>7, <1>8, <2>1, <2>2
<1>11. Spells(e \o s, x, y)
  BY <1>3, <1>7, <1>8, <1>10 DEF Spells
<1> QED
  BY <1>2, <1>8, <1>9, <1>11

\* The greater of 0 and the lesser of two.
LEMMA Lesser ==
  ASSUME NEW u \in Nat
  PROVE  Max({0, Min({u, u + 1})}) = u /\ Max({0, Min({u + 1, u})}) = u
<1>1. (CHOOSE z \in {u, u + 1} : \A y \in {u, u + 1} : z <= y) = u
  OBVIOUS
<1>2. (CHOOSE z \in {u + 1, u} : \A y \in {u + 1, u} : z <= y) = u
  OBVIOUS
<1>3. (CHOOSE z \in {0, u} : \A y \in {0, u} : z >= y) = u
  OBVIOUS
<1>4. Max({0, u}) = u
  BY <1>3, Zenon DEF Max
<1>5. Min({u, u + 1}) = u
  BY <1>1, Zenon DEF Min
<1>6. Min({u + 1, u}) = u
  BY <1>2, Zenon DEF Min
<1> QED
  BY <1>4, <1>5, <1>6, Zenon

\* Where a round came from, and the equal lines it passed.
Came(Q, r, i, p, f, w, u) ==
  /\ f = From(Q, r, i) /\ w = f + max - i
  /\ Far(Q, r, i) = f + u /\ Far(Q, r, i) + max - i = w + u
  /\ \A j \in 1 .. u : f + j <= n /\ w + j <= m /\ file1[f + j] = file2[w + j]
  /\ IF Down(Q, r, i) THEN f = Q[p] /\ w = Q[p] + max - p + 1
     ELSE f = Q[p] + 1 /\ w = Q[p] + max - p

\* The way back from a diagonal: the place the round came from, by which line,
\* and the equal lines it passed after it.
LEMMA Before ==
  ASSUME Typed, NEW r \in 1 .. max, NEW Q \in Rows, Sound(Q, r - 1), NEW i \in Diagonals(r),
         NEW p, p = IF Down(Q, r, i) THEN i + 1 ELSE i - 1
  PROVE  /\ p \in Diagonals(r - 1) /\ p \in Places /\ p \notin Diagonals(r) /\ Led(Q[p], Q[p] + max - p, r - 1)
         /\ \E f, w, u \in Nat : Came(Q, r, i, p, f, w, u)
<1>0. PICK z : z = max
  OBVIOUS
<1>1. z \in Nat /\ r \in 1 .. z /\ r \in 0 .. z /\ i \in Int
  BY <1>0, Sizes, Beside
<1>2. i # z + r \/ ~Down(Q, r, i)
  BY <1>0, <1>1, Beside DEF Down
<1>3. i # z - r \/ Down(Q, r, i)
  BY <1>0 DEF Down
<1>4. PICK j \in 0 .. r : i = z - r + 2 * j
  BY <1>0 DEF Diagonals
<1>5. p \in Diagonals(r - 1)
  <2>1. CASE Down(Q, r, i)
    <3>1. j \in 0 .. r - 1 /\ p = z - (r - 1) + 2 * j
      BY <1>1, <1>2, <1>4, <2>1
    <3> QED
      BY <1>0, <3>1 DEF Diagonals
  <2>2. CASE ~Down(Q, r, i)
    <3>1. j - 1 \in 0 .. r - 1 /\ p = z - (r - 1) + 2 * (j - 1)
      BY <1>1, <1>3, <1>4, <2>2
    <3> QED
      BY <1>0, <3>1 DEF Diagonals
  <2> QED
    BY <2>1, <2>2
<1>6. p \in Places /\ p \in Reach(r - 1) /\ p \in Int
  <2>1. r - 1 \in 0 .. max
    BY <1>0, <1>1
  <2> QED
    BY <1>5, <2>1, Beside
<1>7. p \notin Diagonals(r)
  BY <1>0, <1>1, Beside
<1>8. Led(Q[p], Q[p] + max - p, r - 1)
  BY <1>6 DEF Sound
<1>9. Q[p] \in Nat
  BY <1>8 DEF Led
<1>10. Led(From(Q, r, i), From(Q, r, i) + max - i, r)
  <2>1. r # 0
    BY <1>1
  <2> QED
    BY <1>0, <1>1, <2>1, Onward
<1>11. PICK f \in Nat, w \in Nat, u \in Nat :
         /\ f = From(Q, r, i) /\ w = f + max - i
         /\ Far(Q, r, i) = f + u /\ Far(Q, r, i) + max - i = w + u
         /\ \A h \in 1 .. u : f + h <= n /\ w + h <= m /\ file1[f + h] = file2[w + h]
  <2>1. r \in 0 .. max
    BY <1>0, <1>1
  <2> QED
    BY <1>10, <2>1, FarSlides
<1>12. IF Down(Q, r, i) THEN f = Q[p] /\ w = Q[p] + max - p + 1
       ELSE f = Q[p] + 1 /\ w = Q[p] + max - p
  <2>1. w = f + z - i
    BY <1>0, <1>11
  <2>2. CASE Down(Q, r, i)
    <3>1. f = Q[p] /\ p = i + 1
      BY <1>11, <2>2 DEF From
    <3>2. w = Q[p] + z - p + 1
      BY <1>1, <1>9, <2>1, <3>1
    <3> QED
      BY <1>0, <2>2, <3>1, <3>2
  <2>3. CASE ~Down(Q, r, i)
    <3>1. f = Q[p] + 1 /\ p = i - 1
      BY <1>11, <2>3 DEF From
    <3>2. w = Q[p] + z - p
      BY <1>1, <1>9, <2>1, <3>1
    <3> QED
      BY <1>0, <2>3, <3>1, <3>2
  <2> QED
    BY <2>2, <2>3
<1>13. Came(Q, r, i, p, f, w, u)
  BY <1>11, <1>12 DEF Came
<1> QED
  BY <1>5, <1>6, <1>7, <1>8, <1>13

-----------------------------------------------------------------------------
(***************************************************************************)
(* The steps.                                                              *)
(***************************************************************************)
\* What depends on the files only stays as it is.
LEMMA SameFiles ==
  ASSUME UNCHANGED <<file1, file2>>
  PROVE  /\ n' = n /\ m' = m /\ max' = max /\ Places' = Places /\ Rows' = Rows
         /\ Alignments' = Alignments
         /\ \A r : Diagonals(r)' = Diagonals(r) /\ Reach(r)' = Reach(r)
         /\ \A R, r, i : Far(R, r, i)' = Far(R, r, i)
         /\ \A R, Q, r, e : Partly(R, Q, r, e)' <=> Partly(R, Q, r, e)
         /\ \A R, r : /\ Sound(R, r)' <=> Sound(R, r)
                      /\ Furthest(R, r)' <=> Furthest(R, r)
                      /\ Open(R, r)' <=> Open(R, r)
         /\ \A R, i : Ends(R, i)' <=> Ends(R, i)
         /\ \A s, x, y : Spells(s, x, y)' <=> Spells(s, x, y)
<1>1. n' = n /\ m' = m
  BY DEF n, m
<1>2. max' = max
  BY <1>1 DEF max
<1>3. Places' = Places
  BY <1>2 DEF Places
<1>4. Rows' = Rows
  BY <1>3 DEF Rows
<1>5. Alignments' = Alignments
  BY <1>1 DEF Alignments
<1>6. \A r : Diagonals(r)' = Diagonals(r) /\ Reach(r)' = Reach(r)
  BY <1>2 DEF Diagonals, Reach
<1>7. \A x, y : Slid(x, y)' = Slid(x, y)
  BY <1>1 DEF Slid
<1>8. \A R, r, i : Down(R, r, i)' <=> Down(R, r, i)
  BY <1>2 DEF Down
<1>9. \A R, r, i : From(R, r, i)' = From(R, r, i)
  BY <1>8 DEF From
<1>10. \A R, r, i : Far(R, r, i)' = Far(R, r, i)
  BY <1>2, <1>7, <1>9 DEF Far
<1>11. \A R, Q, r, e : Partly(R, Q, r, e)' <=> Partly(R, Q, r, e)
  BY <1>3, <1>4, <1>6, <1>10 DEF Partly
<1>12. \A x, y : Below(x, y)' = Below(x, y)
  BY <1>5 DEF Below
<1>13. \A x, y, r : Led(x, y, r)' <=> Led(x, y, r)
  BY <1>12 DEF Led, Cost
<1>14. \A R, r : Sound(R, r)' <=> Sound(R, r)
  BY <1>2, <1>6, <1>13 DEF Sound
<1>15. \A R, r : Furthest(R, r)' <=> Furthest(R, r)
  BY <1>1, <1>2, <1>6, <1>12 DEF Furthest, Cost
<1>16. \A R, i : Ends(R, i)' <=> Ends(R, i)
  BY <1>1, <1>2 DEF Ends
<1>17. \A R, r : Open(R, r)' <=> Open(R, r)
  BY <1>6, <1>16 DEF Open
<1>18. \A s, x, y : Spells(s, x, y)' <=> Spells(s, x, y)
  BY <1>1 DEF Spells
<1> QED
  BY <1>1, <1>2, <1>3, <1>4, <1>5, <1>6, <1>10, <1>11, <1>14, <1>15, <1>16, <1>17, <1>18

\* The row that a round begins with.
LEMMA EarlierRow ==
  ASSUME Typed, NEW e \in Nat, e <= Len(trace), \A r \in 0 .. e - 1 : Complete(r)
  PROVE  /\ Earlier(e) \in Rows
         /\ IF e = 0 THEN Earlier(e) = [i \in Places |-> 0]
            ELSE /\ Sound(Earlier(e), e - 1) /\ Furthest(Earlier(e), e - 1)
                 /\ Open(Earlier(e), e - 1)
<1>1. CASE e = 0
  BY <1>1 DEF Earlier, Rows
<1>2. CASE e # 0
  <2>1. PICK c : c = e - 1
    OBVIOUS
  <2>2. c \in 0 .. e - 1 /\ c + 1 = e /\ e \in 1 .. Len(trace)
    BY <1>2, <2>1, LenProperties DEF Typed
  <2>3. Complete(c)
    BY <2>2
  <2>4. Earlier(e) = trace[e] /\ trace[e] \in Rows
    BY <1>2, <2>2, ElementOfSeq DEF Earlier, Typed
  <2> QED
    BY <1>2, <2>1, <2>2, <2>3, <2>4 DEF Complete
<1> QED
  BY <1>1, <1>2

\* The rows of the rounds before stay as they are when one is added.
LEMMA Added ==
  ASSUME Typed, UNCHANGED <<file1, file2>>, NEW F \in Rows, NEW e \in Nat, e = Len(trace),
         trace' = trace \/ trace' = Append(trace, F), \A r \in 0 .. e - 1 : Complete(r)
  PROVE  /\ \A r \in 0 .. e : Earlier(r)' = Earlier(r)
         /\ \A r \in 0 .. e - 1 : Complete(r)'
         /\ trace' \in Seq(Rows)
         /\ trace' = Append(trace, F) => Len(trace') = e + 1 /\ trace'[e + 1] = F
<1>1. /\ \A i \in 1 .. e : trace'[i] = trace[i]
      /\ trace' \in Seq(Rows)
      /\ trace' = Append(trace, F) => Len(trace') = e + 1 /\ trace'[e + 1] = F
  <2>1. PICK T, U, V : T = trace /\ U = trace' /\ V = Rows
    OBVIOUS
  <2>2. T \in Seq(V) /\ F \in V /\ e = Len(T) /\ (U = T \/ U = Append(T, F))
    BY <2>1 DEF Typed
  <2>3. /\ Append(T, F) \in Seq(V) /\ Len(Append(T, F)) = e + 1 /\ Append(T, F)[e + 1] = F
        /\ \A i \in 1 .. e : Append(T, F)[i] = T[i]
    BY <2>2, AppendProperties
  <2> QED
    BY <2>1, <2>2, <2>3
<1>2. \A r \in 0 .. e : Earlier(r)' = Earlier(r)
  <2> SUFFICES ASSUME NEW r \in 0 .. e
               PROVE  Earlier(r)' = Earlier(r)
    OBVIOUS
  <2>1. Places' = Places
    BY SameFiles
  <2>2. r # 0 => trace'[r] = trace[r]
    BY <1>1
  <2> QED
    BY <2>1, <2>2 DEF Earlier
<1>3. ASSUME NEW r \in 0 .. e - 1
      PROVE  Complete(r)'
  <2>1. r + 1 \in 1 .. e /\ r \in 0 .. e
    OBVIOUS
  <2>2. PICK R, Q, c : R = trace[r + 1] /\ Q = Earlier(r) /\ c = max + r + 1
    OBVIOUS
  <2>3. trace'[r + 1] = R /\ Earlier(r)' = Q /\ max' = max
    BY <1>1, <1>2, <2>1, <2>2, SameFiles
  <2>4. Partly(R, Q, r, c) /\ Sound(R, r) /\ Furthest(R, r) /\ Open(R, r)
    BY <2>2 DEF Complete
  <2>5. Partly(R, Q, r, c)' /\ Sound(R, r)' /\ Furthest(R, r)' /\ Open(R, r)'
    BY <2>4, SameFiles
  <2> QED
    BY <2>2, <2>3, <2>5 DEF Complete
<1> QED
  BY <1>1, <1>2, <1>3

\* The invariant holds as the search begins.
LEMMA Begins ==
  ASSUME Init
  PROVE  DiffInv
<1>1. file1 \in Seq(Line) /\ file2 \in Seq(Line)
  <2>1. MaxLines \in Nat
    BY BoundAssumption
  <2>2. file1 \in UNION {[1 .. i -> Line] : i \in 0 .. MaxLines}
    BY Zenon DEF Init, BoundedSeq, SeqOf
  <2>3. file2 \in UNION {[1 .. i -> Line] : i \in 0 .. MaxLines}
    BY Zenon DEF Init, BoundedSeq, SeqOf
  <2>4. \A i \in 0 .. MaxLines : i \in Nat
    OBVIOUS
  <2> QED
    BY <2>2, <2>3, <2>4
<1>2. Typed
  <2>1. trace \in Seq(Rows) /\ lines \in Script
    BY WithNone DEF Init
  <2> QED
    BY <1>1, <2>1 DEF Init, Typed
<1>3. Searching
  <2>1. PICK z : z = max
    OBVIOUS
  <2>2. z \in Nat
    BY <1>2, <2>1, Sizes
  <2>3. \A i : i \in Diagonals(0) <=> i = z
    BY <2>1, <2>2 DEF Diagonals
  <2>4. PICK Q : Q = [i \in Places |-> 0]
    OBVIOUS
  <2>5. Partly(Q, Q, 0, z)
    BY <2>2, <2>3, <2>4 DEF Partly, Rows
  <2>6. del = Q /\ Earlier(0) = Q
    BY <2>4 DEF Init, Places, Earlier
  <2>7. d = 0 /\ k = z /\ Len(trace) = 0 /\ lines = <<>>
    BY <2>1 DEF Init
  <2>8. \A i \in Diagonals(0) : ~(i < k)
    BY <2>2, <2>3, <2>7
  <2>9. \A r \in 0 .. 0 - 1 : Complete(r)
    OBVIOUS
  <2>10. k \in Diagonals(d) /\ Partly(del, Earlier(d), d, k)
    BY <2>3, <2>5, <2>6, <2>7
  <2> QED
    BY <2>7, <2>8, <2>9, <2>10 DEF Searching
<1>4. phase = "search"
  BY DEF Init
<1> QED
  BY <1>2, <1>3, <1>4 DEF DiffInv, Found, Returning, Ready

\* What a round reads of the row it works on is what it began with.
LEMMA Reads ==
  ASSUME Typed, NEW r \in 0 .. max, NEW Q, NEW R \in Rows, NEW i \in Diagonals(r),
         \A j \in Places \ Diagonals(r) : R[j] = Q[j]
  PROVE  (Down(R, r, i) <=> Down(Q, r, i)) /\ From(R, r, i) = From(Q, r, i)
<1>0. PICK z : z = max
  OBVIOUS
<1>1. z \in Nat /\ z > 0 /\ r \in 0 .. z /\ i \in Int
  BY <1>0, Sizes, Beside
<1>2. i + 1 \notin Diagonals(r) /\ i - 1 \notin Diagonals(r)
  BY Beside
<1>3. i # z - r => R[i - 1] = Q[i - 1]
  BY <1>0, <1>2, Beside
<1>4. i # z + r \/ r = 0 => R[i + 1] = Q[i + 1]
  BY <1>0, <1>2, Beside
<1>5. Down(R, r, i) <=> Down(Q, r, i)
  BY <1>0, <1>3, <1>4 DEF Down
<1>6. i = z + r /\ r # 0 => ~Down(R, r, i)
  BY <1>0, <1>1 DEF Down
<1>7. ~Down(R, r, i) => i # z - r
  BY <1>0 DEF Down
<1> QED
  BY <1>3, <1>4, <1>5, <1>6, <1>7 DEF From

\* A diagonal of a round.
LEMMA Searches ==
  ASSUME DiffInv, Search
  PROVE  DiffInv'
<1>1. Typed /\ Searching /\ phase = "search" /\ UNCHANGED <<file1, file2, lines>>
  BY DEF DiffInv, Search
<1>2. PICK e, i, R, Q, z : e = d /\ i = k /\ R = del /\ Q = Earlier(d) /\ z = max
  OBVIOUS
<1>3. PICK x, F : x = Far(Q, e, i) /\ F = [R EXCEPT ![i] = x]
  OBVIOUS
<1>4. /\ e = Len(trace) /\ i \in Diagonals(e) /\ lines = <<>> /\ Partly(R, Q, e, i)
      /\ \A j \in Diagonals(e) : j < i => ~Ends(R, j)
      /\ \A r \in 0 .. e - 1 : Complete(r)
  BY <1>1, <1>2 DEF Searching
<1>5. e \in 0 .. z /\ e \in 0 .. max /\ z \in Nat /\ z > 0 /\ e \in Nat
  <2>1. e <= z /\ z \in Nat /\ z > 0
    BY <1>1, <1>2, Sizes DEF Search, LastRound
  <2>2. e \in Nat
    BY <1>1, <1>4, LenProperties DEF Typed
  <2> QED
    BY <1>2, <2>1, <2>2
<1>6. /\ Q \in Rows
      /\ IF e = 0 THEN Q = [j \in Places |-> 0]
         ELSE Sound(Q, e - 1) /\ Furthest(Q, e - 1) /\ Open(Q, e - 1)
  <2>1. e <= Len(trace)
    BY <1>4, <1>5
  <2> QED
    BY <1>1, <1>2, <1>4, <1>5, <2>1, EarlierRow
<1>7. /\ R \in Rows
      /\ \A j \in Places : R[j] = IF j \in Diagonals(e) /\ j < i THEN Far(Q, e, j) ELSE Q[j]
  BY <1>4 DEF Partly
<1>8. /\ i \in Int /\ i \in Reach(e) /\ i \in Places
      /\ i + 1 \notin Diagonals(e) /\ i - 1 \notin Diagonals(e)
  BY <1>1, <1>4, <1>5, Beside
<1>9. (Down(R, e, i) <=> Down(Q, e, i)) /\ From(R, e, i) = From(Q, e, i)
  BY <1>1, <1>4, <1>5, <1>7, Reads
<1>10. Led(From(Q, e, i), From(Q, e, i) + max - i, e)
  BY <1>1, <1>4, <1>5, <1>6, Onward
<1>11. Led(x, x + max - i, e)
  <2>1. Led(Far(Q, e, i), Far(Q, e, i) + max - i, e)
    BY <1>1, <1>4, <1>5, <1>6, <1>10, FarLed
  <2> QED
    BY <1>3, <2>1
<1>12. x \in Nat /\ F \in Rows
  <2>1. x \in Nat
    BY <1>11 DEF Led
  <2>2. R \in [Places -> Int] /\ x \in Int
    BY <1>7, <2>1 DEF Rows
  <2>3. F \in [Places -> Int]
    BY <1>3, <2>2
  <2> QED
    BY <2>1, <2>3 DEF Rows
<1>13. F[i] = x /\ \A j \in Places : j # i => F[j] = R[j]
  BY <1>3, <1>7, <1>8 DEF Rows
<1>14. ASSUME NEW c \in {i + 1, i + 2}
       PROVE  Partly(F, Q, e, c)
  <2> SUFFICES ASSUME NEW j \in Places
               PROVE  F[j] = IF j \in Diagonals(e) /\ j < c THEN Far(Q, e, j) ELSE Q[j]
    BY <1>12 DEF Partly
  <2>1. CASE j = i
    BY <1>3, <1>4, <1>8, <1>13, <2>1
  <2>2. CASE j # i /\ j \in Diagonals(e)
    <3>1. j \in Int /\ j # i + 1
      BY <1>1, <1>5, <1>8, <2>2, Beside
    <3>2. j < c <=> j < i
      BY <1>8, <2>2, <3>1
    <3> QED
      BY <1>7, <1>13, <2>2, <3>2
  <2>3. CASE j \notin Diagonals(e)
    BY <1>4, <1>7, <1>13, <2>3
  <2> QED
    BY <2>1, <2>2, <2>3
<1>15. /\ del' = F
       /\ trace' = IF Ends(F, i) \/ i = z + e THEN Append(trace, F) ELSE trace
       /\ IF Ends(F, i)
            THEN phase' = "back" /\ d' = e /\ k' = i
            ELSE /\ phase' = "search"
                 /\ d' = IF i = z + e THEN e + 1 ELSE e
                 /\ k' = IF i = z + e THEN z - e - 1 ELSE i + 2
  <2>1. Inserts(del) <=> Down(R, e, i)
    BY <1>2 DEF Inserts, Down
  <2>2. (IF Inserts(del) THEN del[k + 1] ELSE del[k - 1] + 1) = From(R, e, i)
    BY <1>2, <2>1 DEF From
  <2>3. Slid(From(R, e, i), From(R, e, i) + max - k) = x
    BY <1>2, <1>3, <1>9 DEF Far
  <2>4. Ends(F, i) <=> x >= n /\ x + max - k >= m
    BY <1>2, <1>13 DEF Ends
  <2>5. del' = [del EXCEPT ![k] = x]
    BY <2>2, <2>3 DEF Search
  <2>6. del' = F
    BY <1>2, <1>3, <2>5
  <2>7. /\ trace' = IF Ends(F, i) \/ k = max + d THEN Append(trace, del') ELSE trace
        /\ IF Ends(F, i)
             THEN phase' = "back" /\ UNCHANGED <<d, k>>
             ELSE /\ UNCHANGED phase
                  /\ d' = IF k = max + d THEN d + 1 ELSE d
                  /\ k' = IF k = max + d THEN max - d - 1 ELSE k + 2
    BY <2>2, <2>3, <2>4, Zenon DEF Search
  <2> QED
    BY <1>1, <1>2, <2>6, <2>7
<1>16. /\ Earlier(e)' = Q /\ max' = z /\ \A r \in 0 .. e - 1 : Complete(r)'
       /\ trace' \in Seq(Rows)
       /\ trace' = Append(trace, F) => Len(trace') = e + 1 /\ trace'[e + 1] = F
  <2>1. trace' = trace \/ trace' = Append(trace, F)
    BY <1>15
  <2>2. e \in 0 .. e
    BY <1>5
  <2>3. max' = z
    BY <1>1, <1>2, SameFiles
  <2>4. /\ \A r \in 0 .. e : Earlier(r)' = Earlier(r)
        /\ \A r \in 0 .. e - 1 : Complete(r)'
        /\ trace' \in Seq(Rows)
        /\ trace' = Append(trace, F) => Len(trace') = e + 1 /\ trace'[e + 1] = F
    BY <1>1, <1>4, <1>5, <1>12, <2>1, Added
  <2>5. Earlier(e)' = Earlier(e) /\ Earlier(e) = Q
    BY <1>2, <2>2, <2>4
  <2> QED
    BY <2>3, <2>4, <2>5
<1>17. Typed'
  <2>1. Rows' = Rows /\ max' = max
    BY <1>1, SameFiles
  <2>2. phase' \in {"search", "back", "done"}
    BY <1>15
  <2> QED
    BY <1>1, <1>16, <2>1, <2>2 DEF Typed
<1>18. \A j \in Diagonals(e) : j < i => ~Ends(F, j)
  <2> SUFFICES ASSUME NEW j \in Diagonals(e), j < i
               PROVE  ~Ends(F, j)
    OBVIOUS
  <2>1. j \in Places /\ j \in Int /\ j # i
    BY <1>1, <1>5, <1>8, Beside
  <2>2. F[j] = R[j] /\ ~Ends(R, j)
    BY <1>4, <1>13, <2>1
  <2> QED
    BY <2>2 DEF Ends
<1>19. CASE Ends(F, i)
  <2>1. /\ phase' = "back" /\ d' = e /\ k' = i /\ lines' = <<>>
        /\ trace' = Append(trace, F) /\ Len(trace') = e + 1 /\ trace'[e + 1] = F
    BY <1>1, <1>4, <1>15, <1>16, <1>19
  <2>2. Changes' = e
    BY <1>5, <2>1 DEF Changes
  <2>3. e > 0 => Furthest(Q, e - 1) /\ Open(Q, e - 1)
    BY <1>5, <1>6
  <2>4. x = n /\ x + max - i = m
    <3>1. x >= n /\ x + max - i >= m
      BY <1>13, <1>19 DEF Ends
    <3> QED
      BY <1>1, <1>5, <1>6, <1>11, <2>3, <3>1, Ended
  <2>5. Found'
    <3>1. \A j \in Places \ Diagonals(e) : F[j] = Q[j]
      BY <1>4, <1>7, <1>13
    <3>2. \A j \in (Places \ Diagonals(e))' : trace'[e + 1][j] = Q[j]
      BY <1>1, <2>1, <3>1, SameFiles
    <3>3. \A A \in Alignments : max - 2 * Cardinality(A) >= e
      BY <1>1, <1>5, <1>6, <2>3, Fewest
    <3>4. \A A \in Alignments' : max' - 2 * Cardinality(A) >= e
      BY <1>1, <3>3, SameFiles
    <3>5. e \in 0 .. max'
      BY <1>5, <1>16
    <3> QED
      BY <1>16, <2>2, <3>2, <3>4, <3>5 DEF Found
  <2>6. Returning'
    <3>1. trace'[e + 1][i] = x
      BY <1>13, <2>1
    <3>2. i \in Diagonals(e)' /\ x = Far(Q, e, i)'
      BY <1>1, <1>3, <1>4, SameFiles
    <3>3. x \in 0 .. n' /\ x + max' - i \in 0 .. m'
      BY <1>1, <2>4, Sizes, SameFiles
    <3>4. PICK s, y : s = <<>> /\ y = x + max - i
      OBVIOUS
    <3>5. Spells(s, x, y)
      <4>1. \A S : With(s, S) = <<>>
        BY <3>4, WithNone
      <4>2. SubSeq(file1, x + 1, n) = <<>>
        <5>1. PICK a, b : a = x + 1 /\ b = n
          OBVIOUS
        <5>2. a \in Int /\ b \in Int /\ b < a
          BY <1>1, <2>4, <5>1, Sizes
        <5> QED
          BY <5>1, <5>2, SubSeqEmpty
      <4>3. SubSeq(file2, y + 1, m) = <<>>
        <5>1. PICK a, b : a = y + 1 /\ b = m
          OBVIOUS
        <5>2. a \in Int /\ b \in Int /\ b < a
          BY <1>1, <2>4, <3>4, <5>1, Sizes
        <5> QED
          BY <5>1, <5>2, SubSeqEmpty
      <4> QED
        BY <4>1, <4>2, <4>3 DEF Spells
    <3>6. Spells(s, x, y)' /\ y = x + max' - i
      BY <1>1, <3>4, <3>5, SameFiles
    <3>7. Len(With(s, {"-", "+"})) = e - e
      <4>1. Len(With(s, {"-", "+"})) = 0
        BY <3>4, WithNone
      <4> QED
        BY <1>5, <4>1
    <3>8. e \in 0 .. e
      BY <1>5
    <3>9. d' = e /\ k' = i /\ lines' = s /\ Changes' = e /\ Earlier(e)' = Q
      BY <1>16, <2>1, <2>2, <3>4
    <3> QED
      BY <3>1, <3>2, <3>3, <3>6, <3>7, <3>8, <3>9 DEF Returning
  <2> QED
    BY <1>17, <2>1, <2>5, <2>6 DEF DiffInv, Searching, Ready
<1>20. CASE ~Ends(F, i) /\ i = z + e
  <2>1. /\ phase' = "search" /\ d' = e + 1 /\ k' = z - e - 1 /\ lines' = <<>> /\ del' = F
        /\ Len(trace') = e + 1 /\ trace'[e + 1] = F
    BY <1>1, <1>4, <1>15, <1>16, <1>20
  <2>2. Partly(F, Q, e, z + e + 1)
    BY <1>14, <1>20
  <2>3. Sound(F, e) /\ Furthest(F, e) /\ Open(F, e)
    <3>1. \A j \in Diagonals(e) : ~Ends(F, j)
      <4> SUFFICES ASSUME NEW j \in Diagonals(e)
                   PROVE  ~Ends(F, j)
        OBVIOUS
      <4>1. j \in z - e .. z + e /\ j \in Int
        BY <1>1, <1>2, <1>5, Beside DEF Reach
      <4>2. j < i \/ j = i
        BY <1>5, <1>8, <1>20, <4>1
      <4> QED
        BY <1>18, <1>20, <4>2
    <3> QED
      BY <1>1, <1>2, <1>5, <1>6, <1>12, <2>2, <3>1, RoundDone
  <2>4. Complete(e)'
    <3>1. PICK c : c = z + e + 1
      OBVIOUS
    <3>2. Partly(F, Q, e, c)' /\ Sound(F, e)' /\ Furthest(F, e)' /\ Open(F, e)'
      BY <1>1, <2>2, <2>3, <3>1, SameFiles
    <3> QED
      BY <1>16, <2>1, <3>1, <3>2 DEF Complete
  <2>5. \A r \in 0 .. e + 1 - 1 : Complete(r)'
    <3>1. \A r \in 0 .. e + 1 - 1 : r \in 0 .. e - 1 \/ r = e
      BY <1>5
    <3> QED
      BY <1>16, <2>4, <3>1
  <2>6. PICK c, b : c = e + 1 /\ b = z - e - 1
    OBVIOUS
  <2>7. b \in Diagonals(c) /\ \A j \in Diagonals(c) : ~(j < b)
    <3>1. b = z - c + 2 * 0 /\ 0 \in 0 .. c
      BY <1>5, <2>6
    <3>2. \A j \in 0 .. c : ~(z - c + 2 * j < b)
      BY <1>5, <2>6
    <3> QED
      BY <1>2, <3>1, <3>2 DEF Diagonals
  <2>8. Partly(F, F, c, b)
    BY <1>12, <2>7 DEF Partly
  <2>9. Earlier(c)' = F
    BY <1>5, <2>1, <2>6 DEF Earlier
  <2>10. /\ b \in Diagonals(c)' /\ Partly(F, F, c, b)'
         /\ \A j \in Diagonals(c)' : ~(j < b)
    BY <1>1, <2>7, <2>8, SameFiles
  <2>11. Searching'
    <3>1. d' = c /\ k' = b /\ c = Len(trace') /\ del' = F
      BY <2>1, <2>6
    <3>2. \A r \in 0 .. c - 1 : Complete(r)'
      BY <1>5, <2>5, <2>6
    <3>3. k' \in Diagonals(d)' /\ Partly(del, Earlier(d), d, k)'
      BY <2>9, <2>10, <3>1
    <3>4. \A j \in Diagonals(d)' : j < k' => ~Ends(del, j)'
      BY <2>10, <3>1
    <3>5. \A r \in 0 .. d' - 1 : Complete(r)'
      BY <3>1, <3>2
    <3>6. d' = Len(trace') /\ lines' = <<>>
      BY <2>1, <3>1
    <3> QED
      BY <3>3, <3>4, <3>5, <3>6 DEF Searching
  <2> QED
    BY <1>17, <2>1, <2>11 DEF DiffInv, Found, Returning, Ready
<1>21. CASE ~Ends(F, i) /\ i # z + e
  <2>1. /\ phase' = "search" /\ d' = e /\ k' = i + 2 /\ lines' = <<>> /\ del' = F
        /\ trace' = trace
    BY <1>1, <1>4, <1>15, <1>21
  <2>2. PICK c : c = i + 2
    OBVIOUS
  <2>3. c \in Diagonals(e)
    <3>1. PICK j \in 0 .. e : i = z - e + 2 * j
      BY <1>2, <1>4 DEF Diagonals
    <3>2. j + 1 \in 0 .. e /\ c = z - e + 2 * (j + 1)
      BY <1>5, <1>21, <2>2, <3>1
    <3> QED
      BY <1>2, <3>2 DEF Diagonals
  <2>4. Partly(F, Q, e, c)
    BY <1>14, <2>2
  <2>5. \A j \in Diagonals(e) : j < c => ~Ends(F, j)
    <3> SUFFICES ASSUME NEW j \in Diagonals(e), j < c
                 PROVE  ~Ends(F, j)
      OBVIOUS
    <3>1. j \in Int /\ j # i + 1
      BY <1>1, <1>5, <1>8, Beside
    <3>2. j < i \/ j = i
      BY <1>8, <2>2, <3>1
    <3> QED
      BY <1>18, <1>21, <3>2
  <2>6. c \in Diagonals(e)' /\ Partly(F, Q, e, c)' /\ \A j \in Diagonals(e)' : j < c => ~Ends(F, j)'
    BY <1>1, <2>3, <2>4, <2>5, SameFiles
  <2>7. Searching'
    <3>1. d' = e /\ k' = c /\ e = Len(trace') /\ Earlier(e)' = Q
      BY <1>4, <1>16, <2>1, <2>2
    <3> QED
      BY <1>16, <2>1, <2>6, <3>1 DEF Searching
  <2> QED
    BY <1>17, <2>1, <2>7 DEF DiffInv, Found, Returning, Ready
<1> QED
  BY <1>19, <1>20, <1>21

\* What stays as it is on the way back.
LEMMA SameRounds ==
  ASSUME Typed, UNCHANGED <<file1, file2, trace>>
  PROVE  /\ \A r : Earlier(r)' = Earlier(r)
         /\ Changes' = Changes /\ \A r : Complete(r)' <=> Complete(r)
<1>1. Places' = Places /\ max' = max
  BY SameFiles
<1>2. \A r : Earlier(r)' = Earlier(r)
  BY <1>1 DEF Earlier
<1>3. Changes' = Changes
  BY DEF Changes
<1>4. \A r : Complete(r)' <=> Complete(r)
  <2> SUFFICES ASSUME NEW r
               PROVE  Complete(r)' <=> Complete(r)
    OBVIOUS
  <2>1. PICK R, Q, c : R = trace[r + 1] /\ Q = Earlier(r) /\ c = max + r + 1
    OBVIOUS
  <2>2. trace'[r + 1] = R /\ Earlier(r)' = Q /\ max' + r + 1 = c
    BY <1>1, <1>2, <2>1
  <2>3. /\ Partly(R, Q, r, c)' <=> Partly(R, Q, r, c)
        /\ Sound(R, r)' <=> Sound(R, r)
        /\ Furthest(R, r)' <=> Furthest(R, r)
        /\ Open(R, r)' <=> Open(R, r)
    BY SameFiles
  <2> QED
    BY <2>1, <2>2, <2>3 DEF Complete
<1> QED
  BY <1>2, <1>3, <1>4

\* What is known of the script found stays too.
LEMMA SameFound ==
  ASSUME Typed, Found, phase # "search", UNCHANGED <<file1, file2, trace>>
  PROVE  Found'
<1>1. Places' = Places /\ max' = max /\ Alignments' = Alignments /\ \A r : Diagonals(r)' = Diagonals(r)
  BY SameFiles
<1>2. PICK c : c = Changes
  OBVIOUS
<1>3. Changes' = c /\ (\A r : Earlier(r)' = Earlier(r)) /\ \A r : Complete(r)' <=> Complete(r)
  BY <1>2, SameRounds
<1>4. /\ c \in 0 .. max
      /\ \A r \in 0 .. c - 1 : Complete(r)
      /\ \A i \in Places \ Diagonals(c) : trace[c + 1][i] = Earlier(c)[i]
      /\ \A A \in Alignments : max - 2 * Cardinality(A) >= c
  BY <1>2 DEF Found
<1>5. /\ c \in 0 .. max'
      /\ \A r \in 0 .. c - 1 : Complete(r)'
      /\ \A i \in (Places \ Diagonals(c))' : trace'[c + 1][i] = Earlier(c)'[i]
      /\ \A A \in Alignments' : max' - 2 * Cardinality(A) >= c
  BY <1>1, <1>3, <1>4
<1> QED
  BY <1>3, <1>5 DEF Found

\* A changed line is taken off, with the equal lines after it.
LEMMA Returns ==
  ASSUME DiffInv, Back
  PROVE  DiffInv'
<1>1. Typed /\ Found /\ Returning /\ phase = "back" /\ UNCHANGED <<file1, file2, trace, phase>>
  BY DEF DiffInv, Back
<1>2. PICK e, i, R, Q, z, c, s, x : /\ e = d /\ i = k /\ R = trace[d + 1] /\ Q = Earlier(d) /\ z = max
                                    /\ c = Changes /\ s = lines /\ x = R[i]
  OBVIOUS
<1>3. /\ e \in 0 .. c /\ i \in Diagonals(e) /\ x = Far(Q, e, i)
      /\ x \in 0 .. n /\ x + max - i \in 0 .. m
      /\ Spells(s, x, x + max - i) /\ Len(With(s, {"-", "+"})) = c - e
  BY <1>1, <1>2 DEF Returning
<1>4. /\ c \in 0 .. max /\ \A r \in 0 .. c - 1 : Complete(r)
      /\ \A j \in Places \ Diagonals(c) : trace[c + 1][j] = Earlier(c)[j]
  BY <1>1, <1>2 DEF Found
<1>5. e > 0 /\ z \in Nat /\ c \in 0 .. z /\ e \in 1 .. z /\ e \in 0 .. max
  <2>1. e > 0 /\ z \in Nat
    BY <1>1, <1>2, Sizes DEF Back
  <2> QED
    BY <1>2, <1>3, <1>4, <2>1
<1>6. c = Len(trace) - 1 /\ Len(trace) \in Nat
  BY <1>1, <1>2, LenProperties DEF Changes, Typed
<1>7. Q \in Rows /\ Sound(Q, e - 1)
  <2>1. e <= Len(trace) /\ e \in Nat /\ e # 0
    BY <1>3, <1>5, <1>6
  <2>2. \A r \in 0 .. e - 1 : r \in 0 .. c - 1
    BY <1>3, <1>5
  <2> QED
    BY <1>1, <1>2, <1>4, <2>1, <2>2, EarlierRow
<1>8. R \in Rows
  <2>1. e + 1 \in 1 .. Len(trace)
    BY <1>3, <1>5, <1>6
  <2> QED
    BY <1>1, <1>2, <2>1, ElementOfSeq DEF Typed
<1>9. \A j \in Places \ Diagonals(e) : R[j] = Q[j]
  <2>1. CASE e = c
    BY <1>2, <1>4, <2>1
  <2>2. CASE e # c
    <3>1. e \in 0 .. c - 1
      BY <1>3, <1>5, <2>2
    <3>2. Partly(R, Q, e, max + e + 1)
      BY <1>2, <1>4, <3>1 DEF Complete
    <3> QED
      BY <3>2 DEF Partly
  <2> QED
    BY <2>1, <2>2
<1>10. Down(R, e, i) <=> Down(Q, e, i)
  BY <1>1, <1>3, <1>5, <1>8, <1>9, Reads
<1>11. PICK p : p = IF Down(Q, e, i) THEN i + 1 ELSE i - 1
  OBVIOUS
<1>12. /\ p \in Diagonals(e - 1) /\ p \in Places /\ p \notin Diagonals(e)
       /\ Led(Q[p], Q[p] + max - p, e - 1)
       /\ \E f, w, u \in Nat : Came(Q, e, i, p, f, w, u)
  <2>1. e \in 1 .. max
    BY <1>2, <1>5
  <2> QED
    BY <1>1, <1>3, <1>7, <1>11, <2>1, Before
<1>13. PICK f \in Nat, w \in Nat, u \in Nat :
         /\ w = f + z - i /\ x = f + u /\ x + z - i = w + u
         /\ \A j \in 1 .. u : f + j <= n /\ w + j <= m /\ file1[f + j] = file2[w + j]
         /\ IF Down(Q, e, i) THEN f = Q[p] /\ w = Q[p] + z - p + 1
            ELSE f = Q[p] + 1 /\ w = Q[p] + z - p
  <2>1. PICK f \in Nat, w \in Nat, u \in Nat : Came(Q, e, i, p, f, w, u)
    BY <1>12
  <2>2. /\ w = f + z - i /\ x = f + u /\ x + z - i = w + u
        /\ \A j \in 1 .. u : f + j <= n /\ w + j <= m /\ file1[f + j] = file2[w + j]
        /\ IF Down(Q, e, i) THEN f = Q[p] /\ w = Q[p] + z - p + 1
           ELSE f = Q[p] + 1 /\ w = Q[p] + z - p
    BY <1>2, <1>3, <2>1 DEF Came
  <2> QED
    BY <2>2, Zenon
<1>14. PICK a, b : a = Q[p] /\ b = a + z - p
  OBVIOUS
<1>15. a \in Nat /\ b \in Nat
  BY <1>2, <1>12, <1>14 DEF Led
<1>16. R[p] = a
  BY <1>9, <1>12, <1>14
<1>17. i \in Int /\ p \in Int /\ n \in Nat /\ m \in Nat
  BY <1>1, <1>3, <1>5, <1>11, Beside, Sizes
<1>18. /\ x <= n /\ w + u <= m /\ f + u = x /\ f <= n /\ w <= m
  BY <1>2, <1>3, <1>13, <1>17
<1>19. PICK g, h : g = Same(f, f + u) \o s /\ h = IF Down(Q, e, i) THEN <<"+", file2[b + 1]>> ELSE <<"-", file1[a + 1]>>
  OBVIOUS
<1>20. lines' = <<h>> \o g /\ d' = e - 1 /\ k' = p
  <2>1. Inserts(trace[d + 1]) <=> Down(Q, e, i)
    BY <1>2, <1>10 DEF Inserts, Down
  <2>2. (IF Inserts(trace[d + 1]) THEN k + 1 ELSE k - 1) = p
    BY <1>2, <1>11, <2>1
  <2>3. Max({0, Min({x - a, x - i - a + p})}) = u
    <3>1. CASE Down(Q, e, i)
      <4>1. f = a /\ p = i + 1
        BY <1>11, <1>13, <1>14, <3>1
      <4>2. x - a = u /\ x - i - a + p = u + 1
        BY <1>13, <1>15, <1>17, <4>1
      <4> QED
        BY <4>2, Lesser
    <3>2. CASE ~Down(Q, e, i)
      <4>1. f = a + 1 /\ p = i - 1
        BY <1>11, <1>13, <1>14, <3>2
      <4>2. x - a = u + 1 /\ x - i - a + p = u
        BY <1>13, <1>15, <1>17, <4>1
      <4> QED
        BY <4>2, Lesser
    <3> QED
      BY <3>1, <3>2
  <2>4. (IF x - u > a THEN <<"-", file1[x - u]>> ELSE <<"+", file2[x + max - i - u]>>) = h
    <3>1. x - u = f /\ x + z - i - u = w
      BY <1>5, <1>13, <1>17
    <3>2. CASE Down(Q, e, i)
      <4>1. f = a /\ w = b + 1 /\ ~(f > a)
        BY <1>13, <1>14, <1>15, <3>2
      <4>2. h = <<"+", file2[b + 1]>>
        BY <1>19, <3>2
      <4>3. x + max - i - u = b + 1 /\ ~(x - u > a)
        BY <1>2, <3>1, <4>1
      <4> QED
        BY <4>2, <4>3
    <3>3. CASE ~Down(Q, e, i)
      <4>1. f = a + 1 /\ f > a
        BY <1>13, <1>14, <1>15, <3>3
      <4>2. h = <<"-", file1[a + 1]>>
        BY <1>19, <3>3
      <4>3. x - u = a + 1 /\ x - u > a
        BY <3>1, <4>1
      <4> QED
        BY <4>2, <4>3
    <3> QED
      BY <3>2, <3>3
  <2>5. Same(x - u, x) = Same(f, f + u)
    <3>1. x - u = f /\ x = f + u
      BY <1>13
    <3> QED
      BY <3>1
  <2>6. /\ lines' = <<h>> \o Same(f, f + u) \o s
        /\ d' = e - 1 /\ k' = p
    <3>1. PICK q, v : q = (IF Inserts(trace[d + 1]) THEN k + 1 ELSE k - 1) /\ v = trace[d + 1]
      OBVIOUS
    <3>2. PICK t, l :
            /\ t = Max({0, Min({v[k] - v[q], v[k] - k - v[q] + q})})
            /\ l = IF v[k] - t > v[q] THEN <<"-", file1[v[k] - t]>>
                   ELSE <<"+", file2[v[k] + max - k - t]>>
      OBVIOUS
    <3>3. lines' = <<l>> \o Same(v[k] - t, v[k]) \o lines /\ d' = d - 1 /\ k' = q
      BY <3>1, <3>2 DEF Back
    <3>4. q = p /\ v[q] = a /\ v[k] = x /\ k = i /\ d = e /\ lines = s
      BY <1>2, <1>16, <2>2, <3>1
    <3>5. t = u
      BY <2>3, <3>2, <3>4
    <3>6. l = h
      BY <2>4, <3>2, <3>4, <3>5
    <3> QED
      BY <2>5, <3>3, <3>4, <3>5, <3>6
  <2> QED
    BY <1>19, <2>6
<1>21. g \in Script /\ Spells(g, f, w) /\ Len(With(g, {"-", "+"})) = c - e
  <2>1. s \in Script /\ Spells(s, f + u, w + u)
    <3>1. x + max - i = w + u
      BY <1>2, <1>13
    <3> QED
      BY <1>1, <1>2, <1>3, <1>13, <3>1 DEF Typed
  <2>2. f + u <= n /\ w + u <= m /\ \A j \in 1 .. u : file1[f + j] = file2[w + j]
    BY <1>13, <1>17, <1>18
  <2>3. /\ Same(f, f + u) \o s \in Script /\ Spells(Same(f, f + u) \o s, f, w)
        /\ With(Same(f, f + u) \o s, {"-", "+"}) = With(s, {"-", "+"})
    BY <1>1, <2>1, <2>2, Passed
  <2> QED
    BY <1>3, <1>19, <2>3
<1>22. PICK t : t = <<h>> \o g
  OBVIOUS
<1>23. /\ t \in Script /\ Spells(t, a, b) /\ Len(With(t, {"-", "+"})) = 1 + (c - e)
       /\ a \in 0 .. n /\ b \in 0 .. m
  <2>1. CASE Down(Q, e, i)
    <3>1. f = a /\ w = b + 1 /\ h = <<"+", file2[b + 1]>>
      BY <1>13, <1>14, <1>15, <1>19, <2>1
    <3>2. b + 1 <= m /\ Spells(g, a, b + 1)
      BY <1>18, <1>21, <3>1
    <3>3. /\ t \in Script /\ Spells(t, a, b)
          /\ Len(With(t, {"-", "+"})) = 1 + Len(With(g, {"-", "+"}))
      BY <1>1, <1>15, <1>21, <1>22, <3>1, <3>2, Inserted
    <3> QED
      BY <1>15, <1>17, <1>18, <1>21, <3>1, <3>2, <3>3
  <2>2. CASE ~Down(Q, e, i)
    <3>1. f = a + 1 /\ w = b /\ h = <<"-", file1[a + 1]>>
      BY <1>13, <1>14, <1>15, <1>19, <2>2
    <3>2. a + 1 <= n /\ Spells(g, a + 1, b)
      BY <1>18, <1>21, <3>1
    <3>3. /\ t \in Script /\ Spells(t, a, b)
          /\ Len(With(t, {"-", "+"})) = 1 + Len(With(g, {"-", "+"}))
      BY <1>1, <1>15, <1>21, <1>22, <3>1, <3>2, Deleted
    <3> QED
      BY <1>15, <1>17, <1>18, <1>21, <3>1, <3>2, <3>3
  <2> QED
    BY <2>1, <2>2
<1>24. Typed'
  <2>1. Rows' = Rows /\ max' = max
    BY <1>1, SameFiles
  <2> QED
    BY <1>1, <1>20, <1>22, <1>23, <2>1 DEF Typed
<1>25. Found'
  BY <1>1, SameFound
<1>26. Returning'
  <2>1. PICK r : r = e - 1
    OBVIOUS
  <2>2. r \in 0 .. c /\ r \in 0 .. c - 1 /\ r + 1 = e /\ r # e /\ r \in 0 .. max
    BY <1>2, <1>3, <1>5, <2>1
  <2>3. trace[r + 1] = Q /\ p \in Diagonals(r)
    BY <1>2, <1>5, <1>12, <2>1, <2>2 DEF Earlier
  <2>4. a = Far(Earlier(r), r, p)
    <3>1. Partly(Q, Earlier(r), r, max + r + 1)
      BY <1>4, <2>2, <2>3 DEF Complete
    <3>2. p \in z - r .. z + r
      BY <1>1, <1>2, <2>2, <2>3, Beside DEF Reach
    <3>3. p < z + r + 1
      BY <1>5, <1>17, <2>2, <3>2
    <3> QED
      BY <1>2, <1>12, <1>14, <2>3, <3>1, <3>3 DEF Partly
  <2>5. PICK E : E = Earlier(r)
    OBVIOUS
  <2>6. /\ Changes' = c /\ Earlier(r)' = E /\ max' = z
        /\ p \in Diagonals(r)' /\ a = Far(E, r, p)' /\ Spells(t, a, b)'
        /\ a \in 0 .. n' /\ b \in 0 .. m'
    BY <1>1, <1>2, <1>23, <2>3, <2>4, <2>5, SameFiles, SameRounds
  <2>7. d' = r /\ k' = p /\ lines' = t /\ trace'[r + 1][p] = a
    BY <1>1, <1>14, <1>20, <1>22, <2>1, <2>3
  <2>8. 1 + (c - e) = c - r
    BY <1>5, <2>1
  <2>9. Len(With(t, {"-", "+"})) = c - r
    BY <1>23, <2>8
  <2> QED
    BY <1>14, <2>2, <2>6, <2>7, <2>9 DEF Returning
<1>27. phase' = "back"
  BY <1>1
<1> QED
  BY <1>24, <1>25, <1>26, <1>27 DEF DiffInv, Searching, Ready

\* The equal lines that both files begin with come last.
LEMMA Finishes ==
  ASSUME DiffInv, Finish
  PROVE  DiffInv'
<1>1. /\ Typed /\ Found /\ Returning /\ phase = "back" /\ phase' = "done" /\ d = 0
      /\ UNCHANGED <<file1, file2, trace>>
  BY DEF DiffInv, Finish
<1>2. PICK i, Q, s, x, z, c : i = k /\ Q = Earlier(0) /\ s = lines /\ x = trace[1][k] /\ z = max /\ c = Changes
  OBVIOUS
<1>3. /\ i \in Diagonals(0) /\ x = Far(Q, 0, i) /\ x \in 0 .. n /\ x + max - i \in 0 .. m
      /\ Spells(s, x, x + max - i) /\ Len(With(s, {"-", "+"})) = c - 0 /\ c \in 0 .. max
  <2>1. trace[0 + 1][k] = x
    BY <1>2
  <2> QED
    BY <1>1, <1>2, <2>1 DEF Returning, Found
<1>4. z \in Nat /\ 0 \in 0 .. max /\ c \in 0 .. z /\ n \in Nat /\ m \in Nat
  BY <1>1, <1>2, <1>3, Sizes
<1>5. i = z
  BY <1>2, <1>3, <1>4 DEF Diagonals
<1>6. Q = [j \in Places |-> 0] /\ Q \in Rows
  BY <1>2 DEF Earlier, Rows
<1>7. From(Q, 0, i) = 0
  <2>1. Down(Q, 0, i)
    BY <1>2, <1>4, <1>5 DEF Down
  <2>2. i + 1 \in Places
    <3>1. z > 0
      BY <1>1, <1>2, Sizes
    <3> QED
      BY <1>2, <1>4, <1>5, <3>1 DEF Places
  <2> QED
    BY <1>6, <2>1, <2>2 DEF From
<1>8. Led(From(Q, 0, i), From(Q, 0, i) + max - i, 0)
  BY <1>1, <1>3, <1>4, <1>6, Onward
<1>9. PICK f \in Nat, y \in Nat, u \in Nat :
        /\ f = From(Q, 0, i) /\ y = f + max - i /\ Far(Q, 0, i) = f + u
        /\ Far(Q, 0, i) + max - i = y + u
        /\ \A j \in 1 .. u : f + j <= n /\ y + j <= m /\ file1[f + j] = file2[y + j]
  <2>1. PICK r : r = 0
    OBVIOUS
  <2>2. r \in 0 .. max /\ i \in Diagonals(r) /\ Led(From(Q, r, i), From(Q, r, i) + max - i, r)
    BY <1>3, <1>4, <1>8, <2>1
  <2>3. \E f, y, u \in Nat :
          /\ f = From(Q, r, i) /\ y = f + max - i /\ Far(Q, r, i) = f + u
          /\ Far(Q, r, i) + max - i = y + u
          /\ \A j \in 1 .. u : f + j <= n /\ y + j <= m /\ file1[f + j] = file2[y + j]
          /\ ~(f + u + 1 <= n /\ y + u + 1 <= m /\ file1[f + u + 1] = file2[y + u + 1])
    BY <1>1, <1>6, <2>2, FarSlides
  <2> QED
    BY <2>1, <2>3
<1>10. f = 0 /\ y = 0 /\ x = 0 + u /\ x + max - i = 0 + u
  BY <1>2, <1>3, <1>4, <1>5, <1>7, <1>9
<1>11. 0 + u <= n /\ 0 + u <= m /\ \A j \in 1 .. u : file1[0 + j] = file2[0 + j]
  BY <1>3, <1>4, <1>9, <1>10
<1>12. PICK t : t = Same(0, 0 + u) \o s
  OBVIOUS
<1>13. t \in Script /\ Spells(t, 0, 0) /\ With(t, {"-", "+"}) = With(s, {"-", "+"})
  <2>1. s \in Script /\ Spells(s, 0 + u, 0 + u)
    BY <1>1, <1>2, <1>3, <1>10 DEF Typed
  <2> QED
    BY <1>1, <1>11, <1>12, <2>1, Passed
<1>14. lines' = t
  BY <1>2, <1>10, <1>12 DEF Finish
<1>15. Typed'
  <2>1. Rows' = Rows /\ max' = max
    BY <1>1, SameFiles
  <2> QED
    BY <1>1, <1>13, <1>14, <2>1 DEF Typed
<1>16. Found'
  BY <1>1, SameFound
<1>17. Ready'
  <2>1. Changes' = c /\ Spells(t, 0, 0)'
    BY <1>1, <1>2, <1>13, SameFiles, SameRounds
  <2>2. Len(With(t, {"-", "+"})) = c
    BY <1>3, <1>4, <1>13
  <2> QED
    BY <1>14, <2>1, <2>2 DEF Ready
<1> QED
  BY <1>1, <1>15, <1>16, <1>17 DEF DiffInv, Searching, Returning

\* The invariant holds in every state.
LEMMA DiffHolds == Spec => []DiffInv
<1>1. Init => DiffInv
  BY Begins
<1>2. DiffInv /\ [Next]_vars => DiffInv'
  <2> SUFFICES ASSUME DiffInv, [Next]_vars
               PROVE  DiffInv'
    OBVIOUS
  <2>1. CASE UNCHANGED vars
    <3>1. Typed /\ UNCHANGED <<file1, file2, trace, phase, d, k, del, lines>>
      BY <2>1 DEF vars, DiffInv
    <3>2. Typed'
      <4>1. Rows' = Rows /\ max' = max
        BY <3>1, SameFiles
      <4> QED
        BY <3>1, <4>1 DEF Typed
    <3>3. PICK e, i, s, R, Q, c : e = d /\ i = k /\ s = lines /\ R = del /\ Q = Earlier(d) /\ c = Changes
      OBVIOUS
    <3>4. /\ e = d' /\ i = k' /\ s = lines' /\ R = del' /\ Q = Earlier(d)' /\ c = Changes'
          /\ max' = max /\ n' = n /\ m' = m /\ \A r : Complete(r)' <=> Complete(r)
      BY <3>1, <3>3, SameFiles, SameRounds
    <3>5. Searching'
      <4> SUFFICES ASSUME phase = "search"
                   PROVE  Searching'
        BY <3>1 DEF Searching
      <4>1. /\ e = Len(trace) /\ i \in Diagonals(e) /\ s = <<>> /\ Partly(R, Q, e, i)
            /\ \A j \in Diagonals(e) : j < i => ~Ends(R, j)
            /\ \A r \in 0 .. e - 1 : Complete(r)
        BY <3>3 DEF DiffInv, Searching
      <4>2. /\ i \in Diagonals(e)' /\ Partly(R, Q, e, i)'
            /\ \A j \in Diagonals(e)' : j < i => ~Ends(R, j)'
        BY <3>1, <4>1, SameFiles
      <4> QED
        BY <3>1, <3>4, <4>1, <4>2 DEF Searching
    <3>6. Found'
      BY <3>1, SameFound DEF DiffInv, Found
    <3>7. Returning'
      <4> SUFFICES ASSUME phase = "back"
                   PROVE  Returning'
        BY <3>1 DEF Returning
      <4>1. PICK x, y : x = trace[e + 1][i] /\ y = x + max - i
        OBVIOUS
      <4>2. /\ e \in 0 .. c /\ i \in Diagonals(e) /\ x = Far(Q, e, i) /\ x \in 0 .. n /\ y \in 0 .. m
            /\ Spells(s, x, y) /\ Len(With(s, {"-", "+"})) = c - e
        BY <3>3, <4>1 DEF DiffInv, Returning
      <4>3. i \in Diagonals(e)' /\ x = Far(Q, e, i)' /\ Spells(s, x, y)'
        BY <3>1, <4>2, SameFiles
      <4> QED
        BY <3>1, <3>4, <4>1, <4>2, <4>3 DEF Returning
    <3>8. Ready'
      <4> SUFFICES ASSUME phase = "done"
                   PROVE  Ready'
        BY <3>1 DEF Ready
      <4>1. Spells(s, 0, 0) /\ Len(With(s, {"-", "+"})) = c
        BY <3>3 DEF DiffInv, Ready
      <4>2. Spells(s, 0, 0)'
        BY <3>1, <4>1, SameFiles
      <4> QED
        BY <3>4, <4>1, <4>2 DEF Ready
    <3> QED
      BY <3>2, <3>5, <3>6, <3>7, <3>8 DEF DiffInv
  <2>2. CASE Search
    BY <2>2, Searches
  <2>3. CASE Back
    BY <2>3, Returns
  <2>4. CASE Finish
    BY <2>4, Finishes
  <2> QED
    BY <2>1, <2>2, <2>3, <2>4 DEF Next
<1> QED
  BY <1>1, <1>2, PTL DEF Spec

\* diff ends with a script that spells both files and that no other script beats
\* in the number of lines it changes.
THEOREM ScriptsRight == Spec => []ScriptRight
<1>1. DiffInv => ScriptRight
  <2> SUFFICES ASSUME DiffInv, phase = "done"
               PROVE  /\ With(lines, {Blank, "-"}) = file1
                      /\ With(lines, {Blank, "+"}) = file2
                      /\ \A A \in Alignments : Len(With(lines, {"-", "+"})) <= max - 2 * Cardinality(A)
    BY DEF ScriptRight
  <2>1. Typed /\ Found /\ Spells(lines, 0, 0) /\ Len(With(lines, {"-", "+"})) = Changes
    BY DEF DiffInv, Ready
  <2>2. SubSeq(file1, 0 + 1, n) = file1 /\ SubSeq(file2, 0 + 1, m) = file2
    <3>1. SubSeq(file1, 1, n) = file1 /\ SubSeq(file2, 1, m) = file2
      BY <2>1, SubSeqFull DEF Typed, n, m
    <3>2. 0 + 1 = 1
      OBVIOUS
    <3> QED
      BY <3>1, <3>2
  <2>3. PICK z, c : z = max /\ c = Changes
    OBVIOUS
  <2>4. z \in Nat /\ c \in 0 .. z /\ \A A \in Alignments : z - 2 * Cardinality(A) >= c
    BY <2>1, <2>3, Sizes DEF Found
  <2>5. \A A \in Alignments : Cardinality(A) \in Nat
    <3> SUFFICES ASSUME NEW A \in Alignments
                 PROVE  Cardinality(A) \in Nat
      OBVIOUS
    <3>1. n \in Nat /\ m \in Nat /\ n >= n /\ m >= m
      BY <2>1, Sizes
    <3>2. A \in Below(n, m)
      BY <2>1, <3>1, AllBelow
    <3> QED
      BY <2>1, <3>1, <3>2, Few
  <2>6. \A A \in Alignments : c <= z - 2 * Cardinality(A)
    BY <2>4, <2>5
  <2> QED
    BY <2>1, <2>2, <2>3, <2>6 DEF Spells
<1> QED
  BY <1>1, DiffHolds, PTL

-----------------------------------------------------------------------------
(***************************************************************************)
(* The end of the search.                                                  *)
(***************************************************************************)
\* A script that deletes all of file1 and inserts all of file2 is found in
\* round max at the latest: that round ends on the diagonal of both ends.
LEMMA RoundsSuffice ==
  ASSUME DiffInv, phase = "search"
  PROVE  d \in Nat /\ d <= max
<1>1. Typed /\ n \in Nat /\ m \in Nat /\ max \in Nat /\ max = n + m
  BY Sizes DEF DiffInv
<1>2. d = Len(trace) /\ d \in Nat /\ \A r \in 0 .. d - 1 : Complete(r)
  BY LenProperties DEF DiffInv, Typed, Searching
<1>3. PICK e, z, u, v : e = d /\ z = max /\ u = n /\ v = m
  OBVIOUS
<1>4. e \in Nat /\ z \in Nat /\ u \in Nat /\ v \in Nat /\ z = u + v
  BY <1>1, <1>2, <1>3
<1>5. SUFFICES ASSUME e > z
               PROVE  FALSE
  BY <1>2, <1>3, <1>4
<1>6. z \in 0 .. e - 1
  BY <1>4, <1>5
<1>7. PICK R : R = trace[z + 1]
  OBVIOUS
<1>8. Furthest(R, z) /\ Open(R, z) /\ R \in Rows
  BY <1>2, <1>3, <1>6, <1>7 DEF Complete, Partly
<1>9. {} \in Below(u, v)
  BY DEF Below, Alignments
<1>10. Cost(u, v, {}) <= z
  <2>1. Cardinality({}) = 0
    BY FS_EmptySet
  <2> QED
    BY <1>4, <2>1 DEF Cost
<1>11. z + u - v \in Reach(z) /\ u <= R[z + u - v]
  <2>1. u \in 0 .. n /\ v \in 0 .. m
    BY <1>1, <1>3
  <2> QED
    BY <1>3, <1>8, <1>9, <1>10, <2>1 DEF Furthest
<1>12. PICK i : i = z + u - v
  OBVIOUS
<1>13. R[i] \in Int
  <2>1. i \in Places
    BY <1>3, <1>4, <1>12 DEF Places
  <2> QED
    BY <1>8, <2>1 DEF Rows
<1>14. Ends(R, i)
  <2>1. PICK x \in Int : x = R[i]
    BY <1>13
  <2>2. x >= u /\ x + z - i >= v
    BY <1>4, <1>11, <1>12, <2>1
  <2> QED
    BY <1>3, <2>1, <2>2 DEF Ends
<1> QED
  BY <1>8, <1>11, <1>12, <1>14 DEF Open

\* The steps that are left at most: more in a round than all steps of the
\* rounds behind it, and one on the way back for each changed line.
StepsLeft ==
  CASE phase = "search" -> (max + 1 - d) * (2 * max + 3) + max + d - k
    [] phase = "back"   -> d + 1
    [] OTHER            -> 0

\* It is a number.
LEMMA StepsNumber ==
  ASSUME DiffInv
  PROVE  StepsLeft \in Nat
<1>1. Typed /\ phase \in {"search", "back", "done"}
  BY DEF DiffInv, Typed
<1>2. PICK e, i, z : e = d /\ i = k /\ z = max
  OBVIOUS
<1>3. z \in Nat
  BY <1>1, <1>2, Sizes
<1>4. CASE phase = "search"
  <2>1. e \in Nat /\ e <= z
    BY <1>2, <1>4, RoundsSuffice
  <2>2. PICK j \in 0 .. e : i = max - e + 2 * j
    BY <1>2, <1>4 DEF DiffInv, Searching, Diagonals
  <2>3. z + e - i \in Nat
    BY <1>2, <1>3, <2>1, <2>2
  <2>4. PICK a \in Nat, b \in Nat : a = z + 1 - e /\ b = 2 * z + 3
    BY <1>3, <2>1
  <2>5. PICK c \in Nat : c = a * b
    BY <2>4
  <2>6. StepsLeft = c + z + e - i
    BY <1>2, <1>4, <2>4, <2>5 DEF StepsLeft
  <2>7. i \in Int
    BY <1>2, <1>3, <2>1, <2>2
  <2> QED
    BY <1>3, <2>1, <2>3, <2>6, <2>7
<1>5. CASE phase = "back"
  <2>1. d \in Nat
    BY <1>5 DEF DiffInv, Returning
  <2> QED
    BY <1>5, <2>1 DEF StepsLeft
<1>6. CASE phase = "done"
  BY <1>6 DEF StepsLeft
<1> QED
  BY <1>1, <1>4, <1>5, <1>6

\* Every step takes from it.
LEMMA StepsFewer ==
  ASSUME DiffInv, Next
  PROVE  StepsLeft' < StepsLeft
<1>1. Typed /\ StepsLeft \in Nat /\ UNCHANGED <<file1, file2>>
  BY StepsNumber DEF DiffInv, Next, Search, Back, Finish
<1>2. PICK e, i, z : e = d /\ i = k /\ z = max
  OBVIOUS
<1>3. z \in Nat /\ max' = z
  BY <1>1, <1>2, Sizes DEF max, n, m
<1>4. CASE Search
  <2>1. phase = "search" /\ e \in Nat /\ e <= z
    BY <1>2, <1>4, RoundsSuffice DEF Search
  <2>2. PICK j \in 0 .. e : i = z - e + 2 * j
    BY <1>2, <2>1 DEF DiffInv, Searching, Diagonals
  <2>3. i \in Int /\ i <= z + e
    BY <1>3, <2>1, <2>2
  <2>4. PICK a \in Nat \ {0}, b \in Nat : a = z + 1 - e /\ b = 2 * z + 3
    BY <1>3, <2>1
  <2>5. PICK c \in Nat : c = (a - 1) * b
    BY <2>4
  <2>6. a * b = c + b
    BY <2>4, <2>5
  <2>7. StepsLeft = c + b + z + e - i
    BY <1>2, <2>1, <2>4, <2>6 DEF StepsLeft
  <2>8. CASE phase' = "back" /\ d' = e
    <3>1. StepsLeft' = e + 1
      BY <2>8 DEF StepsLeft
    <3> QED
      BY <1>3, <2>1, <2>3, <2>4, <2>7, <3>1
  <2>9. CASE phase' = "search" /\ i = z + e /\ d' = e + 1 /\ k' = z - e - 1
    <3>1. z + 1 - (e + 1) = a - 1
      BY <1>3, <2>1, <2>4
    <3>2. StepsLeft' = c + z + (e + 1) - (z - e - 1)
      BY <1>3, <2>4, <2>5, <2>9, <3>1 DEF StepsLeft
    <3> QED
      BY <1>3, <2>1, <2>4, <2>7, <2>9, <3>2
  <2>10. CASE phase' = "search" /\ d' = e /\ k' = i + 2
    <3>1. StepsLeft' = a * b + z + e - (i + 2)
      BY <1>3, <2>4, <2>10 DEF StepsLeft
    <3> QED
      BY <1>3, <2>1, <2>3, <2>4, <2>6, <2>7, <3>1
  <2> QED
    BY <1>2, <1>4, <2>1, <2>8, <2>9, <2>10 DEF Search
<1>5. CASE Back
  <2>1. phase = "back" /\ phase' = "back" /\ d' = e - 1
    BY <1>2, <1>5 DEF Back
  <2>2. e \in Nat
    BY <1>2, <2>1 DEF DiffInv, Returning
  <2> QED
    BY <1>2, <2>1, <2>2 DEF StepsLeft
<1>6. CASE Finish
  BY <1>6 DEF Finish, StepsLeft
<1> QED
  BY <1>4, <1>5, <1>6 DEF Next

\* The rounds never run out before a script is found, and every step takes one
\* off a number of steps that was fixed by the sizes of the files: diff cannot
\* go on for ever, and stops nowhere but at its end.
THEOREM DiffBounded ==
  Spec => /\ [](phase = "search" => d <= LastRound)
          /\ [](StepsLeft \in Nat)
          /\ [][StepsLeft' < StepsLeft]_vars
<1>1. DiffInv => (phase = "search" => d <= LastRound) /\ StepsLeft \in Nat
  BY RoundsSuffice, StepsNumber DEF LastRound
<1>2. DiffInv /\ [Next]_vars => [StepsLeft' < StepsLeft]_vars
  BY StepsFewer
<1> QED
  BY <1>1, <1>2, DiffHolds, PTL DEF Spec

-----------------------------------------------------------------------------
(***************************************************************************)
(* What merge writes, and what is read from it.                            *)
(***************************************************************************)
Words == Line \cup {"<<<", "===", ">>>"}
Text == Seq(Words)
Written == [text : Text, marker : 1 .. 3]
Readings == [on : SUBSET {"ours", "theirs"}, ours : Seq(Line), theirs : Seq(Line)]
Apart == Line \cap {"<<<", "===", ">>>"} = {}

\* The sides that are on, by the marker.
On == <<{"ours", "theirs"}, {"ours"}, {"theirs"}>>

\* The markers and the signs.
LEMMA Markers ==
  /\ Marks[1] = "<<<" /\ Marks[2] = "===" /\ Marks[3] = ">>>"
  /\ \A i \in 1 .. 3 : Marks[i] \in Words
  /\ On[1] = {"ours", "theirs"} /\ On[2] = {"ours"} /\ On[3] = {"theirs"}
  /\ Signs[1] = Blank /\ Signs[2] = "-" /\ Signs[3] = "+"
<1>1. Marks[1] = "<<<" /\ Marks[2] = "===" /\ Marks[3] = ">>>"
  BY DEF Marks
<1>2. \A i \in 1 .. 3 : i = 1 \/ i = 2 \/ i = 3
  OBVIOUS
<1>3. On[1] = {"ours", "theirs"} /\ On[2] = {"ours"} /\ On[3] = {"theirs"}
  BY DEF On
<1>4. Signs[1] = Blank /\ Signs[2] = "-" /\ Signs[3] = "+"
  BY DEF Signs
<1>5. \A i \in 1 .. 3 : Marks[i] \in Words
  BY <1>1, <1>2 DEF Words
<1> QED
  BY <1>1, <1>3, <1>4, <1>5

\* What a line adds to a reading.
LEMMA Reading ==
  ASSUME NEW r \in Readings, NEW l \in Words
  PROVE  /\ Read(r, l) \in Readings
         /\ l = "<<<" => Read(r, l) = [r EXCEPT !.on = {"ours"}]
         /\ l = "===" => Read(r, l) = [r EXCEPT !.on = {"theirs"}]
         /\ l = ">>>" => Read(r, l) = [r EXCEPT !.on = {"ours", "theirs"}]
         /\ Apart /\ l \in Line =>
              Read(r, l) = [r EXCEPT !.ours = IF "ours" \in r.on THEN Append(@, l) ELSE @,
                                     !.theirs = IF "theirs" \in r.on THEN Append(@, l) ELSE @]
<1>1. Marks[1] = "<<<" /\ Marks[2] = "===" /\ Marks[3] = ">>>"
  BY Markers
<1>2. CASE l = "<<<"
  <2>1. Read(r, l) = [r EXCEPT !.on = {"ours"}]
    BY <1>1, <1>2 DEF Read
  <2> QED
    BY <1>2, <2>1 DEF Readings, Apart
<1>3. CASE l = "==="
  <2>1. Read(r, l) = [r EXCEPT !.on = {"theirs"}]
    BY <1>1, <1>3 DEF Read
  <2> QED
    BY <1>3, <2>1 DEF Readings, Apart
<1>4. CASE l = ">>>"
  <2>1. Read(r, l) = [r EXCEPT !.on = {"ours", "theirs"}]
    BY <1>1, <1>4 DEF Read
  <2> QED
    BY <1>4, <2>1 DEF Readings, Apart
<1>5. CASE l # "<<<" /\ l # "===" /\ l # ">>>"
  <2>1. PICK a, b : /\ a = IF "ours" \in r.on THEN Append(r.ours, l) ELSE r.ours
                    /\ b = IF "theirs" \in r.on THEN Append(r.theirs, l) ELSE r.theirs
    OBVIOUS
  <2>2. Read(r, l) = [r EXCEPT !.ours = a, !.theirs = b]
    BY <1>1, <1>5, <2>1 DEF Read
  <2>3. l \in Line
    BY <1>5 DEF Words
  <2>4. r.ours \in Seq(Line) /\ r.theirs \in Seq(Line)
    BY DEF Readings
  <2>5. a \in Seq(Line) /\ b \in Seq(Line)
    BY <2>1, <2>3, <2>4, AppendProperties
  <2>6. Read(r, l) \in Readings
    BY <2>2, <2>5 DEF Readings
  <2> QED
    BY <1>5, <2>1, <2>2, <2>6
<1> QED
  BY <1>2, <1>3, <1>4, <1>5

\* A text is read word by word.
ReadsOn(f, s) == f[0] = Whole /\ \A i \in 1 .. Len(s) : f[i] = Read(f[i - 1], s[i])
ReadsOnAs(f, s) == f = [i \in 0 .. Len(s) |-> IF i = 0 THEN Whole ELSE Read(f[i - 1], s[i])]

\* Sides is where such a reading ends.
LEMMA ReadsOnSteps ==
  ASSUME NEW s \in Text
  PROVE  \E f \in [0 .. Len(s) -> Readings] : ReadsOn(f, s) /\ Sides(s) = f[Len(s)]
<1>1. PICK N \in Nat : N = Len(s)
  BY LenProperties DEF Text
<1>2. \A i \in 1 .. N : s[i] \in Words
  BY <1>1, ElementOfSeq DEF Text
<1>3. PICK h : h = [p \in Readings \X (1 .. N) |-> Read(p[1], s[p[2]])]
  OBVIOUS
<1>4. h \in [Readings \X (1 .. N) -> Readings]
  <2>1. \A r \in Readings, i \in 1 .. N : Read(r, s[i]) \in Readings
    BY <1>2, Reading
  <2> QED
    BY <1>3, <2>1
<1>5. Whole \in Readings
  BY DEF Whole, Readings
<1>6. PICK f \in [0 .. N -> Readings] : Recursive(f, Whole, h, N)
  BY <1>4, <1>5, Recursion
<1>7. f[0] = Whole /\ \A i \in 1 .. N : f[i] = Read(f[i - 1], s[i])
  <2> SUFFICES ASSUME NEW i \in 1 .. N
               PROVE  f[i] = Read(f[i - 1], s[i])
    BY <1>6 DEF Recursive
  <2>1. i - 1 \in 0 .. N
    OBVIOUS
  <2>2. <<f[i - 1], i>> \in Readings \X (1 .. N)
    BY <1>6, <2>1
  <2> QED
    BY <1>3, <1>6, <2>2 DEF Recursive
<1>8. ReadsOnAs(f, s)
  <2>1. \A i \in 0 .. N : i # 0 => i \in 1 .. N
    OBVIOUS
  <2> QED
    BY <1>1, <1>6, <1>7, <2>1 DEF ReadsOnAs
<1>9. \E g : ReadsOnAs(g, s) /\ Sides(s) = g[Len(s)]
  BY <1>8, Zenon DEF Sides, ReadsOnAs
<1>10. PICK g : ReadsOnAs(g, s) /\ Sides(s) = g[Len(s)]
  BY <1>9
<1>11. g[0] = Whole /\ \A i \in 1 .. N : g[i] = Read(g[i - 1], s[i])
  <2>1. \A i \in 1 .. N : i \in 0 .. N /\ i # 0
    OBVIOUS
  <2>2. 0 \in 0 .. N
    OBVIOUS
  <2> QED
    BY <1>1, <1>10, <2>1, <2>2 DEF ReadsOnAs
<1>12. f[0] = g[0] /\ \A i \in 1 .. N : f[i - 1] = g[i - 1] => f[i] = g[i]
  BY <1>7, <1>11
<1>13. f[N] = g[N]
  BY <1>12, SameRecursion
<1> QED
  BY <1>1, <1>6, <1>7, <1>10, <1>13 DEF ReadsOn

\* Nothing read, nothing is on either side.
LEMMA ReadsOnNone == Sides(<<>>) = Whole
<1>1. PICK e : e = <<>>
  OBVIOUS
<1>2. e \in Text /\ Len(e) = 0
  BY <1>1, EmptySeq DEF Text
<1>3. PICK f : ReadsOn(f, e) /\ Sides(e) = f[Len(e)]
  BY <1>2, ReadsOnSteps
<1> QED
  BY <1>1, <1>2, <1>3 DEF ReadsOn

\* A word more is one more read.
LEMMA ReadsOnAppend ==
  ASSUME NEW s \in Text, NEW l \in Words
  PROVE  Append(s, l) \in Text /\ Sides(s) \in Readings /\ Sides(Append(s, l)) = Read(Sides(s), l)
<1>1. PICK N \in Nat : N = Len(s)
  BY LenProperties DEF Text
<1>2. PICK t : t = Append(s, l)
  OBVIOUS
<1>3. t \in Text /\ Len(t) = N + 1 /\ t[N + 1] = l /\ \A i \in 1 .. N : t[i] = s[i]
  BY <1>1, <1>2, AppendProperties DEF Text
<1>4. PICK f \in [0 .. N -> Readings] : ReadsOn(f, s) /\ Sides(s) = f[N]
  BY <1>1, ReadsOnSteps
<1>5. PICK g : ReadsOn(g, t) /\ Sides(t) = g[N + 1]
  BY <1>3, ReadsOnSteps
<1>6. f[0] = g[0]
  BY <1>4, <1>5 DEF ReadsOn
<1>7. \A i \in 1 .. N : f[i - 1] = g[i - 1] => f[i] = g[i]
  <2>1. \A i \in 1 .. N : i \in 1 .. N + 1
    OBVIOUS
  <2> QED
    BY <1>1, <1>3, <1>4, <1>5, <2>1 DEF ReadsOn
<1>8. f[N] = g[N]
  BY <1>6, <1>7, SameRecursion
<1>9. g[N + 1] = Read(g[N], l)
  <2>1. N + 1 \in 1 .. N + 1 /\ N + 1 - 1 = N
    OBVIOUS
  <2> QED
    BY <1>3, <1>5, <2>1 DEF ReadsOn
<1>10. f[N] \in Readings
  BY <1>4
<1> QED
  BY <1>2, <1>3, <1>4, <1>5, <1>8, <1>9, <1>10

\* A move of the marker turns the side that is on.
LEMMA Turned ==
  ASSUME NEW w \in Written
  PROVE  /\ Advance(w) \in Written /\ Advance(w).marker = (w.marker % 3) + 1
         /\ \A S, T : Sides(w.text) = [on |-> On[w.marker], ours |-> S, theirs |-> T] =>
              Sides(Advance(w).text) = [on |-> On[Advance(w).marker], ours |-> S, theirs |-> T]
<1>1. PICK t, i : t = w.text /\ i = w.marker
  OBVIOUS
<1>2. t \in Text /\ i \in 1 .. 3
  BY <1>1 DEF Written
<1>3. PICK l : l = Marks[i]
  OBVIOUS
<1>4. l \in Words
  BY <1>2, <1>3, Markers
<1>5. Advance(w) = [text |-> Append(t, l), marker |-> (i % 3) + 1]
  BY <1>1, <1>3 DEF Advance
<1>6. /\ Append(t, l) \in Text /\ Sides(t) \in Readings
      /\ Sides(Append(t, l)) = Read(Sides(t), l)
  BY <1>2, <1>4, ReadsOnAppend
<1>7. i = 1 \/ i = 2 \/ i = 3
  BY <1>2
<1>8. /\ (i % 3) + 1 \in 1 .. 3
      /\ i = 1 => (i % 3) + 1 = 2
      /\ i = 2 => (i % 3) + 1 = 3
      /\ i = 3 => (i % 3) + 1 = 1
  BY <1>7
<1>9. Advance(w) \in Written
  BY <1>5, <1>6, <1>8 DEF Written
<1>10. ASSUME NEW S, NEW T, Sides(t) = [on |-> On[i], ours |-> S, theirs |-> T]
       PROVE  Sides(Append(t, l)) = [on |-> On[(i % 3) + 1], ours |-> S, theirs |-> T]
  <2>1. PICK r \in Readings : r = Sides(t)
    BY <1>6
  <2>2. r = [on |-> On[i], ours |-> S, theirs |-> T]
    BY <1>10, <2>1
  <2>3. CASE i = 1
    <3>1. Read(r, l) = [r EXCEPT !.on = {"ours"}]
      BY <1>3, <1>4, <2>3, Reading, Markers
    <3>2. On[(i % 3) + 1] = {"ours"}
      BY <1>8, <2>3, Markers
    <3>3. [r EXCEPT !.on = {"ours"}] = [on |-> {"ours"}, ours |-> S, theirs |-> T]
      BY <2>2
    <3> QED
      BY <1>6, <2>1, <3>1, <3>2, <3>3
  <2>4. CASE i = 2
    <3>1. Read(r, l) = [r EXCEPT !.on = {"theirs"}]
      BY <1>3, <1>4, <2>4, Reading, Markers
    <3>2. On[(i % 3) + 1] = {"theirs"}
      BY <1>8, <2>4, Markers
    <3>3. [r EXCEPT !.on = {"theirs"}] = [on |-> {"theirs"}, ours |-> S, theirs |-> T]
      BY <2>2
    <3> QED
      BY <1>6, <2>1, <3>1, <3>2, <3>3
  <2>5. CASE i = 3
    <3>1. Read(r, l) = [r EXCEPT !.on = {"ours", "theirs"}]
      BY <1>3, <1>4, <2>5, Reading, Markers
    <3>2. On[(i % 3) + 1] = {"ours", "theirs"}
      BY <1>8, <2>5, Markers
    <3>3. [r EXCEPT !.on = {"ours", "theirs"}] = [on |-> {"ours", "theirs"}, ours |-> S, theirs |-> T]
      BY <2>2
    <3> QED
      BY <1>6, <2>1, <3>1, <3>2, <3>3
  <2> QED
    BY <1>7, <2>3, <2>4, <2>5
<1> QED
  BY <1>1, <1>5, <1>9, <1>10

\* Nor do several moves, up to a given sign, change what was read.
LEMMA TurnedTo ==
  ASSUME NEW w \in Written, NEW x \in 1 .. 3
  PROVE  /\ Advanced(w, x) \in Written /\ Advanced(w, x).marker = x
         /\ \A S, T : Sides(w.text) = [on |-> On[w.marker], ours |-> S, theirs |-> T] =>
              Sides(Advanced(w, x).text) = [on |-> On[x], ours |-> S, theirs |-> T]
<1>1. PICK u, v : u = Advance(w) /\ v = Advance(u)
  OBVIOUS
<1>2. /\ u \in Written /\ u.marker = (w.marker % 3) + 1
      /\ \A S, T : Sides(w.text) = [on |-> On[w.marker], ours |-> S, theirs |-> T] =>
           Sides(u.text) = [on |-> On[u.marker], ours |-> S, theirs |-> T]
  BY <1>1, Turned
<1>3. /\ v \in Written /\ v.marker = (u.marker % 3) + 1
      /\ \A S, T : Sides(u.text) = [on |-> On[u.marker], ours |-> S, theirs |-> T] =>
           Sides(v.text) = [on |-> On[v.marker], ours |-> S, theirs |-> T]
  BY <1>1, <1>2, Turned
<1>4. w.marker = x \/ u.marker = x \/ v.marker = x
  <2>1. w.marker \in 1 .. 3
    BY DEF Written
  <2>2. PICK i \in 1 .. 3 : i = w.marker
    BY <2>1
  <2>3. i = 1 \/ i = 2 \/ i = 3
    OBVIOUS
  <2>4. x = 1 \/ x = 2 \/ x = 3
    OBVIOUS
  <2>5. u.marker = (i % 3) + 1
    BY <1>2, <2>2
  <2>6. v.marker = (((i % 3) + 1) % 3) + 1
    BY <1>3, <2>5
  <2> QED
    BY <2>2, <2>3, <2>4, <2>5, <2>6
<1>5. CASE w.marker = x
  BY <1>5 DEF Advanced
<1>6. CASE w.marker # x /\ u.marker = x
  <2>1. Advanced(w, x) = u
    BY <1>1, <1>6 DEF Advanced
  <2> QED
    BY <1>2, <1>6, <2>1
<1>7. CASE w.marker # x /\ u.marker # x
  <2>1. Advanced(w, x) = v /\ v.marker = x
    BY <1>1, <1>4, <1>7 DEF Advanced
  <2> QED
    BY <1>2, <1>3, <2>1
<1> QED
  BY <1>5, <1>6, <1>7

\* A line of the script is written where its side is on.
LEMMA PutAt ==
  ASSUME NEW w \in Written, NEW l \in Entry
  PROVE  \E x \in 1 .. 3, v \in Written :
           /\ Signs[x] = l[1] /\ v = Advanced(w, x) /\ v.marker = x /\ l[2] \in Line
           /\ Put(w, l) = [v EXCEPT !.text = Append(@, l[2])] /\ Put(w, l) \in Written
<1>1. l[1] \in {Blank, "-", "+"} /\ l[2] \in Line
  BY DEF Entry
<1>2. PICK x : x = CHOOSE i \in 1 .. 3 : Signs[i] = l[1]
  OBVIOUS
<1>3. x \in 1 .. 3 /\ Signs[x] = l[1]
  <2>1. \E i \in 1 .. 3 : Signs[i] = l[1]
    <3>1. 1 \in 1 .. 3 /\ 2 \in 1 .. 3 /\ 3 \in 1 .. 3
      OBVIOUS
    <3> QED
      BY <1>1, <3>1, Markers
  <2> QED
    BY <1>2, <2>1
<1>4. PICK v : v = Advanced(w, x)
  OBVIOUS
<1>5. v \in Written /\ v.marker = x
  BY <1>3, <1>4, TurnedTo
<1>6. Put(w, l) = [v EXCEPT !.text = Append(@, l[2])]
  BY <1>2, <1>4 DEF Put
<1>7. Append(v.text, l[2]) \in Text
  <2>1. v.text \in Seq(Words) /\ l[2] \in Words
    BY <1>1, <1>5 DEF Written, Text, Words
  <2> QED
    BY <2>1, AppendProperties DEF Text
<1>8. Put(w, l) \in Written
  BY <1>5, <1>6, <1>7 DEF Written
<1> QED
  BY <1>1, <1>3, <1>4, <1>5, <1>6, <1>8

\* What is written for a line of the script is a text with a marker.
LEMMA Putting ==
  ASSUME NEW w \in Written, NEW l \in Entry
  PROVE  Put(w, l) \in Written
BY PutAt

Begun == [text |-> <<>>, marker |-> 1]

\* A script is written line by line.
WritesOn(f, s) == f[0] = Begun /\ \A i \in 1 .. Len(s) : f[i] = Put(f[i - 1], s[i])
WritesOnAs(f, s) == f = [i \in 0 .. Len(s) |-> IF i = 0 THEN Begun ELSE Put(f[i - 1], s[i])]

\* Puts is where such a writing ends.
LEMMA WritesOnSteps ==
  ASSUME NEW s \in Script
  PROVE  \E f \in [0 .. Len(s) -> Written] : WritesOn(f, s) /\ Puts(s) = f[Len(s)]
<1>1. PICK N \in Nat : N = Len(s)
  BY LenProperties DEF Script
<1>2. \A i \in 1 .. N : s[i] \in Entry
  BY <1>1, ElementOfSeq DEF Script
<1>3. PICK h : h = [p \in Written \X (1 .. N) |-> Put(p[1], s[p[2]])]
  OBVIOUS
<1>4. h \in [Written \X (1 .. N) -> Written]
  <2>1. \A r \in Written, i \in 1 .. N : Put(r, s[i]) \in Written
    BY <1>2, Putting
  <2> QED
    BY <1>3, <2>1
<1>5. Begun \in Written
  BY DEF Begun, Written, Text
<1>6. PICK f \in [0 .. N -> Written] : Recursive(f, Begun, h, N)
  BY <1>4, <1>5, Recursion
<1>7. f[0] = Begun /\ \A i \in 1 .. N : f[i] = Put(f[i - 1], s[i])
  <2> SUFFICES ASSUME NEW i \in 1 .. N
               PROVE  f[i] = Put(f[i - 1], s[i])
    BY <1>6 DEF Recursive
  <2>1. i - 1 \in 0 .. N
    OBVIOUS
  <2>2. <<f[i - 1], i>> \in Written \X (1 .. N)
    BY <1>6, <2>1
  <2> QED
    BY <1>3, <1>6, <2>2 DEF Recursive
<1>8. WritesOnAs(f, s)
  <2>1. \A i \in 0 .. N : i # 0 => i \in 1 .. N
    OBVIOUS
  <2> QED
    BY <1>1, <1>6, <1>7, <2>1 DEF WritesOnAs
<1>9. \E g : WritesOnAs(g, s) /\ Puts(s) = g[Len(s)]
  BY <1>8, Zenon DEF Puts, WritesOnAs, Begun
<1>10. PICK g : WritesOnAs(g, s) /\ Puts(s) = g[Len(s)]
  BY <1>9
<1>11. g[0] = Begun /\ \A i \in 1 .. N : g[i] = Put(g[i - 1], s[i])
  <2>1. \A i \in 1 .. N : i \in 0 .. N /\ i # 0
    OBVIOUS
  <2>2. 0 \in 0 .. N
    OBVIOUS
  <2> QED
    BY <1>1, <1>10, <2>1, <2>2 DEF WritesOnAs
<1>12. f[0] = g[0] /\ \A i \in 1 .. N : f[i - 1] = g[i - 1] => f[i] = g[i]
  BY <1>7, <1>11
<1>13. f[N] = g[N]
  BY <1>12, SameRecursion
<1> QED
  BY <1>1, <1>6, <1>7, <1>10, <1>13 DEF WritesOn

\* Nothing is written for an empty script.
LEMMA WritesOnNone == Puts(<<>>) = Begun
<1>1. PICK e : e = <<>>
  OBVIOUS
<1>2. e \in Script /\ Len(e) = 0
  BY <1>1, EmptySeq DEF Script
<1>3. PICK f : WritesOn(f, e) /\ Puts(e) = f[Len(e)]
  BY <1>2, WritesOnSteps
<1> QED
  BY <1>1, <1>2, <1>3 DEF WritesOn

\* A line more is one more put.
LEMMA WritesOnAppend ==
  ASSUME NEW s \in Script, NEW l \in Entry
  PROVE  Append(s, l) \in Script /\ Puts(s) \in Written /\ Puts(Append(s, l)) = Put(Puts(s), l)
<1>1. PICK N \in Nat : N = Len(s)
  BY LenProperties DEF Script
<1>2. PICK t : t = Append(s, l)
  OBVIOUS
<1>3. t \in Script /\ Len(t) = N + 1 /\ t[N + 1] = l /\ \A i \in 1 .. N : t[i] = s[i]
  BY <1>1, <1>2, AppendProperties DEF Script
<1>4. PICK f \in [0 .. N -> Written] : WritesOn(f, s) /\ Puts(s) = f[N]
  BY <1>1, WritesOnSteps
<1>5. PICK g : WritesOn(g, t) /\ Puts(t) = g[N + 1]
  BY <1>3, WritesOnSteps
<1>6. f[0] = g[0]
  BY <1>4, <1>5 DEF WritesOn
<1>7. \A i \in 1 .. N : f[i - 1] = g[i - 1] => f[i] = g[i]
  <2>1. \A i \in 1 .. N : i \in 1 .. N + 1
    OBVIOUS
  <2> QED
    BY <1>1, <1>3, <1>4, <1>5, <2>1 DEF WritesOn
<1>8. f[N] = g[N]
  BY <1>6, <1>7, SameRecursion
<1>9. g[N + 1] = Put(g[N], l)
  <2>1. N + 1 \in 1 .. N + 1 /\ N + 1 - 1 = N
    OBVIOUS
  <2> QED
    BY <1>3, <1>5, <2>1 DEF WritesOn
<1>10. f[N] \in Written
  BY <1>4
<1> QED
  BY <1>2, <1>3, <1>4, <1>5, <1>8, <1>9, <1>10

-----------------------------------------------------------------------------
\* The sides read from what is written of a script are the files it spells.
Agrees(w, s) ==
  Sides(w.text) = [on |-> On[w.marker], ours |-> With(s, {Blank, "-"}), theirs |-> With(s, {Blank, "+"})]

\* A line put leaves the two in agreement.
LEMMA PutAgrees ==
  ASSUME Apart, NEW w \in Written, NEW s \in Script, NEW l \in Entry, Agrees(w, s)
  PROVE  Agrees(Put(w, l), Append(s, l))
<1>1. PICK x \in 1 .. 3, v \in Written :
        /\ Signs[x] = l[1] /\ v = Advanced(w, x) /\ v.marker = x /\ l[2] \in Line
        /\ Put(w, l) = [v EXCEPT !.text = Append(@, l[2])] /\ Put(w, l) \in Written
  BY PutAt
<1>2. PICK c, A, B :
        c \in Line /\ c = l[2] /\ A = With(s, {Blank, "-"}) /\ B = With(s, {Blank, "+"})
  BY <1>1
<1>3. Sides(v.text) = [on |-> On[x], ours |-> A, theirs |-> B]
  <2>1. Sides(w.text) = [on |-> On[w.marker], ours |-> A, theirs |-> B]
    BY <1>2 DEF Agrees
  <2> QED
    BY <1>1, <2>1, TurnedTo
<1>4. PICK r \in Readings : r = Sides(v.text) /\ Sides(Append(v.text, c)) = Read(r, c)
  <2>1. v.text \in Text /\ c \in Words
    BY <1>2 DEF Written, Words
  <2> QED
    BY <2>1, ReadsOnAppend
<1>5. Read(r, c) = [r EXCEPT !.ours = IF "ours" \in r.on THEN Append(@, c) ELSE @,
                             !.theirs = IF "theirs" \in r.on THEN Append(@, c) ELSE @]
  <2>1. c \in Words /\ c \in Line
    BY <1>2 DEF Words
  <2> QED
    BY <2>1, Reading
<1>6. /\ Put(w, l).marker = x
      /\ Put(w, l).text = Append(v.text, c)
  BY <1>1, <1>2 DEF Written
<1>7. /\ With(Append(s, l), {Blank, "-"}) = IF l[1] \in {Blank, "-"} THEN Append(A, c) ELSE A
      /\ With(Append(s, l), {Blank, "+"}) = IF l[1] \in {Blank, "+"} THEN Append(B, c) ELSE B
  <2>1. With(Append(s, l), {Blank, "-"}) = IF l[1] \in {Blank, "-"} THEN Append(A, c) ELSE A
    BY <1>2, WithAppend
  <2>2. With(Append(s, l), {Blank, "+"}) = IF l[1] \in {Blank, "+"} THEN Append(B, c) ELSE B
    BY <1>2, WithAppend
  <2> QED
    BY <2>1, <2>2
<1>8. r = [on |-> On[x], ours |-> A, theirs |-> B]
  BY <1>3, <1>4
<1>9. PICK a, b : /\ a = IF "ours" \in On[x] THEN Append(A, c) ELSE A
                  /\ b = IF "theirs" \in On[x] THEN Append(B, c) ELSE B
  OBVIOUS
<1>10. Read(r, c) = [on |-> On[x], ours |-> a, theirs |-> b]
  <2>1. r.on = On[x] /\ r.ours = A /\ r.theirs = B
    BY <1>8
  <2>2. Read(r, c) = [r EXCEPT !.ours = a, !.theirs = b]
    BY <1>5, <1>9, <2>1
  <2> QED
    BY <1>8, <2>2
<1>11. /\ "ours" \in On[x] <=> l[1] \in {Blank, "-"}
       /\ "theirs" \in On[x] <=> l[1] \in {Blank, "+"}
  <2>1. x = 1 \/ x = 2 \/ x = 3
    BY <1>1
  <2>2. Blank # "-" /\ Blank # "+" /\ "-" # "+"
    BY Zenon DEF Blank
  <2>3. "ours" # "theirs"
    OBVIOUS
  <2> QED
    BY <1>1, <2>1, <2>2, <2>3, Markers
<1>12. With(Append(s, l), {Blank, "-"}) = a /\ With(Append(s, l), {Blank, "+"}) = b
  BY <1>7, <1>9, <1>11
<1> QED
  BY <1>4, <1>6, <1>10, <1>12 DEF Agrees

\* So they agree after every script.
LEMMA PutsAgree ==
  ASSUME Apart, NEW s \in Script
  PROVE  Puts(s) \in Written /\ Agrees(Puts(s), s)
<1> DEFINE P == {t \in Script : Puts(t) \in Written /\ Agrees(Puts(t), t)}
<1>1. PICK e : e = <<>>
  OBVIOUS
<1>2. e \in P
  <2>1. e \in Script /\ \A S : With(e, S) = <<>>
    BY <1>1, WithNone
  <2>2. Puts(e) = [text |-> e, marker |-> 1]
    BY <1>1, WritesOnNone DEF Begun
  <2>3. Puts(e) \in Written
    <3>1. e \in Text
      BY <1>1, EmptySeq DEF Text
    <3>2. 1 \in 1 .. 3
      OBVIOUS
    <3> QED
      BY <2>2, <3>1, <3>2 DEF Written
  <2>4. Sides(e) = [on |-> On[1], ours |-> <<>>, theirs |-> <<>>]
    BY <1>1, ReadsOnNone, Markers DEF Whole
  <2> QED
    BY <2>1, <2>2, <2>3, <2>4 DEF Agrees
<1>3. ASSUME NEW t \in Script, NEW l \in Entry, t \in P
      PROVE  Append(t, l) \in P
  <2>1. Append(t, l) \in Script /\ Puts(t) \in Written /\ Puts(Append(t, l)) = Put(Puts(t), l)
    BY WritesOnAppend
  <2>2. Agrees(Puts(t), t)
    BY <1>3
  <2>3. Agrees(Put(Puts(t), l), Append(t, l)) /\ Put(Puts(t), l) \in Written
    BY <2>1, <2>2, PutAgrees, Putting
  <2> QED
    BY <2>1, <2>3
<1>4. s \in P
  <2>1. \A t \in Seq(Entry), l \in Entry : t \in P => Append(t, l) \in P
    BY <1>3 DEF Script
  <2> HIDE DEF P
  <2> QED
    BY <1>1, <1>2, <2>1, SeqInduction DEF Script
<1> QED
  BY <1>4

\* If no line of a file is a marker, keeping one side of each part that merge
\* marks gives that side's file back.
THEOREM SidesKept ==
  ASSUME Line \cap {"<<<", "===", ">>>"} = {}
  PROVE  Spec => []EitherSide
<1>1. DiffInv => EitherSide
  <2> SUFFICES ASSUME DiffInv, phase = "done"
               PROVE  Sides(Merged(lines)) = [Whole EXCEPT !.ours = file1, !.theirs = file2]
    BY DEF EitherSide
  <2>1. Typed /\ Spells(lines, 0, 0)
    BY DEF DiffInv, Ready
  <2>2. SubSeq(file1, 0 + 1, n) = file1 /\ SubSeq(file2, 0 + 1, m) = file2
    <3>1. SubSeq(file1, 1, n) = file1 /\ SubSeq(file2, 1, m) = file2
      BY <2>1, SubSeqFull DEF Typed, n, m
    <3>2. 0 + 1 = 1
      OBVIOUS
    <3> QED
      BY <3>1, <3>2
  <2>3. PICK s, w, a, b : s = lines /\ w = Puts(lines) /\ a = file1 /\ b = file2
    OBVIOUS
  <2>4. s \in Script /\ With(s, {Blank, "-"}) = a /\ With(s, {Blank, "+"}) = b
    BY <2>1, <2>2, <2>3 DEF Typed, Spells
  <2>5. w \in Written /\ Sides(w.text) = [on |-> On[w.marker], ours |-> a, theirs |-> b]
    <3>1. Apart
      BY DEF Apart
    <3>2. Puts(s) \in Written /\ Agrees(Puts(s), s)
      BY <2>4, <3>1, PutsAgree
    <3> QED
      BY <2>3, <2>4, <3>2 DEF Agrees
  <2>6. Sides(Advanced(w, 1).text) = [on |-> On[1], ours |-> a, theirs |-> b]
    <3>1. 1 \in 1 .. 3
      OBVIOUS
    <3> QED
      BY <2>5, <3>1, TurnedTo
  <2>7. [Whole EXCEPT !.ours = a, !.theirs = b] = [on |-> On[1], ours |-> a, theirs |-> b]
    <3>1. On[1] = {"ours", "theirs"}
      BY Markers
    <3>2. [Whole EXCEPT !.ours = a, !.theirs = b] = [on |-> {"ours", "theirs"}, ours |-> a, theirs |-> b]
      <4>1. PICK c, e : c = {"ours", "theirs"} /\ e = <<>>
        OBVIOUS
      <4>2. Whole = [on |-> c, ours |-> e, theirs |-> e]
        BY <4>1 DEF Whole
      <4>3. PICK r, q : r = Whole /\ q = [r EXCEPT !.ours = a, !.theirs = b]
        OBVIOUS
      <4>4. q = [on |-> c, ours |-> a, theirs |-> b]
        BY <4>2, <4>3
      <4> QED
        BY <4>1, <4>3, <4>4
    <3> QED
      BY <3>1, <3>2
  <2> QED
    BY <2>3, <2>6, <2>7 DEF Merged
<1> QED
  BY <1>1, DiffHolds, PTL
=============================================================================

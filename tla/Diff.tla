-------------------------------- MODULE Diff --------------------------------
(***************************************************************************)
(* diff.cpp, which finds a shortest script of deleted and inserted lines   *)
(* between two files with Myers's algorithm, and the text that merge makes *)
(* of it.  A file is the sequence of its lines.  Indices of files count    *)
(* from 1, those of del from 0 as in the code, where diagonal k stands for *)
(* the places x of file1 and x + max - k of file2.                         *)
(***************************************************************************)
EXTENDS Integers, SequencesExt

CONSTANTS
  Line,       \* what a line may hold
  MaxLines    \* bound on the lines of a file

ASSUME BoundAssumption == MaxLines \in Nat

VARIABLES
  file1, file2,
  del,      \* del[k]: how far into file1 the scripts tried so far get on k
  trace,    \* del after each round: trace[d + 1] with d changed lines
  d,        \* the round: of the search, then of the way back
  k,        \* the diagonal
  phase,    \* "search", "back" from the end of the script found, or "done"
  lines     \* the script, from its end as far as the way back has got

vars == <<file1, file2, del, trace, d, k, phase, lines>>

n == Len(file1)
m == Len(file2)
max == n + m

-----------------------------------------------------------------------------
Init ==
  /\ file1 \in BoundedSeq(Line, MaxLines)
  /\ file2 \in BoundedSeq(Line, MaxLines)
  /\ max > 0                        \* otherwise the first read of del throws
  /\ del = [i \in 0 .. 2 * max |-> 0]
  /\ trace = <<>>
  /\ d = 0
  /\ k = max
  /\ phase = "search"
  /\ lines = <<>>

\* Whether k is reached from k + 1, by an insertion, and not from k - 1, by a
\* deletion.
Inserts(row) == k = max - d \/ (k # max + d /\ row[k - 1] < row[k + 1])

\* Mutant: the first two lines that are equal are passed, and no others.
SlidOnce(x, y) == IF x < n /\ y < m /\ file1[x + 1] = file2[y + 1] THEN x + 1 ELSE x

\* The place reached from x and y along equal lines.
Slid(x, y) ==
  x + Max({i \in 0 .. n : \A j \in 1 .. i :
             x + j <= n /\ y + j <= m /\ file1[x + j] = file2[y + j]})

\* Mutant: the bound of the loop is taken for the end of a half-open range.
LastRoundShort == max - 1

\* As many lines as this may have to change.
LastRound == max

\* One diagonal of round d.  The round ends on the diagonal on which both files
\* are used up, and so does the search.
Search ==
  LET from == IF Inserts(del) THEN del[k + 1] ELSE del[k - 1] + 1
      x == Slid(from, from + max - k)
      found == x >= n /\ x + max - k >= m
  IN
  /\ phase = "search" /\ d <= LastRound
  /\ del' = [del EXCEPT ![k] = x]
  /\ IF found THEN /\ phase' = "back"
                   /\ UNCHANGED <<d, k>>
              ELSE /\ d' = IF k = max + d THEN d + 1 ELSE d
                   /\ k' = IF k = max + d THEN max - d - 1 ELSE k + 2
                   /\ UNCHANGED phase
  /\ trace' = IF found \/ k = max + d THEN Append(trace, del') ELSE trace
  /\ UNCHANGED <<file1, file2, lines>>

\* The sign of a line that is in both files.
Blank == " "

Same(x, y) == [i \in 1 .. y - x |-> <<Blank, file1[x + i]>>]

\* The script of round d entered the diagonal k with one changed line, and then
\* passed equal ones.
Back ==
  LET row == trace[d + 1]
      prev == IF Inserts(row) THEN k + 1 ELSE k - 1
      x == row[k]
      same == Max({0, Min({x - row[prev], x - k - row[prev] + prev})})
      changed == IF x - same > row[prev]
                   THEN <<"-", file1[x - same]>>
                   ELSE <<"+", file2[x + max - k - same]>>
  IN
  /\ phase = "back" /\ d > 0
  /\ lines' = <<changed>> \o Same(x - same, x) \o lines
  /\ d' = d - 1
  /\ k' = prev
  /\ UNCHANGED <<file1, file2, del, trace, phase>>

\* What is left are the equal lines both files begin with.
Finish ==
  /\ phase = "back" /\ d = 0
  /\ lines' = Same(0, trace[1][k]) \o lines
  /\ phase' = "done"
  /\ UNCHANGED <<file1, file2, del, trace, d, k>>

Next == Search \/ Back \/ Finish

\* diff runs to its end without a pause.
Spec == Init /\ [][Next]_vars /\ WF_vars(Next)

-----------------------------------------------------------------------------
(***************************************************************************)
(* merge writes the script with a marker before the deleted lines, between *)
(* them and the inserted ones, and after those: one for each move of       *)
(* marker, which goes round " ", "-" and "+" and starts before the first.  *)
(***************************************************************************)
Signs == <<Blank, "-", "+">>
Marks == <<"<<<", "===", ">>>">>

\* Mutant: the marker is not moved past the end of a conflict.
AdvanceStuck(s) ==
  [s EXCEPT !.text = Append(@, Marks[s.marker]), !.marker = IF @ = 3 THEN 3 ELSE @ + 1]

\* advanceMarker.
Advance(s) == [text |-> Append(s.text, Marks[s.marker]), marker |-> (s.marker % 3) + 1]

\* The marker moves on until it is at x.
Advanced(s, x) ==
  IF s.marker = x THEN s
  ELSE IF Advance(s).marker = x THEN Advance(s)
  ELSE Advance(Advance(s))

\* A line of the script.
Put(s, line) ==
  LET at == Advanced(s, CHOOSE x \in 1 .. 3 : Signs[x] = line[1])
  IN  [at EXCEPT !.text = Append(@, line[2])]

Puts(script) ==
  LET put[i \in 0 .. Len(script)] ==
        IF i = 0 THEN [text |-> <<>>, marker |-> 1] ELSE Put(put[i - 1], script[i])
  IN  put[Len(script)]

\* What merge writes for a script.
Merged(script) == Advanced(Puts(script), 1).text

-----------------------------------------------------------------------------
\* The lines of a script with one of the signs.
With(script, signs) ==
  LET with[i \in 0 .. Len(script)] ==
        IF i = 0 THEN <<>>
        ELSE IF script[i][1] \in signs THEN Append(with[i - 1], script[i][2])
        ELSE with[i - 1]
  IN  with[Len(script)]

\* The ways to pair equal lines of the two files, in their order.
Alignments ==
  {A \in SUBSET {p \in (1 .. n) \X (1 .. m) : file1[p[1]] = file2[p[2]]} :
     \A p, q \in A : p[1] < q[1] <=> p[2] < q[2]}

\* The script spells both files, and changes as few lines as any could: diff
\* shows no change that is none, and merge no conflict that is none.
ScriptRight ==
  phase = "done" =>
    /\ With(lines, {Blank, "-"}) = file1
    /\ With(lines, {Blank, "+"}) = file2
    /\ \A A \in Alignments : Len(With(lines, {"-", "+"})) <= max - 2 * Cardinality(A)

\* The sides of a text with markers, of which the next line is on those that
\* are on, and what a line adds to them.
Whole == [on |-> {"ours", "theirs"}, ours |-> <<>>, theirs |-> <<>>]

Read(sides, l) ==
  IF l = Marks[1] THEN [sides EXCEPT !.on = {"ours"}]
  ELSE IF l = Marks[2] THEN [sides EXCEPT !.on = {"theirs"}]
  ELSE IF l = Marks[3] THEN [sides EXCEPT !.on = {"ours", "theirs"}]
  ELSE [sides EXCEPT !.ours = IF "ours" \in sides.on THEN Append(@, l) ELSE @,
                     !.theirs = IF "theirs" \in sides.on THEN Append(@, l) ELSE @]

Sides(text) ==
  LET read[i \in 0 .. Len(text)] ==
        IF i = 0 THEN Whole ELSE Read(read[i - 1], text[i])
  IN  read[Len(text)]

\* Whoever resolves a conflict by keeping one side of each marked part has that
\* side's file back: merge drops no line and puts none on the wrong side.
EitherSide ==
  phase = "done" => Sides(Merged(lines)) = [Whole EXCEPT !.ours = file1, !.theirs = file2]

\* The search ends: some script is found before the rounds run out.
DiffEnds == <>(phase = "done")
=============================================================================

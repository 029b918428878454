------------------------------- MODULE MergeWalk -------------------------------
(***************************************************************************)
(* The walk of merge, from the other commit down, with the deque of        *)
(* deque.h: breadth first, until it meets our commit.  CommitWalks has it  *)
(* step by step; here it is one function of the history, for the modules   *)
(* that merge.                                                             *)
(***************************************************************************)
EXTENDS FiniteSets, Naturals, Sequences

NoCommit == 0   \* no commit's number; a slot of the deque that was never written

Dq == INSTANCE Deque WITH Null <- NoCommit

FirstRound(c) == [dq |-> Dq!PushedBack(Dq!EmptyDeque, c), answer |-> "walking"]

\* What becomes of the walk when cur has been taken from the deque.
Looked(parents, readable, ours, cur) ==
  IF cur = NoCommit THEN "crash"
  ELSE IF cur = ours THEN "fast-forward"
  ELSE IF \E i \in DOMAIN parents[cur] : parents[cur][i] \notin readable THEN "exception"
  ELSE "walking"

\* One round of the loop: an unreadable parent throws, a null pointer crashes.
Round(parents, readable, ours, w) ==
  IF w.answer # "walking" THEN w
  ELSE IF w.dq.filled = 0 THEN [w EXCEPT !.answer = "divergent"]
  ELSE LET cur  == Dq!Front(w.dq)
           then == Looked(parents, readable, ours, cur)
           rest == Dq!PoppedFront(w.dq)
       IN  [answer |-> then,
            dq |-> IF then = "walking" THEN Dq!PushedAll(rest, parents[cur]) ELSE rest]

\* A bound on the rounds from c: one for every descent from c, of which there
\* are no more than sets of commits up to c, and one that finds nothing left.
Rounds(c) == Cardinality(SUBSET (1 .. c))

(***************************************************************************)
(* How the walk from c ends: "fast-forward" when it has met ours,          *)
(* "divergent" when the deque is empty, "exception" at a commit that       *)
(* cannot be read, and "crash" when the deque has lost what it held.       *)
(* parents are sequences of commits, in the order retrieve lists them.     *)
(***************************************************************************)
Walked(parents, readable, ours, c) ==
  LET after[n \in 0 .. Rounds(c)] ==
        IF n = 0 THEN FirstRound(c) ELSE Round(parents, readable, ours, after[n - 1])
  IN  after[Rounds(c)].answer
=============================================================================

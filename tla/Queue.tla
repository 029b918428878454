------------------------------- MODULE Queue -------------------------------
(***************************************************************************)
(* What a double-ended queue promises: elements go in and come out at both *)
(* ends, in order, and none is lost or made up.                            *)
(***************************************************************************)
EXTENDS Naturals, Sequences

CONSTANTS
  Value,    \* what may be queued
  Null,     \* no element
  MaxHeld   \* bound on the elements held at once

VARIABLES
  q,        \* the elements held
  out       \* the element that was popped last

Push(x) ==
  /\ Len(q) < MaxHeld
  /\ q' = Append(q, x) \/ q' = <<x>> \o q
  /\ UNCHANGED out

Pop ==
  /\ q # <<>>
  /\ \/ out' = Head(q) /\ q' = Tail(q)
     \/ out' = q[Len(q)] /\ q' = SubSeq(q, 1, Len(q) - 1)

QInit == q = <<>> /\ out = Null
QNext == (\E x \in Value : Push(x)) \/ Pop
QSpec == QInit /\ [][QNext]_<<q, out>>
=============================================================================

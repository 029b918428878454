-------------------------------- MODULE Deque --------------------------------
(***************************************************************************)
(* The double-ended queue of deque.h: a ring of slots in a Vector, which a *)
(* push replaces by a larger one when it is full.  A deque is a record of  *)
(* its fields; slots is the Vector, whose index 0 is position 1 here.      *)
(***************************************************************************)
EXTENDS Naturals, Sequences

CONSTANT Null   \* what a slot holds that was never written

\* The element i places after the first, going round the ring.
Nth(d, i) == d.slots[((d.start + i) % Len(d.slots)) + 1]

EmptyDeque == [slots |-> <<>>, filled |-> 0, start |-> 0, end |-> 0]

\* grow: twice as many slots as the Vector has room for, which is one when it
\* is empty.  The elements move to its beginning; start and end stay.
Grown(d) ==
  [i \in 1 .. (IF d.slots = <<>> THEN 2 ELSE 2 * Len(d.slots)) |->
     IF i <= Len(d.slots) THEN Nth(d, i - 1) ELSE Null]

\* The slots a push finds.
Room(d) == IF d.filled = Len(d.slots) THEN Grown(d) ELSE d.slots

\* The index before i in a ring of n slots.
Before(i, n) == (i + n - 1) % n

\* Mutant: end is not taken round the ring.
PushedBackFlat(d, x) ==
  [slots  |-> [Room(d) EXCEPT ![d.end + 1] = x],
   filled |-> d.filled + 1,
   start  |-> d.start,
   end    |-> (d.end + 1) % (Len(Room(d)) + 1)]

PushedBack(d, x) ==
  [slots  |-> [Room(d) EXCEPT ![d.end + 1] = x],
   filled |-> d.filled + 1,
   start  |-> d.start,
   end    |-> (d.end + 1) % Len(Room(d))]

\* The elements of s, pushed one after the other.
PushedAll(d, s) ==
  LET upto[n \in 0 .. Len(s)] == IF n = 0 THEN d ELSE PushedBack(upto[n - 1], s[n])
  IN  upto[Len(s)]

PushedFront(d, x) ==
  LET first == Before(d.start, Len(Room(d)))
  IN  [slots  |-> [Room(d) EXCEPT ![first + 1] = x],
       filled |-> d.filled + 1,
       start  |-> first,
       end    |-> d.end]

Front(d) == Nth(d, 0)
Back(d)  == d.slots[Before(d.end, Len(d.slots)) + 1]

PoppedFront(d) ==
  [d EXCEPT !.filled = @ - 1, !.start = (@ + 1) % Len(d.slots)]

PoppedBack(d) ==
  [d EXCEPT !.filled = @ - 1, !.end = Before(@, Len(d.slots))]

\* The elements held, first one first.
Held(d) == [i \in 1 .. d.filled |-> Nth(d, i - 1)]
=============================================================================

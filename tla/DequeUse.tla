------------------------------ MODULE DequeUse ------------------------------
(***************************************************************************)
(* A deque and a program that calls its operations in any order, popping   *)
(* only what is there: pop_back of an empty deque returns no value.        *)
(***************************************************************************)
EXTENDS Deque

CONSTANTS
  Value,    \* what the program queues
  MaxHeld   \* how many elements it lets the deque hold at once

ASSUME UseAssumption == Null \notin Value /\ MaxHeld \in Nat

VARIABLES
  deque,
  out       \* the element that was popped last

uvars == <<deque, out>>

UInit == deque = EmptyDeque /\ out = Null

PushBack(x) ==
  /\ deque.filled < MaxHeld
  /\ deque' = PushedBack(deque, x)
  /\ UNCHANGED out

PushFront(x) ==
  /\ deque.filled < MaxHeld
  /\ deque' = PushedFront(deque, x)
  /\ UNCHANGED out

PopFront ==
  /\ deque.filled > 0
  /\ out' = Front(deque)
  /\ deque' = PoppedFront(deque)

PopBack ==
  /\ deque.filled > 0
  /\ out' = Back(deque)
  /\ deque' = PoppedBack(deque)

UNext == (\E x \in Value : PushBack(x) \/ PushFront(x)) \/ PopFront \/ PopBack

USpec == UInit /\ [][UNext]_uvars

-----------------------------------------------------------------------------
\* README: "Double-ended queue with circular buffer implementation".  Whatever
\* order the operations come in, each element comes out at the end it is due.
Q == INSTANCE Queue WITH q <- Held(deque)

QueueImplemented == Q!QSpec
=============================================================================

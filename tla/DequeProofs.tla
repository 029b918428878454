----------------------------- MODULE DequeProofs -----------------------------
(***************************************************************************)
(* The deque, and the two walks that use it.  It is a double-ended queue   *)
(* as long as it holds two elements at most, whatever they are; and the    *)
(* walks are right over histories of any size, whatever it loses.          *)
(***************************************************************************)
EXTENDS DequeUse, CommitWalks, DataLemmas

-----------------------------------------------------------------------------
(***************************************************************************)
(* The deque while it holds two elements at most.                          *)
(***************************************************************************)
\* A ring that has not grown past its first two slots.  Such a deque is a queue.
Small(d, V) ==
  \/ d = EmptyDeque
  \/ /\ d \in [slots : [1 .. 2 -> V], filled : 0 .. 2, start : 0 .. 1, end : 0 .. 1]
     /\ d.end = (d.start + d.filled) % 2

\* Remainders of division by two.
LEMMA Mods ==
  /\ 0 % 2 = 0 /\ 1 % 2 = 1 /\ 2 % 2 = 0 /\ 3 % 2 = 1
  /\ 0 % 1 = 0
OBVIOUS

\* The parts of a pair.
LEMMA Pairs ==
  ASSUME NEW a, NEW b
  PROVE  /\ Len(<<a, b>>) = 2 /\ <<a, b>> # <<>> /\ <<a, b>>[2] = b
         /\ SubSeq(<<a, b>>, 1, 1) = <<a>>
<1>1. Len(<<a, b>>) = 2 /\ <<a, b>> # <<>> /\ <<a, b>>[2] = b
  OBVIOUS
<1>2. SubSeq(<<a, b>>, 1, 1) = <<a>>
  <2>1. <<a, b>> \in Seq({a, b}) /\ <<a>> \in Seq({a, b}) /\ Len(<<a>>) = 1
    OBVIOUS
  <2>2. SubSeq(<<a, b>>, 1, 1) \in Seq({a, b}) /\ Len(SubSeq(<<a, b>>, 1, 1)) = 1
        /\ SubSeq(<<a, b>>, 1, 1)[1] = a
    BY <2>1, <1>1, SubSeqProperties
  <2>3. \A i \in 1 .. 1 : SubSeq(<<a, b>>, 1, 1)[i] = <<a>>[i]
    BY <2>2
  <2> QED
    BY <2>1, <2>2, <2>3, SeqEqual
<1> QED
  BY <1>1, <1>2

\* Two slots are a sequence of length two.
LEMMA SlotsLen ==
  ASSUME NEW V, NEW s \in [1 .. 2 -> V]
  PROVE  Len(s) = 2 /\ s \in Seq(V) /\ s # <<>>
<1>1. Len(s) = 2 /\ s \in Seq(V)
  BY FunctionLen
<1> QED
  BY <1>1

\* What a small deque holds.
LEMMA HeldOf ==
  ASSUME NEW V, NEW d, Small(d, V)
  PROVE  /\ d.filled = 0 => Held(d) = <<>>
         /\ d.filled = 1 => Held(d) = <<d.slots[d.start + 1]>>
         /\ d.filled = 2 => Held(d) = <<d.slots[d.start + 1], d.slots[2 - d.start]>>
<1>1. CASE d.filled = 0
  BY <1>1 DEF Held
<1>2. CASE d.filled \in 1 .. 2
  <2>1. /\ d \in [slots : [1 .. 2 -> V], filled : 0 .. 2, start : 0 .. 1, end : 0 .. 1]
        /\ Len(d.slots) = 2
    BY <1>2, SlotsLen DEF Small, EmptyDeque
  <2>2. Nth(d, 0) = d.slots[d.start + 1]
    BY <2>1, Mods DEF Nth
  <2>3. Nth(d, 1) = d.slots[2 - d.start]
    BY <2>1, Mods DEF Nth
  <2>4. CASE d.filled = 1
    <3>1. Held(d) = [i \in 1 .. 1 |-> Nth(d, i - 1)]
      BY <2>4 DEF Held
    <3> QED
      BY <2>2, <2>4, <3>1
  <2>5. CASE d.filled = 2
    <3>1. Held(d) = [i \in 1 .. 2 |-> Nth(d, i - 1)]
      BY <2>5 DEF Held
    <3> QED
      BY <2>2, <2>3, <2>5, <3>1
  <2> QED
    BY <1>2, <2>4, <2>5
<1> QED
  BY <1>1, <1>2 DEF Small, EmptyDeque

\* A small deque holds as many as it counts.
LEMMA HeldLen ==
  ASSUME NEW V, NEW d, Small(d, V)
  PROVE  Len(Held(d)) = d.filled /\ d.filled \in 0 .. 2 /\ Held(d) \in Seq(V)
<1>1. d.filled \in 0 .. 2
  BY DEF Small, EmptyDeque
<1>2. CASE d.filled = 0
  <2>1. Held(d) = <<>>
    BY <1>2, HeldOf
  <2> QED
    BY <1>2, <2>1
<1>5. ASSUME d.filled > 0
      PROVE  d.slots[d.start + 1] \in V /\ d.slots[2 - d.start] \in V
  BY <1>5 DEF Small, EmptyDeque
<1>3. CASE d.filled = 1
  <2>1. Held(d) = <<d.slots[d.start + 1]>> /\ d.slots[d.start + 1] \in V
    BY <1>3, <1>5, HeldOf
  <2> QED
    BY <1>3, <2>1
<1>4. CASE d.filled = 2
  <2>1. /\ Held(d) = <<d.slots[d.start + 1], d.slots[2 - d.start]>>
        /\ d.slots[d.start + 1] \in V /\ d.slots[2 - d.start] \in V
    BY <1>4, <1>5, HeldOf
  <2> QED
    BY <1>4, <2>1
<1> QED
  BY <1>1, <1>2, <1>3, <1>4

\* The slots that a push finds in it.
LEMMA RoomOf ==
  ASSUME NEW V, Null \in V, NEW d, Small(d, V), d.filled < 2
  PROVE  /\ Room(d) \in [1 .. 2 -> V] /\ Len(Room(d)) = 2
         /\ d.filled = 1 => Room(d) = d.slots
         /\ d.filled \in 0 .. 1 /\ d.start \in 0 .. 1 /\ d.end \in 0 .. 1
         /\ d.end = (d.start + d.filled) % 2
<1>1. CASE d = EmptyDeque
  <2>1. d.slots = <<>> /\ d.filled = 0 /\ d.start = 0 /\ d.end = 0 /\ Len(d.slots) = 0
    BY <1>1 DEF EmptyDeque
  <2>2. Room(d) = [i \in 1 .. 2 |-> Null]
    BY <2>1 DEF Room, Grown
  <2>3. Room(d) \in [1 .. 2 -> V]
    BY <2>2
  <2> QED
    BY <2>1, <2>3, SlotsLen, Mods
<1>2. CASE d # EmptyDeque
  <2>1. /\ d \in [slots : [1 .. 2 -> V], filled : 0 .. 2, start : 0 .. 1, end : 0 .. 1]
        /\ d.end = (d.start + d.filled) % 2
    BY <1>2 DEF Small
  <2>2. Len(d.slots) = 2
    BY <2>1, SlotsLen
  <2>3. Room(d) = d.slots
    BY <2>1, <2>2 DEF Room
  <2> QED
    BY <2>1, <2>2, <2>3
<1> QED
  BY <1>1, <1>2

\* A push at the back that finds room appends, and the ring stays of two slots.
LEMMA BackPushed ==
  ASSUME NEW V, Null \in V, NEW d, Small(d, V), d.filled < 2, NEW x \in V
  PROVE  /\ Small(PushedBack(d, x), V)
         /\ PushedBack(d, x).filled = d.filled + 1
         /\ Held(PushedBack(d, x)) = Append(Held(d), x)
<1>0. PICK e : e = PushedBack(d, x)
  OBVIOUS
<1>1. /\ Room(d) \in [1 .. 2 -> V] /\ Len(Room(d)) = 2
      /\ d.filled = 1 => Room(d) = d.slots
      /\ d.filled \in 0 .. 1 /\ d.start \in 0 .. 1 /\ d.end \in 0 .. 1
      /\ d.end = (d.start + d.filled) % 2
  BY RoomOf
<1>2. /\ e.slots = [Room(d) EXCEPT ![d.end + 1] = x] /\ e.filled = d.filled + 1
      /\ e.start = d.start /\ e.end = (d.end + 1) % 2
  BY <1>0, <1>1 DEF PushedBack
<1>3. e \in [slots : [1 .. 2 -> V], filled : 0 .. 2, start : 0 .. 1, end : 0 .. 1]
  <2>1. e = [slots |-> e.slots, filled |-> e.filled, start |-> e.start, end |-> e.end]
    BY <1>0 DEF PushedBack
  <2>2. e.slots \in [1 .. 2 -> V]
    BY <1>1, <1>2
  <2>3. e.filled \in 0 .. 2 /\ e.start \in 0 .. 1
    BY <1>1, <1>2
  <2>4. e.end \in 0 .. 1
    BY <1>1, <1>2, Mods
  <2> QED
    BY <2>1, <2>2, <2>3, <2>4
<1>4. e.end = (e.start + e.filled) % 2
  BY <1>1, <1>2, Mods
<1>5. Small(e, V)
  BY <1>3, <1>4 DEF Small
<1>6. Held(e) = Append(Held(d), x)
  <2>1. CASE d.filled = 0
    <3>1. Held(d) = <<>>
      BY <2>1, HeldOf
    <3>2. Held(e) = <<e.slots[e.start + 1]>>
      <4>1. e.filled = 1
        BY <1>2, <2>1
      <4> QED
        BY <1>5, <4>1, HeldOf
    <3>3. e.slots[e.start + 1] = x
      BY <1>1, <1>2, <2>1, Mods
    <3> QED
      BY <3>1, <3>2, <3>3
  <2>2. CASE d.filled = 1
    <3>1. Held(d) = <<d.slots[d.start + 1]>>
      BY <2>2, HeldOf
    <3>2. Held(e) = <<e.slots[e.start + 1], e.slots[2 - e.start]>>
      <4>1. e.filled = 2
        BY <1>2, <2>2
      <4> QED
        BY <1>5, <4>1, HeldOf
    <3>3. e.slots[e.start + 1] = d.slots[d.start + 1] /\ e.slots[2 - e.start] = x
      BY <1>1, <1>2, <2>2, Mods
    <3> QED
      BY <3>1, <3>2, <3>3
  <2> QED
    BY <1>1, <2>1, <2>2
<1> QED
  BY <1>0, <1>2, <1>5, <1>6

\* A push at the front that finds room puts first, and the ring stays of two slots.
LEMMA FrontPushed ==
  ASSUME NEW V, Null \in V, NEW d, Small(d, V), d.filled < 2, NEW x \in V
  PROVE  /\ Small(PushedFront(d, x), V)
         /\ PushedFront(d, x).filled = d.filled + 1
         /\ Held(PushedFront(d, x)) = <<x>> \o Held(d)
<1>0. PICK e : e = PushedFront(d, x)
  OBVIOUS
<1>1. /\ Room(d) \in [1 .. 2 -> V] /\ Len(Room(d)) = 2
      /\ d.filled = 1 => Room(d) = d.slots
      /\ d.filled \in 0 .. 1 /\ d.start \in 0 .. 1 /\ d.end \in 0 .. 1
      /\ d.end = (d.start + d.filled) % 2
  BY RoomOf
<1>2. Before(d.start, Len(Room(d))) = 1 - d.start /\ 1 - d.start + 1 = 2 - d.start
  BY <1>1, Mods DEF Before
<1>3. /\ e.slots = [Room(d) EXCEPT ![2 - d.start] = x] /\ e.filled = d.filled + 1
      /\ e.start = 1 - d.start /\ e.end = d.end
  <2>1. e = [slots |-> [Room(d) EXCEPT ![1 - d.start + 1] = x], filled |-> d.filled + 1,
             start |-> 1 - d.start, end |-> d.end]
    BY <1>0, <1>2 DEF PushedFront
  <2> QED
    BY <1>2, <2>1
<1>4. e \in [slots : [1 .. 2 -> V], filled : 0 .. 2, start : 0 .. 1, end : 0 .. 1]
  <2>1. e = [slots |-> e.slots, filled |-> e.filled, start |-> e.start, end |-> e.end]
    BY <1>0 DEF PushedFront
  <2>2. e.slots \in [1 .. 2 -> V]
    BY <1>1, <1>3
  <2>3. e.filled \in 0 .. 2 /\ e.start \in 0 .. 1 /\ e.end \in 0 .. 1
    BY <1>1, <1>3
  <2> QED
    BY <2>1, <2>2, <2>3
<1>5. e.end = (e.start + e.filled) % 2
  BY <1>1, <1>3, Mods
<1>6. Small(e, V)
  BY <1>4, <1>5 DEF Small
<1>7. Held(e) = <<x>> \o Held(d)
  <2>1. CASE d.filled = 0
    <3>1. Held(d) = <<>>
      BY <2>1, HeldOf
    <3>2. Held(e) = <<e.slots[e.start + 1]>>
      <4>1. e.filled = 1
        BY <1>3, <2>1
      <4> QED
        BY <1>6, <4>1, HeldOf
    <3>3. e.slots[e.start + 1] = x
      BY <1>1, <1>3
    <3> QED
      BY <3>1, <3>2, <3>3
  <2>2. CASE d.filled = 1
    <3>1. Held(d) = <<d.slots[d.start + 1]>>
      BY <2>2, HeldOf
    <3>2. Held(e) = <<e.slots[e.start + 1], e.slots[2 - e.start]>>
      <4>1. e.filled = 2
        BY <1>3, <2>2
      <4> QED
        BY <1>6, <4>1, HeldOf
    <3>3. e.slots[e.start + 1] = x /\ e.slots[2 - e.start] = d.slots[d.start + 1]
      BY <1>1, <1>3, <2>2
    <3> QED
      BY <3>1, <3>2, <3>3
  <2> QED
    BY <1>1, <2>1, <2>2
<1> QED
  BY <1>0, <1>3, <1>6, <1>7

\* A pop has something to take only from a ring of two slots.
LEMMA Filled ==
  ASSUME NEW V, NEW d, Small(d, V), d.filled > 0
  PROVE  /\ d \in [slots : [1 .. 2 -> V], filled : 1 .. 2, start : 0 .. 1, end : 0 .. 1]
         /\ d.end = (d.start + d.filled) % 2
         /\ Len(d.slots) = 2
<1>1. /\ d \in [slots : [1 .. 2 -> V], filled : 0 .. 2, start : 0 .. 1, end : 0 .. 1]
      /\ d.end = (d.start + d.filled) % 2
  BY DEF Small, EmptyDeque
<1> QED
  BY <1>1, SlotsLen

\* A pop at the front takes the first.
LEMMA FrontPopped ==
  ASSUME NEW V, NEW d, Small(d, V), d.filled > 0
  PROVE  /\ Small(PoppedFront(d), V)
         /\ PoppedFront(d).filled = d.filled - 1
         /\ Held(d) # <<>> /\ Front(d) = Head(Held(d))
         /\ Held(PoppedFront(d)) = Tail(Held(d))
<1>0. PICK e : e = PoppedFront(d)
  OBVIOUS
<1>1. /\ d \in [slots : [1 .. 2 -> V], filled : 1 .. 2, start : 0 .. 1, end : 0 .. 1]
      /\ d.end = (d.start + d.filled) % 2 /\ Len(d.slots) = 2
  BY Filled
<1>2. /\ e.slots = d.slots /\ e.filled = d.filled - 1
      /\ e.start = (d.start + 1) % 2 /\ e.end = d.end
      /\ e = [slots |-> e.slots, filled |-> e.filled, start |-> e.start, end |-> e.end]
  <2>1. e = [d EXCEPT !.filled = d.filled - 1, !.start = (d.start + 1) % 2]
    BY <1>0, <1>1 DEF PoppedFront
  <2> QED
    BY <1>1, <2>1
<1>3. e.start = 1 - d.start
  BY <1>1, <1>2, Mods
<1>4. e.filled \in 0 .. 2 /\ e.start \in 0 .. 1 /\ e.end \in 0 .. 1
  BY <1>1, <1>2, <1>3
<1>5. e.end = (e.start + e.filled) % 2
  BY <1>1, <1>2, <1>3, Mods
<1>6. Small(e, V)
  BY <1>1, <1>2, <1>4, <1>5 DEF Small
<1>7. Front(d) = d.slots[d.start + 1]
  BY <1>1, Mods DEF Front, Nth
<1>8. CASE d.filled = 1
  <2>1. Held(d) = <<d.slots[d.start + 1]>>
    BY <1>8, HeldOf
  <2>2. e.filled = 0
    BY <1>2, <1>8
  <2>3. Held(e) = <<>>
    BY <1>6, <2>2, HeldOf
  <2>4. Front(d) = Head(Held(d)) /\ Held(d) # <<>>
    BY <1>7, <2>1
  <2>5. Held(e) = Tail(Held(d))
    BY <2>1, <2>3
  <2> QED
    BY <1>0, <1>2, <1>6, <2>4, <2>5
<1>9. CASE d.filled = 2
  <2>1. Held(d) = <<d.slots[d.start + 1], d.slots[2 - d.start]>>
    BY <1>9, HeldOf
  <2>2. Held(e) = <<d.slots[2 - d.start]>>
    BY <1>1, <1>2, <1>3, <1>6, <1>9, HeldOf
  <2>3. Front(d) = Head(Held(d)) /\ Held(d) # <<>>
    BY <1>7, <2>1
  <2>4. Held(e) = Tail(Held(d))
    BY <2>1, <2>2
  <2> QED
    BY <1>0, <1>2, <1>6, <2>3, <2>4
<1> QED
  BY <1>0, <1>1, <1>8, <1>9

\* A pop at the back takes the last.
LEMMA BackPopped ==
  ASSUME NEW V, NEW d, Small(d, V), d.filled > 0
  PROVE  /\ Small(PoppedBack(d), V)
         /\ PoppedBack(d).filled = d.filled - 1
         /\ Held(d) # <<>> /\ Back(d) = Held(d)[Len(Held(d))]
         /\ Held(PoppedBack(d)) = SubSeq(Held(d), 1, Len(Held(d)) - 1)
<1>0. PICK e : e = PoppedBack(d)
  OBVIOUS
<1>1. /\ d \in [slots : [1 .. 2 -> V], filled : 1 .. 2, start : 0 .. 1, end : 0 .. 1]
      /\ d.end = (d.start + d.filled) % 2 /\ Len(d.slots) = 2
  BY Filled
<1>2. Before(d.end, Len(d.slots)) = 1 - d.end
  BY <1>1, Mods DEF Before
<1>3. /\ e.slots = d.slots /\ e.filled = d.filled - 1
      /\ e.start = d.start /\ e.end = 1 - d.end
      /\ e = [slots |-> e.slots, filled |-> e.filled, start |-> e.start, end |-> e.end]
  <2>1. e = [d EXCEPT !.filled = d.filled - 1, !.end = 1 - d.end]
    BY <1>0, <1>2 DEF PoppedBack
  <2> QED
    BY <1>1, <2>1
<1>4. e.filled \in 0 .. 2 /\ e.start \in 0 .. 1 /\ e.end \in 0 .. 1
  BY <1>1, <1>3
<1>5. e.end = (e.start + e.filled) % 2
  BY <1>1, <1>3, Mods
<1>6. Small(e, V)
  BY <1>1, <1>3, <1>4, <1>5 DEF Small
<1>7. Back(d) = d.slots[2 - d.end]
  BY <1>1, <1>2 DEF Back
<1>8. CASE d.filled = 1
  <2>1. Held(d) = <<d.slots[d.start + 1]>>
    BY <1>8, HeldOf
  <2>2. Held(e) = <<>>
    BY <1>3, <1>6, <1>8, HeldOf
  <2>3. d.end = 1 - d.start
    BY <1>1, <1>8, Mods
  <2>4. Len(Held(d)) = 1 /\ Held(d) # <<>> /\ Held(d)[1] = d.slots[d.start + 1]
    BY <2>1
  <2>5. d.slots[d.start + 1] = d.slots[2 - d.end]
    BY <1>1, <2>3
  <2>6. SubSeq(Held(d), 1, 0) = <<>>
    BY <2>1
  <2> QED
    BY <1>0, <1>3, <1>6, <1>7, <2>2, <2>4, <2>5, <2>6
<1>9. CASE d.filled = 2
  <2>1. Held(d) = <<d.slots[d.start + 1], d.slots[2 - d.start]>>
    BY <1>9, HeldOf
  <2>2. Held(e) = <<d.slots[d.start + 1]>>
    BY <1>1, <1>3, <1>6, <1>9, HeldOf
  <2>3. d.end = d.start
    BY <1>1, <1>9, Mods
  <2>4. Len(Held(d)) = 2 /\ Held(d) # <<>> /\ Held(d)[2] = d.slots[2 - d.start]
    BY <2>1, Pairs
  <2>5. SubSeq(Held(d), 1, 1) = <<d.slots[d.start + 1]>>
    BY <2>1, Pairs
  <2>6. Back(d) = Held(d)[Len(Held(d))]
    BY <1>7, <2>3, <2>4
  <2>7. Held(e) = SubSeq(Held(d), 1, Len(Held(d)) - 1)
    <3>1. Len(Held(d)) - 1 = 1
      BY <2>4
    <3> QED
      BY <2>2, <2>5, <3>1
  <2> QED
    BY <1>0, <1>3, <1>6, <2>4, <2>6, <2>7
<1> QED
  BY <1>0, <1>1, <1>8, <1>9

-----------------------------------------------------------------------------
\* A ring of any size: its slots hold elements of V, and its ends are slots.
Ring(d, V) ==
  /\ d = [slots |-> d.slots, filled |-> d.filled, start |-> d.start, end |-> d.end]
  /\ d.slots \in Seq(V) /\ d.filled \in 0 .. Len(d.slots)
  /\ \/ d = EmptyDeque
     \/ /\ Len(d.slots) \in Nat \ {0}
        /\ d.start \in 0 .. Len(d.slots) - 1 /\ d.end \in 0 .. Len(d.slots) - 1

\* A remainder is below the divisor.
LEMMA ModBelow ==
  ASSUME NEW i \in Nat, NEW n \in Nat \ {0}
  PROVE  i % n \in 0 .. n - 1
OBVIOUS

\* What Nth reads is in some slot.
LEMMA NthIn ==
  ASSUME NEW V, NEW d, d.slots \in Seq(V), Len(d.slots) # 0, d.start \in Nat, NEW i \in Nat
  PROVE  Nth(d, i) \in V
<1>1. PICK n \in Nat \ {0} : n = Len(d.slots)
  BY LenProperties
<1>2. (d.start + i) % n \in 0 .. n - 1
  <2>1. d.start + i \in Nat
    OBVIOUS
  <2> QED
    BY <2>1, ModBelow
<1> QED
  BY <1>1, <1>2, ElementOfSeq DEF Nth

\* A push finds a ring with a free slot.
LEMMA RingRoom ==
  ASSUME NEW V, Null \in V, NEW d, Ring(d, V)
  PROVE  /\ Room(d) \in Seq(V) /\ Len(Room(d)) \in Nat \ {0} /\ d.filled \in 0 .. Len(Room(d)) - 1
         /\ d.start \in 0 .. Len(Room(d)) - 1 /\ d.end \in 0 .. Len(Room(d)) - 1
<1>1. CASE d = EmptyDeque
  <2>1. d.slots = <<>> /\ d.filled = 0 /\ d.start = 0 /\ d.end = 0 /\ Len(d.slots) = 0
    BY <1>1 DEF EmptyDeque
  <2>2. Room(d) = [i \in 1 .. 2 |-> Null]
    BY <2>1 DEF Room, Grown
  <2>3. Room(d) \in [1 .. 2 -> V]
    BY <2>2
  <2> QED
    BY <2>1, <2>3, SlotsLen
<1>2. CASE d # EmptyDeque
  <2>1. PICK n \in Nat \ {0} : n = Len(d.slots)
    BY <1>2 DEF Ring
  <2>2. /\ d.slots \in Seq(V) /\ d.filled \in 0 .. n
        /\ d.start \in 0 .. n - 1 /\ d.end \in 0 .. n - 1 /\ d.slots # <<>>
    BY <1>2, <2>1 DEF Ring
  <2>3. CASE d.filled = n
    <3>1. Room(d) = [i \in 1 .. 2 * n |-> IF i <= n THEN Nth(d, i - 1) ELSE Null]
      BY <2>1, <2>2, <2>3 DEF Room, Grown
    <3>2. \A i \in 1 .. 2 * n : i <= n => Nth(d, i - 1) \in V
      BY <2>1, <2>2, NthIn
    <3>3. Room(d) \in [1 .. 2 * n -> V]
      BY <3>1, <3>2
    <3>4. Room(d) \in Seq(V) /\ Len(Room(d)) = 2 * n
      BY <3>3, FunctionLen
    <3> QED
      BY <2>2, <2>3, <3>4
  <2>4. CASE d.filled # n
    <3>1. Room(d) = d.slots
      BY <2>1, <2>4 DEF Room
    <3> QED
      BY <2>1, <2>2, <2>4, <3>1
  <2> QED
    BY <2>3, <2>4
<1> QED
  BY <1>1, <1>2

\* A push at the back leaves a ring.
LEMMA RingPushed ==
  ASSUME NEW V, Null \in V, NEW d, Ring(d, V), NEW x \in V
  PROVE  Ring(PushedBack(d, x), V)
<1>1. PICK r, n : r = Room(d) /\ n = Len(r)
  OBVIOUS
<1>2. r \in Seq(V) /\ n \in Nat \ {0} /\ d.filled \in 0 .. n - 1
      /\ d.start \in 0 .. n - 1 /\ d.end \in 0 .. n - 1
  BY <1>1, RingRoom
<1>3. PICK e : e = PushedBack(d, x)
  OBVIOUS
<1>4. /\ e = [slots |-> [r EXCEPT ![d.end + 1] = x], filled |-> d.filled + 1,
              start |-> d.start, end |-> (d.end + 1) % n]
      /\ e.slots = [r EXCEPT ![d.end + 1] = x] /\ e.filled = d.filled + 1
      /\ e.start = d.start /\ e.end = (d.end + 1) % n
  BY <1>1, <1>3 DEF PushedBack
<1>5. e.slots \in Seq(V) /\ Len(e.slots) = n
  BY <1>1, <1>2, <1>4, ExceptSeq
<1>6. e.end \in 0 .. n - 1
  <2>1. d.end + 1 \in Nat
    BY <1>2
  <2> QED
    BY <1>2, <1>4, <2>1, ModBelow
<1> QED
  BY <1>2, <1>3, <1>4, <1>5, <1>6 DEF Ring

\* A ring that counts something has slots.
LEMMA RingFilled ==
  ASSUME NEW V, NEW d, Ring(d, V), d.filled > 0
  PROVE  /\ Len(d.slots) \in Nat \ {0}
         /\ d.start \in 0 .. Len(d.slots) - 1 /\ d.end \in 0 .. Len(d.slots) - 1
BY DEF Ring, EmptyDeque

\* A pop at the front leaves a ring and takes what was in a slot.
LEMMA RingFrontPopped ==
  ASSUME NEW V, NEW d, Ring(d, V), d.filled > 0
  PROVE  Ring(PoppedFront(d), V) /\ Front(d) \in V
<1>1. PICK n : n = Len(d.slots)
  OBVIOUS
<1>2. /\ n \in Nat \ {0} /\ d.slots \in Seq(V) /\ d.filled \in 1 .. n
      /\ d.start \in 0 .. n - 1 /\ d.end \in 0 .. n - 1
  BY <1>1, RingFilled DEF Ring
<1>3. PICK e : e = PoppedFront(d)
  OBVIOUS
<1>4. e = [slots |-> d.slots, filled |-> d.filled - 1, start |-> (d.start + 1) % n, end |-> d.end]
  <2>1. e = [d EXCEPT !.filled = d.filled - 1, !.start = (d.start + 1) % n]
    BY <1>1, <1>3 DEF PoppedFront
  <2> QED
    BY <2>1 DEF Ring
<1>5. /\ e.slots = d.slots /\ e.filled = d.filled - 1 /\ e.end = d.end
      /\ e.start = (d.start + 1) % n
  BY <1>4
<1>6. e.start \in 0 .. n - 1
  <2>1. d.start + 1 \in Nat
    BY <1>2
  <2> QED
    BY <1>2, <1>5, <2>1, ModBelow
<1>7. Ring(e, V)
  BY <1>1, <1>2, <1>4, <1>5, <1>6 DEF Ring
<1>8. Front(d) \in V
  BY <1>1, <1>2, NthIn DEF Front
<1> QED
  BY <1>3, <1>7, <1>8

\* A pop at the back leaves a ring and takes what was in a slot.
LEMMA RingBackPopped ==
  ASSUME NEW V, NEW d, Ring(d, V), d.filled > 0
  PROVE  Ring(PoppedBack(d), V) /\ Back(d) \in V
<1>1. PICK n : n = Len(d.slots)
  OBVIOUS
<1>2. /\ n \in Nat \ {0} /\ d.slots \in Seq(V) /\ d.filled \in 1 .. n
      /\ d.start \in 0 .. n - 1 /\ d.end \in 0 .. n - 1
  BY <1>1, RingFilled DEF Ring
<1>3. PICK e : e = PoppedBack(d)
  OBVIOUS
<1>4. e = [slots |-> d.slots, filled |-> d.filled - 1, start |-> d.start, end |-> Before(d.end, n)]
  <2>1. e = [d EXCEPT !.filled = d.filled - 1, !.end = Before(d.end, n)]
    BY <1>1, <1>3 DEF PoppedBack
  <2> QED
    BY <2>1 DEF Ring
<1>5. /\ e.slots = d.slots /\ e.filled = d.filled - 1 /\ e.start = d.start
      /\ e.end = Before(d.end, n)
  BY <1>4
<1>6. Before(d.end, n) \in 0 .. n - 1
  <2>1. d.end + n - 1 \in Nat
    BY <1>2
  <2> QED
    BY <1>2, <2>1, ModBelow DEF Before
<1>7. Ring(e, V)
  BY <1>1, <1>2, <1>4, <1>5, <1>6 DEF Ring
<1>8. Back(d) \in V
  BY <1>1, <1>2, <1>6, ElementOfSeq DEF Back
<1> QED
  BY <1>3, <1>7, <1>8

-----------------------------------------------------------------------------
\* A ring that is only used at its back and has grown: two of the elements it
\* counts were written over, and its last two slots were never written.
Overwritten(d, V) ==
  /\ d = [slots |-> d.slots, filled |-> d.filled, start |-> d.start, end |-> d.end]
  /\ d.slots \in Seq(V) /\ Len(d.slots) >= 4
  /\ d.start = 0 /\ d.end \in 0 .. Len(d.slots) - 2 /\ d.filled = d.end + 2
  /\ d.slots[Len(d.slots)] = Null /\ d.slots[Len(d.slots) - 1] = Null

\* The third push at the back makes the ring grow and writes over its first slot.
LEMMA ThirdPushed ==
  ASSUME NEW V, Null \in V, NEW d, Small(d, V), d.start = 0, d.filled = 2, NEW x \in V
  PROVE  Overwritten(PushedBack(d, x), V)
<1>1. /\ d \in [slots : [1 .. 2 -> V], filled : 1 .. 2, start : 0 .. 1, end : 0 .. 1]
      /\ d.end = 0 /\ Len(d.slots) = 2
  BY Filled, Mods
<1>2. d.slots # <<>> /\ d.slots \in Seq(V)
  BY <1>1, SlotsLen
<1>3. PICK r : r = Room(d)
  OBVIOUS
<1>4. r = [i \in 1 .. 4 |-> IF i <= 2 THEN Nth(d, i - 1) ELSE Null]
  BY <1>1, <1>2, <1>3 DEF Room, Grown
<1>5. Nth(d, 0) \in V /\ Nth(d, 1) \in V
  BY <1>1, <1>2, NthIn
<1>6. r \in [1 .. 4 -> V] /\ r[3] = Null /\ r[4] = Null
  <2>1. Nth(d, 1 - 1) \in V /\ Nth(d, 2 - 1) \in V
    BY <1>5
  <2>2. \A i \in 1 .. 4 : (IF i <= 2 THEN Nth(d, i - 1) ELSE Null) \in V
    <3> SUFFICES ASSUME NEW i \in 1 .. 4, i <= 2
                 PROVE  Nth(d, i - 1) \in V
      OBVIOUS
    <3>1. i = 1 \/ i = 2
      OBVIOUS
    <3> QED
      BY <2>1, <3>1
  <2>3. r \in [1 .. 4 -> V]
    BY <1>4, <2>2
  <2>4. r[3] = Null /\ r[4] = Null
    BY <1>4
  <2> QED
    BY <2>3, <2>4
<1>7. r \in Seq(V) /\ Len(r) = 4
  <2>1. PICK n \in Nat : n = 4
    OBVIOUS
  <2>2. r \in [1 .. n -> V]
    BY <1>6, <2>1
  <2>3. r \in Seq(V) /\ Len(r) = n
    BY <2>2, FunctionLen
  <2> QED
    BY <2>1, <2>3
<1>8. PICK e : e = PushedBack(d, x)
  OBVIOUS
<1>12. e = [slots |-> e.slots, filled |-> e.filled, start |-> e.start, end |-> e.end]
  BY <1>8 DEF PushedBack
<1>9. e.slots = [r EXCEPT ![1] = x] /\ e.filled = 3 /\ e.start = 0 /\ e.end = 1 % 4
  <2>1. e = [slots |-> [r EXCEPT ![d.end + 1] = x], filled |-> d.filled + 1,
             start |-> d.start, end |-> (d.end + 1) % Len(r)]
    BY <1>3, <1>8 DEF PushedBack
  <2>2. d.end + 1 = 1 /\ d.filled + 1 = 3
    BY <1>1
  <2> QED
    BY <1>7, <2>1, <2>2
<1>10. 1 % 4 = 1
  OBVIOUS
<1>11. e.slots \in Seq(V) /\ Len(e.slots) = 4 /\ e.slots[3] = Null /\ e.slots[4] = Null
  <2>1. 1 \in 1 .. Len(r)
    BY <1>7
  <2>2. /\ e.slots \in Seq(V) /\ Len(e.slots) = Len(r)
        /\ \A j \in 1 .. Len(r) : e.slots[j] = IF j = 1 THEN x ELSE r[j]
    BY <1>7, <1>9, <2>1, ExceptSeq
  <2> QED
    BY <1>6, <1>7, <2>2
<1> QED
  <2>1. e.end = 1 /\ 1 \in 0 .. 4 - 2 /\ 3 = 1 + 2 /\ 4 - 1 = 3 /\ 4 >= 4
    BY <1>9, <1>10
  <2>2. e.start = 0 /\ e.filled = e.end + 2 /\ e.end \in 0 .. Len(e.slots) - 2
    BY <1>9, <1>11, <2>1
  <2>3. e.slots[Len(e.slots)] = Null /\ e.slots[Len(e.slots) - 1] = Null /\ Len(e.slots) >= 4
    BY <1>11, <2>1
  <2> QED
    BY <1>8, <1>11, <1>12, <2>2, <2>3 DEF Overwritten

\* A number below the divisor is its own remainder.
LEMMA ModSame ==
  ASSUME NEW n \in Nat, NEW i \in 0 .. n - 1
  PROVE  i % n = i
OBVIOUS

\* One step back from a number above 0 does not wrap around.
LEMMA ModWraps ==
  ASSUME NEW n \in Nat, NEW i \in 1 .. n - 1
  PROVE  (i + n - 1) % n = i - 1
OBVIOUS

\* A push at the back leaves the count two ahead of the end.
LEMMA OverwrittenPushed ==
  ASSUME NEW V, Null \in V, NEW d, Overwritten(d, V), NEW x \in V
  PROVE  Overwritten(PushedBack(d, x), V)
<1>1. PICK n \in Nat : n = Len(d.slots)
  BY LenProperties DEF Overwritten
<1>2. /\ d.slots \in Seq(V) /\ n >= 4 /\ d.start = 0
      /\ d.end \in 0 .. n - 2 /\ d.filled = d.end + 2
      /\ d.slots[n] = Null /\ d.slots[n - 1] = Null
  BY <1>1 DEF Overwritten
<1>3. PICK r, m : r = Room(d) /\ m = Len(r)
  OBVIOUS
<1>4. r \in Seq(V) /\ m \in Nat /\ m >= 4 /\ d.end < m - 2 /\ r[m] = Null /\ r[m - 1] = Null
  <2>1. CASE d.filled = n
    <3>1. r = [i \in 1 .. 2 * n |-> IF i <= n THEN Nth(d, i - 1) ELSE Null]
      <4>1. d.slots # <<>> /\ Len(d.slots) = n
        BY <1>1, <1>2
      <4> QED
        BY <1>3, <2>1, <4>1 DEF Room, Grown
    <3>2. \A i \in 1 .. 2 * n : i <= n => Nth(d, i - 1) \in V
      BY <1>1, <1>2, NthIn
    <3>3. r \in [1 .. 2 * n -> V]
      BY <3>1, <3>2
    <3>4. r \in Seq(V) /\ m = 2 * n
      BY <1>3, <3>3, FunctionLen
    <3>5. 2 * n \in 1 .. 2 * n /\ 2 * n - 1 \in 1 .. 2 * n /\ ~(2 * n <= n) /\ ~(2 * n - 1 <= n)
      BY <1>2
    <3>6. r[2 * n] = Null /\ r[2 * n - 1] = Null
      BY <3>1, <3>5
    <3> QED
      BY <1>2, <2>1, <3>4, <3>6
  <2>2. CASE d.filled # n
    <3>1. r = d.slots /\ m = n
      BY <1>1, <1>3, <2>2 DEF Room
    <3> QED
      BY <1>2, <2>2, <3>1
  <2> QED
    BY <2>1, <2>2
<1>5. PICK e : e = PushedBack(d, x)
  OBVIOUS
<1>11. e = [slots |-> e.slots, filled |-> e.filled, start |-> e.start, end |-> e.end]
  BY <1>5 DEF PushedBack
<1>6. /\ e.slots = [r EXCEPT ![d.end + 1] = x] /\ e.filled = d.filled + 1
      /\ e.start = 0 /\ e.end = (d.end + 1) % m
  <2>1. e = [slots |-> [r EXCEPT ![d.end + 1] = x], filled |-> d.filled + 1,
             start |-> d.start, end |-> (d.end + 1) % m]
    BY <1>3, <1>5 DEF PushedBack
  <2> QED
    BY <1>2, <2>1
<1>7. e.end = d.end + 1
  <2>1. d.end + 1 \in 0 .. m - 1
    BY <1>2, <1>4
  <2>2. (d.end + 1) % m = d.end + 1
    BY <1>4, <2>1, ModSame
  <2>3. e.end = (d.end + 1) % m
    BY <1>6
  <2> QED
    BY <2>2, <2>3
<1>8. /\ e.slots \in Seq(V) /\ Len(e.slots) = m
      /\ \A j \in 1 .. m : e.slots[j] = IF j = d.end + 1 THEN x ELSE r[j]
  <2>1. PICK k \in 1 .. m : k = d.end + 1
    BY <1>2, <1>4
  <2>2. r \in Seq(V) /\ k \in 1 .. Len(r) /\ m = Len(r)
    BY <1>3, <1>4
  <2>3. e.slots = [r EXCEPT ![k] = x]
    BY <1>6, <2>1
  <2> QED
    BY <2>1, <2>2, <2>3, ExceptSeq
<1>9. e.slots[m] = Null /\ e.slots[m - 1] = Null
  <2>1. m \in 1 .. m /\ m - 1 \in 1 .. m /\ m # d.end + 1 /\ m - 1 # d.end + 1
    BY <1>2, <1>4
  <2> QED
    BY <1>4, <1>8, <2>1
<1>10. e.end \in 0 .. m - 2 /\ e.filled = e.end + 2
  <2>1. e.filled = d.filled + 1
    BY <1>6
  <2>2. d.end + 1 \in 0 .. m - 2
    BY <1>2, <1>4
  <2>3. d.filled + 1 = (d.end + 1) + 2
    BY <1>2
  <2> QED
    BY <1>7, <2>1, <2>2, <2>3
<1> QED
  BY <1>4, <1>5, <1>6, <1>8, <1>9, <1>10, <1>11 DEF Overwritten

\* A pop at the back too, or it takes a slot never written.
LEMMA OverwrittenPopped ==
  ASSUME NEW V, NEW d, Overwritten(d, V)
  PROVE  /\ d.filled > 0
         /\ Back(d) = Null \/ Overwritten(PoppedBack(d), V)
<1>1. PICK n \in Nat : n = Len(d.slots)
  BY LenProperties DEF Overwritten
<1>2. /\ d.slots \in Seq(V) /\ n >= 4 /\ d.start = 0
      /\ d.end \in 0 .. n - 2 /\ d.filled = d.end + 2
      /\ d.slots[n] = Null /\ d.slots[n - 1] = Null
  BY <1>1 DEF Overwritten
<1>5. d = [slots |-> d.slots, filled |-> d.filled, start |-> d.start, end |-> d.end]
  BY DEF Overwritten
<1>3. CASE d.end = 0
  <2>1. Before(d.end, n) = n - 1
    BY <1>2, <1>3, ModSame DEF Before
  <2>2. Back(d) = Null
    BY <1>1, <1>2, <2>1 DEF Back
  <2> QED
    BY <1>2, <2>2
<1>4. CASE d.end # 0
  <2>1. PICK e : e = PoppedBack(d)
    OBVIOUS
  <2>2. Before(d.end, n) = d.end - 1
    <3>1. d.end \in 1 .. n - 1
      BY <1>2, <1>4
    <3> QED
      BY <3>1, ModWraps DEF Before
  <2>3. /\ e.slots = d.slots /\ e.filled = d.filled - 1 /\ e.start = d.start
        /\ e.end = d.end - 1
        /\ e = [slots |-> e.slots, filled |-> e.filled, start |-> e.start, end |-> e.end]
    <3>1. e = [d EXCEPT !.filled = d.filled - 1, !.end = d.end - 1]
      BY <1>1, <2>1, <2>2 DEF PoppedBack
    <3> QED
      BY <1>5, <3>1
  <2>4. Overwritten(e, V)
    BY <1>1, <1>2, <1>4, <2>3 DEF Overwritten
  <2> QED
    BY <1>2, <2>1, <2>4
<1> QED
  BY <1>3, <1>4

-----------------------------------------------------------------------------
(***************************************************************************)
(* The deque as a queue.                                                   *)
(***************************************************************************)
\* While it holds no more than two it never grows past its first slots.
NeverGrown == Small(deque, Value \cup {Null})

\* A new deque is an empty queue.
LEMMA Begins ==
  ASSUME UInit
  PROVE  NeverGrown /\ Q!QInit
<1>1. deque = EmptyDeque /\ EmptyDeque.filled = 0
  BY DEF UInit, EmptyDeque
<1>2. NeverGrown
  BY <1>1 DEF NeverGrown, Small
<1>3. Held(deque) = <<>>
  BY <1>1, <1>2, HeldOf DEF NeverGrown
<1> QED
  BY <1>2, <1>3 DEF UInit, Q!QInit

\* While at most two are held, every call is a call of the queue.
LEMMA Goes ==
  ASSUME MaxHeld <= 2, NeverGrown, [UNext]_uvars
  PROVE  NeverGrown' /\ [Q!QNext]_<<Held(deque), out>>
<1> DEFINE V == Value \cup {Null}
<1>1. PICK d, e : d = deque /\ e = deque'
  OBVIOUS
<1>2. Small(d, V) /\ Len(Held(d)) = d.filled /\ d.filled \in 0 .. 2
  BY <1>1, HeldLen DEF NeverGrown
<1>3. ASSUME NEW x \in Value, PushBack(x) \/ PushFront(x)
      PROVE  NeverGrown' /\ Q!QNext
  <2>1. d.filled < MaxHeld /\ d.filled < 2 /\ out' = out
    BY <1>1, <1>2, <1>3, UseAssumption DEF PushBack, PushFront
  <2>2. CASE PushBack(x)
    <3>1. e = PushedBack(d, x)
      BY <1>1, <2>2 DEF PushBack
    <3>2. Small(e, V) /\ Held(e) = Append(Held(d), x)
      BY <1>2, <2>1, <3>1, Null \in V, x \in V, BackPushed
    <3>3. Q!Push(x)
      BY <1>1, <1>2, <2>1, <3>2 DEF Q!Push
    <3> QED
      BY <1>1, <3>2, <3>3 DEF NeverGrown, Q!QNext
  <2>3. CASE PushFront(x)
    <3>1. e = PushedFront(d, x)
      BY <1>1, <2>3 DEF PushFront
    <3>2. Small(e, V) /\ Held(e) = <<x>> \o Held(d)
      BY <1>2, <2>1, <3>1, Null \in V, x \in V, FrontPushed
    <3>3. Q!Push(x)
      BY <1>1, <1>2, <2>1, <3>2 DEF Q!Push
    <3> QED
      BY <1>1, <3>2, <3>3 DEF NeverGrown, Q!QNext
  <2> QED
    BY <1>3, <2>2, <2>3
<1>4. CASE PopFront
  <2>1. d.filled > 0 /\ out' = Front(d) /\ e = PoppedFront(d)
    BY <1>1, <1>4 DEF PopFront
  <2>2. Small(e, V) /\ Held(d) # <<>> /\ Front(d) = Head(Held(d)) /\ Held(e) = Tail(Held(d))
    BY <1>2, <2>1, FrontPopped
  <2>3. Q!Pop
    BY <1>1, <2>1, <2>2 DEF Q!Pop
  <2> QED
    BY <1>1, <2>2, <2>3 DEF NeverGrown, Q!QNext
<1>5. CASE PopBack
  <2>1. d.filled > 0 /\ out' = Back(d) /\ e = PoppedBack(d)
    BY <1>1, <1>5 DEF PopBack
  <2>2. /\ Small(e, V) /\ Held(d) # <<>> /\ Back(d) = Held(d)[Len(Held(d))]
        /\ Held(e) = SubSeq(Held(d), 1, Len(Held(d)) - 1)
    BY <1>2, <2>1, BackPopped
  <2>3. Q!Pop
    BY <1>1, <2>1, <2>2 DEF Q!Pop
  <2> QED
    BY <1>1, <2>2, <2>3 DEF NeverGrown, Q!QNext
<1>6. CASE UNCHANGED uvars
  BY <1>6 DEF uvars, NeverGrown
<1> QED
  BY <1>3, <1>4, <1>5, <1>6 DEF UNext

\* However the four operations of the deque are called, each element comes out
\* at the end it is due, as long as no third one is pushed: then push_back and
\* push_front grow the ring and leave its start and end where they were.
THEOREM Implements == ASSUME MaxHeld <= 2 PROVE USpec => QueueImplemented
<1>1. USpec => []NeverGrown
  BY Begins, Goes, PTL DEF USpec
<1> QED
  BY <1>1, Begins, Goes, PTL DEF USpec, QueueImplemented, Q!QSpec
-----------------------------------------------------------------------------
(***************************************************************************)
(* Histories.                                                              *)
(***************************************************************************)
Graph ==
  /\ parents \in [Commits -> Seq(Commits)]
  /\ \A c \in Commits : Len(parents[c]) <= 2 /\ Range(parents[c]) \subseteq 1 .. (c - 1)
  /\ readable \subseteq Commits /\ ours \in Commits /\ other \in Commits
  /\ command \in {"merge", "log"}

\* The histories that a walk starts from are well formed.
LEMMA Beginnings ==
  ASSUME WInit
  PROVE  Graph
<1>1. /\ parents \in [Commits -> UNION {[1 .. n -> Commits] : n \in 0 .. 2}]
      /\ \A c \in Commits : Range(parents[c]) \subseteq 1 .. (c - 1)
  BY DEF WInit
<1>2. ASSUME NEW c \in Commits
      PROVE  parents[c] \in Seq(Commits) /\ Len(parents[c]) <= 2
  <2>1. PICK n \in 0 .. 2 : parents[c] \in [1 .. n -> Commits]
    BY <1>1
  <2>2. n \in Nat
    OBVIOUS
  <2> QED
    BY <2>1, <2>2, FunctionLen
<1>3. parents \in [Commits -> Seq(Commits)]
  BY <1>1, <1>2
<1>4. readable \subseteq Commits
  BY DEF WInit
<1>5. ours \in Commits /\ other \in Commits
  BY <1>4 DEF WInit
<1>6. command \in {"merge", "log"}
  BY DEF WInit
<1> QED
  BY <1>1, <1>2, <1>3, <1>4, <1>5, <1>6 DEF Graph

\* A commit has at most two parents, all older than it.
LEMMA ParentsType ==
  ASSUME Graph, NEW c \in Commits
  PROVE  /\ parents[c] \in Seq(Commits) /\ Len(parents[c]) \in 0 .. 2
         /\ Range(parents[c]) \subseteq Commits /\ Range(parents[c]) \subseteq 1 .. (c - 1)
<1>1. parents[c] \in Seq(Commits)
  BY DEF Graph
<1>2. Len(parents[c]) \in Nat /\ Len(parents[c]) <= 2
  BY <1>1, LenProperties DEF Graph
<1>3. Range(parents[c]) \subseteq Commits
  BY <1>1, RangeOfSeq
<1>4. Range(parents[c]) \subseteq 1 .. (c - 1)
  BY DEF Graph
<1>5. PICK n : n = Len(parents[c])
  OBVIOUS
<1>6. n \in 0 .. 2
  <2>1. n \in Nat /\ n <= 2
    BY <1>2, <1>5
  <2> QED
    BY <2>1
<1>7. Len(parents[c]) \in 0 .. 2
  BY <1>5, <1>6
<1> QED
  BY <1>1, <1>3, <1>4, <1>7

\* A commit is below itself.
LEMMA Self ==
  ASSUME NEW c \in Commits
  PROVE  c \in Ancestors(c)
BY DEF Ancestors

\* What is below a commit are commits.
LEMMA AncestorsType ==
  ASSUME NEW c
  PROVE  Ancestors(c) \subseteq Commits
BY DEF Ancestors

\* The parents of what is below a commit are below it.
LEMMA Closed ==
  ASSUME Graph, NEW c, NEW a \in Ancestors(c)
  PROVE  Range(parents[a]) \subseteq Ancestors(c)
<1> SUFFICES ASSUME NEW p \in Range(parents[a])
             PROVE  p \in Ancestors(c)
  OBVIOUS
<1>1. a \in Commits /\ p \in Commits
  BY ParentsType, AncestorsType
<1>2. ASSUME NEW S \in SUBSET Commits, c \in S, \A d \in S : Range(parents[d]) \subseteq S
      PROVE  p \in S
  <2>1. a \in S
    BY <1>2 DEF Ancestors
  <2> QED
    BY <1>2, <2>1
<1> QED
  BY <1>1, <1>2 DEF Ancestors

\* Ancestors is the least such set.
LEMMA Least ==
  ASSUME NEW c, NEW S \in SUBSET Commits, c \in S,
         \A d \in S : Range(parents[d]) \subseteq S
  PROVE  Ancestors(c) \subseteq S
BY DEF Ancestors

\* What is below an ancestor is below the commit.
LEMMA Nested ==
  ASSUME Graph, NEW c \in Commits, NEW b \in Ancestors(c)
  PROVE  Ancestors(b) \subseteq Ancestors(c)
<1>1. Ancestors(c) \in SUBSET Commits
  BY AncestorsType
<1>2. \A d \in Ancestors(c) : Range(parents[d]) \subseteq Ancestors(c)
  BY Closed
<1> QED
  BY <1>1, <1>2, Least

\* What is below a commit is not newer.
LEMMA Older ==
  ASSUME Graph, NEW c \in Commits
  PROVE  Ancestors(c) \subseteq 1 .. c
<1>1. c \in Nat /\ c <= Size /\ c >= 1 /\ Size \in Nat
  BY WalkAssumption DEF Commits
<1>2. 1 .. c \in SUBSET Commits /\ c \in 1 .. c
  BY <1>1 DEF Commits
<1>3. ASSUME NEW d \in 1 .. c
      PROVE  Range(parents[d]) \subseteq 1 .. c
  <2>1. Range(parents[d]) \subseteq 1 .. (d - 1)
    BY <1>2, ParentsType
  <2>2. 1 .. (d - 1) \subseteq 1 .. c
    BY <1>1
  <2> QED
    BY <2>1, <2>2
<1> QED
  BY <1>2, <1>3, Least

\* A commit below another is below one of its parents.
LEMMA Through ==
  ASSUME Graph, NEW c \in Commits, NEW a \in Ancestors(c), a # c
  PROVE  \E p \in Range(parents[c]) : a \in Ancestors(p)
<1> DEFINE S == {c} \cup {b \in Commits : \E p \in Range(parents[c]) : b \in Ancestors(p)}
<1>1. S \in SUBSET Commits /\ c \in S
  OBVIOUS
<1>2. ASSUME NEW d \in S, NEW q \in Range(parents[d])
      PROVE  q \in S
  <2>1. q \in Commits
    BY <1>1, ParentsType
  <2>2. CASE d = c
    BY <2>1, <2>2, Self
  <2>3. CASE d # c
    <3>1. PICK p \in Range(parents[c]) : d \in Ancestors(p)
      BY <2>3
    <3>2. q \in Ancestors(p)
      BY <3>1, Closed
    <3> QED
      BY <2>1, <3>2
  <2> QED
    BY <2>2, <2>3
<1>3. \A d \in S : Range(parents[d]) \subseteq S
  BY <1>2
<1>4. a \in S
  <2> HIDE DEF S
  <2> QED
    BY <1>1, <1>3, Least
<1> QED
  BY <1>4

OneMerge == Cardinality(MergeCommits(other)) <= 1

\* Where there is one merge commit, it is that one.
LEMMA TheMerge ==
  ASSUME OneMerge, NEW a \in MergeCommits(other), NEW b \in MergeCommits(other)
  PROVE  a = b
<1>1. MergeCommits(other) \subseteq 1 .. Size /\ Size \in Int /\ 1 \in Int
  BY WalkAssumption, AncestorsType DEF MergeCommits, Commits
<1>2. IsFiniteSet(MergeCommits(other))
  BY <1>1, FS_Interval, FS_Subset
<1>3. Cardinality(MergeCommits(other)) \in Nat
  BY <1>2, FS_CardinalityType
<1>4. Cardinality(MergeCommits(other)) # 0
  BY <1>2, FS_EmptySet
<1>5. Cardinality(MergeCommits(other)) = 1
  BY <1>3, <1>4 DEF OneMerge
<1>6. PICK x : MergeCommits(other) = {x}
  BY <1>2, <1>5, FS_Singleton
<1> QED
  BY <1>6

\* There is no other merge commit below the parents of one.
LEMMA PlainParents ==
  ASSUME Graph, OneMerge, NEW c \in Ancestors(other), Len(parents[c]) > 1,
         NEW p \in Range(parents[c])
  PROVE  MergeCommits(p) = {}
<1> SUFFICES ASSUME NEW m \in MergeCommits(p)
             PROVE  FALSE
  OBVIOUS
<1>1. c \in Commits /\ p \in Commits /\ other \in Commits /\ p \in 1 .. (c - 1)
  BY AncestorsType, ParentsType DEF Graph
<1>2. p \in Ancestors(other)
  BY Closed
<1>3. m \in Ancestors(p) /\ m \in Ancestors(other) /\ Len(parents[m]) > 1
  BY <1>1, <1>2, Nested DEF MergeCommits
<1>4. m = c
  BY <1>3, TheMerge DEF MergeCommits
<1>5. m \in 1 .. p
  BY <1>1, <1>3, Older
<1> QED
  BY <1>1, <1>4, <1>5 DEF Commits

\* Without a merge commit below it, a commit has one parent or none, and there
\* is none below that parent.
LEMMA PlainBelow ==
  ASSUME Graph, NEW c \in Commits, MergeCommits(c) = {}
  PROVE  /\ Len(parents[c]) \in 0 .. 1
         /\ \A p \in Range(parents[c]) : MergeCommits(p) = {}
<1>1. Len(parents[c]) \in 0 .. 1
  <2>1. ~(Len(parents[c]) > 1)
    BY Self DEF MergeCommits
  <2>2. PICK n : n = Len(parents[c])
    OBVIOUS
  <2>3. n \in 0 .. 2 /\ ~(n > 1)
    BY <2>1, <2>2, ParentsType
  <2> QED
    BY <2>2, <2>3
<1>2. ASSUME NEW p \in Range(parents[c])
      PROVE  MergeCommits(p) = {}
  <2>1. p \in Ancestors(c)
    BY Self, Closed
  <2>2. Ancestors(p) \subseteq Ancestors(c)
    BY <2>1, Nested
  <2> QED
    BY <2>2 DEF MergeCommits
<1> QED
  BY <1>1, <1>2

-----------------------------------------------------------------------------
(***************************************************************************)
(* What a step of a walk does to the commits that are to be visited.       *)
(***************************************************************************)
Slot == Ancestors(other) \cup {Null}

Pending == Range(Held(dq)) \cup Range(left)

\* What is in the deque and on the way into it is below the other commit.
Inside ==
  /\ Ring(dq, Slot)
  /\ left \in Seq(Ancestors(other)) /\ visited \subseteq Ancestors(other)
  /\ answer = "fast-forward" => ours \in Ancestors(other)
  /\ answer = "exception" => ~(Ancestors(other) \subseteq readable)

\* With one merge commit two commits are enough to be held, and the deque is
\* a queue.
Fits ==
  /\ Small(dq, Slot) /\ Range(Held(dq)) \subseteq Ancestors(other)
  /\ dq.filled + Len(left) <= 2
  /\ dq.filled + Len(left) = 2 => \A x \in Pending : MergeCommits(x) = {}
  /\ answer # "crash"

\* While merge goes on, ours is below a commit that it has still to visit, or
\* not below the other at all.
Seeking ==
  command = "merge" /\ ours \in Ancestors(other) =>
    /\ answer # "divergent"
    /\ answer = "walking" => \E x \in Pending : ours \in Ancestors(x)

\* While log goes on, the parents of what it has listed are listed or to be
\* visited; or commits were written over, and then it does not come to its end.
Listing ==
  command = "log" =>
    \/ answer = "crash"
    \/ Overwritten(dq, Slot) /\ answer # "listed"
    \/ /\ Small(dq, Slot) /\ dq.start = 0 /\ Range(Held(dq)) \subseteq Ancestors(other)
       /\ answer = "listed" => Pending = {}
       /\ answer # "exception" =>
            /\ other \in visited \cup Pending
            /\ \A c \in visited : Range(parents[c]) \subseteq visited \cup Pending

\* Each of the two walks has the answers that are its own.
Answers ==
  /\ answer \in {"fast-forward", "divergent"} => command = "merge"
  /\ answer = "listed" => command = "log"

WalkInv == Graph /\ Inside /\ Answers /\ (OneMerge => Fits /\ Seeking) /\ Listing

\* The walk changes no history, so what is said of it stays.
LEMMA SameGraph ==
  ASSUME UNCHANGED graph
  PROVE  /\ Graph <=> Graph'
         /\ OneMerge <=> OneMerge'
         /\ UNCHANGED <<command, parents, readable, ours, other, Slot, Ancestors(other)>>
         /\ \A x : Ancestors(x)' = Ancestors(x) /\ MergeCommits(x)' = MergeCommits(x)
<1>1. UNCHANGED <<command, parents, readable, ours, other>>
  BY DEF graph
<1>2. \A x : Ancestors(x)' = Ancestors(x)
  BY <1>1 DEF Ancestors
<1>3. \A x : MergeCommits(x)' = MergeCommits(x)
  BY <1>1, <1>2 DEF MergeCommits
<1>4. Ancestors(other)' = Ancestors(other) /\ MergeCommits(other)' = MergeCommits(other)
  BY <1>1, <1>2, <1>3 DEF Ancestors, MergeCommits
<1> QED
  BY <1>1, <1>2, <1>3, <1>4 DEF Graph, OneMerge, Slot

\* The invariant holds as a walk starts.
LEMMA Starts ==
  ASSUME WInit
  PROVE  WalkInv
<1>1. Graph
  BY Beginnings
<1>2. /\ dq = PushedBack(EmptyDeque, other) /\ left = <<>> /\ visited = {}
      /\ answer = "walking" /\ other \in Commits
  BY <1>1 DEF WInit, Graph
<1>3. PICK d : d = EmptyDeque
  OBVIOUS
<1>4. Small(d, Slot) /\ d.filled = 0 /\ d.slots = <<>> /\ d.start = 0 /\ d.end = 0
  BY <1>3 DEF Small, EmptyDeque
<1>5. other \in Slot /\ Null \in Slot /\ other \in Ancestors(other)
  BY <1>2, Self DEF Slot
<1>6. /\ Small(dq, Slot) /\ dq.filled = 1 /\ Held(dq) = Append(Held(d), other)
  <2>1. PICK V, x, e : V = Slot /\ x = other /\ e = dq
    OBVIOUS
  <2>2. e = PushedBack(d, x) /\ x \in V /\ Null \in V /\ Small(d, V) /\ d.filled < 2
    BY <1>2, <1>3, <1>4, <1>5, <2>1
  <2>3. Small(e, V) /\ e.filled = d.filled + 1 /\ Held(e) = Append(Held(d), x)
    BY <2>2, BackPushed
  <2> QED
    BY <1>4, <2>1, <2>3
<1>7. Held(d) = <<>>
  BY <1>4, HeldOf
<1>8. Range(Held(dq)) = {other} /\ Range(left) = {}
  <2>1. <<>> \in Seq(Commits) /\ Range(<<>>) = {}
    BY RangeNone
  <2>2. Range(Append(Held(d), other)) = Range(Held(d)) \cup {other}
    <3>1. PICK x : x = other
      OBVIOUS
    <3>2. x \in Commits
      BY <1>2, <3>1
    <3>3. PICK s \in Seq(Commits) : s = <<>>
      BY <2>1
    <3>4. Range(Append(s, x)) = Range(s) \cup {x}
      BY <3>2, RangeAppend
    <3> QED
      BY <1>7, <3>1, <3>3, <3>4
  <2> QED
    BY <1>2, <1>6, <1>7, <2>1, <2>2
<1>9. Ring(d, Slot)
  <2>1. <<>> \in Seq(Slot) /\ Len(<<>>) = 0
    OBVIOUS
  <2> QED
    BY <1>3, <1>4, <2>1 DEF Ring, EmptyDeque
<1>10. Ring(dq, Slot)
  BY <1>2, <1>3, <1>5, <1>9, RingPushed
<1>11. dq.start = 0
  BY <1>2, <1>3, <1>4 DEF PushedBack
<1>12. Inside
  BY <1>2, <1>10 DEF Inside
<1>13. Pending = {other}
  BY <1>8 DEF Pending
<1>14. OneMerge => Fits /\ Seeking
  <2>1. Len(left) = 0
    BY <1>2
  <2>2. Fits
    BY <1>2, <1>5, <1>6, <1>8, <2>1 DEF Fits
  <2>3. Seeking
    BY <1>2, <1>13 DEF Seeking
  <2> QED
    BY <2>2, <2>3
<1>15. Listing
  BY <1>2, <1>5, <1>6, <1>8, <1>11, <1>13 DEF Listing
<1>16. Answers
  BY <1>2 DEF Answers
<1> QED
  BY <1>1, <1>12, <1>14, <1>15, <1>16 DEF WalkInv

-----------------------------------------------------------------------------
(***************************************************************************)
(* The steps.                                                              *)
(***************************************************************************)
\* The parents of a commit inside the walk are inside.
LEMMA ParentsInside ==
  ASSUME Graph, NEW c \in Ancestors(other)
  PROVE  /\ c \in Commits /\ parents[c] \in Seq(Ancestors(other))
         /\ Range(parents[c]) \subseteq Ancestors(other)
<1>1. c \in Commits
  BY AncestorsType
<1>2. parents[c] \in Seq(Range(parents[c]))
  BY <1>1, ParentsType, SeqOfRange
<1>3. Range(parents[c]) \subseteq Ancestors(other)
  BY Closed
<1> QED
  BY <1>1, <1>2, <1>3, SeqMonotonic

\* A slot never written holds no commit.
LEMMA NoNull == Null \notin Ancestors(other) /\ Null \notin Commits
BY WalkAssumption, AncestorsType DEF Commits

\* A commit c of h is replaced by its parents, or by nothing: with one merge
\* commit at most two are left.
LEMMA Taken ==
  ASSUME Graph, OneMerge, NEW c, NEW h, NEW rest, NEW l, NEW n \in 1 .. 2,
         Range(h) \subseteq Ancestors(other), Range(h) = {c} \cup Range(rest),
         n = 1 => Range(rest) = {},
         n = 2 => \A x \in Range(h) : MergeCommits(x) = {},
         l = <<>> \/ l = parents[c]
  PROVE  /\ n - 1 + Len(l) <= 2
         /\ n - 1 + Len(l) = 2 => \A x \in Range(rest) \cup Range(l) : MergeCommits(x) = {}
<1>1. c \in Ancestors(other) /\ c \in Commits
  BY ParentsInside
<1>2. CASE l = <<>>
  <2>1. Len(l) = 0
    BY <1>2
  <2> QED
    BY <2>1
<1>3. CASE l = parents[c]
  <2>1. PICK k : k = Len(l)
    OBVIOUS
  <2>2. k \in 0 .. 2
    BY <1>1, <1>3, <2>1, ParentsType
  <2>3. CASE n = 1
    <3>1. ASSUME k = 2, NEW x \in Range(l)
          PROVE  MergeCommits(x) = {}
      <4>1. Len(parents[c]) > 1 /\ x \in Range(parents[c])
        BY <1>3, <2>1, <3>1
      <4> QED
        BY <1>1, <4>1, PlainParents
    <3> QED
      BY <2>1, <2>2, <2>3, <3>1
  <2>4. CASE n = 2
    <3>1. MergeCommits(c) = {} /\ \A x \in Range(rest) : MergeCommits(x) = {}
      BY <2>4
    <3>2. Len(parents[c]) \in 0 .. 1 /\ \A x \in Range(l) : MergeCommits(x) = {}
      BY <1>1, <1>3, <3>1, PlainBelow
    <3>3. k \in 0 .. 1
      BY <1>3, <2>1, <3>2
    <3> QED
      BY <2>1, <2>4, <3>1, <3>2, <3>3
  <2> QED
    BY <2>3, <2>4
<1> QED
  BY <1>2, <1>3

\* What a pop leaves of a small deque.
LEMMA HeldPopped ==
  ASSUME NEW V, NEW d, Small(d, V), d.filled > 0
  PROVE  /\ d.filled \in 1 .. 2
         /\ Range(Held(d)) = {Front(d)} \cup Range(Held(PoppedFront(d)))
         /\ Range(Held(d)) = {Back(d)} \cup Range(Held(PoppedBack(d)))
         /\ d.filled = 1 => Range(Held(PoppedFront(d))) = {} /\ Range(Held(PoppedBack(d))) = {}
<1>1. Held(d) \in Seq(V) /\ d.filled \in 0 .. 2
  BY HeldLen
<1>2. /\ Held(d) # <<>> /\ Front(d) = Head(Held(d)) /\ Held(PoppedFront(d)) = Tail(Held(d))
      /\ Small(PoppedFront(d), V) /\ PoppedFront(d).filled = d.filled - 1
  BY FrontPopped
<1>3. /\ Back(d) = Held(d)[Len(Held(d))]
      /\ Held(PoppedBack(d)) = SubSeq(Held(d), 1, Len(Held(d)) - 1)
      /\ Small(PoppedBack(d), V) /\ PoppedBack(d).filled = d.filled - 1
  BY BackPopped
<1>4. Range(Held(d)) = {Front(d)} \cup Range(Held(PoppedFront(d)))
  BY <1>1, <1>2, RangeTail
<1>5. Range(Held(d)) = {Back(d)} \cup Range(Held(PoppedBack(d)))
  BY <1>1, <1>2, <1>3, RangeFront
<1>6. ASSUME d.filled = 1
      PROVE  Range(Held(PoppedFront(d))) = {} /\ Range(Held(PoppedBack(d))) = {}
  <2>1. PoppedFront(d).filled = 0 /\ PoppedBack(d).filled = 0
    BY <1>2, <1>3, <1>6
  <2>2. Held(PoppedFront(d)) = <<>> /\ Held(PoppedBack(d)) = <<>>
    BY <1>2, <1>3, <2>1, HeldOf
  <2> QED
    BY <2>2, RangeNone
<1> QED
  BY <1>1, <1>4, <1>5, <1>6

\* An empty deque ends the walk.
LEMMA ExhaustedKeeps ==
  ASSUME WalkInv, Exhausted
  PROVE  WalkInv'
<1>1. /\ UNCHANGED <<graph, dq, cur, left, visited>> /\ dq.filled = 0 /\ left = <<>>
      /\ answer' = IF command = "merge" THEN "divergent" ELSE "listed"
      /\ answer = "walking"
  BY DEF Exhausted
<1>2. /\ Graph' /\ (OneMerge <=> OneMerge')
      /\ UNCHANGED <<command, parents, readable, ours, other, Slot, Ancestors(other), Pending>>
      /\ \A x : Ancestors(x)' = Ancestors(x) /\ MergeCommits(x)' = MergeCommits(x)
  BY <1>1, SameGraph DEF WalkInv, Pending
<1>3. Inside'
  BY <1>1, <1>2 DEF WalkInv, Inside
<1>4. Small(dq, Slot) => Pending = {}
  <2> SUFFICES ASSUME Small(dq, Slot)
               PROVE  Pending = {}
    OBVIOUS
  <2>1. PICK d, V : d = dq /\ V = Slot
    OBVIOUS
  <2>2. Held(d) = <<>>
    BY <1>1, <2>1, HeldOf
  <2>3. Range(<<>>) = {}
    BY RangeNone
  <2> QED
    BY <1>1, <2>1, <2>2, <2>3 DEF Pending
<1>5. ASSUME OneMerge
      PROVE  Fits' /\ Seeking'
  <2>1. Fits /\ Seeking /\ Pending = {}
    BY <1>4, <1>5 DEF WalkInv, Fits
  <2>2. Fits'
    BY <1>1, <1>2, <2>1 DEF Fits
  <2>3. Seeking'
    BY <1>1, <1>2, <2>1 DEF Seeking
  <2> QED
    BY <2>2, <2>3
<1>6. Listing'
  <2> SUFFICES ASSUME command = "log"
               PROVE  Listing'
    BY <1>2 DEF Listing
  <2>1. ~Overwritten(dq, Slot)
    <3>1. PICK d, V : d = dq /\ V = Slot
      OBVIOUS
    <3>2. Overwritten(d, V) => d.filled > 0
      BY OverwrittenPopped
    <3> QED
      BY <1>1, <3>1, <3>2
  <2>2. /\ Small(dq, Slot) /\ dq.start = 0 /\ Range(Held(dq)) \subseteq Ancestors(other)
        /\ other \in visited \cup Pending
        /\ \A c \in visited : Range(parents[c]) \subseteq visited \cup Pending
    BY <1>1, <2>1 DEF WalkInv, Listing
  <2> QED
    BY <1>1, <1>2, <1>4, <2>2 DEF Listing
<1>7. Answers'
  BY <1>1, <1>2 DEF WalkInv, Answers, Graph
<1> QED
  BY <1>2, <1>3, <1>5, <1>6, <1>7 DEF WalkInv

\* merge takes a commit from the front.
LEMMA TakeKeeps ==
  ASSUME WalkInv, Take
  PROVE  WalkInv'
<1>1. PICK d, e, c, l, a, V : /\ d = dq /\ e = dq' /\ c = cur' /\ l = left' /\ a = answer'
                              /\ V = Slot
  OBVIOUS
<1>2. /\ UNCHANGED <<graph, visited>> /\ d.filled > 0 /\ left = <<>> /\ command = "merge"
      /\ c = Front(d) /\ e = PoppedFront(d) /\ answer = "walking"
  BY <1>1 DEF Take, Takes
<1>3. /\ a = IF c = Null THEN "crash" ELSE IF c = ours THEN "fast-forward" ELSE "walking"
      /\ l = IF a = "walking" THEN parents[c] ELSE <<>>
  BY <1>1 DEF Take
<1>4. /\ Graph' /\ (OneMerge <=> OneMerge')
      /\ UNCHANGED <<command, parents, readable, ours, other, Slot, Ancestors(other)>>
      /\ \A x : Ancestors(x)' = Ancestors(x) /\ MergeCommits(x)' = MergeCommits(x)
  BY <1>2, SameGraph DEF WalkInv
<1>5. Ring(e, V) /\ c \in V
  BY <1>1, <1>2, RingFrontPopped DEF WalkInv, Inside
<1>6. c = Null \/ c \in Ancestors(other)
  BY <1>1, <1>5 DEF Slot
<1>7. l \in Seq(Ancestors(other))
  BY <1>3, <1>6, ParentsInside DEF WalkInv
<1>8. a = "fast-forward" => ours \in Ancestors(other)
  BY <1>3, <1>6
<1>9. Inside'
  BY <1>1, <1>2, <1>3, <1>4, <1>5, <1>7, <1>8 DEF WalkInv, Inside
<1>10. Pending' = Range(Held(e)) \cup Range(l)
  BY <1>1 DEF Pending
<1>11. Pending = Range(Held(d))
  BY <1>1, <1>2, RangeNone DEF Pending
<1>12. ASSUME OneMerge
       PROVE  Fits' /\ Seeking'
  <2>1. /\ Small(d, V) /\ Range(Held(d)) \subseteq Ancestors(other)
        /\ d.filled = 2 => \A x \in Range(Held(d)) : MergeCommits(x) = {}
    <3>1. Len(left) = 0 /\ d.filled + 0 = d.filled
      BY <1>1, <1>2, <1>12, HeldLen DEF WalkInv, Fits
    <3> QED
      BY <1>1, <1>11, <1>12, <3>1 DEF WalkInv, Fits
  <2>2. Small(e, V) /\ e.filled = d.filled - 1
    BY <1>2, <2>1, FrontPopped
  <2>3. /\ d.filled \in 1 .. 2 /\ Range(Held(d)) = {c} \cup Range(Held(e))
        /\ d.filled = 1 => Range(Held(e)) = {}
    BY <1>2, <2>1, HeldPopped
  <2>4. c \in Ancestors(other) /\ c # Null
    BY <2>1, <2>3, NoNull
  <2>5. /\ d.filled - 1 + Len(l) <= 2
        /\ d.filled - 1 + Len(l) = 2 => \A x \in Range(Held(e)) \cup Range(l) : MergeCommits(x) = {}
    BY <1>3, <1>12, <2>1, <2>3, Taken DEF WalkInv
  <2>6. Fits'
    BY <1>1, <1>3, <1>4, <1>10, <2>1, <2>2, <2>3, <2>4, <2>5 DEF Fits
  <2>7. Seeking'
    <3> SUFFICES ASSUME ours \in Ancestors(other), a = "walking"
                 PROVE  \E x \in Range(Held(e)) \cup Range(l) : ours \in Ancestors(x)
      BY <1>1, <1>3, <1>4, <1>10 DEF Seeking
    <3>1. PICK x \in Range(Held(d)) : ours \in Ancestors(x)
      BY <1>2, <1>11, <1>12 DEF WalkInv, Seeking
    <3>2. CASE x = c
      <4>1. c \in Commits /\ ours # c /\ l = parents[c]
        BY <1>3, <2>4, AncestorsType
      <4>2. PICK p \in Range(parents[c]) : ours \in Ancestors(p)
        BY <3>1, <3>2, <4>1, Through DEF WalkInv
      <4> QED
        BY <4>1, <4>2
    <3>3. CASE x # c
      BY <2>3, <3>1, <3>3
    <3> QED
      BY <3>2, <3>3
  <2> QED
    BY <2>6, <2>7
<1>13. Listing'
  BY <1>2, <1>4 DEF Listing
<1>14. Answers'
  BY <1>1, <1>2, <1>3, <1>4 DEF Answers
<1> QED
  BY <1>4, <1>9, <1>12, <1>13, <1>14 DEF WalkInv

\* log takes a commit from the back.
LEMMA ListKeeps ==
  ASSUME WalkInv, List
  PROVE  WalkInv'
<1>1. PICK d, e, c, l, a, v, V :
        /\ d = dq /\ e = dq' /\ c = cur' /\ l = left' /\ a = answer' /\ v = visited'
        /\ V = Slot
  OBVIOUS
<1>2. /\ UNCHANGED graph /\ d.filled > 0 /\ left = <<>> /\ command = "log"
      /\ c = Back(d) /\ e = PoppedBack(d) /\ answer = "walking"
  BY <1>1 DEF List, Takes
<1>3. /\ a = IF c = Null THEN "crash" ELSE "walking"
      /\ v = visited \cup ({c} \ {Null})
      /\ l = IF c \in visited \cup {Null} THEN <<>> ELSE parents[c]
  BY <1>1 DEF List
<1>4. /\ Graph' /\ (OneMerge <=> OneMerge')
      /\ UNCHANGED <<command, parents, readable, ours, other, Slot, Ancestors(other)>>
      /\ \A x : Ancestors(x)' = Ancestors(x) /\ MergeCommits(x)' = MergeCommits(x)
  BY <1>2, SameGraph DEF WalkInv
<1>5. Ring(e, V) /\ c \in V
  BY <1>1, <1>2, RingBackPopped DEF WalkInv, Inside
<1>6. c = Null \/ c \in Ancestors(other)
  BY <1>1, <1>5 DEF Slot
<1>7. l \in Seq(Ancestors(other))
  BY <1>3, <1>6, ParentsInside DEF WalkInv
<1>8. v \subseteq Ancestors(other)
  BY <1>3, <1>6 DEF WalkInv, Inside
<1>9. Inside'
  BY <1>1, <1>3, <1>4, <1>5, <1>7, <1>8 DEF Inside
<1>10. Pending' = Range(Held(e)) \cup Range(l)
  BY <1>1 DEF Pending
<1>11. Pending = Range(Held(d))
  BY <1>1, <1>2, RangeNone DEF Pending
<1>12. ASSUME Small(d, V), Range(Held(d)) \subseteq Ancestors(other)
       PROVE  /\ Small(e, V) /\ e.filled = d.filled - 1 /\ d.filled \in 1 .. 2
              /\ Range(Held(d)) = {c} \cup Range(Held(e))
              /\ d.filled = 1 => Range(Held(e)) = {}
              /\ c \in Ancestors(other) /\ c # Null /\ a = "walking"
  <2>1. Small(e, V) /\ e.filled = d.filled - 1
    BY <1>2, <1>12, BackPopped
  <2>2. /\ d.filled \in 1 .. 2 /\ Range(Held(d)) = {c} \cup Range(Held(e))
        /\ d.filled = 1 => Range(Held(e)) = {}
    BY <1>2, <1>12, HeldPopped
  <2>3. c \in Ancestors(other) /\ c # Null
    BY <1>12, <2>2, NoNull
  <2> QED
    BY <1>3, <2>1, <2>2, <2>3
<1>13. ASSUME OneMerge
       PROVE  Fits' /\ Seeking'
  <2>1. /\ Small(d, V) /\ Range(Held(d)) \subseteq Ancestors(other)
        /\ d.filled = 2 => \A x \in Range(Held(d)) : MergeCommits(x) = {}
    <3>1. Len(left) = 0 /\ d.filled + 0 = d.filled
      BY <1>1, <1>2, <1>13, HeldLen DEF WalkInv, Fits
    <3> QED
      BY <1>1, <1>11, <1>13, <3>1 DEF WalkInv, Fits
  <2>2. l = <<>> \/ l = parents[c]
    BY <1>3
  <2>3. /\ d.filled - 1 + Len(l) <= 2
        /\ d.filled - 1 + Len(l) = 2 => \A x \in Range(Held(e)) \cup Range(l) : MergeCommits(x) = {}
    BY <1>12, <1>13, <2>1, <2>2, Taken DEF WalkInv
  <2>4. Fits'
    BY <1>1, <1>4, <1>10, <1>12, <2>1, <2>3 DEF Fits
  <2>5. Seeking'
    BY <1>2, <1>4 DEF Seeking
  <2> QED
    BY <2>4, <2>5
<1>14. Listing'
  <2>1. CASE Overwritten(d, V)
    <3>1. Back(d) = Null \/ Overwritten(PoppedBack(d), V)
      BY <2>1, OverwrittenPopped
    <3>2. a = "crash" \/ (Overwritten(e, V) /\ a # "listed")
      BY <1>2, <1>3, <3>1
    <3> QED
      BY <1>1, <1>4, <3>2 DEF Listing
  <2>2. CASE /\ Small(d, V) /\ d.start = 0 /\ Range(Held(d)) \subseteq Ancestors(other)
             /\ other \in visited \cup Pending
             /\ \A x \in visited : Range(parents[x]) \subseteq visited \cup Pending
    <3>1. /\ Small(e, V) /\ Range(Held(d)) = {c} \cup Range(Held(e))
          /\ c # Null /\ a = "walking" /\ v = visited \cup {c}
      BY <1>3, <1>12, <2>2
    <3>2. e.start = 0
      <4>1. e.start = d.start
        BY <1>1, <1>2 DEF PoppedBack, WalkInv, Inside, Ring
      <4> QED
        BY <2>2, <4>1
    <3>3. other \in v \cup Range(Held(e)) \cup Range(l)
      BY <1>11, <2>2, <3>1
    <3>4. ASSUME NEW x \in v
          PROVE  Range(parents[x]) \subseteq v \cup Range(Held(e)) \cup Range(l)
      <4>1. CASE x \in visited
        BY <1>11, <2>2, <3>1, <4>1
      <4>2. CASE x \notin visited
        <5>1. x = c /\ l = parents[c]
          BY <1>3, <3>1, <4>2
        <5> QED
          BY <5>1
      <4> QED
        BY <4>1, <4>2
    <3>5. Range(Held(e)) \subseteq Ancestors(other)
      BY <2>2, <3>1
    <3> QED
      BY <1>1, <1>4, <1>10, <3>1, <3>2, <3>3, <3>4, <3>5 DEF Listing
  <2> QED
    BY <1>1, <1>2, <2>1, <2>2 DEF WalkInv, Listing
<1>15. Answers'
  BY <1>1, <1>3 DEF Answers
<1> QED
  BY <1>4, <1>9, <1>13, <1>14, <1>15 DEF WalkInv

\* The next parent is pushed at the back.
LEMMA PushParentKeeps ==
  ASSUME WalkInv, PushParent
  PROVE  WalkInv'
<1>1. PICK d, e, s, l, a, V :
        d = dq /\ e = dq' /\ s = left /\ l = left' /\ a = answer' /\ V = Slot
  OBVIOUS
<1>2. /\ UNCHANGED <<graph, visited>> /\ s # <<>> /\ l = Tail(s) /\ answer = "walking"
      /\ s \in Seq(Ancestors(other)) /\ Ring(d, V)
  BY <1>1 DEF PushParent, WalkInv, Inside
<1>3. PICK p : p = Head(s)
  OBVIOUS
<1>4. \/ p \in readable /\ e = PushedBack(d, p) /\ a = "walking"
      \/ p \notin readable /\ e = d /\ a = "exception"
  BY <1>1, <1>2, <1>3 DEF PushParent
<1>5. /\ Graph' /\ (OneMerge <=> OneMerge')
      /\ UNCHANGED <<command, parents, readable, ours, other, Slot, Ancestors(other)>>
      /\ \A x : Ancestors(x)' = Ancestors(x) /\ MergeCommits(x)' = MergeCommits(x)
  BY <1>2, SameGraph DEF WalkInv
<1>6. /\ p \in Ancestors(other) /\ l \in Seq(Ancestors(other)) /\ Range(s) = {p} \cup Range(l)
      /\ Len(l) = Len(s) - 1 /\ Len(s) \in Nat \ {0}
  BY <1>2, <1>3, RangeTail
<1>7. p \in V /\ Null \in V
  BY <1>1, <1>6 DEF Slot
<1>8. Ring(e, V)
  BY <1>2, <1>4, <1>7, RingPushed
<1>9. Inside'
  BY <1>1, <1>2, <1>4, <1>5, <1>6, <1>8 DEF WalkInv, Inside
<1>10. Pending' = Range(Held(e)) \cup Range(l) /\ Pending = Range(Held(d)) \cup Range(s)
  BY <1>1 DEF Pending
<1>11. ASSUME Small(d, V), d.filled < 2, p \in readable
       PROVE  /\ Small(e, V) /\ e.filled = d.filled + 1
              /\ Range(Held(e)) = Range(Held(d)) \cup {p} /\ Pending' = Pending
  <2>1. Small(e, V) /\ e.filled = d.filled + 1 /\ Held(e) = Append(Held(d), p)
    BY <1>4, <1>7, <1>11, BackPushed
  <2>2. Held(d) \in Seq(V)
    BY <1>11, HeldLen
  <2>3. Range(Held(e)) = Range(Held(d)) \cup {p}
    BY <1>7, <2>1, <2>2, RangeAppend
  <2> QED
    BY <1>6, <1>10, <2>1, <2>3
<1>12. ASSUME OneMerge
       PROVE  Fits' /\ Seeking'
  <2>1. /\ Small(d, V) /\ Range(Held(d)) \subseteq Ancestors(other)
        /\ d.filled + Len(s) <= 2
        /\ d.filled + Len(s) = 2 => \A x \in Pending : MergeCommits(x) = {}
    BY <1>1, <1>12 DEF WalkInv, Fits
  <2>2. PICK n, k : n = Len(s) /\ k = Len(l)
    OBVIOUS
  <2>3. n \in Nat \ {0} /\ k = n - 1 /\ d.filled \in 0 .. 2 /\ d.filled + n <= 2
    BY <1>6, <2>1, <2>2, HeldLen
  <2>4. d.filled < 2
    BY <2>3
  <2>5. CASE p \in readable
    <3>1. /\ Small(e, V) /\ e.filled = d.filled + 1
          /\ Range(Held(e)) = Range(Held(d)) \cup {p} /\ Pending' = Pending
      BY <1>11, <2>1, <2>4, <2>5
    <3>2. e.filled + k = d.filled + n /\ a = "walking"
      BY <1>4, <2>3, <2>5, <3>1
    <3>3. /\ e.filled + Len(l) <= 2
          /\ e.filled + Len(l) = 2 => \A x \in Pending : MergeCommits(x) = {}
      BY <2>1, <2>2, <3>2
    <3>4. Range(Held(e)) \subseteq Ancestors(other)
      BY <1>6, <2>1, <3>1
    <3>5. Fits'
      BY <1>1, <1>5, <3>1, <3>2, <3>3, <3>4 DEF Fits
    <3>6. Seeking'
      BY <1>1, <1>2, <1>5, <1>12, <3>1, <3>2 DEF WalkInv, Seeking
    <3> QED
      BY <3>5, <3>6
  <2>6. CASE p \notin readable
    <3>1. e = d /\ a = "exception"
      BY <1>4, <2>6
    <3>2. e.filled + k < 2
      BY <2>3, <3>1
    <3>3. e.filled + Len(l) <= 2 /\ e.filled + Len(l) # 2
      BY <2>2, <2>3, <3>1, <3>2
    <3>4. Fits'
      BY <1>1, <1>5, <2>1, <3>1, <3>3 DEF Fits
    <3>5. Seeking'
      BY <1>1, <3>1 DEF Seeking
    <3> QED
      BY <3>4, <3>5
  <2> QED
    BY <2>5, <2>6
<1>13. Listing'
  <2> SUFFICES ASSUME command = "log"
               PROVE  Listing'
    BY <1>5 DEF Listing
  <2>1. CASE Overwritten(d, V)
    <3>1. Overwritten(e, V)
      BY <1>4, <1>7, <2>1, OverwrittenPushed
    <3>2. a # "listed"
      BY <1>4
    <3> QED
      BY <1>1, <1>5, <3>1, <3>2 DEF Listing
  <2>2. CASE /\ Small(d, V) /\ d.start = 0 /\ Range(Held(d)) \subseteq Ancestors(other)
             /\ other \in visited \cup Pending
             /\ \A x \in visited : Range(parents[x]) \subseteq visited \cup Pending
    <3>1. CASE p \notin readable
      <4>1. e = d /\ a = "exception"
        BY <1>4, <3>1
      <4> QED
        BY <1>1, <1>5, <2>2, <4>1 DEF Listing
    <3>2. CASE p \in readable /\ d.filled = 2
      <4>1. Overwritten(e, V) /\ a = "walking"
        BY <1>4, <1>7, <2>2, <3>2, ThirdPushed
      <4> QED
        BY <1>1, <1>5, <4>1 DEF Listing
    <3>3. CASE p \in readable /\ d.filled # 2
      <4>1. d.filled < 2
        BY <2>2, <3>3, HeldLen
      <4>2. /\ Small(e, V) /\ Range(Held(e)) = Range(Held(d)) \cup {p} /\ Pending' = Pending
            /\ a = "walking"
        BY <1>4, <1>11, <2>2, <3>3, <4>1
      <4>3. e.start = 0
        BY <1>4, <2>2, <3>3 DEF PushedBack
      <4>4. Range(Held(e)) \subseteq Ancestors(other)
        BY <1>6, <2>2, <4>2
      <4> QED
        BY <1>1, <1>2, <1>5, <2>2, <4>2, <4>3, <4>4 DEF Listing
    <3> QED
      BY <3>1, <3>2, <3>3
  <2> QED
    BY <1>1, <1>2, <2>1, <2>2 DEF WalkInv, Listing
<1>14. Answers'
  BY <1>1, <1>4 DEF Answers
<1> QED
  BY <1>5, <1>9, <1>12, <1>13, <1>14 DEF WalkInv

\* The invariant holds of every walk.
LEMMA Walking == WSpec => []WalkInv
<1>1. WInit => WalkInv
  BY Starts
<1>2. WalkInv /\ [WNext]_wvars => WalkInv'
  <2> SUFFICES ASSUME WalkInv, [WNext]_wvars
               PROVE  WalkInv'
    OBVIOUS
  <2>1. CASE Exhausted
    BY <2>1, ExhaustedKeeps
  <2>2. CASE Take
    BY <2>2, TakeKeeps
  <2>3. CASE List
    BY <2>3, ListKeeps
  <2>4. CASE PushParent
    BY <2>4, PushParentKeeps
  <2>5. CASE UNCHANGED wvars
    <3>1. UNCHANGED <<graph, dq, cur, left, visited, answer>>
      BY <2>5 DEF wvars
    <3>2. /\ Graph' /\ (OneMerge <=> OneMerge')
          /\ UNCHANGED <<command, parents, readable, ours, other, Slot, Ancestors(other), Pending>>
          /\ \A x : Ancestors(x)' = Ancestors(x) /\ MergeCommits(x)' = MergeCommits(x)
      BY <3>1, SameGraph DEF WalkInv, Pending
    <3>3. Inside' /\ Answers'
      BY <3>1, <3>2 DEF WalkInv, Inside, Answers
    <3>4. (OneMerge => Fits /\ Seeking)' /\ Listing'
      BY <3>1, <3>2 DEF WalkInv, Fits, Seeking, Listing
    <3> QED
      BY <3>2, <3>3, <3>4 DEF WalkInv
  <2> QED
    BY <2>1, <2>2, <2>3, <2>4, <2>5 DEF WNext
<1> QED
  BY <1>1, <1>2, PTL DEF WSpec

\* merge fast-forwards only when our commit is below the other, whatever the
\* deque loses; and with one merge commit below the other, which is as many as
\* the deque can take, it finds ours if it is there, unless a commit on the way
\* cannot be read.
THEOREM WalksRight == WSpec => []WalkRight
<1>1. WalkInv => WalkRight
  BY DEF WalkInv, Inside, Fits, Seeking, Answers, OneMerge, WalkRight
<1> QED
  BY <1>1, Walking, PTL

\* log lists only what is below the commit of HEAD.  When it comes to its end
\* it has listed all of it; with two merge commits it may dereference a null
\* pointer before, with one it may only meet a commit that cannot be read.
THEOREM LogsRight == WSpec => []LogRight
<1>1. ASSUME WalkInv, command = "log", answer = "listed"
      PROVE  visited = Ancestors(other)
  <2>1. Pending = {} /\ other \in visited
        /\ \A c \in visited : Range(parents[c]) \subseteq visited
    BY <1>1 DEF WalkInv, Listing
  <2>2. visited \subseteq Ancestors(other) /\ visited \subseteq Commits
    BY <1>1, AncestorsType DEF WalkInv, Inside
  <2>3. PICK v : v = visited
    OBVIOUS
  <2>4. Ancestors(other) \subseteq v
    BY <2>1, <2>2, <2>3, Least
  <2> QED
    BY <2>2, <2>3, <2>4
<1>2. WalkInv => LogRight
  BY <1>1 DEF WalkInv, Inside, Fits, OneMerge, LogRight
<1> QED
  BY <1>2, Walking, PTL
=============================================================================

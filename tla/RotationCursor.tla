--------------------------- MODULE RotationCursor ---------------------------
(***************************************************************************)
(* The rotation cursor of internal/devin/rotate.go: a walk position over a *)
(* list of slots, each with the deadline until which it is out of rotation.*)
(* The account pool and the outbound-route pool both hold one and call it  *)
(* under their rotation lock, so every operation here is atomic and is an  *)
(* operator on the record [next, cooling].                                 *)
(*                                                                         *)
(* Slots are numbered from 1 (the code counts from 0) and 0 is the code's  *)
(* -1, "no slot".  A deadline is a natural number; 0 is the zero time.Time.*)
(***************************************************************************)
EXTENDS Integers, SequencesExt

NoSlot == 0

Cursor == [next : Nat \ {0}, cooling : Seq(Nat)]

NewCursor(n) == [next |-> 1, cooling |-> [i \in 1..n |-> 0]]

Slots(c) == 1..Len(c.cooling)

IsCooling(c, i, now) == now < c.cooling[i]

WarmSlots(c, now) == {i \in Slots(c) : ~IsCooling(c, i, now)}

AppendSlot(c) == [c EXCEPT !.cooling = Append(@, 0)]

(* Slips a removal could make: the walk position stays put, or it moves    *)
(* back even when it is the walk position's own slot that goes.            *)
RemoveSlotUnmoved(c, i) ==
  IF i \notin Slots(c) THEN c
  ELSE [next    |-> IF c.next > Len(c.cooling) - 1 THEN 1 ELSE c.next,
        cooling |-> RemoveAt(c.cooling, i)]

RemoveSlotMovedTooFar(c, i) ==
  IF i \notin Slots(c) THEN c
  ELSE [next    |-> IF i <= c.next THEN c.next - 1 ELSE c.next,
        cooling |-> RemoveAt(c.cooling, i)]

(* Removing a slot before the walk position moves the position back; one   *)
(* left past the shrunken end wraps to the first slot.                     *)
RemoveSlot(c, i) ==
  LET moved == IF i < c.next THEN c.next - 1 ELSE c.next
  IN  IF i \notin Slots(c) THEN c
      ELSE [next    |-> IF moved > Len(c.cooling) - 1 THEN 1 ELSE moved,
            cooling |-> RemoveAt(c.cooling, i)]

(* The slot k places along the walk, which wraps at the end of the list.   *)
SlotAt(c, k) ==
  LET start == IF c.next > Len(c.cooling) THEN 1 ELSE c.next
  IN  ((start - 1 + k) % Len(c.cooling)) + 1

(* How far along the walk the chosen slot is: the first warm one, or, when *)
(* every slot is cooling, the first of those that recover soonest.         *)
Candidates(c, now) ==
  LET walk    == 0..(Len(c.cooling) - 1)
      warm    == {k \in walk : ~IsCooling(c, SlotAt(c, k), now)}
      soonest == {k \in walk : \A j \in walk :
                     c.cooling[SlotAt(c, k)] <= c.cooling[SlotAt(c, j)]}
  IN  IF warm # {} THEN warm ELSE soonest

Picked(c, now) ==
  IF Len(c.cooling) = 0 THEN NoSlot
  ELSE SlotAt(c, CHOOSE k \in Candidates(c, now) :
                    \A j \in Candidates(c, now) : k <= j)

Advance(c, i) == [c EXCEPT !.next = (i % Len(c.cooling)) + 1]

SetCooling(c, i, until) == [c EXCEPT !.cooling[i] = until]

(* A slip: the newest refusal decides, even when it cuts a longer cooldown.*)
CoolOffOverwriting(c, i, until) == SetCooling(c, i, until)

(* A refusal pushes the deadline out, never in.                            *)
CoolOff(c, i, until) ==
  IF until > c.cooling[i] THEN SetCooling(c, i, until) ELSE c

(* The pool-wide retraction applied to a set of slots: pulls in, never out.*)
ClampCooling(c, S, until) ==
  [c EXCEPT !.cooling = [i \in Slots(c) |->
     IF i \in S /\ until < c.cooling[i] THEN until ELSE c.cooling[i]]]

(* A slip: late evidence starts a cooldown of its own.                     *)
CanExtendWarm(c, i, now, until) ==
  /\ i \in Slots(c)
  /\ until > c.cooling[i]

(* Late evidence only lengthens a cooldown that is still running.          *)
CanExtend(c, i, now, until) ==
  /\ i \in Slots(c)
  /\ IsCooling(c, i, now)
  /\ until > c.cooling[i]
=============================================================================

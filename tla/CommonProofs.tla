---------------------------- MODULE CommonProofs ----------------------------
(***************************************************************************)
(* Facts the other proofs rest on: what the operations of the rotation     *)
(* cursor return, for lists of every length; sets of numbers; what a fold  *)
(* makes of a sequence, step by step; and sequences one behind the other.  *)
(***************************************************************************)
EXTENDS RotationCursor, SequenceTheorems, WellFoundedInduction, TLAPS

(* Splicing one element out of a list: the list is one shorter, and every  *)
(* element after the hole moves down by one place.                         *)
LEMMA RemoveAtProperties ==
  ASSUME NEW S, NEW s \in Seq(S), NEW i \in 1..Len(s)
  PROVE  /\ RemoveAt(s, i) \in Seq(S)
         /\ Len(RemoveAt(s, i)) = Len(s) - 1
         /\ \A j \in 1..(Len(s) - 1) :
               RemoveAt(s, i)[j] = IF j < i THEN s[j] ELSE s[j + 1]
<1> DEFINE before == SubSeq(s, 1, i - 1)
           after  == SubSeq(s, i + 1, Len(s))
<1>1. Len(s) \in Nat /\ \A j \in 1..Len(s) : s[j] \in S
  BY LenProperties, ElementOfSeq
<1>2. /\ before \in Seq(S)
      /\ Len(before) = i - 1
      /\ \A j \in 1..(i - 1) : before[j] = s[j]
  <2>1. \A j \in 1..(i - 1) : s[j] \in S
    BY <1>1
  <2>2. 1 \in Int /\ i - 1 \in Int
    BY <1>1
  <2> HIDE DEF before
  <2>3. /\ SubSeq(s, 1, i - 1) \in Seq(S)
        /\ Len(SubSeq(s, 1, i - 1)) = IF 1 <= i - 1 THEN i - 1 - 1 + 1 ELSE 0
        /\ \A j \in 1..(i - 1 - 1 + 1) : SubSeq(s, 1, i - 1)[j] = s[1 + j - 1]
    BY <2>1, <2>2, SubSeqProperties
  <2> QED
    BY <1>1, <2>3 DEF before
<1>3. /\ after \in Seq(S)
      /\ Len(after) = Len(s) - i
      /\ \A j \in 1..(Len(s) - i) : after[j] = s[i + j]
  <2>1. \A j \in (i + 1)..Len(s) : s[j] \in S
    BY <1>1
  <2>2. i + 1 \in Int /\ Len(s) \in Int
    BY <1>1
  <2>3. /\ SubSeq(s, i + 1, Len(s)) \in Seq(S)
        /\ Len(SubSeq(s, i + 1, Len(s))) =
              IF i + 1 <= Len(s) THEN Len(s) - (i + 1) + 1 ELSE 0
        /\ \A j \in 1..(Len(s) - (i + 1) + 1) :
              SubSeq(s, i + 1, Len(s))[j] = s[i + 1 + j - 1]
    BY <2>1, <2>2, SubSeqProperties
  <2> QED
    BY <1>1, <2>3 DEF after
<1>4. RemoveAt(s, i) = before \o after
  BY DEF RemoveAt, before, after
<1> HIDE DEF before, after
<1>5. /\ before \o after \in Seq(S)
      /\ Len(before \o after) = Len(before) + Len(after)
      /\ \A j \in 1..(Len(before) + Len(after)) : (before \o after)[j] =
            IF j <= Len(before) THEN before[j] ELSE after[j - Len(before)]
  BY <1>2, <1>3, ConcatProperties
<1> QED
  BY <1>1, <1>2, <1>3, <1>4, <1>5

(* Every non-empty set of natural numbers has a least element.             *)
LEMMA LeastNatural ==
  ASSUME NEW T \in SUBSET Nat, T # {}
  PROVE  \E n \in T : \A m \in T : n <= m
<1> DEFINE R == {p \in Nat \X Nat : p[1] < p[2]}
<1>1. OpToRel(<, Nat) = R
  BY DEF OpToRel
<1>2. IsWellFoundedOn(R, Nat)
  BY <1>1, NatLessThanWellFounded
<1> HIDE DEF R
<1>3. PICK n \in T : \A m \in T : ~ (<<m, n>> \in R)
  BY <1>2, WFMin
<1>4. ASSUME NEW m \in T, m < n  PROVE FALSE
  <2>1. <<m, n>> \in Nat \X Nat /\ <<m, n>>[1] < <<m, n>>[2]
    BY <1>4
  <2>2. <<m, n>> \in R
    BY <2>1, Zenon DEF R
  <2> QED
    BY <1>3, <2>2
<1> QED
  BY <1>4

(* The walk visits slots of the list.                                      *)
LEMMA SlotAtIsSlot ==
  ASSUME NEW c \in Cursor, Len(c.cooling) > 0, NEW k \in Nat
  PROVE  SlotAt(c, k) \in Slots(c)
<1>1. Len(c.cooling) \in Nat \ {0} /\ c.next \in Nat \ {0}
  BY DEF Cursor
<1> DEFINE n == Len(c.cooling)
           start == IF c.next > n THEN 1 ELSE c.next
<1>2. start \in Nat \ {0}
  BY <1>1
<1> HIDE DEF n, start
<1>3. \A x \in Nat, m \in Nat \ {0} : x % m \in 0..(m - 1)
  OBVIOUS
<1>4. start - 1 + k \in Nat
  BY <1>2
<1>5. n \in Nat \ {0}
  BY <1>1 DEF n
<1>6. (start - 1 + k) % n \in 0..(n - 1)
  BY <1>3, <1>4, <1>5
<1>7. SlotAt(c, k) = ((start - 1 + k) % n) + 1
  BY DEF SlotAt, start, n
<1> QED
  BY <1>5, <1>6, <1>7 DEF Slots, n

(* There is always a candidate along the walk; the first one is picked.    *)
LEMMA PickedAlongWalk ==
  ASSUME NEW c \in Cursor, Len(c.cooling) > 0, NEW now \in Nat
  PROVE  \E k \in Candidates(c, now) : /\ k \in Nat
                                      /\ Picked(c, now) = SlotAt(c, k)
                                      /\ \A j \in Candidates(c, now) : k <= j
<1> DEFINE walk == 0..(Len(c.cooling) - 1)
           warm == {k \in walk : ~IsCooling(c, SlotAt(c, k), now)}
           deadlines == {c.cooling[SlotAt(c, k)] : k \in walk}
           soonest == {k \in walk : \A j \in walk :
                          c.cooling[SlotAt(c, k)] <= c.cooling[SlotAt(c, j)]}
<1>1. Len(c.cooling) \in Nat \ {0} /\ c.cooling \in Seq(Nat)
  BY DEF Cursor
<1>2. walk \subseteq Nat /\ 0 \in walk
  BY <1>1
<1>3. \A k \in walk : SlotAt(c, k) \in Slots(c)
  BY <1>2, SlotAtIsSlot
<1>4. deadlines \subseteq Nat /\ deadlines # {}
  <2>1. \A i \in Slots(c) : c.cooling[i] \in Nat
    BY <1>1 DEF Slots
  <2> HIDE DEF walk
  <2> QED  BY <1>2, <1>3, <2>1
<1>5. soonest # {}
  <2>1. PICK d \in deadlines : \A e \in deadlines : d <= e
    <3> HIDE DEF deadlines
    <3> QED  BY <1>4, LeastNatural
  <2>2. PICK k \in walk : d = c.cooling[SlotAt(c, k)]
    BY <2>1
  <2>3. k \in soonest
    BY <2>1, <2>2
  <2> QED
    BY <2>3
<1>6. Candidates(c, now) = IF warm # {} THEN warm ELSE soonest
  BY DEF Candidates
<1>7. Candidates(c, now) \subseteq walk /\ Candidates(c, now) # {}
  <2> HIDE DEF walk
  <2> QED  BY <1>5, <1>6
<1>8. \E k \in Candidates(c, now) : \A j \in Candidates(c, now) : k <= j
  <2>1. Candidates(c, now) \in SUBSET Nat
    BY <1>2, <1>7
  <2> QED
    BY <1>7, <2>1, LeastNatural
<1> DEFINE first == CHOOSE k \in Candidates(c, now) : \A j \in Candidates(c, now) : k <= j
<1>9. /\ first \in Candidates(c, now) /\ first \in Nat
      /\ \A j \in Candidates(c, now) : first <= j
  <2> HIDE DEF walk
  <2> QED  BY <1>2, <1>7, <1>8
<1>10. Picked(c, now) = SlotAt(c, first)
  BY <1>1 DEF Picked
<1> HIDE DEF first
<1> QED
  BY <1>9, <1>10

(* What is picked is a slot of the list.                                   *)
LEMMA PickedIsSlot ==
  ASSUME NEW c \in Cursor, Len(c.cooling) > 0, NEW now \in Nat
  PROVE  Picked(c, now) \in Slots(c)
BY PickedAlongWalk, SlotAtIsSlot

(* The walk comes past every slot.                                         *)
LEMMA WalkReachesSlots ==
  ASSUME NEW c \in Cursor, NEW i \in Slots(c)
  PROVE  \E k \in 0..(Len(c.cooling) - 1) : SlotAt(c, k) = i
<1> DEFINE n == Len(c.cooling)
           start == IF c.next > n THEN 1 ELSE c.next
<1>1. n \in Nat \ {0} /\ i \in 1..n /\ start \in 1..n
  BY DEF Cursor, Slots
<1>2. \A k \in Nat : SlotAt(c, k) = ((start - 1 + k) % n) + 1
  BY DEF SlotAt
<1> HIDE DEF n, start
<1>3. \A m \in Nat \ {0} : \A x \in 0..(m - 1) : x % m = x /\ (x + m) % m = x
  OBVIOUS
<1>4. CASE start <= i
  <2>1. i - start \in 0..(n - 1) /\ start - 1 + (i - start) = i - 1 /\ i - 1 \in 0..(n - 1)
    BY <1>1, <1>4
  <2>2. (i - 1) % n = i - 1
    BY <1>1, <1>3, <2>1
  <2>3. i - start \in Nat
    BY <1>1, <1>4
  <2>4. SlotAt(c, i - start) = ((start - 1 + (i - start)) % n) + 1
    BY <1>2, <2>3
  <2>5. SlotAt(c, i - start) = i
    BY <1>1, <2>1, <2>2, <2>4
  <2> QED
    BY <2>1, <2>5 DEF n
<1>5. CASE i < start
  <2>1. i - start + n \in 0..(n - 1) /\ start - 1 + (i - start + n) = i - 1 + n /\ i - 1 \in 0..(n - 1)
    BY <1>1, <1>5
  <2>2. (i - 1 + n) % n = i - 1
    BY <1>1, <1>3, <2>1
  <2>3. i - start + n \in Nat
    BY <1>1, <1>5
  <2>4. SlotAt(c, i - start + n) = ((start - 1 + (i - start + n)) % n) + 1
    BY <1>2, <2>3
  <2>5. SlotAt(c, i - start + n) = i
    BY <1>1, <2>1, <2>2, <2>4
  <2> QED
    BY <2>1, <2>5 DEF n
<1> QED
  BY <1>1, <1>4, <1>5

(* What is picked: a warm slot if there is one, and otherwise one that     *)
(* recovers no later than any other.                                       *)
LEMMA PickedIsBest ==
  ASSUME NEW c \in Cursor, Len(c.cooling) > 0, NEW now \in Nat
  PROVE  /\ Picked(c, now) \in Slots(c)
         /\ WarmSlots(c, now) # {} => Picked(c, now) \in WarmSlots(c, now)
         /\ WarmSlots(c, now) = {} =>
              \A j \in Slots(c) : c.cooling[Picked(c, now)] <= c.cooling[j]
<1> DEFINE walk == 0..(Len(c.cooling) - 1)
           warm == {k \in walk : ~IsCooling(c, SlotAt(c, k), now)}
           soonest == {k \in walk : \A j \in walk :
                          c.cooling[SlotAt(c, k)] <= c.cooling[SlotAt(c, j)]}
<1>1. Picked(c, now) \in Slots(c)
  BY PickedIsSlot
<1>2. PICK k \in Candidates(c, now) : Picked(c, now) = SlotAt(c, k)
  BY PickedAlongWalk
<1>3. Candidates(c, now) = IF warm # {} THEN warm ELSE soonest
  BY DEF Candidates
<1>4. \A i \in Slots(c) : \E j \in walk : SlotAt(c, j) = i
  BY WalkReachesSlots
<1>5. warm = {} <=> WarmSlots(c, now) = {}
  <2>1. \A j \in walk : SlotAt(c, j) \in Slots(c)
    BY SlotAtIsSlot
  <2> HIDE DEF walk
  <2> QED  BY <1>4, <2>1 DEF WarmSlots
<1>6. CASE WarmSlots(c, now) # {}
  <2>1. k \in warm
    BY <1>2, <1>3, <1>5, <1>6
  <2> QED
    BY <1>1, <1>2, <1>6, <2>1 DEF WarmSlots
<1>7. CASE WarmSlots(c, now) = {}
  <2>1. k \in soonest
    BY <1>2, <1>3, <1>5, <1>7
  <2> HIDE DEF walk
  <2> QED
    BY <1>1, <1>2, <1>4, <1>7, <2>1
<1> QED
  BY <1>1, <1>6, <1>7

-----------------------------------------------------------------------------
(* A cursor over n slots whose deadlines lie in D: the walk position is one*)
(* of the slots, or 1 when there are none.                                 *)
Sound(c, n, D) ==
  /\ c \in [next : Nat \ {0}, cooling : Seq(D)]
  /\ Len(c.cooling) = n
  /\ c.next \in 1..n \/ c.next = 1

LEMMA SoundIsCursor ==
  ASSUME NEW D \in SUBSET Nat, NEW n \in Nat, NEW c, Sound(c, n, D)
  PROVE  c \in Cursor
<1>1. c.cooling \in Seq(Nat)
  BY SeqMonotonic DEF Sound
<1> QED
  BY <1>1 DEF Sound, Cursor

LEMMA NewCursorSound ==
  ASSUME NEW D \in SUBSET Nat, 0 \in D, NEW n \in Nat
  PROVE  Sound(NewCursor(n), n, D)
BY DEF Sound, NewCursor

LEMMA CursorUpdate ==
  ASSUME NEW A, NEW B, NEW c \in [next : A, cooling : B], NEW x
  PROVE  [c EXCEPT !.cooling = x] = [next |-> c.next, cooling |-> x]
OBVIOUS

LEMMA AppendSlotSound ==
  ASSUME NEW D \in SUBSET Nat, 0 \in D, NEW n \in Nat, NEW c, Sound(c, n, D)
  PROVE  /\ Sound(AppendSlot(c), n + 1, D)
         /\ \A i \in 1..n : AppendSlot(c).cooling[i] = c.cooling[i]
         /\ AppendSlot(c).cooling[n + 1] = 0
<1>1. AppendSlot(c) = [next |-> c.next, cooling |-> Append(c.cooling, 0)]
  BY CursorUpdate DEF AppendSlot, Sound
<1> QED
  BY <1>1 DEF Sound

(* Removing a slot keeps the walk position on the list, and every other    *)
(* slot keeps its own deadline.                                            *)
LEMMA RemoveSlotSound ==
  ASSUME NEW D \in SUBSET Nat, NEW n \in Nat, NEW c, Sound(c, n, D), NEW i \in 1..n
  PROVE  /\ Sound(RemoveSlot(c, i), n - 1, D)
         /\ \A j \in 1..(n - 1) : RemoveSlot(c, i).cooling[j] =
               IF j < i THEN c.cooling[j] ELSE c.cooling[j + 1]
<1> DEFINE moved == IF i < c.next THEN c.next - 1 ELSE c.next
           next  == IF moved > n - 1 THEN 1 ELSE moved
           rest  == RemoveAt(c.cooling, i)
<1>1. c.cooling \in Seq(D) /\ Len(c.cooling) = n /\ c.next \in Nat \ {0}
  BY DEF Sound
<1>2. /\ rest \in Seq(D)
      /\ Len(rest) = n - 1
      /\ \A j \in 1..(n - 1) : rest[j] = IF j < i THEN c.cooling[j] ELSE c.cooling[j + 1]
  BY <1>1, RemoveAtProperties
<1>3. RemoveSlot(c, i) = [next |-> next, cooling |-> rest]
  BY <1>1 DEF RemoveSlot, Slots
<1>4. next \in Nat \ {0} /\ (next \in 1..(n - 1) \/ next = 1)
  BY <1>1
<1> HIDE DEF next, rest
<1> QED
  BY <1>2, <1>3, <1>4 DEF Sound

LEMMA AdvanceSound ==
  ASSUME NEW D \in SUBSET Nat, NEW n \in Nat, NEW c, Sound(c, n, D), NEW i \in 1..n
  PROVE  /\ Sound(Advance(c, i), n, D)
         /\ Advance(c, i).cooling = c.cooling
<1>1. i % n \in 0..(n - 1)
  BY SMT
<1>2. Advance(c, i) = [next |-> (i % n) + 1, cooling |-> c.cooling]
  BY DEF Advance, Sound
<1>3. (i % n) + 1 \in 1..n
  BY <1>1
<1> QED
  BY <1>2, <1>3 DEF Sound

(* How the deadlines of two cursors over n slots compare: one slot is given*)
(* a deadline, one is pushed out, or those of a set are pulled in.         *)
OnlySets(c, d, n, i, until) ==
  \A j \in 1..n : d.cooling[j] = IF j = i THEN until ELSE c.cooling[j]

OnlyPushes(c, d, n, i, until) ==
  \A j \in 1..n : d.cooling[j] =
     IF j = i /\ until > c.cooling[i] THEN until ELSE c.cooling[j]

OnlyPullsIn(c, d, n, S, until) ==
  \A j \in 1..n : d.cooling[j] =
     IF j \in S /\ until < c.cooling[j] THEN until ELSE c.cooling[j]

(* Giving one slot a deadline.                                             *)
LEMMA SetCoolingSound ==
  ASSUME NEW D \in SUBSET Nat, NEW n \in Nat, NEW c, Sound(c, n, D),
         NEW i \in 1..n, NEW d \in D
  PROVE  /\ Sound(SetCooling(c, i, d), n, D)
         /\ OnlySets(c, SetCooling(c, i, d), n, i, d)
<1>1. SetCooling(c, i, d) = [next |-> c.next, cooling |-> [c.cooling EXCEPT ![i] = d]]
  BY CursorUpdate DEF Sound, SetCooling
<1>2. /\ [c.cooling EXCEPT ![i] = d] \in Seq(D)
      /\ Len([c.cooling EXCEPT ![i] = d]) = n
      /\ \A j \in 1..n : [c.cooling EXCEPT ![i] = d][j] =
            IF j = i THEN d ELSE c.cooling[j]
  BY ExceptSeq DEF Sound
<1> QED
  BY <1>1, <1>2 DEF Sound, OnlySets

(* A refusal moves one deadline, and only outwards.                        *)
LEMMA CoolOffSound ==
  ASSUME NEW D \in SUBSET Nat, NEW n \in Nat, NEW c, Sound(c, n, D),
         NEW i \in 1..n, NEW until \in D
  PROVE  /\ Sound(CoolOff(c, i, until), n, D)
         /\ OnlyPushes(c, CoolOff(c, i, until), n, i, until)
<1>1. CASE until > c.cooling[i]
  <2>1. CoolOff(c, i, until) =
           [next |-> c.next, cooling |-> [c.cooling EXCEPT ![i] = until]]
    BY <1>1, CursorUpdate DEF CoolOff, SetCooling, Sound
  <2>2. /\ [c.cooling EXCEPT ![i] = until] \in Seq(D)
        /\ Len([c.cooling EXCEPT ![i] = until]) = n
        /\ \A j \in 1..n : [c.cooling EXCEPT ![i] = until][j] =
              IF j = i THEN until ELSE c.cooling[j]
    BY ExceptSeq DEF Sound
  <2> QED
    BY <1>1, <2>1, <2>2 DEF Sound, OnlyPushes
<1>2. CASE ~(until > c.cooling[i])
  <2>1. CoolOff(c, i, until) = c
    BY <1>2 DEF CoolOff
  <2> QED
    BY <1>2, <2>1 DEF OnlyPushes
<1> QED
  BY <1>1, <1>2

(* The retraction moves the deadlines of the given slots, and only inwards.*)
LEMMA ClampCoolingSound ==
  ASSUME NEW D \in SUBSET Nat, NEW n \in Nat, NEW c, Sound(c, n, D),
         NEW S, NEW until \in D
  PROVE  /\ Sound(ClampCooling(c, S, until), n, D)
         /\ OnlyPullsIn(c, ClampCooling(c, S, until), n, S, until)
<1> DEFINE e(j) == IF j \in S /\ until < c.cooling[j] THEN until ELSE c.cooling[j]
           pulled == [j \in 1..n |-> e(j)]
<1>1. ClampCooling(c, S, until) = [next |-> c.next, cooling |-> pulled]
  BY DEF ClampCooling, Sound, Slots
<1>2. \A j \in 1..n : e(j) \in D
  BY ElementOfSeq DEF Sound
<1>3. pulled \in Seq(D) /\ Len(pulled) = n
  <2> HIDE DEF e
  <2> QED  BY <1>2
<1> HIDE DEF pulled
<1>4. \A j \in 1..n : pulled[j] = e(j)
  BY DEF pulled
<1> QED
  BY <1>1, <1>3, <1>4 DEF Sound, OnlyPullsIn

-----------------------------------------------------------------------------
(* Numbers and sequences.                                                  *)

(* What holds of nothing, and of k + 1 when it holds of k, holds of all.   *)
LEMMA NextByNext ==
  ASSUME NEW n \in Nat, NEW T \in SUBSET (0..n), 0 \in T,
         \A k \in 0..(n - 1) : k \in T => k + 1 \in T
  PROVE  \A k \in 0..n : k \in T
<1> DEFINE missing == (0..n) \ T
<1>1. SUFFICES ASSUME missing # {}  PROVE FALSE
  OBVIOUS
<1>2. PICK m \in missing : \A k \in missing : m <= k
  <2>1. missing \in SUBSET Nat
    OBVIOUS
  <2> HIDE DEF missing
  <2> QED
    BY <1>1, <2>1, LeastNatural
<1>3. m - 1 \in 0..(n - 1) /\ m - 1 \in T
  BY <1>2
<1> QED
  BY <1>2, <1>3

(* The last of a set of numbers up to n. *)
LEMMA MaxIsGreatest ==
  ASSUME NEW n \in Nat, NEW T \in SUBSET (0..n), T # {}
  PROVE  Max(T) \in T /\ \A k \in T : k <= Max(T)
<1> DEFINE fromTop == {n - k : k \in T}
<1>1. fromTop \in SUBSET Nat /\ fromTop # {}
  <2>1. \A k \in T : n - k \in Nat
    OBVIOUS
  <2> QED
    BY <2>1
<1>2. PICK d \in fromTop : \A e \in fromTop : d <= e
  <2> HIDE DEF fromTop
  <2> QED
    BY <1>1, LeastNatural
<1>3. PICK m \in T : d = n - m
  BY <1>2
<1>4. ASSUME NEW k \in T  PROVE k <= m
  <2>1. n - k \in fromTop
    OBVIOUS
  <2>2. d <= n - k
    BY <1>2, <2>1
  <2> QED
    BY <1>3, <2>2
<1> QED
  BY <1>4 DEF Max

(* The first of a set of numbers. *)
LEMMA MinIsLeast ==
  ASSUME NEW T \in SUBSET Nat, T # {}
  PROVE  Min(T) \in T /\ \A n \in T : Min(T) <= n
BY LeastNatural DEF Min

LEMMA SeqFacts ==
  ASSUME NEW S, NEW s \in Seq(S)
  PROVE  /\ Len(s) \in Nat /\ DOMAIN s = 1..Len(s)
         /\ \A k \in 1..Len(s) : s[k] \in S
BY LenProperties, ElementOfSeq

-----------------------------------------------------------------------------
(* Folds: a step at a time.                                                *)

LEMMA LastOfSegment ==
  ASSUME NEW k \in Nat \ {0}
  PROVE  Max(1..k) = k /\ (1..k) \ {k} = 1..(k - 1) /\ 1..k # {}
BY DEF Max


(* A fold over the set of the first n places, from the highest down, with  *)
(* the effects `step` of the places.                                       *)
Foldable(V, b, n, step) == b \in V /\ n \in Nat /\ step \in [1..n -> [V -> V]]

FoldedBy(g, V, b, n, step) ==
  \A s \in SUBSET (1..n) :
    g[s] \in V /\ g[s] = IF s = {} THEN b ELSE step[Max(s)][g[s \ {Max(s)}]]

(* It is well defined. *)
LEMMA FoldExists ==
  ASSUME NEW V, NEW b, NEW n, NEW step, Foldable(V, b, n, step)
  PROVE  \E g : FoldedBy(g, V, b, n, step)
<1>0. b \in V /\ n \in Nat /\ step \in [1..n -> [V -> V]]
  BY DEF Foldable
<1> DEFINE Solves(g, k) ==
             \A s \in SUBSET (1..k) : g[s] = IF s = {} THEN b ELSE step[Max(s)][g[s \ {Max(s)}]]
           solved == {k \in 0..n : \E g \in [SUBSET (1..k) -> V] : Solves(g, k)}
<1>1. 0 \in solved
  <2>1. PICK g : g = [s \in SUBSET (1..0) |-> b]
    OBVIOUS
  <2>2. 1..0 = {}
    OBVIOUS
  <2>3. g \in [SUBSET (1..0) -> V] /\ \A s \in SUBSET (1..0) : s = {} /\ g[s] = b
    BY <1>0, <2>1, <2>2
  <2>4. Solves(g, 0)
    BY <2>3
  <2>5. 0 \in 0..n
    BY <1>0
  <2> HIDE DEF Solves
  <2> QED
    BY <2>3, <2>4, <2>5
<1>2. ASSUME NEW k \in 0..(n - 1), k \in solved  PROVE k + 1 \in solved
  <2>1. PICK g \in [SUBSET (1..k) -> V] : Solves(g, k)
    BY <1>2
  <2>2. PICK h : h = [s \in SUBSET (1..(k + 1)) |->
                        IF k + 1 \in s THEN step[k + 1][g[s \ {k + 1}]] ELSE g[s]]
    OBVIOUS
  <2>3. \A s \in SUBSET (1..(k + 1)) :
           /\ s \ {k + 1} \in SUBSET (1..k)
           /\ k + 1 \notin s => s \in SUBSET (1..k)
    OBVIOUS
  <2>4. h \in [SUBSET (1..(k + 1)) -> V]
    BY <1>0, <2>1, <2>2, <2>3
  <2>5. ASSUME NEW s \in SUBSET (1..(k + 1))
        PROVE  h[s] = IF s = {} THEN b ELSE step[Max(s)][h[s \ {Max(s)}]]
    <3>1. CASE k + 1 \in s
      <4>1. Max(s) = k + 1
        <5>1. s \in SUBSET (0..(k + 1)) /\ s # {} /\ k + 1 \in Nat
          BY <3>1
        <5>2. PICK m : m = Max(s)
          OBVIOUS
        <5>3. m \in s /\ \A i \in s : i <= m
          BY <5>1, <5>2, MaxIsGreatest
        <5>4. m \in 1..(k + 1) /\ k + 1 <= m
          BY <3>1, <5>3
        <5> QED
          BY <5>2, <5>4
      <4>2. h[s \ {k + 1}] = g[s \ {k + 1}]
        BY <2>2, <2>3
      <4> QED
        BY <2>2, <3>1, <4>1, <4>2
    <3>2. CASE k + 1 \notin s
      <4>1. s \in SUBSET (1..k) /\ h[s] = g[s]
        BY <2>2, <2>3, <3>2
      <4>2. g[s] = IF s = {} THEN b ELSE step[Max(s)][g[s \ {Max(s)}]]
        BY <2>1, <4>1
      <4>3. h[s \ {Max(s)}] = g[s \ {Max(s)}]
        BY <2>2, <3>2, <4>1
      <4> QED
        BY <4>1, <4>2, <4>3
    <3> QED
      BY <3>1, <3>2
  <2>6. Solves(h, k + 1)
    BY <2>5
  <2>7. k + 1 \in 0..n
    BY <1>0
  <2> HIDE DEF Solves
  <2> QED
    BY <2>4, <2>6, <2>7
<1> HIDE DEF solved
<1>3. n \in solved
  <2>1. solved \in SUBSET (0..n)
    BY DEF solved
  <2>2. \A k \in 0..n : k \in solved
    BY <1>0, <1>1, <1>2, <2>1, NextByNext
  <2> QED
    BY <1>0, <2>2
<1> QED
  BY <1>3 DEF solved, FoldedBy

(* p[k] is what a fold makes of the first k items.                         *)
Unfolds(p, V, b, n, step) ==
  p \in [0..n -> V] /\ p[0] = b /\ \A k \in 1..n : p[k] = step[k][p[k - 1]]

LEMMA FoldWalks ==
  ASSUME NEW V, NEW b, NEW n, NEW step, Foldable(V, b, n, step)
  PROVE  \E g, p : FoldedBy(g, V, b, n, step) /\ Unfolds(p, V, b, n, step)
<1>1. b \in V /\ n \in Nat /\ step \in [1..n -> [V -> V]]
  BY DEF Foldable
<1>2. PICK g : FoldedBy(g, V, b, n, step)
  BY FoldExists
<1>3. \A s \in SUBSET (1..n) :
        g[s] \in V /\ g[s] = IF s = {} THEN b ELSE step[Max(s)][g[s \ {Max(s)}]]
  BY <1>2 DEF FoldedBy
<1>4. PICK p : p = [k \in 0..n |-> g[1..k]]
  OBVIOUS
<1>5. \A k \in 0..n : 1..k \in SUBSET (1..n)
  BY <1>1
<1>6. p \in [0..n -> V]
  BY <1>3, <1>4, <1>5
<1>7. p[0] = b
  <2>1. 0 \in 0..n /\ 1..0 = {}
    BY <1>1
  <2>2. p[0] = g[{}] /\ {} \in SUBSET (1..n)
    BY <1>4, <2>1
  <2> QED
    BY <1>3, <2>2
<1>8. ASSUME NEW k \in 1..n  PROVE p[k] = step[k][p[k - 1]]
  <2>1. Max(1..k) = k /\ (1..k) \ {k} = 1..(k - 1) /\ 1..k # {}
    BY LastOfSegment
  <2>2. k \in 0..n /\ k - 1 \in 0..n
    BY <1>1
  <2>3. p[k] = g[1..k] /\ p[k - 1] = g[1..(k - 1)] /\ 1..k \in SUBSET (1..n)
    BY <1>4, <1>5, <2>2
  <2> QED
    BY <1>3, <2>1, <2>3
<1> QED
  BY <1>2, <1>6, <1>7, <1>8 DEF Unfolds

LEMMA SameWalk ==
  ASSUME NEW n \in Nat, NEW p, NEW it, it[{}] = p[0],
         \A k \in 1..n : it[1..(k - 1)] = p[k - 1] => it[1..k] = p[k]
  PROVE  it[1..n] = p[n]
<1> DEFINE same == {k \in 0..n : it[1..k] = p[k]}
<1>1. 0 \in same
  <2>1. 1..0 = {}
    OBVIOUS
  <2> QED
    BY <2>1
<1>2. ASSUME NEW k \in 0..(n - 1), k \in same  PROVE k + 1 \in same
  <2>1. k + 1 \in 1..n /\ (k + 1) - 1 = k
    OBVIOUS
  <2>2. it[1..(k + 1)] = p[k + 1]
    BY <1>2, <2>1
  <2> QED
    BY <2>1, <2>2
<1>3. same \in SUBSET (0..n)
  OBVIOUS
<1> HIDE DEF same
<1>4. n \in same
  <2>1. \A k \in 0..n : k \in same
    BY <1>1, <1>2, <1>3, NextByNext
  <2> QED
    BY <2>1
<1> QED
  BY <1>4 DEF same

(* Two walks with the same steps end in the same. *)
StepAlike(p, q, n) ==
  /\ n \in Nat /\ q[0] = p[0]
  /\ \A k \in 1..n : q[k - 1] = p[k - 1] => q[k] = p[k]

LEMMA SameSteps ==
  ASSUME NEW n, NEW p, NEW q, StepAlike(p, q, n)
  PROVE  q[n] = p[n]
<1>0. n \in Nat /\ q[0] = p[0] /\ \A k \in 1..n : q[k - 1] = p[k - 1] => q[k] = p[k]
  BY DEF StepAlike
<1> DEFINE same == {k \in 0..n : q[k] = p[k]}
<1>1. 0 \in same
  BY <1>0
<1>2. ASSUME NEW k \in 0..(n - 1), k \in same  PROVE k + 1 \in same
  <2>1. k + 1 \in 1..n /\ (k + 1) - 1 = k /\ k + 1 \in 0..n
    BY <1>0
  <2>2. q[k + 1] = p[k + 1]
    BY <1>0, <1>2, <2>1
  <2> QED
    BY <2>1, <2>2
<1>3. same \in SUBSET (0..n)
  OBVIOUS
<1> HIDE DEF same
<1>4. \A k \in 0..n : k \in same
  BY <1>0, <1>1, <1>2, <1>3, NextByNext
<1> QED
  BY <1>0, <1>4 DEF same

(* What is defined by recursion over the naturals exists.                  *)
Recurs(f, V, b, step) ==
  f \in [Nat -> V] /\ f[0] = b /\ \A n \in Nat \ {0} : f[n] = step[f[n - 1]]

LEMMA RecursionExists ==
  ASSUME NEW V, NEW b \in V, NEW step \in [V -> V]
  PROVE  \E f : Recurs(f, V, b, step)
<1>1. PICK steps : steps = [n \in Nat |-> [k \in 1..n |-> step]]
  OBVIOUS
<1>2. ASSUME NEW n \in Nat  PROVE \E p : Unfolds(p, V, b, n, steps[n])
  <2>1. Foldable(V, b, n, steps[n])
    BY <1>1 DEF Foldable
  <2> QED
    BY <2>1, FoldWalks
<1>3. PICK w : w = [n \in Nat |-> CHOOSE p : Unfolds(p, V, b, n, steps[n])]
  OBVIOUS
<1>4. ASSUME NEW n \in Nat
      PROVE  w[n] \in [0..n -> V] /\ w[n][0] = b /\ \A k \in 1..n : w[n][k] = step[w[n][k - 1]]
  <2>1. Unfolds(w[n], V, b, n, steps[n])
    BY <1>2, <1>3
  <2> QED
    BY <1>1, <2>1 DEF Unfolds
<1>5. ASSUME NEW n \in Nat \ {0}  PROVE w[n][n - 1] = w[n - 1][n - 1]
  <2>1. PICK m \in Nat : m = n - 1 /\ \A k \in 1..m : k \in 1..n
    OBVIOUS
  <2>2. StepAlike(w[m], w[n], m)
    BY <1>4, <2>1 DEF StepAlike
  <2> QED
    BY <2>1, <2>2, SameSteps
<1>6. PICK f : f = [n \in Nat |-> w[n][n]]
  OBVIOUS
<1>7. f \in [Nat -> V] /\ f[0] = b
  BY <1>4, <1>6
<1>8. ASSUME NEW n \in Nat \ {0}  PROVE f[n] = step[f[n - 1]]
  <2>1. n \in 1..n /\ n - 1 \in Nat
    OBVIOUS
  <2>2. w[n][n] = step[w[n][n - 1]]
    BY <1>4, <2>1
  <2>3. f[n] = w[n][n] /\ f[n - 1] = w[n - 1][n - 1]
    BY <1>6, <2>1
  <2> QED
    BY <1>5, <2>2, <2>3
<1> QED
  BY <1>7, <1>8 DEF Recurs

-----------------------------------------------------------------------------
(* Sequences one behind the other.                                         *)

(* What the first k of them come to.                                       *)
Joins(p, V, seqs) ==
  /\ p \in [0..Len(seqs) -> Seq(V)] /\ p[0] = <<>>
  /\ \A k \in 1..Len(seqs) : p[k] = p[k - 1] \o seqs[k]

LEMMA FlattenJoins ==
  ASSUME NEW V, NEW seqs \in Seq(Seq(V))
  PROVE  \E p : Joins(p, V, seqs) /\ FlattenSeq(seqs) = p[Len(seqs)]
<1>1. PICK n, S, b : n = Len(seqs) /\ S = Seq(V) /\ b = <<>>
  OBVIOUS
<1>2. n \in Nat /\ (\A k \in 1..n : seqs[k] \in S) /\ b \in S
  BY <1>1, SeqFacts, EmptySeq
<1>3. PICK step : step = [k \in 1..n |-> [v \in S |-> v \o seqs[k]]]
  OBVIOUS
<1>4. \A k \in 1..n, v \in S : v \o seqs[k] \in S
  BY <1>1, <1>2, ConcatProperties
<1>5. Foldable(S, b, n, step)
  BY <1>2, <1>3, <1>4 DEF Foldable
<1>6. PICK p : Unfolds(p, S, b, n, step)
  BY <1>5, FoldWalks
<1>7. p \in [0..n -> S] /\ p[0] = b /\ \A k \in 1..n : p[k] = p[k - 1] \o seqs[k]
  <2>1. p \in [0..n -> S] /\ p[0] = b /\ \A k \in 1..n : p[k] = step[k][p[k - 1]]
    BY <1>6 DEF Unfolds
  <2>2. ASSUME NEW k \in 1..n  PROVE p[k] = p[k - 1] \o seqs[k]
    <3>1. k - 1 \in 0..n
      BY <1>2
    <3> QED
      BY <1>3, <2>1, <3>1
  <2> QED
    BY <2>1, <2>2
<1>8. Joins(p, V, seqs)
  BY <1>1, <1>7 DEF Joins
<1>9. CASE n = 0
  <2>1. seqs = <<>>
    BY <1>1, <1>9, EmptySeq
  <2>2. FlattenSeq(seqs) = seqs
    BY <1>1, <1>9 DEF FlattenSeq
  <2> QED
    BY <1>1, <1>7, <1>8, <1>9, <2>1, <2>2
<1>10. CASE n # 0
  <2>1. PICK h : h = [i \in 1..n |-> p[i]]
    OBVIOUS
  <2>2. h = [i \in 1..n |-> IF i = 1 THEN seqs[i] ELSE h[i - 1] \o seqs[i]]
    <3>1. ASSUME NEW i \in 1..n  PROVE p[i] = IF i = 1 THEN seqs[i] ELSE h[i - 1] \o seqs[i]
      <4>1. p[i] = p[i - 1] \o seqs[i] /\ seqs[i] \in Seq(V)
        BY <1>1, <1>2, <1>7
      <4>2. CASE i = 1
        <5>1. p[i - 1] = <<>>
          BY <1>1, <1>7, <4>2
        <5> QED
          BY <4>1, <4>2, <5>1, ConcatEmptySeq
      <4>3. CASE i # 1
        <5>1. i - 1 \in 1..n
          BY <1>2, <4>3
        <5> QED
          BY <2>1, <4>1, <4>3, <5>1
      <4> QED
        BY <4>2, <4>3
    <3> QED
      BY <2>1, <3>1
  <2>3. PICK f : f = CHOOSE h1 : h1 = [i \in 1..n |-> IF i = 1 THEN seqs[i] ELSE h1[i - 1] \o seqs[i]]
    OBVIOUS
  <2>4. f = [i \in 1..n |-> IF i = 1 THEN seqs[i] ELSE f[i - 1] \o seqs[i]]
    BY <2>2, <2>3
  <2>5. FlattenSeq(seqs) = f[n]
    BY <1>1, <1>10, <2>3 DEF FlattenSeq
  <2>6. f[n] = p[n]
    <3>1. PICK same : same = {k \in 0..n : k = 0 \/ f[k] = p[k]}
      OBVIOUS
    <3>2. same \in SUBSET (0..n) /\ 0 \in same
      BY <1>2, <3>1
    <3>3. ASSUME NEW k \in 0..(n - 1), k \in same  PROVE k + 1 \in same
      <4>1. k + 1 \in 1..n /\ k + 1 \in 0..n /\ (k + 1) - 1 = k
        BY <1>2
      <4>2. p[k + 1] = p[k] \o seqs[k + 1]
        BY <1>7, <4>1
      <4>3. CASE k = 0
        <5>1. f[k + 1] = seqs[k + 1] /\ p[k] = <<>> /\ seqs[k + 1] \in Seq(V)
          BY <1>1, <1>2, <1>7, <2>4, <4>1, <4>3
        <5> QED
          BY <3>1, <4>1, <4>2, <5>1, ConcatEmptySeq
      <4>4. CASE k # 0
        <5>1. f[k + 1] = f[k] \o seqs[k + 1]
          <6>1. PICK i \in 1..n : i = k + 1 /\ i # 1 /\ i - 1 = k
            BY <1>2, <4>1, <4>4
          <6>2. f[i] = f[i - 1] \o seqs[i]
            BY <2>4, <6>1
          <6> QED
            BY <6>1, <6>2
        <5> QED
          BY <3>1, <3>3, <4>1, <4>2, <4>4, <5>1
      <4> QED
        BY <4>3, <4>4
    <3>4. n \in same
      <4>1. \A k \in 0..n : k \in same
        BY <1>2, <3>2, <3>3, NextByNext
      <4> QED
        BY <1>2, <4>1
    <3> QED
      BY <1>10, <3>1, <3>4
  <2> QED
    BY <1>1, <1>8, <2>5, <2>6
<1> QED
  BY <1>9, <1>10

LEMMA BothHold ==
  ASSUME NEW V, NEW s \in Seq(V), NEW t \in Seq(V)
  PROVE  ToSet(s \o t) = ToSet(s) \cup ToSet(t)
<1>1. PICK m, n, both : m = Len(s) /\ n = Len(t) /\ both = s \o t
  OBVIOUS
<1>2. m \in Nat /\ n \in Nat /\ DOMAIN s = 1..m /\ DOMAIN t = 1..n
  BY <1>1, SeqFacts
<1>3. /\ both \in Seq(V) /\ Len(both) = m + n
      /\ \A i \in 1..(m + n) : both[i] = IF i <= m THEN s[i] ELSE t[i - m]
  <2>1. /\ s \o t \in Seq(V) /\ Len(s \o t) = Len(s) + Len(t)
        /\ \A i \in 1..(Len(s) + Len(t)) : (s \o t)[i] = IF i <= Len(s) THEN s[i] ELSE t[i - Len(s)]
    BY ConcatProperties
  <2> QED
    BY <1>1, <2>1
<1>4. DOMAIN both = 1..(m + n)
  BY <1>3, SeqFacts
<1>5. ASSUME NEW x \in ToSet(both)  PROVE x \in ToSet(s) \cup ToSet(t)
  <2>1. PICK i \in 1..(m + n) : x = both[i]
    BY <1>4 DEF ToSet
  <2>2. CASE i <= m
    <3>1. i \in 1..m /\ x = s[i]
      BY <1>2, <1>3, <2>1, <2>2
    <3> QED
      BY <1>2, <3>1 DEF ToSet
  <2>3. CASE ~(i <= m)
    <3>1. i - m \in 1..n /\ x = t[i - m]
      BY <1>2, <1>3, <2>1, <2>3
    <3> QED
      BY <1>2, <3>1 DEF ToSet
  <2> QED
    BY <2>2, <2>3
<1>6. ASSUME NEW x \in ToSet(s)  PROVE x \in ToSet(both)
  <2>1. PICK i \in 1..m : x = s[i]
    BY <1>2 DEF ToSet
  <2>2. i \in 1..(m + n) /\ both[i] = x
    BY <1>2, <1>3, <2>1
  <2> QED
    BY <1>4, <2>2 DEF ToSet
<1>7. ASSUME NEW x \in ToSet(t)  PROVE x \in ToSet(both)
  <2>1. PICK i \in 1..n : x = t[i]
    BY <1>2, <1>7 DEF ToSet
  <2>2. m + i \in 1..(m + n) /\ ~(m + i <= m) /\ (m + i) - m = i
    BY <1>2
  <2>3. both[m + i] = x
    BY <1>3, <2>1, <2>2
  <2> QED
    BY <1>4, <2>2, <2>3 DEF ToSet
<1> QED
  BY <1>1, <1>5, <1>6, <1>7

(* Whatever is in one of them is in the whole, and nothing else.           *)
LEMMA FlattenHolds ==
  ASSUME NEW V, NEW seqs \in Seq(Seq(V))
  PROVE  /\ FlattenSeq(seqs) \in Seq(V)
         /\ ToSet(FlattenSeq(seqs)) = UNION {ToSet(seqs[k]) : k \in DOMAIN seqs}
<1>1. PICK n : n = Len(seqs)
  OBVIOUS
<1>2. n \in Nat /\ DOMAIN seqs = 1..n /\ \A k \in 1..n : seqs[k] \in Seq(V)
  BY <1>1, SeqFacts
<1>3. PICK p : Joins(p, V, seqs) /\ FlattenSeq(seqs) = p[n]
  BY <1>1, FlattenJoins
<1>4. p \in [0..n -> Seq(V)] /\ p[0] = <<>> /\ \A k \in 1..n : p[k] = p[k - 1] \o seqs[k]
  BY <1>1, <1>3 DEF Joins
<1>5. PICK known : known = {k \in 0..n : ToSet(p[k]) = UNION {ToSet(seqs[j]) : j \in 1..k}}
  OBVIOUS
<1>6. 0 \in known
  <2>1. ToSet(p[0]) = {} /\ 1..0 = {}
    BY <1>4 DEF ToSet
  <2> QED
    BY <1>2, <1>5, <2>1
<1>7. ASSUME NEW k \in 0..(n - 1), k \in known  PROVE k + 1 \in known
  <2>1. k + 1 \in 1..n /\ k + 1 \in 0..n /\ k \in 0..n /\ (k + 1) - 1 = k /\ 1..(k + 1) = (1..k) \cup {k + 1}
    BY <1>2
  <2>2. p[k + 1] = p[k] \o seqs[k + 1] /\ p[k] \in Seq(V) /\ seqs[k + 1] \in Seq(V)
    BY <1>2, <1>4, <2>1
  <2>3. ToSet(p[k + 1]) = ToSet(p[k]) \cup ToSet(seqs[k + 1])
    BY <2>2, BothHold
  <2> QED
    BY <1>5, <1>7, <2>1, <2>3
<1>8. n \in known
  <2>1. known \in SUBSET (0..n)
    BY <1>5
  <2>2. \A k \in 0..n : k \in known
    BY <1>2, <1>6, <1>7, <2>1, NextByNext
  <2> QED
    BY <1>2, <2>2
<1>9. n \in 0..n
  BY <1>2
<1> QED
  BY <1>2, <1>3, <1>4, <1>5, <1>8, <1>9
=============================================================================

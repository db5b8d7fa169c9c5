----------------------------- MODULE RelayProofs -----------------------------
(***************************************************************************)
(* That the handlers of the relay tell their clients the same and the      *)
(* truth, proved for every set of stop sequences, every text and tool      *)
(* call, and every way the backend cuts them into frames.                  *)
(***************************************************************************)
EXTENDS Relay, CommonProofs, FiniteSetTheorems

-----------------------------------------------------------------------------
(* Stop sequences in a text.                                               *)

LEMMA StopTyped ==
  ASSUME NEW s \in Stops
  PROVE  s \in Seq(Bytes) /\ Len(s) \in Nat /\ Len(s) >= 1 /\ s[1] \notin Continuations
<1>1. s \in Seq(Bytes) /\ s # <<>> /\ s[1] \notin Continuations
  BY StopAssumption DEF WholeTexts
<1> QED
  BY <1>1, EmptySeq

(* The longest of them is as long as any. *)
LEMMA LongestIsLongest ==
  Longest \in Nat /\ \A s \in Stops : Len(s) <= Longest
<1>1. CASE Stops = {}
  BY <1>1 DEF Longest
<1>2. CASE Stops # {}
  <2>1. PICK n : n = Cardinality(Stops)
    OBVIOUS
  <2>2. n \in Nat /\ ExistsBijection(1..n, Stops)
    BY <2>1, StopAssumption, FS_CardinalityType
  <2>3. PICK f : f \in [1..n -> Stops] /\ \A s \in Stops : \E i \in 1..n : f[i] = s
    BY <2>2 DEF ExistsBijection, Bijection, Surjection
  <2>4. \A i \in 1..n : Len(f[i]) \in Nat
    BY <2>3, StopTyped
  <2>5. PICK bounded : bounded = {k \in 0..n : \E b \in Nat : \A i \in 1..k : Len(f[i]) <= b}
    OBVIOUS
  <2>6. 0 \in bounded
    BY <2>2, <2>5
  <2>7. ASSUME NEW k \in 0..(n - 1), k \in bounded  PROVE k + 1 \in bounded
    <3>1. PICK b \in Nat : \A i \in 1..k : Len(f[i]) <= b
      BY <2>5, <2>7
    <3>2. k + 1 \in 1..n /\ k + 1 \in 0..n /\ Len(f[k + 1]) \in Nat
      BY <2>2, <2>4
    <3>3. PICK c \in Nat : c >= b /\ c >= Len(f[k + 1])
      BY <3>2
    <3>4. \A i \in 1..(k + 1) : Len(f[i]) <= c
      <4> SUFFICES ASSUME NEW i \in 1..(k + 1)  PROVE Len(f[i]) <= c
        OBVIOUS
      <4>1. CASE i = k + 1
        BY <3>3, <4>1
      <4>2. CASE i # k + 1
        <5>1. i \in 1..k /\ i \in 1..n
          BY <2>2, <4>2
        <5> QED
          BY <2>4, <3>1, <3>3, <5>1
      <4> QED
        BY <4>1, <4>2
    <3> QED
      BY <2>5, <3>2, <3>4
  <2>8. n \in bounded
    <3>1. bounded \in SUBSET (0..n)
      BY <2>5
    <3>2. \A k \in 0..n : k \in bounded
      BY <2>2, <2>6, <2>7, <3>1, NextByNext
    <3> QED
      BY <2>2, <3>2
  <2>9. PICK b \in Nat : \A i \in 1..n : Len(f[i]) <= b
    BY <2>5, <2>8
  <2>10. PICK lengths : lengths = {Len(s) : s \in Stops}
    OBVIOUS
  <2>11. lengths \in SUBSET (0..b) /\ lengths # {}
    <3>1. \A s \in Stops : Len(s) \in 0..b
      BY <2>3, <2>9, StopTyped
    <3> QED
      BY <1>2, <2>10, <3>1
  <2>12. Max(lengths) \in lengths /\ \A k \in lengths : k <= Max(lengths)
    BY <2>11, MaxIsGreatest
  <2>13. Longest = Max(lengths)
    BY <1>2, <2>10 DEF Longest
  <2> QED
    BY <2>10, <2>11, <2>12, <2>13
<1> QED
  BY <1>1, <1>2

LEMMA OccursByByte ==
  ASSUME NEW text \in Seq(Bytes), NEW s \in Stops, NEW i \in Nat \ {0}
  PROVE  OccursAt(text, s, i) <=>
           /\ i + Len(s) - 1 <= Len(text)
           /\ \A j \in 1..Len(s) : text[i + j - 1] = s[j]
<1>1. s \in Seq(Bytes) /\ Len(s) \in Nat /\ Len(s) >= 1
  BY StopTyped
<1>2. Len(text) \in Nat /\ \A k \in 1..Len(text) : text[k] \in Bytes
  BY SeqFacts
<1>3. PICK last : last = i + Len(s) - 1
  OBVIOUS
<1>4. last \in Int /\ last >= i
  BY <1>1, <1>3
<1>5. CASE last <= Len(text)
  <2>1. PICK slice : slice = SubSeq(text, i, last)
    OBVIOUS
  <2>2. \A k \in i..last : text[k] \in Bytes
    BY <1>2, <1>4, <1>5
  <2>3. /\ slice \in Seq(Bytes)
        /\ Len(slice) = IF i <= last THEN last - i + 1 ELSE 0
        /\ \A k \in 1..(last - i + 1) : slice[k] = text[i + k - 1]
    BY <1>4, <2>1, <2>2, SubSeqProperties
  <2>4. Len(slice) = Len(s) /\ last - i + 1 = Len(s)
    BY <1>1, <1>3, <1>4, <2>3
  <2>5. slice = s <=> \A j \in 1..Len(s) : text[i + j - 1] = s[j]
    BY <1>1, <2>3, <2>4, SeqEqual
  <2> QED
    BY <1>3, <1>5, <2>1, <2>5 DEF OccursAt
<1>6. CASE ~(last <= Len(text))
  BY <1>3, <1>6 DEF OccursAt
<1> QED
  BY <1>5, <1>6

(* What more text does to the occurrences of a stop. *)
LEMMA OccursBefore ==
  ASSUME NEW t \in Seq(Bytes), NEW r \in Seq(Bytes), NEW s \in Stops, NEW i \in Nat \ {0},
         i + Len(s) - 1 <= Len(t)
  PROVE  OccursAt(t \o r, s, i) <=> OccursAt(t, s, i)
<1>1. Len(s) \in Nat /\ Len(t) \in Nat /\ Len(r) \in Nat
  BY StopTyped, SeqFacts
<1>2. /\ t \o r \in Seq(Bytes) /\ Len(t \o r) = Len(t) + Len(r)
      /\ \A k \in 1..(Len(t) + Len(r)) : (t \o r)[k] = IF k <= Len(t) THEN t[k] ELSE r[k - Len(t)]
  BY ConcatProperties
<1>3. \A j \in 1..Len(s) : i + j - 1 \in 1..Len(t) /\ (t \o r)[i + j - 1] = t[i + j - 1]
  BY <1>1, <1>2
<1>4. OccursAt(t \o r, s, i) <=>
        i + Len(s) - 1 <= Len(t \o r) /\ \A j \in 1..Len(s) : (t \o r)[i + j - 1] = s[j]
  BY <1>2, OccursByByte
<1>5. OccursAt(t, s, i) <=>
        i + Len(s) - 1 <= Len(t) /\ \A j \in 1..Len(s) : t[i + j - 1] = s[j]
  BY OccursByByte
<1>6. i + Len(s) - 1 <= Len(t \o r)
  BY <1>1, <1>2
<1> QED
  BY <1>3, <1>4, <1>5, <1>6

LEMMA OccursBehind ==
  ASSUME NEW o \in Seq(Bytes), NEW u \in Seq(Bytes), NEW s \in Stops, NEW i \in Nat \ {0}
  PROVE  OccursAt(o \o u, s, Len(o) + i) <=> OccursAt(u, s, i)
<1>1. Len(s) \in Nat /\ Len(o) \in Nat /\ Len(u) \in Nat
  BY StopTyped, SeqFacts
<1>2. /\ o \o u \in Seq(Bytes) /\ Len(o \o u) = Len(o) + Len(u)
      /\ \A k \in 1..(Len(o) + Len(u)) : (o \o u)[k] = IF k <= Len(o) THEN o[k] ELSE u[k - Len(o)]
  BY ConcatProperties
<1>3. PICK at : at = Len(o) + i
  OBVIOUS
<1>4. at \in Nat \ {0}
  BY <1>1, <1>3
<1>5. OccursAt(o \o u, s, at) <=>
        at + Len(s) - 1 <= Len(o \o u) /\ \A j \in 1..Len(s) : (o \o u)[at + j - 1] = s[j]
  BY <1>2, <1>4, OccursByByte
<1>6. OccursAt(u, s, i) <=>
        i + Len(s) - 1 <= Len(u) /\ \A j \in 1..Len(s) : u[i + j - 1] = s[j]
  BY OccursByByte
<1>7. at + Len(s) - 1 <= Len(o \o u) <=> i + Len(s) - 1 <= Len(u)
  BY <1>1, <1>2, <1>3
<1>8. ASSUME i + Len(s) - 1 <= Len(u), NEW j \in 1..Len(s)
      PROVE  (o \o u)[at + j - 1] = u[i + j - 1]
  <2>1. /\ at + j - 1 \in 1..(Len(o) + Len(u)) /\ ~(at + j - 1 <= Len(o))
        /\ (at + j - 1) - Len(o) = i + j - 1
    BY <1>1, <1>3, <1>8
  <2> QED
    BY <1>2, <2>1
<1> QED
  BY <1>3, <1>5, <1>6, <1>7, <1>8

LEMMA StartFacts ==
  ASSUME NEW text \in Seq(Bytes)
  PROVE  /\ StopStarts(text) \in SUBSET Nat
         /\ \A i \in StopStarts(text) : i \in 1..Len(text) /\ i \in Nat \ {0}
BY SeqFacts DEF StopStarts

LEMMA StartsStay ==
  ASSUME NEW t \in Seq(Bytes), NEW r \in Seq(Bytes)
  PROVE  StopStarts(t) \subseteq StopStarts(t \o r)
<1> SUFFICES ASSUME NEW i \in StopStarts(t)  PROVE i \in StopStarts(t \o r)
  OBVIOUS
<1>1. PICK s \in Stops : OccursAt(t, s, i)
  BY DEF StopStarts
<1>2. i \in 1..Len(t) /\ i \in Nat \ {0}
  BY StartFacts
<1>3. OccursAt(t \o r, s, i)
  BY <1>1, <1>2, OccursBefore DEF OccursAt
<1>4. i \in 1..Len(t \o r)
  BY <1>2, SeqFacts, ConcatProperties
<1> QED
  BY <1>3, <1>4 DEF StopStarts

(* If no stop begins and ends inside another, the first one stays the      *)
(* first, however the text goes on: a longer stop that began before it     *)
(* would have it inside.                                                   *)
NoneInside ==
  \A s, t \in Stops : \A i \in 2..Len(t) : i + Len(s) - 1 < Len(t) => ~OccursAt(t, s, i)

LEMMA FirstStays ==
  ASSUME NEW t \in Seq(Bytes), NEW r \in Seq(Bytes), StopStarts(t) # {}, NoneInside
  PROVE  /\ StopStarts(t \o r) # {}
         /\ Min(StopStarts(t \o r)) = Min(StopStarts(t))
<1>1. PICK m : m = Min(StopStarts(t))
  OBVIOUS
<1>2. m \in StopStarts(t) /\ \A i \in StopStarts(t) : m <= i
  BY <1>1, StartFacts, MinIsLeast
<1>3. m \in StopStarts(t \o r)
  BY <1>2, StartsStay
<1>4. t \o r \in Seq(Bytes)
  BY ConcatProperties
<1>5. ASSUME NEW i \in StopStarts(t \o r), i < m  PROVE FALSE
  <2>1. PICK late \in Stops : OccursAt(t \o r, late, i)
    BY DEF StopStarts
  <2>2. PICK s \in Stops : OccursAt(t, s, m)
    BY <1>2 DEF StopStarts
  <2>3. /\ i \in Nat \ {0} /\ m \in Nat \ {0} /\ m \in 1..Len(t)
        /\ Len(late) \in Nat /\ Len(s) \in Nat /\ Len(s) >= 1 /\ Len(t) \in Nat
        /\ late \in Seq(Bytes)
    BY <1>2, <1>4, StartFacts, StopTyped, SeqFacts
  <2>4. CASE i + Len(late) - 1 <= Len(t)
    <3>1. OccursAt(t, late, i)
      BY <2>1, <2>3, <2>4, OccursBefore
    <3>2. i \in StopStarts(t)
      BY <1>5, <2>3, <3>1 DEF StopStarts
    <3> QED
      BY <1>2, <1>5, <2>3, <3>2
  <2>5. CASE i + Len(late) - 1 > Len(t)
    <3>1. PICK k : k = m - i + 1
      OBVIOUS
    <3>2. /\ m + Len(s) - 1 <= Len(t)
          /\ \A j \in 1..Len(s) : t[m + j - 1] = s[j]
      BY <2>2, <2>3, OccursByByte
    <3>3. k \in 2..Len(late) /\ k + Len(s) - 1 < Len(late) /\ k \in Nat \ {0}
      BY <1>5, <2>3, <2>5, <3>1, <3>2
    <3>4. \A j \in 1..Len(late) : (t \o r)[i + j - 1] = late[j]
      BY <1>4, <2>1, <2>3, OccursByByte
    <3>5. ASSUME NEW j \in 1..Len(s)  PROVE late[k + j - 1] = s[j]
      <4>1. k + j - 1 \in 1..Len(late) /\ i + (k + j - 1) - 1 = m + j - 1
        BY <2>3, <3>1, <3>3
      <4>2. late[k + j - 1] = (t \o r)[m + j - 1]
        BY <3>4, <4>1
      <4>3. m + j - 1 \in 1..Len(t)
        BY <2>3, <3>2
      <4>4. (t \o r)[m + j - 1] = t[m + j - 1]
        BY <2>3, <4>3, ConcatProperties, SeqFacts
      <4> QED
        BY <3>2, <4>2, <4>4
    <3>6. OccursAt(late, s, k)
      BY <2>3, <3>3, <3>5, OccursByByte
    <3> QED
      BY <3>3, <3>6 DEF NoneInside
  <2> QED
    BY <2>3, <2>4, <2>5
<1>6. \A i \in StopStarts(t \o r) : m <= i
  <2>1. m \in Nat /\ \A i \in StopStarts(t \o r) : i \in Nat
    BY <1>2, <1>4, StartFacts
  <2> QED
    BY <1>5, <2>1
<1>7. Min(StopStarts(t \o r)) \in StopStarts(t \o r) /\ Min(StopStarts(t \o r)) <= m
  BY <1>3, <1>4, StartFacts, MinIsLeast
<1>8. m \in Nat /\ Min(StopStarts(t \o r)) \in Nat
  BY <1>2, <1>4, <1>7, StartFacts
<1> QED
  BY <1>1, <1>3, <1>6, <1>7, <1>8

LEMMA TextsJoin ==
  \A s, t, u \in Seq(Bytes) : (s \o t) \o u = s \o (t \o u)
BY ConcatAssociative

(* The first bytes of a text, and the others. *)
LEMMA Slices ==
  ASSUME NEW text \in Seq(Bytes), NEW n \in 0..Len(text)
  PROVE  /\ SubSeq(text, 1, n) \in Seq(Bytes) /\ Len(SubSeq(text, 1, n)) = n
         /\ \A k \in 1..n : SubSeq(text, 1, n)[k] = text[k]
         /\ SubSeq(text, n + 1, Len(text)) \in Seq(Bytes)
         /\ Len(SubSeq(text, n + 1, Len(text))) = Len(text) - n
         /\ \A k \in 1..(Len(text) - n) : SubSeq(text, n + 1, Len(text))[k] = text[n + k]
         /\ SubSeq(text, 1, n) \o SubSeq(text, n + 1, Len(text)) = text
<1>1. Len(text) \in Nat /\ \A k \in 1..Len(text) : text[k] \in Bytes
  BY SeqFacts
<1>2. n \in Int /\ n + 1 \in Int /\ Len(text) \in Int
  BY <1>1
<1>3. \A k \in 1..n : text[k] \in Bytes
  BY <1>1
<1>4. \A k \in (n + 1)..Len(text) : text[k] \in Bytes
  BY <1>1
<1>5. /\ SubSeq(text, 1, n) \in Seq(Bytes)
      /\ Len(SubSeq(text, 1, n)) = IF 1 <= n THEN n - 1 + 1 ELSE 0
      /\ \A k \in 1..(n - 1 + 1) : SubSeq(text, 1, n)[k] = text[1 + k - 1]
  BY <1>2, <1>3, SubSeqProperties
<1>6. /\ SubSeq(text, n + 1, Len(text)) \in Seq(Bytes)
      /\ Len(SubSeq(text, n + 1, Len(text))) = IF n + 1 <= Len(text) THEN Len(text) - (n + 1) + 1 ELSE 0
      /\ \A k \in 1..(Len(text) - (n + 1) + 1) : SubSeq(text, n + 1, Len(text))[k] = text[n + 1 + k - 1]
  BY <1>2, <1>4, SubSeqProperties
<1>7. SubSeq(text, 1, n) \o SubSeq(text, n + 1, Len(text)) = SubSeq(text, 1, Len(text))
  <2>1. 1 \in 1..(Len(text) + 1) /\ n \in (1 - 1)..Len(text) /\ Len(text) \in n..Len(text)
    BY <1>1
  <2> QED
    BY <2>1, ConcatAdjacentSubSeq
<1>8. SubSeq(text, 1, Len(text)) = text
  BY SubSeqFull
<1>9. Len(SubSeq(text, 1, n)) = n /\ \A k \in 1..n : SubSeq(text, 1, n)[k] = text[k]
  BY <1>5
<1>10. PICK rest : rest = SubSeq(text, n + 1, Len(text))
  BY Zenon
<1>11. Len(rest) = Len(text) - n /\ \A k \in 1..(Len(text) - n) : rest[k] = text[n + k]
  <2>1. /\ Len(text) - (n + 1) + 1 = Len(text) - n
        /\ \A k \in 1..(Len(text) - n) : n + 1 + k - 1 = n + k
        /\ ~(n + 1 <= Len(text)) => Len(text) - n = 0
    BY <1>1
  <2>2. \A k \in 1..(Len(text) - n) : rest[k] = text[n + 1 + k - 1]
    BY <1>6, <1>10, <2>1, Zenon
  <2> QED
    BY <1>6, <1>10, <2>1, <2>2, Zenon
<1> QED
  BY <1>5, <1>6, <1>7, <1>8, <1>9, <1>10, <1>11, Zenon

LEMMA BeforeStopIs ==
  ASSUME NEW text \in Seq(Bytes)
  PROVE  /\ BeforeStop(text) \in Seq(Bytes)
         /\ StopStarts(text) = {} => BeforeStop(text) = text
         /\ StopStarts(text) # {} =>
              /\ Min(StopStarts(text)) - 1 \in 0..Len(text)
              /\ BeforeStop(text) = SubSeq(text, 1, Min(StopStarts(text)) - 1)
              /\ Len(BeforeStop(text)) = Min(StopStarts(text)) - 1
         /\ Len(BeforeStop(text)) <= Len(text)
         /\ \A k \in 1..Len(BeforeStop(text)) : BeforeStop(text)[k] = text[k]
<1>1. CASE StopStarts(text) = {}
  BY <1>1, SeqFacts DEF BeforeStop
<1>2. CASE StopStarts(text) # {}
  <2>1. PICK m : m = Min(StopStarts(text))
    OBVIOUS
  <2>2. m \in 1..Len(text) /\ Len(text) \in Nat
    BY <1>2, <2>1, StartFacts, MinIsLeast, SeqFacts
  <2>3. PICK n : n = m - 1
    OBVIOUS
  <2>4. n \in 0..Len(text)
    BY <2>2, <2>3
  <2>5. BeforeStop(text) = SubSeq(text, 1, n)
    BY <1>2, <2>1, <2>3 DEF BeforeStop
  <2>6. /\ SubSeq(text, 1, n) \in Seq(Bytes) /\ Len(SubSeq(text, 1, n)) = n
        /\ \A k \in 1..n : SubSeq(text, 1, n)[k] = text[k]
    BY <2>4, Slices
  <2> QED
    BY <1>2, <2>1, <2>2, <2>3, <2>4, <2>5, <2>6
<1> QED
  BY <1>1, <1>2

(* What was before the first stop stays what is before it. *)
LEMMA BeforeStopStays ==
  ASSUME NEW t \in Seq(Bytes), NEW r \in Seq(Bytes), StopStarts(t) # {}, NoneInside
  PROVE  BeforeStop(t \o r) = BeforeStop(t)
<1>1. t \o r \in Seq(Bytes) /\ StopStarts(t \o r) # {} /\ Min(StopStarts(t \o r)) = Min(StopStarts(t))
  BY FirstStays, ConcatProperties
<1>2. PICK b, c : b = BeforeStop(t) /\ c = BeforeStop(t \o r)
  OBVIOUS
<1>3. /\ b \in Seq(Bytes) /\ Len(b) <= Len(t) /\ Len(b) = Min(StopStarts(t)) - 1
      /\ \A k \in 1..Len(b) : b[k] = t[k]
  BY <1>2, BeforeStopIs
<1>4. /\ c \in Seq(Bytes) /\ Len(c) = Min(StopStarts(t)) - 1
      /\ \A k \in 1..Len(c) : c[k] = (t \o r)[k]
  BY <1>1, <1>2, BeforeStopIs
<1>5. \A k \in 1..Len(b) : (t \o r)[k] = t[k]
  <2>1. Len(b) \in Nat /\ Len(t) \in Nat /\ Len(r) \in Nat
    BY <1>3, SeqFacts
  <2>2. \A k \in 1..(Len(t) + Len(r)) : (t \o r)[k] = IF k <= Len(t) THEN t[k] ELSE r[k - Len(t)]
    BY ConcatProperties
  <2> QED
    BY <1>3, <2>1, <2>2
<1>6. b = c
  BY <1>3, <1>4, <1>5, SeqEqual
<1> QED
  BY <1>2, <1>6

-----------------------------------------------------------------------------
(* The stop filter.                                                        *)

(* The filter has let `out` out of `text`.  What it holds back is long     *)
(* enough for any stop that is under way.                                  *)
Filtered(f, out, text) ==
  /\ out \in Seq(Bytes) /\ f.pending \in WholeTexts
  /\ Stops = {} => f = NewFilter
  /\ ~f.stopped => /\ text = out \o f.pending /\ StopStarts(text) = {}
                   /\ out # <<>> => Len(f.pending) >= Longest - 1
  /\ f.stopped => f.pending = <<>> /\ StopStarts(text) # {} /\ out = BeforeStop(text)

(* Text is added to a text as long as there is no stop in it.              *)
Kept(text, more) == IF StopStarts(text) = {} THEN text \o more ELSE text

LEMMA WholeTyped ==
  /\ <<>> \in WholeTexts
  /\ \A text \in WholeTexts : text \in Seq(Bytes) /\ (text # <<>> => text[1] \notin Continuations)
BY DEF WholeTexts

LEMMA EmptyFiltered == Filtered(NewFilter, <<>>, <<>>)
<1>1. PICK none : none = <<>> /\ none \in Seq(Bytes) /\ Len(none) = 0
  BY EmptySeq
<1>2. StopStarts(none) = {}
  BY <1>1 DEF StopStarts
<1>3. none \o none = none
  BY <1>1, ConcatEmptySeq
<1> QED
  BY <1>1, <1>2, <1>3, WholeTyped DEF Filtered, NewFilter

LEMMA WholeConcat ==
  ASSUME NEW s \in WholeTexts, NEW t \in WholeTexts
  PROVE  s \o t \in WholeTexts
<1>1. s \in Seq(Bytes) /\ t \in Seq(Bytes)
  BY DEF WholeTexts
<1>2. s \o t \in Seq(Bytes)
  BY <1>1, ConcatProperties
<1>3. ASSUME s \o t # <<>>  PROVE (s \o t)[1] \notin Continuations
  <2>1. CASE s = <<>>
    <3>1. s \o t = t
      BY <1>1, <2>1, ConcatEmptySeq
    <3> QED
      BY <1>3, <3>1 DEF WholeTexts
  <2>2. CASE s # <<>>
    <3>1. Len(s) \in Nat \ {0} /\ Len(t) \in Nat
      BY <1>1, <2>2, EmptySeq, SeqFacts
    <3>2. (s \o t)[1] = s[1]
      BY <1>1, <3>1, ConcatProperties
    <3> QED
      BY <2>2, <3>2 DEF WholeTexts
  <2> QED
    BY <2>1, <2>2
<1> QED
  BY <1>2, <1>3 DEF WholeTexts

(* The first part of a text, and what follows a place at which a character *)
(* begins.                                                                 *)
LEMMA WholeSlices ==
  ASSUME NEW text \in WholeTexts, NEW n \in 0..Len(text)
  PROVE  /\ SubSeq(text, 1, n) \in WholeTexts
         /\ n \in {0, Len(text)} \/ text[n + 1] \notin Continuations =>
              SubSeq(text, n + 1, Len(text)) \in WholeTexts
<1>1. text \in Seq(Bytes) /\ (text # <<>> => text[1] \notin Continuations) /\ Len(text) \in Nat
  BY WholeTyped, SeqFacts
<1>2. PICK first, rest : first = SubSeq(text, 1, n) /\ rest = SubSeq(text, n + 1, Len(text))
  OBVIOUS
<1>3. /\ first \in Seq(Bytes) /\ Len(first) = n
      /\ \A k \in 1..n : first[k] = text[k]
      /\ rest \in Seq(Bytes) /\ Len(rest) = Len(text) - n
      /\ \A k \in 1..(Len(text) - n) : rest[k] = text[n + k]
  BY <1>1, <1>2, Slices
<1>4. first # <<>> => first[1] \notin Continuations
  <2>1. first # <<>> => n >= 1 /\ text # <<>>
    BY <1>1, <1>3, EmptySeq
  <2> QED
    BY <1>1, <1>3, <2>1
<1>5. ASSUME n \in {0, Len(text)} \/ text[n + 1] \notin Continuations, rest # <<>>
      PROVE  rest[1] \notin Continuations
  <2>1. Len(rest) >= 1 /\ n < Len(text) /\ text # <<>>
    BY <1>1, <1>3, <1>5, EmptySeq
  <2>2. rest[1] = text[n + 1]
    BY <1>1, <1>3, <2>1
  <2> QED
    BY <1>1, <1>5, <2>1, <2>2
<1> QED
  BY <1>2, <1>3, <1>4, <1>5 DEF WholeTexts

(* With a stop that is under way held back, none begins before what is     *)
(* held back, whatever comes next.                                         *)
LEMMA NoneBefore ==
  ASSUME NEW o \in Seq(Bytes), NEW p \in Seq(Bytes), NEW r \in Seq(Bytes),
         StopStarts(o \o p) = {}, o # <<>> => Len(p) >= Longest - 1,
         NEW i \in StopStarts((o \o p) \o r)
  PROVE  i > Len(o)
<1>1. PICK t : t = o \o p
  OBVIOUS
<1>2. t \in Seq(Bytes) /\ Len(t) = Len(o) + Len(p) /\ t \o r \in Seq(Bytes)
  BY <1>1, ConcatProperties
<1>3. i \in Nat \ {0}
  BY <1>1, <1>2, StartFacts
<1>4. PICK s \in Stops : OccursAt(t \o r, s, i)
  BY <1>1 DEF StopStarts
<1>5. Len(o) \in Nat /\ Len(p) \in Nat /\ Len(s) \in Nat /\ Len(s) >= 1 /\ Longest \in Nat /\ Len(s) <= Longest
  BY SeqFacts, StopTyped, LongestIsLongest
<1>6. SUFFICES ASSUME i <= Len(o)  PROVE FALSE
  BY <1>3, <1>5
<1>7. o # <<>>
  BY <1>3, <1>5, <1>6, EmptySeq
<1>8. i + Len(s) - 1 <= Len(t) /\ i \in 1..Len(t)
  BY <1>2, <1>3, <1>5, <1>6, <1>7
<1>9. OccursAt(t, s, i)
  BY <1>2, <1>3, <1>4, <1>8, OccursBefore
<1> QED
  BY <1>1, <1>8, <1>9 DEF StopStarts

(* The stops behind a text without any. *)
LEMMA StopsBehind ==
  ASSUME NEW o \in Seq(Bytes), NEW u \in Seq(Bytes), \A i \in StopStarts(o \o u) : i > Len(o)
  PROVE  /\ StopStarts(u) = {} => StopStarts(o \o u) = {}
         /\ StopStarts(u) # {} => /\ StopStarts(o \o u) # {}
                                  /\ Min(StopStarts(o \o u)) = Len(o) + Min(StopStarts(u))
<1>1. o \o u \in Seq(Bytes) /\ Len(o \o u) = Len(o) + Len(u) /\ Len(o) \in Nat /\ Len(u) \in Nat
  BY ConcatProperties, SeqFacts
<1>2. ASSUME NEW i \in StopStarts(o \o u)  PROVE i - Len(o) \in StopStarts(u)
  <2>1. PICK s \in Stops : OccursAt(o \o u, s, i)
    BY DEF StopStarts
  <2>2. PICK k : k = i - Len(o)
    OBVIOUS
  <2>3. i \in Nat /\ i <= Len(o) + Len(u) /\ i > Len(o)
    <3>1. i \in 1..Len(o \o u) /\ i > Len(o)
      BY <1>1, StartFacts
    <3> QED
      BY <1>1, <3>1
  <2>4. k \in Nat \ {0} /\ i = Len(o) + k /\ k \in 1..Len(u)
    BY <1>1, <2>2, <2>3
  <2>5. OccursAt(u, s, k)
    BY <2>1, <2>4, OccursBehind
  <2> QED
    BY <2>2, <2>4, <2>5 DEF StopStarts
<1>3. ASSUME NEW k \in StopStarts(u)  PROVE Len(o) + k \in StopStarts(o \o u)
  <2>1. PICK s \in Stops : OccursAt(u, s, k)
    BY DEF StopStarts
  <2>2. k \in Nat \ {0} /\ k \in 1..Len(u)
    BY StartFacts
  <2>3. OccursAt(o \o u, s, Len(o) + k)
    BY <2>1, <2>2, OccursBehind
  <2>4. Len(o) + k \in 1..Len(o \o u)
    BY <1>1, <2>2
  <2> QED
    BY <2>3, <2>4 DEF StopStarts
<1>4. CASE StopStarts(u) # {}
  <2>1. PICK m, n : m = Min(StopStarts(u)) /\ n = Min(StopStarts(o \o u))
    OBVIOUS
  <2>2. m \in StopStarts(u) /\ \A k \in StopStarts(u) : m <= k
    BY <1>4, <2>1, StartFacts, MinIsLeast
  <2>3. Len(o) + m \in StopStarts(o \o u)
    BY <1>3, <2>2
  <2>4. n \in StopStarts(o \o u) /\ \A k \in StopStarts(o \o u) : n <= k
    BY <1>1, <2>1, <2>3, StartFacts, MinIsLeast
  <2>5. n <= Len(o) + m
    BY <2>3, <2>4
  <2>6. n - Len(o) \in StopStarts(u)
    BY <1>2, <2>4
  <2>7. m <= n - Len(o)
    BY <2>2, <2>6
  <2>8. m \in Nat /\ n \in Nat
    BY <1>1, <2>2, <2>4, StartFacts
  <2>9. n = Len(o) + m
    BY <1>1, <2>5, <2>7, <2>8
  <2> QED
    BY <1>4, <2>1, <2>3, <2>9
<1> QED
  BY <1>2, <1>4

(* How much is let out of a text without a stop. *)
LEMMA CutIs ==
  ASSUME NEW text \in Seq(Bytes), Stops # {}
  PROVE  /\ Cut(text) \in 0..Len(text)
         /\ Cut(text) \in {0, Len(text)} \/ text[Cut(text) + 1] \notin Continuations
         /\ Cut(text) # 0 => Len(text) - Cut(text) >= Longest - 1
<1>1. Len(text) \in Nat /\ Longest \in Nat /\ Longest >= 1
  <2>1. PICK s : s \in Stops
    OBVIOUS
  <2>2. Len(s) >= 1 /\ Len(s) <= Longest /\ Len(s) \in Nat /\ Longest \in Nat
    BY <2>1, StopTyped, LongestIsLongest
  <2> QED
    BY <2>2, SeqFacts
<1>2. PICK want : want = IF Longest - 1 > Len(text) THEN 0 ELSE Len(text) - (Longest - 1)
  OBVIOUS
<1>4. PICK places : places = {c \in 0..want : c \in {0, Len(text)} \/ text[c + 1] \notin Continuations}
  OBVIOUS
<1>5. want \in Nat
  BY <1>1, <1>2
<1>6. places \in SUBSET (0..want) /\ 0 \in places
  BY <1>4, <1>5
<1>7. PICK c : c = Max(places)
  OBVIOUS
<1>8. c \in places
  BY <1>5, <1>6, <1>7, MaxIsGreatest
<1>9. Cut(text) = c
  BY <1>2, <1>4, <1>7 DEF Cut
<1>10. c \in 0..want /\ (c \in {0, Len(text)} \/ text[c + 1] \notin Continuations)
  BY <1>4, <1>8
<1>11. want \in 0..Len(text) /\ (want # 0 => Len(text) - want >= Longest - 1)
  BY <1>1, <1>2
<1>12. c \in 0..Len(text) /\ (c # 0 => Len(text) - c >= Longest - 1)
  BY <1>1, <1>10, <1>11
<1> QED
  BY <1>9, <1>10, <1>12

(* A fragment keeps the filter's promise, and lets out whole characters.   *)
LEMMA WriteFilters ==
  ASSUME NEW f, NEW out, NEW text, NEW more \in WholeTexts,
         f \in [pending : WholeTexts, stopped : BOOLEAN],
         text \in Seq(Bytes), Filtered(f, out, text)
  PROVE  /\ Write(f, more).filter \in [pending : WholeTexts, stopped : BOOLEAN]
         /\ Write(f, more).out \in WholeTexts
         /\ Filtered(Write(f, more).filter, out \o Write(f, more).out, Kept(text, more))
<1>1. f.pending \in WholeTexts /\ f.stopped \in BOOLEAN /\ out \in Seq(Bytes)
  BY DEF Filtered
<1>2. more \in Seq(Bytes) /\ f.pending \in Seq(Bytes)
  BY <1>1, WholeTyped
<1>3. text \o more \in Seq(Bytes)
  BY <1>2, ConcatProperties
<1>4. PICK now : now = f.pending \o more
  OBVIOUS
<1>5. now \in WholeTexts /\ now \in Seq(Bytes)
  BY <1>1, <1>4, WholeConcat, WholeTyped
<1>6. CASE Stops = {}
  <2>1. Write(f, more) = [filter |-> f, out |-> more]
    BY <1>6 DEF Write
  <2>2. f.pending = <<>> /\ ~f.stopped
    BY <1>6 DEF Filtered, NewFilter
  <2>3. text = out
    BY <1>1, <2>2, ConcatEmptySeq DEF Filtered
  <2>4. StopStarts(text \o more) = {}
    BY <1>6 DEF StopStarts
  <2>5. (out \o more) \o f.pending = out \o more /\ out \o more \in Seq(Bytes)
    BY <1>1, <1>2, <2>2, ConcatEmptySeq, ConcatProperties
  <2>6. Len(f.pending) >= Longest - 1
    BY <1>6, <2>2, EmptySeq DEF Longest
  <2>7. Kept(text, more) = (out \o more) \o f.pending
    BY <1>6, <2>3, <2>5 DEF Kept, StopStarts
  <2>8. Filtered(f, out \o more, Kept(text, more))
    BY <1>1, <2>2, <2>3, <2>4, <2>5, <2>6, <2>7 DEF Filtered
  <2> QED
    BY <2>1, <2>8
<1>7. CASE Stops # {} /\ f.stopped
  <2>1. Write(f, more) = [filter |-> f, out |-> <<>>]
    BY <1>7 DEF Write
  <2>2. f.pending = <<>> /\ StopStarts(text) # {} /\ out = BeforeStop(text)
    BY <1>7 DEF Filtered
  <2>3. Kept(text, more) = text
    BY <2>2 DEF Kept
  <2>4. out \o <<>> = out
    BY <1>1, ConcatEmptySeq
  <2> QED
    BY <1>1, <1>7, <2>1, <2>2, <2>3, <2>4, WholeTyped DEF Filtered
<1>8. ASSUME ~f.stopped  PROVE
        /\ text \o more = out \o now /\ Kept(text, more) = text \o more
        /\ \A i \in StopStarts(out \o now) : i > Len(out)
  <2>1. text = out \o f.pending
    BY <1>8 DEF Filtered
  <2>2. text \o more = out \o now
    BY <1>1, <1>2, <1>4, <2>1, ConcatAssociative
  <2>3. StopStarts(out \o f.pending) = {} /\ (out # <<>> => Len(f.pending) >= Longest - 1)
    BY <1>8, <2>1 DEF Filtered
  <2>4. \A i \in StopStarts((out \o f.pending) \o more) : i > Len(out)
    BY <1>1, <1>2, <2>3, NoneBefore
  <2>5. Kept(text, more) = text \o more
    BY <1>8 DEF Filtered, Kept
  <2> QED
    BY <2>1, <2>2, <2>4, <2>5
<1>9. CASE Stops # {} /\ ~f.stopped /\ StopStarts(now) # {}
  <2>1. PICK cut : cut = Min(StopStarts(now)) - 1
    OBVIOUS
  <2>2. Write(f, more) = [filter |-> [pending |-> <<>>, stopped |-> TRUE], out |-> SubSeq(now, 1, cut)]
    BY <1>4, <1>9, <2>1 DEF Write
  <2>3. cut \in 0..Len(now)
    BY <1>5, <1>9, <2>1, BeforeStopIs
  <2>4. PICK passed : passed = SubSeq(now, 1, cut)
    OBVIOUS
  <2>5. /\ passed \in WholeTexts /\ passed \in Seq(Bytes) /\ Len(passed) = cut
        /\ \A k \in 1..cut : passed[k] = now[k]
    BY <1>5, <2>3, <2>4, WholeSlices, Slices
  <2>6. /\ StopStarts(out \o now) # {}
        /\ Min(StopStarts(out \o now)) = Len(out) + Min(StopStarts(now))
    BY <1>1, <1>5, <1>8, <1>9, StopsBehind
  <2>7. PICK before : before = BeforeStop(out \o now)
    OBVIOUS
  <2>8. /\ before \in Seq(Bytes) /\ Len(before) = Min(StopStarts(out \o now)) - 1
        /\ \A k \in 1..Len(before) : before[k] = (out \o now)[k]
    BY <1>1, <1>5, <2>6, <2>7, ConcatProperties, BeforeStopIs
  <2>9. /\ Len(out) \in Nat /\ Len(now) \in Nat /\ cut \in Nat
        /\ Min(StopStarts(now)) \in Nat
    <3>1. Min(StopStarts(now)) \in StopStarts(now)
      BY <1>5, <1>9, StartFacts, MinIsLeast
    <3> QED
      BY <1>1, <1>5, <2>3, <3>1, SeqFacts, StartFacts
  <2>10. Len(before) = Len(out) + cut
    BY <2>1, <2>6, <2>8, <2>9
  <2>11. out \o passed = before
    <3>1. PICK whole : whole = out \o passed
      OBVIOUS
    <3>2. /\ whole \in Seq(Bytes) /\ Len(whole) = Len(out) + cut
          /\ \A k \in 1..(Len(out) + cut) : whole[k] = IF k <= Len(out) THEN out[k] ELSE passed[k - Len(out)]
      BY <1>1, <2>5, <3>1, ConcatProperties
    <3>3. \A k \in 1..(Len(out) + Len(now)) :
            (out \o now)[k] = IF k <= Len(out) THEN out[k] ELSE now[k - Len(out)]
      BY <1>1, <1>5, ConcatProperties
    <3>4. ASSUME NEW k \in 1..Len(before)  PROVE whole[k] = before[k]
      <4>1. k \in 1..(Len(out) + cut) /\ k \in 1..(Len(out) + Len(now))
        BY <2>3, <2>9, <2>10
      <4>2. CASE k <= Len(out)
        BY <2>8, <3>2, <3>3, <4>1, <4>2
      <4>3. CASE ~(k <= Len(out))
        <5>1. k - Len(out) \in 1..cut
          BY <2>9, <4>1, <4>3
        <5>2. passed[k - Len(out)] = now[k - Len(out)]
          BY <2>5, <5>1
        <5> QED
          BY <2>8, <3>2, <3>3, <4>1, <4>3, <5>2
      <4> QED
        BY <4>2, <4>3
    <3>5. Len(whole) = Len(before) /\ \A k \in 1..Len(before) : whole[k] = before[k]
      BY <2>10, <3>2, <3>4
    <3>6. whole = before
      BY <2>8, <3>2, <3>5, SeqEqual
    <3> QED
      BY <3>1, <3>6
  <2>12. out \o passed = BeforeStop(text \o more) /\ StopStarts(text \o more) # {}
    BY <1>8, <1>9, <2>6, <2>7, <2>11
  <2>13. out \o passed \in Seq(Bytes)
    BY <1>1, <2>5, ConcatProperties
  <2>14. PICK g : g = [pending |-> <<>>, stopped |-> TRUE]
    OBVIOUS
  <2>15. g.pending = <<>> /\ g.stopped /\ g \in [pending : WholeTexts, stopped : BOOLEAN]
    BY <2>14, WholeTyped
  <2>16. Filtered(g, out \o passed, Kept(text, more))
    BY <1>8, <1>9, <2>12, <2>13, <2>15, WholeTyped DEF Filtered
  <2>17. Write(f, more).filter = g /\ Write(f, more).out = passed
    <3>1. Write(f, more) = [filter |-> g, out |-> passed]
      BY <2>2, <2>4, <2>14
    <3> QED
      BY <3>1
  <2> QED
    BY <2>5, <2>15, <2>16, <2>17
<1>10. CASE Stops # {} /\ ~f.stopped /\ StopStarts(now) = {}
  <2>1. PICK cut, passed, held :
          cut = Cut(now) /\ passed = SubSeq(now, 1, cut) /\ held = SubSeq(now, cut + 1, Len(now))
    OBVIOUS
  <2>2. Write(f, more) = [filter |-> [pending |-> held, stopped |-> FALSE], out |-> passed]
    BY <1>4, <1>10, <2>1 DEF Write
  <2>3. /\ cut \in 0..Len(now) /\ (cut \in {0, Len(now)} \/ now[cut + 1] \notin Continuations)
        /\ cut # 0 => Len(now) - cut >= Longest - 1
    BY <1>5, <1>10, <2>1, CutIs
  <2>4. passed \in WholeTexts /\ held \in WholeTexts
    BY <1>5, <2>1, <2>3, WholeSlices
  <2>5. /\ passed \in Seq(Bytes) /\ Len(passed) = cut /\ held \in Seq(Bytes)
        /\ Len(held) = Len(now) - cut /\ passed \o held = now
    BY <1>5, <2>1, <2>3, Slices
  <2>6. out \o passed \in Seq(Bytes) /\ (out \o passed) \o held = out \o now
    <3>1. (out \o passed) \o held = out \o (passed \o held)
      BY <1>1, <2>5, TextsJoin, Zenon
    <3>2. out \o passed \in Seq(Bytes)
      BY <1>1, <2>5, ConcatProperties
    <3> QED
      BY <2>5, <3>1, <3>2
  <2>7. StopStarts(out \o now) = {}
    BY <1>1, <1>5, <1>8, <1>10, StopsBehind
  <2>8. ASSUME out \o passed # <<>>  PROVE Len(held) >= Longest - 1
    <3>1. /\ Len(now) \in Nat /\ Len(f.pending) \in Nat /\ Longest \in Nat /\ Len(more) \in Nat
          /\ Len(now) = Len(f.pending) + Len(more)
      BY <1>2, <1>4, <1>5, SeqFacts, LongestIsLongest, ConcatProperties
    <3>2. CASE cut # 0
      BY <2>3, <2>5, <3>2
    <3>3. CASE cut = 0
      <4>1. passed = <<>>
        BY <2>5, <3>3, EmptySeq
      <4>2. out # <<>>
        BY <1>1, <2>8, <4>1, ConcatEmptySeq
      <4>3. Len(f.pending) >= Longest - 1
        BY <1>10, <4>2 DEF Filtered
      <4> QED
        BY <2>5, <3>1, <3>3, <4>3
    <3> QED
      BY <3>2, <3>3
  <2>9. PICK g : g = [pending |-> held, stopped |-> FALSE]
    OBVIOUS
  <2>10. g.pending = held /\ ~g.stopped /\ g \in [pending : WholeTexts, stopped : BOOLEAN]
    BY <2>4, <2>9
  <2>11. text \o more = (out \o passed) \o held /\ StopStarts(text \o more) = {}
    BY <1>8, <1>10, <2>6, <2>7
  <2>12. Filtered(g, out \o passed, Kept(text, more))
    BY <1>8, <1>10, <2>4, <2>6, <2>8, <2>10, <2>11 DEF Filtered
  <2>13. Write(f, more).filter = g /\ Write(f, more).out = passed
    BY <2>2, <2>9
  <2> QED
    BY <2>4, <2>10, <2>12, <2>13
<1> QED
  BY <1>1, <1>6, <1>7, <1>9, <1>10

(* What the filter has let out of a text is the beginning of what precedes *)
(* the first stop, however a text without one goes on; with what it holds  *)
(* back, all of it.                                                        *)
LEMMA OutIsClean ==
  ASSUME NEW f, NEW out, NEW text \in Seq(Bytes), NEW rest \in Seq(Bytes), f.stopped \in BOOLEAN,
         Filtered(f, out, text), f.stopped => rest = <<>>
  PROVE  /\ \E left \in Seq(Bytes) : BeforeStop(text \o rest) = out \o left
         /\ rest = <<>> => out \o Flush(f) = BeforeStop(text \o rest)
<1>1. f.pending \in Seq(Bytes) /\ out \in Seq(Bytes)
  BY WholeTyped DEF Filtered
<1>2. CASE f.stopped
  <2>1. StopStarts(text) # {} /\ out = BeforeStop(text)
    BY <1>2 DEF Filtered
  <2>2. BeforeStop(text \o rest) = out
    BY <1>2, <2>1, ConcatEmptySeq
  <2>3. Flush(f) = <<>>
    BY <1>2 DEF Flush
  <2>4. out \o <<>> = out /\ <<>> \in Seq(Bytes)
    BY <1>1, ConcatEmptySeq, EmptySeq
  <2> QED
    BY <2>2, <2>3, <2>4
<1>3. CASE ~f.stopped
  <2>1. /\ text = out \o f.pending /\ StopStarts(out \o f.pending) = {}
        /\ out # <<>> => Len(f.pending) >= Longest - 1
    BY <1>3 DEF Filtered
  <2>2. Flush(f) = f.pending
    BY <1>3 DEF Flush
  <2>3. ASSUME rest = <<>>  PROVE text \o rest = out \o f.pending /\ BeforeStop(text \o rest) = text
    <3>1. text \o rest = text
      BY <2>3, ConcatEmptySeq
    <3> QED
      BY <2>1, <3>1, BeforeStopIs
  <2>4. PICK t, u : t = text \o rest /\ u = f.pending \o rest
    OBVIOUS
  <2>5. t \in Seq(Bytes) /\ u \in Seq(Bytes) /\ t = out \o u
    <3>1. (out \o f.pending) \o rest = out \o (f.pending \o rest)
      BY <1>1, TextsJoin, Zenon
    <3>2. f.pending \o rest \in Seq(Bytes) /\ text \o rest \in Seq(Bytes)
      BY <1>1, ConcatProperties
    <3> QED
      BY <2>1, <2>4, <3>1, <3>2
  <2>6. \A i \in StopStarts(t) : i > Len(out)
    BY <1>1, <2>1, <2>4, NoneBefore
  <2>7. CASE StopStarts(t) = {}
    BY <2>4, <2>5, <2>7, BeforeStopIs, <2>1, <2>2, <2>3, <1>3
  <2>8. CASE StopStarts(t) # {}
    <3>1. PICK n, before : n = Min(StopStarts(t)) - 1 /\ before = BeforeStop(t)
      OBVIOUS
    <3>2. n \in 0..Len(t) /\ before = SubSeq(t, 1, n)
      BY <2>5, <2>8, <3>1, BeforeStopIs
    <3>3. Len(out) \in Nat /\ Len(u) \in Nat /\ Len(t) = Len(out) + Len(u)
      BY <1>1, <2>5, ConcatProperties, SeqFacts
    <3>4. n >= Len(out)
      <4>1. Min(StopStarts(t)) \in StopStarts(t)
        BY <2>5, <2>8, StartFacts, MinIsLeast
      <4>2. Min(StopStarts(t)) > Len(out) /\ Min(StopStarts(t)) \in Nat
        BY <2>5, <2>6, <4>1, StartFacts
      <4> QED
        BY <3>1, <3>3, <4>2
    <3>5. PICK m : m = n - Len(out)
      OBVIOUS
    <3>6. m \in 0..Len(u) /\ n = Len(out) + m
      BY <3>2, <3>3, <3>4, <3>5
    <3>7. PICK left : left = SubSeq(u, 1, m)
      OBVIOUS
    <3>8. left \in Seq(Bytes) /\ Len(left) = m /\ \A k \in 1..m : left[k] = u[k]
      BY <2>5, <3>6, <3>7, Slices
    <3>9. before \in Seq(Bytes) /\ Len(before) = n /\ \A k \in 1..n : before[k] = t[k]
      BY <2>5, <3>2, Slices
    <3>10. PICK whole : whole = out \o left
      OBVIOUS
    <3>11. /\ whole \in Seq(Bytes) /\ Len(whole) = n
           /\ \A k \in 1..n : whole[k] = IF k <= Len(out) THEN out[k] ELSE left[k - Len(out)]
      BY <1>1, <3>6, <3>8, <3>10, ConcatProperties
    <3>12. \A k \in 1..Len(t) : t[k] = IF k <= Len(out) THEN out[k] ELSE u[k - Len(out)]
      BY <1>1, <2>5, <3>3, ConcatProperties
    <3>13. ASSUME NEW k \in 1..n  PROVE before[k] = whole[k]
      <4>1. k \in 1..Len(t)
        BY <3>2, <3>3
      <4>2. CASE k <= Len(out)
        BY <3>9, <3>11, <3>12, <4>1, <4>2
      <4>3. CASE ~(k <= Len(out))
        <5>1. k - Len(out) \in 1..m
          BY <3>3, <3>6, <4>3
        <5> QED
          BY <3>8, <3>9, <3>11, <3>12, <4>1, <4>3, <5>1
      <4> QED
        BY <4>2, <4>3
    <3>14. before = whole
      BY <3>9, <3>11, <3>13, SeqEqual
    <3>15. rest # <<>>
      BY <2>1, <2>3, <2>4, <2>8
    <3> QED
      BY <1>3, <2>4, <3>1, <3>8, <3>10, <3>14, <3>15
  <2> QED
    BY <2>7, <2>8
<1> QED
  BY <1>2, <1>3

-----------------------------------------------------------------------------
(* The three folds of the model.                                           *)

FragmentSeqs == Seq(Fragments)

Ids == Names \cup {"made_up"}

ClientCalls == Seq([id : Ids, name : Names, args : Seq(Bytes)])

Reasons == {"", "stop", "length", "tool_calls"}

Seen == [kind : {"answer"}, text : Seq(Bytes), why : Reasons, usage : {"none", "counts"},
         calls : ClientCalls]

(* p[k] is the text of the first k frames. *)
TextWalk(p, frames) ==
  /\ p \in [0..Len(frames) -> Seq(Bytes)]
  /\ p[0] = <<>>
  /\ \A k \in 1..Len(frames) : p[k] = AddText(p[k - 1], frames[k])

LEMMA TextSteps ==
  ASSUME NEW frames, NEW n \in Nat, n = Len(frames), DOMAIN frames = 1..n,
         \A k \in 1..n, v \in Seq(Bytes) : AddText(v, frames[k]) \in Seq(Bytes)
  PROVE  \E p : TextWalk(p, frames) /\ AllText(frames) = p[n]
<1>1. PICK V, b : V = Seq(Bytes) /\ b = <<>>
  OBVIOUS
<1>2. PICK step : step = [k \in 1..n |-> [v \in V |-> AddText(v, frames[k])]]
  OBVIOUS
<1>3. Foldable(V, b, n, step)
  <2>1. step \in [1..n -> [V -> V]]
    BY <1>1, <1>2
  <2>2. b \in V
    BY <1>1
  <2> QED
    BY <2>1, <2>2 DEF Foldable
<1>4. PICK g, p : FoldedBy(g, V, b, n, step) /\ Unfolds(p, V, b, n, step)
  BY <1>3, FoldWalks
<1>5. \E h : h = [s \in SUBSET (1..n) |->
                    IF s = {} THEN b ELSE AddText(h[s \ {Max(s)}], frames[Max(s)])]
  <2>1. PICK h : h = [s \in SUBSET (1..n) |-> g[s]]
    OBVIOUS
  <2>2. ASSUME NEW s \in SUBSET (1..n), s # {}
        PROVE  g[s] = AddText(g[s \ {Max(s)}], frames[Max(s)])
    <3>1. PICK m : m = Max(s)
      OBVIOUS
    <3>2. m \in s
      <4>1. s \in SUBSET (0..n)
        OBVIOUS
      <4> QED
        BY <2>2, <3>1, <4>1, MaxIsGreatest
    <3>3. m \in 1..n /\ s \ {m} \in SUBSET (1..n)
      BY <3>2
    <3>4. g[s \ {m}] \in V /\ g[s] = step[m][g[s \ {m}]]
      BY <1>4, <2>2, <3>1, <3>3 DEF FoldedBy
    <3> QED
      BY <1>2, <3>1, <3>3, <3>4
  <2>3. ASSUME NEW s \in SUBSET (1..n)
        PROVE  h[s] = IF s = {} THEN b ELSE AddText(h[s \ {Max(s)}], frames[Max(s)])
    <3>1. h[s \ {Max(s)}] = g[s \ {Max(s)}] /\ h[s] = g[s]
      BY <2>1
    <3>2. g[{}] = b
      BY <1>4 DEF FoldedBy
    <3>3. CASE s = {}
      BY <3>1, <3>2, <3>3
    <3>4. CASE s # {}
      BY <2>2, <3>1, <3>4
    <3> QED
      BY <3>3, <3>4
  <2>4. h = [s \in SUBSET (1..n) |-> IF s = {} THEN b ELSE AddText(h[s \ {Max(s)}], frames[Max(s)])]
    BY <2>1, <2>3
  <2> QED
    BY <2>4
<1>6. PICK it : /\ it = [s \in SUBSET (1..n) |->
                          IF s = {} THEN b ELSE AddText(it[s \ {Max(s)}], frames[Max(s)])]
                /\ AllText(frames) = it[1..n]
  <2>1. PICK it : it = CHOOSE h : h = [s \in SUBSET DOMAIN frames |->
                          IF s = {} THEN <<>> ELSE AddText(h[s \ {Max(s)}], frames[Max(s)])]
    OBVIOUS
  <2>2. AllText(frames) = it[DOMAIN frames]
    BY <2>1 DEF AllText, FoldLeft, MapThenFoldSet
  <2>3. \E h : h = [s \in SUBSET DOMAIN frames |->
                      IF s = {} THEN <<>> ELSE AddText(h[s \ {Max(s)}], frames[Max(s)])]
    BY <1>1, <1>5
  <2>4. it = [s \in SUBSET DOMAIN frames |->
                IF s = {} THEN <<>> ELSE AddText(it[s \ {Max(s)}], frames[Max(s)])]
    BY <2>1, <2>3
  <2> QED
    BY <1>1, <2>2, <2>4
<1>7. TextWalk(p, frames)
  <2>1. p \in [0..n -> V] /\ p[0] = b /\ \A k \in 1..n : p[k] = step[k][p[k - 1]]
    BY <1>4 DEF Unfolds
  <2>2. \A k \in 1..n : k - 1 \in 0..n
    OBVIOUS
  <2>3. \A k \in 1..n : p[k] = AddText(p[k - 1], frames[k])
    BY <1>2, <2>1, <2>2
  <2> QED
    BY <1>1, <2>1, <2>3 DEF TextWalk
<1>8. it[1..n] = p[n]
  <2>1. it[{}] = b
    BY <1>6
  <2>2. ASSUME NEW k \in 1..n  PROVE it[1..k] = AddText(it[1..(k - 1)], frames[k])
    <3>1. Max(1..k) = k /\ (1..k) \ {k} = 1..(k - 1) /\ 1..k # {}
      BY LastOfSegment
    <3>2. 1..k \in SUBSET (1..n)
      OBVIOUS
    <3> QED
      BY <1>6, <3>1, <3>2
  <2>3. it[{}] = p[0] /\ \A k \in 1..n : it[1..(k - 1)] = p[k - 1] => it[1..k] = p[k]
    BY <1>1, <1>7, <2>1, <2>2 DEF TextWalk
  <2> QED
    BY <2>3, SameWalk
<1> QED
  BY <1>6, <1>7, <1>8

LEMMA TextIs ==
  ASSUME NEW frames, NEW n \in Nat, n = Len(frames), DOMAIN frames = 1..n,
         \A k \in 1..n, v \in Seq(Bytes) : AddText(v, frames[k]) \in Seq(Bytes),
         NEW q, TextWalk(q, frames)
  PROVE  AllText(frames) = q[n]
<1>1. PICK p : TextWalk(p, frames) /\ AllText(frames) = p[n]
  BY TextSteps
<1>2. StepAlike(p, q, n)
  BY <1>1 DEF TextWalk, StepAlike
<1>3. q[n] = p[n]
  BY <1>2, SameSteps
<1> QED
  BY <1>1, <1>3

LEMMA NothingSeen == Nothing \in Seen
BY DEF Nothing, Seen, Reasons, ClientCalls

(* p[k] is what a client has seen after the first k events. *)
SeenWalk(p, events) ==
  /\ p \in [0..Len(events) -> Seen]
  /\ p[0] = Nothing
  /\ \A k \in 1..Len(events) : p[k] = Put(p[k - 1], events[k])

LEMMA SeenSteps ==
  ASSUME NEW events, NEW n \in Nat, n = Len(events), DOMAIN events = 1..n,
         \A k \in 1..n, v \in Seen : Put(v, events[k]) \in Seen
  PROVE  \E p : SeenWalk(p, events) /\ PutTogether(events) = p[n]
<1>1. PICK V, b : V = Seen /\ b = Nothing
  OBVIOUS
<1>2. PICK step : step = [k \in 1..n |-> [v \in V |-> Put(v, events[k])]]
  OBVIOUS
<1>3. Foldable(V, b, n, step)
  <2>1. step \in [1..n -> [V -> V]]
    BY <1>1, <1>2
  <2>2. b \in V
    BY <1>1, NothingSeen
  <2> QED
    BY <2>1, <2>2 DEF Foldable
<1>4. PICK g, p : FoldedBy(g, V, b, n, step) /\ Unfolds(p, V, b, n, step)
  BY <1>3, FoldWalks
<1>5. \E h : h = [s \in SUBSET (1..n) |->
                    IF s = {} THEN b ELSE Put(h[s \ {Max(s)}], events[Max(s)])]
  <2>1. PICK h : h = [s \in SUBSET (1..n) |-> g[s]]
    OBVIOUS
  <2>2. ASSUME NEW s \in SUBSET (1..n), s # {}
        PROVE  g[s] = Put(g[s \ {Max(s)}], events[Max(s)])
    <3>1. PICK m : m = Max(s)
      OBVIOUS
    <3>2. m \in s
      <4>1. s \in SUBSET (0..n)
        OBVIOUS
      <4> QED
        BY <2>2, <3>1, <4>1, MaxIsGreatest
    <3>3. m \in 1..n /\ s \ {m} \in SUBSET (1..n)
      BY <3>2
    <3>4. g[s \ {m}] \in V /\ g[s] = step[m][g[s \ {m}]]
      BY <1>4, <2>2, <3>1, <3>3 DEF FoldedBy
    <3> QED
      BY <1>2, <3>1, <3>3, <3>4
  <2>3. ASSUME NEW s \in SUBSET (1..n)
        PROVE  h[s] = IF s = {} THEN b ELSE Put(h[s \ {Max(s)}], events[Max(s)])
    <3>1. h[s \ {Max(s)}] = g[s \ {Max(s)}] /\ h[s] = g[s]
      BY <2>1
    <3>2. g[{}] = b
      BY <1>4 DEF FoldedBy
    <3>3. CASE s = {}
      BY <3>1, <3>2, <3>3
    <3>4. CASE s # {}
      BY <2>2, <3>1, <3>4
    <3> QED
      BY <3>3, <3>4
  <2>4. h = [s \in SUBSET (1..n) |-> IF s = {} THEN b ELSE Put(h[s \ {Max(s)}], events[Max(s)])]
    BY <2>1, <2>3
  <2> QED
    BY <2>4
<1>6. PICK it : /\ it = [s \in SUBSET (1..n) |->
                          IF s = {} THEN b ELSE Put(it[s \ {Max(s)}], events[Max(s)])]
                /\ PutTogether(events) = it[1..n]
  <2>1. PICK it : it = CHOOSE h : h = [s \in SUBSET DOMAIN events |->
                          IF s = {} THEN Nothing ELSE Put(h[s \ {Max(s)}], events[Max(s)])]
    OBVIOUS
  <2>2. PutTogether(events) = it[DOMAIN events]
    BY <2>1 DEF PutTogether, FoldLeft, MapThenFoldSet
  <2>3. \E h : h = [s \in SUBSET DOMAIN events |->
                      IF s = {} THEN Nothing ELSE Put(h[s \ {Max(s)}], events[Max(s)])]
    BY <1>1, <1>5
  <2>4. it = [s \in SUBSET DOMAIN events |->
                IF s = {} THEN Nothing ELSE Put(it[s \ {Max(s)}], events[Max(s)])]
    BY <2>1, <2>3
  <2> QED
    BY <1>1, <2>2, <2>4
<1>7. SeenWalk(p, events)
  <2>1. p \in [0..n -> V] /\ p[0] = b /\ \A k \in 1..n : p[k] = step[k][p[k - 1]]
    BY <1>4 DEF Unfolds
  <2>2. \A k \in 1..n : k - 1 \in 0..n
    OBVIOUS
  <2>3. \A k \in 1..n : p[k] = Put(p[k - 1], events[k])
    BY <1>2, <2>1, <2>2
  <2> QED
    BY <1>1, <2>1, <2>3 DEF SeenWalk
<1>8. it[1..n] = p[n]
  <2>1. it[{}] = b
    BY <1>6
  <2>2. ASSUME NEW k \in 1..n  PROVE it[1..k] = Put(it[1..(k - 1)], events[k])
    <3>1. Max(1..k) = k /\ (1..k) \ {k} = 1..(k - 1) /\ 1..k # {}
      BY LastOfSegment
    <3>2. 1..k \in SUBSET (1..n)
      OBVIOUS
    <3> QED
      BY <1>6, <3>1, <3>2
  <2>3. it[{}] = p[0] /\ \A k \in 1..n : it[1..(k - 1)] = p[k - 1] => it[1..k] = p[k]
    BY <1>1, <1>7, <2>1, <2>2 DEF SeenWalk
  <2> QED
    BY <2>3, SameWalk
<1> QED
  BY <1>6, <1>7, <1>8

LEMMA SeenIs ==
  ASSUME NEW events, NEW n \in Nat, n = Len(events), DOMAIN events = 1..n,
         \A k \in 1..n, v \in Seen : Put(v, events[k]) \in Seen,
         NEW q, SeenWalk(q, events)
  PROVE  PutTogether(events) = q[n]
<1>1. PICK p : SeenWalk(p, events) /\ PutTogether(events) = p[n]
  BY SeenSteps
<1>2. StepAlike(p, q, n)
  BY <1>1 DEF SeenWalk, StepAlike
<1>3. q[n] = p[n]
  BY <1>2, SameSteps
<1> QED
  BY <1>1, <1>3

(* p[k] is the calls after the first k fragments. *)
CallWalk(p, calls, ds) ==
  /\ p \in [0..Len(ds) -> FragmentSeqs]
  /\ p[0] = calls
  /\ \A k \in 1..Len(ds) : p[k] = AddCall(p[k - 1], ds[k])

LEMMA CallSteps ==
  ASSUME NEW ds, NEW n \in Nat, n = Len(ds), DOMAIN ds = 1..n, NEW calls \in FragmentSeqs,
         \A k \in 1..n, v \in FragmentSeqs : AddCall(v, ds[k]) \in FragmentSeqs
  PROVE  \E p : CallWalk(p, calls, ds) /\ AddCalls(calls, ds) = p[n]
<1>1. PICK V, b : V = FragmentSeqs /\ b = calls
  OBVIOUS
<1>2. PICK step : step = [k \in 1..n |-> [v \in V |-> AddCall(v, ds[k])]]
  OBVIOUS
<1>3. Foldable(V, b, n, step)
  <2>1. step \in [1..n -> [V -> V]]
    BY <1>1, <1>2
  <2>2. b \in V
    BY <1>1
  <2> QED
    BY <2>1, <2>2 DEF Foldable
<1>4. PICK g, p : FoldedBy(g, V, b, n, step) /\ Unfolds(p, V, b, n, step)
  BY <1>3, FoldWalks
<1>5. \E h : h = [s \in SUBSET (1..n) |->
                    IF s = {} THEN b ELSE AddCall(h[s \ {Max(s)}], ds[Max(s)])]
  <2>1. PICK h : h = [s \in SUBSET (1..n) |-> g[s]]
    OBVIOUS
  <2>2. ASSUME NEW s \in SUBSET (1..n), s # {}
        PROVE  g[s] = AddCall(g[s \ {Max(s)}], ds[Max(s)])
    <3>1. PICK m : m = Max(s)
      OBVIOUS
    <3>2. m \in s
      <4>1. s \in SUBSET (0..n)
        OBVIOUS
      <4> QED
        BY <2>2, <3>1, <4>1, MaxIsGreatest
    <3>3. m \in 1..n /\ s \ {m} \in SUBSET (1..n)
      BY <3>2
    <3>4. g[s \ {m}] \in V /\ g[s] = step[m][g[s \ {m}]]
      BY <1>4, <2>2, <3>1, <3>3 DEF FoldedBy
    <3> QED
      BY <1>2, <3>1, <3>3, <3>4
  <2>3. ASSUME NEW s \in SUBSET (1..n)
        PROVE  h[s] = IF s = {} THEN b ELSE AddCall(h[s \ {Max(s)}], ds[Max(s)])
    <3>1. h[s \ {Max(s)}] = g[s \ {Max(s)}] /\ h[s] = g[s]
      BY <2>1
    <3>2. g[{}] = b
      BY <1>4 DEF FoldedBy
    <3>3. CASE s = {}
      BY <3>1, <3>2, <3>3
    <3>4. CASE s # {}
      BY <2>2, <3>1, <3>4
    <3> QED
      BY <3>3, <3>4
  <2>4. h = [s \in SUBSET (1..n) |-> IF s = {} THEN b ELSE AddCall(h[s \ {Max(s)}], ds[Max(s)])]
    BY <2>1, <2>3
  <2> QED
    BY <2>4
<1>6. PICK it : /\ it = [s \in SUBSET (1..n) |->
                          IF s = {} THEN b ELSE AddCall(it[s \ {Max(s)}], ds[Max(s)])]
                /\ AddCalls(calls, ds) = it[1..n]
  <2>1. PICK it : it = CHOOSE h : h = [s \in SUBSET DOMAIN ds |->
                          IF s = {} THEN calls ELSE AddCall(h[s \ {Max(s)}], ds[Max(s)])]
    OBVIOUS
  <2>2. AddCalls(calls, ds) = it[DOMAIN ds]
    BY <2>1 DEF AddCalls, FoldLeft, MapThenFoldSet
  <2>3. \E h : h = [s \in SUBSET DOMAIN ds |->
                      IF s = {} THEN calls ELSE AddCall(h[s \ {Max(s)}], ds[Max(s)])]
    BY <1>1, <1>5
  <2>4. it = [s \in SUBSET DOMAIN ds |->
                IF s = {} THEN calls ELSE AddCall(it[s \ {Max(s)}], ds[Max(s)])]
    BY <2>1, <2>3
  <2> QED
    BY <1>1, <2>2, <2>4
<1>7. CallWalk(p, calls, ds)
  <2>1. p \in [0..n -> V] /\ p[0] = b /\ \A k \in 1..n : p[k] = step[k][p[k - 1]]
    BY <1>4 DEF Unfolds
  <2>2. \A k \in 1..n : k - 1 \in 0..n
    OBVIOUS
  <2>3. \A k \in 1..n : p[k] = AddCall(p[k - 1], ds[k])
    BY <1>2, <2>1, <2>2
  <2> QED
    BY <1>1, <2>1, <2>3 DEF CallWalk
<1>8. it[1..n] = p[n]
  <2>1. it[{}] = b
    BY <1>6
  <2>2. ASSUME NEW k \in 1..n  PROVE it[1..k] = AddCall(it[1..(k - 1)], ds[k])
    <3>1. Max(1..k) = k /\ (1..k) \ {k} = 1..(k - 1) /\ 1..k # {}
      BY LastOfSegment
    <3>2. 1..k \in SUBSET (1..n)
      OBVIOUS
    <3> QED
      BY <1>6, <3>1, <3>2
  <2>3. it[{}] = p[0] /\ \A k \in 1..n : it[1..(k - 1)] = p[k - 1] => it[1..k] = p[k]
    BY <1>1, <1>7, <2>1, <2>2 DEF CallWalk
  <2> QED
    BY <2>3, SameWalk
<1> QED
  BY <1>6, <1>7, <1>8

LEMMA CallIs ==
  ASSUME NEW ds, NEW n \in Nat, n = Len(ds), DOMAIN ds = 1..n, NEW calls \in FragmentSeqs,
         \A k \in 1..n, v \in FragmentSeqs : AddCall(v, ds[k]) \in FragmentSeqs,
         NEW q, CallWalk(q, calls, ds)
  PROVE  AddCalls(calls, ds) = q[n]
<1>1. PICK p : CallWalk(p, calls, ds) /\ AddCalls(calls, ds) = p[n]
  BY CallSteps
<1>2. StepAlike(p, q, n)
  BY <1>1 DEF CallWalk, StepAlike
<1>3. q[n] = p[n]
  BY <1>2, SameSteps
<1> QED
  BY <1>1, <1>3

-----------------------------------------------------------------------------
(* One more item.                                                          *)

LEMMA FrameTyped ==
  ASSUME NEW frame \in Frames
  PROVE  /\ frame.text \in WholeTexts /\ frame.text \in Seq(Bytes)
         /\ frame.calls \in FragmentSeqs
         /\ frame.stop \in {"none", "stop", "max_tokens", "function_call", "error"}
         /\ frame.usage \in {"none", "zero", "counts"}
BY FrameAssumption, Zenon DEF WholeTexts, FragmentSeqs

LEMMA TextGrows ==
  ASSUME NEW frame \in Frames, NEW text \in Seq(Bytes)
  PROVE  AddText(text, frame) \in Seq(Bytes)
BY FrameTyped, ConcatProperties DEF AddText

(* The texts of the first frames. *)
LEMMA TextWalks ==
  ASSUME NEW frames \in Seq(Frames)
  PROVE  /\ \E p : TextWalk(p, frames) /\ AllText(frames) = p[Len(frames)]
         /\ \A p : TextWalk(p, frames) => AllText(frames) = p[Len(frames)]
<1>1. PICK n : n = Len(frames)
  OBVIOUS
<1>2. n \in Nat /\ DOMAIN frames = 1..n /\ \A k \in 1..n : frames[k] \in Frames
  BY <1>1, SeqFacts
<1>3. \A k \in 1..n, v \in Seq(Bytes) : AddText(v, frames[k]) \in Seq(Bytes)
  BY <1>2, TextGrows
<1>4. \E p : TextWalk(p, frames) /\ AllText(frames) = p[n]
  BY <1>1, <1>2, <1>3, TextSteps
<1>5. \A p : TextWalk(p, frames) => AllText(frames) = p[n]
  BY <1>1, <1>2, <1>3, TextIs
<1> QED
  BY <1>1, <1>4, <1>5

LEMMA AddCallTyped ==
  ASSUME NEW calls \in FragmentSeqs, NEW d \in Fragments
  PROVE  /\ AddCall(calls, d) \in FragmentSeqs
         /\ Opens(calls, d) => Len(AddCall(calls, d)) = Len(calls) + 1
         /\ ~Opens(calls, d) => calls # <<>> /\ Len(AddCall(calls, d)) = Len(calls)
<1>1. CASE Opens(calls, d)
  <2>1. AddCall(calls, d) = Append(calls, d)
    BY <1>1 DEF AddCall
  <2> QED
    BY <1>1, <2>1, AppendProperties DEF FragmentSeqs
<1>2. CASE ~Opens(calls, d)
  <2>1. PICK n : n = Len(calls)
    OBVIOUS
  <2>2. n \in Nat /\ DOMAIN calls = 1..n /\ \A k \in 1..n : calls[k] \in Fragments
    BY <2>1, SeqFacts DEF FragmentSeqs
  <2>3. calls # <<>> /\ n \in 1..n
    <3>1. calls # <<>>
      BY <1>2, Zenon DEF Opens
    <3>2. n # 0
      BY <2>1, <3>1, EmptySeq DEF FragmentSeqs
    <3> QED
      BY <2>2, <3>1, <3>2
  <2>4. PICK c : c = [calls[n] EXCEPT !.name = IF @ = "" THEN d.name ELSE @, !.args = @ \o d.args]
    OBVIOUS
  <2>5. c \in Fragments
    <3>1. calls[n].args \o d.args \in Seq(Bytes)
      BY <2>2, <2>3, ConcatProperties DEF Fragments
    <3> QED
      BY <2>2, <2>3, <2>4, <3>1 DEF Fragments
  <2>6. AddCall(calls, d) = [calls EXCEPT ![n] = c]
    <3>1. AddCall(calls, d) = [calls EXCEPT ![n].name = IF @ = "" THEN d.name ELSE @,
                                            ![n].args = @ \o d.args]
      BY <1>2, <2>1 DEF AddCall
    <3> QED
      BY <2>2, <2>3, <2>4, <3>1, Zenon DEF Fragments
  <2> QED
    BY <1>2, <2>1, <2>3, <2>5, <2>6, ExceptSeq DEF FragmentSeqs
<1> QED
  BY <1>1, <1>2

(* Reading fragments one after the other. *)
LEMMA AddCallsStep ==
  ASSUME NEW calls \in FragmentSeqs, NEW ds \in FragmentSeqs
  PROVE  /\ AddCalls(calls, ds) \in FragmentSeqs
         /\ AddCalls(calls, <<>>) = calls
         /\ \A d \in Fragments : AddCalls(calls, Append(ds, d)) = AddCall(AddCalls(calls, ds), d)
<1>1. PICK n : n = Len(ds)
  OBVIOUS
<1>2. n \in Nat /\ DOMAIN ds = 1..n /\ \A k \in 1..n : ds[k] \in Fragments
  BY <1>1, SeqFacts DEF FragmentSeqs
<1>3. \A k \in 1..n, v \in FragmentSeqs : AddCall(v, ds[k]) \in FragmentSeqs
  BY <1>2, AddCallTyped
<1>4. PICK p : CallWalk(p, calls, ds) /\ AddCalls(calls, ds) = p[n]
  BY <1>1, <1>2, <1>3, CallSteps
<1>5. p[n] \in FragmentSeqs /\ p \in [0..n -> FragmentSeqs]
  BY <1>1, <1>2, <1>4 DEF CallWalk
<1>6. AddCalls(calls, <<>>) = calls
  <2>1. PICK none : none = <<>>
    OBVIOUS
  <2>2. Len(none) = 0 /\ DOMAIN none = 1..0
    BY <2>1
  <2>3. PICK q : CallWalk(q, calls, none) /\ AddCalls(calls, none) = q[0]
    BY <2>2, CallSteps
  <2> QED
    BY <2>1, <2>3 DEF CallWalk
<1>7. ASSUME NEW d \in Fragments
      PROVE  AddCalls(calls, Append(ds, d)) = AddCall(AddCalls(calls, ds), d)
  <2>1. PICK es : es = Append(ds, d)
    OBVIOUS
  <2>2. /\ Len(es) = n + 1 /\ DOMAIN es = 1..(n + 1) /\ es[n + 1] = d
        /\ \A k \in 1..n : es[k] = ds[k]
    <3>1. /\ es \in Seq(Fragments) /\ Len(es) = Len(ds) + 1
          /\ \A i \in 1..Len(ds) : es[i] = ds[i]
          /\ es[Len(ds) + 1] = d
      BY <2>1, AppendProperties DEF FragmentSeqs
    <3> QED
      BY <1>1, <3>1, SeqFacts
  <2>3. PICK q : q = [k \in 0..(n + 1) |-> IF k = n + 1 THEN AddCall(p[n], d) ELSE p[k]]
    OBVIOUS
  <2>4. \A k \in 1..(n + 1), v \in FragmentSeqs : AddCall(v, es[k]) \in FragmentSeqs
    <3>1. \A k \in 1..(n + 1) : es[k] \in Fragments
      BY <1>2, <2>2
    <3> QED
      BY <3>1, AddCallTyped
  <2>5. CallWalk(q, calls, es)
    <3>1. q \in [0..(n + 1) -> FragmentSeqs]
      BY <1>2, <1>5, <2>3, AddCallTyped
    <3>2. q[0] = calls
      BY <1>1, <1>2, <1>4, <2>3 DEF CallWalk
    <3>3. ASSUME NEW k \in 1..(n + 1)  PROVE q[k] = AddCall(q[k - 1], es[k])
      <4>1. CASE k = n + 1
        BY <1>2, <2>2, <2>3, <4>1
      <4>2. CASE k # n + 1
        <5>1. k \in 1..n /\ k - 1 \in 0..n
          BY <1>2, <4>2
        <5>2. p[k] = AddCall(p[k - 1], ds[k])
          BY <1>1, <1>4, <5>1 DEF CallWalk
        <5> QED
          BY <1>2, <2>2, <2>3, <5>1, <5>2
      <4> QED
        BY <4>1, <4>2
    <3> QED
      BY <2>2, <3>1, <3>2, <3>3 DEF CallWalk
  <2>6. AddCalls(calls, es) = q[n + 1]
    <3>1. n + 1 \in Nat
      BY <1>2
    <3> QED
      BY <2>2, <2>4, <2>5, <3>1, CallIs
  <2> QED
    BY <1>2, <1>4, <2>1, <2>3, <2>6
<1> QED
  BY <1>4, <1>5, <1>6, <1>7

(* The events of a stream. *)
TextEvents   == [kind : {"text"}, text : WholeTexts \ {<<>>}]
CallEventSet == [kind : {"call"}, index : Nat, id : Ids, name : Names, args : Seq(Bytes)]
LastWords    ==
  [kind : {"finish"}, why : Reasons] \cup [kind : {"usage"}, usage : {"none", "counts"}]
    \cup [kind : {"error"}, why : {"backend", "upstream", "timeout"}] \cup [kind : {"done"}]

Events == TextEvents \cup CallEventSet \cup LastWords

LEMMA PutCases ==
  ASSUME NEW seen, NEW e
  PROVE  /\ e.kind = "text" => Put(seen, e) = [seen EXCEPT !.text = @ \o e.text]
         /\ e.kind = "call" => Put(seen, e) = [seen EXCEPT !.calls = PutCall(@, e)]
         /\ e.kind = "finish" => Put(seen, e) = [seen EXCEPT !.why = e.why]
         /\ e.kind = "usage" => Put(seen, e) = [seen EXCEPT !.usage = e.usage]
         /\ e.kind \in {"error", "done"} => Put(seen, e) = seen
BY DEF Put

LEMMA PutCallTyped ==
  ASSUME NEW calls \in ClientCalls, NEW e \in CallEventSet
  PROVE  PutCall(calls, e) \in ClientCalls
<1> DEFINE S == [id : Ids, name : Names, args : Seq(Bytes)]
<1>0. DOMAIN calls = 1..Len(calls) /\ \A k \in DOMAIN calls : calls[k] \in S
  BY SeqFacts DEF ClientCalls
<1>1. CASE e.index \in DOMAIN calls
  <2>1. PICK c : c = [calls[e.index] EXCEPT !.args = @ \o e.args, !.name = IF @ = "" THEN e.name ELSE @]
    OBVIOUS
  <2>2. c \in S
    <3>1. calls[e.index].args \o e.args \in Seq(Bytes)
      BY <1>0, <1>1, ConcatProperties DEF CallEventSet
    <3> QED
      BY <1>0, <1>1, <2>1, <3>1 DEF CallEventSet
  <2>3. PutCall(calls, e) = [calls EXCEPT ![e.index] = c]
    <3>1. PutCall(calls, e) = [calls EXCEPT ![e.index].args = @ \o e.args,
                                            ![e.index].name = IF @ = "" THEN e.name ELSE @]
      BY <1>1 DEF PutCall
    <3> QED
      BY <1>0, <1>1, <2>1, <3>1, Zenon
  <2> QED
    BY <1>0, <1>1, <2>2, <2>3, ExceptSeq DEF ClientCalls
<1>2. CASE e.index \notin DOMAIN calls
  <2>1. PutCall(calls, e) = Append(calls, [id |-> e.id, name |-> e.name, args |-> e.args])
    BY <1>2 DEF PutCall
  <2>2. [id |-> e.id, name |-> e.name, args |-> e.args] \in S
    BY DEF CallEventSet
  <2> QED
    BY <2>1, <2>2, AppendProperties DEF ClientCalls
<1> QED
  BY <1>1, <1>2

LEMMA SeenChanges ==
  ASSUME NEW seen \in Seen
  PROVE  /\ \A t \in Seq(Bytes) : [seen EXCEPT !.text = t] \in Seen
         /\ \A c \in ClientCalls : [seen EXCEPT !.calls = c] \in Seen
         /\ \A w \in Reasons : [seen EXCEPT !.why = w] \in Seen
         /\ \A u \in {"none", "counts"} : [seen EXCEPT !.usage = u] \in Seen
         /\ seen.text \in Seq(Bytes) /\ seen.calls \in ClientCalls
BY DEF Seen

LEMMA PutTyped ==
  ASSUME NEW seen \in Seen, NEW e \in Events
  PROVE  Put(seen, e) \in Seen
<1>1. CASE e \in TextEvents
  <2>1. e.kind = "text" /\ e.text \in Seq(Bytes)
    BY <1>1 DEF TextEvents, WholeTexts
  <2>2. PICK t : t = seen.text \o e.text
    OBVIOUS
  <2>3. t \in Seq(Bytes)
    BY <2>1, <2>2, SeenChanges, ConcatProperties
  <2>4. Put(seen, e) = [seen EXCEPT !.text = t]
    BY <2>1, <2>2, PutCases
  <2> QED
    BY <2>3, <2>4, SeenChanges
<1>2. CASE e \in CallEventSet
  <2>1. e.kind = "call"
    BY <1>2 DEF CallEventSet
  <2>2. PICK c : c = PutCall(seen.calls, e)
    OBVIOUS
  <2>3. c \in ClientCalls
    BY <1>2, <2>2, SeenChanges, PutCallTyped
  <2>4. Put(seen, e) = [seen EXCEPT !.calls = c]
    BY <2>1, <2>2, PutCases
  <2> QED
    BY <2>3, <2>4, SeenChanges
<1>3. CASE e \in LastWords
  <2>1. CASE e \in [kind : {"finish"}, why : Reasons]
    <3>1. e.kind = "finish" /\ e.why \in Reasons
      BY <2>1
    <3>2. Put(seen, e) = [seen EXCEPT !.why = e.why]
      BY <3>1, PutCases
    <3> QED
      BY <3>1, <3>2, SeenChanges
  <2>2. CASE e \in [kind : {"usage"}, usage : {"none", "counts"}]
    <3>1. e.kind = "usage" /\ e.usage \in {"none", "counts"}
      BY <2>2
    <3>2. Put(seen, e) = [seen EXCEPT !.usage = e.usage]
      BY <3>1, PutCases
    <3> QED
      BY <3>1, <3>2, SeenChanges
  <2>3. CASE e.kind \in {"error", "done"}
    BY <2>3, PutCases
  <2> QED
    BY <1>3, <2>1, <2>2, <2>3 DEF LastWords
<1> QED
  BY <1>1, <1>2, <1>3 DEF Events

(* Reading events one after the other. *)
LEMMA SeenStep ==
  ASSUME NEW events \in Seq(Events)
  PROVE  /\ PutTogether(events) \in Seen
         /\ PutTogether(<<>>) = Nothing
         /\ \A e \in Events : PutTogether(Append(events, e)) = Put(PutTogether(events), e)
<1>1. PICK n : n = Len(events)
  OBVIOUS
<1>2. n \in Nat /\ DOMAIN events = 1..n /\ \A k \in 1..n : events[k] \in Events
  BY <1>1, SeqFacts
<1>3. \A k \in 1..n, v \in Seen : Put(v, events[k]) \in Seen
  BY <1>2, PutTyped
<1>4. PICK p : SeenWalk(p, events) /\ PutTogether(events) = p[n]
  BY <1>1, <1>2, <1>3, SeenSteps
<1>5. p[n] \in Seen /\ p \in [0..n -> Seen]
  BY <1>1, <1>2, <1>4 DEF SeenWalk
<1>6. PutTogether(<<>>) = Nothing
  <2>1. PICK none : none = <<>>
    OBVIOUS
  <2>2. Len(none) = 0 /\ DOMAIN none = 1..0
    BY <2>1
  <2>3. PICK q : SeenWalk(q, none) /\ PutTogether(none) = q[0]
    BY <2>2, SeenSteps
  <2> QED
    BY <2>1, <2>3 DEF SeenWalk
<1>7. ASSUME NEW e \in Events
      PROVE  PutTogether(Append(events, e)) = Put(PutTogether(events), e)
  <2>1. PICK more : more = Append(events, e)
    OBVIOUS
  <2>2. /\ Len(more) = n + 1 /\ DOMAIN more = 1..(n + 1) /\ more[n + 1] = e
        /\ \A k \in 1..n : more[k] = events[k]
    <3>1. /\ more \in Seq(Events) /\ Len(more) = Len(events) + 1
          /\ \A i \in 1..Len(events) : more[i] = events[i]
          /\ more[Len(events) + 1] = e
      BY <2>1, AppendProperties
    <3> QED
      BY <1>1, <3>1, SeqFacts
  <2>3. PICK q : q = [k \in 0..(n + 1) |-> IF k = n + 1 THEN Put(p[n], e) ELSE p[k]]
    OBVIOUS
  <2>4. \A k \in 1..(n + 1), v \in Seen : Put(v, more[k]) \in Seen
    <3>1. \A k \in 1..(n + 1) : more[k] \in Events
      BY <1>2, <2>2
    <3> QED
      BY <3>1, PutTyped
  <2>5. SeenWalk(q, more)
    <3>1. q \in [0..(n + 1) -> Seen]
      BY <1>2, <1>5, <2>3, PutTyped
    <3>2. q[0] = Nothing
      BY <1>1, <1>2, <1>4, <2>3 DEF SeenWalk
    <3>3. ASSUME NEW k \in 1..(n + 1)  PROVE q[k] = Put(q[k - 1], more[k])
      <4>1. CASE k = n + 1
        BY <1>2, <2>2, <2>3, <4>1
      <4>2. CASE k # n + 1
        <5>1. k \in 1..n /\ k - 1 \in 0..n
          BY <1>2, <4>2
        <5>2. p[k] = Put(p[k - 1], events[k])
          BY <1>1, <1>4, <5>1 DEF SeenWalk
        <5> QED
          BY <1>2, <2>2, <2>3, <5>1, <5>2
      <4> QED
        BY <4>1, <4>2
    <3> QED
      BY <2>2, <3>1, <3>2, <3>3 DEF SeenWalk
  <2>6. PutTogether(more) = q[n + 1]
    <3>1. n + 1 \in Nat
      BY <1>2
    <3> QED
      BY <2>2, <2>4, <2>5, <3>1, SeenIs
  <2> QED
    BY <1>2, <1>4, <2>1, <2>3, <2>6
<1> QED
  BY <1>4, <1>5, <1>6, <1>7

-----------------------------------------------------------------------------
(* Tool calls as a client of a stream puts them together.                  *)

Presented(calls) == [i \in DOMAIN calls |-> [calls[i] EXCEPT !.id = IdOf(calls[i])]]

EventOf(calls, d) ==
  [kind |-> "call", index |-> Len(AddCall(calls, d)),
   id   |-> IF Opens(calls, d) THEN IdOf(d) ELSE "", name |-> d.name, args |-> d.args]

LEMMA IdTyped ==
  ASSUME NEW d \in Fragments
  PROVE  IdOf(d) \in Ids /\ [d EXCEPT !.id = IdOf(d)] = [id |-> IdOf(d), name |-> d.name, args |-> d.args]
<1>1. d.id \in Names /\ \A x : [d EXCEPT !.id = x] = [id |-> x, name |-> d.name, args |-> d.args]
  BY DEF Fragments
<1>2. IdOf(d) \in Ids
  BY <1>1, Zenon DEF IdOf, Ids
<1> QED
  BY <1>1, <1>2

LEMMA PresentedTyped ==
  ASSUME NEW calls \in FragmentSeqs
  PROVE  /\ Presented(calls) \in ClientCalls
         /\ Len(Presented(calls)) = Len(calls)
         /\ DOMAIN Presented(calls) = 1..Len(calls)
         /\ \A k \in 1..Len(calls) :
              /\ Presented(calls)[k] = [id |-> IdOf(calls[k]), name |-> calls[k].name, args |-> calls[k].args]
              /\ calls[k] \in Fragments
<1>1. Len(calls) \in Nat /\ DOMAIN calls = 1..Len(calls) /\ \A k \in 1..Len(calls) : calls[k] \in Fragments
  BY SeqFacts DEF FragmentSeqs
<1>2. PICK n, p : n = Len(calls) /\ p = Presented(calls)
  OBVIOUS
<1>3. p = [k \in 1..n |-> [calls[k] EXCEPT !.id = IdOf(calls[k])]]
  BY <1>1, <1>2 DEF Presented
<1>4. \A k \in 1..n : p[k] = [id |-> IdOf(calls[k]), name |-> calls[k].name, args |-> calls[k].args]
  BY <1>1, <1>2, <1>3, IdTyped
<1>5. \A k \in 1..n : p[k] \in [id : Ids, name : Names, args : Seq(Bytes)]
  <2> SUFFICES ASSUME NEW k \in 1..n
               PROVE  p[k] \in [id : Ids, name : Names, args : Seq(Bytes)]
    OBVIOUS
  <2>1. calls[k] \in Fragments
    BY <1>1, <1>2
  <2>2. IdOf(calls[k]) \in Ids /\ calls[k].name \in Names /\ calls[k].args \in Seq(Bytes)
    BY <2>1, IdTyped DEF Fragments
  <2>3. p[k] = [id |-> IdOf(calls[k]), name |-> calls[k].name, args |-> calls[k].args]
    BY <1>4
  <2> QED
    BY <2>2, <2>3
<1>6. p \in ClientCalls /\ Len(p) = n /\ DOMAIN p = 1..n
  BY <1>1, <1>2, <1>3, <1>5 DEF ClientCalls
<1> QED
  BY <1>1, <1>2, <1>4, <1>6

LEMMA EventTyped ==
  ASSUME NEW calls \in FragmentSeqs, NEW d \in Fragments
  PROVE  EventOf(calls, d) \in CallEventSet
<1>1. Len(AddCall(calls, d)) \in Nat
  BY AddCallTyped, SeqFacts DEF FragmentSeqs
<1>2. IdOf(d) \in Ids /\ "" \in Ids /\ d.name \in Names /\ d.args \in Seq(Bytes)
  BY IdTyped, FrameAssumption, Zenon DEF Ids, Fragments
<1> QED
  BY <1>1, <1>2, Zenon DEF EventOf, CallEventSet

(* The event of a fragment does to the client's calls what the fragment    *)
(* does to the handler's.                                                  *)
LEMMA PutCallFollows ==
  ASSUME NEW calls \in FragmentSeqs, NEW d \in Fragments
  PROVE  PutCall(Presented(calls), EventOf(calls, d)) = Presented(AddCall(calls, d))
<1>1. PICK n, p, e, more, after :
        /\ n = Len(calls) /\ p = Presented(calls) /\ e = EventOf(calls, d)
        /\ more = AddCall(calls, d) /\ after = Presented(more)
  OBVIOUS
<1>2. /\ n \in Nat /\ DOMAIN calls = 1..n
      /\ p \in ClientCalls /\ Len(p) = n /\ DOMAIN p = 1..n
      /\ \A k \in 1..n :
           /\ p[k] = [id |-> IdOf(calls[k]), name |-> calls[k].name, args |-> calls[k].args]
           /\ calls[k] \in Fragments
  BY <1>1, PresentedTyped, SeqFacts DEF FragmentSeqs
<1>3. more \in FragmentSeqs
  BY <1>1, AddCallTyped
<1>4. /\ after \in ClientCalls /\ Len(after) = Len(more) /\ Len(more) \in Nat
      /\ \A k \in 1..Len(more) :
           /\ after[k] = [id |-> IdOf(more[k]), name |-> more[k].name, args |-> more[k].args]
           /\ more[k] \in Fragments
  BY <1>1, <1>3, PresentedTyped, SeqFacts DEF FragmentSeqs
<1>5. /\ e.index = Len(more) /\ e.name = d.name /\ e.args = d.args
      /\ e.id = IF Opens(calls, d) THEN IdOf(d) ELSE ""
  BY <1>1, Zenon DEF EventOf
<1>6. CASE Opens(calls, d)
  <2>1. more = Append(calls, d) /\ Len(more) = n + 1
    BY <1>1, <1>6, AddCallTyped, Zenon DEF AddCall
  <2>2. e.index \notin DOMAIN p
    <3>1. e.index = n + 1 /\ n \in Nat /\ DOMAIN p = 1..n
      BY <1>2, <1>5, <2>1, Zenon
    <3> QED
      BY <3>1
  <2>3. PICK c : c = [id |-> e.id, name |-> e.name, args |-> e.args]
    OBVIOUS
  <2>4. PutCall(p, e) = Append(p, c)
    BY <2>2, <2>3 DEF PutCall
  <2>5. c = [id |-> IdOf(d), name |-> d.name, args |-> d.args] /\ c \in [id : Ids, name : Names, args : Seq(Bytes)]
    <3>1. d.name \in Names /\ d.args \in Seq(Bytes)
      BY DEF Fragments
    <3> QED
      BY <1>5, <1>6, <2>3, <3>1, IdTyped
  <2>6. PICK q : q = Append(p, c)
    OBVIOUS
  <2>7. q \in ClientCalls /\ Len(q) = n + 1 /\ q[n + 1] = c /\ \A k \in 1..n : q[k] = p[k]
    BY <1>2, <2>5, <2>6, AppendProperties DEF ClientCalls
  <2>8. more[n + 1] = d /\ \A k \in 1..n : more[k] = calls[k]
    BY <1>1, <2>1, AppendProperties DEF FragmentSeqs
  <2>9. ASSUME NEW k \in 1..(n + 1)  PROVE q[k] = after[k]
    <3>1. CASE k = n + 1
      BY <1>2, <1>4, <2>1, <2>5, <2>7, <2>8, <3>1
    <3>2. CASE k # n + 1
      <4>1. k \in 1..n
        BY <1>2, <3>2
      <4> QED
        BY <1>2, <1>4, <2>1, <2>7, <2>8, <4>1
    <3> QED
      BY <3>1, <3>2
  <2>10. q = after
    BY <1>4, <2>1, <2>7, <2>9, SeqEqual DEF ClientCalls
  <2> QED
    BY <1>1, <2>4, <2>6, <2>10
<1>7. CASE ~Opens(calls, d)
  <2>1. Len(more) = n /\ calls # <<>>
    BY <1>1, <1>7, AddCallTyped
  <2>2. n \in 1..n
    <3>1. n # 0
      BY <1>1, <2>1, EmptySeq DEF FragmentSeqs
    <3> QED
      BY <1>2, <3>1
  <2>3. PICK c : c = [id |-> p[n].id, name |-> IF p[n].name = "" THEN d.name ELSE p[n].name,
                      args |-> p[n].args \o d.args]
    BY Zenon
  <2>4. c \in [id : Ids, name : Names, args : Seq(Bytes)]
    <3>1. p[n].id \in Ids /\ p[n].name \in Names /\ p[n].args \in Seq(Bytes)
      <4>1. p[n] \in [id : Ids, name : Names, args : Seq(Bytes)]
        BY <1>2, <2>2, ElementOfSeq DEF ClientCalls
      <4> QED
        BY <4>1
    <3>2. d.name \in Names /\ d.args \in Seq(Bytes)
      BY DEF Fragments
    <3>3. p[n].args \o d.args \in Seq(Bytes)
      BY <3>1, <3>2, ConcatProperties
    <3> QED
      BY <2>3, <3>1, <3>2, <3>3, Zenon
  <2>5. PutCall(p, e) = [p EXCEPT ![n] = c]
    <3>1. PutCall(p, e) = [p EXCEPT ![n].args = @ \o d.args, ![n].name = IF @ = "" THEN d.name ELSE @]
      BY <1>2, <1>5, <2>1, <2>2, Zenon DEF PutCall
    <3> QED
      BY <1>2, <2>2, <2>3, <3>1, Zenon
  <2>6. PICK q : q = [p EXCEPT ![n] = c]
    OBVIOUS
  <2>7. q \in ClientCalls /\ Len(q) = n /\ q[n] = c /\ \A k \in 1..n : k # n => q[k] = p[k]
    BY <1>2, <2>2, <2>4, <2>6, ExceptSeq DEF ClientCalls
  <2>8. /\ more[n].id = calls[n].id
        /\ more[n].name = IF calls[n].name = "" THEN d.name ELSE calls[n].name
        /\ more[n].args = calls[n].args \o d.args
        /\ \A k \in 1..n : k # n => more[k] = calls[k]
    <3>1. more = [calls EXCEPT ![n].name = IF @ = "" THEN d.name ELSE @, ![n].args = @ \o d.args]
      BY <1>1, <1>7, Zenon DEF AddCall
    <3> QED
      BY <1>2, <2>2, <3>1, Zenon DEF Fragments
  <2>9. IdOf(more[n]) = IdOf(calls[n])
    <3>1. more[n].id = calls[n].id
      BY <2>8, Zenon
    <3> QED
      BY <3>1 DEF IdOf
  <2>10. ASSUME NEW k \in 1..n  PROVE q[k] = after[k]
    <3>1. CASE k = n
      <4>1. after[n] = [id |-> IdOf(more[n]), name |-> more[n].name, args |-> more[n].args]
        BY <1>4, <2>1, <2>2
      <4>2. p[n] = [id |-> IdOf(calls[n]), name |-> calls[n].name, args |-> calls[n].args]
        BY <1>2, <2>2
      <4>3. p[n].id = IdOf(calls[n]) /\ p[n].name = calls[n].name /\ p[n].args = calls[n].args
        BY <4>2
      <4>4. more[n].name = (IF calls[n].name = "" THEN d.name ELSE calls[n].name)
            /\ more[n].args = calls[n].args \o d.args
        BY <2>8, Zenon
      <4>5. c = after[n]
        BY <2>3, <2>9, <4>1, <4>3, <4>4, Zenon
      <4> QED
        BY <2>7, <3>1, <4>5
    <3>2. CASE k # n
      BY <1>2, <1>4, <2>1, <2>7, <2>8, <3>2, Zenon
    <3> QED
      BY <3>1, <3>2
  <2>11. q = after
    BY <1>4, <2>1, <2>7, <2>10, SeqEqual DEF ClientCalls
  <2> QED
    BY <1>1, <2>5, <2>6, <2>11
<1> QED
  BY <1>6, <1>7

LEMMA CallEventIs ==
  ASSUME NEW calls \in FragmentSeqs, NEW ds \in FragmentSeqs
  PROVE  /\ CallEvents(calls, ds) \in Seq(CallEventSet)
         /\ Len(CallEvents(calls, ds)) = Len(ds)
         /\ \A i \in 1..Len(ds) :
              /\ SubSeq(ds, 1, i - 1) \in FragmentSeqs /\ ds[i] \in Fragments
              /\ AddCalls(calls, SubSeq(ds, 1, i - 1)) \in FragmentSeqs
              /\ CallEvents(calls, ds)[i] = EventOf(AddCalls(calls, SubSeq(ds, 1, i - 1)), ds[i])
<1>1. PICK n, events : n = Len(ds) /\ events = CallEvents(calls, ds)
  OBVIOUS
<1>2. n \in Nat /\ \A k \in 1..n : ds[k] \in Fragments
  BY <1>1, SeqFacts DEF FragmentSeqs
<1>3. ASSUME NEW i \in 1..n
      PROVE  /\ SubSeq(ds, 1, i - 1) \in FragmentSeqs
             /\ AddCalls(calls, SubSeq(ds, 1, i - 1)) \in FragmentSeqs
             /\ events[i] = EventOf(AddCalls(calls, SubSeq(ds, 1, i - 1)), ds[i])
             /\ events[i] \in CallEventSet
  <2>1. SubSeq(ds, 1, i - 1) \in FragmentSeqs
    <3>1. \A k \in 1..(i - 1) : ds[k] \in Fragments
      BY <1>2
    <3> QED
      BY <1>2, <3>1, SubSeqProperties DEF FragmentSeqs
  <2>2. AddCalls(calls, SubSeq(ds, 1, i - 1)) \in FragmentSeqs
    BY <2>1, AddCallsStep
  <2>3. events[i] = EventOf(AddCalls(calls, SubSeq(ds, 1, i - 1)), ds[i])
    BY <1>1, Zenon DEF CallEvents, EventOf
  <2> QED
    BY <1>2, <2>1, <2>2, <2>3, EventTyped
<1>4. events \in Seq(CallEventSet) /\ Len(events) = n
  <2>1. DOMAIN events = 1..n /\ events \in [1..n -> CallEventSet]
    BY <1>1, <1>3, Zenon DEF CallEvents
  <2> QED
    BY <1>2, <2>1
<1> QED
  BY <1>1, <1>2, <1>3, <1>4

LEMMA AppendOfConcat ==
  ASSUME NEW S, NEW s \in Seq(S), NEW t \in Seq(S), NEW e \in S
  PROVE  s \o Append(t, e) = Append(s \o t, e) /\ s \o <<e>> = Append(s, e)
<1>1. Append(t, e) = t \o <<e>> /\ Append(s, e) = s \o <<e>>
  BY AppendIsConcat
<1>2. s \o t \in Seq(S) /\ <<e>> \in Seq(S)
  BY ConcatProperties
<1>3. Append(s \o t, e) = (s \o t) \o <<e>>
  BY <1>2, AppendIsConcat
<1>4. (s \o t) \o <<e>> = s \o (t \o <<e>>)
  <2>1. \A a, b, c \in Seq(S) : (a \o b) \o c = a \o (b \o c)
    BY ConcatAssociative
  <2> QED
    BY <1>2, <2>1, Zenon
<1> QED
  BY <1>1, <1>3, <1>4

LEMMA EventKinds ==
  /\ TextEvents \subseteq Events /\ CallEventSet \subseteq Events /\ LastWords \subseteq Events
  /\ Seq(CallEventSet) \subseteq Seq(Events)
<1>1. CallEventSet \subseteq Events
  BY DEF Events
<1> QED
  BY <1>1, SeqMonotonic DEF Events

(* What a client has seen of an answer in the making. *)
Look(text, calls) ==
  [kind |-> "answer", text |-> text, why |-> "", usage |-> "none", calls |-> Presented(calls)]

(* The events of a frame's fragments, one after the other. *)
LEMMA CallsSeen ==
  ASSUME NEW out \in Seq(Events), NEW text \in Seq(Bytes), NEW calls \in FragmentSeqs, NEW ds \in FragmentSeqs,
         PutTogether(out) = Look(text, calls)
  PROVE  /\ out \o CallEvents(calls, ds) \in Seq(Events)
         /\ PutTogether(out \o CallEvents(calls, ds)) = Look(text, AddCalls(calls, ds))
<1>1. PICK n, events : n = Len(ds) /\ events = CallEvents(calls, ds)
  OBVIOUS
<1>2. events \in Seq(Events) /\ Len(events) = n /\ n \in Nat /\ ds \in Seq(Fragments)
  BY <1>1, CallEventIs, EventKinds, SeqFacts DEF FragmentSeqs
<1>3. ASSUME NEW k \in 0..n  PROVE SubSeq(ds, 1, k) \in FragmentSeqs /\ SubSeq(events, 1, k) \in Seq(Events)
  <2>1. \A i \in 1..k : ds[i] \in Fragments /\ events[i] \in Events
    BY <1>1, <1>2, SeqFacts
  <2> QED
    BY <1>2, <2>1, SubSeqProperties DEF FragmentSeqs
<1>4. PICK seen : seen = {k \in 0..n : PutTogether(out \o SubSeq(events, 1, k))
                                         = Look(text, AddCalls(calls, SubSeq(ds, 1, k)))}
  OBVIOUS
<1>5. 0 \in seen
  <2>1. SubSeq(ds, 1, 0) = <<>> /\ SubSeq(events, 1, 0) = <<>>
    BY SubSeqEmpty
  <2>2. out \o <<>> = out
    BY ConcatEmptySeq
  <2>3. AddCalls(calls, <<>>) = calls
    BY AddCallsStep
  <2>4. PutTogether(out \o SubSeq(events, 1, 0)) = Look(text, AddCalls(calls, SubSeq(ds, 1, 0)))
    BY <2>1, <2>2, <2>3
  <2> QED
    BY <1>2, <1>4, <2>4
<1>6. ASSUME NEW k \in 0..(n - 1), k \in seen  PROVE k + 1 \in seen
  <2>1. k \in 0..n /\ k + 1 \in 1..n /\ k + 1 \in 0..n /\ (k + 1) - 1 = k
    BY <1>2
  <2>2. PICK a, b, d, e, before :
          /\ a = SubSeq(events, 1, k) /\ b = SubSeq(ds, 1, k) /\ d = ds[k + 1] /\ e = events[k + 1]
          /\ before = AddCalls(calls, b)
    OBVIOUS
  <2>3. a \in Seq(Events) /\ b \in FragmentSeqs /\ b \in Seq(Fragments)
    BY <1>3, <2>1, <2>2 DEF FragmentSeqs
  <2>4. d \in Fragments /\ before \in FragmentSeqs /\ e = EventOf(before, d)
    BY <1>1, <2>1, <2>2, CallEventIs
  <2>5. e \in CallEventSet /\ e \in Events /\ e.kind = "call"
    BY <2>4, EventTyped, EventKinds DEF CallEventSet
  <2>6. SubSeq(ds, 1, k + 1) = Append(b, d)
    <3>1. SubSeq(ds, 1, k + 1) = SubSeq(ds, 1, (k + 1) - 1) \o <<ds[k + 1]>>
      BY <1>1, <1>2, <2>1, SubSeqRecursiveSecond
    <3> QED
      BY <2>1, <2>2, <2>3, <2>4, <3>1, AppendIsConcat
  <2>7. SubSeq(events, 1, k + 1) = Append(a, e)
    <3>1. SubSeq(events, 1, k + 1) = SubSeq(events, 1, (k + 1) - 1) \o <<events[k + 1]>>
      BY <1>1, <1>2, <2>1, SubSeqRecursiveSecond
    <3> QED
      BY <2>1, <2>2, <2>3, <2>5, <3>1, AppendIsConcat
  <2>8. AddCalls(calls, Append(b, d)) = AddCall(before, d)
    BY <2>2, <2>3, <2>4, AddCallsStep
  <2>9. out \o Append(a, e) = Append(out \o a, e) /\ out \o a \in Seq(Events)
    BY <2>3, <2>5, ConcatProperties, AppendOfConcat
  <2>10. PutTogether(out \o a) = Look(text, before)
    BY <1>6, <1>4, <2>2
  <2>11. PutTogether(Append(out \o a, e)) = Put(Look(text, before), e)
    BY <2>5, <2>9, <2>10, SeenStep
  <2>12. Put(Look(text, before), e) = Look(text, AddCall(before, d))
    <3>1. PICK seen0 : seen0 = Look(text, before)
      OBVIOUS
    <3>2. Put(seen0, e) = [seen0 EXCEPT !.calls = PutCall(seen0.calls, e)]
      BY <2>5, PutCases
    <3>3. seen0.calls = Presented(before)
      BY <3>1, Zenon DEF Look
    <3>4. PutCall(Presented(before), e) = Presented(AddCall(before, d))
      BY <2>4, PutCallFollows
    <3> QED
      BY <3>1, <3>2, <3>3, <3>4, Zenon DEF Look
  <2> QED
    BY <1>4, <2>1, <2>6, <2>7, <2>8, <2>9, <2>11, <2>12
<1>7. n \in seen
  <2>1. seen \in SUBSET (0..n)
    BY <1>4
  <2>2. \A k \in 0..n : k \in seen
    BY <1>2, <1>5, <1>6, <2>1, NextByNext
  <2> QED
    BY <1>2, <2>2
<1>8. SubSeq(ds, 1, n) = ds /\ SubSeq(events, 1, n) = events
  BY <1>1, <1>2, SubSeqFull
<1>9. out \o events \in Seq(Events)
  BY <1>2, ConcatProperties
<1> QED
  BY <1>1, <1>4, <1>7, <1>8, <1>9

(* One more event. *)
LEMMA OneMore ==
  ASSUME NEW out \in Seq(Events), NEW e \in Events
  PROVE  /\ out \o <<e>> \in Seq(Events)
         /\ PutTogether(out \o <<e>>) = Put(PutTogether(out), e)
<1>1. out \o <<e>> = Append(out, e)
  BY AppendOfConcat
<1>2. Append(out, e) \in Seq(Events)
  BY AppendProperties
<1>3. PutTogether(Append(out, e)) = Put(PutTogether(out), e)
  BY SeenStep
<1> QED
  BY <1>1, <1>2, <1>3

LEMMA TextSeen ==
  ASSUME NEW out \in Seq(Events), NEW seen \in Seen, NEW more \in WholeTexts, PutTogether(out) = seen
  PROVE  /\ Text(more) \in Seq(Events)
         /\ out \o Text(more) \in Seq(Events)
         /\ PutTogether(out \o Text(more)) = [seen EXCEPT !.text = @ \o more]
<1>1. more \in Seq(Bytes) /\ seen.text \in Seq(Bytes)
  BY WholeTyped, SeenChanges
<1>2. CASE more = <<>>
  <2>1. Text(more) = <<>> /\ out \o <<>> = out /\ Text(more) \in Seq(Events)
    BY <1>2, ConcatEmptySeq, EmptySeq DEF Text
  <2>2. seen.text \o more = seen.text
    BY <1>1, <1>2, ConcatEmptySeq
  <2>3. [seen EXCEPT !.text = @ \o more] = seen
    BY <2>2 DEF Seen
  <2> QED
    BY <2>1, <2>3
<1>3. CASE more # <<>>
  <2>1. PICK e : e = [kind |-> "text", text |-> more]
    OBVIOUS
  <2>2. Text(more) = <<e>> /\ e.kind = "text" /\ e.text = more
    BY <1>3, <2>1 DEF Text
  <2>3. e \in Events
    <3>1. e \in TextEvents
      BY <1>3, <2>1 DEF TextEvents
    <3> QED
      BY <3>1, EventKinds
  <2>4. Put(seen, e) = [seen EXCEPT !.text = @ \o more]
    <3>1. Put(seen, e) = [seen EXCEPT !.text = @ \o e.text]
      BY <2>2, PutCases
    <3> QED
      BY <2>2, <3>1
  <2>5. out \o <<e>> \in Seq(Events) /\ PutTogether(out \o <<e>>) = Put(PutTogether(out), e)
    BY <2>3, OneMore
  <2>6. <<e>> \in Seq(Events)
    BY <2>3
  <2>7. PutTogether(out \o <<e>>) = [seen EXCEPT !.text = @ \o more]
    BY <2>4, <2>5
  <2> QED
    BY <2>2, <2>5, <2>6, <2>7
<1> QED
  BY <1>2, <1>3

-----------------------------------------------------------------------------
(* The handlers, and what they write.                                      *)

Stages == {"relaying", "answered", "failed", "silent"}

Filters == [pending : WholeTexts, stopped : BOOLEAN]

Outs == Seq(Events) \cup Seq(Seen \cup [kind : {"error"}, why : {"backend", "upstream", "timeout"}])

RelayRecords ==
  [stage : Stages, read : Nat, filter : Filters, finish : Reasons,
   usage : {"none", "zero", "counts"}, calls : FragmentSeqs, text : Seq(Bytes), out : Outs,
   filed : BOOLEAN]

(* What a handler has gathered; what it has written is another matter.     *)
Core(r) ==
  [filter |-> r.filter, finish |-> r.finish, usage |-> r.usage, calls |-> r.calls, text |-> r.text]

AnswerOf(r) ==
  [kind |-> "answer", text |-> r.text \o Flush(r.filter), why |-> FinishOf(r),
   usage |-> UsageOf(r.usage), calls |-> Presented(r.calls)]

(* A stream's events tell its client what has been gathered, and a whole   *)
(* answer is written in one piece.                                         *)
OutTells(h, r) ==
  /\ h = "stream" => /\ r.out \in Seq(Events)
                     /\ r.stage # "answered" => PutTogether(r.out) = Look(r.text, r.calls)
                     /\ r.stage = "answered" => PutTogether(r.out) = AnswerOf(r)
  /\ h = "whole" => /\ r.stage = "relaying" => r.out = <<>>
                    /\ r.stage = "answered" => r.out = <<AnswerOf(r)>>

LEMMA LookTyped ==
  ASSUME NEW text \in Seq(Bytes), NEW calls \in FragmentSeqs
  PROVE  Look(text, calls) \in Seen
BY PresentedTyped DEF Look, Seen, Reasons

LEMMA LookGrows ==
  ASSUME NEW text \in Seq(Bytes), NEW calls \in FragmentSeqs, NEW more \in WholeTexts, NEW out \in Seq(Events),
         PutTogether(out) = Look(text, calls)
  PROVE  /\ out \o Text(more) \in Seq(Events)
         /\ PutTogether(out \o Text(more)) = Look(text \o more, calls)
<1>1. PICK look, grown : look = Look(text, calls) /\ grown = [look EXCEPT !.text = @ \o more]
  OBVIOUS
<1>2. look \in Seen
  BY <1>1, LookTyped
<1>3. out \o Text(more) \in Seq(Events) /\ PutTogether(out \o Text(more)) = [look EXCEPT !.text = @ \o more]
  <2>1. PutTogether(out) = look
    BY <1>1
  <2> QED
    BY <1>2, <2>1, TextSeen
<1>4. look.text = text
  BY <1>1, Zenon DEF Look
<1>5. grown = [look EXCEPT !.text = text \o more]
  BY <1>1, <1>4
<1>6. grown = Look(text \o more, calls)
  BY <1>1, <1>5, Zenon DEF Look
<1> QED
  BY <1>1, <1>3, <1>6

LEMMA RecordFields ==
  ASSUME NEW r \in RelayRecords
  PROVE  /\ r.stage \in Stages /\ r.read \in Nat /\ r.filter \in Filters /\ r.finish \in Reasons
         /\ r.usage \in {"none", "zero", "counts"} /\ r.calls \in FragmentSeqs /\ r.text \in Seq(Bytes)
         /\ r.out \in Outs /\ r.filed \in BOOLEAN
         /\ r.filter.pending \in WholeTexts /\ r.filter.stopped \in BOOLEAN
         /\ Flush(r.filter) \in WholeTexts
<1>1. r.filter \in Filters
  BY DEF RelayRecords
<1>2. r.filter.pending \in WholeTexts /\ r.filter.stopped \in BOOLEAN
  BY <1>1 DEF Filters
<1> QED
  BY <1>2, WholeTyped DEF RelayRecords, Flush

LEMMA FinishTyped ==
  ASSUME NEW r \in RelayRecords
  PROVE  /\ FinishOf(r) \in Reasons /\ UsageOf(r.usage) \in {"none", "counts"}
         /\ FinishOf(r) = "stop" /\ r.calls # <<>> => r.filter.stopped
         /\ AnswerOf(r) \in Seen
<1>1. r.finish \in Reasons /\ r.filter.stopped \in BOOLEAN
  BY RecordFields
<1>2. /\ FinishOf(r) \in Reasons
      /\ FinishOf(r) = "stop" /\ r.calls # <<>> => r.filter.stopped
  <2>1. CASE r.filter.stopped
    BY <2>1 DEF FinishOf, Reasons
  <2>2. CASE ~r.filter.stopped /\ r.finish \notin {"", "stop"}
    BY <1>1, <2>2, Zenon DEF FinishOf
  <2>3. CASE ~r.filter.stopped /\ r.finish \in {"", "stop"}
    <3>1. FinishOf(r) = IF r.calls = <<>> THEN "stop" ELSE "tool_calls"
      BY <2>3, Zenon DEF FinishOf
    <3> QED
      BY <3>1 DEF Reasons
  <2> QED
    BY <1>1, <2>1, <2>2, <2>3, Zenon
<1>3. UsageOf(r.usage) \in {"none", "counts"}
  BY RecordFields DEF UsageOf
<1>4. r.text \o Flush(r.filter) \in Seq(Bytes)
  <2>1. r.text \in Seq(Bytes) /\ Flush(r.filter) \in Seq(Bytes)
    BY RecordFields, WholeTyped
  <2> QED
    BY <2>1, ConcatProperties
<1>5. Presented(r.calls) \in ClientCalls
  BY RecordFields, PresentedTyped
<1>6. AnswerOf(r) \in Seen
  BY <1>2, <1>3, <1>4, <1>5 DEF AnswerOf, Seen
<1> QED
  BY <1>2, <1>3, <1>6

(* A handler in the stage, with everything it has gathered. *)
Becomes(r, s, stage) ==
  s \in RelayRecords /\ s.stage = stage /\ s.read = r.read /\ Core(s) = Core(r)

(* A handler's last words change nothing else. *)
LEMMA OverIs ==
  ASSUME NEW r \in RelayRecords, NEW stage \in Stages, NEW words, r.out \o words \in Outs
  PROVE  Becomes(r, Over(r, stage, words), stage) /\ Over(r, stage, words).out = r.out \o words
<1>1. PICK o : o = r.out \o words
  OBVIOUS
<1>2. Over(r, stage, words) = [r EXCEPT !.stage = stage, !.out = o]
  BY <1>1 DEF Over, RelayRecords
<1>3. o \in Outs
  BY <1>1
<1>4. PICK s : s = [r EXCEPT !.stage = stage, !.out = o]
  OBVIOUS
<1>5. s \in RelayRecords /\ s.stage = stage /\ s.out = o /\ s.read = r.read
  BY <1>3, <1>4 DEF RelayRecords
<1>6. /\ s.filter = r.filter /\ s.finish = r.finish /\ s.usage = r.usage
      /\ s.calls = r.calls /\ s.text = r.text
  BY <1>4 DEF RelayRecords
<1>7. Core(s) = Core(r)
  BY <1>6 DEF Core
<1> QED
  BY <1>1, <1>2, <1>4, <1>5, <1>7 DEF Becomes

LEMMA SameAnswer ==
  ASSUME NEW r, NEW s, Core(r) = Core(s)
  PROVE  /\ AnswerOf(r) = AnswerOf(s) /\ FinishOf(r) = FinishOf(s)
         /\ r.filter = s.filter /\ r.finish = s.finish /\ r.usage = s.usage
         /\ r.calls = s.calls /\ r.text = s.text
<1>1. /\ r.filter = s.filter /\ r.finish = s.finish /\ r.usage = s.usage
      /\ r.calls = s.calls /\ r.text = s.text
  BY DEF Core
<1>2. FinishOf(r) = FinishOf(s)
  BY <1>1 DEF FinishOf
<1> QED
  BY <1>1, <1>2 DEF AnswerOf

(* The answer is written in full. *)
LEMMA CompleteTells ==
  ASSUME NEW r \in RelayRecords, NEW h \in Handlers, r.stage = "relaying", OutTells(h, r)
  PROVE  Becomes(r, Complete(h, r), "answered") /\ OutTells(h, Complete(h, r))
<1>1. PICK tail, why, usage, answer :
        tail = Flush(r.filter) /\ why = FinishOf(r) /\ usage = UsageOf(r.usage) /\ answer = AnswerOf(r)
  OBVIOUS
<1>2. /\ tail \in WholeTexts /\ why \in Reasons /\ usage \in {"none", "counts"} /\ answer \in Seen
      /\ r.text \in Seq(Bytes) /\ r.calls \in FragmentSeqs
  BY <1>1, RecordFields, FinishTyped
<1>3. CASE h = "stream"
  <2>1. PICK words : words = Text(tail) \o Finish(why) \o Usage(r.usage) \o Done
    OBVIOUS
  <2>2. Complete(h, r) = Over(r, "answered", words)
    BY <1>1, <1>3, <2>1 DEF Complete
  <2>3. PICK finish, use, done :
          /\ finish = [kind |-> "finish", why |-> why] /\ use = [kind |-> "usage", usage |-> usage]
          /\ done = [kind |-> "done"]
    OBVIOUS
  <2>4. words = ((Text(tail) \o <<finish>>) \o <<use>>) \o <<done>>
    BY <1>1, <2>1, <2>3 DEF Finish, Usage, Done
  <2>5. /\ finish \in Events /\ finish.kind = "finish" /\ finish.why = why
        /\ use \in Events /\ use.kind = "usage" /\ use.usage = usage
        /\ done \in Events /\ done.kind = "done"
    <3>1. finish \in LastWords /\ use \in LastWords /\ done \in LastWords
      BY <1>2, <2>3 DEF LastWords
    <3> QED
      BY <2>3, <3>1, EventKinds
  <2>6. r.out \in Seq(Events) /\ PutTogether(r.out) = Look(r.text, r.calls) /\ Look(r.text, r.calls) \in Seen
    BY <1>2, <1>3, LookTyped DEF OutTells, Becomes
  <2>7. PICK a, b, c, d :
          /\ a = r.out \o Text(tail) /\ b = a \o <<finish>> /\ c = b \o <<use>> /\ d = c \o <<done>>
    OBVIOUS
  <2>8. PICK seen : seen = [Look(r.text, r.calls) EXCEPT !.text = @ \o tail]
    OBVIOUS
  <2>9. a \in Seq(Events) /\ PutTogether(a) = seen /\ Text(tail) \in Seq(Events)
    BY <1>2, <2>6, <2>7, <2>8, TextSeen
  <2>10. b \in Seq(Events) /\ PutTogether(b) = [seen EXCEPT !.why = why]
    BY <2>5, <2>7, <2>9, OneMore, PutCases
  <2>11. c \in Seq(Events) /\ PutTogether(c) = [[seen EXCEPT !.why = why] EXCEPT !.usage = usage]
    <3>1. PutTogether(c) = Put(PutTogether(b), use) /\ c \in Seq(Events)
      BY <2>5, <2>7, <2>10, OneMore
    <3>2. PICK told : told = [seen EXCEPT !.why = why]
      OBVIOUS
    <3>3. Put(told, use) = [told EXCEPT !.usage = use.usage]
      BY <2>5, PutCases
    <3> QED
      BY <2>5, <2>10, <3>1, <3>2, <3>3
  <2>12. d \in Seq(Events) /\ PutTogether(d) = PutTogether(c)
    <3>1. PutTogether(d) = Put(PutTogether(c), done) /\ d \in Seq(Events)
      BY <2>5, <2>7, <2>11, OneMore
    <3> QED
      BY <2>5, <3>1, PutCases
  <2>13. PutTogether(d) = answer
    BY <1>1, <2>8, <2>11, <2>12, Zenon DEF Look, AnswerOf
  <2>14. r.out \o words = d
    <3>1. PICK t, f, u, e : t = Text(tail) /\ f = <<finish>> /\ u = <<use>> /\ e = <<done>>
      OBVIOUS
    <3>2. t \in Seq(Events) /\ f \in Seq(Events) /\ u \in Seq(Events) /\ e \in Seq(Events)
      BY <2>5, <2>9, <3>1
    <3>3. t \o f \in Seq(Events) /\ (t \o f) \o u \in Seq(Events)
      BY <3>2, ConcatProperties
    <3>4. \A x, y, z \in Seq(Events) : (x \o y) \o z = x \o (y \o z)
      BY ConcatAssociative
    <3>5. r.out \o (((t \o f) \o u) \o e) = (r.out \o ((t \o f) \o u)) \o e
      BY <2>6, <3>2, <3>3, <3>4, ZenonT(60)
    <3>6. r.out \o ((t \o f) \o u) = (r.out \o (t \o f)) \o u
      BY <2>6, <3>2, <3>3, <3>4, ZenonT(60)
    <3>7. r.out \o (t \o f) = (r.out \o t) \o f
      BY <2>6, <3>2, <3>4, ZenonT(60)
    <3> QED
      BY <2>4, <2>7, <3>1, <3>5, <3>6, <3>7
  <2>15. PICK o : o = Over(r, "answered", words)
    OBVIOUS
  <2>16. Becomes(r, o, "answered") /\ o.out = d
    <3>1. r.out \o words \in Outs /\ r.out \o words = d
      BY <2>12, <2>14 DEF Outs
    <3>2. "answered" \in Stages /\ "failed" \in Stages
      BY DEF Stages
    <3> QED
      BY <2>15, <3>1, <3>2, OverIs
  <2>17. AnswerOf(o) = answer
    BY <1>1, <2>16, SameAnswer DEF Becomes
  <2>18. OutTells(h, o)
    BY <1>3, <2>12, <2>13, <2>16, <2>17 DEF OutTells, Becomes
  <2> QED
    BY <2>2, <2>15, <2>16, <2>18
<1>4. CASE h = "whole"
  <2>1. Complete(h, r) = Over(r, "answered", <<answer>>)
    BY <1>1, <1>4 DEF Complete, AnswerOf, Presented
  <2>2. r.out = <<>> /\ r.out \o <<answer>> = <<answer>>
    <3>1. r.out = <<>>
      BY <1>4 DEF OutTells, Becomes
    <3>2. <<answer>> \in Seq(Seen)
      BY <1>2
    <3> QED
      BY <3>1, <3>2, ConcatEmptySeq
  <2>3. <<answer>> \in Outs
    BY <1>2 DEF Outs
  <2>4. PICK o : o = Over(r, "answered", <<answer>>)
    OBVIOUS
  <2>5. Becomes(r, o, "answered") /\ o.out = <<answer>>
    <3>1. r.out \o <<answer>> \in Outs /\ r.out \o <<answer>> = <<answer>>
      BY <2>2, <2>3
    <3>2. "answered" \in Stages /\ "failed" \in Stages
      BY DEF Stages
    <3> QED
      BY <2>4, <3>1, <3>2, OverIs
  <2>6. AnswerOf(o) = answer
    BY <1>1, <2>5, SameAnswer DEF Becomes
  <2>7. OutTells(h, o)
    BY <1>4, <2>5, <2>6 DEF OutTells, Becomes
  <2> QED
    BY <2>1, <2>4, <2>5, <2>7
<1> QED
  BY <1>3, <1>4 DEF Handlers

(* A failure is told, or the client has left: what it has been given stays *)
(* as it is.                                                               *)
LEMMA FailedTells ==
  ASSUME NEW r \in RelayRecords, NEW h \in Handlers, r.stage = "relaying", OutTells(h, r),
         NEW why \in {"backend", "upstream", "timeout"}
  PROVE  Becomes(r, Failed(h, r, why), "failed") /\ OutTells(h, Failed(h, r, why))
<1>1. PICK failure, done : failure = [kind |-> "error", why |-> why] /\ done = [kind |-> "done"]
  OBVIOUS
<1>2. CASE h = "stream"
  <2>1. PICK words : words = <<failure>> \o <<done>>
    OBVIOUS
  <2>2. Failed(h, r, why) = Over(r, "failed", words)
    BY <1>1, <1>2, <2>1 DEF Failed, Failure, Done
  <2>3. failure \in Events /\ failure.kind = "error" /\ done \in Events /\ done.kind = "done"
    <3>1. failure \in LastWords /\ done \in LastWords
      BY <1>1 DEF LastWords
    <3> QED
      BY <1>1, <3>1, EventKinds
  <2>4. r.out \in Seq(Events) /\ PutTogether(r.out) = Look(r.text, r.calls)
    BY <1>2 DEF OutTells, Becomes
  <2>5. PICK a, b : a = r.out \o <<failure>> /\ b = a \o <<done>>
    OBVIOUS
  <2>6. a \in Seq(Events) /\ PutTogether(a) = PutTogether(r.out)
    BY <2>3, <2>4, <2>5, OneMore, PutCases
  <2>7. b \in Seq(Events) /\ PutTogether(b) = PutTogether(a)
    <3>1. PutTogether(b) = Put(PutTogether(a), done) /\ b \in Seq(Events)
      BY <2>3, <2>5, <2>6, OneMore
    <3> QED
      BY <2>3, <3>1, PutCases
  <2>8. r.out \o words = b
    <3>1. PICK f, e : f = <<failure>> /\ e = <<done>>
      OBVIOUS
    <3>2. f \in Seq(Events) /\ e \in Seq(Events)
      BY <2>3, <3>1
    <3>3. \A x, y, z \in Seq(Events) : (x \o y) \o z = x \o (y \o z)
      BY ConcatAssociative
    <3>4. r.out \o (f \o e) = (r.out \o f) \o e
      BY <2>4, <3>2, <3>3, Zenon
    <3> QED
      BY <2>1, <2>5, <3>1, <3>4
  <2>9. PICK o : o = Over(r, "failed", words)
    OBVIOUS
  <2>10. Becomes(r, o, "failed") /\ o.out = b
    <3>1. r.out \o words \in Outs /\ r.out \o words = b
      BY <2>7, <2>8 DEF Outs
    <3>2. "answered" \in Stages /\ "failed" \in Stages
      BY DEF Stages
    <3> QED
      BY <2>9, <3>1, <3>2, OverIs
  <2>11. o.text = r.text /\ o.calls = r.calls
    BY <2>10, SameAnswer DEF Becomes
  <2>12. OutTells(h, o)
    BY <1>2, <2>4, <2>6, <2>7, <2>10, <2>11 DEF OutTells, Becomes
  <2> QED
    BY <2>2, <2>9, <2>10, <2>12
<1>3. CASE h = "whole"
  <2>1. Failed(h, r, why) = Over(r, "failed", <<failure>>)
    BY <1>1, <1>3 DEF Failed, Failure
  <2>2. r.out = <<>> /\ r.out \o <<failure>> = <<failure>>
    <3>1. r.out = <<>>
      BY <1>3 DEF OutTells, Becomes
    <3>2. PICK S : S = {failure}
      OBVIOUS
    <3>3. <<failure>> \in Seq(S)
      BY <3>2
    <3> QED
      BY <3>1, <3>3, ConcatEmptySeq
  <2>3. <<failure>> \in Outs
    <3>1. failure \in [kind : {"error"}, why : {"backend", "upstream", "timeout"}]
      BY <1>1
    <3> QED
      BY <3>1 DEF Outs
  <2>4. PICK o : o = Over(r, "failed", <<failure>>)
    OBVIOUS
  <2>5. Becomes(r, o, "failed")
    <3>1. r.out \o <<failure>> \in Outs /\ r.out \o <<failure>> = <<failure>>
      BY <2>2, <2>3
    <3>2. "answered" \in Stages /\ "failed" \in Stages
      BY DEF Stages
    <3> QED
      BY <2>4, <3>1, <3>2, OverIs
  <2>6. OutTells(h, o)
    BY <1>3, <2>5 DEF OutTells, Becomes
  <2> QED
    BY <2>1, <2>4, <2>5, <2>6
<1> QED
  BY <1>2, <1>3 DEF Handlers

LEMMA SilentTells ==
  ASSUME NEW r \in RelayRecords, NEW h \in Handlers, r.stage = "relaying", OutTells(h, r)
  PROVE  Becomes(r, Over(r, "silent", <<>>), "silent") /\ OutTells(h, Over(r, "silent", <<>>))
<1>1. r.out \o <<>> = r.out /\ r.out \in Outs
  BY RecordFields, ConcatEmptySeq DEF Outs
<1>2. PICK o : o = Over(r, "silent", <<>>)
  OBVIOUS
<1>3. Becomes(r, o, "silent") /\ o.out = r.out
  BY <1>1, <1>2, OverIs DEF Stages
<1>4. o.text = r.text /\ o.calls = r.calls
  BY <1>3, SameAnswer DEF Becomes
<1>5. OutTells(h, o)
  BY <1>3, <1>4 DEF OutTells, Becomes
<1> QED
  BY <1>2, <1>3, <1>5

-----------------------------------------------------------------------------
(* One turn of the loop.                                                   *)

Cores ==
  [filter : Filters, finish : Reasons, usage : {"none", "zero", "counts"}, calls : FragmentSeqs,
   text : Seq(Bytes)]

EchoOf(e) == IF e = "legacy" THEN Prompt ELSE <<>>

FreshOf(e) ==
  [filter |-> NewFilter, finish |-> "", usage |-> "none", calls |-> <<>>, text |-> EchoOf(e)]

CallsOf(e, frame) == IF e = "chat" THEN frame.calls ELSE <<>>

(* What a frame adds to what has been gathered. *)
GatherOf(e, c, frame) ==
  [filter |-> Write(c.filter, frame.text).filter,
   finish |-> IF frame.stop = "none" THEN c.finish ELSE FinishReason(frame.stop),
   usage  |-> IF frame.usage = "none" THEN c.usage ELSE frame.usage,
   calls  |-> AddCalls(c.calls, CallsOf(e, frame)),
   text   |-> c.text \o Write(c.filter, frame.text).out]

LEMMA ReasonTyped ==
  ASSUME NEW stop \in {"none", "stop", "max_tokens", "function_call", "error"}
  PROVE  FinishReason(stop) \in Reasons
BY DEF FinishReason, Reasons

LEMMA CallsTyped ==
  ASSUME NEW e, NEW frame \in Frames
  PROVE  CallsOf(e, frame) \in FragmentSeqs
BY FrameTyped, EmptySeq DEF CallsOf, FragmentSeqs

LEMMA GatherTyped ==
  ASSUME NEW e, NEW c \in Cores, NEW frame \in Frames,
         Write(c.filter, frame.text).filter \in Filters, Write(c.filter, frame.text).out \in WholeTexts
  PROVE  GatherOf(e, c, frame) \in Cores
<1>1. PICK w : w = Write(c.filter, frame.text)
  OBVIOUS
<1>2. w.filter \in Filters /\ w.out \in Seq(Bytes)
  BY <1>1, WholeTyped
<1>3. c.finish \in Reasons /\ c.usage \in {"none", "zero", "counts"} /\ c.calls \in FragmentSeqs /\ c.text \in Seq(Bytes)
  BY DEF Cores
<1>4. AddCalls(c.calls, CallsOf(e, frame)) \in FragmentSeqs
  BY <1>3, CallsTyped, AddCallsStep
<1>5. c.text \o w.out \in Seq(Bytes)
  BY <1>2, <1>3, ConcatProperties
<1>6. FinishReason(frame.stop) \in Reasons /\ frame.usage \in {"none", "zero", "counts"}
  BY FrameTyped, ReasonTyped
<1> QED
  BY <1>1, <1>2, <1>3, <1>4, <1>5, <1>6 DEF GatherOf, Cores

LEMMA GatheredTells ==
  ASSUME NEW r \in RelayRecords, NEW h \in Handlers, NEW frame \in Frames,
         r.stage = "relaying", OutTells(h, r), endpoint \in {"chat", "legacy"},
         Write(r.filter, frame.text).filter \in Filters, Write(r.filter, frame.text).out \in WholeTexts
  PROVE  /\ Gathered(h, r, frame) \in RelayRecords /\ OutTells(h, Gathered(h, r, frame))
         /\ Gathered(h, r, frame).stage = "relaying" /\ Gathered(h, r, frame).read = r.read
         /\ Core(Gathered(h, r, frame)) = GatherOf(endpoint, Core(r), frame)
<1>1. PICK w, calls, c, s :
        /\ w = Write(r.filter, frame.text) /\ calls = CallsOf(endpoint, frame)
        /\ c = GatherOf(endpoint, Core(r), frame) /\ s = Gathered(h, r, frame)
  OBVIOUS
<1>2. PICK o : o = IF h = "stream" THEN r.out \o CallEvents(r.calls, calls) \o Text(w.out) ELSE r.out
  OBVIOUS
<1>3. /\ w.filter \in Filters /\ w.out \in WholeTexts /\ w.out \in Seq(Bytes)
      /\ calls \in FragmentSeqs /\ r.calls \in FragmentSeqs /\ r.text \in Seq(Bytes)
  BY <1>1, RecordFields, WholeTyped, CallsTyped
<1>4. Core(r) \in Cores /\ Core(r).filter = r.filter
  BY RecordFields DEF Core, Cores
<1>5. c \in Cores
  BY <1>1, <1>4, GatherTyped
<1>6. /\ c.filter = w.filter /\ c.calls = AddCalls(r.calls, calls) /\ c.text = r.text \o w.out
      /\ c.finish = IF frame.stop = "none" THEN r.finish ELSE FinishReason(frame.stop)
      /\ c.usage = IF frame.usage = "none" THEN r.usage ELSE frame.usage
  BY <1>1 DEF GatherOf, Core
<1>7. s = [r EXCEPT !.finish = c.finish, !.usage = c.usage, !.calls = c.calls, !.filter = c.filter,
                    !.text = c.text, !.out = o]
  BY <1>1, <1>2, <1>6 DEF Gathered, CallsOf, RelayRecords
<1>8. o \in Outs /\ (h = "stream" => o \in Seq(Events) /\ PutTogether(o) = Look(c.text, c.calls))
  <2>1. CASE h = "stream"
    <3>1. r.out \in Seq(Events) /\ PutTogether(r.out) = Look(r.text, r.calls)
      BY <2>1 DEF OutTells
    <3>2. PICK a : a = r.out \o CallEvents(r.calls, calls)
      OBVIOUS
    <3>3. a \in Seq(Events) /\ PutTogether(a) = Look(r.text, c.calls)
      BY <1>3, <1>6, <3>1, <3>2, CallsSeen
    <3>4. c.calls \in FragmentSeqs
      BY <1>5 DEF Cores
    <3>5. a \o Text(w.out) \in Seq(Events) /\ PutTogether(a \o Text(w.out)) = Look(c.text, c.calls)
      BY <1>3, <1>6, <3>3, <3>4, LookGrows
    <3>6. o = a \o Text(w.out)
      BY <1>2, <2>1, <3>2
    <3> QED
      BY <3>5, <3>6 DEF Outs
  <2>2. CASE h # "stream"
    BY <1>2, <2>2, RecordFields
  <2> QED
    BY <2>1, <2>2
<1>9. /\ s \in RelayRecords /\ s.stage = r.stage /\ s.read = r.read /\ s.out = o
      /\ s.finish = c.finish /\ s.usage = c.usage /\ s.calls = c.calls /\ s.filter = c.filter /\ s.text = c.text
  <2>1. /\ c.finish \in Reasons /\ c.usage \in {"none", "zero", "counts"} /\ c.calls \in FragmentSeqs
        /\ c.filter \in Filters /\ c.text \in Seq(Bytes) /\ o \in Outs
    BY <1>5, <1>8 DEF Cores
  <2> QED
    BY <1>7, <2>1 DEF RelayRecords
<1>10. Core(s) = c
  BY <1>5, <1>9 DEF Core, Cores
<1>11. OutTells(h, s)
  <2>1. h = "whole" => s.out = <<>>
    BY <1>2, <1>9 DEF OutTells
  <2> QED
    BY <1>8, <1>9, <2>1 DEF OutTells
<1> QED
  BY <1>1, <1>9, <1>10, <1>11

LEMMA HandleCases ==
  ASSUME NEW h, NEW r, NEW frame
  PROVE  /\ frame.stop = "error" => Handle(h, r, frame) = Failed(h, r, "backend")
         /\ frame.stop # "error" /\ Gathered(h, r, frame).filter.stopped =>
              Handle(h, r, frame) = Complete(h, Gathered(h, r, frame))
         /\ frame.stop # "error" /\ ~Gathered(h, r, frame).filter.stopped =>
              Handle(h, r, frame) = Gathered(h, r, frame)
BY DEF Handle

-----------------------------------------------------------------------------
(* The frames, and what reading them one after the other gathers.          *)

(* p[k] is the text of the first k frames, up to the first of them that    *)
(* completed a stop.                                                       *)
KeptWalk(p, frames) ==
  /\ p \in [0..Len(frames) -> Seq(Bytes)]
  /\ p[0] = <<>>
  /\ \A k \in 1..Len(frames) : p[k] = Kept(p[k - 1], frames[k].text)

LEMMA KeptGrows ==
  ASSUME NEW frame \in Frames, NEW text \in Seq(Bytes)
  PROVE  Kept(text, frame.text) \in Seq(Bytes)
BY FrameTyped, ConcatProperties DEF Kept

(* g[k] is what the first k frames come to: the stop filter has let out of *)
(* their text what is in g[k].                                             *)
Gathers(g, p, e, frames) ==
  /\ KeptWalk(p, frames)
  /\ g \in [0..Len(frames) -> Cores]
  /\ g[0] = FreshOf(e)
  /\ \A k \in 1..Len(frames) : g[k] = GatherOf(e, g[k - 1], frames[k])
  /\ \A k \in 0..Len(frames) :
       \E o \in Seq(Bytes) : g[k].text = EchoOf(e) \o o /\ Filtered(g[k].filter, o, p[k])

LEMMA FreshTyped ==
  ASSUME NEW e
  PROVE  FreshOf(e) \in Cores /\ EchoOf(e) \in WholeTexts /\ EchoOf(e) \in Seq(Bytes)
<1>1. EchoOf(e) \in WholeTexts /\ EchoOf(e) \in Seq(Bytes)
  BY FrameAssumption, WholeTyped, Zenon DEF EchoOf
<1>2. <<>> \in FragmentSeqs
  BY DEF FragmentSeqs
<1>3. NewFilter \in Filters
  BY WholeTyped DEF NewFilter, Filters
<1> QED
  BY <1>1, <1>2, <1>3 DEF FreshOf, Cores, Reasons

LEMMA GathersStart ==
  ASSUME NEW e, NEW frames, frames = <<>>
  PROVE  \E g, p : Gathers(g, p, e, frames)
<1>1. Len(frames) = 0
  OBVIOUS
<1>2. PICK g, p : g = [k \in 0..0 |-> FreshOf(e)] /\ p = [k \in 0..0 |-> <<>>]
  OBVIOUS
<1>3. KeptWalk(p, frames)
  BY <1>1, <1>2 DEF KeptWalk
<1>4. g \in [0..0 -> Cores] /\ g[0] = FreshOf(e)
  BY <1>2, FreshTyped
<1>5. <<>> \in Seq(Bytes) /\ g[0].text = EchoOf(e) \o <<>> /\ Filtered(g[0].filter, <<>>, p[0])
  <2>1. g[0].text = EchoOf(e) /\ g[0].filter = NewFilter
    <3>1. FreshOf(e).text = EchoOf(e) /\ FreshOf(e).filter = NewFilter
      BY DEF FreshOf
    <3> QED
      BY <1>4, <3>1
  <2>3. p[0] = <<>>
    BY <1>2
  <2>2. EchoOf(e) \o <<>> = EchoOf(e)
    BY FreshTyped, ConcatEmptySeq
  <2> QED
    BY <2>1, <2>2, <2>3, EmptyFiltered, EmptySeq
<1>6. ASSUME NEW k \in 0..0
      PROVE  \E o \in Seq(Bytes) : g[k].text = EchoOf(e) \o o /\ Filtered(g[k].filter, o, p[k])
  <2>1. k = 0
    OBVIOUS
  <2> QED
    BY <1>5, <2>1
<1>7. \A k \in 1..0 : g[k] = GatherOf(e, g[k - 1], frames[k])
  OBVIOUS
<1>8. Gathers(g, p, e, frames)
  BY <1>1, <1>3, <1>4, <1>6, <1>7 DEF Gathers
<1> QED
  BY <1>8

(* What the filter makes of one more frame. *)
LEMMA FrameFiltered ==
  ASSUME NEW e, NEW c \in Cores, NEW o \in Seq(Bytes), NEW text \in Seq(Bytes), NEW frame \in Frames,
         c.text = EchoOf(e) \o o, Filtered(c.filter, o, text)
  PROVE  /\ Write(c.filter, frame.text).filter \in Filters /\ Write(c.filter, frame.text).out \in WholeTexts
         /\ GatherOf(e, c, frame) \in Cores
         /\ \E q \in Seq(Bytes) : /\ GatherOf(e, c, frame).text = EchoOf(e) \o q
                                  /\ Filtered(GatherOf(e, c, frame).filter, q, Kept(text, frame.text))
<1>1. PICK w, f : w = Write(f, frame.text) /\ f = c.filter
  OBVIOUS
<1>2. f \in [pending : WholeTexts, stopped : BOOLEAN] /\ frame.text \in WholeTexts
  BY <1>1, FrameTyped DEF Cores, Filters
<1>3. /\ w.filter \in Filters /\ w.out \in WholeTexts
      /\ Filtered(w.filter, o \o w.out, Kept(text, frame.text))
  BY <1>1, <1>2, WriteFilters DEF Filters
<1>4. GatherOf(e, c, frame) \in Cores
  BY <1>1, <1>3, GatherTyped
<1>5. PICK q : q = o \o w.out
  OBVIOUS
<1>6. q \in Seq(Bytes) /\ (EchoOf(e) \o o) \o w.out = EchoOf(e) \o q
  <2>1. w.out \in Seq(Bytes) /\ EchoOf(e) \in Seq(Bytes)
    BY <1>3, WholeTyped, FreshTyped
  <2>2. o \o w.out \in Seq(Bytes)
    BY <2>1, ConcatProperties
  <2>3. (EchoOf(e) \o o) \o w.out = EchoOf(e) \o (o \o w.out)
    BY <2>1, TextsJoin, Zenon
  <2> QED
    BY <1>5, <2>2, <2>3
<1>7. GatherOf(e, c, frame).text = EchoOf(e) \o q /\ GatherOf(e, c, frame).filter = w.filter
  BY <1>1, <1>6 DEF GatherOf
<1>8. Filtered(GatherOf(e, c, frame).filter, q, Kept(text, frame.text))
  BY <1>3, <1>5, <1>7
<1> QED
  BY <1>1, <1>3, <1>4, <1>6, <1>7, <1>8

(* With one more frame, and what was gathered before as it was. *)
GathersOn(g2, p2, g, e, frames, frame) ==
  /\ Gathers(g2, p2, e, Append(frames, frame))
  /\ \A k \in 0..Len(frames) : g2[k] = g[k]

LEMMA GathersMore ==
  ASSUME NEW e, NEW frames \in Seq(Frames), NEW frame \in Frames, NEW g, NEW p, Gathers(g, p, e, frames)
  PROVE  \E g2, p2 : GathersOn(g2, p2, g, e, frames, frame)
<1>1. PICK n, more : n = Len(frames) /\ more = Append(frames, frame)
  OBVIOUS
<1>2. n \in Nat /\ n \in 0..n
  BY <1>1, SeqFacts
<1>3. Len(more) = n + 1 /\ more[n + 1] = frame /\ \A k \in 1..n : more[k] = frames[k]
  BY <1>1, AppendProperties
<1>4. /\ p \in [0..n -> Seq(Bytes)] /\ p[0] = <<>>
      /\ \A k \in 1..n : p[k] = Kept(p[k - 1], frames[k].text)
  BY <1>1 DEF Gathers, KeptWalk
<1>5. /\ g \in [0..n -> Cores] /\ g[0] = FreshOf(e)
      /\ \A k \in 1..n : g[k] = GatherOf(e, g[k - 1], frames[k])
      /\ \A k \in 0..n : \E o \in Seq(Bytes) : g[k].text = EchoOf(e) \o o /\ Filtered(g[k].filter, o, p[k])
  BY <1>1 DEF Gathers
<1>6. PICK c, t : c = GatherOf(e, g[n], frame) /\ t = Kept(p[n], frame.text)
  OBVIOUS
<1>7. /\ c \in Cores
      /\ \E o \in Seq(Bytes) : c.text = EchoOf(e) \o o /\ Filtered(c.filter, o, t)
  <2>1. PICK o \in Seq(Bytes) : g[n].text = EchoOf(e) \o o /\ Filtered(g[n].filter, o, p[n])
    BY <1>2, <1>5
  <2>2. g[n] \in Cores /\ p[n] \in Seq(Bytes)
    BY <1>2, <1>4, <1>5
  <2> QED
    BY <1>6, <2>1, <2>2, FrameFiltered
<1>8. t \in Seq(Bytes)
  BY <1>2, <1>4, <1>6, KeptGrows
<1>9. PICK g2, p2 : /\ g2 = [k \in 0..(n + 1) |-> IF k = n + 1 THEN c ELSE g[k]]
                    /\ p2 = [k \in 0..(n + 1) |-> IF k = n + 1 THEN t ELSE p[k]]
  OBVIOUS
<1>10. /\ g2[n + 1] = c /\ p2[n + 1] = t
       /\ \A k \in 0..n : g2[k] = g[k] /\ p2[k] = p[k] /\ k \in 0..(n + 1)
       /\ \A k \in 0..(n + 1) : k = n + 1 \/ k \in 0..n
       /\ \A k \in 1..(n + 1) : k = n + 1 \/ (k \in 1..n /\ k \in 0..n /\ k - 1 \in 0..n)
       /\ (n + 1) - 1 = n
  BY <1>2, <1>9
<1>11. g2 \in [0..(n + 1) -> Cores] /\ p2 \in [0..(n + 1) -> Seq(Bytes)]
  BY <1>4, <1>5, <1>7, <1>8, <1>9, <1>10
<1>12. KeptWalk(p2, more)
  <2>1. \A k \in 1..(n + 1) : p2[k] = Kept(p2[k - 1], more[k].text)
    <3> SUFFICES ASSUME NEW k \in 1..(n + 1)  PROVE p2[k] = Kept(p2[k - 1], more[k].text)
      OBVIOUS
    <3>1. CASE k = n + 1
      BY <1>2, <1>3, <1>6, <1>10, <3>1
    <3>2. CASE k # n + 1
      BY <1>3, <1>4, <1>10, <3>2
    <3> QED
      BY <3>1, <3>2
  <2>2. p2[0] = <<>>
    BY <1>2, <1>4, <1>10
  <2> QED
    BY <1>3, <1>11, <2>1, <2>2 DEF KeptWalk
<1>13. \A k \in 1..(n + 1) : g2[k] = GatherOf(e, g2[k - 1], more[k])
  <2> SUFFICES ASSUME NEW k \in 1..(n + 1)  PROVE g2[k] = GatherOf(e, g2[k - 1], more[k])
    OBVIOUS
  <2>1. CASE k = n + 1
    BY <1>2, <1>3, <1>6, <1>10, <2>1
  <2>2. CASE k # n + 1
    BY <1>3, <1>5, <1>10, <2>2
  <2> QED
    BY <2>1, <2>2
<1>14. \A k \in 0..(n + 1) : \E o \in Seq(Bytes) : g2[k].text = EchoOf(e) \o o /\ Filtered(g2[k].filter, o, p2[k])
  <2> SUFFICES ASSUME NEW k \in 0..(n + 1)
               PROVE  \E o \in Seq(Bytes) : g2[k].text = EchoOf(e) \o o /\ Filtered(g2[k].filter, o, p2[k])
    OBVIOUS
  <2>1. CASE k = n + 1
    BY <1>7, <1>10, <2>1
  <2>2. CASE k # n + 1
    <3>1. g2[k] = g[k] /\ p2[k] = p[k] /\ k \in 0..n
      BY <1>10, <2>2
    <3> QED
      BY <1>5, <3>1
  <2> QED
    BY <2>1, <2>2
<1>15. g2[0] = FreshOf(e)
  BY <1>2, <1>5, <1>10
<1>16. Gathers(g2, p2, e, more)
  BY <1>3, <1>11, <1>12, <1>13, <1>14, <1>15 DEF Gathers
<1>17. GathersOn(g2, p2, g, e, frames, frame)
  BY <1>1, <1>10, <1>16 DEF GathersOn
<1> QED
  BY <1>17

(* The text that is kept of some frames begins what is kept of all, and is *)
(* all of it once there is a stop in it.                                   *)
LEMMA KeptBegins ==
  ASSUME NEW frames \in Seq(Frames), NEW p, KeptWalk(p, frames), NEW k \in 0..Len(frames)
  PROVE  \E rest \in Seq(Bytes) :
           /\ p[Len(frames)] = p[k] \o rest
           /\ k = Len(frames) \/ StopStarts(p[k]) # {} => rest = <<>>
<1>1. PICK n, m : n = Len(frames) /\ m = n - k
  OBVIOUS
<1>2. /\ n \in Nat /\ k \in 0..n /\ m \in Nat /\ k + m = n
      /\ \A i \in 1..n : frames[i] \in Frames
      /\ \A j \in 0..m : k + j \in 0..n
  BY <1>1, SeqFacts
<1>3. p \in [0..n -> Seq(Bytes)] /\ \A i \in 1..n : p[i] = Kept(p[i - 1], frames[i].text)
  BY <1>1 DEF KeptWalk
<1>4. p[k] \in Seq(Bytes) /\ p[k] \o <<>> = p[k] /\ <<>> \in Seq(Bytes)
  BY <1>2, <1>3, ConcatEmptySeq, EmptySeq
<1>5. PICK longer : longer = {j \in 0..m : \E rest \in Seq(Bytes) :
                                             /\ p[k + j] = p[k] \o rest
                                             /\ j = 0 \/ StopStarts(p[k]) # {} => rest = <<>>}
  OBVIOUS
<1>6. 0 \in longer
  <2>1. k + 0 = k /\ 0 \in 0..m
    BY <1>2
  <2>2. \E rest \in Seq(Bytes) : /\ p[k + 0] = p[k] \o rest
                                 /\ 0 = 0 \/ StopStarts(p[k]) # {} => rest = <<>>
    BY <1>4, <2>1
  <2> QED
    BY <1>5, <2>1, <2>2
<1>7. ASSUME NEW j \in 0..(m - 1), j \in longer  PROVE j + 1 \in longer
  <2>1. PICK rest \in Seq(Bytes) : p[k + j] = p[k] \o rest /\ (StopStarts(p[k]) # {} => rest = <<>>)
    BY <1>5, <1>7
  <2>2. k + (j + 1) \in 1..n /\ (k + (j + 1)) - 1 = k + j /\ j + 1 \in 0..m /\ j + 1 # 0
    BY <1>2
  <2>3. PICK i, more : i = k + (j + 1) /\ more = frames[i].text
    OBVIOUS
  <2>4. p[i] = Kept(p[k + j], more) /\ more \in Seq(Bytes)
    BY <1>2, <1>3, <2>2, <2>3, FrameTyped
  <2>5. CASE StopStarts(p[k + j]) # {}
    <3>1. p[i] = p[k] \o rest
      BY <2>1, <2>4, <2>5 DEF Kept
    <3> QED
      BY <1>5, <2>1, <2>2, <2>3, <3>1
  <2>6. CASE StopStarts(p[k + j]) = {}
    <3>1. StopStarts(p[k]) = {}
      BY <1>4, <2>1, <2>6, StartsStay
    <3>2. p[i] = (p[k] \o rest) \o more
      BY <2>1, <2>4, <2>6 DEF Kept
    <3>3. (p[k] \o rest) \o more = p[k] \o (rest \o more) /\ rest \o more \in Seq(Bytes)
      BY <1>4, <2>4, TextsJoin, ConcatProperties
    <3> QED
      BY <1>5, <2>2, <2>3, <3>1, <3>2, <3>3
  <2> QED
    BY <2>5, <2>6
<1>8. m \in longer
  <2>1. longer \in SUBSET (0..m)
    BY <1>5
  <2>2. \A j \in 0..m : j \in longer
    BY <1>2, <1>6, <1>7, <2>1, NextByNext
  <2> QED
    BY <1>2, <2>2
<1>9. k = n <=> m = 0
  BY <1>2
<1> QED
  BY <1>1, <1>2, <1>5, <1>8, <1>9

(* The text of the first frames, and what is kept of it.                   *)
KeptOf(p, q, k) ==
  /\ StopStarts(p[k]) = {} => p[k] = q[k] /\ \A i \in 0..k : StopStarts(q[i]) = {}
  /\ StopStarts(p[k]) # {} =>
       /\ StopStarts(q[k]) # {}
       /\ \E j \in 1..k : /\ p[k] = q[j] /\ StopStarts(q[j]) # {}
                          /\ \A i \in 0..(j - 1) : StopStarts(q[i]) = {}
  /\ NoneInside => BeforeStop(p[k]) = BeforeStop(q[k])

LEMMA KeptIs ==
  ASSUME NEW frames \in Seq(Frames), NEW p, NEW q, KeptWalk(p, frames), TextWalk(q, frames)
  PROVE  \A k \in 0..Len(frames) : KeptOf(p, q, k)
<1>1. PICK n : n = Len(frames)
  OBVIOUS
<1>2. n \in Nat /\ \A i \in 1..n : frames[i] \in Frames
  BY <1>1, SeqFacts
<1>3. /\ p \in [0..n -> Seq(Bytes)] /\ p[0] = <<>>
      /\ \A i \in 1..n : p[i] = Kept(p[i - 1], frames[i].text)
      /\ q \in [0..n -> Seq(Bytes)] /\ q[0] = <<>>
      /\ \A i \in 1..n : q[i] = q[i - 1] \o frames[i].text
  BY <1>1 DEF KeptWalk, TextWalk, AddText
<1>4. PICK held : held = {k \in 0..n : KeptOf(p, q, k)}
  OBVIOUS
<1>5. 0 \in held
  <2>1. StopStarts(q[0]) = {} /\ p[0] = q[0]
    BY <1>3 DEF StopStarts
  <2>2. KeptOf(p, q, 0)
    BY <2>1 DEF KeptOf
  <2> QED
    BY <1>2, <1>4, <2>2
<1>6. ASSUME NEW k \in 0..(n - 1), k \in held  PROVE k + 1 \in held
  <2>1. PICK m : m = k + 1
    OBVIOUS
  <2>2. m \in 1..n /\ m \in 0..n /\ m - 1 = k /\ k \in 0..n /\ KeptOf(p, q, k)
    BY <1>2, <1>4, <1>6, <2>1
  <2>3. PICK more : more = frames[m].text
    OBVIOUS
  <2>4. more \in Seq(Bytes) /\ q[k] \in Seq(Bytes) /\ q[m] = q[k] \o more /\ p[m] = Kept(p[k], more)
    BY <1>2, <1>3, <2>2, <2>3, FrameTyped
  <2>5. CASE StopStarts(p[k]) = {}
    <3>1. p[m] = q[m] /\ \A i \in 0..k : StopStarts(q[i]) = {}
      BY <2>2, <2>4, <2>5 DEF Kept, KeptOf
    <3>2. /\ \A i \in 0..m : i = m \/ i \in 0..k
          /\ \A i \in 0..(m - 1) : i \in 0..k
          /\ m \in 1..m
      BY <2>2
    <3>3. KeptOf(p, q, m)
      BY <3>1, <3>2 DEF KeptOf
    <3> QED
      BY <1>4, <2>1, <2>2, <3>3
  <2>6. CASE StopStarts(p[k]) # {}
    <3>1. p[m] = p[k] /\ StopStarts(q[k]) # {}
      BY <2>2, <2>4, <2>6 DEF Kept, KeptOf
    <3>2. StopStarts(q[m]) # {}
      BY <2>4, <3>1, StartsStay
    <3>3. PICK j \in 1..k : /\ p[k] = q[j] /\ StopStarts(q[j]) # {}
                            /\ \A i \in 0..(j - 1) : StopStarts(q[i]) = {}
      BY <2>2, <2>6 DEF KeptOf
    <3>4. j \in 1..m
      BY <2>2
    <3>5. NoneInside => BeforeStop(p[m]) = BeforeStop(q[m])
      <4>1. NoneInside => BeforeStop(q[k] \o more) = BeforeStop(q[k])
        BY <2>4, <3>1, BeforeStopStays
      <4>2. NoneInside => BeforeStop(p[k]) = BeforeStop(q[k])
        BY <2>2 DEF KeptOf
      <4> QED
        BY <2>4, <3>1, <4>1, <4>2
    <3>6. KeptOf(p, q, m)
      BY <2>6, <3>1, <3>2, <3>3, <3>4, <3>5 DEF KeptOf
    <3> QED
      BY <1>4, <2>1, <2>2, <3>6
  <2> QED
    BY <2>5, <2>6
<1>7. held \in SUBSET (0..n)
  BY <1>4
<1>8. \A k \in 0..n : k \in held
  BY <1>2, <1>5, <1>6, <1>7, NextByNext
<1> QED
  BY <1>1, <1>4, <1>8

LEMMA UpToIs ==
  ASSUME sent \in Seq(Frames), NEW q, TextWalk(q, sent), NEW k \in 0..Len(sent)
  PROVE  TextUpTo(k) = q[k]
<1>1. PICK n, first, w : n = Len(sent) /\ first = SubSeq(sent, 1, k) /\ w = [i \in 0..k |-> q[i]]
  OBVIOUS
<1>2. n \in Nat /\ k \in Int /\ \A i \in 1..n : sent[i] \in Frames
  BY <1>1, SeqFacts
<1>3. \A i \in 1..k : sent[i] \in Frames
  BY <1>1, <1>2
<1>4. /\ SubSeq(sent, 1, k) \in Seq(Frames)
      /\ Len(SubSeq(sent, 1, k)) = IF 1 <= k THEN k - 1 + 1 ELSE 0
      /\ \A i \in 1..(k - 1 + 1) : SubSeq(sent, 1, k)[i] = sent[1 + i - 1]
  BY <1>2, <1>3, SubSeqProperties
<1>5. first \in Seq(Frames) /\ Len(first) = k /\ \A i \in 1..k : first[i] = sent[i]
  BY <1>1, <1>2, <1>4
<1>6. /\ q \in [0..n -> Seq(Bytes)] /\ q[0] = <<>>
      /\ \A i \in 1..n : q[i] = AddText(q[i - 1], sent[i])
  BY <1>1 DEF TextWalk
<1>7. TextWalk(w, first)
  <2>1. w \in [0..k -> Seq(Bytes)] /\ w[0] = q[0]
    BY <1>1, <1>2, <1>6
  <2>2. \A i \in 1..k : i \in 1..n /\ i \in 0..k /\ i - 1 \in 0..k
    BY <1>1, <1>2
  <2>3. \A i \in 1..k : w[i] = q[i] /\ w[i - 1] = q[i - 1]
    BY <1>1, <2>2
  <2> QED
    BY <1>5, <1>6, <2>1, <2>2, <2>3 DEF TextWalk
<1>8. AllText(first) = w[k]
  BY <1>5, <1>7, TextWalks
<1> QED
  BY <1>1, <1>8 DEF TextUpTo

(* What is kept of all frames is the text that decides what is due to a    *)
(* client.                                                                 *)
LEMMA KeptIsDue ==
  ASSUME sent \in Seq(Frames), NEW p, KeptWalk(p, sent)
  PROVE  /\ BeforeStop(p[Len(sent)]) = TextDue
         /\ StopStarts(p[Len(sent)]) # {} => StopStarts(TextSent) # {}
         /\ NoneInside => TextDue = BeforeStop(TextSent)
<1>1. PICK n : n = Len(sent)
  OBVIOUS
<1>2. n \in Nat /\ n \in 0..n /\ DOMAIN sent = 1..n
  BY <1>1, SeqFacts
<1>3. PICK q : TextWalk(q, sent) /\ TextSent = q[n]
  BY <1>1, TextWalks DEF TextSent
<1>4. KeptOf(p, q, n)
  BY <1>1, <1>2, <1>3, KeptIs
<1>5. \A k \in 1..n : TextUpTo(k) = q[k]
  BY <1>1, <1>3, UpToIs
<1>6. StoppedBy = {k \in 1..n : StopStarts(q[k]) # {}}
  BY <1>2, <1>5 DEF StoppedBy
<1>7. NoneInside => BeforeStop(p[n]) = BeforeStop(TextSent)
  BY <1>3, <1>4 DEF KeptOf
<1>8. BeforeStop(p[n]) = TextDue /\ (StopStarts(p[n]) # {} => StopStarts(TextSent) # {})
  <2>1. CASE StopStarts(p[n]) = {}
    <3>1. p[n] = q[n] /\ \A i \in 0..n : StopStarts(q[i]) = {}
      BY <1>4, <2>1 DEF KeptOf
    <3>2. StoppedBy = {}
      BY <1>2, <1>6, <3>1
    <3> QED
      BY <1>1, <1>3, <2>1, <3>1, <3>2 DEF TextDue, BeforeStop
  <2>2. CASE StopStarts(p[n]) # {}
    <3>1. StopStarts(q[n]) # {}
      BY <1>4, <2>2 DEF KeptOf
    <3>2. PICK j \in 1..n : /\ p[n] = q[j] /\ StopStarts(q[j]) # {}
                            /\ \A i \in 0..(j - 1) : StopStarts(q[i]) = {}
      BY <1>4, <2>2 DEF KeptOf
    <3>3. j \in StoppedBy /\ StoppedBy \in SUBSET Nat
      BY <1>2, <1>6, <3>2
    <3>4. PICK m : m = Min(StoppedBy)
      OBVIOUS
    <3>5. m \in StoppedBy /\ m <= j
      BY <3>3, <3>4, MinIsLeast
    <3>6. m = j
      <4>1. m \in 1..n /\ ~(m \in 0..(j - 1))
        BY <1>6, <3>2, <3>5
      <4> QED
        BY <1>2, <3>5, <4>1
    <3>7. TextDue = BeforeStop(TextUpTo(j))
      BY <3>3, <3>4, <3>6 DEF TextDue
    <3> QED
      BY <1>1, <1>3, <1>5, <3>1, <3>2, <3>7
  <2> QED
    BY <2>1, <2>2
<1> QED
  BY <1>1, <1>7, <1>8

-----------------------------------------------------------------------------
(* The invariant.                                                          *)

(* A handler has gathered what the frames it read come to, and told its    *)
(* client; one that failed on the backend's word has not gathered the last.*)
(* While it relays, and when it answers, no frame reported an error, and   *)
(* it has read up to the first frame that brought a stop, or up to the     *)
(* end.                                                                    *)
Follows(h, r, g, frames, end, cause) ==
  /\ OutTells(h, r)
  /\ r.read \in 0..Len(frames)
  /\ \E k \in 0..r.read : Core(r) = g[k]
  /\ r.stage \in {"relaying", "answered"} =>
       /\ Core(r) = g[r.read]
       /\ \A i \in 1..r.read : frames[i].stop # "error"
       /\ \A k \in 0..(r.read - 1) : ~g[k].filter.stopped
  /\ r.stage = "relaying" => ~r.filter.stopped
  /\ r.stage = "answered" => r.filter.stopped \/ (end = "clean" /\ r.read = Len(frames))
  /\ r.stage = "silent" => cause = "gone"

RelayTypes ==
  /\ endpoint \in {"chat", "legacy"}
  /\ sent \in Seq(Frames)
  /\ ending \in {"open", "clean", "broken", "no_quota"}
  /\ ctx \in [Handlers -> {"live", "gone", "out_of_time"}]
  /\ relay \in [Handlers -> RelayRecords]

RelayInv ==
  /\ RelayTypes
  /\ \E g, p : /\ Gathers(g, p, endpoint, sent)
              /\ \A h \in Handlers : Follows(h, relay[h], g, sent, ending, ctx[h])

LEMMA RelayStart == Init => RelayInv
<1> SUFFICES ASSUME Init  PROVE RelayInv
  OBVIOUS
<1>1. /\ endpoint \in {"chat", "legacy"} /\ sent = <<>> /\ ending = "open"
      /\ ctx = [h \in Handlers |-> "live"] /\ relay = [h \in Handlers |-> NewRelay(h)]
  BY DEF Init
<1>2. PICK echo : echo = EchoOf(endpoint)
  OBVIOUS
<1>3. Echo = echo /\ echo \in WholeTexts /\ echo \in Seq(Bytes)
  BY <1>2, FreshTyped DEF Echo, EchoOf
<1>4. PICK none : none = <<>> /\ none \in FragmentSeqs
  <2>1. <<>> \in FragmentSeqs
    BY EmptySeq DEF FragmentSeqs
  <2> QED
    BY <2>1
<1>5. <<>> \in Seq(Events) /\ PutTogether(<<>>) = Nothing /\ Nothing = Look(<<>>, none) /\ <<>> \in Seq(Bytes)
  <2>1. Presented(none) = <<>>
    BY <1>4 DEF Presented
  <2> QED
    BY <1>4, <2>1, SeenStep, EmptySeq, Zenon DEF Nothing, Look
<1>6. ASSUME NEW h \in Handlers
      PROVE  /\ NewRelay(h) \in RelayRecords /\ OutTells(h, NewRelay(h))
             /\ NewRelay(h).stage = "relaying" /\ NewRelay(h).read = 0
             /\ ~NewRelay(h).filter.stopped
             /\ Core(NewRelay(h)) = FreshOf(endpoint)
  <2>1. PICK o : o = IF h = "stream" THEN Text(echo) ELSE <<>>
    OBVIOUS
  <2>2. PICK r : r = [stage |-> "relaying", read |-> 0, filter |-> NewFilter, finish |-> "", usage |-> "none",
                      calls |-> <<>>, text |-> echo, out |-> o, filed |-> FALSE]
    BY Zenon
  <2>3. NewRelay(h) = r
    BY <1>3, <2>1, <2>2, Zenon DEF NewRelay
  <2>4. o \in Outs /\ (h = "stream" => o \in Seq(Events) /\ PutTogether(o) = Look(echo, none))
    <3>1. CASE h = "stream"
      <4>1. PICK empty : empty = <<>> /\ empty \in Seq(Bytes) /\ empty \in Seq(Events)
                         /\ PutTogether(empty) = Look(empty, none)
        BY <1>5
      <4>2. empty \o Text(echo) \in Seq(Events) /\ PutTogether(empty \o Text(echo)) = Look(empty \o echo, none)
        BY <1>3, <1>4, <4>1, LookGrows
      <4>3. Text(echo) \in Seq(Events)
        BY <1>3, <1>5, NothingSeen, TextSeen
      <4>4. <<>> \o Text(echo) = Text(echo) /\ <<>> \o echo = echo
        BY <1>3, <4>3, ConcatEmptySeq
      <4> QED
        BY <2>1, <3>1, <4>1, <4>2, <4>4 DEF Outs
    <3>2. CASE h # "stream"
      BY <1>5, <2>1, <3>2 DEF Outs
    <3> QED
      BY <3>1, <3>2
  <2>5. r \in RelayRecords
    <3>1. NewFilter \in Filters
      BY WholeTyped DEF NewFilter, Filters
    <3> QED
      BY <1>3, <1>4, <2>2, <2>4, <3>1, Zenon DEF RelayRecords, Stages, Reasons
  <2>6. /\ r.stage = "relaying" /\ r.read = 0 /\ r.filter = NewFilter /\ r.text = echo /\ r.calls = none /\ r.out = o
        /\ r.finish = "" /\ r.usage = "none"
    BY <1>4, <2>2, Zenon
  <2>7. OutTells(h, r)
    BY <2>1, <2>4, <2>6, Zenon DEF OutTells
  <2>8. Core(r) = FreshOf(endpoint)
    BY <1>2, <1>4, <2>6, Zenon DEF Core, FreshOf
  <2>9. ~r.filter.stopped
    <3>1. NewFilter.stopped = FALSE
      BY DEF NewFilter
    <3> QED
      BY <2>6, <3>1, Zenon
  <2> QED
    BY <2>3, <2>5, <2>6, <2>7, <2>8, <2>9, Zenon
<1>7. RelayTypes
  <2>1. relay \in [Handlers -> RelayRecords]
    BY <1>1, <1>6
  <2> QED
    BY <1>1, <2>1 DEF RelayTypes
<1>8. PICK g, p : Gathers(g, p, endpoint, sent)
  BY <1>1, GathersStart
<1>9. g[0] = FreshOf(endpoint) /\ Len(sent) = 0
  BY <1>1, <1>8 DEF Gathers
<1>10. ASSUME NEW h \in Handlers  PROVE Follows(h, relay[h], g, sent, ending, ctx[h])
  <2>1. PICK r : r = relay[h]
    OBVIOUS
  <2>2. /\ r \in RelayRecords /\ OutTells(h, r) /\ r.stage = "relaying" /\ r.read = 0
        /\ ~r.filter.stopped /\ Core(r) = g[0]
    BY <1>1, <1>6, <1>9, <2>1
  <2>3. Follows(h, r, g, sent, ending, ctx[h])
    BY <1>9, <2>2 DEF Follows
  <2> QED
    BY <2>1, <2>3
<1> QED
  BY <1>7, <1>8, <1>10 DEF RelayInv

(* A handler takes one more frame. *)
LEMMA HandleFollows ==
  ASSUME RelayTypes, NEW g, NEW p, Gathers(g, p, endpoint, sent),
         NEW h \in Handlers, NEW r \in RelayRecords, NEW cause, NEW n \in 1..Len(sent),
         r.stage = "relaying", r.read + 1 = n, Follows(h, r, g, sent, ending, cause)
  PROVE  /\ Handle(h, [r EXCEPT !.read = n], sent[n]) \in RelayRecords
         /\ Follows(h, Handle(h, [r EXCEPT !.read = n], sent[n]), g, sent, ending, cause)
<1>1. PICK q, frame, s : q = [r EXCEPT !.read = n] /\ frame = sent[n] /\ s = Handle(h, q, frame)
  OBVIOUS
<1>2. Len(sent) \in Nat /\ frame \in Frames /\ n \in Nat /\ n - 1 = r.read /\ endpoint \in {"chat", "legacy"}
  BY <1>1, SeqFacts, RecordFields DEF RelayTypes
<1>3. /\ q \in RelayRecords /\ q.stage = "relaying" /\ q.read = n /\ q.filter = r.filter /\ Core(q) = Core(r)
      /\ OutTells(h, q)
  <2>1. q \in RelayRecords /\ q.stage = "relaying" /\ q.read = n /\ q.out = r.out
    BY <1>1, <1>2 DEF RelayRecords
  <2>2. /\ q.filter = r.filter /\ q.finish = r.finish /\ q.usage = r.usage
        /\ q.calls = r.calls /\ q.text = r.text
    BY <1>1 DEF RelayRecords
  <2>3. OutTells(h, q)
    BY <2>1, <2>2 DEF OutTells, Follows
  <2> QED
    BY <2>1, <2>2, <2>3 DEF Core
<1>4. /\ Core(r) = g[n - 1] /\ \A i \in 1..(n - 1) : sent[i].stop # "error"
      /\ \A k \in 0..(n - 1) : ~g[k].filter.stopped
  <2>1. /\ Core(r) = g[r.read] /\ \A i \in 1..r.read : sent[i].stop # "error"
        /\ \A k \in 0..(r.read - 1) : ~g[k].filter.stopped
        /\ ~r.filter.stopped
    BY DEF Follows
  <2>2. ~g[n - 1].filter.stopped
    <3>1. Core(r).filter = r.filter
      BY DEF Core
    <3> QED
      BY <1>2, <2>1, <3>1
  <2>3. \A k \in 0..(n - 1) : k = n - 1 \/ k \in 0..(r.read - 1)
    BY <1>2
  <2> QED
    BY <1>2, <2>1, <2>2, <2>3
<1>5. /\ g[n] = GatherOf(endpoint, g[n - 1], frame) /\ n - 1 \in 0..Len(sent) /\ g[n - 1] \in Cores
      /\ \E o \in Seq(Bytes) : g[n - 1].text = EchoOf(endpoint) \o o /\ Filtered(g[n - 1].filter, o, p[n - 1])
      /\ p[n - 1] \in Seq(Bytes)
  <2>1. n - 1 \in 0..Len(sent)
    BY <1>2
  <2> QED
    BY <1>1, <2>1 DEF Gathers, KeptWalk
<1>6. /\ Write(q.filter, frame.text).filter \in Filters /\ Write(q.filter, frame.text).out \in WholeTexts
  <2>1. PICK o \in Seq(Bytes) : g[n - 1].text = EchoOf(endpoint) \o o /\ Filtered(g[n - 1].filter, o, p[n - 1])
    BY <1>5
  <2>2. g[n - 1].filter = q.filter
    <3>1. Core(r).filter = r.filter
      BY DEF Core
    <3> QED
      BY <1>3, <1>4, <3>1
  <2>3. PICK c, t : c = g[n - 1] /\ t = p[n - 1]
    OBVIOUS
  <2>4. Write(c.filter, frame.text).filter \in Filters /\ Write(c.filter, frame.text).out \in WholeTexts
    <3>1. c \in Cores /\ t \in Seq(Bytes) /\ c.text = EchoOf(endpoint) \o o /\ Filtered(c.filter, o, t)
      BY <1>5, <2>1, <2>3
    <3> QED
      BY <1>2, <3>1, FrameFiltered
  <2> QED
    BY <2>2, <2>3, <2>4
<1>7. PICK after : after = Gathered(h, q, frame)
  OBVIOUS
<1>8. /\ after \in RelayRecords /\ OutTells(h, after) /\ after.stage = "relaying" /\ after.read = n
      /\ Core(after) = g[n]
  BY <1>2, <1>3, <1>4, <1>5, <1>6, <1>7, GatheredTells
<1>9. CASE frame.stop = "error"
  <2>1. s = Failed(h, q, "backend")
    BY <1>1, <1>9, HandleCases
  <2>2. Becomes(q, s, "failed") /\ OutTells(h, s)
    BY <1>3, <2>1, FailedTells
  <2>3. s \in RelayRecords /\ s.stage = "failed" /\ s.read = n /\ Core(s) = g[n - 1] /\ n - 1 \in 0..n
    BY <1>2, <1>3, <1>4, <2>2 DEF Becomes
  <2>4. Follows(h, s, g, sent, ending, cause)
    BY <1>2, <2>2, <2>3 DEF Follows
  <2> QED
    BY <1>1, <2>3, <2>4
<1>10. ASSUME frame.stop # "error"
       PROVE  /\ \A i \in 1..n : sent[i].stop # "error"
              /\ n \in 0..n /\ n \in 0..Len(sent)
  <2>1. \A i \in 1..n : i = n \/ i \in 1..(n - 1)
    BY <1>2
  <2> QED
    BY <1>1, <1>2, <1>4, <1>10, <2>1
<1>11. CASE frame.stop # "error" /\ after.filter.stopped
  <2>1. s = Complete(h, after)
    BY <1>1, <1>7, <1>11, HandleCases
  <2>2. Becomes(after, s, "answered") /\ OutTells(h, s)
    BY <1>8, <2>1, CompleteTells
  <2>3. s \in RelayRecords /\ s.stage = "answered" /\ s.read = n /\ Core(s) = g[n] /\ s.filter = after.filter
    BY <1>8, <2>2, SameAnswer DEF Becomes
  <2>4. Follows(h, s, g, sent, ending, cause)
    BY <1>2, <1>4, <1>10, <1>11, <2>2, <2>3 DEF Follows
  <2> QED
    BY <1>1, <2>3, <2>4
<1>12. CASE frame.stop # "error" /\ ~after.filter.stopped
  <2>1. s = after
    BY <1>1, <1>7, <1>12, HandleCases
  <2>2. Follows(h, after, g, sent, ending, cause)
    BY <1>2, <1>4, <1>8, <1>10, <1>12 DEF Follows
  <2> QED
    BY <1>1, <1>8, <2>1, <2>2
<1> QED
  BY <1>9, <1>11, <1>12

(* A handler that relays is done: it has answered, failed, or fallen       *)
(* silent.                                                                 *)
LEMMA DoneFollows ==
  ASSUME NEW g, NEW h \in Handlers, NEW r \in RelayRecords, NEW s, NEW stage \in {"answered", "failed", "silent"},
         NEW frames, NEW end, NEW cause,
         r.stage = "relaying", Follows(h, r, g, frames, end, cause), OutTells(h, s), Becomes(r, s, stage),
         stage = "answered" => end = "clean" /\ r.read = Len(frames),
         stage = "silent" => cause = "gone"
  PROVE  s \in RelayRecords /\ Follows(h, s, g, frames, end, cause)
<1>1. s \in RelayRecords /\ s.stage = stage /\ s.read = r.read /\ Core(s) = Core(r)
  BY DEF Becomes
<1> QED
  BY <1>1 DEF Follows

LEMMA OneMoves ==
  ASSUME RelayTypes, NEW g, NEW p, Gathers(g, p, endpoint, sent),
         \A h \in Handlers : Follows(h, relay[h], g, sent, ending, ctx[h]),
         NEW h \in Handlers, NEW s \in RelayRecords, Follows(h, s, g, sent, ending, ctx[h]),
         relay' = [relay EXCEPT ![h] = s], UNCHANGED <<endpoint, sent, ending, ctx>>
  PROVE  RelayInv'
<1>1. RelayTypes'
  BY DEF RelayTypes
<1>2. ASSUME NEW i \in Handlers  PROVE Follows(i, relay'[i], g, sent, ending, ctx[i])
  <2>1. relay'[i] = IF i = h THEN s ELSE relay[i]
    BY DEF RelayTypes
  <2>2. CASE i = h
    BY <2>1, <2>2
  <2>3. CASE i # h
    BY <2>1, <2>3
  <2> QED
    BY <2>2, <2>3
<1>3. Gathers(g, p, endpoint', sent') /\ \A i \in Handlers : Follows(i, relay'[i], g, sent', ending', ctx'[i])
  BY <1>2
<1> QED
  BY <1>1, <1>3 DEF RelayInv

LEMMA RelayStep == RelayInv /\ [Next]_vars => RelayInv'
<1> SUFFICES ASSUME RelayInv, [Next]_vars  PROVE RelayInv'
  OBVIOUS
<1>1. RelayTypes
  BY DEF RelayInv
<1>2. PICK g, p : /\ Gathers(g, p, endpoint, sent)
                  /\ \A h \in Handlers : Follows(h, relay[h], g, sent, ending, ctx[h])
  BY DEF RelayInv
<1>3. \A h \in Handlers : relay[h] \in RelayRecords /\ Follows(h, relay[h], g, sent, ending, ctx[h])
  BY <1>1, <1>2 DEF RelayTypes
<1>4. CASE UNCHANGED vars
  <2>1. RelayTypes'
    BY <1>1, <1>4 DEF RelayTypes, vars
  <2>2. Gathers(g, p, endpoint', sent') /\ \A h \in Handlers : Follows(h, relay'[h], g, sent', ending', ctx'[h])
    BY <1>2, <1>4 DEF vars
  <2> QED
    BY <2>1, <2>2 DEF RelayInv
<1>5. ASSUME NEW frame \in Frames, SendFrame(frame)  PROVE RelayInv'
  <2>1. /\ ending = "open" /\ sent' = Append(sent, frame) /\ UNCHANGED <<endpoint, ending, ctx, relay>>
        /\ sent \in Seq(Frames) /\ endpoint \in {"chat", "legacy"}
    BY <1>1, <1>5 DEF SendFrame, RelayTypes
  <2>2. PICK more : more = Append(sent, frame)
    OBVIOUS
  <2>3. /\ more \in Seq(Frames) /\ Len(more) = Len(sent) + 1 /\ Len(sent) \in Nat
        /\ \A k \in 1..Len(sent) : more[k] = sent[k]
    BY <2>1, <2>2, AppendProperties, SeqFacts
  <2>4. RelayTypes'
    BY <1>1, <2>1, <2>2, <2>3 DEF RelayTypes
  <2>5. PICK g2, p2 : Gathers(g2, p2, endpoint, more) /\ \A k \in 0..Len(sent) : g2[k] = g[k]
    <3>1. sent \in Seq(Frames) /\ Gathers(g, p, endpoint, sent)
      BY <1>2, <2>1
    <3>2. \E g2, p2 : GathersOn(g2, p2, g, endpoint, sent, frame)
      BY <3>1, GathersMore
    <3> QED
      BY <2>2, <3>2 DEF GathersOn
  <2>6. ASSUME NEW h \in Handlers  PROVE Follows(h, relay[h], g2, more, ending, ctx[h])
    <3>1. PICK r : r = relay[h]
      OBVIOUS
    <3>2. r \in RelayRecords /\ Follows(h, r, g, sent, ending, ctx[h]) /\ r.read \in Nat
      BY <1>3, <3>1, RecordFields
    <3>3. /\ r.read \in 0..Len(sent) /\ r.read \in 0..Len(more)
          /\ \A k \in 0..r.read : k \in 0..Len(sent) /\ g2[k] = g[k]
          /\ \A k \in 0..(r.read - 1) : k \in 0..Len(sent) /\ g2[k] = g[k]
          /\ \A i \in 1..r.read : more[i] = sent[i]
          /\ g2[r.read] = g[r.read]
      <4>1. r.read \in 0..Len(sent)
        BY <3>2 DEF Follows
      <4> QED
        BY <2>3, <2>5, <4>1
    <3>4. Follows(h, r, g2, more, ending, ctx[h])
      BY <2>1, <3>2, <3>3 DEF Follows
    <3> QED
      BY <3>1, <3>4
  <2>7. Gathers(g2, p2, endpoint', sent') /\ \A h \in Handlers : Follows(h, relay'[h], g2, sent', ending', ctx'[h])
    BY <2>1, <2>2, <2>5, <2>6
  <2> QED
    BY <2>4, <2>7 DEF RelayInv
<1>6. ASSUME NEW how \in {"clean", "broken", "no_quota"}, EndStream(how)  PROVE RelayInv'
  <2>1. ending = "open" /\ ending' = how /\ UNCHANGED <<endpoint, sent, ctx, relay>>
    BY <1>6 DEF EndStream
  <2>2. RelayTypes'
    BY <1>1, <2>1 DEF RelayTypes
  <2>3. ASSUME NEW h \in Handlers  PROVE Follows(h, relay[h], g, sent, how, ctx[h])
    BY <1>3, <2>1 DEF Follows
  <2>4. Gathers(g, p, endpoint', sent') /\ \A h \in Handlers : Follows(h, relay'[h], g, sent', ending', ctx'[h])
    BY <1>2, <2>1, <2>3
  <2> QED
    BY <2>2, <2>4 DEF RelayInv
<1>7. ASSUME NEW h \in Handlers, NEW s \in RelayRecords, Follows(h, s, g, sent, ending, ctx[h]),
             relay' = [relay EXCEPT ![h] = s], UNCHANGED <<endpoint, sent, ending, ctx>>
      PROVE  RelayInv'
  BY <1>1, <1>2, <1>7, OneMoves
<1>8. ASSUME NEW h \in Handlers, ReadFrame(h)  PROVE RelayInv'
  <2>1. PICK r, n : r = relay[h] /\ n = relay[h].read + 1
    OBVIOUS
  <2>2. r \in RelayRecords /\ r.read \in Nat /\ r.stage = "relaying" /\ r.read < Len(sent)
        /\ Follows(h, r, g, sent, ending, ctx[h])
    BY <1>3, <1>8, <2>1, RecordFields DEF ReadFrame, Relaying
  <2>3. n \in 1..Len(sent) /\ r.read + 1 = n
    <3>1. Len(sent) \in Nat
      BY <1>1, SeqFacts DEF RelayTypes
    <3> QED
      BY <2>1, <2>2, <3>1
  <2>4. PICK s : s = Handle(h, [r EXCEPT !.read = n], sent[n])
    OBVIOUS
  <2>5. s \in RelayRecords /\ Follows(h, s, g, sent, ending, ctx[h])
    BY <1>1, <1>2, <2>2, <2>3, <2>4, HandleFollows
  <2>6. relay' = [relay EXCEPT ![h] = s] /\ UNCHANGED <<endpoint, sent, ending, ctx>>
    BY <1>1, <1>8, <2>1, <2>4 DEF ReadFrame, RelayTypes
  <2> QED
    BY <1>7, <2>5, <2>6
<1>9. ASSUME NEW h \in Handlers, Relaying(h)
      PROVE  relay[h] \in RelayRecords /\ relay[h].stage = "relaying" /\ OutTells(h, relay[h])
  BY <1>3, <1>9 DEF Relaying, Follows
<1>10. ASSUME NEW h \in Handlers, ReadToEnd(h)  PROVE RelayInv'
  <2>1. /\ Relaying(h) /\ relay[h].read = Len(sent) /\ ending = "clean"
        /\ relay' = [relay EXCEPT ![h] = Complete(h, relay[h])] /\ UNCHANGED <<endpoint, sent, ending, ctx>>
    BY <1>1, <1>10 DEF ReadToEnd, RelayTypes
  <2>2. PICK r, s : r = relay[h] /\ s = Complete(h, relay[h])
    OBVIOUS
  <2>3. r \in RelayRecords /\ r.stage = "relaying" /\ OutTells(h, r) /\ Follows(h, r, g, sent, ending, ctx[h])
    BY <1>3, <1>9, <2>1, <2>2
  <2>4. Becomes(r, s, "answered") /\ OutTells(h, s)
    BY <2>2, <2>3, CompleteTells
  <2>5. s \in RelayRecords /\ Follows(h, s, g, sent, ending, ctx[h])
    BY <2>1, <2>2, <2>3, <2>4, DoneFollows
  <2> QED
    BY <1>7, <2>1, <2>2, <2>5
<1>11. ASSUME NEW h \in Handlers, ReadFails(h)  PROVE RelayInv'
  <2>1. PICK r, f, s : /\ r = relay[h] /\ f = Failed(h, relay[h], "upstream")
                       /\ s = [f EXCEPT !.filed = (ending = "no_quota")]
    OBVIOUS
  <2>2. Relaying(h) /\ relay' = [relay EXCEPT ![h] = s] /\ UNCHANGED <<endpoint, sent, ending, ctx>>
    BY <1>1, <1>11, <2>1 DEF ReadFails, RelayTypes
  <2>3. r \in RelayRecords /\ r.stage = "relaying" /\ OutTells(h, r) /\ Follows(h, r, g, sent, ending, ctx[h])
    BY <1>3, <1>9, <2>1, <2>2
  <2>4. Becomes(r, f, "failed") /\ OutTells(h, f)
    BY <2>1, <2>3, FailedTells
  <2>5. Becomes(r, s, "failed") /\ OutTells(h, s)
    <3>1. f \in RelayRecords /\ f.stage = "failed"
      BY <2>4 DEF Becomes
    <3>2. /\ s \in RelayRecords /\ s.stage = f.stage /\ s.read = f.read /\ s.out = f.out
      BY <2>1, <3>1 DEF RelayRecords
    <3>3. /\ s.filter = f.filter /\ s.finish = f.finish /\ s.usage = f.usage
          /\ s.calls = f.calls /\ s.text = f.text
      BY <2>1, <3>1 DEF RelayRecords
    <3>4. Core(s) = Core(f)
      BY <3>3 DEF Core
    <3>5. OutTells(h, s)
      BY <2>4, <3>1, <3>2, <3>3 DEF OutTells
    <3> QED
      BY <2>4, <3>2, <3>4, <3>5 DEF Becomes
  <2>6. s \in RelayRecords /\ Follows(h, s, g, sent, ending, ctx[h])
    BY <2>3, <2>5, DoneFollows
  <2> QED
    BY <1>7, <2>2, <2>6
<1>12. ASSUME NEW h \in Handlers, Notice(h)  PROVE RelayInv'
  <2>1. PICK r, s : r = relay[h] /\ s = IF ctx[h] = "gone" THEN Over(r, "silent", <<>>) ELSE Failed(h, r, "timeout")
    OBVIOUS
  <2>2. Relaying(h) /\ relay' = [relay EXCEPT ![h] = s] /\ UNCHANGED <<endpoint, sent, ending, ctx>>
    BY <1>1, <1>12, <2>1 DEF Notice, RelayTypes
  <2>3. r \in RelayRecords /\ r.stage = "relaying" /\ OutTells(h, r) /\ Follows(h, r, g, sent, ending, ctx[h])
    BY <1>3, <1>9, <2>1, <2>2
  <2>4. CASE ctx[h] = "gone"
    <3>1. s = Over(r, "silent", <<>>)
      BY <2>1, <2>4
    <3>2. Becomes(r, s, "silent") /\ OutTells(h, s)
      BY <2>3, <3>1, SilentTells
    <3>3. s \in RelayRecords /\ Follows(h, s, g, sent, ending, ctx[h])
      BY <2>3, <2>4, <3>2, DoneFollows
    <3> QED
      BY <1>7, <2>2, <3>3
  <2>5. CASE ctx[h] # "gone"
    <3>1. s = Failed(h, r, "timeout")
      BY <2>1, <2>5
    <3>2. Becomes(r, s, "failed") /\ OutTells(h, s)
      BY <2>3, <3>1, FailedTells
    <3>3. s \in RelayRecords /\ Follows(h, s, g, sent, ending, ctx[h])
      BY <2>3, <3>2, DoneFollows
    <3> QED
      BY <1>7, <2>2, <3>3
  <2> QED
    BY <2>4, <2>5
<1>13. ASSUME NEW h \in Handlers, NEW how \in {"gone", "out_of_time"}, EndRequest(h, how)  PROVE RelayInv'
  <2>1. Relaying(h) /\ ctx' = [ctx EXCEPT ![h] = how] /\ UNCHANGED <<endpoint, sent, ending, relay>>
    BY <1>13 DEF EndRequest
  <2>2. RelayTypes'
    BY <1>1, <2>1 DEF RelayTypes
  <2>3. ASSUME NEW i \in Handlers  PROVE Follows(i, relay[i], g, sent, ending, ctx'[i])
    <3>1. CASE i = h
      <4>1. relay[i].stage = "relaying"
        BY <2>1, <3>1 DEF Relaying
      <4> QED
        BY <1>3, <4>1 DEF Follows
    <3>2. CASE i # h
      <4>1. ctx'[i] = ctx[i]
        BY <1>1, <2>1, <3>2 DEF RelayTypes
      <4> QED
        BY <1>3, <4>1
    <3> QED
      BY <3>1, <3>2
  <2>4. Gathers(g, p, endpoint', sent') /\ \A i \in Handlers : Follows(i, relay'[i], g, sent', ending', ctx'[i])
    BY <1>2, <2>1, <2>3
  <2> QED
    BY <2>2, <2>4 DEF RelayInv
<1>14. ASSUME NEW h \in Handlers, ClientLeaves(h) \/ RequestTimesOut(h)  PROVE RelayInv'
  BY <1>13, <1>14 DEF ClientLeaves, RequestTimesOut
<1> QED
  BY <1>4, <1>5, <1>6, <1>8, <1>10, <1>11, <1>12, <1>14 DEF Next

LEMMA RelayHolds == Spec => []RelayInv
<1>1. RelayInv /\ [Next]_vars => RelayInv'
  BY RelayStep
<1> QED
  BY <1>1, RelayStart, PTL DEF Spec

-----------------------------------------------------------------------------
(* What the runs check.                                                    *)

(* Handlers that have answered read the same frames. *)
LEMMA SameReading ==
  ASSUME NEW g, NEW frames, NEW end, NEW r \in RelayRecords, NEW s \in RelayRecords, NEW c, NEW d,
         Follows("stream", r, g, frames, end, c), Follows("whole", s, g, frames, end, d),
         r.stage = "answered", s.stage = "answered"
  PROVE  r.read = s.read /\ Core(r) = Core(s)
<1>1. /\ r.read \in Nat /\ Core(r) = g[r.read] /\ \A k \in 0..(r.read - 1) : ~g[k].filter.stopped
      /\ r.filter.stopped \/ r.read = Len(frames)
      /\ r.read \in 0..Len(frames)
  BY RecordFields DEF Follows
<1>2. /\ s.read \in Nat /\ Core(s) = g[s.read] /\ \A k \in 0..(s.read - 1) : ~g[k].filter.stopped
      /\ s.filter.stopped \/ s.read = Len(frames)
      /\ s.read \in 0..Len(frames)
  BY RecordFields DEF Follows
<1>3. Core(r).filter = r.filter /\ Core(s).filter = s.filter
  BY DEF Core
<1>4. r.filter.stopped => ~(r.read \in 0..(s.read - 1))
  BY <1>1, <1>2, <1>3
<1>5. s.filter.stopped => ~(s.read \in 0..(r.read - 1))
  BY <1>1, <1>2, <1>3
<1>6. r.read = s.read
  BY <1>1, <1>2, <1>4, <1>5
<1> QED
  BY <1>1, <1>2, <1>6

LEMMA InvAgrees == RelayInv => PathsAgree
<1> SUFFICES ASSUME RelayInv, Answered("stream"), Answered("whole")
             PROVE  <<PutTogether(relay["stream"].out)>> = relay["whole"].out
  BY DEF PathsAgree
<1>1. PICK r, s : r = relay["stream"] /\ s = relay["whole"]
  OBVIOUS
<1>2. PICK g, p : \A h \in Handlers : Follows(h, relay[h], g, sent, ending, ctx[h])
  BY DEF RelayInv
<1>3. /\ r \in RelayRecords /\ r.stage = "answered" /\ Follows("stream", r, g, sent, ending, ctx["stream"])
      /\ s \in RelayRecords /\ s.stage = "answered" /\ Follows("whole", s, g, sent, ending, ctx["whole"])
  BY <1>1, <1>2 DEF RelayInv, RelayTypes, Handlers, Answered
<1>4. AnswerOf(r) = AnswerOf(s)
  BY <1>3, SameReading, SameAnswer
<1>5. PutTogether(r.out) = AnswerOf(r) /\ s.out = <<AnswerOf(s)>>
  BY <1>3 DEF Follows, OutTells
<1> QED
  BY <1>1, <1>4, <1>5

(* What a handler has gathered is the clean beginning of the text. *)
LEMMA GatheredClean ==
  ASSUME RelayTypes, NEW g, NEW p, Gathers(g, p, endpoint, sent), NEW k \in 0..Len(sent)
  PROVE  /\ \E left \in Seq(Bytes) : Echo \o TextDue = g[k].text \o left
         /\ g[k].filter.stopped \/ k = Len(sent) =>
              g[k].text \o Flush(g[k].filter) = Echo \o TextDue
         /\ g[k].filter.stopped => StopStarts(TextSent) # {}
         /\ g[k].text \in Seq(Bytes)
<1>1. PICK echo, f, t : echo = EchoOf(endpoint) /\ f = g[k].filter /\ t = p[k]
  OBVIOUS
<1>2. Echo = echo /\ echo \in Seq(Bytes)
  BY <1>1, FreshTyped DEF Echo, EchoOf
<1>3. PICK o \in Seq(Bytes) : g[k].text = echo \o o /\ Filtered(f, o, t)
  BY <1>1 DEF Gathers
<1>4. sent \in Seq(Frames) /\ KeptWalk(p, sent) /\ t \in Seq(Bytes)
  BY <1>1 DEF RelayTypes, Gathers, KeptWalk
<1>5. f \in Filters /\ f.stopped \in BOOLEAN /\ f.pending \in Seq(Bytes) /\ Flush(f) \in Seq(Bytes)
  <2>1. g[k] \in Cores
    BY DEF Gathers
  <2>2. f \in Filters
    BY <1>1, <2>1 DEF Cores
  <2>3. f.stopped \in BOOLEAN /\ f.pending \in WholeTexts
    BY <2>2 DEF Filters
  <2> QED
    BY <2>2, <2>3, WholeTyped DEF Flush
<1>6. PICK kept, rest \in Seq(Bytes) :
        /\ kept = t \o rest /\ BeforeStop(kept) = TextDue
        /\ StopStarts(kept) # {} => StopStarts(TextSent) # {}
        /\ k = Len(sent) \/ StopStarts(t) # {} => rest = <<>>
  <2>1. PICK n : n = Len(sent)
    OBVIOUS
  <2>2. PICK rest \in Seq(Bytes) : p[n] = t \o rest /\ (k = n \/ StopStarts(t) # {} => rest = <<>>)
    BY <1>1, <1>4, <2>1, KeptBegins
  <2>3. t \o rest \in Seq(Bytes) /\ rest \in Seq(Bytes)
    BY <1>4, <2>2, ConcatProperties
  <2>4. BeforeStop(p[n]) = TextDue /\ (StopStarts(p[n]) # {} => StopStarts(TextSent) # {})
    BY <1>4, <2>1, KeptIsDue
  <2> QED
    BY <2>1, <2>2, <2>3, <2>4
<1>7. /\ \E left \in Seq(Bytes) : TextDue = o \o left
      /\ f.stopped \/ k = Len(sent) => o \o Flush(f) = TextDue
  <2>1. f.stopped => rest = <<>>
    BY <1>3, <1>6 DEF Filtered
  <2>2. /\ \E left \in Seq(Bytes) : BeforeStop(t \o rest) = o \o left
        /\ rest = <<>> => o \o Flush(f) = BeforeStop(t \o rest)
    BY <1>3, <1>4, <1>5, <2>1, OutIsClean
  <2> QED
    BY <1>6, <2>1, <2>2
<1>8. \A left \in Seq(Bytes) : (echo \o o) \o left = echo \o (o \o left)
  BY <1>2, TextsJoin, Zenon
<1>9. \E left \in Seq(Bytes) : Echo \o TextDue = g[k].text \o left
  BY <1>2, <1>3, <1>7, <1>8
<1>10. f.stopped \/ k = Len(sent) => g[k].text \o Flush(f) = Echo \o TextDue
  BY <1>2, <1>3, <1>5, <1>7, <1>8
<1>11. f.stopped => StopStarts(TextSent) # {}
  BY <1>3, <1>4, <1>6, ConcatEmptySeq DEF Filtered
<1>12. g[k].text \in Seq(Bytes)
  BY <1>2, <1>3, ConcatProperties
<1> QED
  BY <1>1, <1>9, <1>10, <1>11, <1>12

LEMMA PrefixOfConcat ==
  ASSUME NEW s \in Seq(Bytes), NEW t \in Seq(Bytes)
  PROVE  IsPrefix(s, s \o t)
<1>1. PICK u, n : u = s \o t /\ n = Len(s)
  OBVIOUS
<1>2. u \in Seq(Bytes) /\ n \in Nat /\ n <= Len(u) /\ n \in 0..n /\ n \in 0..Len(u) /\ \A k \in 1..n : u[k] = s[k]
  BY <1>1, ConcatProperties, SeqFacts
<1>3. SubSeq(s, 1, n) = SubSeq(u, 1, n)
  <2>1. /\ SubSeq(s, 1, n) \in Seq(Bytes) /\ Len(SubSeq(s, 1, n)) = n
        /\ \A k \in 1..n : SubSeq(s, 1, n)[k] = s[k]
    BY <1>1, <1>2, Slices
  <2>2. /\ SubSeq(u, 1, n) \in Seq(Bytes) /\ Len(SubSeq(u, 1, n)) = n
        /\ \A k \in 1..n : SubSeq(u, 1, n)[k] = u[k]
    BY <1>1, <1>2, Slices
  <2> QED
    BY <1>2, <2>1, <2>2, SeqEqual
<1> QED
  BY <1>1, <1>2, <1>3 DEF IsPrefix

LEMMA InvIsClean == RelayInv => TextIsClean
<1> SUFFICES ASSUME RelayInv  PROVE TextIsClean
  OBVIOUS
<1>1. RelayTypes
  BY DEF RelayInv
<1>2. PICK g, p : /\ Gathers(g, p, endpoint, sent)
                  /\ \A h \in Handlers : Follows(h, relay[h], g, sent, ending, ctx[h])
  BY DEF RelayInv
<1>3. PICK clean : clean = Echo \o TextDue
  OBVIOUS
<1>4. ASSUME NEW h \in Handlers
      PROVE  /\ relay[h].text \in Seq(Bytes)
             /\ IsPrefix(relay[h].text, clean)
             /\ Answered(h) => AnswerOf(relay[h]).text = clean
  <2>1. PICK r : r = relay[h]
    OBVIOUS
  <2>2. r \in RelayRecords /\ r.read \in Nat /\ Follows(h, r, g, sent, ending, ctx[h])
    BY <1>1, <1>2, <2>1, RecordFields DEF RelayTypes
  <2>3. PICK k \in 0..r.read : Core(r) = g[k] /\ (r.stage = "answered" => k = r.read)
    <3>1. CASE r.stage = "answered"
      <4>1. Core(r) = g[r.read] /\ r.read \in 0..r.read
        BY <2>2, <3>1 DEF Follows
      <4> QED
        BY <4>1
    <3>2. CASE r.stage # "answered"
      BY <2>2, <3>2 DEF Follows
    <3> QED
      BY <3>1, <3>2
  <2>4. k \in 0..Len(sent)
    <3>1. r.read \in 0..Len(sent) /\ Len(sent) \in Nat
      BY <1>1, <2>2, SeqFacts DEF Follows, RelayTypes
    <3> QED
      BY <3>1
  <2>5. r.text = g[k].text /\ r.filter = g[k].filter
    <3>1. Core(r).text = r.text /\ Core(r).filter = r.filter
      BY DEF Core
    <3> QED
      BY <2>3, <3>1
  <2>6. /\ \E left \in Seq(Bytes) : clean = r.text \o left
        /\ r.filter.stopped \/ k = Len(sent) => r.text \o Flush(r.filter) = clean
        /\ r.text \in Seq(Bytes)
    BY <1>1, <1>2, <1>3, <2>4, <2>5, GatheredClean
  <2>7. IsPrefix(r.text, clean)
    <3>1. PICK left \in Seq(Bytes) : clean = r.text \o left
      BY <2>6
    <3> QED
      BY <2>6, <3>1, PrefixOfConcat
  <2>8. r.stage = "answered" => AnswerOf(r).text = clean
    <3>1. r.stage = "answered" => r.filter.stopped \/ k = Len(sent)
      BY <2>2, <2>3 DEF Follows
    <3>2. AnswerOf(r).text = r.text \o Flush(r.filter)
      BY DEF AnswerOf
    <3> QED
      BY <2>6, <3>1, <3>2
  <2> QED
    BY <2>1, <2>6, <2>7, <2>8 DEF Answered
<1>5. PICK s, w : s = relay["stream"] /\ w = relay["whole"]
  OBVIOUS
<1>6. /\ s.out \in Seq(Events)
      /\ s.stage # "answered" => PutTogether(s.out) = Look(s.text, s.calls)
      /\ s.stage = "answered" => PutTogether(s.out) = AnswerOf(s)
      /\ w.stage = "answered" => w.out = <<AnswerOf(w)>>
  BY <1>2, <1>5 DEF Handlers, Follows, OutTells
<1>7. /\ IsPrefix(s.text, clean) /\ IsPrefix(w.text, clean)
      /\ s.stage = "answered" => AnswerOf(s).text = clean
      /\ w.stage = "answered" => AnswerOf(w).text = clean
  BY <1>4, <1>5 DEF Handlers, Answered
<1>8. IsPrefix(clean, clean)
  <2>1. Len(clean) <= Len(clean)
    <3>1. clean \in Seq(Bytes)
      <4>1. PICK text : text \in Seq(Bytes) /\ BeforeStop(text) = TextDue
        <5>1. KeptWalk(p, sent) /\ Len(sent) \in 0..Len(sent)
          BY <1>1, <1>2, SeqFacts DEF RelayTypes, Gathers
        <5> QED
          BY <1>1, <5>1, KeptIsDue DEF RelayTypes, KeptWalk
      <4>2. TextDue \in Seq(Bytes)
        BY <4>1, BeforeStopIs
      <4>3. Echo \in Seq(Bytes)
        BY FreshTyped DEF Echo, EchoOf
      <4> QED
        BY <1>3, <4>2, <4>3, ConcatProperties
    <3> QED
      BY <3>1, SeqFacts
  <2> QED
    BY <2>1 DEF IsPrefix
<1>9. /\ IsPrefix(PutTogether(s.out).text, clean)
      /\ s.stage = "answered" => PutTogether(s.out).text = clean
      /\ w.stage = "answered" => w.out[1].text = clean
  <2>1. s.stage # "answered" => PutTogether(s.out).text = s.text
    <3>1. Look(s.text, s.calls).text = s.text
      BY DEF Look
    <3> QED
      BY <1>6, <3>1
  <2>2. s.stage = "answered" => PutTogether(s.out).text = clean
    BY <1>6, <1>7
  <2>3. w.stage = "answered" => w.out[1].text = clean
    BY <1>6, <1>7
  <2> QED
    BY <1>7, <1>8, <2>1, <2>2, <2>3
<1>10. \A h \in Handlers : IsPrefix(Delivered(h), clean)
  BY <1>5, <1>7, <1>9 DEF Handlers, Delivered
<1>11. Answered("stream") => Delivered("stream") = clean
  BY <1>5, <1>9 DEF Delivered, Answered
<1>12. Answered("whole") => relay["whole"].out[1].text = clean
  BY <1>5, <1>9 DEF Answered
<1>13. ASSUME NEW i \in DOMAIN s.out, s.out[i].kind = "text"
       PROVE  s.out[i].text[1] \notin Continuations
  <2>1. s.out[i] \in Events
    BY <1>6, SeqFacts
  <2>2. s.out[i] \in TextEvents
    BY <1>13, <2>1 DEF Events, CallEventSet, LastWords
  <2> QED
    BY <2>2 DEF TextEvents, WholeTexts
<1> QED
  BY <1>3, <1>5, <1>10, <1>11, <1>12, <1>13 DEF TextIsClean

LEMMA InvIsHonest == RelayInv => EndsAreTold
<1> SUFFICES ASSUME RelayInv, NEW h \in Handlers
             PROVE  /\ Answered(h) =>
                         /\ relay[h].filter.stopped \/ (ending = "clean" /\ relay[h].read = Len(sent))
                         /\ \A i \in 1..relay[h].read : sent[i].stop # "error"
                         /\ FinishOf(relay[h]) = "stop" /\ relay[h].calls # <<>> => StopStarts(TextSent) # {}
                    /\ relay[h].stage = "silent" => ctx[h] = "gone"
  BY DEF EndsAreTold
<1>1. PICK g, p : /\ Gathers(g, p, endpoint, sent)
                  /\ \A i \in Handlers : Follows(i, relay[i], g, sent, ending, ctx[i])
  BY DEF RelayInv
<1>2. PICK r : r = relay[h]
  OBVIOUS
<1>3. RelayTypes /\ r \in RelayRecords /\ Follows(h, r, g, sent, ending, ctx[h])
  BY <1>1, <1>2 DEF RelayInv, RelayTypes
<1>4. ASSUME r.stage = "answered", r.filter.stopped  PROVE StopStarts(TextSent) # {}
  <2>1. Core(r) = g[r.read] /\ r.read \in 0..Len(sent)
    BY <1>3, <1>4 DEF Follows
  <2>2. g[r.read].filter = r.filter
    <3>1. Core(r).filter = r.filter
      BY DEF Core
    <3> QED
      BY <2>1, <3>1
  <2> QED
    BY <1>1, <1>3, <1>4, <2>1, <2>2, GatheredClean
<1>5. FinishOf(r) = "stop" /\ r.calls # <<>> => r.filter.stopped
  BY <1>3, FinishTyped
<1> QED
  BY <1>2, <1>3, <1>4, <1>5 DEF Follows, Answered

(* The client of a stream puts together the very answer that the other     *)
(* handler writes in one piece.                                            *)
THEOREM HandlersAgree == Spec => []PathsAgree
<1>1. RelayInv => PathsAgree
  BY InvAgrees
<1> QED
  BY <1>1, RelayHolds, PTL

(* For any stop sequences, one inside another included: whatever a client  *)
(* is given begins what precedes the first stop in the text, as it stood   *)
(* when a frame first completed one, and an answer is all of that.         *)
THEOREM ClientsReadCleanText == Spec => []TextIsClean
<1>1. RelayInv => TextIsClean
  BY InvIsClean
<1> QED
  BY <1>1, RelayHolds, PTL

(* If no stop sequence begins and ends inside another, that is everything  *)
(* before the first stop of the whole text: how the backend cuts its text  *)
(* into frames makes no difference.                                        *)
THEOREM FirstStopEnds == NoneInside => (Spec => [](TextDue = BeforeStop(TextSent)))
<1> SUFFICES ASSUME NoneInside  PROVE Spec => [](TextDue = BeforeStop(TextSent))
  OBVIOUS
<1>1. RelayInv => TextDue = BeforeStop(TextSent)
  <2> SUFFICES ASSUME RelayInv  PROVE TextDue = BeforeStop(TextSent)
    OBVIOUS
  <2>1. PICK g, p : Gathers(g, p, endpoint, sent)
    BY DEF RelayInv
  <2>2. sent \in Seq(Frames) /\ KeptWalk(p, sent)
    BY <2>1 DEF RelayInv, RelayTypes, Gathers
  <2> QED
    BY <2>2, KeptIsDue
<1> QED
  BY <1>1, RelayHolds, PTL

(* An answer is complete, and only a client that left meets with silence.  *)
THEOREM EndsAreHonest == Spec => []EndsAreTold
<1>1. RelayInv => EndsAreTold
  BY InvIsHonest
<1> QED
  BY <1>1, RelayHolds, PTL
=============================================================================

--------------------------- MODULE DeliveryProofs ---------------------------
(***************************************************************************)
(* That what is sent is what arrives: the frames of an answer at the       *)
(* caller, and a conversation at the backend.                              *)
(*                                                                         *)
(* The frames of an answer reach the caller whole, in order and once, for  *)
(* every stream of envelopes of any size, cut anywhere.  The argument lays *)
(* the stream out as one run of units: `g` says where each envelope ends   *)
(* in it, and the reader is always at the end of an envelope or of a       *)
(* header.                                                                 *)
(*                                                                         *)
(* The history of a chat reaches the backend whole, in every round: each   *)
(* message is one prompt that says what it says, or says nothing, and      *)
(* stands where the lengths of the earlier ones add up to; and every call  *)
(* the history holds was answered once, behind it.                         *)
(***************************************************************************)
EXTENDS Frames, Conversation, CommonProofs, FiniteSetTheorems

-----------------------------------------------------------------------------
(* The stream as one run of units.                                         *)

EnvelopeSet == {e \in [flag : {"data", "end", "other"}, size : Nat, good : BOOLEAN] : e.flag = "other" => e.good}
Places      == [is : {"flag", "length", "payload"}, place : Nat]
Errors      == {"lost", "end", "end before payload", "truncated header", "truncated payload",
                "implausible length", "refused", "torn frame"}
Returns     == [frame : Nat, err : {""} \cup Errors]

Headers     == [place : Nat \ {0}]

StreamTypes ==
  /\ sent \in Seq(EnvelopeSet) /\ rest \in Seq(Places) /\ wire \in Seq(Places)
  /\ body \in {"open", "ended", "lost"}

CallerTyped(call, head, peeked, given, taken) ==
  /\ call \in {"idle", "peek", "recv", "over"}
  /\ head = NoHeader \/ head \in Headers
  /\ peeked \in Seq(Returns) /\ Len(peeked) \in {0, 1}
  /\ given \in Seq(Nat)
  /\ taken # "" => call = "over"
  /\ call # "idle" => peeked = <<>>
  /\ call \notin {"peek", "recv"} => head = NoHeader

CallerTypes == CallerTyped(op, header, held, handed, outcome)

FramesTypes == StreamTypes /\ CallerTypes

(* g[k] is where the k-th envelope ends.                                   *)
Ends(g, envelopes) ==
  /\ g \in [0..Len(envelopes) -> Nat] /\ g[0] = 0
  /\ \A k \in 1..Len(envelopes) : g[k] = g[k - 1] + 2 + envelopes[k].size
  /\ \A j, k \in 0..Len(envelopes) : j < k => g[j] + 2 <= g[k]

(* From the place at, the units on the wire and those to come are those of *)
(* the stream; what is to come is of the last envelope.                    *)
Laid(g, at, n, units, coming) ==
  /\ at \in Nat /\ at + Len(units) + Len(coming) = g[n]
  /\ \A j \in 1..Len(units) :
       /\ units[j].place \in 1..n
       /\ g[units[j].place - 1] < at + j /\ at + j <= g[units[j].place]
  /\ \A j \in 1..Len(coming) : coming[j].place = n
  /\ IF n = 0 THEN coming = <<>> ELSE Len(coming) <= g[n] - g[n - 1]

(* What the caller has, or has peeked at.                                  *)
InHand == {held[i].frame : i \in {j \in DOMAIN held : held[j].err = ""}}
Failed == op = "over" \/ \E i \in DOMAIN held : held[i].err # ""
AtEnd  == outcome = "complete" \/ \E i \in DOMAIN held : IsEOF(held[i].err)

Increasing(s) == \A i, j \in DOMAIN s : i < j => s[i] < s[j]

(* After k envelopes the caller has the messages among them.               *)
HandedOn(k) ==
  /\ \A p \in 1..k : sent[p].good /\ sent[p].flag # "end"
  /\ ToSet(handed) \cup InHand = {p \in 1..k : sent[p].flag = "data"}
  /\ Increasing(handed)
  /\ \A i \in DOMAIN handed, p \in InHand : handed[i] < p

(* An end that is taken for one is behind all that arrived whole.          *)
EndsWell(k) ==
  LET n == Len(sent)
  IN  \/ body # "open" /\ \A p \in 1..n : p < n \/ rest = <<>> => p <= k
      \/ n > 0 /\ k = n - 1 /\ sent[n].flag = "end" /\ sent[n].good

(* The reader behind k envelopes, or behind the header of the next.        *)
Standing(g, k) ==
  /\ HandedOn(k)
  /\ AtEnd => EndsWell(k)
  /\ ~Failed /\ header = NoHeader => Laid(g, g[k], Len(sent), wire, rest)
  /\ ~Failed /\ header # NoHeader =>
       k < Len(sent) /\ header.place = k + 1 /\ Laid(g, g[k] + 2, Len(sent), wire, rest)

OneEnd == \A i \in 1..Len(sent) : i < Len(sent) => sent[i].flag # "end"

FramesInv ==
  /\ FramesTypes /\ OneEnd
  /\ \E g : Ends(g, sent) /\ \E k \in 0..Len(sent) : Standing(g, k)

LEMMA UnitsTyped ==
  ASSUME NEW e \in EnvelopeSet, NEW n \in Nat
  PROVE  /\ Units(e, n) \in Seq(Places) /\ Len(Units(e, n)) = 2 + e.size
         /\ \A j \in 1..Len(Units(e, n)) : Units(e, n)[j].place = n
<1>1. PICK opening, payload :
        /\ opening = <<[is |-> "flag", place |-> n], [is |-> "length", place |-> n]>>
        /\ payload = [i \in 1..e.size |-> [is |-> "payload", place |-> n]]
  OBVIOUS
<1>2. e.size \in Nat
  BY DEF EnvelopeSet
<1>3. /\ opening \in Seq(Places) /\ Len(opening) = 2
      /\ opening[1].place = n /\ opening[2].place = n
  BY <1>1 DEF Places
<1>4. payload \in Seq(Places) /\ Len(payload) = e.size /\ \A j \in 1..e.size : payload[j].place = n
  <2>1. \A i \in 1..e.size : payload[i] = [is |-> "payload", place |-> n]
    BY <1>1
  <2>2. [is |-> "payload", place |-> n] \in Places
    BY DEF Places
  <2>3. payload \in [1..e.size -> Places]
    BY <1>1, <2>2
  <2>4. payload \in Seq(Places) /\ Len(payload) = e.size
    BY <1>2, <2>3
  <2> QED
    BY <2>1, <2>4
<1>5. Units(e, n) = opening \o payload
  BY <1>1 DEF Units
<1>6. /\ opening \o payload \in Seq(Places) /\ Len(opening \o payload) = 2 + e.size
      /\ \A j \in 1..(2 + e.size) :
            (opening \o payload)[j] = IF j <= 2 THEN opening[j] ELSE payload[j - 2]
  <2>1. /\ opening \o payload \in Seq(Places) /\ Len(opening \o payload) = Len(opening) + Len(payload)
        /\ \A j \in 1..(Len(opening) + Len(payload)) :
              (opening \o payload)[j] = IF j <= Len(opening) THEN opening[j] ELSE payload[j - Len(opening)]
    BY <1>3, <1>4, ConcatProperties
  <2> QED
    BY <1>3, <1>4, <2>1
<1>7. ASSUME NEW j \in 1..(2 + e.size)  PROVE (opening \o payload)[j].place = n
  <2>1. CASE j <= 2
    <3>1. j = 1 \/ j = 2
      BY <1>2, <2>1
    <3> QED
      BY <1>3, <1>6, <2>1, <3>1
  <2>2. CASE ~(j <= 2)
    <3>1. j - 2 \in 1..e.size
      BY <1>2, <2>2
    <3> QED
      BY <1>4, <1>6, <2>2, <3>1
  <2> QED
    BY <2>1, <2>2
<1> QED
  BY <1>5, <1>6, <1>7

(* What an Append adds.                                                    *)
LEMMA Added ==
  ASSUME NEW S, NEW s \in Seq(S), NEW x \in S
  PROVE  /\ Append(s, x) \in Seq(S) /\ Len(Append(s, x)) = Len(s) + 1
         /\ DOMAIN Append(s, x) = 1..(Len(s) + 1) /\ Append(s, x)[Len(s) + 1] = x
         /\ \A i \in 1..Len(s) : Append(s, x)[i] = s[i]
<1>1. PICK more : more = Append(s, x)
  OBVIOUS
<1>2. /\ more \in Seq(S) /\ Len(more) = Len(s) + 1 /\ more[Len(s) + 1] = x
      /\ \A i \in 1..Len(s) : more[i] = s[i]
  BY <1>1, AppendProperties
<1>3. DOMAIN more = 1..(Len(s) + 1)
  BY <1>2, SeqFacts
<1> QED
  BY <1>1, <1>2, <1>3

(* What is left of the wire when m units are read.                         *)
LEMMA RestOf ==
  ASSUME NEW S, NEW s \in Seq(S), NEW m \in 0..Len(s)
  PROVE  /\ SubSeq(s, m + 1, Len(s)) \in Seq(S)
         /\ Len(SubSeq(s, m + 1, Len(s))) = Len(s) - m
         /\ \A j \in 1..(Len(s) - m) : SubSeq(s, m + 1, Len(s))[j] = s[m + j]
<1>1. Len(s) \in Nat /\ \A j \in (m + 1)..Len(s) : s[j] \in S
  BY SeqFacts
<1>2. /\ SubSeq(s, m + 1, Len(s)) \in Seq(S)
      /\ Len(SubSeq(s, m + 1, Len(s))) = IF m + 1 <= Len(s) THEN Len(s) - (m + 1) + 1 ELSE 0
      /\ \A j \in 1..(Len(s) - (m + 1) + 1) : SubSeq(s, m + 1, Len(s))[j] = s[m + 1 + j - 1]
  BY <1>1, SubSeqProperties
<1>3. Len(SubSeq(s, m + 1, Len(s))) = Len(s) - m
  BY <1>1, <1>2
<1>4. ASSUME NEW j \in 1..(Len(s) - m)  PROVE SubSeq(s, m + 1, Len(s))[j] = s[m + j]
  <2>1. j \in 1..(Len(s) - (m + 1) + 1) /\ m + 1 + j - 1 = m + j
    BY <1>1
  <2> QED
    BY <1>2, <2>1
<1> QED
  BY <1>2, <1>3, <1>4

LEMMA LaidAfter ==
  ASSUME NEW n \in Nat, NEW g \in [0..n -> Nat], NEW at, NEW units \in Seq(Places),
         NEW coming \in Seq(Places), Laid(g, at, n, units, coming), NEW m \in 0..Len(units)
  PROVE  Laid(g, at + m, n, SubSeq(units, m + 1, Len(units)), coming)
<1>1. PICK left : left = SubSeq(units, m + 1, Len(units))
  OBVIOUS
<1>2. left \in Seq(Places) /\ Len(left) = Len(units) - m /\ \A j \in 1..(Len(units) - m) : left[j] = units[m + j]
  BY <1>1, RestOf
<1>3. Len(units) \in Nat /\ Len(coming) \in Nat /\ at \in Nat /\ g[n] \in Nat
  BY SeqFacts DEF Laid
<1>4. at + m \in Nat /\ (at + m) + Len(left) + Len(coming) = g[n]
  BY <1>2, <1>3 DEF Laid
<1>5. ASSUME NEW j \in 1..Len(left)
      PROVE  /\ left[j].place \in 1..n
             /\ g[left[j].place - 1] < (at + m) + j /\ (at + m) + j <= g[left[j].place]
  <2>1. m + j \in 1..Len(units) /\ left[j] = units[m + j] /\ at + (m + j) = (at + m) + j
    BY <1>2, <1>3
  <2>2. PICK i \in 1..Len(units) : i = m + j
    BY <2>1
  <2>3. units[i].place \in 1..n /\ g[units[i].place - 1] < at + i /\ at + i <= g[units[i].place]
    BY DEF Laid
  <2> QED
    BY <2>1, <2>2, <2>3
<1> QED
  BY <1>1, <1>4, <1>5 DEF Laid

(* The reader that has read k envelopes has the next in front of it.       *)
LEMMA NextPlace ==
  ASSUME NEW envelopes \in Seq(EnvelopeSet), NEW g, Ends(g, envelopes), NEW k \in 0..Len(envelopes),
         NEW units \in Seq(Places), NEW coming, Laid(g, g[k], Len(envelopes), units, coming), Len(units) >= 1
  PROVE  units[1].place = k + 1 /\ k < Len(envelopes)
<1>1. PICK n, p : n = Len(envelopes) /\ p = units[1].place
  OBVIOUS
<1>2. n \in Nat /\ k \in 0..n /\ Len(units) \in Nat
  BY <1>1, SeqFacts
<1>3. p \in 1..n /\ g[p - 1] < g[k] + 1 /\ g[k] + 1 <= g[p]
  BY <1>1, <1>2 DEF Laid
<1>4. /\ \A j \in 0..n : g[j] \in Nat
      /\ \A i, j \in 0..n : i < j => g[i] + 2 <= g[j]
  BY <1>1, <1>2 DEF Ends
<1>5. p - 1 \in 0..n /\ p \in 0..n /\ p \in Nat
  BY <1>2, <1>3
<1>6. ~(k < p - 1)
  BY <1>2, <1>3, <1>4, <1>5
<1>7. ~(p < k) /\ p # k
  BY <1>2, <1>3, <1>4, <1>5
<1> QED
  BY <1>1, <1>2, <1>3, <1>6, <1>7

(* A wire that is empty between two envelopes: what has not arrived is of  *)
(* the last.                                                               *)
LEMMA NothingBetween ==
  ASSUME NEW envelopes \in Seq(EnvelopeSet), NEW g, Ends(g, envelopes), NEW k \in 0..Len(envelopes),
         NEW coming \in Seq(Places), Laid(g, g[k], Len(envelopes), <<>>, coming)
  PROVE  \A p \in 1..Len(envelopes) : p < Len(envelopes) \/ coming = <<>> => p <= k
<1>1. PICK n : n = Len(envelopes)
  OBVIOUS
<1>2. n \in Nat /\ k \in 0..n /\ Len(coming) \in Nat /\ (coming = <<>> <=> Len(coming) = 0)
  BY <1>1, SeqFacts, EmptySeq
<1>3. /\ \A j \in 0..n : g[j] \in Nat
      /\ \A i, j \in 0..n : i < j => g[i] + 2 <= g[j]
  BY <1>1, <1>2 DEF Ends
<1>4. g[k] + Len(coming) = g[n] /\ (n # 0 => Len(coming) <= g[n] - g[n - 1])
  BY <1>1, <1>2, <1>3 DEF Laid
<1>5. ASSUME NEW p \in 1..n, p < n \/ coming = <<>>  PROVE p <= k
  <2>1. CASE coming = <<>>
    <3>1. g[k] = g[n]
      BY <1>2, <1>3, <1>4, <2>1
    <3> QED
      BY <1>2, <1>3, <3>1
  <2>2. CASE p < n
    <3>1. n - 1 \in 0..n /\ g[n - 1] <= g[k] /\ g[n - 1] \in Nat /\ g[k] \in Nat
      BY <1>2, <1>3, <1>4, <2>2
    <3>2. ~(k < n - 1)
      BY <1>2, <1>3, <3>1
    <3> QED
      BY <1>2, <2>2, <3>2
  <2> QED
    BY <1>5, <2>1, <2>2
<1> QED
  BY <1>1, <1>5

(* And behind the header of an envelope that has a payload: it is the last.*)
LEMMA NothingInside ==
  ASSUME NEW envelopes \in Seq(EnvelopeSet), NEW g, Ends(g, envelopes), NEW k \in 0..Len(envelopes),
         k < Len(envelopes), envelopes[k + 1].size > 0,
         NEW coming \in Seq(Places), Laid(g, g[k] + 2, Len(envelopes), <<>>, coming)
  PROVE  k + 1 = Len(envelopes) /\ coming # <<>>
<1>1. PICK n : n = Len(envelopes)
  OBVIOUS
<1>2. n \in Nat /\ k \in 0..n /\ k < n /\ Len(coming) \in Nat /\ (coming = <<>> <=> Len(coming) = 0)
  BY <1>1, SeqFacts, EmptySeq
<1>3. /\ \A j \in 0..n : g[j] \in Nat
      /\ \A i, j \in 0..n : i < j => g[i] + 2 <= g[j]
      /\ \A j \in 1..n : g[j] = g[j - 1] + 2 + envelopes[j].size
  BY <1>1, <1>2 DEF Ends
<1>4. g[k] + 2 + Len(coming) = g[n] /\ Len(coming) <= g[n] - g[n - 1]
  BY <1>1, <1>2, <1>3 DEF Laid
<1>5. k + 1 \in 1..n /\ (k + 1) - 1 = k /\ envelopes[k + 1].size \in Nat
  <2>1. k + 1 \in 1..n
    BY <1>2
  <2>2. envelopes[k + 1] \in EnvelopeSet
    BY <1>1, <2>1, SeqFacts
  <2> QED
    BY <1>2, <2>1, <2>2 DEF EnvelopeSet
<1>6. g[k + 1] = g[k] + 2 + envelopes[k + 1].size /\ g[k] \in Nat /\ g[k + 1] \in Nat /\ k + 1 \in 0..n
  BY <1>2, <1>3, <1>5
<1>7. n - 1 \in 0..n /\ g[n - 1] \in Nat /\ g[n] \in Nat
  BY <1>2, <1>3
<1>8. ~(k + 1 < n)
  <2> SUFFICES ASSUME k + 1 < n  PROVE FALSE
    OBVIOUS
  <2>1. g[n - 1] <= g[k] + 2
    <3>1. PICK a, b, c, l : a = g[k] /\ b = g[n - 1] /\ c = g[n] /\ l = Len(coming)
      OBVIOUS
    <3>2. a \in Nat /\ b \in Nat /\ c \in Nat /\ l \in Nat /\ a + 2 + l = c /\ l <= c - b
      BY <1>2, <1>4, <1>6, <1>7, <3>1
    <3>3. b <= a + 2
      BY <3>2
    <3> QED
      BY <3>1, <3>3
  <2>2. k + 1 = n - 1 \/ k + 1 < n - 1
    BY <1>2
  <2>3. g[k + 1] <= g[n - 1]
    BY <1>3, <1>6, <1>7, <2>2
  <2> QED
    BY <1>5, <1>6, <1>7, <2>1, <2>3
<1>9. k + 1 = n
  BY <1>2, <1>8
<1>10. Len(coming) # 0
  BY <1>4, <1>5, <1>6, <1>9
<1> QED
  BY <1>1, <1>2, <1>9, <1>10

(* One more envelope, none of whose units has arrived.                     *)
LEMMA OneMore ==
  ASSUME NEW envelopes \in Seq(EnvelopeSet), NEW e \in EnvelopeSet, NEW g, Ends(g, envelopes)
  PROVE  \E h : /\ Ends(h, Append(envelopes, e))
                /\ \A k \in 0..Len(envelopes) : h[k] = g[k]
                /\ h[Len(envelopes) + 1] = g[Len(envelopes)] + 2 + e.size
<1>1. PICK n, more, size : n = Len(envelopes) /\ more = Append(envelopes, e) /\ size = e.size
  OBVIOUS
<1>2. /\ n \in Nat /\ size \in Nat /\ Len(more) = n + 1 /\ more[n + 1] = e
      /\ \A i \in 1..n : more[i] = envelopes[i]
  <2>1. size \in Nat
    BY <1>1 DEF EnvelopeSet
  <2> QED
    BY <1>1, <2>1, Added, SeqFacts
<1>3. /\ g \in [0..n -> Nat] /\ g[0] = 0 /\ \A k \in 1..n : g[k] = g[k - 1] + 2 + envelopes[k].size
      /\ \A j, k \in 0..n : j < k => g[j] + 2 <= g[k]
  BY <1>1 DEF Ends
<1>4. PICK h : h = [k \in 0..(n + 1) |-> IF k = n + 1 THEN g[n] + 2 + size ELSE g[k]]
  OBVIOUS
<1>5. h[n + 1] = g[n] + 2 + size /\ \A k \in 0..n : h[k] = g[k]
  BY <1>2, <1>4
<1>6. h \in [0..(n + 1) -> Nat] /\ h[0] = 0
  <2>1. ASSUME NEW k \in 0..(n + 1)  PROVE (IF k = n + 1 THEN g[n] + 2 + size ELSE g[k]) \in Nat
    <3>1. n \in 0..n /\ (k # n + 1 => k \in 0..n)
      BY <1>2
    <3>2. g[n] \in Nat /\ (k # n + 1 => g[k] \in Nat)
      BY <1>3, <3>1
    <3> QED
      BY <1>2, <3>2
  <2>2. 0 \in 0..n
    BY <1>2
  <2> QED
    BY <1>3, <1>4, <1>5, <2>1, <2>2
<1>7. ASSUME NEW k \in 1..(n + 1)  PROVE h[k] = h[k - 1] + 2 + more[k].size
  <2>1. CASE k = n + 1
    <3>1. k - 1 = n /\ n \in 0..n
      BY <1>2, <2>1
    <3> QED
      BY <1>1, <1>2, <1>5, <2>1, <3>1
  <2>2. CASE k # n + 1
    <3>1. k \in 1..n /\ k \in 0..n /\ k - 1 \in 0..n
      BY <1>2, <2>2
    <3> QED
      BY <1>2, <1>3, <1>5, <3>1
  <2> QED
    BY <2>1, <2>2
<1>8. ASSUME NEW j \in 0..(n + 1), NEW k \in 0..(n + 1), j < k  PROVE h[j] + 2 <= h[k]
  <2>1. j \in 0..n /\ h[j] = g[j] /\ n \in 0..n
    BY <1>2, <1>5, <1>8
  <2>2. CASE k = n + 1
    <3>1. g[j] <= g[n] /\ g[j] \in Nat /\ g[n] \in Nat
      BY <1>2, <1>3, <2>1
    <3> QED
      BY <1>2, <1>5, <2>1, <2>2, <3>1
  <2>3. CASE k # n + 1
    <3>1. k \in 0..n
      BY <1>2, <2>3
    <3> QED
      BY <1>3, <1>5, <1>8, <2>1, <3>1
  <2> QED
    BY <2>2, <2>3
<1> QED
  BY <1>1, <1>2, <1>5, <1>6, <1>7, <1>8 DEF Ends

LEMMA LaidLonger ==
  ASSUME NEW n \in Nat, NEW g \in [0..n -> Nat], NEW h \in [0..(n + 1) -> Nat],
         \A k \in 0..n : h[k] = g[k], NEW at, NEW units \in Seq(Places), Laid(g, at, n, units, <<>>),
         NEW coming \in Seq(Places), \A j \in 1..Len(coming) : coming[j].place = n + 1,
         h[n + 1] = g[n] + Len(coming)
  PROVE  Laid(h, at, n + 1, units, coming)
<1>1. /\ Len(units) \in Nat /\ Len(coming) \in Nat /\ at \in Nat /\ n \in 0..n /\ g[n] \in Nat /\ h[n] = g[n]
      /\ at + Len(units) = g[n]
  BY SeqFacts, EmptySeq DEF Laid
<1>2. at + Len(units) + Len(coming) = h[n + 1]
  BY <1>1
<1>3. ASSUME NEW j \in 1..Len(units)
      PROVE  /\ units[j].place \in 1..(n + 1)
             /\ h[units[j].place - 1] < at + j /\ at + j <= h[units[j].place]
  <2>1. /\ units[j].place \in 1..n
        /\ g[units[j].place - 1] < at + j /\ at + j <= g[units[j].place]
    BY DEF Laid
  <2>2. PICK p : p = units[j].place
    OBVIOUS
  <2>3. p \in 1..n /\ g[p - 1] < at + j /\ at + j <= g[p]
    BY <2>1, <2>2
  <2>4. p \in 0..n /\ p - 1 \in 0..n /\ p \in 1..(n + 1)
    BY <2>3
  <2>5. h[p] = g[p] /\ h[p - 1] = g[p - 1]
    BY <2>4
  <2> QED
    BY <2>2, <2>3, <2>4, <2>5
<1>4. (n + 1) - 1 = n /\ n + 1 # 0 /\ Len(coming) <= h[n + 1] - h[(n + 1) - 1]
  <2>1. h[n + 1] \in Nat /\ (n + 1) - 1 = n
    BY <1>1
  <2> QED
    BY <1>1, <2>1
<1> QED
  BY <1>1, <1>2, <1>3, <1>4 DEF Laid

(* A unit that arrives.                                                    *)
LEMMA LaidArrived ==
  ASSUME NEW n \in Nat, NEW g \in [0..n -> Nat], NEW at, NEW units \in Seq(Places),
         NEW coming \in Seq(Places), coming # <<>>, Laid(g, at, n, units, coming)
  PROVE  Laid(g, at, n, Append(units, Head(coming)), Tail(coming))
<1>1. PICK m, l, first, more, left :
        /\ m = Len(units) /\ l = Len(coming) /\ first = Head(coming)
        /\ more = Append(units, Head(coming)) /\ left = Tail(coming)
  OBVIOUS
<1>2. m \in Nat /\ l \in Nat /\ l # 0 /\ first = coming[1] /\ first \in Places
  BY <1>1, SeqFacts, EmptySeq, HeadTailProperties
<1>3. Len(left) = l - 1 /\ \A j \in 1..(l - 1) : left[j] = coming[j + 1]
  BY <1>1, HeadTailProperties
<1>4. Len(more) = m + 1 /\ more[m + 1] = first /\ \A j \in 1..m : more[j] = units[j]
  BY <1>1, <1>2, Added
<1>5. /\ n # 0 /\ at \in Nat /\ at + m + l = g[n] /\ l <= g[n] - g[n - 1] /\ first.place = n
      /\ g[n] \in Nat /\ g[n - 1] \in Nat
  <2>1. n # 0 /\ at \in Nat /\ at + m + l = g[n] /\ l <= g[n] - g[n - 1] /\ first.place = n
    BY <1>1, <1>2 DEF Laid
  <2>2. n \in 0..n /\ n - 1 \in 0..n
    BY <2>1
  <2> QED
    BY <2>1, <2>2
<1>6. at + Len(more) + Len(left) = g[n]
  BY <1>2, <1>3, <1>4, <1>5
<1>7. ASSUME NEW j \in 1..Len(more)
      PROVE  more[j].place \in 1..n /\ g[more[j].place - 1] < at + j /\ at + j <= g[more[j].place]
  <2>1. CASE j = m + 1
    <3>1. PICK a, b : a = g[n - 1] /\ b = g[n]
      OBVIOUS
    <3>2. a \in Nat /\ b \in Nat /\ at + m + l = b /\ l <= b - a
      BY <1>5, <3>1
    <3>3. a < at + j /\ at + j <= b
      BY <1>2, <1>5, <2>1, <3>2
    <3>4. more[j].place = n /\ n \in 1..n
      BY <1>4, <1>5, <2>1
    <3> QED
      BY <3>1, <3>3, <3>4
  <2>2. CASE j # m + 1
    <3>1. j \in 1..m
      BY <1>2, <1>4, <2>2
    <3> QED
      BY <1>1, <1>4, <3>1 DEF Laid
  <2> QED
    BY <2>1, <2>2
<1>8. ASSUME NEW j \in 1..Len(left)  PROVE left[j].place = n
  <2>1. j \in 1..(l - 1) /\ j + 1 \in 1..l
    BY <1>2, <1>3
  <2> QED
    BY <1>1, <1>3, <2>1 DEF Laid
<1>9. Len(left) <= g[n] - g[n - 1]
  BY <1>2, <1>3, <1>5
<1> QED
  BY <1>1, <1>5, <1>6, <1>7, <1>8, <1>9 DEF Laid

-----------------------------------------------------------------------------
(* The caller.                                                             *)

LEMMA HeldFacts ==
  ASSUME CallerTypes
  PROVE  /\ held = <<>> => InHand = {} /\ ~\E i \in DOMAIN held : TRUE
         /\ held # <<>> => /\ DOMAIN held = {1} /\ held[1] \in Returns /\ op = "idle"
                           /\ InHand = IF held[1].err = "" THEN {held[1].frame} ELSE {}
<1>1. /\ Len(held) \in Nat /\ DOMAIN held = 1..Len(held) /\ \A i \in 1..Len(held) : held[i] \in Returns
      /\ Len(held) \in {0, 1}
  BY SeqFacts DEF CallerTypes, CallerTyped
<1>2. CASE held = <<>>
  <2>1. DOMAIN held = {}
    BY <1>2
  <2> QED
    BY <1>2, <2>1 DEF InHand
<1>3. CASE held # <<>>
  <2>1. Len(held) # 0
    BY <1>3, EmptySeq DEF CallerTypes, CallerTyped
  <2>2. Len(held) = 1
    BY <1>1, <2>1
  <2>3. DOMAIN held = {1} /\ held[1] \in Returns
    BY <1>1, <2>2
  <2>4. InHand = IF held[1].err = "" THEN {held[1].frame} ELSE {}
    BY <2>3 DEF InHand
  <2> QED
    BY <1>3, <2>3, <2>4 DEF CallerTypes, CallerTyped
<1> QED
  BY <1>2, <1>3

LEMMA OneResult ==
  ASSUME NEW result \in Returns
  PROVE  /\ <<result>> \in Seq(Returns) /\ Len(<<result>>) = 1
         /\ DOMAIN <<result>> = {1} /\ <<result>>[1] = result
<1>1. PICK r \in Returns : r = result
  OBVIOUS
<1>2. <<r>> \in Seq(Returns) /\ Len(<<r>>) = 1 /\ <<r>>[1] = r
  OBVIOUS
<1>3. DOMAIN <<r>> = 1..1
  BY <1>2, SeqFacts
<1> QED
  BY <1>1, <1>2, <1>3

(* A frame handed on that is later than those before it.                   *)
LEMMA HandingOn ==
  ASSUME NEW s \in Seq(Nat), NEW p \in Nat, Increasing(s), \A i \in DOMAIN s : s[i] < p
  PROVE  /\ Append(s, p) \in Seq(Nat) /\ Increasing(Append(s, p))
         /\ ToSet(Append(s, p)) = ToSet(s) \cup {p}
<1>1. PICK n, more : n = Len(s) /\ more = Append(s, p)
  OBVIOUS
<1>2. /\ n \in Nat /\ DOMAIN s = 1..n /\ DOMAIN more = 1..(n + 1) /\ more \in Seq(Nat)
      /\ more[n + 1] = p /\ \A i \in 1..n : more[i] = s[i]
  BY <1>1, Added, SeqFacts
<1>3. ToSet(more) = ToSet(s) \cup {p}
  <2>1. ASSUME NEW x \in ToSet(more)  PROVE x \in ToSet(s) \cup {p}
    BY <1>2, <2>1 DEF ToSet
  <2>2. ASSUME NEW x \in ToSet(s)  PROVE x \in ToSet(more)
    BY <1>2, <2>2 DEF ToSet
  <2>3. p \in ToSet(more)
    BY <1>2 DEF ToSet
  <2> QED
    BY <2>1, <2>2, <2>3
<1>4. ASSUME NEW i \in DOMAIN more, NEW j \in DOMAIN more, i < j  PROVE more[i] < more[j]
  <2>1. i \in 1..n /\ (j \in 1..n \/ j = n + 1)
    BY <1>2, <1>4
  <2> QED
    BY <1>2, <1>4, <2>1 DEF Increasing
<1> QED
  BY <1>1, <1>2, <1>3, <1>4 DEF Increasing

(* The caller's state after a call that returns.                           *)
LEMMA ReturnTyped ==
  ASSUME header' = NoHeader, handed' \in Seq(Nat), op' \in {"idle", "over"},
         outcome' # "" => op' = "over",
         held' \in Seq(Returns), Len(held') \in {0, 1}, op' # "idle" => held' = <<>>
  PROVE  CallerTypes'
<1>1. op' \in {"idle", "peek", "recv", "over"} /\ (op' \notin {"peek", "recv"} => header' = NoHeader)
  OBVIOUS
<1> QED
  BY <1>1, Zenon DEF CallerTypes, CallerTyped

LEMMA ErrorGiven ==
  ASSUME NEW err \in Errors, Reading, CallerTypes, GiveBack(Error(err))
  PROVE  /\ CallerTypes' /\ Failed' /\ (AtEnd' => IsEOF(err)) /\ header' = NoHeader
         /\ handed' = handed /\ InHand = {} /\ InHand' = {}
<1>1. /\ Error(err) = [frame |-> 0, err |-> err] /\ err # ""
      /\ Error(err) \in Returns /\ Error(err).err = err /\ Error(err).err # ""
  BY DEF Error, Errors, Returns
<1>2. held = <<>> /\ outcome = "" /\ InHand = {}
  BY HeldFacts DEF CallerTypes, CallerTyped, Reading
<1>3. CASE op = "peek"
  <2>1. header' = NoHeader /\ held' = <<Error(err)>> /\ op' = "idle" /\ handed' = handed /\ outcome' = outcome
    BY <1>3 DEF GiveBack
  <2>2. held' \in Seq(Returns) /\ Len(held') = 1 /\ DOMAIN held' = {1} /\ held'[1] = Error(err)
    BY <1>1, <2>1, OneResult
  <2>3. CallerTypes'
    <3>1. handed \in Seq(Nat)
      BY DEF CallerTypes, CallerTyped
    <3>3. header' = NoHeader /\ handed' \in Seq(Nat) /\ op' \in {"idle", "over"} /\ (outcome' # "" => op' = "over")
      BY <1>2, <2>1, <2>2, <3>1
    <3>4. held' \in Seq(Returns) /\ Len(held') \in {0, 1} /\ (op' # "idle" => held' = <<>>)
      BY <1>2, <2>1, <2>2, <3>1
    <3> QED
      BY <3>3, <3>4, ReturnTyped
  <2>4. Failed' /\ InHand' = {}
    BY <1>1, <2>1, <2>2 DEF Failed, InHand
  <2>5. AtEnd' => IsEOF(err)
    BY <1>1, <1>2, <2>1, <2>2 DEF AtEnd
  <2> QED
    BY <1>2, <2>1, <2>3, <2>4, <2>5
<1>4. CASE op # "peek"
  <2>1. header' = NoHeader /\ held' = held /\ op' = "over" /\ handed' = handed /\ outcome' = TakenFor(err)
    BY <1>1, <1>4 DEF GiveBack
  <2>2. CallerTypes'
    <3>1. handed \in Seq(Nat) /\ held \in Seq(Returns) /\ Len(held) \in {0, 1}
      BY DEF CallerTypes, CallerTyped
    <3>3. header' = NoHeader /\ handed' \in Seq(Nat) /\ op' \in {"idle", "over"} /\ (outcome' # "" => op' = "over")
      BY <1>2, <2>1, <3>1
    <3>4. held' \in Seq(Returns) /\ Len(held') \in {0, 1} /\ (op' # "idle" => held' = <<>>)
      BY <1>2, <2>1, <3>1
    <3> QED
      BY <3>3, <3>4, ReturnTyped
  <2>3. Failed' /\ InHand' = {} /\ DOMAIN held' = {}
    <3>1. held' = <<>>
      BY <1>2, <2>1
    <3>2. DOMAIN held' = {}
      BY <3>1
    <3> QED
      BY <2>1, <3>1, <3>2 DEF Failed, InHand
  <2>4. AtEnd' => IsEOF(err)
    BY <2>1, <2>3 DEF AtEnd, TakenFor, Errors
  <2> QED
    BY <1>2, <2>1, <2>2, <2>3, <2>4
<1> QED
  BY <1>3, <1>4

LEMMA FrameGiven ==
  ASSUME NEW p \in Nat \ {0}, Reading, CallerTypes, GiveBack(Frame(p)),
         Increasing(handed),
         \A i \in DOMAIN handed : handed[i] < p
  PROVE  /\ CallerTypes' /\ ~Failed' /\ ~AtEnd' /\ header' = NoHeader
         /\ ToSet(handed') \cup InHand' = (ToSet(handed) \cup InHand) \cup {p}
         /\ Increasing(handed')
         /\ \A i \in DOMAIN handed', q \in InHand' : handed'[i] < q
<1>1. /\ Frame(p) \in Returns /\ Frame(p).err = "" /\ Frame(p).frame = p
  BY DEF Frame, Returns
<1>2. held = <<>> /\ outcome = "" /\ InHand = {} /\ op # "over"
  BY HeldFacts DEF CallerTypes, CallerTyped, Reading
<1>3. CASE op = "peek"
  <2>1. header' = NoHeader /\ held' = <<Frame(p)>> /\ op' = "idle" /\ handed' = handed /\ outcome' = outcome
    BY <1>3 DEF GiveBack
  <2>2. held' \in Seq(Returns) /\ Len(held') = 1 /\ DOMAIN held' = {1} /\ held'[1] = Frame(p)
    BY <1>1, <2>1, OneResult
  <2>3. CallerTypes'
    <3>1. handed \in Seq(Nat)
      BY DEF CallerTypes, CallerTyped
    <3>3. header' = NoHeader /\ handed' \in Seq(Nat) /\ op' \in {"idle", "over"} /\ (outcome' # "" => op' = "over")
      BY <1>2, <2>1, <2>2, <3>1
    <3>4. held' \in Seq(Returns) /\ Len(held') \in {0, 1} /\ (op' # "idle" => held' = <<>>)
      BY <1>2, <2>1, <2>2, <3>1
    <3> QED
      BY <3>3, <3>4, ReturnTyped
  <2>4. ~Failed' /\ InHand' = {p}
    BY <1>1, <2>1, <2>2 DEF Failed, InHand
  <2>5. ~AtEnd'
    BY <1>1, <1>2, <2>1, <2>2 DEF AtEnd, IsEOF
  <2> QED
    BY <1>2, <2>1, <2>3, <2>4, <2>5
<1>4. CASE op # "peek"
  <2>1. /\ header' = NoHeader /\ held' = held /\ op' = "idle"
        /\ handed' = Append(handed, p) /\ outcome' = ""
    BY <1>1, <1>4 DEF GiveBack
  <2>2. CallerTypes'
    <3>1. handed \in Seq(Nat) /\ held \in Seq(Returns) /\ Len(held) \in {0, 1}
      BY DEF CallerTypes, CallerTyped
    <3>2. Append(handed, p) \in Seq(Nat)
      BY <3>1
    <3>3. header' = NoHeader /\ handed' \in Seq(Nat) /\ op' \in {"idle", "over"} /\ (outcome' # "" => op' = "over")
      BY <1>2, <2>1, <3>1, <3>2
    <3>4. held' \in Seq(Returns) /\ Len(held') \in {0, 1} /\ (op' # "idle" => held' = <<>>)
      BY <1>2, <2>1, <3>1, <3>2
    <3> QED
      BY <3>3, <3>4, ReturnTyped
  <2>3. DOMAIN held' = {} /\ InHand' = {}
    <3>1. held' = <<>>
      BY <1>2, <2>1
    <3>2. DOMAIN held' = {}
      BY <3>1
    <3> QED
      BY <3>1, <3>2 DEF InHand
  <2>4. ~Failed' /\ ~AtEnd'
    BY <2>1, <2>3 DEF Failed, AtEnd
  <2>5. Increasing(handed') /\ ToSet(handed') = ToSet(handed) \cup {p}
    <3>1. handed \in Seq(Nat) /\ p \in Nat
      BY DEF CallerTypes, CallerTyped
    <3> QED
      BY <2>1, <3>1, HandingOn
  <2> QED
    BY <1>2, <2>1, <2>2, <2>3, <2>4, <2>5
<1> QED
  BY <1>3, <1>4

-----------------------------------------------------------------------------
(* The steps of the backend and the connection.                            *)

(* The reader with its place in the stream.                                *)
Placed(g, k) ==
  /\ FramesTypes /\ OneEnd
  /\ Ends(g, sent) /\ k \in 0..Len(sent) /\ Standing(g, k)

LEMMA PlacedKeeps ==
  ASSUME NEW g, NEW k, Placed(g, k)'
  PROVE  FramesInv'
BY Zenon DEF Placed, FramesInv

LEMMA SendEnvelopeKeeps ==
  ASSUME NEW g, NEW k, Placed(g, k), SendEnvelope
  PROVE  FramesInv'
<1>1. PICK e \in Envelopes : sent' = Append(sent, e) /\ rest' = Units(e, Len(sent'))
  BY DEF SendEnvelope
<1>2. /\ body = "open" /\ rest = <<>> /\ \A i \in DOMAIN sent : sent[i].flag # "end"
      /\ UNCHANGED <<wire, body, op, header, held, handed, outcome>>
  BY DEF SendEnvelope
<1>3. e \in EnvelopeSet
  BY FramesAssumption DEF Envelopes, EnvelopeSet
<1>4. PICK n : n = Len(sent)
  OBVIOUS
<1>5. sent \in Seq(EnvelopeSet) /\ n \in Nat /\ DOMAIN sent = 1..n /\ wire \in Seq(Places) /\ k \in 0..n
  BY <1>4, SeqFacts DEF Placed, FramesTypes, StreamTypes
<1>6. /\ sent' \in Seq(EnvelopeSet) /\ Len(sent') = n + 1 /\ sent'[n + 1] = e
      /\ \A i \in 1..n : sent'[i] = sent[i]
  BY <1>1, <1>3, <1>4, <1>5, Added
<1>7. PICK h : Ends(h, sent') /\ (\A j \in 0..n : h[j] = g[j]) /\ h[n + 1] = g[n] + 2 + e.size
  <2>1. Ends(g, sent)
    BY DEF Placed
  <2> QED
    BY <1>1, <1>3, <1>4, <1>5, <2>1, OneMore
<1>8. /\ rest' \in Seq(Places) /\ Len(rest') = 2 + e.size
      /\ \A j \in 1..Len(rest') : rest'[j].place = n + 1
  <2>1. n + 1 \in Nat /\ rest' = Units(e, n + 1)
    BY <1>1, <1>5, <1>6
  <2> QED
    BY <1>3, <2>1, UnitsTyped
<1>9. FramesTypes'
  <2>1. CallerTypes'
    <3>1. CallerTyped(op', header', held', handed', outcome')
      BY <1>2 DEF Placed, FramesTypes, CallerTypes
    <3> QED
      BY <3>1 DEF CallerTypes
  <2>2. StreamTypes'
    BY <1>2, <1>5, <1>6, <1>8 DEF StreamTypes
  <2> QED
    BY <2>1, <2>2 DEF FramesTypes
<1>10. OneEnd'
  BY <1>2, <1>5, <1>6 DEF OneEnd
<1>11. InHand' = InHand /\ (AtEnd' <=> AtEnd) /\ (Failed' <=> Failed)
  BY <1>2 DEF InHand, AtEnd, Failed
<1>12. Standing(h, k)'
  <2>1. Standing(g, k)
    BY DEF Placed
  <2>2. HandedOn(k)'
    <3>1. \A p \in 1..k : sent'[p] = sent[p]
      BY <1>5, <1>6
    <3>2. HandedOn(k) /\ handed' = handed
      BY <1>2, <2>1 DEF Standing
    <3> QED
      BY <1>11, <3>1, <3>2 DEF HandedOn
  <2>3. ~AtEnd'
    <3>1. EndsWell(k) => n > 0 /\ k = n - 1 /\ sent[n].flag = "end"
      BY <1>2, <1>4 DEF EndsWell
    <3>2. ~EndsWell(k)
      BY <1>2, <1>5, <3>1
    <3> QED
      BY <1>11, <2>1, <3>2 DEF Standing
  <2>4. g \in [0..n -> Nat] /\ h \in [0..(n + 1) -> Nat]
    BY <1>4, <1>6, <1>7 DEF Placed, Ends
  <2>5. ASSUME NEW at, Laid(g, at, n, wire, rest)  PROVE Laid(h, at, n + 1, wire', rest')
    <3>1. h[n + 1] = g[n] + Len(rest')
      <4>1. g[n] \in Nat /\ e.size \in Nat
        BY <1>3, <1>5, <2>4 DEF EnvelopeSet
      <4> QED
        BY <1>7, <1>8, <4>1
    <3>2. Laid(g, at, n, wire, <<>>) /\ wire' = wire
      BY <1>2, <2>5
    <3> QED
      BY <1>5, <1>7, <1>8, <2>4, <3>1, <3>2, LaidLonger
  <2>6. h[k] = g[k]
    BY <1>5, <1>7
  <2>7. ~Failed' /\ header' = NoHeader => Laid(h, h[k], Len(sent'), wire', rest')
    BY <1>2, <1>4, <1>6, <1>11, <2>1, <2>5, <2>6 DEF Standing
  <2>8. ~Failed' /\ header' # NoHeader =>
          k < Len(sent') /\ header'.place = k + 1 /\ Laid(h, h[k] + 2, Len(sent'), wire', rest')
    <3>1. ASSUME ~Failed', header' # NoHeader
          PROVE k < n /\ header'.place = k + 1 /\ Laid(h, g[k] + 2, n + 1, wire', rest')
      BY <1>2, <1>4, <1>11, <2>1, <2>5, <3>1 DEF Standing
    <3> QED
      BY <1>5, <1>6, <2>6, <3>1
  <2> QED
    BY <2>2, <2>3, <2>7, <2>8 DEF Standing
<1>13. Placed(h, k)'
  BY <1>5, <1>6, <1>7, <1>9, <1>10, <1>12 DEF Placed
<1> QED
  BY <1>13, PlacedKeeps

(* What is kept of the place when the caller stands still.                 *)
LEMMA HandedStays ==
  ASSUME NEW k, HandedOn(k), sent' = sent, handed' = handed, InHand' = InHand
  PROVE  HandedOn(k)'
BY DEF HandedOn

LEMMA ArriveKeeps ==
  ASSUME NEW g, NEW k, Placed(g, k), Arrive
  PROVE  FramesInv'
<1>1. /\ body = "open" /\ rest # <<>> /\ wire' = Append(wire, Head(rest)) /\ rest' = Tail(rest)
      /\ UNCHANGED <<sent, body, op, header, held, handed, outcome>>
  BY DEF Arrive
<1>2. PICK n : n = Len(sent)
  OBVIOUS
<1>3. /\ sent \in Seq(EnvelopeSet) /\ n \in Nat /\ wire \in Seq(Places) /\ rest \in Seq(Places)
      /\ k \in 0..n /\ g \in [0..n -> Nat]
  BY <1>2, SeqFacts DEF Placed, FramesTypes, StreamTypes, Ends
<1>4. FramesTypes'
  <2>1. wire' \in Seq(Places) /\ rest' \in Seq(Places)
    BY <1>1, <1>3, Added, HeadTailProperties
  <2>2. StreamTypes'
    BY <1>1, <2>1 DEF StreamTypes, Placed, FramesTypes
  <2>3. CallerTyped(op', header', held', handed', outcome')
    BY <1>1 DEF Placed, FramesTypes, CallerTypes
  <2> QED
    BY <2>2, <2>3 DEF FramesTypes, CallerTypes
<1>5. OneEnd' /\ Ends(g, sent')
  BY <1>1 DEF OneEnd, Placed
<1>6. InHand' = InHand /\ (AtEnd' <=> AtEnd) /\ (Failed' <=> Failed)
  BY <1>1 DEF InHand, AtEnd, Failed
<1>7. Standing(g, k)'
  <2>1. Standing(g, k)
    BY DEF Placed
  <2>2. HandedOn(k)'
    BY <1>1, <1>6, <2>1, HandedStays DEF Standing
  <2>3. AtEnd' => EndsWell(k)'
    BY <1>1, <1>6, <2>1 DEF Standing, EndsWell
  <2>4. ASSUME NEW at, Laid(g, at, n, wire, rest)  PROVE Laid(g, at, n, wire', rest')
    BY <1>1, <1>3, <2>4, LaidArrived
  <2>5. ~Failed' /\ header' = NoHeader => Laid(g, g[k], Len(sent'), wire', rest')
    BY <1>1, <1>2, <1>6, <2>1, <2>4 DEF Standing
  <2>6. ~Failed' /\ header' # NoHeader =>
          k < Len(sent') /\ header'.place = k + 1 /\ Laid(g, g[k] + 2, Len(sent'), wire', rest')
    BY <1>1, <1>2, <1>6, <2>1, <2>4 DEF Standing
  <2> QED
    BY <2>2, <2>3, <2>5, <2>6 DEF Standing
<1>8. Placed(g, k)'
  BY <1>1, <1>2, <1>3, <1>4, <1>5, <1>7 DEF Placed
<1> QED
  BY <1>8, PlacedKeeps

LEMMA BodyStopsKeeps ==
  ASSUME NEW g, NEW k, Placed(g, k), BodyStops
  PROVE  FramesInv'
<1>1. /\ body = "open" /\ body' \in {"ended", "lost"}
      /\ UNCHANGED <<sent, rest, wire, op, header, held, handed, outcome>>
  BY DEF BodyStops
<1>2. FramesTypes'
  <2>1. StreamTypes'
    BY <1>1 DEF StreamTypes, Placed, FramesTypes
  <2>2. CallerTyped(op', header', held', handed', outcome')
    BY <1>1 DEF Placed, FramesTypes, CallerTypes
  <2> QED
    BY <2>1, <2>2 DEF FramesTypes, CallerTypes
<1>3. OneEnd' /\ Ends(g, sent') /\ k \in 0..Len(sent')
  BY <1>1 DEF OneEnd, Placed
<1>4. InHand' = InHand /\ (AtEnd' <=> AtEnd) /\ (Failed' <=> Failed)
  BY <1>1 DEF InHand, AtEnd, Failed
<1>5. Standing(g, k)'
  <2>1. Standing(g, k)
    BY DEF Placed
  <2>2. HandedOn(k)'
    BY <1>1, <1>4, <2>1, HandedStays DEF Standing
  <2>3. AtEnd' => EndsWell(k)'
    BY <1>1, <1>4, <2>1 DEF Standing, EndsWell
  <2>4. ~Failed' /\ header' = NoHeader => Laid(g, g[k], Len(sent'), wire', rest')
    BY <1>1, <1>4, <2>1 DEF Standing
  <2>5. ~Failed' /\ header' # NoHeader =>
          k < Len(sent') /\ header'.place = k + 1 /\ Laid(g, g[k] + 2, Len(sent'), wire', rest')
    BY <1>1, <1>4, <2>1 DEF Standing
  <2> QED
    BY <2>2, <2>3, <2>4, <2>5 DEF Standing
<1>6. Placed(g, k)'
  BY <1>2, <1>3, <1>5 DEF Placed
<1> QED
  BY <1>6, PlacedKeeps

-----------------------------------------------------------------------------
(* The steps of the caller.                                                *)

(* What a step of the caller leaves as it was.                             *)
LEMMA StreamStays ==
  ASSUME NEW g, NEW k, Placed(g, k), UNCHANGED <<sent, rest, body>>, wire' \in Seq(Places)
  PROVE  StreamTypes' /\ OneEnd' /\ Ends(g, sent') /\ (EndsWell(k) => EndsWell(k)')
<1>1. sent' = sent /\ rest' = rest /\ body' = body
  OBVIOUS
<1> QED
  BY <1>1 DEF Placed, FramesTypes, StreamTypes, OneEnd, EndsWell

LEMMA CallPeekKeeps ==
  ASSUME NEW g, NEW k, Placed(g, k), CallPeek
  PROVE  FramesInv'
<1>1. /\ op = "idle" /\ held = <<>> /\ op' = "peek"
      /\ UNCHANGED <<sent, wire, rest, body, header, held, handed, outcome>>
  BY DEF CallPeek
<1>2. CallerTypes /\ Standing(g, k)
  BY DEF Placed, FramesTypes
<1>3. CallerTypes'
  <2>1. op' \in {"idle", "peek", "recv", "over"} /\ outcome = "" /\ header = NoHeader
    BY <1>1, <1>2 DEF CallerTypes, CallerTyped
  <2>2. CallerTyped(op', header', held', handed', outcome')
    BY <1>1, <1>2, <2>1, Zenon DEF CallerTypes, CallerTyped
  <2> QED
    BY <2>2 DEF CallerTypes
<1>4. InHand' = InHand /\ (AtEnd' <=> AtEnd) /\ (Failed' <=> Failed)
  BY <1>1 DEF InHand, AtEnd, Failed
<1>5. StreamTypes' /\ OneEnd' /\ Ends(g, sent') /\ (EndsWell(k) => EndsWell(k)')
  BY <1>1, StreamStays DEF Placed, FramesTypes, StreamTypes
<1>6. Standing(g, k)'
  <2>1. HandedOn(k)'
    BY <1>1, <1>2, <1>4, HandedStays DEF Standing
  <2>2. AtEnd' => EndsWell(k)'
    BY <1>2, <1>4, <1>5 DEF Standing
  <2>3. ~Failed' /\ header' = NoHeader => Laid(g, g[k], Len(sent'), wire', rest')
    BY <1>1, <1>2, <1>4 DEF Standing
  <2>4. ~Failed' /\ header' # NoHeader =>
          k < Len(sent') /\ header'.place = k + 1 /\ Laid(g, g[k] + 2, Len(sent'), wire', rest')
    BY <1>1, <1>2, <1>4 DEF Standing
  <2> QED
    BY <2>1, <2>2, <2>3, <2>4 DEF Standing
<1>7. Placed(g, k)'
  BY <1>1, <1>3, <1>5, <1>6 DEF Placed, FramesTypes
<1> QED
  BY <1>7, PlacedKeeps

LEMMA CallRecvKeeps ==
  ASSUME NEW g, NEW k, Placed(g, k), CallRecv
  PROVE  FramesInv'
<1>1. op = "idle" /\ UNCHANGED <<sent, rest, wire, body, header>>
  BY DEF CallRecv
<1>2. CallerTypes /\ Standing(g, k) /\ HandedOn(k)
  BY DEF Placed, FramesTypes, Standing
<1>3. outcome = "" /\ header = NoHeader /\ header' = NoHeader /\ handed \in Seq(Nat)
  BY <1>1, <1>2 DEF CallerTypes, CallerTyped
<1>4. StreamTypes' /\ OneEnd' /\ Ends(g, sent') /\ (EndsWell(k) => EndsWell(k)')
  BY <1>1, StreamStays DEF Placed, FramesTypes, StreamTypes
<1>5. CASE held = <<>>
  <2>1. op' = "recv" /\ UNCHANGED <<held, handed, outcome>>
    BY <1>5 DEF CallRecv
  <2>2. CallerTypes'
    <3>1. op' \in {"idle", "peek", "recv", "over"}
      BY <2>1
    <3>2. CallerTyped(op', header', held', handed', outcome')
      BY <1>2, <1>3, <1>5, <2>1, <3>1, Zenon DEF CallerTypes, CallerTyped
    <3> QED
      BY <3>2 DEF CallerTypes
  <2>3. InHand' = InHand /\ (AtEnd' <=> AtEnd) /\ (Failed' <=> Failed)
    BY <1>1, <2>1 DEF InHand, AtEnd, Failed
  <2>4. Standing(g, k)'
    <3>1. HandedOn(k)'
      BY <1>1, <1>2, <2>1, <2>3, HandedStays
    <3>2. AtEnd' => EndsWell(k)'
      BY <1>2, <1>4, <2>3 DEF Standing
    <3>3. ~Failed' => Laid(g, g[k], Len(sent'), wire', rest')
      BY <1>1, <1>2, <1>3, <2>3 DEF Standing
    <3> QED
      BY <1>3, <3>1, <3>2, <3>3 DEF Standing
  <2>5. Placed(g, k)'
    BY <1>1, <1>4, <2>2, <2>4 DEF Placed, FramesTypes
  <2> QED
    BY <2>5, PlacedKeeps
<1>6. CASE held # <<>>
  <2>1. PICK result \in Returns : result = held[1] /\ InHand = IF result.err = "" THEN {result.frame} ELSE {}
    BY <1>2, <1>6, HeldFacts
  <2>2. DOMAIN held = {1} /\ held' = <<>>
    BY <1>2, <1>6, HeldFacts DEF CallRecv
  <2>3. InHand' = {} /\ DOMAIN held' = {} /\ held' \in Seq(Returns) /\ Len(held') \in {0, 1}
    BY <2>2 DEF InHand
  <2>4. CASE result.err = ""
    <3>1. op' = op /\ handed' = Append(handed, result.frame) /\ outcome' = outcome
      BY <1>6, <2>1, <2>4 DEF CallRecv
    <3>2. InHand = {result.frame} /\ result.frame \in Nat
      BY <2>1, <2>4 DEF Returns
    <3>3. handed' \in Seq(Nat) /\ Increasing(handed') /\ ToSet(handed') = ToSet(handed) \cup InHand
      <4>1. Increasing(handed) /\ \A i \in DOMAIN handed : handed[i] < result.frame
        BY <1>2, <3>2 DEF HandedOn
      <4> QED
        BY <1>3, <3>1, <3>2, <4>1, HandingOn
    <3>4. CallerTypes'
      <4>1. op' \in {"idle", "over"} /\ (outcome' # "" => op' = "over") /\ (op' # "idle" => held' = <<>>)
        BY <1>1, <1>3, <2>2, <3>1
      <4> QED
        BY <1>3, <2>3, <3>3, <4>1, ReturnTyped
    <3>5. ~Failed' /\ ~AtEnd' /\ ~Failed
      BY <1>1, <1>3, <2>1, <2>2, <2>3, <2>4, <3>1 DEF Failed, AtEnd
    <3>6. HandedOn(k)'
      BY <1>1, <1>2, <2>3, <3>3 DEF HandedOn
    <3>7. Laid(g, g[k], Len(sent'), wire', rest')
      BY <1>1, <1>2, <1>3, <3>5 DEF Standing
    <3>8. Standing(g, k)'
      BY <1>3, <3>5, <3>6, <3>7 DEF Standing
    <3>9. Placed(g, k)'
      BY <1>1, <1>4, <3>4, <3>8 DEF Placed, FramesTypes
    <3> QED
      BY <3>9, PlacedKeeps
  <2>5. CASE result.err # ""
    <3>1. op' = "over" /\ handed' = handed /\ outcome' = TakenFor(result.err)
      BY <1>6, <2>1, <2>5 DEF CallRecv
    <3>2. InHand' = InHand
      BY <2>1, <2>3, <2>5
    <3>3. CallerTypes'
      <4>1. op' \in {"idle", "over"} /\ (outcome' # "" => op' = "over") /\ (op' # "idle" => held' = <<>>)
        BY <2>2, <3>1
      <4> QED
        BY <1>3, <2>3, <3>1, <4>1, ReturnTyped
    <3>4. Failed'
      BY <3>1 DEF Failed
    <3>5. AtEnd' => AtEnd
      <4>1. result.err \in {""} \cup Errors
        BY <2>1 DEF Returns
      <4>2. AtEnd' => IsEOF(result.err)
        BY <2>3, <3>1, <4>1 DEF AtEnd, TakenFor, Errors
      <4> QED
        BY <2>1, <2>2, <4>2 DEF AtEnd
    <3>6. HandedOn(k)'
      BY <1>1, <1>2, <3>1, <3>2, HandedStays
    <3>7. Standing(g, k)'
      <4>1. AtEnd' => EndsWell(k)'
        BY <1>2, <1>4, <3>5 DEF Standing
      <4> QED
        BY <3>4, <3>6, <4>1 DEF Standing
    <3>8. Placed(g, k)'
      BY <1>1, <1>4, <3>3, <3>7 DEF Placed, FramesTypes
    <3> QED
      BY <3>8, PlacedKeeps
  <2> QED
    BY <2>4, <2>5
<1> QED
  BY <1>5, <1>6

LEMMA ReadingFacts ==
  ASSUME CallerTypes, Reading
  PROVE  held = <<>> /\ outcome = "" /\ InHand = {} /\ ~Failed /\ ~AtEnd
<1>1. held = <<>> /\ outcome = "" /\ op # "over"
  BY DEF CallerTypes, CallerTyped, Reading
<1>2. InHand = {} /\ ~\E i \in DOMAIN held : TRUE
  BY <1>1, HeldFacts
<1> QED
  BY <1>1, <1>2 DEF Failed, AtEnd

(* A read that fails: an end it is taken for is one.                       *)
LEMMA GivenUp ==
  ASSUME NEW g, NEW k, Placed(g, k), Reading, UNCHANGED <<sent, rest, body>>, wire' \in Seq(Places),
         NEW err \in Errors, GiveBack(Error(err)), IsEOF(err) => EndsWell(k)
  PROVE  FramesInv'
<1>1. CallerTypes /\ Standing(g, k)
  BY DEF Placed, FramesTypes
<1>2. /\ CallerTypes' /\ Failed' /\ (AtEnd' => IsEOF(err)) /\ handed' = handed /\ InHand' = InHand
  BY <1>1, ErrorGiven
<1>3. StreamTypes' /\ OneEnd' /\ Ends(g, sent') /\ (EndsWell(k) => EndsWell(k)')
  BY StreamStays
<1>4. Standing(g, k)'
  <2>1. HandedOn(k)'
    BY <1>1, <1>2, HandedStays DEF Standing
  <2> QED
    BY <1>2, <1>3, <2>1 DEF Standing
<1>5. Placed(g, k)'
  BY <1>2, <1>3, <1>4 DEF Placed, FramesTypes
<1> QED
  BY <1>5, PlacedKeeps

(* Where a call that reads stands.                                         *)
LEMMA ReadingPlace ==
  ASSUME NEW g, NEW k, Placed(g, k), Reading
  PROVE  /\ sent \in Seq(EnvelopeSet) /\ Len(sent) \in Nat /\ k \in 0..Len(sent)
         /\ wire \in Seq(Places) /\ rest \in Seq(Places) /\ Len(wire) \in Nat
         /\ g \in [0..Len(sent) -> Nat] /\ Ends(g, sent) /\ HandedOn(k)
         /\ header = NoHeader => Laid(g, g[k], Len(sent), wire, rest)
         /\ header # NoHeader =>
              /\ k < Len(sent) /\ k + 1 \in 1..Len(sent)
              /\ header.place = k + 1 /\ Laid(g, g[k] + 2, Len(sent), wire, rest)
<1>1. /\ sent \in Seq(EnvelopeSet) /\ wire \in Seq(Places) /\ rest \in Seq(Places)
      /\ CallerTypes /\ Standing(g, k) /\ k \in 0..Len(sent)
  BY DEF Placed, FramesTypes, StreamTypes
<1>2. Len(sent) \in Nat /\ Len(wire) \in Nat
  BY <1>1, SeqFacts
<1>3. ~Failed
  BY <1>1, ReadingFacts
<1>4. g \in [0..Len(sent) -> Nat] /\ Ends(g, sent)
  BY DEF Placed, Ends
<1> QED
  BY <1>1, <1>2, <1>3, <1>4 DEF Standing

(* A read that leaves the caller reading.                                  *)
LEMMA StillReading ==
  ASSUME NEW g, NEW k, Placed(g, k), Reading, UNCHANGED <<sent, rest, body, op, held, handed, outcome>>,
         wire' \in Seq(Places), NEW m \in 0..Len(sent), HandedOn(m),
         \/ header' = NoHeader /\ Laid(g, g[m], Len(sent), wire', rest)
         \/ /\ header' \in Headers /\ header'.place = m + 1 /\ m < Len(sent)
            /\ Laid(g, g[m] + 2, Len(sent), wire', rest)
  PROVE  FramesInv'
<1>1. CallerTypes /\ ~Failed /\ ~AtEnd
  BY ReadingFacts DEF Placed, FramesTypes
<1>2. UNCHANGED <<sent, rest, body>>
  OBVIOUS
<1>3. StreamTypes' /\ OneEnd' /\ Ends(g, sent')
  BY <1>2, StreamStays
<1>4. CallerTypes'
  <2>1. header' = NoHeader \/ header' \in Headers
    OBVIOUS
  <2>2. op' \in {"peek", "recv"}
    BY DEF Reading
  <2>3. CallerTyped(op', header', held', handed', outcome')
    BY <1>1, <2>1, <2>2, Zenon DEF CallerTypes, CallerTyped
  <2> QED
    BY <2>3 DEF CallerTypes
<1>5. InHand' = InHand /\ ~AtEnd' /\ ~Failed'
  BY <1>1 DEF InHand, AtEnd, Failed
<1>6. HandedOn(m)'
  BY <1>5, HandedStays
<1>7. Standing(g, m)'
  <2>1. NoHeader \notin Headers
    BY DEF NoHeader, Headers
  <2>2. header' = NoHeader => Laid(g, g[m], Len(sent'), wire', rest')
    BY <2>1
  <2>3. header' # NoHeader => m < Len(sent') /\ header'.place = m + 1 /\ Laid(g, g[m] + 2, Len(sent'), wire', rest')
    OBVIOUS
  <2> QED
    BY <1>5, <1>6, <2>2, <2>3 DEF Standing
<1>8. Placed(g, m)'
  BY <1>3, <1>4, <1>7 DEF Placed, FramesTypes
<1> QED
  BY <1>8, PlacedKeeps

LEMMA ReadHeaderKeeps ==
  ASSUME NEW g, NEW k, Placed(g, k), ReadHeader
  PROVE  FramesInv'
<1>1. /\ Reading /\ header = NoHeader /\ Len(wire) >= 2
      /\ wire' = SubSeq(wire, 3, Len(wire)) /\ UNCHANGED <<sent, rest, body>>
  BY DEF ReadHeader
<1>2. /\ sent \in Seq(EnvelopeSet) /\ Len(sent) \in Nat /\ k \in 0..Len(sent)
      /\ wire \in Seq(Places) /\ rest \in Seq(Places) /\ Len(wire) \in Nat
      /\ g \in [0..Len(sent) -> Nat] /\ Ends(g, sent) /\ HandedOn(k)
      /\ Laid(g, g[k], Len(sent), wire, rest)
  BY <1>1, ReadingPlace
<1>3. wire[1].place = k + 1 /\ k < Len(sent)
  <2>1. Len(wire) >= 1
    BY <1>1, <1>2
  <2> QED
    BY <1>2, <2>1, NextPlace
<1>4. 2 \in 0..Len(wire) /\ 2 + 1 = 3
  BY <1>1, <1>2
<1>5. wire' \in Seq(Places) /\ Laid(g, g[k] + 2, Len(sent), wire', rest)
  BY <1>1, <1>2, <1>4, RestOf, LaidAfter
<1>6. CASE sent[wire[1].place].size > MaxSize
  <2>1. GiveBack(Error("implausible length"))
    BY <1>6 DEF ReadHeader
  <2>2. "implausible length" \in Errors /\ ~IsEOF("implausible length")
    BY DEF Errors, IsEOF
  <2> QED
    BY <1>1, <1>5, <2>1, <2>2, GivenUp
<1>7. CASE ~(sent[wire[1].place].size > MaxSize)
  <2>1. header' = [place |-> wire[1].place] /\ UNCHANGED <<op, held, handed, outcome>>
    BY <1>7 DEF ReadHeader
  <2>2. header' \in Headers /\ header'.place = k + 1
    BY <1>2, <1>3, <2>1 DEF Headers
  <2> QED
    BY <1>1, <1>2, <1>3, <1>5, <2>1, <2>2, StillReading
<1> QED
  BY <1>6, <1>7

LEMMA HeaderMissingKeeps ==
  ASSUME NEW g, NEW k, Placed(g, k), HeaderMissing
  PROVE  FramesInv'
<1>1. /\ Reading /\ header = NoHeader /\ body # "open" /\ Len(wire) < 2
      /\ wire' = <<>> /\ UNCHANGED <<sent, rest, body>>
  BY DEF HeaderMissing
<1>2. /\ sent \in Seq(EnvelopeSet) /\ k \in 0..Len(sent)
      /\ wire \in Seq(Places) /\ rest \in Seq(Places) /\ Len(wire) \in Nat
      /\ Ends(g, sent) /\ Laid(g, g[k], Len(sent), wire, rest)
  BY <1>1, ReadingPlace
<1>3. PICK err : err = CASE body = "lost"                    -> "lost"
                         [] body = "ended" /\ wire = <<>>    -> "end"
                         [] body = "ended" /\ Len(wire) = 1  -> "truncated header"
  OBVIOUS
<1>4. GiveBack(Error(err))
  BY <1>3 DEF HeaderMissing
<1>5. err \in Errors /\ (IsEOF(err) => wire = <<>>)
  <2>1. body = "lost" \/ body = "ended"
    BY <1>1 DEF Placed, FramesTypes, StreamTypes
  <2>2. wire = <<>> \/ Len(wire) = 1
    <3>1. wire # <<>> => Len(wire) # 0
      BY <1>2, EmptySeq
    <3>2. Len(wire) = 0 \/ Len(wire) = 1
      <4>1. PICK l : l = Len(wire)
        OBVIOUS
      <4>2. l < 2 /\ l \in Nat
        BY <1>1, <1>2, <4>1
      <4>3. l = 0 \/ l = 1
        BY <4>2
      <4> QED
        BY <4>1, <4>3
    <3> QED
      BY <3>1, <3>2, Zenon
  <2>3. CASE body = "lost"
    <3>1. err = "lost"
      BY <1>3, <2>3
    <3> QED
      BY <3>1 DEF Errors, IsEOF
  <2>4. CASE body = "ended" /\ wire = <<>>
    <3>1. err = "end"
      BY <1>3, <2>4
    <3> QED
      BY <2>4, <3>1 DEF Errors
  <2>5. CASE body = "ended" /\ Len(wire) = 1
    <3>1. wire # <<>>
      BY <2>5
    <3>2. err = "truncated header"
      BY <1>3, <2>5, <3>1
    <3> QED
      BY <3>2 DEF Errors, IsEOF
  <2> QED
    BY <2>1, <2>2, <2>3, <2>4, <2>5
<1>6. IsEOF(err) => EndsWell(k)
  <2> SUFFICES ASSUME IsEOF(err)  PROVE EndsWell(k)
    OBVIOUS
  <2>1. Laid(g, g[k], Len(sent), <<>>, rest)
    BY <1>2, <1>5
  <2>2. \A p \in 1..Len(sent) : p < Len(sent) \/ rest = <<>> => p <= k
    BY <1>2, <2>1, NothingBetween
  <2> QED
    BY <1>1, <2>2 DEF EndsWell
<1>7. wire' \in Seq(Places)
  BY <1>1
<1> QED
  BY <1>1, <1>4, <1>5, <1>6, <1>7, GivenUp

LEMMA PayloadMissingKeeps ==
  ASSUME NEW g, NEW k, Placed(g, k), PayloadMissing
  PROVE  FramesInv'
<1>1. /\ Reading /\ header # NoHeader /\ body # "open" /\ Len(wire) < Envelope.size
      /\ wire' = <<>> /\ UNCHANGED <<sent, rest, body>>
  BY DEF PayloadMissing
<1>2. /\ sent \in Seq(EnvelopeSet) /\ Len(sent) \in Nat /\ k \in 0..Len(sent)
      /\ wire \in Seq(Places) /\ rest \in Seq(Places) /\ Len(wire) \in Nat
      /\ Ends(g, sent) /\ k < Len(sent) /\ k + 1 \in 1..Len(sent)
      /\ header.place = k + 1 /\ Laid(g, g[k] + 2, Len(sent), wire, rest)
  BY <1>1, ReadingPlace
<1>3. sent[k + 1].size > 0
  <2>1. sent[k + 1].size \in Nat
    BY <1>2, SeqFacts DEF EnvelopeSet
  <2> QED
    BY <1>1, <1>2, <2>1 DEF Envelope
<1>4. PICK err : err = CASE body = "lost"                   -> "lost"
                         [] body = "ended" /\ wire = <<>>   -> "end before payload"
                         [] body = "ended" /\ wire # <<>>   -> "truncated payload"
  OBVIOUS
<1>5. GiveBack(Error(err))
  BY <1>4 DEF PayloadMissing
<1>6. err \in Errors /\ (IsEOF(err) => wire = <<>>)
  <2>1. body = "lost" \/ body = "ended"
    BY <1>1 DEF Placed, FramesTypes, StreamTypes
  <2>2. CASE body = "lost"
    <3>1. err = "lost"
      BY <1>4, <2>2
    <3> QED
      BY <3>1 DEF Errors, IsEOF
  <2>3. CASE body = "ended" /\ wire = <<>>
    <3>1. err = "end before payload"
      BY <1>4, <2>3
    <3> QED
      BY <2>3, <3>1 DEF Errors
  <2>4. CASE body = "ended" /\ wire # <<>>
    <3>1. err = "truncated payload"
      BY <1>4, <2>4
    <3> QED
      BY <3>1 DEF Errors, IsEOF
  <2> QED
    BY <2>1, <2>2, <2>3, <2>4
<1>7. IsEOF(err) => EndsWell(k)
  <2> SUFFICES ASSUME IsEOF(err)  PROVE EndsWell(k)
    OBVIOUS
  <2>1. Laid(g, g[k] + 2, Len(sent), <<>>, rest)
    BY <1>2, <1>6
  <2>2. k + 1 = Len(sent) /\ rest # <<>>
    BY <1>2, <1>3, <2>1, NothingInside
  <2>3. \A p \in 1..Len(sent) : p < Len(sent) \/ rest = <<>> => p <= k
    BY <1>2, <2>2
  <2> QED
    BY <1>1, <2>3 DEF EndsWell
<1>8. wire' \in Seq(Places)
  BY <1>1
<1> QED
  BY <1>1, <1>5, <1>6, <1>7, <1>8, GivenUp

LEMMA ReadPayloadKeeps ==
  ASSUME NEW g, NEW k, Placed(g, k), ReadPayload
  PROVE  FramesInv'
<1>1. /\ Reading /\ header # NoHeader /\ Len(wire) >= Envelope.size
      /\ wire' = SubSeq(wire, Envelope.size + 1, Len(wire)) /\ UNCHANGED <<sent, rest, body>>
  BY DEF ReadPayload
<1>2. /\ sent \in Seq(EnvelopeSet) /\ Len(sent) \in Nat /\ k \in 0..Len(sent)
      /\ wire \in Seq(Places) /\ rest \in Seq(Places) /\ Len(wire) \in Nat
      /\ g \in [0..Len(sent) -> Nat] /\ Ends(g, sent) /\ HandedOn(k)
      /\ k < Len(sent) /\ k + 1 \in 1..Len(sent) /\ k + 1 \in 0..Len(sent)
      /\ header.place = k + 1 /\ Laid(g, g[k] + 2, Len(sent), wire, rest)
  BY <1>1, ReadingPlace
<1>3. PICK e \in EnvelopeSet : e = sent[k + 1]
  BY <1>2, SeqFacts
<1>4. Envelope = e /\ e.size \in Nat /\ e.good \in BOOLEAN /\ e.flag \in {"data", "end", "other"}
      /\ (e.flag = "other" => e.good)
  BY <1>2, <1>3 DEF Envelope, EnvelopeSet
<1>5. wire' \in Seq(Places) /\ Laid(g, g[k + 1], Len(sent), wire', rest)
  <2>1. e.size \in 0..Len(wire)
    BY <1>1, <1>2, <1>4
  <2>2. g[k + 1] = g[k] + 2 + e.size
    <3>1. g[k + 1] = g[(k + 1) - 1] + 2 + sent[k + 1].size /\ (k + 1) - 1 = k
      BY <1>2 DEF Ends
    <3> QED
      BY <1>3, <3>1
  <2>3. wire' = SubSeq(wire, e.size + 1, Len(wire)) /\ (g[k] + 2) + e.size = g[k + 1]
    BY <1>1, <1>4, <2>2
  <2>4. wire' \in Seq(Places)
    BY <1>2, <2>1, <2>3, RestOf
  <2>5. Laid(g, (g[k] + 2) + e.size, Len(sent), wire', rest)
    BY <1>2, <2>1, <2>3, LaidAfter
  <2> QED
    BY <2>3, <2>4, <2>5
<1>6. (\A p \in 1..(k + 1) : p \in 1..k \/ p = k + 1) /\ 1..k \subseteq 1..(k + 1) /\ k + 1 \in 1..(k + 1)
  BY <1>2
<1>7. CASE e.flag = "end"
  <2>1. PICK err : err = IF e.good THEN "end" ELSE "refused"
    OBVIOUS
  <2>2. GiveBack(Error(err))
    BY <1>4, <1>7, <2>1 DEF ReadPayload
  <2>3. err \in Errors /\ (IsEOF(err) => e.good)
    BY <2>1 DEF Errors, IsEOF
  <2>4. IsEOF(err) => EndsWell(k)
    <3>1. ~(k + 1 < Len(sent))
      BY <1>2, <1>3, <1>7 DEF Placed, OneEnd
    <3>2. k + 1 = Len(sent) /\ k = Len(sent) - 1 /\ Len(sent) > 0
      BY <1>2, <3>1
    <3>3. sent[Len(sent)].flag = "end" /\ sent[Len(sent)] = e
      BY <1>3, <1>7, <3>2
    <3> QED
      BY <2>3, <3>2, <3>3 DEF EndsWell
  <2> QED
    BY <1>1, <1>5, <2>2, <2>3, <2>4, GivenUp
<1>8. CASE e.flag = "data" /\ ~e.good
  <2>1. GiveBack(Error("torn frame"))
    BY <1>4, <1>8 DEF ReadPayload
  <2>2. "torn frame" \in Errors /\ ~IsEOF("torn frame")
    BY DEF Errors, IsEOF
  <2> QED
    BY <1>1, <1>5, <2>1, <2>2, GivenUp
<1>9. CASE e.flag = "data" /\ e.good
  <2>1. GiveBack(Frame(k + 1))
    BY <1>2, <1>4, <1>9 DEF ReadPayload
  <2>2. k + 1 \in Nat \ {0} /\ CallerTypes /\ InHand = {}
    <3>1. k + 1 \in Nat \ {0}
      BY <1>2
    <3>2. CallerTypes
      BY DEF Placed, FramesTypes
    <3> QED
      BY <1>1, <3>1, <3>2, ReadingFacts
  <2>3. \A i \in DOMAIN handed : handed[i] < k + 1
    <3>1. ASSUME NEW i \in DOMAIN handed  PROVE handed[i] \in 1..k
      <4>1. handed[i] \in ToSet(handed)
        BY DEF ToSet
      <4> QED
        BY <1>2, <4>1 DEF HandedOn
    <3> QED
      BY <1>2, <3>1
  <2>4. /\ CallerTypes' /\ ~Failed' /\ ~AtEnd' /\ header' = NoHeader
        /\ ToSet(handed') \cup InHand' = (ToSet(handed) \cup InHand) \cup {k + 1}
        /\ Increasing(handed') /\ \A i \in DOMAIN handed', q \in InHand' : handed'[i] < q
    <3>1. Increasing(handed)
      BY <1>2 DEF HandedOn
    <3> QED
      BY <1>1, <2>1, <2>2, <2>3, <3>1, FrameGiven
  <2>5. HandedOn(k + 1)'
    <3>1. \A p \in 1..(k + 1) : sent[p].good /\ sent[p].flag # "end"
      BY <1>2, <1>3, <1>6, <1>9 DEF HandedOn
    <3>2. {p \in 1..(k + 1) : sent[p].flag = "data"} = {p \in 1..k : sent[p].flag = "data"} \cup {k + 1}
      BY <1>3, <1>6, <1>9
    <3>3. ToSet(handed') \cup InHand' = {p \in 1..(k + 1) : sent[p].flag = "data"}
      BY <1>2, <2>4, <3>2 DEF HandedOn
    <3> QED
      BY <1>1, <2>4, <3>1, <3>3 DEF HandedOn
  <2>6. Standing(g, k + 1)'
    BY <1>1, <1>5, <2>4, <2>5 DEF Standing
  <2>7. Placed(g, k + 1)'
    BY <1>1, <1>2, <1>5, <2>4, <2>6, StreamStays DEF Placed, FramesTypes
  <2> QED
    BY <2>7, PlacedKeeps
<1>10. CASE e.flag = "other"
  <2>1. header' = NoHeader /\ UNCHANGED <<op, held, handed, outcome>>
    BY <1>4, <1>10 DEF ReadPayload
  <2>2. HandedOn(k + 1)
    <3>1. \A p \in 1..(k + 1) : sent[p].good /\ sent[p].flag # "end"
      BY <1>2, <1>3, <1>4, <1>6, <1>10 DEF HandedOn
    <3>2. {p \in 1..(k + 1) : sent[p].flag = "data"} = {p \in 1..k : sent[p].flag = "data"}
      BY <1>3, <1>6, <1>10
    <3> QED
      BY <1>2, <3>1, <3>2 DEF HandedOn
  <2> QED
    BY <1>1, <1>2, <1>5, <2>1, <2>2, StillReading
<1> QED
  BY <1>4, <1>7, <1>8, <1>9, <1>10

-----------------------------------------------------------------------------
(* The whole.                                                              *)

LEMMA FramesInitKeeps == FramesInit => FramesInv
<1> SUFFICES ASSUME FramesInit  PROVE FramesInv
  OBVIOUS
<1>1. /\ sent = <<>> /\ rest = <<>> /\ wire = <<>> /\ body = "open"
      /\ op = "idle" /\ header = NoHeader /\ held = <<>> /\ handed = <<>> /\ outcome = ""
  BY DEF FramesInit
<1>2. PICK g : g = [k \in 0..0 |-> 0]
  OBVIOUS
<1>3. Len(sent) = 0 /\ Len(rest) = 0 /\ Len(wire) = 0 /\ Len(held) = 0 /\ g \in [0..0 -> Nat] /\ g[0] = 0
  <2>1. Len(<<>>) = 0
    BY EmptySeq
  <2>2. g \in [0..0 -> Nat] /\ g[0] = 0
    BY <1>2
  <2> QED
    BY <1>1, <2>1, <2>2, Zenon
<1>4. FramesTypes
  <2>1. StreamTypes
    <3>1. <<>> \in Seq(EnvelopeSet) /\ <<>> \in Seq(Places)
      BY EmptySeq
    <3>2. body \in {"open", "ended", "lost"}
      BY <1>1
    <3> QED
      BY <1>1, <3>1, <3>2, Zenon DEF StreamTypes
  <2>2. held \in Seq(Returns) /\ Len(held) \in {0, 1} /\ handed \in Seq(Nat)
    <3>1. <<>> \in Seq(Returns) /\ <<>> \in Seq(Nat)
      BY EmptySeq
    <3> QED
      BY <1>1, <1>3, <3>1, Zenon
  <2>3. op \in {"idle", "peek", "recv", "over"}
    BY <1>1
  <2>4. CallerTypes
    BY <1>1, <2>2, <2>3, Zenon DEF CallerTypes, CallerTyped
  <2> QED
    BY <2>1, <2>4 DEF FramesTypes
<1>5. OneEnd
  BY <1>3 DEF OneEnd
<1>6. Ends(g, sent)
  <2>1. \A j, k \in 0..0 : ~(j < k)
    OBVIOUS
  <2> QED
    BY <1>3, <2>1 DEF Ends
<1>7. InHand = {} /\ ~AtEnd /\ ToSet(handed) = {} /\ DOMAIN handed = {}
  <2>1. DOMAIN <<>> = {}
    OBVIOUS
  <2>2. DOMAIN handed = {} /\ DOMAIN held = {} /\ outcome # "complete"
    BY <1>1, <2>1
  <2>3. InHand = {}
    BY <2>2 DEF InHand
  <2>4. ToSet(handed) = {}
    BY <2>2 DEF ToSet
  <2> QED
    BY <2>2, <2>3, <2>4 DEF AtEnd
<1>8. Standing(g, 0)
  <2>1. HandedOn(0)
    BY <1>7 DEF HandedOn, Increasing
  <2>2. Laid(g, 0, 0, wire, rest)
    <3>1. 0 + 0 + 0 = g[0] /\ 0 \in Nat /\ \A j \in 1..0 : FALSE
      BY <1>3
    <3>2. Len(wire) = 0 /\ Len(rest) = 0 /\ rest = <<>>
      BY <1>1, <1>3
    <3> QED
      BY <3>1, <3>2, Zenon DEF Laid
  <2> QED
    BY <1>1, <1>3, <1>7, <2>1, <2>2 DEF Standing
<1>9. 0 \in 0..Len(sent)
  BY <1>3
<1> QED
  BY <1>4, <1>5, <1>6, <1>8, <1>9 DEF FramesInv

LEMMA FramesNextKeeps == FramesInv /\ [FramesNext]_frameVars => FramesInv'
<1> SUFFICES ASSUME FramesInv, [FramesNext]_frameVars  PROVE FramesInv'
  OBVIOUS
<1>1. PICK g, k : Placed(g, k)
  BY DEF FramesInv, Placed
<1>2. CASE SendEnvelope
  BY <1>1, <1>2, SendEnvelopeKeeps
<1>3. CASE Arrive
  BY <1>1, <1>3, ArriveKeeps
<1>4. CASE BodyStops
  BY <1>1, <1>4, BodyStopsKeeps
<1>5. CASE CallPeek
  BY <1>1, <1>5, CallPeekKeeps
<1>6. CASE CallRecv
  BY <1>1, <1>6, CallRecvKeeps
<1>7. CASE ReadHeader
  BY <1>1, <1>7, ReadHeaderKeeps
<1>8. CASE HeaderMissing
  BY <1>1, <1>8, HeaderMissingKeeps
<1>9. CASE ReadPayload
  BY <1>1, <1>9, ReadPayloadKeeps
<1>10. CASE PayloadMissing
  BY <1>1, <1>10, PayloadMissingKeeps
<1>11. CASE UNCHANGED frameVars
  <2>1. /\ sent' = sent /\ rest' = rest /\ wire' = wire /\ body' = body /\ op' = op /\ header' = header
        /\ held' = held /\ handed' = handed /\ outcome' = outcome
    BY <1>11 DEF frameVars
  <2>2. StreamTypes' /\ OneEnd' /\ Ends(g, sent') /\ (EndsWell(k) => EndsWell(k)')
    BY <1>1, <2>1, StreamStays DEF Placed, FramesTypes, StreamTypes
  <2>3. CallerTyped(op', header', held', handed', outcome')
    BY <1>1, <2>1 DEF Placed, FramesTypes, CallerTypes
  <2>4. InHand' = InHand /\ (AtEnd' <=> AtEnd) /\ (Failed' <=> Failed)
    BY <2>1 DEF InHand, AtEnd, Failed
  <2>5. Standing(g, k)'
    <3>1. HandedOn(k)'
      BY <1>1, <2>1, <2>4, HandedStays DEF Placed, Standing
    <3> QED
      BY <1>1, <2>1, <2>2, <2>4, <3>1 DEF Placed, Standing
  <2>6. Placed(g, k)'
    BY <1>1, <2>1, <2>2, <2>3, <2>5 DEF Placed, FramesTypes, CallerTypes
  <2> QED
    BY <2>6, PlacedKeeps
<1> QED
  BY <1>2, <1>3, <1>4, <1>5, <1>6, <1>7, <1>8, <1>9, <1>10, <1>11 DEF FramesNext

LEMMA FramesInvHandsOn == FramesInv => FramesHandedOn
<1> SUFFICES ASSUME FramesInv  PROVE FramesHandedOn
  OBVIOUS
<1>1. PICK g, k : Placed(g, k)
  BY DEF FramesInv, Placed
<1>2. PICK n : n = Len(sent)
  OBVIOUS
<1>3. /\ sent \in Seq(EnvelopeSet) /\ n \in Nat /\ DOMAIN sent = 1..n /\ k \in 0..n
      /\ handed \in Seq(Nat) /\ CallerTypes /\ Standing(g, k) /\ HandedOn(k)
  BY <1>1, <1>2, SeqFacts DEF Placed, FramesTypes, StreamTypes, CallerTypes, CallerTyped, Standing
<1>4. /\ \A p \in 1..k : sent[p].good /\ sent[p].flag # "end"
      /\ ToSet(handed) \cup InHand = {p \in 1..k : sent[p].flag = "data"}
      /\ Increasing(handed) /\ \A i \in DOMAIN handed, p \in InHand : handed[i] < p
  BY <1>3 DEF HandedOn
<1>5. ASSUME NEW p \in ToSet(handed)  PROVE Contains(handed, p)
  BY <1>3, <1>5, SeqFacts DEF ToSet, Contains
<1>6. ASSUME NEW i \in DOMAIN handed
      PROVE  /\ sent[handed[i]].flag = "data" /\ sent[handed[i]].good
             /\ \A place \in 1..handed[i] : sent[place].flag = "data" => Contains(handed, place)
  <2>1. PICK p : p = handed[i]
    OBVIOUS
  <2>2. p \in ToSet(handed)
    BY <2>1 DEF ToSet
  <2>3. p \in 1..k /\ sent[p].flag = "data" /\ sent[p].good
    BY <1>4, <2>2
  <2>4. ASSUME NEW place \in 1..p, sent[place].flag = "data"  PROVE Contains(handed, place)
    <3>1. place \in 1..k /\ ~(p < place)
      BY <1>3, <2>3
    <3>2. place \in ToSet(handed) \cup InHand
      BY <1>4, <2>4, <3>1
    <3>3. place \notin InHand
      BY <1>4, <2>1, <3>1
    <3> QED
      BY <1>5, <3>2, <3>3
  <2> QED
    BY <2>1, <2>3, <2>4
<1>7. ASSUME outcome = "complete", NEW i \in DOMAIN sent, i < n \/ rest = <<>>
      PROVE  sent[i].good /\ (sent[i].flag = "data" => Contains(handed, i))
  <2>1. held = <<>>
    BY <1>3, <1>7 DEF CallerTypes, CallerTyped
  <2>2. InHand = {} /\ EndsWell(k)
    BY <1>3, <1>7, <2>1, HeldFacts DEF Standing, AtEnd
  <2>3. i <= k => sent[i].good /\ (sent[i].flag = "data" => Contains(handed, i))
    <3> SUFFICES ASSUME i <= k  PROVE sent[i].good /\ (sent[i].flag = "data" => Contains(handed, i))
      OBVIOUS
    <3>1. i \in 1..k
      BY <1>3
    <3> QED
      BY <1>4, <1>5, <2>2, <3>1
  <2>4. CASE i <= k
    BY <2>3, <2>4
  <2>5. CASE ~(i <= k)
    <3>1. n > 0 /\ k = n - 1 /\ sent[n].flag = "end" /\ sent[n].good
      BY <1>2, <1>3, <1>7, <2>2, <2>5 DEF EndsWell
    <3>2. i = n
      BY <1>3, <2>5, <3>1
    <3> QED
      BY <3>1, <3>2
  <2> QED
    BY <2>4, <2>5
<1>8. \A i, j \in DOMAIN handed : i < j => handed[i] < handed[j]
  BY <1>4 DEF Increasing
<1> QED
  BY <1>2, <1>6, <1>7, <1>8 DEF FramesHandedOn

(* Recv hands the caller the messages of the stream in order, each once    *)
(* and whole, for envelopes of every size, any mix of peeks and receives   *)
(* and a body cut anywhere; an answer taken for complete lacks no message  *)
(* whose envelope arrived whole and hides no failure the stream reported.  *)
THEOREM FramesAreHandedOn == FramesSpec => []FramesHandedOn
<1>1. FramesInit => FramesInv
  BY FramesInitKeeps
<1>2. FramesInv /\ [FramesNext]_frameVars => FramesInv'
  BY FramesNextKeeps
<1>3. FramesInv => FramesHandedOn
  BY FramesInvHandsOn
<1> QED
  BY <1>1, <1>2, <1>3, PTL DEF FramesSpec

-----------------------------------------------------------------------------
(* Sequences one behind the other.                                         *)

(* Of sequences of one element at most: where the element of the k-th is.  *)
Placement(p, seqs) ==
  LET n == Len(seqs)
  IN  /\ \A k \in 1..n : Len(p[k]) = Len(p[k - 1]) + Len(seqs[k])
      /\ \A j, k \in 0..n : j <= k => Len(p[j]) <= Len(p[k])
      /\ \A k \in 1..n : seqs[k] # <<>> => Len(seqs[k]) = 1 /\ p[n][Len(p[k])] = seqs[k][1]
      /\ \A l \in 1..Len(p[n]) : \E k \in 1..n : seqs[k] # <<>> /\ l = Len(p[k])

LEMMA JoinsPlaced ==
  ASSUME NEW V, NEW seqs \in Seq(Seq(V)), \A k \in 1..Len(seqs) : Len(seqs[k]) \in {0, 1},
         NEW p, Joins(p, V, seqs)
  PROVE  Placement(p, seqs)
<1>1. PICK n : n = Len(seqs)
  OBVIOUS
<1>2. n \in Nat /\ \A k \in 1..n : seqs[k] \in Seq(V) /\ Len(seqs[k]) \in {0, 1}
  BY <1>1, SeqFacts
<1>3. p \in [0..n -> Seq(V)] /\ p[0] = <<>> /\ \A k \in 1..n : p[k] = p[k - 1] \o seqs[k]
  BY <1>1 DEF Joins
<1>4. \A k \in 0..n : Len(p[k]) \in Nat
  BY <1>3, SeqFacts
<1>5. ASSUME NEW k \in 1..n
      PROVE  /\ Len(p[k]) = Len(p[k - 1]) + Len(seqs[k]) /\ k - 1 \in 0..n /\ k \in 0..n
             /\ \A l \in 1..Len(p[k - 1]) : p[k][l] = p[k - 1][l]
             /\ seqs[k] # <<>> => Len(seqs[k]) = 1 /\ p[k][Len(p[k])] = seqs[k][1]
             /\ seqs[k] = <<>> => Len(seqs[k]) = 0
  <2>1. k - 1 \in 0..n /\ k \in 0..n
    BY <1>2
  <2>2. PICK a, b, s, t : a = Len(p[k - 1]) /\ b = Len(seqs[k]) /\ s = p[k - 1] /\ t = seqs[k]
    OBVIOUS
  <2>3. s \in Seq(V) /\ t \in Seq(V) /\ a \in Nat /\ b \in {0, 1} /\ p[k] = s \o t
    BY <1>2, <1>3, <1>4, <2>1, <2>2
  <2>4. /\ Len(s \o t) = a + b
        /\ \A i \in 1..(a + b) : (s \o t)[i] = IF i <= a THEN s[i] ELSE t[i - a]
    <3>1. /\ Len(s \o t) = Len(s) + Len(t)
          /\ \A i \in 1..(Len(s) + Len(t)) : (s \o t)[i] = IF i <= Len(s) THEN s[i] ELSE t[i - Len(s)]
      BY <2>3, ConcatProperties
    <3> QED
      BY <2>2, <3>1
  <2>5. \A l \in 1..a : (s \o t)[l] = s[l]
    BY <2>3, <2>4
  <2>6. t # <<>> => b = 1
    BY <2>2, <2>3, EmptySeq
  <2>7. t # <<>> => (s \o t)[a + b] = t[1]
    <3> SUFFICES ASSUME t # <<>>  PROVE (s \o t)[a + b] = t[1]
      OBVIOUS
    <3>1. b = 1 /\ a + b \in 1..(a + b) /\ ~(a + b <= a) /\ (a + b) - a = 1
      BY <2>3, <2>6
    <3> QED
      BY <2>4, <3>1
  <2>8. t = <<>> => b = 0
    BY <2>2, EmptySeq
  <2> QED
    BY <2>1, <2>2, <2>3, <2>4, <2>5, <2>6, <2>7, <2>8
<1> DEFINE Grown(m) == /\ \A j \in 0..m : Len(p[j]) <= Len(p[m]) /\ \A l \in 1..Len(p[j]) : p[m][l] = p[j][l]
                       /\ \A l \in 1..Len(p[m]) : \E k \in 1..m : seqs[k] # <<>> /\ l = Len(p[k])
           grown == {m \in 0..n : Grown(m)}
<1>6. 0 \in grown
  <2>1. Len(p[0]) = 0
    BY <1>3, EmptySeq
  <2>2. \A j \in 0..0 : j = 0
    OBVIOUS
  <2>3. 0 \in 0..n /\ \A l \in 1..0 : FALSE
    BY <1>2
  <2>4. Grown(0)
    BY <1>4, <2>1, <2>2, <2>3
  <2> QED
    BY <2>3, <2>4
<1>7. ASSUME NEW m \in 0..(n - 1), m \in grown  PROVE m + 1 \in grown
  <2>1. PICK k \in 1..n : k = m + 1 /\ k - 1 = m
    BY <1>2
  <2>2. /\ Len(p[k]) = Len(p[m]) + Len(seqs[k]) /\ m \in 0..n /\ k \in 0..n
        /\ \A l \in 1..Len(p[m]) : p[k][l] = p[m][l]
        /\ seqs[k] # <<>> => Len(seqs[k]) = 1 /\ p[k][Len(p[k])] = seqs[k][1]
        /\ seqs[k] = <<>> => Len(seqs[k]) = 0
    BY <1>5, <2>1
  <2>3. PICK a, b, c : a = Len(p[m]) /\ b = Len(seqs[k]) /\ c = Len(p[k])
    OBVIOUS
  <2>4. a \in Nat /\ b \in {0, 1} /\ c = a + b
    BY <1>2, <1>4, <2>2, <2>3
  <2>5. ASSUME NEW j \in 0..k  PROVE Len(p[j]) <= c /\ \A l \in 1..Len(p[j]) : p[k][l] = p[j][l]
    <3>1. CASE j = k
      <4>1. c <= c /\ p[j] = p[k]
        BY <2>4, <3>1
      <4> QED
        BY <2>3, <4>1
    <3>2. CASE j # k
      <4>1. j \in 0..m /\ j \in 0..n
        BY <1>2, <2>1, <2>2, <3>2
      <4>2. Len(p[j]) <= a /\ (\A l \in 1..Len(p[j]) : p[m][l] = p[j][l]) /\ Len(p[j]) \in Nat
        BY <1>4, <1>7, <2>3, <4>1
      <4>3. \A l \in 1..Len(p[j]) : l \in 1..a
        BY <2>4, <4>2
      <4>4. PICK d : d = Len(p[j])
        OBVIOUS
      <4>5. d <= c
        BY <2>4, <4>2, <4>4
      <4>6. \A l \in 1..a : p[k][l] = p[m][l]
        BY <2>2, <2>3
      <4> QED
        BY <4>2, <4>3, <4>4, <4>5, <4>6
    <3> QED
      BY <3>1, <3>2
  <2>6. ASSUME NEW l \in 1..c  PROVE \E i \in 1..k : seqs[i] # <<>> /\ l = Len(p[i])
    <3>1. CASE l \in 1..a
      <4>1. PICK i \in 1..m : seqs[i] # <<>> /\ l = Len(p[i])
        BY <1>7, <2>3, <3>1
      <4>2. i \in 1..k
        BY <2>1, <2>2
      <4> QED
        BY <4>1, <4>2
    <3>2. CASE l \notin 1..a
      <4>1. b = 1 /\ l = c
        BY <2>4, <3>2
      <4>2. seqs[k] # <<>> /\ k \in 1..k
        BY <2>1, <2>2, <2>3, <4>1
      <4> QED
        BY <2>3, <4>1, <4>2
    <3> QED
      BY <3>1, <3>2
  <2>7. Grown(k)
    BY <2>3, <2>5, <2>6
  <2> QED
    BY <2>1, <2>2, <2>7
<1>8. \A m \in 0..n : Grown(m)
  <2>1. grown \in SUBSET (0..n)
    OBVIOUS
  <2> HIDE DEF grown
  <2>2. \A m \in 0..n : m \in grown
    BY <1>2, <1>6, <1>7, <2>1, NextByNext
  <2> QED
    BY <2>2 DEF grown
<1>9. Grown(n)
  BY <1>2, <1>8
<1>10. \A j, k \in 0..n : j <= k => Len(p[j]) <= Len(p[k])
  <2> SUFFICES ASSUME NEW j \in 0..n, NEW k \in 0..n, j <= k  PROVE Len(p[j]) <= Len(p[k])
    OBVIOUS
  <2>1. Grown(k) /\ j \in 0..k
    BY <1>8
  <2> QED
    BY <2>1
<1>11. ASSUME NEW k \in 1..n, seqs[k] # <<>>  PROVE Len(seqs[k]) = 1 /\ p[n][Len(p[k])] = seqs[k][1]
  <2>1. Len(seqs[k]) = 1 /\ p[k][Len(p[k])] = seqs[k][1] /\ k \in 0..n /\ k - 1 \in 0..n
        /\ Len(p[k]) = Len(p[k - 1]) + 1
    BY <1>5, <1>11
  <2>2. Len(p[k]) \in 1..Len(p[k])
    BY <1>4, <2>1
  <2> QED
    BY <1>9, <2>1, <2>2
<1> QED
  BY <1>1, <1>5, <1>9, <1>10, <1>11 DEF Placement

-----------------------------------------------------------------------------
(* A message and its prompt.                                               *)

Ids     == {"call", "made up"} \X Nat \X Nat
Heading == Roles \X Words

Parts == [type : {"text"}, body : Seq(Words)] \cup [type : {"image", "remote"}, body : Pictures]

Messages ==
  {m \in [role : Roles, content : Contents, calls : Seq(Ids), answers : Ids \cup {NoId}] :
     /\ m.calls # <<>> => m.role = "assistant"
     /\ m.role = "tool" <=> m.answers # NoId}

Prompts == [source : {"user", "tool"}, label : BOOLEAN, system : BOOLEAN,
            text : Seq(Words \cup {ToolOnly[1], EmptyResult[1]}), images : Seq(Pictures),
            calls : Seq(Ids), answers : Ids \cup {NoId}]

LEMMA ContentRead ==
  ASSUME NEW m, m.content \in Contents
  PROVE  TextOf(m) \in Seq(Words) /\ ImagesOf(m) \in Seq(Pictures)
<1>1. PICK parts \in Seq(Parts) : parts = m.content
  BY DEF Contents, Parts
<1>2. PICK n : n = Len(parts)
  OBVIOUS
<1>3. n \in Nat /\ DOMAIN parts = 1..n /\ \A i \in 1..n : parts[i] \in Parts
  BY <1>2, SeqFacts
<1>4. PICK texts, pictures :
        /\ texts = [i \in DOMAIN m.content |-> Wording(m.content[i])]
        /\ pictures = [i \in DOMAIN m.content |-> Shown(m.content[i])]
  OBVIOUS
<1>5. \A i \in 1..n : Wording(parts[i]) \in Seq(Words) /\ Shown(parts[i]) \in Seq(Pictures)
  <2>1. <<>> \in Seq(Words) /\ <<>> \in Seq(Pictures)
    BY EmptySeq
  <2>2. ASSUME NEW i \in 1..n  PROVE Wording(parts[i]) \in Seq(Words) /\ Shown(parts[i]) \in Seq(Pictures)
    <3>1. PICK part \in Parts : part = parts[i]
      BY <1>3
    <3>2. CASE part \in [type : {"text"}, body : Seq(Words)]
      <4>1. part.type = "text" /\ part.body \in Seq(Words)
        BY <3>2
      <4> QED
        BY <2>1, <3>1, <4>1 DEF Wording, Shown
    <3>3. CASE part \in [type : {"image", "remote"}, body : Pictures]
      <4>1. part.type # "text" /\ part.body \in Pictures
        BY <3>3
      <4>2. <<part.body>> \in Seq(Pictures)
        BY <4>1
      <4> QED
        BY <2>1, <3>1, <4>1, <4>2 DEF Wording, Shown
    <3> QED
      BY <3>1, <3>2, <3>3 DEF Parts
  <2> QED
    BY <2>2
<1>6. texts \in [1..n -> Seq(Words)] /\ pictures \in [1..n -> Seq(Pictures)]
  BY <1>1, <1>3, <1>4, <1>5
<1>7. texts \in Seq(Seq(Words)) /\ pictures \in Seq(Seq(Pictures))
  BY <1>3, <1>6
<1> QED
  BY <1>4, <1>7, FlattenHolds DEF TextOf, ImagesOf

LEMMA AttributedTyped ==
  ASSUME NEW who \in Roles, NEW text \in Seq(Words)
  PROVE  /\ Attributed(who, text) \in Seq(Heading)
         /\ text = <<>> => Attributed(who, text) = <<>>
         /\ text # <<>> => <<who, text[1]>> \in ToSet(Attributed(who, text))
         /\ \A x \in ToSet(Attributed(who, text)) : x[1] = who /\ text # <<>>
<1>1. PICK n, marked : n = Len(text) /\ marked = [k \in DOMAIN text |-> <<who, text[k]>>]
  OBVIOUS
<1>2. n \in Nat /\ DOMAIN text = 1..n /\ \A k \in 1..n : text[k] \in Words
  BY <1>1, SeqFacts
<1>3. \A k \in 1..n : <<who, text[k]>> \in Heading
  BY <1>2 DEF Heading
<1>4. marked \in [1..n -> Heading]
  BY <1>1, <1>2, <1>3
<1>5. marked \in Seq(Heading) /\ Len(marked) = n /\ DOMAIN marked = 1..n
  BY <1>2, <1>4
<1>6. text = <<>> => marked = <<>>
  <2>1. text = <<>> => Len(text) = 0
    BY EmptySeq
  <2>2. Len(marked) = 0 => marked = <<>>
    BY <1>5, EmptySeq
  <2> QED
    BY <1>1, <1>5, <2>1, <2>2
<1>7. text # <<>> => 1 \in 1..n
  <2>1. text # <<>> => n # 0
    BY <1>1, EmptySeq
  <2> QED
    BY <1>2, <2>1
<1>8. ASSUME text # <<>>  PROVE <<who, text[1]>> \in ToSet(marked)
  <2>1. 1 \in DOMAIN marked /\ marked[1] = <<who, text[1]>>
    BY <1>1, <1>2, <1>5, <1>7, <1>8
  <2> QED
    BY <2>1 DEF ToSet
<1>9. ASSUME NEW x \in ToSet(marked)  PROVE x[1] = who /\ text # <<>>
  <2>1. PICK k \in 1..n : x = marked[k]
    BY <1>5, <1>9 DEF ToSet
  <2>2. x = <<who, text[k]>>
    BY <1>1, <1>2, <2>1
  <2>3. Len(text) # 0
    BY <1>1, <1>2, <2>1
  <2>4. text # <<>>
    BY <2>3, EmptySeq
  <2> QED
    BY <2>2, <2>4
<1> QED
  BY <1>1, <1>5, <1>6, <1>8, <1>9 DEF Attributed

(* A prompt that says what a message says, and a message without any.      *)
Renders(m, prompt) ==
  /\ prompt \in Prompts /\ ~prompt.system
  /\ prompt.text # <<>> \/ prompt.images # <<>>
  /\ WordsTold(prompt) = WordsSaid(m) /\ prompt.images = PicturesSent(m)
  /\ prompt.calls = m.calls /\ prompt.answers = m.answers
  /\ prompt.label => TextOf(m) # <<>> \/ m.calls # <<>>
  /\ prompt.label <=> m.role = "assistant"
  /\ prompt.source = "tool" <=> m.role = "tool"

Silent(m) ==
  WordsSaid(m) = <<>> /\ PicturesSent(m) = <<>> /\ m.calls = <<>> /\ m.answers = NoId /\ m.role # "tool"

LEMMA NobodySays ==
  ASSUME NEW text \in Seq(Words)
  PROVE  text \notin {ToolOnly, EmptyResult}
<1>1. ToolOnly[1] \notin Words /\ EmptyResult[1] \notin Words
  BY ChatAssumption DEF ChatAssumption
<1>2. Len(ToolOnly) = 1 /\ Len(EmptyResult) = 1
  BY DEF ToolOnly, EmptyResult
<1>3. Len(text) = 1 => text[1] \in Words
  BY SeqFacts
<1> QED
  BY <1>1, <1>2, <1>3

LEMMA SaidTyped ==
  ASSUME NEW m \in Messages
  PROVE  /\ m.content \in Contents /\ m.role \in Roles /\ m.calls \in Seq(Ids) /\ m.answers \in Ids \cup {NoId}
         /\ m.calls # <<>> => m.role = "assistant"
         /\ m.role = "tool" <=> m.answers # NoId
         /\ TextOf(m) \in Seq(Words) /\ ImagesOf(m) \in Seq(Pictures)
         /\ WordsSaid(m) \in Seq(Heading) /\ PicturesSent(m) \in Seq(Pictures)
<1>1. /\ m.content \in Contents /\ m.role \in Roles /\ m.calls \in Seq(Ids) /\ m.answers \in Ids \cup {NoId}
      /\ m.calls # <<>> => m.role = "assistant"
      /\ m.role = "tool" <=> m.answers # NoId
  BY DEF Messages
<1>2. TextOf(m) \in Seq(Words) /\ ImagesOf(m) \in Seq(Pictures)
  BY <1>1, ContentRead
<1>3. WordsSaid(m) \in Seq(Heading)
  BY <1>1, <1>2, EmptySeq, AttributedTyped DEF WordsSaid
<1>4. PicturesSent(m) \in Seq(Pictures)
  BY <1>2, EmptySeq DEF PicturesSent
<1> QED
  BY <1>1, <1>2, <1>3, <1>4

(* A turn is a record whose other fields are as they were.                 *)
LEMMA FieldsSet ==
  ASSUME NEW r, NEW label, NEW calls,
         r = [source |-> r.source, label |-> r.label, system |-> r.system, text |-> r.text,
              images |-> r.images, calls |-> r.calls, answers |-> r.answers]
  PROVE  [r EXCEPT !.label = label, !.calls = calls] = [[r EXCEPT !.label = label] EXCEPT !.calls = calls]
OBVIOUS

LEMMA OpaqueTurn ==
  ASSUME NEW source, NEW text
  PROVE  \E r, no, yes, none, id :
           /\ r = TurnOf(source, text) /\ no = FALSE /\ yes = TRUE /\ none = <<>> /\ id = NoId
           /\ r = [source |-> source, label |-> no, system |-> no, text |-> text,
                   images |-> none, calls |-> none, answers |-> id]
BY DEF TurnOf

LEMMA UserTurn ==
  ASSUME NEW source, NEW text, NEW images
  PROVE  [TurnOf(source, text) EXCEPT !.images = images] =
           [source |-> source, label |-> FALSE, system |-> FALSE, text |-> text,
            images |-> images, calls |-> <<>>, answers |-> NoId]
<1>1. PICK r, no, yes, none, id :
        /\ r = TurnOf(source, text) /\ no = FALSE /\ yes = TRUE /\ none = <<>> /\ id = NoId
        /\ r = [source |-> source, label |-> no, system |-> no, text |-> text,
                images |-> none, calls |-> none, answers |-> id]
  BY OpaqueTurn
<1>2. [r EXCEPT !.images = images] =
        [source |-> source, label |-> no, system |-> no, text |-> text,
         images |-> images, calls |-> none, answers |-> id]
  BY <1>1
<1> QED
  BY <1>1, <1>2, Zenon

LEMMA ResultTurn ==
  ASSUME NEW source, NEW text, NEW answers
  PROVE  [TurnOf(source, text) EXCEPT !.answers = answers] =
           [source |-> source, label |-> FALSE, system |-> FALSE, text |-> text,
            images |-> <<>>, calls |-> <<>>, answers |-> answers]
<1>1. PICK r, no, yes, none, id :
        /\ r = TurnOf(source, text) /\ no = FALSE /\ yes = TRUE /\ none = <<>> /\ id = NoId
        /\ r = [source |-> source, label |-> no, system |-> no, text |-> text,
                images |-> none, calls |-> none, answers |-> id]
  BY OpaqueTurn
<1>2. [r EXCEPT !.answers = answers] =
        [source |-> source, label |-> no, system |-> no, text |-> text,
         images |-> none, calls |-> none, answers |-> answers]
  BY <1>1
<1> QED
  BY <1>1, <1>2, Zenon

LEMMA SystemTurn ==
  ASSUME NEW source, NEW text
  PROVE  [TurnOf(source, text) EXCEPT !.system = TRUE] =
           [source |-> source, label |-> FALSE, system |-> TRUE, text |-> text,
            images |-> <<>>, calls |-> <<>>, answers |-> NoId]
<1>1. PICK r, no, yes, none, id :
        /\ r = TurnOf(source, text) /\ no = FALSE /\ yes = TRUE /\ none = <<>> /\ id = NoId
        /\ r = [source |-> source, label |-> no, system |-> no, text |-> text,
                images |-> none, calls |-> none, answers |-> id]
  BY OpaqueTurn
<1>2. r = [source |-> source, label |-> no, system |-> no, text |-> text,
           images |-> none, calls |-> none, answers |-> id]
  BY <1>1
<1>3. [r EXCEPT !.system = yes] =
        [source |-> source, label |-> no, system |-> yes, text |-> text,
         images |-> none, calls |-> none, answers |-> id]
  BY <1>2
<1> QED
  BY <1>1, <1>3, Zenon

LEMMA AssistantTurn ==
  ASSUME NEW source, NEW text, NEW calls
  PROVE  [TurnOf(source, text) EXCEPT !.label = TRUE, !.calls = calls] =
           [source |-> source, label |-> TRUE, system |-> FALSE, text |-> text,
            images |-> <<>>, calls |-> calls, answers |-> NoId]
<1>1. PICK r, no, yes, none, id :
        /\ r = TurnOf(source, text) /\ no = FALSE /\ yes = TRUE /\ none = <<>> /\ id = NoId
        /\ r = [source |-> source, label |-> no, system |-> no, text |-> text,
                images |-> none, calls |-> none, answers |-> id]
  BY OpaqueTurn
<1>2. r = [source |-> source, label |-> no, system |-> no, text |-> text,
           images |-> none, calls |-> none, answers |-> id]
  BY <1>1
<1>3. PICK marked : marked = [r EXCEPT !.label = yes]
  OBVIOUS
<1>4. marked = [source |-> source, label |-> yes, system |-> no, text |-> text,
                images |-> none, calls |-> none, answers |-> id]
  BY <1>2, <1>3
<1>5. [marked EXCEPT !.calls = calls] =
        [source |-> source, label |-> yes, system |-> no, text |-> text,
         images |-> none, calls |-> calls, answers |-> id]
  BY <1>4
<1>6. [r EXCEPT !.label = yes, !.calls = calls] = [marked EXCEPT !.calls = calls]
  <2>1. r = [source |-> r.source, label |-> r.label, system |-> r.system, text |-> r.text,
             images |-> r.images, calls |-> r.calls, answers |-> r.answers]
    BY <1>1
  <2> QED
    BY <1>3, <2>1, FieldsSet, Zenon
<1> QED
  BY <1>1, <1>5, <1>6, Zenon

LEMMA PromptCases ==
  ASSUME NEW m
  PROVE  LET text == TextOf(m)  images == ImagesOf(m)
         IN  /\ m.role = "user" /\ (text # <<>> \/ images # <<>>) =>
                  PromptOf(m) = <<[TurnOf("user", text) EXCEPT !.images = images]>>
             /\ m.role = "assistant" /\ (text # <<>> \/ m.calls # <<>>) =>
                  PromptOf(m) = <<[TurnOf("user", Otherwise(text, ToolOnly)) EXCEPT !.label = TRUE, !.calls = m.calls]>>
             /\ m.role = "tool" =>
                  PromptOf(m) = <<[TurnOf("tool", Otherwise(text, EmptyResult)) EXCEPT !.answers = m.answers]>>
             /\ m.role = "user" /\ text = <<>> /\ images = <<>> => PromptOf(m) = <<>>
             /\ m.role = "assistant" /\ text = <<>> /\ m.calls = <<>> => PromptOf(m) = <<>>
             /\ m.role = "system" => PromptOf(m) = <<>>
BY DEF PromptOf

LEMMA OtherwiseTyped ==
  ASSUME NEW text \in Seq(Words), NEW else \in {ToolOnly, EmptyResult}
  PROVE  /\ Otherwise(text, else) \in Seq(Words \cup {ToolOnly[1], EmptyResult[1]})
         /\ Otherwise(text, else) # <<>>
         /\ Otherwise(text, else) \in {ToolOnly, EmptyResult} <=> text = <<>>
         /\ text # <<>> => Otherwise(text, else) = text
<1>1. \E word \in {ToolOnly[1], EmptyResult[1]} : else = <<word>>
  <2>1. CASE else = ToolOnly
    BY <2>1 DEF ToolOnly
  <2>2. CASE else = EmptyResult
    BY <2>2 DEF EmptyResult
  <2> QED
    BY <2>1, <2>2
<1>2. else \in Seq(Words \cup {ToolOnly[1], EmptyResult[1]}) /\ else # <<>>
  <2>1. PICK word \in Words \cup {ToolOnly[1], EmptyResult[1]} : else = <<word>>
    BY <1>1
  <2> QED
    BY <2>1
<1>3. text \in Seq(Words \cup {ToolOnly[1], EmptyResult[1]})
  <2>1. PICK more : more = Words \cup {ToolOnly[1], EmptyResult[1]}
    OBVIOUS
  <2>2. \A k \in 1..Len(text) : text[k] \in more
    BY <2>1, SeqFacts
  <2>3. text \in [1..Len(text) -> more] /\ Len(text) \in Nat
    BY <2>2, LenProperties
  <2>4. text \in Seq(more)
    BY <2>3
  <2> QED
    BY <2>1, <2>4
<1>4. text \notin {ToolOnly, EmptyResult}
  BY NobodySays
<1> QED
  BY <1>2, <1>3, <1>4, Zenon DEF Otherwise

(* A message is in the request as one prompt that says what it says, or it *)
(* says nothing.                                                           *)
LEMMA PromptRenders ==
  ASSUME NEW m \in Messages
  PROVE  \/ PromptOf(m) = <<>> /\ Silent(m)
         \/ \E prompt : PromptOf(m) = <<prompt>> /\ Renders(m, prompt)
<1>1. PICK text, images, calls, answers :
        text = TextOf(m) /\ images = ImagesOf(m) /\ calls = m.calls /\ answers = m.answers
  OBVIOUS
<1>2. /\ m.role \in Roles /\ calls \in Seq(Ids) /\ answers \in Ids \cup {NoId}
      /\ calls # <<>> => m.role = "assistant"
      /\ m.role = "tool" <=> answers # NoId
      /\ text \in Seq(Words) /\ images \in Seq(Pictures)
  BY <1>1, SaidTyped
<1>3. PICK told : told = Words \cup {ToolOnly[1], EmptyResult[1]}
  OBVIOUS
<1>4. /\ <<>> \in Seq(Words) /\ <<>> \in Seq(Pictures) /\ <<>> \in Seq(Ids) /\ NoId \in Ids \cup {NoId}
  BY EmptySeq
<1>5. text \in Seq(told)
  <2>1. /\ Otherwise(text, ToolOnly) \in Seq(Words \cup {ToolOnly[1], EmptyResult[1]})
        /\ text # <<>> => Otherwise(text, ToolOnly) = text
    BY <1>2, OtherwiseTyped
  <2>2. CASE text = <<>>
    BY <2>2, EmptySeq
  <2>3. CASE text # <<>>
    BY <1>3, <2>1, <2>3
  <2> QED
    BY <2>2, <2>3
<1>6. text \notin {ToolOnly, EmptyResult}
  BY <1>2, NobodySays
<1>7. CASE m.role = "user" /\ (text # <<>> \/ images # <<>>)
  <2>1. PICK prompt : prompt = [source |-> "user", label |-> FALSE, system |-> FALSE, text |-> text,
                                images |-> images, calls |-> <<>>, answers |-> NoId]
    OBVIOUS
  <2>2. PromptOf(m) = <<prompt>>
    <3>1. PromptOf(m) = <<[TurnOf("user", text) EXCEPT !.images = images]>>
      BY <1>1, <1>7, PromptCases
    <3> QED
      BY <2>1, <3>1, UserTurn
  <2>3. prompt \in Prompts
    BY <1>2, <1>3, <1>4, <1>5, <2>1 DEF Prompts
  <2>4. WordsTold(prompt) = WordsSaid(m)
    BY <1>1, <1>6, <1>7, <2>1 DEF WordsTold, WordsSaid
  <2>5. PicturesSent(m) = images /\ calls = <<>> /\ answers = NoId
    BY <1>1, <1>2, <1>7 DEF PicturesSent
  <2>6. Renders(m, prompt)
    BY <1>1, <1>7, <2>1, <2>3, <2>4, <2>5 DEF Renders
  <2> QED
    BY <2>2, <2>6
<1>8. CASE m.role = "assistant" /\ (text # <<>> \/ calls # <<>>)
  <2>1. PICK shown : shown = Otherwise(text, ToolOnly)
    OBVIOUS
  <2>2. shown \in Seq(told) /\ shown # <<>> /\ (shown \in {ToolOnly, EmptyResult} <=> text = <<>>)
        /\ (text # <<>> => shown = text)
    BY <1>2, <1>3, <2>1, OtherwiseTyped
  <2>3. PICK prompt : prompt = [source |-> "user", label |-> TRUE, system |-> FALSE, text |-> shown,
                                images |-> <<>>, calls |-> calls, answers |-> NoId]
    OBVIOUS
  <2>4. PromptOf(m) = <<prompt>>
    <3>1. PromptOf(m) = <<[TurnOf("user", shown) EXCEPT !.label = TRUE, !.calls = calls]>>
      BY <1>1, <1>8, <2>1, PromptCases
    <3> QED
      BY <2>3, <3>1, AssistantTurn
  <2>5. prompt \in Prompts
    BY <1>2, <1>3, <1>4, <2>2, <2>3 DEF Prompts
  <2>6. WordsTold(prompt) = WordsSaid(m)
    <3>1. WordsTold(prompt) = IF shown \in {ToolOnly, EmptyResult} THEN <<>> ELSE Attributed("assistant", shown)
      BY <2>3 DEF WordsTold
    <3>2. WordsSaid(m) = Attributed("assistant", text)
      BY <1>1, <1>8 DEF WordsSaid
    <3>3. text = <<>> => Attributed("assistant", text) = <<>>
      BY <1>2, AttributedTyped DEF Roles
    <3> QED
      BY <2>2, <3>1, <3>2, <3>3
  <2>7. PicturesSent(m) = <<>> /\ answers = NoId
    BY <1>2, <1>8 DEF PicturesSent
  <2>8. Renders(m, prompt)
    BY <1>1, <1>8, <2>2, <2>3, <2>5, <2>6, <2>7 DEF Renders
  <2> QED
    BY <2>4, <2>8
<1>9. CASE m.role = "tool"
  <2>1. PICK shown : shown = Otherwise(text, EmptyResult)
    OBVIOUS
  <2>2. shown \in Seq(told) /\ shown # <<>> /\ (shown \in {ToolOnly, EmptyResult} <=> text = <<>>)
        /\ (text # <<>> => shown = text)
    BY <1>2, <1>3, <2>1, OtherwiseTyped
  <2>3. PICK prompt : prompt = [source |-> "tool", label |-> FALSE, system |-> FALSE, text |-> shown,
                                images |-> <<>>, calls |-> <<>>, answers |-> answers]
    OBVIOUS
  <2>4. PromptOf(m) = <<prompt>>
    <3>1. PromptOf(m) = <<[TurnOf("tool", shown) EXCEPT !.answers = answers]>>
      BY <1>1, <1>9, <2>1, PromptCases
    <3> QED
      BY <2>3, <3>1, ResultTurn
  <2>5. prompt \in Prompts
    BY <1>2, <1>3, <1>4, <2>2, <2>3 DEF Prompts
  <2>6. WordsTold(prompt) = WordsSaid(m)
    <3>1. WordsTold(prompt) = IF shown \in {ToolOnly, EmptyResult} THEN <<>> ELSE Attributed("tool", shown)
      BY <2>3 DEF WordsTold
    <3>2. WordsSaid(m) = Attributed("tool", text)
      BY <1>1, <1>9 DEF WordsSaid
    <3>3. text = <<>> => Attributed("tool", text) = <<>>
      BY <1>2, AttributedTyped DEF Roles
    <3> QED
      BY <2>2, <3>1, <3>2, <3>3
  <2>7. PicturesSent(m) = <<>> /\ calls = <<>>
    BY <1>2, <1>9 DEF PicturesSent
  <2>8. Renders(m, prompt)
    BY <1>1, <1>9, <2>2, <2>3, <2>5, <2>6, <2>7 DEF Renders
  <2> QED
    BY <2>4, <2>8
<1>10. CASE m.role # "tool" /\ calls = <<>> /\ (m.role # "system" => text = <<>>) /\ (m.role = "user" => images = <<>>)
  <2>1. answers = NoId
    BY <1>2, <1>10
  <2>2. WordsSaid(m) = <<>>
    <3>1. CASE m.role = "system"
      BY <3>1 DEF WordsSaid
    <3>2. CASE m.role # "system"
      <4>1. Attributed(m.role, text) = <<>>
        BY <1>2, <1>10, <3>2, AttributedTyped
      <4> QED
        BY <1>1, <3>2, <4>1 DEF WordsSaid
    <3> QED
      BY <3>1, <3>2
  <2>3. PicturesSent(m) = <<>>
    BY <1>1, <1>10 DEF PicturesSent
  <2>4. PromptOf(m) = <<>>
    <3>1. m.role \in {"system", "user", "assistant"}
      BY <1>2, <1>10 DEF Roles
    <3> QED
      BY <1>1, <1>10, <3>1, PromptCases
  <2> QED
    BY <1>1, <1>10, <2>1, <2>2, <2>3, <2>4 DEF Silent
<1> QED
  <2>1. m.role \in {"system", "user", "assistant", "tool"}
    BY <1>2 DEF Roles
  <2> QED
    BY <1>2, <1>7, <1>8, <1>9, <1>10, <2>1
-----------------------------------------------------------------------------
(* A history and the request that carries it.                              *)

(* What is said by each message of the one is heard in the same order from *)
(* the prompts of the other: from none of the first `ahead`, and from the  *)
(* prompt of a message what it says.                                       *)
Follows(p, seqs, heard, said, ahead) ==
  /\ Len(said) = Len(seqs) /\ Len(heard) = ahead + Len(p[Len(seqs)])
  /\ \A l \in 1..ahead : heard[l] = <<>>
  /\ \A k \in 1..Len(seqs) :
       IF seqs[k] = <<>> THEN said[k] = <<>> ELSE heard[ahead + Len(p[k])] = said[k]

LEMMA SameTold ==
  ASSUME NEW U, NEW V, NEW seqs \in Seq(Seq(U)), NEW p, Joins(p, U, seqs), Placement(p, seqs),
         NEW heard \in Seq(Seq(V)), NEW said \in Seq(Seq(V)), NEW ahead \in {0, 1},
         Follows(p, seqs, heard, said, ahead)
  PROVE  FlattenSeq(heard) = FlattenSeq(said)
<1>1. PICK n, at : n = Len(seqs) /\ at = [k \in 0..n |-> Len(p[k])]
  OBVIOUS
<1>2. n \in Nat /\ p \in [0..n -> Seq(U)] /\ p[0] = <<>>
  BY <1>1, SeqFacts DEF Joins
<1>3. at \in [0..n -> Nat] /\ at[0] = 0
  <2>1. \A k \in 0..n : Len(p[k]) \in Nat
    BY <1>2, SeqFacts
  <2>2. Len(p[0]) = 0 /\ 0 \in 0..n
    BY <1>2, EmptySeq
  <2> QED
    BY <1>1, <2>1, <2>2
<1>4. /\ \A k \in 1..n : seqs[k] = <<>> => at[k] = at[k - 1]
      /\ \A k \in 1..n : seqs[k] # <<>> => at[k] = at[k - 1] + 1
      /\ \A k \in 0..n : at[k] <= at[n]
  <2>1. ASSUME NEW k \in 1..n
        PROVE  /\ seqs[k] = <<>> => at[k] = at[k - 1]
               /\ seqs[k] # <<>> => at[k] = at[k - 1] + 1
    <3>1. k \in 0..n /\ k - 1 \in 0..n
      BY <1>2
    <3>2. at[k] = at[k - 1] + Len(seqs[k]) /\ (seqs[k] # <<>> => Len(seqs[k]) = 1)
      BY <1>1, <3>1 DEF Placement
    <3>3. seqs[k] = <<>> => Len(seqs[k]) = 0
      BY EmptySeq
    <3>4. PICK now, before, more : now = at[k] /\ before = at[k - 1] /\ more = Len(seqs[k])
      OBVIOUS
    <3>5. before \in Nat
      BY <1>3, <3>1, <3>4
    <3>6. now = before + more
      BY <3>2, <3>4
    <3>7. /\ seqs[k] = <<>> => more = 0
          /\ seqs[k] # <<>> => more = 1
      BY <3>2, <3>3, <3>4
    <3>8. /\ seqs[k] = <<>> => now = before
          /\ seqs[k] # <<>> => now = before + 1
      BY <3>5, <3>6, <3>7
    <3> QED
      BY <3>4, <3>8
  <2>2. \A k \in 0..n : at[k] <= at[n]
    <3>1. n \in 0..n
      BY <1>2
    <3> QED
      BY <1>1, <1>2, <3>1 DEF Placement
  <2> QED
    BY <2>1, <2>2
<1>5. PICK q : Joins(q, V, heard) /\ FlattenSeq(heard) = q[Len(heard)]
  BY FlattenJoins
<1>6. PICK w : Joins(w, V, said) /\ FlattenSeq(said) = w[Len(said)]
  BY FlattenJoins
<1>7. Len(said) = n /\ Len(heard) = ahead + at[n]
  <2>1. n \in 0..n
    BY <1>2
  <2> QED
    BY <1>1, <2>1 DEF Follows
<1>8. /\ q \in [0..(ahead + at[n]) -> Seq(V)] /\ q[0] = <<>>
      /\ \A k \in 1..(ahead + at[n]) : q[k] = q[k - 1] \o heard[k] /\ heard[k] \in Seq(V)
      /\ w \in [0..n -> Seq(V)] /\ w[0] = <<>>
      /\ \A k \in 1..n : w[k] = w[k - 1] \o said[k] /\ said[k] \in Seq(V)
  BY <1>5, <1>6, <1>7, SeqFacts DEF Joins
<1>9. at[n] \in Nat /\ n \in 0..n /\ ahead \in Nat
  BY <1>2, <1>3
<1>10. PICK same : same = {k \in 0..n : q[ahead + at[k]] = w[k]}
  OBVIOUS
<1>11. 0 \in same
  <2>1. CASE ahead = 0
    <3>1. ahead + at[0] = 0 /\ 0 \in 0..n
      BY <1>2, <1>3, <2>1
    <3> QED
      BY <1>8, <1>10, <3>1
  <2>2. CASE ahead = 1
    <3>1. 1 \in 1..(ahead + at[n]) /\ 1 \in 1..ahead /\ 1 - 1 = 0 /\ 0 \in 0..(ahead + at[n])
      BY <1>9, <2>2
    <3>2. heard[1] = <<>> /\ q[1] = q[0] \o heard[1]
      BY <1>8, <3>1 DEF Follows
    <3>3. <<>> \o <<>> = <<>>
      <4>1. <<>> \in Seq(V)
        BY EmptySeq
      <4> QED
        BY <4>1, ConcatEmptySeq
    <3>4. q[1] = <<>>
      BY <1>8, <3>2, <3>3
    <3>5. ahead + at[0] = 1 /\ 0 \in 0..n
      BY <1>2, <1>3, <2>2
    <3> QED
      BY <1>8, <1>10, <3>4, <3>5
  <2> QED
    BY <2>1, <2>2
<1>12. ASSUME NEW k \in 0..(n - 1), k \in same  PROVE k + 1 \in same
  <2>1. PICK i \in 1..n : i = k + 1 /\ i - 1 = k
    BY <1>2
  <2>2. i \in 0..n /\ k \in 0..n /\ at[i] \in Nat /\ at[k] \in Nat /\ at[i] <= at[n]
    <3>1. i \in 0..n /\ k \in 0..n
      BY <1>2, <2>1
    <3> QED
      BY <1>3, <1>4, <3>1
  <2>3. w[i] = w[k] \o said[i] /\ w[k] \in Seq(V) /\ q[ahead + at[k]] = w[k]
    BY <1>8, <1>10, <1>12, <2>1, <2>2
  <2>4. CASE seqs[i] = <<>>
    <3>1. at[i] = at[k] /\ said[i] = <<>>
      BY <1>1, <1>4, <2>1, <2>4 DEF Follows
    <3>2. w[i] = w[k]
      BY <2>3, <3>1, ConcatEmptySeq
    <3> QED
      BY <1>10, <2>1, <2>2, <2>3, <3>1, <3>2
  <2>5. CASE seqs[i] # <<>>
    <3>1. at[i] = at[k] + 1 /\ heard[ahead + at[i]] = said[i]
      BY <1>1, <1>4, <2>1, <2>2, <2>5 DEF Follows
    <3>2. PICK l, now, before, whole : l = ahead + now /\ now = at[i] /\ before = at[k] /\ whole = at[n]
      OBVIOUS
    <3>3. l \in 1..(ahead + at[n]) /\ l - 1 = ahead + at[k]
      <4>1. now \in Nat /\ before \in Nat /\ whole \in Nat /\ now <= whole /\ now = before + 1
        BY <1>9, <2>2, <3>1, <3>2
      <4>2. l \in 1..(ahead + whole) /\ l - 1 = ahead + before
        <5>1. l = ahead + now
          BY <3>2
        <5> QED
          BY <1>9, <4>1, <5>1
      <4> QED
        BY <3>2, <4>2
    <3>4. q[l] = q[l - 1] \o heard[l]
      BY <1>8, <3>3
    <3>5. q[l] = w[i]
      BY <2>3, <3>1, <3>2, <3>3, <3>4
    <3> QED
      BY <1>10, <2>1, <2>2, <3>2, <3>5
  <2> QED
    BY <2>4, <2>5
<1>13. n \in same
  <2>1. same \in SUBSET (0..n)
    BY <1>10
  <2>2. \A k \in 0..n : k \in same
    BY <1>2, <1>11, <1>12, <2>1, NextByNext
  <2> QED
    BY <1>9, <2>2
<1> QED
  BY <1>5, <1>6, <1>7, <1>10, <1>13

(* The block of the system prompts holds all of their words, if any of     *)
(* them is one that shows.                                                 *)
Instructions(block, h) ==
  /\ block \in Prompts /\ block.system /\ ~block.label /\ block.source = "user"
  /\ block.text # <<>> /\ block.images = <<>> /\ block.calls = <<>> /\ block.answers = NoId
  /\ WordsTold(block) = <<>>
  /\ \A i \in DOMAIN h : h[i].role = "system" => ToSet(TextOf(h[i])) \subseteq ToSet(block.text)

LEMMA BlockRenders ==
  ASSUME NEW h \in Seq(Messages)
  PROVE  \/ /\ SystemBlock(h) = <<>>
            /\ \A i \in DOMAIN h : h[i].role = "system" => ToSet(TextOf(h[i])) \subseteq {Blank}
         \/ \E block : SystemBlock(h) = <<block>> /\ Instructions(block, h)
<1>1. PICK n, parts, all : /\ n = Len(h) /\ parts = [i \in DOMAIN h |-> Instructs(h[i])]
                           /\ all = SystemText(h)
  OBVIOUS
<1>2. n \in Nat /\ DOMAIN h = 1..n /\ \A i \in 1..n : h[i] \in Messages
  BY <1>1, SeqFacts
<1>3. \A i \in 1..n : TextOf(h[i]) \in Seq(Words)
  BY <1>2, SaidTyped
<1>4. \A i \in 1..n : Instructs(h[i]) \in Seq(Words)
  BY <1>3, EmptySeq DEF Instructs
<1>5. parts \in [1..n -> Seq(Words)]
  BY <1>1, <1>2, <1>4
<1>6. parts \in Seq(Seq(Words)) /\ DOMAIN parts = 1..n
  BY <1>2, <1>5
<1>7. all = FlattenSeq(parts)
  BY <1>1 DEF SystemText
<1>8. all \in Seq(Words) /\ ToSet(all) = UNION {ToSet(parts[i]) : i \in DOMAIN parts}
  BY <1>6, <1>7, FlattenHolds
<1>9. ASSUME NEW i \in DOMAIN h, h[i].role = "system"  PROVE ToSet(TextOf(h[i])) \subseteq ToSet(all)
  <2>1. i \in DOMAIN parts /\ parts[i] = TextOf(h[i])
    BY <1>1, <1>2, <1>6, <1>9 DEF Instructs
  <2> QED
    BY <1>8, <2>1
<1>10. CASE \A i \in DOMAIN all : all[i] = Blank
  <2>1. SystemBlock(h) = <<>>
    BY <1>1, <1>10 DEF SystemBlock
  <2>2. ToSet(all) \subseteq {Blank}
    BY <1>10 DEF ToSet
  <2> QED
    BY <1>9, <2>1, <2>2
<1>11. CASE ~ \A i \in DOMAIN all : all[i] = Blank
  <2>1. PICK block : block = [source |-> "user", label |-> FALSE, system |-> TRUE, text |-> all,
                              images |-> <<>>, calls |-> <<>>, answers |-> NoId]
    OBVIOUS
  <2>2. SystemBlock(h) = <<block>>
    <3>1. SystemBlock(h) = <<[TurnOf("user", all) EXCEPT !.system = TRUE]>>
      BY <1>1, <1>11 DEF SystemBlock
    <3> QED
      BY <2>1, <3>1, SystemTurn
  <2>3. all # <<>>
    <3>1. PICK i \in DOMAIN all : all[i] # Blank
      BY <1>11
    <3>2. DOMAIN all = 1..Len(all) /\ Len(all) \in Nat
      BY <1>8, SeqFacts
    <3>3. Len(all) # 0
      BY <3>1, <3>2
    <3> QED
      BY <3>3, EmptySeq
  <2>4. all \in Seq(Words \cup {ToolOnly[1], EmptyResult[1]})
    <3>1. /\ Otherwise(all, ToolOnly) \in Seq(Words \cup {ToolOnly[1], EmptyResult[1]})
          /\ all # <<>> => Otherwise(all, ToolOnly) = all
      BY <1>8, OtherwiseTyped
    <3> QED
      BY <2>3, <3>1
  <2>5. block \in Prompts
    <3>1. <<>> \in Seq(Pictures) /\ <<>> \in Seq(Ids) /\ NoId \in Ids \cup {NoId}
      BY EmptySeq
    <3> QED
      BY <2>1, <2>4, <3>1 DEF Prompts
  <2>6. WordsTold(block) = <<>>
    BY <2>1 DEF WordsTold
  <2>7. Instructions(block, h)
    BY <1>9, <2>1, <2>3, <2>5, <2>6 DEF Instructions
  <2> QED
    BY <2>2, <2>7
<1> QED
  BY <1>10, <1>11
(* Where the prompts of a history's messages are among all that is told.   *)
Carried(h, turns, told, ahead, at) ==
  /\ turns \in Seq(Prompts) /\ told \in Seq(Prompts) /\ Len(told) = ahead + Len(turns)
  /\ \A k \in 1..Len(turns) : told[ahead + k] = turns[k]
  /\ ahead \in {0, 1} /\ at \in [1..Len(h) -> Nat]
  /\ IF ahead = 1 THEN Instructions(told[1], h)
     ELSE \A i \in DOMAIN h : h[i].role = "system" => ToSet(TextOf(h[i])) \subseteq {Blank}
  /\ \A l \in 1..Len(told) : l <= ahead \/ \E i \in 1..Len(h) : l = at[i] /\ PromptOf(h[i]) # <<>>
  /\ \A i \in 1..Len(h) :
       IF PromptOf(h[i]) = <<>> THEN Silent(h[i])
       ELSE at[i] \in (ahead + 1)..Len(told) /\ Renders(h[i], told[at[i]])
  /\ \A i, j \in 1..Len(h) : i < j /\ PromptOf(h[j]) # <<>> => at[i] < at[j]

(* What is heard in it, and what is shown.                                 *)
HeardIn(told)  == FlattenSeq([k \in DOMAIN told |-> WordsTold(told[k])])
SpokenIn(h)    == FlattenSeq([i \in DOMAIN h |-> WordsSaid(h[i])])
SeenIn(told)   == FlattenSeq([k \in DOMAIN told |-> told[k].images])
SentIn(h)      == FlattenSeq([i \in DOMAIN h |-> PicturesSent(h[i])])

(* The prompts of a history, and the places they take.                     *)
PromptsAt(h, seqs, p) ==
  /\ seqs \in Seq(Seq(Prompts)) /\ Len(seqs) = Len(h)
  /\ \A i \in 1..Len(h) : seqs[i] = PromptOf(h[i])
  /\ Joins(p, Prompts, seqs) /\ Placement(p, seqs) /\ p[Len(h)] = Turns(h)

LEMMA PromptsLaid ==
  ASSUME NEW h \in Seq(Messages)
  PROVE  \E seqs, p : PromptsAt(h, seqs, p)
<1>1. PICK n, seqs : n = Len(h) /\ seqs = [i \in DOMAIN h |-> PromptOf(h[i])]
  OBVIOUS
<1>2. n \in Nat /\ DOMAIN h = 1..n /\ \A i \in 1..n : h[i] \in Messages
  BY <1>1, SeqFacts
<1>3. ASSUME NEW i \in 1..n  PROVE PromptOf(h[i]) \in Seq(Prompts) /\ Len(PromptOf(h[i])) \in {0, 1}
  <2>1. CASE PromptOf(h[i]) = <<>>
    BY <2>1, EmptySeq
  <2>2. CASE PromptOf(h[i]) # <<>>
    <3>1. PICK prompt : PromptOf(h[i]) = <<prompt>> /\ Renders(h[i], prompt)
      BY <1>2, <2>2, PromptRenders
    <3>2. prompt \in Prompts
      BY <3>1 DEF Renders
    <3>3. <<prompt>> \in Seq(Prompts) /\ Len(<<prompt>>) \in {0, 1}
      BY <3>2
    <3> QED
      BY <3>1, <3>3
  <2> QED
    BY <2>1, <2>2
<1>4. seqs \in [1..n -> Seq(Prompts)] /\ \A i \in 1..n : seqs[i] = PromptOf(h[i])
  BY <1>1, <1>2, <1>3
<1>5. seqs \in Seq(Seq(Prompts)) /\ Len(seqs) = n
  BY <1>2, <1>4
<1>6. PICK p : Joins(p, Prompts, seqs) /\ FlattenSeq(seqs) = p[Len(seqs)]
  BY <1>5, FlattenJoins
<1>7. \A k \in 1..Len(seqs) : Len(seqs[k]) \in {0, 1}
  BY <1>3, <1>4, <1>5
<1>8. Placement(p, seqs)
  BY <1>5, <1>6, <1>7, JoinsPlaced
<1>9. p[n] = Turns(h)
  BY <1>1, <1>5, <1>6 DEF Turns
<1> QED
  BY <1>1, <1>4, <1>5, <1>6, <1>8, <1>9 DEF PromptsAt

(* One sequence behind another one of at most one element.                 *)
LEMMA Behind ==
  ASSUME NEW V, NEW s \in Seq(V), NEW t \in Seq(V), Len(s) \in {0, 1}
  PROVE  /\ s \o t \in Seq(V) /\ Len(s \o t) = Len(s) + Len(t)
         /\ \A k \in 1..Len(t) : (s \o t)[Len(s) + k] = t[k]
         /\ Len(s) = 1 => (s \o t)[1] = s[1]
<1>1. PICK m, n, both : m = Len(s) /\ n = Len(t) /\ both = s \o t
  OBVIOUS
<1>2. m \in {0, 1} /\ n \in Nat
  BY <1>1, SeqFacts
<1>3. /\ both \in Seq(V) /\ Len(both) = m + n
      /\ \A i \in 1..(m + n) : both[i] = IF i <= m THEN s[i] ELSE t[i - m]
  <2>1. /\ s \o t \in Seq(V) /\ Len(s \o t) = Len(s) + Len(t)
        /\ \A i \in 1..(Len(s) + Len(t)) : (s \o t)[i] = IF i <= Len(s) THEN s[i] ELSE t[i - Len(s)]
    BY ConcatProperties
  <2> QED
    BY <1>1, <2>1
<1>4. ASSUME NEW k \in 1..n  PROVE both[m + k] = t[k]
  <2>1. m + k \in 1..(m + n) /\ ~(m + k <= m) /\ (m + k) - m = k
    BY <1>2
  <2> QED
    BY <1>3, <2>1
<1>5. m = 1 => both[1] = s[1]
  BY <1>2, <1>3
<1> QED
  BY <1>1, <1>3, <1>4, <1>5

LEMMA HistoryCarried ==
  ASSUME NEW h \in Seq(Messages), NEW seqs, NEW p, PromptsAt(h, seqs, p)
  PROVE  \E ahead, at :
           /\ Carried(h, Turns(h), SystemBlock(h) \o Turns(h), ahead, at)
           /\ \A i \in 1..Len(h) : at[i] = ahead + Len(p[i])
<1>1. PICK n, turns, block, told, ahead :
        n = Len(h) /\ turns = Turns(h) /\ block = SystemBlock(h) /\ told = block \o turns /\ ahead = Len(block)
  OBVIOUS
<1>2. n \in Nat /\ DOMAIN h = 1..n /\ \A i \in 1..n : h[i] \in Messages
  BY <1>1, SeqFacts
<1>3. /\ seqs \in Seq(Seq(Prompts)) /\ Len(seqs) = n /\ \A i \in 1..n : seqs[i] = PromptOf(h[i])
      /\ p \in [0..n -> Seq(Prompts)] /\ p[n] = turns
      /\ \A k \in 1..n : Len(p[k]) = Len(p[k - 1]) + Len(seqs[k])
      /\ \A j, k \in 0..n : j <= k => Len(p[j]) <= Len(p[k])
      /\ \A k \in 1..n : seqs[k] # <<>> => Len(seqs[k]) = 1 /\ turns[Len(p[k])] = seqs[k][1]
      /\ \A l \in 1..Len(turns) : \E k \in 1..n : seqs[k] # <<>> /\ l = Len(p[k])
  BY <1>1 DEF PromptsAt, Joins, Placement
<1>4. /\ block \in Seq(Prompts) /\ ahead \in {0, 1}
      /\ ahead = 1 => Instructions(block[1], h)
      /\ ahead = 0 => \A i \in DOMAIN h : h[i].role = "system" => ToSet(TextOf(h[i])) \subseteq {Blank}
  <2>1. CASE /\ block = <<>>
             /\ \A i \in DOMAIN h : h[i].role = "system" => ToSet(TextOf(h[i])) \subseteq {Blank}
    <3>1. block \in Seq(Prompts) /\ ahead = 0
      BY <1>1, <2>1, EmptySeq
    <3> QED
      BY <2>1, <3>1
  <2>2. CASE \E it : block = <<it>> /\ Instructions(it, h)
    <3>1. PICK it : block = <<it>> /\ Instructions(it, h)
      BY <2>2
    <3>2. it \in Prompts
      BY <3>1 DEF Instructions
    <3>3. <<it>> \in Seq(Prompts) /\ Len(<<it>>) = 1 /\ <<it>>[1] = it
      BY <3>2
    <3>4. block \in Seq(Prompts) /\ ahead = 1 /\ block[1] = it
      BY <1>1, <3>1, <3>3
    <3> QED
      BY <3>1, <3>4
  <2> QED
    BY <1>1, <2>1, <2>2, BlockRenders
<1>5. n \in 0..n /\ turns \in Seq(Prompts)
  BY <1>2, <1>3
<1>6. /\ told \in Seq(Prompts) /\ Len(told) = ahead + Len(turns)
      /\ \A k \in 1..Len(turns) : told[ahead + k] = turns[k]
      /\ ahead = 1 => told[1] = block[1]
  <2>1. /\ block \o turns \in Seq(Prompts) /\ Len(block \o turns) = Len(block) + Len(turns)
        /\ \A k \in 1..Len(turns) : (block \o turns)[Len(block) + k] = turns[k]
        /\ Len(block) = 1 => (block \o turns)[1] = block[1]
    BY <1>1, <1>4, <1>5, Behind
  <2> QED
    BY <1>1, <2>1
<1>7. PICK whole : whole = Len(turns)
  OBVIOUS
<1>8. whole \in Nat
  BY <1>5, <1>7, SeqFacts
<1>9. PICK len : len = [i \in 0..n |-> Len(p[i])]
  OBVIOUS
<1>10. /\ len \in [0..n -> Nat] /\ len[n] = whole
       /\ \A j, k \in 0..n : j <= k => len[j] <= len[k]
  BY <1>3, <1>5, <1>7, <1>9, SeqFacts
<1>11. ASSUME NEW k \in 1..n, seqs[k] # <<>>
       PROVE  /\ len[k] \in 1..whole /\ turns[len[k]] = seqs[k][1] /\ len[k - 1] < len[k]
  <2>1. k \in 0..n /\ k - 1 \in 0..n
    BY <1>2
  <2>2. Len(seqs[k]) = 1 /\ turns[len[k]] = seqs[k][1] /\ len[k] = len[k - 1] + Len(seqs[k])
    BY <1>3, <1>9, <1>11, <2>1
  <2>3. PICK now, before : now = len[k] /\ before = len[k - 1]
    OBVIOUS
  <2>4. now = before + 1
    BY <2>2, <2>3
  <2>5. now <= whole /\ before \in Nat
    BY <1>2, <1>5, <1>10, <2>1, <2>3
  <2>6. now \in 1..whole /\ before < now
    BY <1>8, <2>4, <2>5
  <2> QED
    BY <2>2, <2>3, <2>6
<1>12. PICK at : at = [i \in 1..n |-> ahead + len[i]]
  OBVIOUS
<1>13. \A i \in 1..n : i \in 0..n
  BY <1>2
<1>14. at \in [1..n -> Nat]
  <2>1. \A i \in 1..n : ahead + len[i] \in Nat
    BY <1>4, <1>10, <1>13
  <2> QED
    BY <1>12, <2>1
<1>15. ASSUME NEW l \in 1..Len(told)  PROVE l <= ahead \/ \E i \in 1..n : l = at[i] /\ PromptOf(h[i]) # <<>>
  <2> SUFFICES ASSUME ~(l <= ahead)  PROVE \E i \in 1..n : l = at[i] /\ PromptOf(h[i]) # <<>>
    OBVIOUS
  <2>1. l - ahead \in 1..whole /\ l = ahead + (l - ahead)
    BY <1>4, <1>6, <1>7, <1>8
  <2>2. PICK k \in 1..n : seqs[k] # <<>> /\ l - ahead = len[k]
    BY <1>3, <1>7, <1>9, <1>13, <2>1
  <2>3. at[k] = ahead + len[k]
    BY <1>12
  <2> QED
    BY <1>3, <2>1, <2>2, <2>3
<1>16. ASSUME NEW i \in 1..n
       PROVE  IF PromptOf(h[i]) = <<>> THEN Silent(h[i])
              ELSE at[i] \in (ahead + 1)..Len(told) /\ Renders(h[i], told[at[i]])
  <2>1. CASE PromptOf(h[i]) = <<>>
    <3>1. \A prompt : PromptOf(h[i]) # <<prompt>>
      BY <2>1
    <3> QED
      BY <1>2, <2>1, <3>1, PromptRenders
  <2>2. CASE PromptOf(h[i]) # <<>>
    <3>1. PICK prompt : PromptOf(h[i]) = <<prompt>> /\ Renders(h[i], prompt)
      BY <1>2, <2>2, PromptRenders
    <3>2. seqs[i] = <<prompt>> /\ seqs[i][1] = prompt
      <4>1. seqs[i] = PromptOf(h[i])
        BY <1>3
      <4>2. <<prompt>>[1] = prompt
        OBVIOUS
      <4> QED
        BY <3>1, <4>1, <4>2
    <3>3. len[i] \in 1..whole /\ turns[len[i]] = prompt
      BY <1>3, <1>11, <2>2, <3>2
    <3>4. at[i] = ahead + len[i]
      BY <1>12
    <3>5. told[at[i]] = prompt
      BY <1>6, <1>7, <3>3, <3>4
    <3>6. at[i] \in (ahead + 1)..Len(told)
      BY <1>4, <1>6, <1>7, <1>8, <3>3, <3>4
    <3> QED
      BY <2>2, <3>1, <3>5, <3>6
  <2> QED
    BY <2>1, <2>2
<1>17. ASSUME NEW i \in 1..n, NEW j \in 1..n, i < j, PromptOf(h[j]) # <<>>  PROVE at[i] < at[j]
  <2>1. i \in 0..n /\ j - 1 \in 0..n /\ i <= j - 1 /\ j \in 0..n
    BY <1>2, <1>17
  <2>2. len[i] <= len[j - 1] /\ len[j - 1] < len[j]
    BY <1>3, <1>10, <1>11, <1>17, <2>1
  <2>3. PICK a, b, c : a = len[i] /\ b = len[j - 1] /\ c = len[j]
    OBVIOUS
  <2>4. a \in Nat /\ b \in Nat /\ c \in Nat
    BY <1>10, <2>1, <2>3
  <2>5. a <= b /\ b < c
    BY <2>2, <2>3
  <2>6. ahead + a < ahead + c
    BY <1>4, <2>4, <2>5
  <2>7. at[i] = ahead + a /\ at[j] = ahead + c
    BY <1>12, <2>3
  <2> QED
    BY <2>6, <2>7
<1>18. IF ahead = 1 THEN Instructions(told[1], h)
       ELSE \A i \in DOMAIN h : h[i].role = "system" => ToSet(TextOf(h[i])) \subseteq {Blank}
  BY <1>4, <1>6
<1>19. Carried(h, turns, told, ahead, at)
  BY <1>1, <1>4, <1>5, <1>6, <1>14, <1>15, <1>16, <1>17, <1>18 DEF Carried
<1>20. \A i \in 1..n : at[i] = ahead + Len(p[i])
  BY <1>9, <1>12, <1>13
<1> QED
  BY <1>1, <1>19, <1>20
(* All that was said is heard, in the same order, and all that was sent is *)
(* seen.                                                                   *)
LEMMA SaidIsHeard ==
  ASSUME NEW h \in Seq(Messages), NEW seqs, NEW p, PromptsAt(h, seqs, p),
         NEW told, NEW ahead, NEW at, Carried(h, Turns(h), told, ahead, at),
         \A i \in 1..Len(h) : at[i] = ahead + Len(p[i])
  PROVE  HeardIn(told) = SpokenIn(h) /\ SeenIn(told) = SentIn(h)
<1>1. PICK n, heard, said, seen, shown :
        /\ n = Len(h)
        /\ heard = [k \in DOMAIN told |-> WordsTold(told[k])] /\ said = [i \in DOMAIN h |-> WordsSaid(h[i])]
        /\ seen = [k \in DOMAIN told |-> told[k].images] /\ shown = [i \in DOMAIN h |-> PicturesSent(h[i])]
  OBVIOUS
<1>2. n \in Nat /\ DOMAIN h = 1..n /\ \A i \in 1..n : h[i] \in Messages
  BY <1>1, SeqFacts
<1>3. PICK m : m = Len(told)
  OBVIOUS
<1>4. m \in Nat /\ DOMAIN told = 1..m
  BY <1>3, SeqFacts DEF Carried
<1>5. said \in Seq(Seq(Heading)) /\ Len(said) = n /\ shown \in Seq(Seq(Pictures)) /\ Len(shown) = n
  <2>1. \A i \in 1..n : WordsSaid(h[i]) \in Seq(Heading) /\ PicturesSent(h[i]) \in Seq(Pictures)
    BY <1>2, SaidTyped
  <2>2. said \in [1..n -> Seq(Heading)] /\ shown \in [1..n -> Seq(Pictures)]
    BY <1>1, <1>2, <2>1
  <2> QED
    BY <1>2, <2>2
<1>6. /\ ahead \in {0, 1}
      /\ ahead = 1 => Instructions(told[1], h)
      /\ \A l \in 1..m : l <= ahead \/ \E i \in 1..n : l = at[i] /\ PromptOf(h[i]) # <<>>
      /\ \A i \in 1..n : PromptOf(h[i]) # <<>> => at[i] \in 1..m /\ Renders(h[i], told[at[i]])
      /\ \A i \in 1..n : PromptOf(h[i]) = <<>> => Silent(h[i])
  <2>1. ahead \in {0, 1} /\ m \in Nat
    BY <1>4 DEF Carried
  <2>2. (ahead + 1)..m \subseteq 1..m
    BY <2>1
  <2> QED
    BY <1>1, <1>3, <2>2 DEF Carried
<1>7. ASSUME NEW l \in 1..m, l <= ahead  PROVE WordsTold(told[l]) = <<>> /\ told[l].images = <<>>
  <2>1. ahead = 1 /\ l = 1
    BY <1>6, <1>7
  <2> QED
    BY <1>6, <2>1 DEF Instructions
<1>8. \A i \in 1..n : PromptOf(h[i]) # <<>> =>
        WordsTold(told[at[i]]) = WordsSaid(h[i]) /\ told[at[i]].images = PicturesSent(h[i])
  BY <1>6 DEF Renders
<1>9. ASSUME NEW l \in 1..m  PROVE WordsTold(told[l]) \in Seq(Heading) /\ told[l].images \in Seq(Pictures)
  <2>1. CASE l <= ahead
    BY <1>7, <2>1, EmptySeq
  <2>2. CASE ~(l <= ahead)
    <3>1. PICK i \in 1..n : l = at[i] /\ PromptOf(h[i]) # <<>>
      BY <1>6, <2>2
    <3>2. WordsSaid(h[i]) \in Seq(Heading) /\ PicturesSent(h[i]) \in Seq(Pictures)
      BY <1>2, SaidTyped
    <3> QED
      BY <1>8, <3>1, <3>2
  <2> QED
    BY <2>1, <2>2
<1>10. heard \in [1..m -> Seq(Heading)] /\ seen \in [1..m -> Seq(Pictures)]
  BY <1>1, <1>4, <1>9
<1>11. heard \in Seq(Seq(Heading)) /\ Len(heard) = m /\ seen \in Seq(Seq(Pictures)) /\ Len(seen) = m
  BY <1>4, <1>10
<1>12. /\ seqs \in Seq(Seq(Prompts)) /\ Len(seqs) = n /\ \A i \in 1..n : seqs[i] = PromptOf(h[i])
       /\ Joins(p, Prompts, seqs) /\ Placement(p, seqs)
  BY <1>1 DEF PromptsAt
<1>13. m = ahead + Len(p[n])
  <2>1. p[n] = Turns(h) /\ m = ahead + Len(Turns(h))
    BY <1>1, <1>3 DEF PromptsAt, Carried
  <2> QED
    BY <2>1
<1>14. \A l \in 1..ahead : heard[l] = <<>> /\ seen[l] = <<>>
  <2> SUFFICES ASSUME NEW l \in 1..ahead  PROVE heard[l] = <<>> /\ seen[l] = <<>>
    OBVIOUS
  <2>1. l <= ahead /\ l \in 1..m
    <3>1. Len(told) = ahead + Len(Turns(h)) /\ Len(Turns(h)) \in Nat
      BY SeqFacts DEF Carried
    <3> QED
      BY <1>3, <1>6, <3>1
  <2> QED
    BY <1>1, <1>4, <1>7, <2>1
<1>15. \A k \in 1..n :
         /\ IF seqs[k] = <<>> THEN said[k] = <<>> ELSE heard[ahead + Len(p[k])] = said[k]
         /\ IF seqs[k] = <<>> THEN shown[k] = <<>> ELSE seen[ahead + Len(p[k])] = shown[k]
  <2> SUFFICES ASSUME NEW k \in 1..n
               PROVE  /\ IF seqs[k] = <<>> THEN said[k] = <<>> ELSE heard[ahead + Len(p[k])] = said[k]
                      /\ IF seqs[k] = <<>> THEN shown[k] = <<>> ELSE seen[ahead + Len(p[k])] = shown[k]
    OBVIOUS
  <2>1. said[k] = WordsSaid(h[k]) /\ shown[k] = PicturesSent(h[k]) /\ seqs[k] = PromptOf(h[k])
    BY <1>1, <1>2, <1>12
  <2>2. CASE PromptOf(h[k]) = <<>>
    BY <1>6, <2>1, <2>2 DEF Silent
  <2>3. CASE PromptOf(h[k]) # <<>>
    <3>1. PICK l : l = at[k]
      OBVIOUS
    <3>2. l \in 1..m /\ l = ahead + Len(p[k])
      BY <1>1, <1>6, <2>3, <3>1
    <3>3. heard[l] = WordsTold(told[l]) /\ seen[l] = told[l].images
      BY <1>1, <1>4, <3>2
    <3> QED
      BY <1>8, <2>1, <2>3, <3>1, <3>2, <3>3
  <2> QED
    BY <2>2, <2>3
<1>16. Follows(p, seqs, heard, said, ahead) /\ Follows(p, seqs, seen, shown, ahead)
  BY <1>5, <1>11, <1>12, <1>13, <1>14, <1>15 DEF Follows
<1>17. FlattenSeq(heard) = FlattenSeq(said) /\ FlattenSeq(seen) = FlattenSeq(shown)
  BY <1>5, <1>6, <1>11, <1>12, <1>16, SameTold
<1> QED
  BY <1>1, <1>17 DEF HeardIn, SpokenIn, SeenIn, SentIn

(* Whose words there are, and who spoke.                                   *)
LEMMA WhoSpoke ==
  ASSUME NEW h \in Seq(Messages)
  PROVE  /\ \A x \in ToSet(SpokenIn(h)) : \E i \in 1..Len(h) : x[1] = h[i].role /\ WordsSaid(h[i]) # <<>>
         /\ \A i \in 1..Len(h) : h[i].role # "system" /\ TextOf(h[i]) # <<>> =>
              \E x \in ToSet(SpokenIn(h)) : x[1] = h[i].role
<1>1. PICK n, said : n = Len(h) /\ said = [i \in DOMAIN h |-> WordsSaid(h[i])]
  OBVIOUS
<1>2. n \in Nat /\ DOMAIN h = 1..n /\ \A i \in 1..n : h[i] \in Messages
  BY <1>1, SeqFacts
<1>3. \A i \in 1..n : WordsSaid(h[i]) \in Seq(Heading)
  BY <1>2, SaidTyped
<1>4. said \in [1..n -> Seq(Heading)]
  BY <1>1, <1>2, <1>3
<1>5. said \in Seq(Seq(Heading)) /\ DOMAIN said = 1..n
  BY <1>2, <1>4
<1>6. ToSet(SpokenIn(h)) = UNION {ToSet(said[k]) : k \in 1..n}
  BY <1>1, <1>5, FlattenHolds DEF SpokenIn
<1>7. ASSUME NEW i \in 1..n
      PROVE  /\ \A x \in ToSet(said[i]) : x[1] = h[i].role /\ WordsSaid(h[i]) # <<>>
             /\ h[i].role # "system" /\ TextOf(h[i]) # <<>> => \E x \in ToSet(said[i]) : x[1] = h[i].role
  <2>1. PICK who, text : who = h[i].role /\ text = TextOf(h[i])
    OBVIOUS
  <2>2. who \in Roles /\ text \in Seq(Words)
    BY <1>2, <2>1, SaidTyped
  <2>3. said[i] = IF who = "system" THEN <<>> ELSE Attributed(who, text)
    BY <1>1, <1>2, <2>1 DEF WordsSaid
  <2>4. ToSet(<<>>) = {}
    BY DEF ToSet
  <2>5. ASSUME NEW x \in ToSet(said[i])  PROVE x[1] = who /\ said[i] # <<>>
    <3>1. who # "system" /\ said[i] # <<>>
      BY <2>3, <2>4, <2>5
    <3> QED
      BY <2>2, <2>3, <3>1, AttributedTyped
  <2>6. ASSUME who # "system", text # <<>>  PROVE \E x \in ToSet(said[i]) : x[1] = who
    <3>1. <<who, text[1]>> \in ToSet(said[i]) /\ <<who, text[1]>>[1] = who
      BY <2>2, <2>3, <2>6, AttributedTyped
    <3> QED
      BY <3>1
  <2>7. said[i] = WordsSaid(h[i])
    BY <1>1, <1>2
  <2> QED
    BY <2>1, <2>5, <2>6, <2>7
<1> QED
  BY <1>1, <1>6, <1>7
-----------------------------------------------------------------------------
(* The invariant of a chat.  Every call that was made is due or was        *)
(* answered after it, once; what is answered was asked for; and a call is  *)
(* of a round that is over.                                                *)

MadeIn(h) == UNION {ToSet(h[i].calls) : i \in DOMAIN h}

Settled(h, open) ==
  /\ open \subseteq MadeIn(h)
  /\ \A i \in DOMAIN h : \A id \in ToSet(h[i].calls) :
       id \in open \/ \E j \in DOMAIN h : i < j /\ h[j].answers = id
  /\ \A j \in DOMAIN h : h[j].answers # NoId => h[j].answers \in MadeIn(h) \ open
  /\ \A j, k \in DOMAIN h : h[j].answers # NoId /\ h[j].answers = h[k].answers => j = k

ChatInv ==
  /\ rounds \in Nat /\ turn \in {"client", "backend"} /\ history \in Seq(Messages)
  /\ due \in SUBSET Ids /\ IsFiniteSet(due)
  /\ Settled(history, due)
  /\ \A id \in MadeIn(history) : id[2] < (IF turn = "backend" THEN rounds ELSE rounds + 1)
  /\ turn = "backend" => due = {} /\ Turns(history) # <<>> /\ asked = BuildDevinRequest(history)

LEMMA NoCallIsNoId ==
  ASSUME NEW id \in Ids
  PROVE  id # NoId
<1>1. PICK kinds, numbers : kinds = {"call", "made up"} /\ numbers = Nat
  OBVIOUS
<1>2. id \in kinds \X numbers \X numbers
  BY <1>1 DEF Ids
<1>3. id # <<>>
  BY <1>2
<1> QED
  BY <1>3 DEF NoId

(* The request that a settled history is translated to says it all.        *)
LEMMA ChatInvArrives == ChatInv => HistoryReachesBackend
<1> SUFFICES ASSUME ChatInv, turn = "backend"
             PROVE  /\ Heard = Spoken
                    /\ FlattenSeq([k \in DOMAIN asked.prompts |-> asked.prompts[k].images])
                         = FlattenSeq([i \in DOMAIN history |-> PicturesSent(history[i])])
                    /\ \A i \in DOMAIN history :
                         history[i].role = "system" =>
                           ToSet(TextOf(history[i])) \ {Blank}
                             \subseteq (IF asked.prompts[1].system THEN ToSet(asked.prompts[1].text) ELSE {})
                    /\ \A k \in DOMAIN asked.prompts :
                         (asked.prompts[k].system => k = 1) /\ (asked.prompts[k].label => asked.note)
                    /\ \A k \in DOMAIN asked.prompts :
                         asked.prompts[k].text # <<>> \/ asked.prompts[k].images # <<>>
                    /\ \A id \in MadeIn(history) :
                         \E j, k \in DOMAIN asked.prompts :
                           /\ j < k /\ id \in ToSet(asked.prompts[j].calls) /\ asked.prompts[k].answers = id
                           /\ \A l \in DOMAIN asked.prompts : asked.prompts[l].answers = id => l = k
                    /\ asked.opening <=> MadeIn(history) = {} /\ \A k \in DOMAIN Spoken : Spoken[k][1] = "user"
  BY DEF HistoryReachesBackend, MadeIn
<1>1. PICK h, n, turns, told, made, spoken :
        /\ h = history /\ n = Len(h) /\ turns = Turns(h) /\ told = SystemBlock(h) \o turns
        /\ made = MadeIn(h) /\ spoken = SpokenIn(h)
  OBVIOUS
<1>2. /\ h \in Seq(Messages) /\ n \in Nat /\ DOMAIN h = 1..n /\ \A i \in 1..n : h[i] \in Messages
      /\ Settled(h, {})
  <2>1. h \in Seq(Messages) /\ Settled(h, {})
    BY <1>1 DEF ChatInv
  <2> QED
    BY <1>1, <2>1, SeqFacts
<1>3. /\ asked.prompts = told
      /\ asked.note <=> \E i \in DOMAIN turns : turns[i].label
      /\ asked.opening <=> ~\E i \in DOMAIN turns : turns[i].label \/ turns[i].source = "tool"
  <2>1. asked = BuildDevinRequest(h)
    BY <1>1 DEF ChatInv
  <2>2. PICK note, opening : /\ note = \E i \in DOMAIN turns : turns[i].label
                             /\ opening = ~\E i \in DOMAIN turns : turns[i].label \/ turns[i].source = "tool"
    OBVIOUS
  <2>3. asked = [note |-> note, opening |-> opening, prompts |-> told]
    BY <1>1, <2>1, <2>2, Zenon DEF BuildDevinRequest
  <2>4. asked.note = note /\ asked.opening = opening /\ asked.prompts = told
    BY <2>3
  <2> QED
    BY <2>2, <2>4, Zenon
<1>4. PICK seqs, p : PromptsAt(h, seqs, p)
  BY <1>2, PromptsLaid
<1>5. PICK ahead, at : /\ Carried(h, turns, told, ahead, at)
                       /\ \A i \in 1..n : at[i] = ahead + Len(p[i])
  BY <1>1, <1>2, <1>4, HistoryCarried
<1>6. HeardIn(told) = spoken /\ SeenIn(told) = SentIn(h)
  BY <1>1, <1>2, <1>4, <1>5, SaidIsHeard
<1>7. Spoken = spoken /\ Heard = HeardIn(told)
  BY <1>1, <1>3 DEF Spoken, SpokenIn, Heard, HeardIn
<1>8. PICK m, w : m = Len(told) /\ w = Len(turns)
  OBVIOUS
<1>9. m \in Nat /\ w \in Nat /\ DOMAIN told = 1..m /\ DOMAIN turns = 1..w
  BY <1>5, <1>8, SeqFacts DEF Carried
<1>10. /\ ahead \in {0, 1} /\ m = ahead + w /\ \A k \in 1..w : told[ahead + k] = turns[k]
       /\ IF ahead = 1 THEN Instructions(told[1], h)
          ELSE \A i \in 1..n : h[i].role = "system" => ToSet(TextOf(h[i])) \subseteq {Blank}
       /\ \A l \in 1..m : l <= ahead \/ \E i \in 1..n : l = at[i] /\ PromptOf(h[i]) # <<>>
       /\ \A i \in 1..n : PromptOf(h[i]) = <<>> => Silent(h[i])
       /\ \A i \in 1..n : PromptOf(h[i]) # <<>> => at[i] \in (ahead + 1)..m /\ Renders(h[i], told[at[i]])
       /\ \A i, j \in 1..n : i < j /\ PromptOf(h[j]) # <<>> => at[i] < at[j]
  BY <1>1, <1>2, <1>5, <1>8 DEF Carried
<1>11. ASSUME NEW l \in 1..m, ~(l <= ahead)
       PROVE  \E i \in 1..n : l = at[i] /\ PromptOf(h[i]) # <<>> /\ Renders(h[i], told[l])
  BY <1>10, <1>11
<1>12. ASSUME NEW l \in 1..m, l <= ahead
       PROVE  l = 1 /\ Instructions(told[l], h)
  <2>1. ahead = 1 /\ l = 1
    BY <1>10, <1>12
  <2> QED
    BY <1>10, <2>1
<1>13. ASSUME NEW i \in DOMAIN h, h[i].role = "system"
       PROVE  ToSet(TextOf(h[i])) \ {Blank} \subseteq (IF told[1].system THEN ToSet(told[1].text) ELSE {})
  <2>1. CASE ahead = 1
    BY <1>10, <1>13, <2>1 DEF Instructions
  <2>2. CASE ahead # 1
    BY <1>2, <1>10, <1>13, <2>2
  <2> QED
    BY <2>1, <2>2
<1>14. ASSUME NEW l \in 1..m
       PROVE  /\ told[l].system => l = 1
              /\ told[l].label => asked.note
              /\ told[l].text # <<>> \/ told[l].images # <<>>
  <2>1. CASE l <= ahead
    BY <1>12, <2>1 DEF Instructions
  <2>2. CASE ~(l <= ahead)
    <3>1. PICK i \in 1..n : Renders(h[i], told[l])
      BY <1>11, <2>2
    <3>2. l - ahead \in 1..w /\ ahead + (l - ahead) = l
      BY <1>9, <1>10, <2>2
    <3>3. told[l] = turns[l - ahead]
      BY <1>10, <3>2
    <3> QED
      BY <1>3, <1>9, <3>1, <3>2, <3>3 DEF Renders
  <2> QED
    BY <2>1, <2>2
<1>15. \A i \in 1..n : \A id \in ToSet(h[i].calls) : id \in Ids
  <2> SUFFICES ASSUME NEW i \in 1..n, NEW id \in ToSet(h[i].calls)  PROVE id \in Ids
    OBVIOUS
  <2>1. h[i].calls \in Seq(Ids)
    BY <1>2, SaidTyped
  <2>2. PICK calls, len : calls = h[i].calls /\ len = Len(calls)
    OBVIOUS
  <2>3. DOMAIN calls = 1..len /\ \A k \in 1..len : calls[k] \in Ids
    BY <2>1, <2>2, SeqFacts
  <2> QED
    BY <2>2, <2>3 DEF ToSet
<1>16. ASSUME NEW id \in made
       PROVE  \E j, k \in 1..m :
                /\ j < k /\ id \in ToSet(told[j].calls) /\ told[k].answers = id
                /\ \A l \in 1..m : told[l].answers = id => l = k
  <2>1. PICK i \in 1..n : id \in ToSet(h[i].calls)
    BY <1>1, <1>2 DEF MadeIn
  <2>2. PICK j \in 1..n : i < j /\ h[j].answers = id
    BY <1>2, <2>1 DEF Settled
  <2>3. id # NoId
    BY <1>15, <2>1, NoCallIsNoId
  <2>4. PromptOf(h[i]) # <<>>
    <3>1. ToSet(<<>>) = {}
      BY DEF ToSet
    <3> QED
      BY <1>10, <2>1, <3>1 DEF Silent
  <2>5. PromptOf(h[j]) # <<>>
    BY <1>10, <2>2, <2>3 DEF Silent
  <2>6. PICK from, to : from = at[i] /\ to = at[j]
    OBVIOUS
  <2>7. from \in 1..m /\ to \in 1..m /\ from < to
    <3>1. (ahead + 1)..m \subseteq 1..m
      BY <1>9, <1>10
    <3> QED
      BY <1>10, <2>2, <2>4, <2>5, <2>6, <3>1
  <2>8. id \in ToSet(told[from].calls) /\ told[to].answers = id
    BY <1>10, <2>1, <2>2, <2>4, <2>5, <2>6 DEF Renders
  <2>9. ASSUME NEW l \in 1..m, told[l].answers = id  PROVE l = to
    <3>1. ~(l <= ahead)
      BY <1>12, <2>3, <2>9 DEF Instructions
    <3>2. PICK k \in 1..n : l = at[k] /\ Renders(h[k], told[l])
      BY <1>11, <3>1
    <3>3. h[k].answers = id
      BY <2>9, <3>2 DEF Renders
    <3>4. j = k
      BY <1>2, <2>2, <2>3, <3>3 DEF Settled
    <3> QED
      BY <2>6, <3>2, <3>4
  <2> QED
    BY <2>7, <2>8, <2>9
<1>17. asked.opening <=> made = {} /\ \A k \in DOMAIN spoken : spoken[k][1] = "user"
  <2>1. ASSUME NEW i \in 1..n, PromptOf(h[i]) # <<>>, h[i].role \in {"assistant", "tool"}
        PROVE  ~asked.opening
    <3>1. at[i] \in (ahead + 1)..m /\ Renders(h[i], told[at[i]])
      BY <1>10, <2>1
    <3>2. PICK l : l = at[i]
      OBVIOUS
    <3>3. l - ahead \in 1..w /\ ahead + (l - ahead) = l
      <4>1. l \in (ahead + 1)..m
        BY <3>1, <3>2
      <4>2. m = ahead + w /\ ahead \in {0, 1}
        BY <1>10
      <4> QED
        BY <1>9, <4>1, <4>2
    <3>4. told[l] = turns[l - ahead]
      BY <1>10, <3>3
    <3>5. told[l].label \/ told[l].source = "tool"
      BY <2>1, <3>1, <3>2 DEF Renders
    <3> QED
      BY <1>3, <1>9, <3>3, <3>4, <3>5
  <2>2. ASSUME asked.opening  PROVE made = {}
    <3> SUFFICES ASSUME made # {}  PROVE FALSE
      OBVIOUS
    <3>1. PICK i \in 1..n : ToSet(h[i].calls) # {}
      <4>1. PICK id : id \in MadeIn(h)
        BY <1>1
      <4>2. \E i \in 1..n : id \in ToSet(h[i].calls)
        BY <1>2, <4>1 DEF MadeIn
      <4> QED
        BY <4>2
    <3>2. ToSet(<<>>) = {}
      BY DEF ToSet
    <3>3. h[i].calls # <<>>
      BY <3>1, <3>2
    <3>4. PromptOf(h[i]) # <<>> /\ h[i].role = "assistant"
      BY <1>2, <1>10, <3>3, SaidTyped DEF Silent
    <3> QED
      BY <2>1, <2>2, <3>4
  <2>3. ASSUME asked.opening, NEW k \in DOMAIN spoken  PROVE spoken[k][1] = "user"
    <3>1. spoken[k] \in ToSet(spoken)
      BY DEF ToSet
    <3>2. PICK i \in 1..n : spoken[k][1] = h[i].role /\ WordsSaid(h[i]) # <<>>
      BY <1>1, <1>2, <3>1, WhoSpoke
    <3>3. PromptOf(h[i]) # <<>>
      BY <1>10, <3>2 DEF Silent
    <3>4. h[i].role # "system"
      BY <3>2 DEF WordsSaid
    <3>5. h[i].role \in Roles
      BY <1>2, SaidTyped
    <3> QED
      BY <2>1, <2>3, <3>2, <3>3, <3>4, <3>5 DEF Roles
  <2>4. ASSUME ~asked.opening, made = {}  PROVE \E k \in DOMAIN spoken : spoken[k][1] # "user"
    <3>1. PICK i \in 1..w : turns[i].label \/ turns[i].source = "tool"
      BY <1>3, <1>9, <2>4
    <3>2. ahead + i \in 1..m /\ ~(ahead + i <= ahead)
      BY <1>9, <1>10
    <3>3. PICK k \in 1..n : Renders(h[k], told[ahead + i])
      BY <1>11, <3>2
    <3>4. told[ahead + i] = turns[i]
      BY <1>10
    <3>5. CASE turns[i].source = "tool"
      <4>1. h[k].role = "tool"
        BY <3>3, <3>4, <3>5 DEF Renders
      <4>2. h[k].answers # NoId
        BY <1>2, <4>1, SaidTyped
      <4>3. h[k].answers \in made
        BY <1>1, <1>2, <4>2 DEF Settled
      <4> QED
        BY <2>4, <4>3
    <3>6. CASE turns[i].label
      <4>1. h[k].role = "assistant" /\ (TextOf(h[k]) # <<>> \/ h[k].calls # <<>>)
        BY <3>3, <3>4, <3>6 DEF Renders
      <4>2. h[k].calls = <<>>
        <5>1. h[k].calls \in Seq(Ids)
          BY <1>2, SaidTyped
        <5>2. PICK calls, len : calls = h[k].calls /\ len = Len(calls)
          OBVIOUS
        <5>3. len \in Nat /\ DOMAIN calls = 1..len
          BY <5>1, <5>2, SeqFacts
        <5>4. ToSet(calls) = {}
          BY <1>1, <1>2, <2>4, <5>2 DEF MadeIn
        <5>5. len = 0
          <6>1. 1 \notin DOMAIN calls
            BY <5>4 DEF ToSet
          <6> QED
            BY <5>3, <6>1
        <5> QED
          BY <5>1, <5>2, <5>5, EmptySeq
      <4>3. PICK x \in ToSet(spoken) : x[1] = h[k].role
        BY <1>1, <1>2, <4>1, <4>2, WhoSpoke
      <4>4. PICK l \in DOMAIN spoken : x = spoken[l]
        BY DEF ToSet
      <4> QED
        BY <4>1, <4>3, <4>4
    <3> QED
      BY <3>1, <3>5, <3>6
  <2> QED
    BY <2>2, <2>3, <2>4
<1>18. \A k \in DOMAIN asked.prompts :
         /\ (asked.prompts[k].system => k = 1) /\ (asked.prompts[k].label => asked.note)
         /\ asked.prompts[k].text # <<>> \/ asked.prompts[k].images # <<>>
  BY <1>3, <1>9, <1>14
<1>19. FlattenSeq([k \in DOMAIN asked.prompts |-> asked.prompts[k].images])
         = FlattenSeq([i \in DOMAIN history |-> PicturesSent(history[i])])
  BY <1>1, <1>3, <1>6 DEF SeenIn, SentIn
<1>20. \A i \in DOMAIN history :
         history[i].role = "system" =>
           ToSet(TextOf(history[i])) \ {Blank}
             \subseteq (IF asked.prompts[1].system THEN ToSet(asked.prompts[1].text) ELSE {})
  BY <1>1, <1>3, <1>13
<1>21. \A id \in MadeIn(history) :
         \E j, k \in DOMAIN asked.prompts :
           /\ j < k /\ id \in ToSet(asked.prompts[j].calls) /\ asked.prompts[k].answers = id
           /\ \A l \in DOMAIN asked.prompts : asked.prompts[l].answers = id => l = k
  <2>1. MadeIn(history) = made /\ asked.prompts = told /\ DOMAIN told = 1..m
    BY <1>1, <1>3, <1>9
  <2> QED
    BY <1>16, <2>1, Zenon
<1>22. asked.opening <=> MadeIn(history) = {} /\ \A k \in DOMAIN Spoken : Spoken[k][1] = "user"
  BY <1>1, <1>7, <1>17
<1>23. Heard = Spoken
  BY <1>6, <1>7
<1> QED
  BY <1>18, <1>19, <1>20, <1>21, <1>22, <1>23, Zenon
-----------------------------------------------------------------------------
(* The steps of a chat.                                                    *)

(* What anybody may hand in as a message, before roles are looked at.      *)
Notes ==
  {m \in [role : Roles \cup {"narrator"}, content : Contents, calls : Seq(Ids), answers : Ids \cup {NoId}] :
     /\ m.calls # <<>> => m.role = "assistant"
     /\ m.role = "tool" <=> m.answers # NoId}

LEMMA NotesRead ==
  /\ \A m \in Messages : m \in Notes
  /\ \A m \in Notes : m.role \in Roles => m \in Messages
<1>1. ASSUME NEW m \in Messages  PROVE m \in Notes
  BY DEF Messages, Notes
<1>2. ASSUME NEW m \in Notes, m.role \in Roles  PROVE m \in Messages
  <2>1. m \in [role : Roles \cup {"narrator"}, content : Contents, calls : Seq(Ids), answers : Ids \cup {NoId}]
    BY DEF Notes
  <2>2. m \in [role : Roles, content : Contents, calls : Seq(Ids), answers : Ids \cup {NoId}]
    BY <1>2, <2>1
  <2> QED
    BY <2>2 DEF Notes, Messages
<1> QED
  BY <1>1, <1>2

LEMMA SaysRead ==
  ASSUME NEW says \in Says
  PROVE  says \in Seq(Notes) /\ \A k \in 1..Len(says) : says[k].calls = <<>> /\ says[k].answers = NoId
<1>1. PICK said : said = [role : {"system", "user", "assistant", "narrator"}, content : Contents,
                          calls : {<<>>}, answers : {<<>>}]
  OBVIOUS
<1>2. says \in Seq(said)
  BY <1>1, ChatAssumption DEF ChatAssumption
<1>3. ASSUME NEW m \in said  PROVE m \in Notes /\ m.calls = <<>> /\ m.answers = NoId
  <2>1. /\ m \in [role : {"system", "user", "assistant", "narrator"}, content : Contents,
                   calls : {<<>>}, answers : {<<>>}]
        /\ <<>> \in Seq(Ids)
    BY <1>1, EmptySeq
  <2>2. m \in [role : Roles \cup {"narrator"}, content : Contents, calls : Seq(Ids), answers : Ids \cup {NoId}]
    BY <2>1 DEF Roles, NoId
  <2>3. m.calls = <<>> /\ m.answers = NoId /\ m.role # "tool"
    BY <2>1 DEF NoId
  <2> QED
    BY <2>2, <2>3 DEF Notes
<1>4. \A k \in 1..Len(says) : says[k] \in said
  BY <1>2, SeqFacts
<1>5. Len(says) \in Nat /\ says \in [1..Len(says) -> Notes]
  BY <1>2, <1>3, <1>4, LenProperties
<1>6. says \in Seq(Notes)
  BY <1>5
<1> QED
  BY <1>3, <1>4, <1>6

(* A message that is given an id to answer, or calls.                      *)
LEMMA AnswerWith ==
  ASSUME NEW role, NEW content, NEW answers
  PROVE  [Message(role, content) EXCEPT !.answers = answers] =
           [role |-> role, content |-> content, calls |-> <<>>, answers |-> answers]
<1>1. PICK r, none, id : r = Message(role, content) /\ none = <<>> /\ id = NoId
  OBVIOUS
<1>2. r = [role |-> role, content |-> content, calls |-> none, answers |-> id]
  BY <1>1 DEF Message
<1>3. [r EXCEPT !.answers = answers] = [role |-> role, content |-> content, calls |-> none, answers |-> answers]
  BY <1>2
<1> QED
  BY <1>1, <1>3, Zenon

LEMMA CallsWith ==
  ASSUME NEW role, NEW content, NEW calls
  PROVE  [Message(role, content) EXCEPT !.calls = calls] =
           [role |-> role, content |-> content, calls |-> calls, answers |-> NoId]
<1>1. PICK r, none, id : r = Message(role, content) /\ none = <<>> /\ id = NoId
  OBVIOUS
<1>2. r = [role |-> role, content |-> content, calls |-> none, answers |-> id]
  BY <1>1 DEF Message
<1>3. [r EXCEPT !.calls = calls] = [role |-> role, content |-> content, calls |-> calls, answers |-> id]
  BY <1>2
<1> QED
  BY <1>1, <1>3, Zenon

(* The results that settle what is open: each answers one call, and every  *)
(* call has one.                                                           *)
Settling(results, open) ==
  /\ results \in Seq(Notes)
  /\ \A k \in 1..Len(results) : results[k].calls = <<>> /\ results[k].answers \in open
  /\ \A id \in open : \E k \in 1..Len(results) : results[k].answers = id
  /\ \A j, k \in 1..Len(results) : results[j].answers = results[k].answers => j = k

LEMMA ResultsSettle ==
  ASSUME NEW open \in SUBSET Ids, IsFiniteSet(open), NEW results \in ResultsFor(open)
  PROVE  Settling(results, open)
<1>1. PICK order \in SetToSeqs(open), result \in [open -> Results] :
        results = [k \in DOMAIN order |-> [Message("tool", result[order[k]]) EXCEPT !.answers = order[k]]]
  BY DEF ResultsFor
<1>2. PICK n : n = Cardinality(open)
  OBVIOUS
<1>3. n \in Nat
  BY <1>2, FS_CardinalityType
<1>4. order \in [1..n -> open] /\ \A i, j \in 1..n : i # j => order[i] # order[j]
  BY <1>2 DEF SetToSeqs
<1>5. \A id \in open : \E k \in 1..n : order[k] = id
  <2>1. order \in Injection(1..n, open)
    BY <1>4 DEF Injection, IsInjective
  <2>2. Cardinality(1..n) = n
    <3>1. Cardinality(1..n) = IF 1 > n THEN 0 ELSE n - 1 + 1
      BY <1>3, FS_Interval
    <3> QED
      BY <1>3, <3>1
  <2>3. order \in Surjection(1..n, open)
    BY <1>2, <2>1, <2>2, FS_Injection
  <2> QED
    BY <2>3 DEF Surjection
<1>6. ASSUME NEW k \in 1..n
      PROVE  results[k] \in Notes /\ results[k].calls = <<>> /\ results[k].answers = order[k]
  <2>1. PICK content, id : content = result[order[k]] /\ id = order[k]
    OBVIOUS
  <2>2. id \in Ids /\ content \in Contents
    BY <1>4, <2>1, ChatAssumption DEF ChatAssumption
  <2>3. results[k] = [role |-> "tool", content |-> content, calls |-> <<>>, answers |-> id]
    <3>1. results[k] = [Message("tool", content) EXCEPT !.answers = id]
      BY <1>1, <1>4, <2>1
    <3> QED
      BY <3>1, AnswerWith
  <2>4. id # NoId /\ <<>> \in Seq(Ids)
    BY <2>2, NoCallIsNoId, EmptySeq
  <2>5. results[k] \in [role : Roles \cup {"narrator"}, content : Contents, calls : Seq(Ids), answers : Ids \cup {NoId}]
    BY <2>2, <2>3, <2>4 DEF Roles
  <2>6. results[k].role = "tool" /\ results[k].calls = <<>> /\ results[k].answers = id
    BY <2>3
  <2> QED
    BY <2>1, <2>4, <2>5, <2>6 DEF Notes
<1>7. results \in [1..n -> Notes]
  <2>1. DOMAIN results = 1..n /\ results = [k \in 1..n |-> results[k]]
    BY <1>1, <1>4
  <2> QED
    BY <1>6, <2>1
<1>8. results \in Seq(Notes) /\ Len(results) = n
  BY <1>3, <1>7
<1>9. /\ \A k \in 1..n : results[k].calls = <<>> /\ results[k].answers \in open
      /\ \A id \in open : \E k \in 1..n : results[k].answers = id
      /\ \A j, k \in 1..n : results[j].answers = results[k].answers => j = k
  BY <1>4, <1>5, <1>6
<1> QED
  BY <1>8, <1>9 DEF Settling

(* Three sequences one behind the other.                                   *)
LEMMA ThreeBehind ==
  ASSUME NEW V, NEW s \in Seq(V), NEW t \in Seq(V), NEW u \in Seq(V)
  PROVE  /\ s \o t \o u \in Seq(V) /\ Len(s \o t \o u) = Len(s) + Len(t) + Len(u)
         /\ \A i \in 1..Len(s) : (s \o t \o u)[i] = s[i]
         /\ \A i \in 1..Len(t) : (s \o t \o u)[Len(s) + i] = t[i]
         /\ \A i \in 1..Len(u) : (s \o t \o u)[Len(s) + Len(t) + i] = u[i]
<1>1. PICK a, b, c, both, all : /\ a = Len(s) /\ b = Len(t) /\ c = Len(u)
                                /\ both = s \o t /\ all = both \o u
  OBVIOUS
<1>2. a \in Nat /\ b \in Nat /\ c \in Nat
  BY <1>1, SeqFacts
<1>3. /\ both \in Seq(V) /\ Len(both) = a + b
      /\ \A i \in 1..(a + b) : both[i] = IF i <= a THEN s[i] ELSE t[i - a]
  <2>1. /\ s \o t \in Seq(V) /\ Len(s \o t) = Len(s) + Len(t)
        /\ \A i \in 1..(Len(s) + Len(t)) : (s \o t)[i] = IF i <= Len(s) THEN s[i] ELSE t[i - Len(s)]
    BY ConcatProperties
  <2> QED
    BY <1>1, <2>1
<1>4. /\ all \in Seq(V) /\ Len(all) = (a + b) + c
      /\ \A i \in 1..((a + b) + c) : all[i] = IF i <= a + b THEN both[i] ELSE u[i - (a + b)]
  <2>1. /\ both \o u \in Seq(V) /\ Len(both \o u) = Len(both) + Len(u)
        /\ \A i \in 1..(Len(both) + Len(u)) : (both \o u)[i] = IF i <= Len(both) THEN both[i] ELSE u[i - Len(both)]
    BY <1>1, <1>3, ConcatProperties
  <2> QED
    BY <1>1, <1>3, <2>1
<1>5. ASSUME NEW i \in 1..a  PROVE all[i] = s[i]
  <2>1. i \in 1..((a + b) + c) /\ i <= a + b /\ i \in 1..(a + b) /\ i <= a
    BY <1>2
  <2> QED
    BY <1>3, <1>4, <2>1
<1>6. ASSUME NEW i \in 1..b  PROVE all[a + i] = t[i]
  <2>1. a + i \in 1..((a + b) + c) /\ a + i <= a + b /\ a + i \in 1..(a + b) /\ ~(a + i <= a) /\ (a + i) - a = i
    BY <1>2
  <2> QED
    BY <1>3, <1>4, <2>1
<1>7. ASSUME NEW i \in 1..c  PROVE all[a + b + i] = u[i]
  <2>1. a + b + i \in 1..((a + b) + c) /\ ~(a + b + i <= a + b) /\ (a + b + i) - (a + b) = i
    BY <1>2
  <2> QED
    BY <1>4, <2>1
<1> QED
  BY <1>1, <1>4, <1>5, <1>6, <1>7
(* With the results, and whatever else is said, nothing is open.           *)
LEMMA ResultsClose ==
  ASSUME NEW h \in Seq(Messages), NEW open, Settled(h, open), NEW results, Settling(results, open), NoId \notin open,
         NEW says \in Seq(Notes), \A k \in 1..Len(says) : says[k].calls = <<>> /\ says[k].answers = NoId
  PROVE  LET all == h \o results \o says
         IN  all \in Seq(Notes) /\ Settled(all, {}) /\ MadeIn(all) = MadeIn(h)
<1>1. PICK a, b, c, all : /\ a = Len(h) /\ b = Len(results) /\ c = Len(says) /\ all = h \o results \o says
  OBVIOUS
<1>2. h \in Seq(Notes) /\ results \in Seq(Notes)
  <2>1. \A k \in 1..Len(h) : h[k] \in Notes
    BY SeqFacts, NotesRead
  <2>2. Len(h) \in Nat /\ h \in [1..Len(h) -> Notes]
    BY <2>1, LenProperties
  <2>3. h \in Seq(Notes)
    BY <2>2
  <2> QED
    BY <2>3 DEF Settling
<1>3. a \in Nat /\ b \in Nat /\ c \in Nat /\ DOMAIN h = 1..a
  BY <1>1, <1>2, SeqFacts
<1>4. /\ all \in Seq(Notes) /\ Len(all) = a + b + c
      /\ \A i \in 1..a : all[i] = h[i]
      /\ \A i \in 1..b : all[a + i] = results[i]
      /\ \A i \in 1..c : all[a + b + i] = says[i]
  <2>1. /\ h \o results \o says \in Seq(Notes)
        /\ Len(h \o results \o says) = Len(h) + Len(results) + Len(says)
        /\ \A i \in 1..Len(h) : (h \o results \o says)[i] = h[i]
        /\ \A i \in 1..Len(results) : (h \o results \o says)[Len(h) + i] = results[i]
        /\ \A i \in 1..Len(says) : (h \o results \o says)[Len(h) + Len(results) + i] = says[i]
    BY <1>2, ThreeBehind
  <2> QED
    BY <1>1, <2>1
<1>5. DOMAIN all = 1..(a + b + c)
  BY <1>4, SeqFacts
<1>6. ASSUME NEW i \in DOMAIN all
      PROVE  \/ i \in 1..a /\ all[i] = h[i]
             \/ \E k \in 1..b : i = a + k /\ all[i] = results[k]
             \/ i > a + b /\ all[i].calls = <<>> /\ all[i].answers = NoId
  <2>1. CASE i <= a
    <3>1. i \in 1..a
      BY <1>3, <1>5, <2>1
    <3> QED
      BY <1>4, <3>1
  <2>2. CASE i > a /\ i <= a + b
    <3>1. i - a \in 1..b /\ i = a + (i - a)
      BY <1>3, <1>5, <2>2
    <3> QED
      BY <1>4, <3>1
  <2>3. CASE i > a + b
    <3>1. i - (a + b) \in 1..c /\ i = a + b + (i - (a + b))
      BY <1>3, <1>5, <2>3
    <3>2. all[i] = says[i - (a + b)]
      BY <1>4, <3>1
    <3> QED
      BY <1>1, <2>3, <3>1, <3>2
  <2> QED
    BY <1>3, <1>5, <2>1, <2>2, <2>3
<1>7. /\ \A k \in 1..b : results[k].calls = <<>> /\ results[k].answers \in open /\ results[k].answers # NoId
      /\ \A id \in open : \E k \in 1..b : results[k].answers = id
      /\ \A j, k \in 1..b : results[j].answers = results[k].answers => j = k
  BY <1>1 DEF Settling
<1>8. /\ open \subseteq MadeIn(h)
      /\ \A i \in 1..a : \A id \in ToSet(h[i].calls) :
           id \in open \/ \E j \in 1..a : i < j /\ h[j].answers = id
      /\ \A j \in 1..a : h[j].answers # NoId => h[j].answers \in MadeIn(h) \ open
      /\ \A j, k \in 1..a : h[j].answers # NoId /\ h[j].answers = h[k].answers => j = k
  BY <1>3 DEF Settled
<1>9. \A i \in 1..a : i \in DOMAIN all /\ all[i] = h[i]
  <2>1. \A i \in 1..a : i \in 1..(a + b + c)
    BY <1>3
  <2> QED
    BY <1>4, <1>5, <2>1
<1>10. \A k \in 1..b : a + k \in DOMAIN all /\ all[a + k] = results[k] /\ \A i \in 1..a : i < a + k
  <2>1. \A k \in 1..b : a + k \in 1..(a + b + c) /\ \A i \in 1..a : i < a + k
    BY <1>3
  <2> QED
    BY <1>4, <1>5, <2>1
<1>11. ASSUME NEW i \in DOMAIN all, NEW id \in ToSet(all[i].calls)
       PROVE  i \in 1..a /\ id \in ToSet(h[i].calls)
  <2>1. ToSet(<<>>) = {}
    BY DEF ToSet
  <2>2. all[i].calls # <<>>
    BY <2>1
  <2>3. i \in 1..a /\ all[i] = h[i]
    BY <1>6, <1>7, <2>2
  <2> QED
    BY <2>3
<1>12. MadeIn(all) = MadeIn(h)
  <2>1. ASSUME NEW id \in MadeIn(all)  PROVE id \in MadeIn(h)
    BY <1>3, <1>11 DEF MadeIn
  <2>2. ASSUME NEW id \in MadeIn(h)  PROVE id \in MadeIn(all)
    BY <1>3, <1>9 DEF MadeIn
  <2> QED
    BY <2>1, <2>2
<1>13. ASSUME NEW i \in DOMAIN all, NEW id \in ToSet(all[i].calls)
       PROVE  \E j \in DOMAIN all : i < j /\ all[j].answers = id
  <2>1. i \in 1..a /\ id \in ToSet(h[i].calls)
    BY <1>11
  <2>2. CASE id \in open
    <3>1. PICK k \in 1..b : results[k].answers = id
      BY <1>7, <2>2
    <3> QED
      BY <1>10, <2>1, <3>1
  <2>3. CASE id \notin open
    <3>1. PICK j \in 1..a : i < j /\ h[j].answers = id
      BY <1>8, <2>1, <2>3
    <3> QED
      BY <1>9, <3>1
  <2> QED
    BY <2>2, <2>3
<1>14. ASSUME NEW j \in DOMAIN all, all[j].answers # NoId
       PROVE  \/ j \in 1..a /\ all[j].answers = h[j].answers /\ h[j].answers \in MadeIn(h) \ open
              \/ \E k \in 1..b : j = a + k /\ all[j].answers = results[k].answers /\ results[k].answers \in open
  BY <1>6, <1>7, <1>8, <1>14
<1>15. \A j \in DOMAIN all : all[j].answers # NoId => all[j].answers \in MadeIn(all) \ {}
  BY <1>8, <1>12, <1>14
<1>16. ASSUME NEW j \in DOMAIN all, NEW k \in DOMAIN all, all[j].answers # NoId, all[j].answers = all[k].answers
       PROVE  j = k
  <2>1. CASE all[j].answers \in open
    <3>1. PICK l \in 1..b : j = a + l /\ all[j].answers = results[l].answers
      BY <1>14, <1>16, <2>1
    <3>2. PICK m \in 1..b : k = a + m /\ all[k].answers = results[m].answers
      BY <1>14, <1>16, <2>1
    <3>3. l = m
      BY <1>7, <1>16, <3>1, <3>2
    <3> QED
      BY <3>1, <3>2, <3>3
  <2>2. CASE all[j].answers \notin open
    <3>1. j \in 1..a /\ k \in 1..a /\ h[j].answers = h[k].answers /\ h[j].answers # NoId
      BY <1>14, <1>16, <2>2
    <3> QED
      BY <1>8, <3>1
  <2> QED
    BY <2>1, <2>2
<1>17. Settled(all, {})
  BY <1>13, <1>15, <1>16 DEF Settled
<1> QED
  BY <1>1, <1>4, <1>12, <1>17

(* An answer opens what it asks for.                                       *)
LEMMA AnswerOpens ==
  ASSUME NEW h \in Seq(Messages), Settled(h, {}), NEW m \in Messages, m.answers = NoId,
         \A id \in ToSet(m.calls) : id \notin MadeIn(h)
  PROVE  LET all == Append(h, m)
         IN  all \in Seq(Messages) /\ Settled(all, ToSet(m.calls)) /\ MadeIn(all) = MadeIn(h) \cup ToSet(m.calls)
<1>1. PICK n, all, new : n = Len(h) /\ all = Append(h, m) /\ new = ToSet(m.calls)
  OBVIOUS
<1>2. n \in Nat /\ DOMAIN h = 1..n
  BY <1>1, SeqFacts
<1>3. /\ all \in Seq(Messages) /\ Len(all) = n + 1 /\ all[n + 1] = m /\ \A i \in 1..n : all[i] = h[i]
  BY <1>1, <1>2, AppendProperties
<1>4. DOMAIN all = (1..n) \cup {n + 1} /\ \A i \in 1..n : i < n + 1
  <2>1. DOMAIN all = 1..(n + 1)
    BY <1>3, SeqFacts
  <2> QED
    BY <1>2, <2>1
<1>5. /\ \A i \in 1..n : \A id \in ToSet(h[i].calls) : \E j \in 1..n : i < j /\ h[j].answers = id
      /\ \A j \in 1..n : h[j].answers # NoId => h[j].answers \in MadeIn(h)
      /\ \A j, k \in 1..n : h[j].answers # NoId /\ h[j].answers = h[k].answers => j = k
  BY <1>2 DEF Settled
<1>6. MadeIn(all) = MadeIn(h) \cup new
  <2>1. ASSUME NEW id \in MadeIn(all)  PROVE id \in MadeIn(h) \cup new
    <3>1. PICK i \in DOMAIN all : id \in ToSet(all[i].calls)
      BY DEF MadeIn
    <3> QED
      BY <1>1, <1>2, <1>3, <1>4, <3>1 DEF MadeIn
  <2>2. ASSUME NEW id \in MadeIn(h)  PROVE id \in MadeIn(all)
    BY <1>2, <1>3, <1>4 DEF MadeIn
  <2>3. ASSUME NEW id \in new  PROVE id \in MadeIn(all)
    BY <1>1, <1>3, <1>4 DEF MadeIn
  <2> QED
    BY <2>1, <2>2, <2>3
<1>7. ASSUME NEW i \in DOMAIN all, NEW id \in ToSet(all[i].calls)
      PROVE  id \in new \/ \E j \in DOMAIN all : i < j /\ all[j].answers = id
  <2>1. CASE i \in 1..n
    <3>1. PICK j \in 1..n : i < j /\ h[j].answers = id
      BY <1>3, <1>5, <2>1
    <3> QED
      BY <1>3, <1>4, <3>1
  <2>2. CASE i = n + 1
    BY <1>1, <1>3, <2>2
  <2> QED
    BY <1>4, <2>1, <2>2
<1>8. ASSUME NEW j \in DOMAIN all, all[j].answers # NoId
      PROVE  j \in 1..n /\ all[j] = h[j]
  BY <1>3, <1>4, <1>8
<1>9. \A j \in DOMAIN all : all[j].answers # NoId => all[j].answers \in MadeIn(all) \ new
  BY <1>1, <1>5, <1>6, <1>8
<1>10. \A j, k \in DOMAIN all : all[j].answers # NoId /\ all[j].answers = all[k].answers => j = k
  BY <1>5, <1>8
<1>11. Settled(all, new)
  BY <1>6, <1>7, <1>9, <1>10 DEF Settled
<1> QED
  BY <1>1, <1>3, <1>6, <1>11
LEMMA ChatInitKeeps == ChatInit => ChatInv
<1> SUFFICES ASSUME ChatInit  PROVE ChatInv
  OBVIOUS
<1>1. /\ rounds = 0 /\ turn = "client" /\ history = <<>> /\ due = {}
  BY DEF ChatInit
<1>2. history \in Seq(Messages) /\ DOMAIN history = {}
  <2>1. <<>> \in Seq(Messages) /\ DOMAIN <<>> = {}
    BY EmptySeq
  <2> QED
    BY <1>1, <2>1
<1>3. MadeIn(history) = {}
  BY <1>2 DEF MadeIn
<1>4. Settled(history, due)
  BY <1>1, <1>2 DEF Settled
<1>5. IsFiniteSet(due)
  BY <1>1, FS_EmptySet
<1> QED
  BY <1>1, <1>2, <1>3, <1>4, <1>5 DEF ChatInv

LEMMA AskKeeps ==
  ASSUME NEW says \in Says, NEW results \in ResultsFor(due), NEW parameters, ChatInv, Ask(says, results, parameters)
  PROVE  ChatInv'
<1>1. PICK h, all, r : h = history /\ all = h \o results \o says /\ r = rounds
  OBVIOUS
<1>2. /\ turn = "client" /\ ~Unserved(all, parameters)
      /\ history' = all /\ asked' = BuildDevinRequest(all) /\ due' = {} /\ turn' = "backend" /\ rounds' = r + 1
  BY <1>1 DEF Ask
<1>3. /\ r \in Nat /\ h \in Seq(Messages) /\ due \in SUBSET Ids /\ IsFiniteSet(due) /\ Settled(h, due)
      /\ \A id \in MadeIn(h) : id[2] < r + 1
  BY <1>1, <1>2 DEF ChatInv
<1>4. Settling(results, due) /\ NoId \notin due
  BY <1>3, ResultsSettle, NoCallIsNoId
<1>5. says \in Seq(Notes) /\ \A k \in 1..Len(says) : says[k].calls = <<>> /\ says[k].answers = NoId
  BY SaysRead
<1>6. all \in Seq(Notes) /\ Settled(all, {}) /\ MadeIn(all) = MadeIn(h)
  BY <1>1, <1>3, <1>4, <1>5, ResultsClose
<1>7. Turns(all) # <<>> /\ \A i \in DOMAIN all : all[i].role \in Roles
  BY <1>2 DEF Unserved
<1>8. all \in Seq(Messages)
  <2>1. Len(all) \in Nat /\ DOMAIN all = 1..Len(all) /\ \A i \in 1..Len(all) : all[i] \in Notes
    BY <1>6, SeqFacts
  <2>2. \A i \in 1..Len(all) : all[i] \in Messages
    BY <1>7, <2>1, NotesRead
  <2>3. all \in [1..Len(all) -> Messages]
    BY <1>6, <2>2, LenProperties
  <2> QED
    BY <2>1, <2>3
<1>9. IsFiniteSet({})
  BY FS_EmptySet
<1>10. r + 1 \in Nat
  BY <1>3
<1> QED
  BY <1>2, <1>3, <1>6, <1>7, <1>8, <1>9, <1>10 DEF ChatInv

LEMMA AskInVainKeeps ==
  ASSUME NEW says, NEW results, NEW parameters, ChatInv, AskInVain(says, results, parameters)
  PROVE  ChatInv'
<1>1. PICK r : r = rounds
  OBVIOUS
<1>2. turn = "client" /\ rounds' = r + 1 /\ UNCHANGED <<history, due, asked, turn>>
  BY <1>1 DEF AskInVain
<1>3. /\ r \in Nat /\ history \in Seq(Messages) /\ due \in SUBSET Ids /\ IsFiniteSet(due)
      /\ Settled(history, due) /\ \A id \in MadeIn(history) : id[2] < r + 1 /\ id \in Ids
  <2>1. \A id \in MadeIn(history) : id \in Ids
    <3> SUFFICES ASSUME NEW id \in MadeIn(history)  PROVE id \in Ids
      OBVIOUS
    <3>1. PICK i \in DOMAIN history : id \in ToSet(history[i].calls)
      BY DEF MadeIn
    <3>2. history[i].calls \in Seq(Ids)
      BY <3>1, SeqFacts, SaidTyped DEF ChatInv
    <3> QED
      BY <3>1, <3>2, SeqFacts DEF ToSet
  <2> QED
    BY <1>1, <1>2, <2>1 DEF ChatInv
<1>4. \A id \in MadeIn(history) : id[2] < (r + 1) + 1
  <2> SUFFICES ASSUME NEW id \in MadeIn(history)  PROVE id[2] < (r + 1) + 1
    OBVIOUS
  <2>1. id[2] \in Nat /\ id[2] < r + 1
    BY <1>3 DEF Ids
  <2> QED
    BY <1>3, <2>1
<1>5. r + 1 \in Nat
  BY <1>3
<1>6. history' = history /\ due' = due /\ turn' = "client"
  BY <1>2
<1> QED
  BY <1>2, <1>3, <1>4, <1>5, <1>6 DEF ChatInv

LEMMA ReplyKeeps ==
  ASSUME NEW answer \in Replies, ChatInv, Reply(answer)
  PROVE  ChatInv'
<1>1. PICK h, r, calls, words, m :
        /\ h = history /\ r = rounds
        /\ calls = [k \in DOMAIN answer.calls |-> ClientId(answer.calls[k], k)]
        /\ words = IF answer.text = <<>> THEN <<>> ELSE <<Part("text", answer.text)>>
        /\ m = [Message("assistant", words) EXCEPT !.calls = calls]
  OBVIOUS
<1>2. /\ turn = "backend" /\ history' = Append(h, m) /\ due' = ToSet(calls) /\ turn' = "client" /\ rounds' = r
  BY <1>1 DEF Reply
<1>3. /\ r \in Nat /\ h \in Seq(Messages) /\ Settled(h, {}) /\ \A id \in MadeIn(h) : id[2] < r
  BY <1>1, <1>2 DEF ChatInv
<1>4. PICK named, n : named = answer.calls /\ n = Len(named)
  OBVIOUS
<1>5. answer.text \in Seq(Words) /\ named \in Seq(BOOLEAN) /\ n \in Nat /\ DOMAIN named = 1..n
  <2>1. answer \in [text : Seq(Words), calls : Seq(BOOLEAN)]
    BY ChatAssumption DEF ChatAssumption
  <2>2. answer.text \in Seq(Words) /\ answer.calls \in Seq(BOOLEAN)
    BY <2>1
  <2> QED
    BY <1>4, <2>2, SeqFacts
<1>6. ASSUME NEW k \in 1..n  PROVE calls[k] \in Ids /\ calls[k][2] = r
  <2>1. calls[k] \in {<<"call", r, k>>, <<"made up", r, k>>}
    BY <1>1, <1>4, <1>5 DEF ClientId
  <2>2. /\ <<"call", r, k>> \in Ids /\ <<"call", r, k>>[2] = r
        /\ <<"made up", r, k>> \in Ids /\ <<"made up", r, k>>[2] = r
    <3>1. PICK numbers, kinds, one, other :
            numbers = Nat /\ kinds = {"call", "made up"} /\ one = "call" /\ other = "made up"
      OBVIOUS
    <3>2. r \in numbers /\ k \in numbers /\ one \in kinds /\ other \in kinds
      <4>1. r \in Nat /\ k \in Nat
        BY <1>3, <1>5
      <4>2. "call" \in {"call", "made up"} /\ "made up" \in {"call", "made up"}
        OBVIOUS
      <4> QED
        BY <3>1, <4>1, <4>2, Zenon
    <3>3. /\ <<one, r, k>> \in kinds \X numbers \X numbers /\ <<one, r, k>>[2] = r
          /\ <<other, r, k>> \in kinds \X numbers \X numbers /\ <<other, r, k>>[2] = r
      BY <3>2
    <3> QED
      BY <3>1, <3>3, Zenon DEF Ids
  <2> QED
    BY <2>1, <2>2
<1>7. calls \in [1..n -> Ids]
  BY <1>1, <1>4, <1>5, <1>6
<1>8. calls \in Seq(Ids) /\ DOMAIN calls = 1..n
  BY <1>5, <1>7
<1>9. ToSet(calls) \in SUBSET Ids /\ \A id \in ToSet(calls) : id[2] = r
  BY <1>6, <1>8 DEF ToSet
<1>10. IsFiniteSet(ToSet(calls))
  <2>1. calls \in Surjection(1..n, ToSet(calls))
    <3>1. calls \in [1..n -> ToSet(calls)]
      BY <1>7 DEF ToSet
    <3>2. \A id \in ToSet(calls) : \E k \in 1..n : calls[k] = id
      BY <1>8 DEF ToSet
    <3> QED
      BY <3>1, <3>2 DEF Surjection
  <2>2. IsFiniteSet(1..n)
    BY <1>5, FS_Interval
  <2> QED
    BY <2>1, <2>2, FS_Surjection
<1>11. words \in Contents
  <2>1. CASE answer.text = <<>>
    BY <1>1, <2>1, EmptySeq DEF Contents
  <2>2. CASE answer.text # <<>>
    <3>1. PICK part : part = Part("text", answer.text)
      OBVIOUS
    <3>2. part \in [type : {"text"}, body : Seq(Words)]
      BY <1>5, <3>1 DEF Part
    <3>3. part \in Parts /\ words = <<part>>
      BY <1>1, <2>2, <3>1, <3>2 DEF Parts
    <3>4. words \in Seq(Parts)
      BY <3>3
    <3> QED
      BY <3>4 DEF Contents, Parts
  <2> QED
    BY <2>1, <2>2
<1>12. m \in Messages /\ m.calls = calls /\ m.answers = NoId
  <2>1. m = [role |-> "assistant", content |-> words, calls |-> calls, answers |-> NoId]
    BY <1>1, CallsWith
  <2>2. m \in [role : Roles, content : Contents, calls : Seq(Ids), answers : Ids \cup {NoId}]
    BY <1>8, <1>11, <2>1 DEF Roles
  <2>3. m.role = "assistant" /\ m.calls = calls /\ m.answers = NoId
    BY <2>1
  <2> QED
    BY <2>2, <2>3 DEF Messages
<1>13. ASSUME NEW id \in ToSet(m.calls)  PROVE id \notin MadeIn(h)
  <2>1. id[2] = r /\ ~(r < r)
    BY <1>3, <1>9, <1>12
  <2> QED
    BY <1>3, <2>1
<1>14. PICK all : all = Append(h, m)
  OBVIOUS
<1>15. all \in Seq(Messages) /\ Settled(all, ToSet(calls)) /\ MadeIn(all) = MadeIn(h) \cup ToSet(calls)
  BY <1>3, <1>12, <1>13, <1>14, AnswerOpens
<1>16. \A id \in MadeIn(all) : id[2] < r + 1
  <2> SUFFICES ASSUME NEW id \in MadeIn(all)  PROVE id[2] < r + 1
    OBVIOUS
  <2>1. CASE id \in ToSet(calls)
    <3>1. id[2] = r
      BY <1>9, <2>1
    <3> QED
      BY <1>3, <3>1
  <2>2. CASE id \in MadeIn(h)
    <3>1. PICK i \in DOMAIN h : id \in ToSet(h[i].calls)
      BY <2>2 DEF MadeIn
    <3>2. h[i].calls \in Seq(Ids)
      BY <1>3, <3>1, SeqFacts, SaidTyped
    <3>3. id \in Ids
      BY <3>1, <3>2, SeqFacts DEF ToSet
    <3>4. id[2] \in Nat /\ id[2] < r
      BY <1>3, <2>2, <3>3 DEF Ids
    <3> QED
      BY <1>3, <3>4
  <2> QED
    BY <1>15, <2>1, <2>2
<1> QED
  BY <1>2, <1>3, <1>9, <1>10, <1>14, <1>15, <1>16 DEF ChatInv

LEMMA ChatNextKeeps == ChatInv /\ [ChatNext]_chatVars => ChatInv'
<1> SUFFICES ASSUME ChatInv, [ChatNext]_chatVars  PROVE ChatInv'
  OBVIOUS
<1>1. CASE \E says \in Says, results \in ResultsFor(due), parameters \in {"servable", "refused"} :
             Ask(says, results, parameters) \/ AskInVain(says, results, parameters)
  BY <1>1, AskKeeps, AskInVainKeeps
<1>2. CASE \E answer \in Replies : Reply(answer)
  BY <1>2, ReplyKeeps
<1>3. CASE UNCHANGED chatVars
  BY <1>3 DEF chatVars, ChatInv
<1> QED
  BY <1>1, <1>2, <1>3 DEF ChatNext

(* HistoryReachesBackend, for chats of any length and whatever is said in  *)
(* them: BuildDevinRequest hands the backend the whole history each time,  *)
(* and every call in it with the one result that answers it.               *)
THEOREM HistoriesArrive == ChatSpec => []HistoryReachesBackend
<1>1. ChatInit => ChatInv
  BY ChatInitKeeps
<1>2. ChatInv /\ [ChatNext]_chatVars => ChatInv'
  BY ChatNextKeeps
<1>3. ChatInv => HistoryReachesBackend
  BY ChatInvArrives
<1> QED
  BY <1>1, <1>2, <1>3, PTL DEF ChatSpec
=============================================================================

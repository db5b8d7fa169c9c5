-------------------------- MODULE AccountPoolProofs --------------------------
(***************************************************************************)
(* The account pool's invariants, proved for every set of accounts, every  *)
(* number of concurrent requests and status calls, and every setting of    *)
(* the cooldown periods that PoolAssumption allows.                        *)
(***************************************************************************)
EXTENDS AccountPool, CommonProofs

LEMMA DeadlinesAreNatural ==
  /\ Deadlines \in SUBSET Nat
  /\ 0 \in Deadlines
  /\ 0..MaxNow \subseteq Deadlines
  /\ \A t \in 0..MaxNow : /\ t + CoolRejected \in Deadlines
                          /\ t + CoolRateLimited \in Deadlines
                          /\ t + MaxQuotaCool \in Deadlines
BY PoolAssumption DEF PoolAssumption, Deadlines

(* The slots are typed and aligned: what every step relies on when it uses *)
(* an index of one list in another.                                        *)
Aligned == TypeOK /\ SlotsAligned

LEMMA AlignedParts ==
  ASSUME Aligned
  PROVE  /\ Len(entries) \in Nat
         /\ Sound(rot, Len(entries), Deadlines)
         /\ \A i \in SlotSet : entries[i] \in Accounts
BY ElementOfSeq DEF Aligned, TypeOK, SlotsAligned, Sound, SlotSet

(* An account that is in the pool is found, in the slot it is in.          *)
LEMMA SlotOfMember ==
  ASSUME Aligned, NEW a \in Accounts
  PROVE  /\ SlotOf(a) # NoSlot => SlotOf(a) \in SlotSet /\ entries[SlotOf(a)] = a
         /\ \A i \in SlotSet : entries[i] = a => SlotOf(a) = i
BY AlignedParts DEF Aligned, SlotsAligned, SlotOf, NoSlot, SlotSet

(* The list of accounts without its i-th: who is in it, and where.         *)
LEMMA PlaceAfterRemoval ==
  ASSUME Aligned, NEW i \in SlotSet
  PROVE  LET rest == RemoveAt(entries, i)
         IN  /\ rest \in Seq(Accounts)
             /\ Len(rest) = Len(entries) - 1
             /\ \A j \in 1..(Len(entries) - 1) :
                   rest[j] = IF j < i THEN entries[j] ELSE entries[j + 1]
             /\ \A j \in 1..(Len(entries) - 1) : PlaceIn(rest, rest[j], poolIndex[rest[j]]) = j
<1> DEFINE rest == RemoveAt(entries, i)
           n == Len(entries) - 1
<1>1. entries \in Seq(Accounts) /\ Len(entries) \in Nat \ {0} /\ i \in 1..Len(entries)
  BY AlignedParts DEF Aligned, TypeOK, SlotSet
<1>2. /\ rest \in Seq(Accounts)
      /\ Len(rest) = n
      /\ \A j \in 1..n : rest[j] = IF j < i THEN entries[j] ELSE entries[j + 1]
  BY <1>1, RemoveAtProperties
<1>3. \A j, k \in SlotSet : entries[j] = entries[k] => j = k
  BY DEF Aligned, SlotsAligned
<1> HIDE DEF rest
<1>4. \A j, k \in 1..n : rest[j] = rest[k] => j = k
  BY <1>1, <1>2, <1>3 DEF SlotSet
<1>5. ASSUME NEW j \in 1..n
      PROVE  PlaceIn(rest, rest[j], poolIndex[rest[j]]) = j
  <2>1. j \in 1..Len(rest)
    BY <1>2
  <2>2. \A k \in 1..Len(rest) : rest[k] = rest[j] => k = j
    BY <1>2, <1>4
  <2> HIDE DEF n
  <2> QED
    BY <2>1, <2>2 DEF PlaceIn
<1> QED
  BY <1>2, <1>5 DEF rest

-----------------------------------------------------------------------------
(* Aligned is inductive: one lemma per action that touches the slots.      *)

LEMMA InitAligned == Init => Aligned
<1> SUFFICES ASSUME Init PROVE Aligned
  OBVIOUS
<1> DEFINE n == Len(InitialAccounts)
<1>1. entries \in Seq(Accounts) /\ n \in Nat /\ \A i \in 1..n : entries[i] \in Accounts
  BY PoolAssumption, ElementOfSeq DEF PoolAssumption, Init
<1>2. \A i, j \in 1..n : Token[entries[i]] = Token[entries[j]] => i = j
  BY PoolAssumption DEF PoolAssumption, Init
<1>3. Sound(rot, n, Deadlines)
  BY <1>1, DeadlinesAreNatural, NewCursorSound DEF Init
<1>4. /\ busy \in Seq(BOOLEAN) /\ Len(busy) = n
      /\ quotaCoolUntil \in Seq(Deadlines) /\ Len(quotaCoolUntil) = n
  BY <1>1, DeadlinesAreNatural DEF Init
<1>5. ASSUME NEW a \in Accounts
      PROVE  /\ poolIndex[a] \in Nat
             /\ \A i \in 1..n : entries[i] = a => poolIndex[a] = i
  <2>1. poolIndex[a] = PlaceIn(entries, a, 0)
    BY DEF Init
  <2>2. entries = InitialAccounts
    BY DEF Init
  <2>3. \A i, j \in 1..n : entries[i] = entries[j] => i = j
    BY <1>2
  <2> QED
    BY <1>1, <2>1, <2>2, <2>3 DEF PlaceIn
<1>6. poolIndex \in [Accounts -> Nat]
  BY <1>5 DEF Init
<1>7. now \in 0..MaxNow /\ lastRotation = NoSlot /\ DOMAIN identities = {}
  BY PoolAssumption DEF PoolAssumption, Init
<1>8. request \in [Requests -> RequestStates] /\ fetcher \in [Fetchers -> FetcherStates]
  BY DEF Init, RequestStates, FetcherStates
<1>9. TypeOK
  BY <1>1, <1>3, <1>4, <1>6, <1>7, <1>8 DEF TypeOK, Sound, NoSlot
<1>10. SlotsAligned
  <2>1. SlotSet = 1..n
    BY DEF SlotSet, Init
  <2> HIDE DEF n
  <2> QED
    BY <2>1, <1>1, <1>2, <1>3, <1>4, <1>5, <1>7 DEF SlotsAligned, Sound, SlotSet
<1> QED
  BY <1>9, <1>10 DEF Aligned

(* A step that leaves the list of accounts alone.                          *)
LEMMA SameAccountsAligned ==
  ASSUME Aligned,
         UNCHANGED <<entries, poolIndex>>,
         now' \in 0..MaxNow,
         Sound(rot', Len(entries), Deadlines),
         lastRotation' \in SlotSet \cup {NoSlot},
         busy' \in Seq(BOOLEAN), Len(busy') = Len(entries),
         quotaCoolUntil' \in Seq(Deadlines), Len(quotaCoolUntil') = Len(entries),
         DOMAIN identities' \subseteq SlotSet,
         \A i \in DOMAIN identities' : identities'[i] \in Accounts,
         request' \in [Requests -> RequestStates],
         fetcher' \in [Fetchers -> FetcherStates]
  PROVE  Aligned'
<1>1. SlotSet' = SlotSet /\ SlotSet \subseteq Nat /\ NoSlot \in Nat
  BY AlignedParts DEF SlotSet, NoSlot
<1>2. TypeOK'
  BY <1>1 DEF Aligned, TypeOK, Sound
<1>3. SlotsAligned'
  BY <1>1 DEF Aligned, SlotsAligned, Sound, SlotSet
<1> QED
  BY <1>2, <1>3 DEF Aligned

LEMMA RequestUpdate ==
  ASSUME Aligned, NEW r \in Requests, NEW s \in RequestStates,
         request' = [request EXCEPT ![r] = s]
  PROVE  request' \in [Requests -> RequestStates]
BY DEF Aligned, TypeOK

LEMMA FetcherUpdate ==
  ASSUME Aligned, NEW f \in Fetchers, NEW s \in FetcherStates,
         fetcher' = [fetcher EXCEPT ![f] = s]
  PROVE  fetcher' \in [Fetchers -> FetcherStates]
BY DEF Aligned, TypeOK

(* A request that is past NextCredential holds an account.                 *)
LEMMA RequestHoldsAccount ==
  ASSUME Aligned, NEW r \in Requests, request[r].stage # "idle"
  PROVE  /\ request[r].creds \in Accounts
         /\ request[r] = [stage |-> request[r].stage, creds |-> request[r].creds]
         /\ request[r].stage \in {"serving", "refreshing"}
BY DEF Aligned, TypeOK, RequestStates

LEMMA FetcherHoldsAccount ==
  ASSUME Aligned, NEW f \in Fetchers, fetcher[f].stage # "idle"
  PROVE  fetcher[f].creds \in Accounts
BY DEF Aligned, TypeOK, FetcherStates

LEMMA NextCredentialAligned ==
  ASSUME Aligned, NEW r \in Requests, NextCredential(r)
  PROVE  Aligned'
<1> DEFINE i == Picked(rot, now)
<1>1. Sound(rot, Len(entries), Deadlines) /\ Len(entries) \in Nat \ {0}
  BY AlignedParts, EmptySeq DEF NextCredential, Aligned, TypeOK
<1>2. i \in SlotSet
  <2>1. rot \in Cursor /\ Len(rot.cooling) = Len(entries)
    BY <1>1, DeadlinesAreNatural, SoundIsCursor DEF Sound
  <2>2. now \in Nat
    BY PoolAssumption DEF Aligned, TypeOK, PoolAssumption
  <2> QED
    BY <1>1, <2>1, <2>2, PickedIsSlot DEF Slots, SlotSet
<1>3. /\ rot' = Advance(rot, i)
      /\ lastRotation' = i
      /\ request' = [request EXCEPT ![r] = [stage |-> "serving", creds |-> entries[i]]]
      /\ UNCHANGED <<now, entries, poolIndex, busy, quotaCoolUntil, identities, fetcher>>
  BY DEF NextCredential
<1> HIDE DEF i
<1>4. Sound(rot', Len(entries), Deadlines)
  BY <1>1, <1>2, <1>3, AdvanceSound, DeadlinesAreNatural DEF SlotSet
<1>5. [stage |-> "serving", creds |-> entries[i]] \in RequestStates
  BY <1>2, AlignedParts DEF RequestStates
<1>6. request' \in [Requests -> RequestStates]
  BY <1>3, <1>5, RequestUpdate
<1> QED
  BY <1>2, <1>3, <1>4, <1>6, SameAccountsAligned DEF Aligned, TypeOK, SlotsAligned

LEMMA CoolPeriods ==
  ASSUME NEW err \in Errors \cup {Served}
  PROVE  CoolPeriod(err) \in {0, CoolRejected, CoolRateLimited}
BY DEF CoolPeriod

(* What a refusal does to the cursor: it pushes one deadline out, and the  *)
(* retraction pulls the accounts without a hold back in.                   *)
LEMMA AfterRefusalSound ==
  ASSUME Aligned, NEW i \in SlotSet, NEW cool \in {CoolRejected, CoolRateLimited}
  PROVE  Sound(AfterRefusal(i, cool), Len(entries), Deadlines)
<1> DEFINE cooled == CoolOff(rot, i, now + cool)
<1>1. /\ now + cool \in Deadlines /\ now + CoolRateLimited \in Deadlines
      /\ Len(entries) \in Nat /\ i \in 1..Len(entries)
      /\ Sound(rot, Len(entries), Deadlines)
  BY DeadlinesAreNatural, AlignedParts DEF Aligned, TypeOK, SlotSet
<1>2. Sound(cooled, Len(entries), Deadlines)
  BY <1>1, DeadlinesAreNatural, CoolOffSound
<1> HIDE DEF cooled
<1>3. Sound(ClampCooling(cooled, SlotSet \ Held, now + CoolRateLimited),
            Len(entries), Deadlines)
  BY <1>1, <1>2, DeadlinesAreNatural, ClampCoolingSound
<1> QED
  BY <1>2, <1>3 DEF AfterRefusal, cooled

LEMMA ReportAligned ==
  ASSUME Aligned, NEW r \in Requests, NEW err \in Errors \cup {Served}, Report(r, err)
  PROVE  Aligned'
<1> DEFINE a == request[r].creds
           i == SlotOf(a)
<1>1. a \in Accounts /\ request[r] = [stage |-> "serving", creds |-> a]
  BY RequestHoldsAccount DEF Report
<1>2. /\ UNCHANGED <<now, entries, poolIndex, lastRotation, busy, quotaCoolUntil,
                     identities, fetcher>>
      /\ \/ IdleRequest(r)
         \/ request' = [request EXCEPT ![r] = [stage |-> "refreshing", creds |-> a]]
  BY DEF Report
<1>3. request' \in [Requests -> RequestStates]
  <2>1. [stage |-> "idle"] \in RequestStates
    BY DEF RequestStates
  <2>2. [stage |-> "refreshing", creds |-> a] \in RequestStates
    BY <1>1 DEF RequestStates
  <2> QED
    BY <1>2, <2>1, <2>2, RequestUpdate DEF IdleRequest
<1>4. Sound(rot', Len(entries), Deadlines)
  <2>1. \/ rot' = rot
        \/ /\ CoolPeriod(err) # 0 /\ i # NoSlot
           /\ rot' = AfterRefusal(i, CoolPeriod(err))
    BY DEF Report
  <2>2. CASE rot' = rot
    BY <2>2, AlignedParts
  <2>3. CASE CoolPeriod(err) # 0 /\ i # NoSlot /\ rot' = AfterRefusal(i, CoolPeriod(err))
    <3>1. i \in SlotSet
      BY <1>1, <2>3, SlotOfMember
    <3>2. CoolPeriod(err) \in {CoolRejected, CoolRateLimited}
      BY <2>3, CoolPeriods
    <3>3. Sound(AfterRefusal(i, CoolPeriod(err)), Len(entries), Deadlines)
      BY <3>1, <3>2, AfterRefusalSound
    <3> QED
      BY <2>3, <3>3
  <2> QED
    BY <2>1, <2>2, <2>3
<1> QED
  BY <1>2, <1>3, <1>4, SameAccountsAligned DEF Aligned, TypeOK, SlotsAligned

LEMMA SetMark ==
  ASSUME Aligned, NEW i \in SlotSet, NEW b \in BOOLEAN
  PROVE  /\ [busy EXCEPT ![i] = b] \in Seq(BOOLEAN)
         /\ Len([busy EXCEPT ![i] = b]) = Len(entries)
         /\ \A j \in SlotSet : [busy EXCEPT ![i] = b][j] = IF j = i THEN b ELSE busy[j]
BY ExceptSeq DEF Aligned, TypeOK, SlotsAligned, SlotSet

LEMMA RefreshQuotaAligned ==
  ASSUME Aligned, NEW r \in Requests, RefreshQuota(r)
  PROVE  Aligned'
<1> DEFINE a == request[r].creds
           i == SlotOf(a)
<1>1. a \in Accounts
  BY RequestHoldsAccount DEF RefreshQuota
<1>2. /\ UNCHANGED <<now, entries, poolIndex, rot, lastRotation, quotaCoolUntil, identities>>
      /\ IdleRequest(r)
      /\ \/ UNCHANGED <<busy, fetcher>>
         \/ /\ i # NoSlot
            /\ busy' = [busy EXCEPT ![i] = TRUE]
            /\ \E f \in Fetchers :
                  fetcher' = [fetcher EXCEPT ![f] = [stage |-> "asking", creds |-> a]]
  BY DEF RefreshQuota
<1>3. request' \in [Requests -> RequestStates]
  BY <1>2, RequestUpdate DEF IdleRequest, RequestStates
<1>4. fetcher' \in [Fetchers -> FetcherStates]
  <2>1. [stage |-> "asking", creds |-> a] \in FetcherStates
    BY <1>1 DEF FetcherStates
  <2> HIDE DEF a
  <2> QED
    BY <1>2, <2>1, FetcherUpdate DEF Aligned, TypeOK
<1>5. busy' \in Seq(BOOLEAN) /\ Len(busy') = Len(entries)
  <2>1. i # NoSlot => i \in SlotSet
    BY <1>1, SlotOfMember
  <2>2. ASSUME i # NoSlot, busy' = [busy EXCEPT ![i] = TRUE]
        PROVE  busy' \in Seq(BOOLEAN) /\ Len(busy') = Len(entries)
    <3>1. i \in SlotSet
      BY <2>1, <2>2
    <3> HIDE DEF i
    <3> QED
      BY <2>2, <3>1, SetMark
  <2> QED
    BY <1>2, <2>2 DEF Aligned, TypeOK, SlotsAligned
<1>6. Sound(rot', Len(entries), Deadlines)
  BY <1>2, AlignedParts
<1> QED
  BY <1>2, <1>3, <1>4, <1>5, <1>6, SameAccountsAligned DEF Aligned, TypeOK, SlotsAligned

LEMMA IdentitiesWithTyped ==
  ASSUME Aligned, NEW a \in Accounts
  PROVE  /\ DOMAIN IdentitiesWith(a) \subseteq SlotSet
         /\ \A i \in DOMAIN IdentitiesWith(a) : IdentitiesWith(a)[i] \in Accounts
BY SlotOfMember DEF IdentitiesWith, Aligned, TypeOK, SlotsAligned

(* The steps of a status call that only move the call along.               *)
LEMMA FetcherMoveAligned ==
  ASSUME Aligned, NEW f \in Fetchers, NEW s \in FetcherStates,
         fetcher' = [fetcher EXCEPT ![f] = s],
         UNCHANGED <<now, slots, request>>
  PROVE  Aligned'
<1>1. fetcher' \in [Fetchers -> FetcherStates]
  BY FetcherUpdate
<1>2. Sound(rot', Len(entries), Deadlines)
  BY AlignedParts DEF slots
<1> QED
  BY <1>1, <1>2, SameAccountsAligned DEF Aligned, TypeOK, SlotsAligned, slots

LEMMA FetcherMovesAligned ==
  ASSUME Aligned, NEW f \in Fetchers, fetcher[f].stage # "idle",
         NEW stage \in {"asking", "answered", "releasing"}, FetcherMoves(f, stage)
  PROVE  fetcher' \in [Fetchers -> FetcherStates]
<1>1. [stage |-> stage, creds |-> fetcher[f].creds] \in FetcherStates
  BY FetcherHoldsAccount DEF FetcherStates
<1> QED
  BY <1>1, FetcherUpdate DEF FetcherMoves

LEMMA FetchAnswersAligned ==
  ASSUME Aligned, NEW f \in Fetchers, FetchAnswers(f)
  PROVE  Aligned'
<1>1. fetcher' \in [Fetchers -> FetcherStates]
  BY FetcherMovesAligned DEF FetchAnswers
<1>2. /\ DOMAIN identities' \subseteq SlotSet
      /\ \A i \in DOMAIN identities' : identities'[i] \in Accounts
  BY FetcherHoldsAccount, IdentitiesWithTyped DEF FetchAnswers
<1>3. UNCHANGED <<now, entries, poolIndex, rot, lastRotation, busy, quotaCoolUntil, request>>
  BY DEF FetchAnswers
<1>4. Sound(rot', Len(entries), Deadlines)
  BY <1>3, AlignedParts
<1> QED
  BY <1>1, <1>2, <1>3, <1>4, SameAccountsAligned DEF Aligned, TypeOK, SlotsAligned

LEMMA QuotaEmptyAligned ==
  ASSUME Aligned, NEW f \in Fetchers, NEW delay \in ResetDelays, QuotaEmpty(f, delay)
  PROVE  Aligned'
<1> DEFINE until == now + (IF delay > MaxQuotaCool THEN MaxQuotaCool ELSE delay)
           s == [stage |-> "applying", creds |-> fetcher[f].creds, at |-> now,
                 until |-> until]
<1>1. until \in Deadlines
  BY PoolAssumption DEF PoolAssumption, Deadlines, Aligned, TypeOK
<1>2. now \in 0..MaxNow /\ fetcher[f].creds \in Accounts
  BY FetcherHoldsAccount DEF Aligned, TypeOK, QuotaEmpty
<1> HIDE DEF until
<1>3. s \in FetcherStates
  BY <1>1, <1>2 DEF FetcherStates
<1>4. fetcher' = [fetcher EXCEPT ![f] = s] /\ UNCHANGED <<now, slots, request>>
  BY DEF QuotaEmpty, until
<1> HIDE DEF s
<1> QED
  BY <1>3, <1>4, FetcherMoveAligned

(* What a status call is about to apply.                                   *)
LEMMA ApplyingState ==
  ASSUME Aligned, NEW f \in Fetchers, fetcher[f].stage = "applying"
  PROVE  /\ fetcher[f].creds \in Accounts
         /\ fetcher[f].at \in 0..MaxNow
         /\ fetcher[f].until \in Deadlines
BY DEF Aligned, TypeOK, FetcherStates

LEMMA SetHold ==
  ASSUME Aligned, NEW i \in SlotSet, NEW d \in Deadlines
  PROVE  /\ [quotaCoolUntil EXCEPT ![i] = d] \in Seq(Deadlines)
         /\ Len([quotaCoolUntil EXCEPT ![i] = d]) = Len(entries)
         /\ \A j \in SlotSet : [quotaCoolUntil EXCEPT ![i] = d][j] =
               IF j = i THEN d ELSE quotaCoolUntil[j]
BY ExceptSeq DEF Aligned, TypeOK, SlotsAligned, SlotSet

LEMMA ApplyQuotaAligned ==
  ASSUME Aligned, NEW f \in Fetchers, ApplyQuota(f)
  PROVE  Aligned'
<1> DEFINE i == SlotOf(fetcher[f].creds)
           until == fetcher[f].until
<1>1. until \in Deadlines
  BY ApplyingState DEF ApplyQuota
<1>2. fetcher' \in [Fetchers -> FetcherStates]
  BY FetcherMovesAligned DEF ApplyQuota
<1>3. /\ UNCHANGED <<now, entries, poolIndex, lastRotation, busy, identities, request>>
      /\ \/ UNCHANGED <<rot, quotaCoolUntil>>
         \/ /\ i \in Slots(rot)
            /\ rot' = SetCooling(rot, i, until)
            /\ quotaCoolUntil' = [quotaCoolUntil EXCEPT ![i] = until]
  BY DEF ApplyQuota, CanExtend
<1>4. Slots(rot) = SlotSet
  BY DEF Slots, SlotSet, Aligned, SlotsAligned
<1> HIDE DEF i, until
<1>5. /\ Sound(rot', Len(entries), Deadlines)
      /\ quotaCoolUntil' \in Seq(Deadlines) /\ Len(quotaCoolUntil') = Len(entries)
  <2>1. CASE UNCHANGED <<rot, quotaCoolUntil>>
    BY <2>1, AlignedParts DEF Aligned, TypeOK, SlotsAligned
  <2>2. CASE /\ i \in Slots(rot)
             /\ rot' = SetCooling(rot, i, until)
             /\ quotaCoolUntil' = [quotaCoolUntil EXCEPT ![i] = until]
    <3>1. Sound(rot', Len(entries), Deadlines)
      BY <1>1, <1>4, <2>2, AlignedParts, DeadlinesAreNatural, SetCoolingSound DEF SlotSet
    <3> QED
      BY <1>1, <1>4, <2>2, <3>1, SetHold
  <2> QED
    BY <1>3, <2>1, <2>2
<1> QED
  BY <1>2, <1>3, <1>5, SameAccountsAligned DEF Aligned, TypeOK, SlotsAligned

LEMMA ReleaseBusyAligned ==
  ASSUME Aligned, NEW f \in Fetchers, ReleaseBusy(f)
  PROVE  Aligned'
<1> DEFINE i == SlotOf(fetcher[f].creds)
<1>1. i # NoSlot => i \in SlotSet
  BY FetcherHoldsAccount, SlotOfMember DEF ReleaseBusy
<1>2. busy' = IF i = NoSlot THEN busy ELSE [busy EXCEPT ![i] = FALSE]
  BY DEF ReleaseBusy
<1> HIDE DEF i
<1>3. busy' \in Seq(BOOLEAN) /\ Len(busy') = Len(entries)
  BY <1>1, <1>2, SetMark DEF Aligned, TypeOK, SlotsAligned
<1>4. fetcher' \in [Fetchers -> FetcherStates]
  BY FetcherUpdate DEF ReleaseBusy, FetcherStates
<1>5. /\ Sound(rot', Len(entries), Deadlines)
      /\ UNCHANGED <<now, entries, poolIndex, rot, lastRotation, quotaCoolUntil, identities,
                     request>>
  BY AlignedParts DEF ReleaseBusy
<1> QED
  BY <1>3, <1>4, <1>5, SameAccountsAligned DEF Aligned, TypeOK, SlotsAligned

LEMMA FetcherStepAligned ==
  ASSUME Aligned, NEW f \in Fetchers, FetcherStep(f)
  PROVE  Aligned'
<1>1. CASE FetchFails(f) \/ QuotaNotEmpty(f)
  <2>1. /\ fetcher[f].stage # "idle" /\ FetcherMoves(f, "releasing")
        /\ UNCHANGED <<now, slots, request>>
    BY <1>1 DEF FetchFails, QuotaNotEmpty
  <2>2. [stage |-> "releasing", creds |-> fetcher[f].creds] \in FetcherStates
    BY <2>1, FetcherHoldsAccount DEF FetcherStates
  <2> QED
    BY <2>1, <2>2, FetcherMoveAligned DEF FetcherMoves
<1> QED
  BY <1>1, FetchAnswersAligned, QuotaEmptyAligned, ApplyQuotaAligned, ReleaseBusyAligned
     DEF FetcherStep

LEMMA AddAccountAligned ==
  ASSUME Aligned, NEW a \in Accounts, AddAccount(a)
  PROVE  Aligned'
<1> DEFINE n == Len(entries)
<1>1. n \in Nat /\ entries \in Seq(Accounts) /\ Sound(rot, n, Deadlines)
  BY AlignedParts DEF Aligned, TypeOK
<1>2. /\ entries' \in Seq(Accounts) /\ Len(entries') = n + 1
      /\ \A i \in 1..n : entries'[i] = entries[i]
      /\ entries'[n + 1] = a
  BY <1>1 DEF AddAccount
<1>3. /\ busy' \in Seq(BOOLEAN) /\ Len(busy') = n + 1
      /\ quotaCoolUntil' \in Seq(Deadlines) /\ Len(quotaCoolUntil') = n + 1
  BY DeadlinesAreNatural DEF AddAccount, Aligned, TypeOK, SlotsAligned
<1>4. Sound(rot', n + 1, Deadlines)
  BY <1>1, DeadlinesAreNatural, AppendSlotSound DEF AddAccount
<1>5. poolIndex' \in [Accounts -> Nat] /\ poolIndex' = [poolIndex EXCEPT ![a] = n + 1]
  BY <1>1 DEF AddAccount, Aligned, TypeOK
<1>6. a \notin Members /\ \A i \in 1..n : Token[entries[i]] # Token[a]
  BY DEF AddAccount, Members, SlotSet
<1>7. /\ \A i \in 1..n : entries[i] \in Accounts /\ poolIndex[entries[i]] = i
      /\ \A i, j \in 1..n : Token[entries[i]] = Token[entries[j]] => i = j
  BY AlignedParts DEF Aligned, SlotsAligned, SlotSet
<1>8. UNCHANGED <<now, lastRotation, identities, request, fetcher>>
  BY DEF AddAccount
<1>9. /\ DOMAIN identities' \subseteq 1..n
      /\ lastRotation' \in 1..n \cup {NoSlot}
  BY <1>8 DEF Aligned, SlotsAligned, SlotSet
<1>10. TypeOK'
  BY <1>2, <1>3, <1>4, <1>5, <1>8 DEF Aligned, TypeOK, Sound
<1> HIDE DEF n
<1>11. SlotSet' = 1..(n + 1)
  BY <1>2 DEF SlotSet
<1>12. \A i \in SlotSet' : poolIndex'[entries'[i]] = i
  <2>1. ASSUME NEW i \in 1..n PROVE poolIndex'[entries'[i]] = i
    <3>1. entries'[i] = entries[i] /\ entries[i] # a
      BY <1>2, <1>6 DEF Members, SlotSet, n
    <3> QED
      BY <1>5, <1>7, <3>1 DEF Aligned, TypeOK
  <2>2. poolIndex'[entries'[n + 1]] = n + 1
    BY <1>2, <1>5 DEF Aligned, TypeOK
  <2> QED
    BY <1>1, <1>11, <2>1, <2>2
<1>13. \A i, j \in SlotSet' : Token[entries'[i]] = Token[entries'[j]] => i = j
  BY <1>1, <1>2, <1>6, <1>7, <1>11
<1>14. SlotsAligned'
  BY <1>1, <1>2, <1>3, <1>4, <1>9, <1>11, <1>12, <1>13 DEF SlotsAligned, Sound, NoSlot
<1> QED
  BY <1>10, <1>14 DEF Aligned

LEMMA RemoveSlotAtAligned ==
  ASSUME Aligned, NEW i \in SlotSet, RemoveSlotAt(i), UNCHANGED <<now, request, fetcher>>
  PROVE  Aligned'
<1> DEFINE n == Len(entries)
           rest == RemoveAt(entries, i)
<1>1. /\ n \in Nat \ {0} /\ i \in 1..n /\ entries \in Seq(Accounts)
      /\ Sound(rot, n, Deadlines)
  BY AlignedParts DEF Aligned, TypeOK, SlotSet
<1>2. /\ entries' = rest
      /\ rest \in Seq(Accounts) /\ Len(rest) = n - 1
      /\ \A j \in 1..(n - 1) : rest[j] = IF j < i THEN entries[j] ELSE entries[j + 1]
      /\ \A j \in 1..(n - 1) : PlaceIn(rest, rest[j], poolIndex[rest[j]]) = j
  BY PlaceAfterRemoval DEF RemoveSlotAt
<1>3. poolIndex' = [a \in Accounts |-> PlaceIn(rest, a, poolIndex[a])]
  BY DEF RemoveSlotAt
<1> HIDE DEF rest
<1>4. poolIndex' \in [Accounts -> Nat]
  <2>1. ASSUME NEW a \in Accounts PROVE PlaceIn(rest, a, poolIndex[a]) \in Nat
    <3>1. Len(rest) \in Nat /\ poolIndex[a] \in Nat
      BY <1>1, <1>2 DEF Aligned, TypeOK
    <3> QED
      BY <3>1 DEF PlaceIn
  <2> QED
    BY <1>3, <2>1
<1>5. /\ busy' \in Seq(BOOLEAN) /\ Len(busy') = n - 1
      /\ quotaCoolUntil' \in Seq(Deadlines) /\ Len(quotaCoolUntil') = n - 1
  <2>1. /\ busy \in Seq(BOOLEAN) /\ Len(busy) = n /\ busy' = RemoveAt(busy, i)
        /\ quotaCoolUntil \in Seq(Deadlines) /\ Len(quotaCoolUntil) = n
        /\ quotaCoolUntil' = RemoveAt(quotaCoolUntil, i)
    BY DEF RemoveSlotAt, Aligned, TypeOK, SlotsAligned
  <2> HIDE DEF n
  <2>2. busy' \in Seq(BOOLEAN) /\ Len(busy') = n - 1
    BY <1>1, <2>1, RemoveAtProperties
  <2>3. quotaCoolUntil' \in Seq(Deadlines) /\ Len(quotaCoolUntil') = n - 1
    BY <1>1, <2>1, RemoveAtProperties
  <2> QED
    BY <2>2, <2>3
<1>6. Sound(rot', n - 1, Deadlines)
  BY <1>1, DeadlinesAreNatural, RemoveSlotSound DEF RemoveSlotAt
<1>7. lastRotation' \in 1..(n - 1) \cup {NoSlot}
  <2>1. lastRotation \in 1..n \cup {0}
    BY DEF Aligned, SlotsAligned, SlotSet, NoSlot
  <2>2. lastRotation' = IF lastRotation = i THEN 0
                        ELSE IF lastRotation > i THEN lastRotation - 1 ELSE lastRotation
    BY <1>1, <2>1 DEF RemoveSlotAt, NoSlot
  <2> HIDE DEF n
  <2> QED
    BY <1>1, <2>1, <2>2 DEF NoSlot
<1>8. /\ DOMAIN identities' \subseteq 1..(n - 1)
      /\ \A j \in DOMAIN identities' : identities'[j] \in Accounts
  BY SMTT(30), <1>1 DEF RemoveSlotAt, Aligned, TypeOK, SlotSet
<1>9. UNCHANGED <<now, request, fetcher>>
  OBVIOUS
<1>10. TypeOK'
  <2>1. lastRotation' \in Nat /\ DOMAIN identities' \subseteq Nat
    BY <1>1, <1>7, <1>8 DEF NoSlot
  <2> HIDE DEF n
  <2> QED
    BY <1>2, <1>4, <1>5, <1>6, <1>8, <1>9, <2>1 DEF Aligned, TypeOK, Sound
<1>11. SlotSet' = 1..(n - 1)
  BY <1>2 DEF SlotSet
<1>12. \A j \in 1..(n - 1) : rest[j] \in Accounts
  BY <1>2, ElementOfSeq
<1>13. \A j \in SlotSet' : poolIndex'[entries'[j]] = j
  <2> HIDE DEF n
  <2> QED
    BY <1>2, <1>3, <1>11, <1>12
<1>14. \A j, k \in SlotSet' : Token[entries'[j]] = Token[entries'[k]] => j = k
  <2>1. \A j, k \in 1..n : Token[entries[j]] = Token[entries[k]] => j = k
    BY DEF Aligned, SlotsAligned, SlotSet
  <2> HIDE DEF n
  <2>2. SUFFICES ASSUME NEW j \in 1..(n - 1), NEW k \in 1..(n - 1),
                        Token[rest[j]] = Token[rest[k]]
                 PROVE  j = k
    BY <1>2, <1>11
  <2> DEFINE J == IF j < i THEN j ELSE j + 1
             K == IF k < i THEN k ELSE k + 1
  <2>3. J \in 1..n /\ K \in 1..n
    BY <1>1
  <2>4. rest[j] = entries[J] /\ rest[k] = entries[K]
    BY <1>2
  <2>5. J = K
    <3> HIDE DEF J, K
    <3> QED  BY <2>1, <2>2, <2>3, <2>4
  <2> QED
    BY <1>1, <2>5
<1>15. SlotsAligned'
  <2> HIDE DEF n
  <2> QED
    BY <1>2, <1>5, <1>6, <1>7, <1>8, <1>11, <1>13, <1>14 DEF SlotsAligned, Sound
<1> QED
  BY <1>10, <1>15 DEF Aligned

LEMMA RememberAligned ==
  ASSUME Aligned, NEW a \in Accounts, Remember(a)
  PROVE  Aligned'
<1>1. /\ DOMAIN identities' \subseteq SlotSet
      /\ \A i \in DOMAIN identities' : identities'[i] \in Accounts
  BY IdentitiesWithTyped DEF Remember
<1>2. /\ Sound(rot', Len(entries), Deadlines)
      /\ UNCHANGED <<now, entries, poolIndex, rot, lastRotation, busy, quotaCoolUntil,
                     request, fetcher>>
  BY AlignedParts DEF Remember
<1> QED
  BY <1>1, <1>2, SameAccountsAligned DEF Aligned, TypeOK, SlotsAligned

(* What lifting the holds of one account does to the two deadlines.        *)
LEMMA ClearCooldownSound ==
  ASSUME Aligned, NEW a \in Accounts, NEW at \in RecentPast, ClearCooldown(a, at),
         SlotOf(a) # NoSlot
  PROVE  /\ SlotOf(a) \in SlotSet
         /\ Sound(rot', Len(entries), Deadlines)
         /\ \A j \in SlotSet : rot'.cooling[j] =
               IF j = SlotOf(a) THEN Lifted(rot.cooling[j], at) ELSE rot.cooling[j]
         /\ quotaCoolUntil' \in Seq(Deadlines) /\ Len(quotaCoolUntil') = Len(entries)
         /\ \A j \in SlotSet : quotaCoolUntil'[j] =
               IF j = SlotOf(a) THEN Lifted(quotaCoolUntil[j], at) ELSE quotaCoolUntil[j]
<1> DEFINE i == SlotOf(a)
           d == Lifted(rot.cooling[i], at)
           q == Lifted(quotaCoolUntil[i], at)
<1>1. i \in SlotSet /\ SlotSet = 1..Len(entries) /\ Len(entries) \in Nat
  BY SlotOfMember, AlignedParts DEF SlotSet
<1>2. /\ rot' = SetCooling(rot, i, d)
      /\ quotaCoolUntil' = [quotaCoolUntil EXCEPT ![i] = q]
  BY DEF ClearCooldown
<1> HIDE DEF i
<1>3. d \in Deadlines /\ q \in Deadlines
  <2>1. rot.cooling[i] \in Deadlines /\ quotaCoolUntil[i] \in Deadlines
    BY <1>1, ElementOfSeq DEF Aligned, TypeOK, SlotsAligned
  <2> QED
    BY <2>1, DeadlinesAreNatural DEF Lifted
<1>4. /\ Sound(rot', Len(entries), Deadlines)
      /\ \A j \in SlotSet : rot'.cooling[j] = IF j = i THEN d ELSE rot.cooling[j]
  <2> HIDE DEF d
  <2>1. Sound(rot, Len(entries), Deadlines) /\ Deadlines \in SUBSET Nat
    BY AlignedParts, DeadlinesAreNatural
  <2>2. i \in 1..Len(entries) /\ Len(entries) \in Nat /\ d \in Deadlines
    BY <1>1, <1>3
  <2>3. /\ Sound(SetCooling(rot, i, d), Len(entries), Deadlines)
        /\ OnlySets(rot, SetCooling(rot, i, d), Len(entries), i, d)
    BY <2>1, <2>2, SetCoolingSound
  <2> QED
    BY <1>1, <1>2, <2>3 DEF OnlySets
<1>5. /\ quotaCoolUntil' \in Seq(Deadlines) /\ Len(quotaCoolUntil') = Len(entries)
      /\ \A j \in SlotSet : quotaCoolUntil'[j] = IF j = i THEN q ELSE quotaCoolUntil[j]
  <2> HIDE DEF q
  <2> QED
    BY <1>1, <1>2, <1>3, SetHold
<1> QED
  BY <1>1, <1>4, <1>5 DEF i

LEMMA ClearCooldownAligned ==
  ASSUME Aligned, NEW a \in Accounts, NEW at \in RecentPast, ClearCooldown(a, at)
  PROVE  Aligned'
<1>1. UNCHANGED <<now, entries, poolIndex, lastRotation, busy, identities, request, fetcher>>
  BY DEF ClearCooldown
<1>2. /\ Sound(rot', Len(entries), Deadlines)
      /\ quotaCoolUntil' \in Seq(Deadlines) /\ Len(quotaCoolUntil') = Len(entries)
  <2>1. CASE SlotOf(a) = NoSlot
    <3>1. UNCHANGED <<rot, quotaCoolUntil>>
      BY <2>1 DEF ClearCooldown
    <3> QED
      BY <3>1, AlignedParts DEF Aligned, TypeOK, SlotsAligned
  <2>2. CASE SlotOf(a) # NoSlot
    BY <2>2, ClearCooldownSound
  <2> QED
    BY <2>1, <2>2
<1> QED
  BY <1>1, <1>2, SameAccountsAligned DEF Aligned, TypeOK, SlotsAligned

LEMMA TickAligned ==
  ASSUME Aligned, Tick
  PROVE  Aligned'
<1>1. now' \in 0..MaxNow
  BY PoolAssumption DEF Tick, Aligned, TypeOK, PoolAssumption
<1>2. Sound(rot', Len(entries), Deadlines) /\ UNCHANGED <<slots, request, fetcher>>
  BY AlignedParts DEF Tick, slots
<1> QED
  BY <1>1, <1>2, SameAccountsAligned DEF Aligned, TypeOK, SlotsAligned, slots

LEMMA NextAligned == Aligned /\ [Next]_vars => Aligned'
<1> SUFFICES ASSUME Aligned, [Next]_vars PROVE Aligned'
  OBVIOUS
<1>1. CASE Tick
  BY <1>1, TickAligned
<1>2. ASSUME NEW r \in Requests, RequestStep(r) PROVE Aligned'
  BY <1>2, NextCredentialAligned, ReportAligned, RefreshQuotaAligned DEF RequestStep
<1>3. ASSUME NEW f \in Fetchers, FetcherStep(f) PROVE Aligned'
  BY <1>3, FetcherStepAligned
<1>4. ASSUME NEW a \in Accounts, AddAccount(a) PROVE Aligned'
  BY <1>4, AddAccountAligned
<1>5. ASSUME NEW i \in SlotSet, RemoveIndex(i) PROVE Aligned'
  BY <1>5, RemoveSlotAtAligned DEF RemoveIndex
<1>6. ASSUME NEW a \in Accounts, RemoveCredential(a) PROVE Aligned'
  BY <1>6, SlotOfMember, RemoveSlotAtAligned DEF RemoveCredential
<1>7. ASSUME NEW a \in Accounts, Remember(a) PROVE Aligned'
  BY <1>7, RememberAligned
<1>8. ASSUME NEW a \in Accounts, NEW at \in RecentPast, ClearCooldown(a, at) PROVE Aligned'
  BY <1>8, ClearCooldownAligned
<1>9. CASE UNCHANGED vars
  <2>1. UNCHANGED <<now, slots, request, fetcher>> /\ Sound(rot', Len(entries), Deadlines)
    BY <1>9, AlignedParts DEF vars, slots
  <2> QED
    BY <2>1, SameAccountsAligned DEF Aligned, TypeOK, SlotsAligned, slots
<1> QED
  BY <1>1, <1>2, <1>3, <1>4, <1>5, <1>6, <1>7, <1>8, <1>9 DEF Next

(* The pool keeps its shape: every list it holds is well-typed ...         *)
THEOREM TypeCorrect == Spec => []TypeOK
<1>1. Spec => []Aligned
  BY InitAligned, NextAligned, PTL DEF Spec
<1>2. Aligned => TypeOK
  BY DEF Aligned
<1> QED
  BY <1>1, <1>2, PTL

(* ... and the lists stay aligned with the accounts through every addition,*)
(* removal and renumbering, whatever waits meanwhile.                      *)
THEOREM AlwaysAligned == Spec => []SlotsAligned
<1>1. Spec => []Aligned
  BY InitAligned, NextAligned, PTL DEF Spec
<1>2. Aligned => SlotsAligned
  BY DEF Aligned
<1> QED
  BY <1>1, <1>2, PTL

-----------------------------------------------------------------------------
(* Quota holds.  HeldIsCooling is inductive on top of Aligned.             *)

LEMMA NumbersInSlots ==
  ASSUME Aligned
  PROVE  /\ now \in Nat
         /\ Deadlines \subseteq Int
         /\ \A i \in SlotSet : rot.cooling[i] \in Deadlines /\ quotaCoolUntil[i] \in Deadlines
<1>1. now \in Nat
  BY PoolAssumption DEF Aligned, TypeOK, PoolAssumption
<1>2. Deadlines \subseteq Int
  BY PoolAssumption DEF Deadlines, PoolAssumption
<1>3. /\ rot.cooling \in Seq(Deadlines) /\ Len(rot.cooling) = Len(entries)
      /\ quotaCoolUntil \in Seq(Deadlines) /\ Len(quotaCoolUntil) = Len(entries)
  BY DEF Aligned, TypeOK, SlotsAligned
<1>4. \A i \in SlotSet : rot.cooling[i] \in Deadlines
  BY <1>3, ElementOfSeq, Zenon DEF SlotSet
<1>5. \A i \in SlotSet : quotaCoolUntil[i] \in Deadlines
  BY <1>3, ElementOfSeq, Zenon DEF SlotSet
<1> QED
  BY <1>1, <1>2, <1>4, <1>5

(* A step that only lets time pass, or does something else entirely.       *)
LEMMA SameDeadlinesHeld ==
  ASSUME Aligned, HeldIsCooling, UNCHANGED <<entries, rot.cooling, quotaCoolUntil>>,
         now' \in Nat, now' >= now
  PROVE  HeldIsCooling'
<1>1. SlotSet' = SlotSet
  BY DEF SlotSet
<1>2. Held' \subseteq Held
  BY <1>1, NumbersInSlots DEF Held, QuotaHeldAt
<1> QED
  BY <1>2 DEF HeldIsCooling

LEMMA ReportHeld ==
  ASSUME Aligned, HeldIsCooling, NEW r \in Requests, NEW err \in Errors \cup {Served},
         Report(r, err)
  PROVE  HeldIsCooling'
<1> DEFINE i == SlotOf(request[r].creds)
           cool == CoolPeriod(err)
           cooled == CoolOff(rot, i, now + cool)
           n == Len(entries)
<1>1. UNCHANGED <<now, entries, quotaCoolUntil>>
  BY DEF Report
<1>2. CASE rot' = rot
  BY <1>1, <1>2, SameDeadlinesHeld, NumbersInSlots
<1>3. CASE cool # 0 /\ i # NoSlot /\ rot' = AfterRefusal(i, cool)
  <2>1. i \in SlotSet /\ SlotSet = 1..n /\ n \in Nat
    BY <1>3, RequestHoldsAccount, SlotOfMember, AlignedParts DEF Report, SlotSet
  <2>2. cool \in {CoolRejected, CoolRateLimited}
    BY <1>3, CoolPeriods
  <2>3. now + cool \in Deadlines /\ now + CoolRateLimited \in Deadlines
    BY <2>2, DeadlinesAreNatural DEF Aligned, TypeOK
  <2>4. Sound(rot, n, Deadlines) /\ Deadlines \in SUBSET Nat
    BY AlignedParts, DeadlinesAreNatural
  <2> HIDE DEF i, cool, n
  <2>5. /\ Sound(cooled, n, Deadlines)
        /\ OnlyPushes(rot, cooled, n, i, now + cool)
    BY <2>1, <2>3, <2>4, CoolOffSound
  <2>6. \A j \in SlotSet : rot.cooling[j] <= cooled.cooling[j]
    BY <2>1, <2>3, <2>5, NumbersInSlots DEF OnlyPushes
  <2> HIDE DEF cooled
  <2> DEFINE spared == SlotSet \ Held
             soon == now + CoolRateLimited
  <2>7. OnlyPullsIn(cooled, ClampCooling(cooled, spared, soon), n, spared, soon)
    <3>1. soon \in Deadlines /\ Deadlines \in SUBSET Nat /\ n \in Nat
      BY <2>1, <2>3, <2>4
    <3> HIDE DEF spared, soon
    <3> QED
      BY <2>5, <3>1, ClampCoolingSound
  <2>8. \A j \in Held : rot.cooling[j] <= rot'.cooling[j]
    BY <1>3, <2>1, <2>6, <2>7 DEF AfterRefusal, cooled, Held, OnlyPullsIn
  <2>9. Held' = Held
    BY <1>1 DEF Held, SlotSet, QuotaHeldAt
  <2>10. \A j \in Held : rot'.cooling[j] \in Int
    <3>1. Sound(rot', n, Deadlines)
      BY <1>3, <2>1, <2>2, AfterRefusalSound DEF n
    <3> QED
      BY <2>1, <3>1, ElementOfSeq, NumbersInSlots DEF Sound, Held
  <2> QED
    BY <1>1, <2>8, <2>9, <2>10, NumbersInSlots DEF HeldIsCooling, Held
<1> QED
  BY <1>2, <1>3 DEF Report

LEMMA ApplyQuotaHeld ==
  ASSUME Aligned, HeldIsCooling, NEW f \in Fetchers, ApplyQuota(f)
  PROVE  HeldIsCooling'
<1> DEFINE i == SlotOf(fetcher[f].creds)
           until == fetcher[f].until
           n == Len(entries)
<1>1. UNCHANGED <<now, entries>>
  BY DEF ApplyQuota
<1>2. CASE UNCHANGED <<rot, quotaCoolUntil>>
  BY <1>1, <1>2, SameDeadlinesHeld, NumbersInSlots
<1>3. CASE /\ i \in Slots(rot)
           /\ rot' = SetCooling(rot, i, until)
           /\ quotaCoolUntil' = [quotaCoolUntil EXCEPT ![i] = until]
  <2>1. i \in SlotSet /\ SlotSet = 1..n /\ n \in Nat /\ until \in Deadlines
    BY <1>3, ApplyingState, AlignedParts DEF ApplyQuota, Slots, SlotSet, Aligned, SlotsAligned
  <2>2. Sound(rot, n, Deadlines) /\ Deadlines \in SUBSET Nat /\ i \in 1..n
    BY <2>1, AlignedParts, DeadlinesAreNatural
  <2> HIDE DEF i, until, n
  <2>3. /\ Sound(SetCooling(rot, i, until), n, Deadlines)
        /\ OnlySets(rot, SetCooling(rot, i, until), n, i, until)
    BY <2>1, <2>2, SetCoolingSound
  <2>4. \A j \in SlotSet : quotaCoolUntil'[j] = IF j = i THEN until ELSE quotaCoolUntil[j]
    BY <1>3, <2>1, SetHold
  <2>5. SlotSet' = SlotSet
    BY <1>1 DEF SlotSet
  <2> QED
    BY <1>1, <1>3, <2>1, <2>2, <2>3, <2>4, <2>5
       DEF HeldIsCooling, Held, QuotaHeldAt, OnlySets
<1> QED
  BY <1>2, <1>3 DEF ApplyQuota, CanExtend

LEMMA ClearCooldownHeld ==
  ASSUME Aligned, HeldIsCooling, NEW a \in Accounts, NEW at \in RecentPast,
         ClearCooldown(a, at)
  PROVE  HeldIsCooling'
<1>1. UNCHANGED <<now, entries>> /\ at \in Nat /\ at <= now
  BY NumbersInSlots DEF ClearCooldown, RecentPast
<1>2. CASE SlotOf(a) = NoSlot
  BY <1>1, <1>2, SameDeadlinesHeld, NumbersInSlots DEF ClearCooldown
<1>3. CASE SlotOf(a) # NoSlot
  <2>1. SlotSet' = SlotSet
    BY <1>1 DEF SlotSet
  <2>2. \A j \in SlotSet :
           /\ rot'.cooling[j] =
                IF j = SlotOf(a) THEN Lifted(rot.cooling[j], at) ELSE rot.cooling[j]
           /\ quotaCoolUntil'[j] =
                IF j = SlotOf(a) THEN Lifted(quotaCoolUntil[j], at) ELSE quotaCoolUntil[j]
    BY <1>3, ClearCooldownSound
  <2>3. \A j \in Held' : j # SlotOf(a)
    BY <1>1, <2>1, <2>2, NumbersInSlots DEF Held, QuotaHeldAt, Lifted
  <2> QED
    BY <1>1, <2>1, <2>2, <2>3 DEF HeldIsCooling, Held, QuotaHeldAt
<1> QED
  BY <1>2, <1>3

LEMMA AddAccountHeld ==
  ASSUME Aligned, HeldIsCooling, NEW a \in Accounts, AddAccount(a)
  PROVE  HeldIsCooling'
<1> DEFINE n == Len(entries)
<1>1. n \in Nat /\ SlotSet = 1..n /\ SlotSet' = 1..(n + 1) /\ now' = now
  BY AlignedParts DEF AddAccount, SlotSet, Aligned, TypeOK
<1>2. \A i \in 1..n : rot'.cooling[i] = rot.cooling[i]
  BY AlignedParts, DeadlinesAreNatural, AppendSlotSound DEF AddAccount
<1>3. /\ \A i \in 1..n : quotaCoolUntil'[i] = quotaCoolUntil[i]
      /\ quotaCoolUntil'[n + 1] = 0
  BY <1>1 DEF AddAccount, Aligned, TypeOK, SlotsAligned
<1> HIDE DEF n
<1>4. Held' \subseteq Held
  BY <1>1, <1>3, NumbersInSlots DEF Held, QuotaHeldAt
<1> QED
  BY <1>1, <1>2, <1>3, <1>4 DEF HeldIsCooling, Held

LEMMA RemoveSlotAtHeld ==
  ASSUME Aligned, HeldIsCooling, NEW i \in SlotSet, RemoveSlotAt(i), now' = now
  PROVE  HeldIsCooling'
<1> DEFINE n == Len(entries)
<1>1. n \in Nat \ {0} /\ i \in 1..n /\ SlotSet = 1..n
  BY AlignedParts DEF SlotSet
<1>2. SlotSet' = 1..(n - 1)
  BY <1>1, PlaceAfterRemoval DEF RemoveSlotAt, SlotSet
<1>3. \A j \in 1..(n - 1) :
         rot'.cooling[j] = IF j < i THEN rot.cooling[j] ELSE rot.cooling[j + 1]
  BY ZenonT(40), <1>1, AlignedParts, DeadlinesAreNatural, RemoveSlotSound DEF RemoveSlotAt
<1>4. \A j \in 1..(n - 1) :
         quotaCoolUntil'[j] = IF j < i THEN quotaCoolUntil[j] ELSE quotaCoolUntil[j + 1]
  <2>1. /\ quotaCoolUntil \in Seq(Deadlines) /\ Len(quotaCoolUntil) = n
        /\ quotaCoolUntil' = RemoveAt(quotaCoolUntil, i)
    BY DEF RemoveSlotAt, Aligned, TypeOK, SlotsAligned
  <2> HIDE DEF n
  <2> QED
    BY <1>1, <2>1, RemoveAtProperties
<1> HIDE DEF n
<1>5. SUFFICES ASSUME NEW j \in 1..(n - 1), now < quotaCoolUntil'[j]
               PROVE  quotaCoolUntil'[j] <= rot'.cooling[j]
  BY <1>2 DEF HeldIsCooling, Held, QuotaHeldAt
<1> DEFINE J == IF j < i THEN j ELSE j + 1
<1>6. J \in SlotSet /\ quotaCoolUntil'[j] = quotaCoolUntil[J] /\ rot'.cooling[j] = rot.cooling[J]
  BY <1>1, <1>3, <1>4
<1> HIDE DEF J
<1> QED
  BY <1>5, <1>6 DEF HeldIsCooling, Held, QuotaHeldAt

LEMMA NextHeld == Aligned /\ HeldIsCooling /\ [Next]_vars => HeldIsCooling'
<1> SUFFICES ASSUME Aligned, HeldIsCooling, [Next]_vars PROVE HeldIsCooling'
  OBVIOUS
<1>1. CASE Tick
  BY <1>1, SameDeadlinesHeld, NumbersInSlots DEF Tick, slots
<1>2. ASSUME NEW r \in Requests, RequestStep(r) PROVE HeldIsCooling'
  <2>1. CASE NextCredential(r)
    <3>1. UNCHANGED <<now, entries, quotaCoolUntil>> /\ rot' = Advance(rot, Picked(rot, now))
      BY <2>1 DEF NextCredential
    <3>2. rot'.cooling = rot.cooling
      BY <3>1, CursorUpdate DEF Advance, Aligned, TypeOK
    <3> QED
      BY <3>1, <3>2, SameDeadlinesHeld, NumbersInSlots
  <2>2. CASE RefreshQuota(r)
    BY <2>2, SameDeadlinesHeld, NumbersInSlots DEF RefreshQuota
  <2> QED
    BY <1>2, <2>1, <2>2, ReportHeld DEF RequestStep
<1>3. ASSUME NEW f \in Fetchers, FetcherStep(f) PROVE HeldIsCooling'
  <2>1. CASE ApplyQuota(f)
    BY <2>1, ApplyQuotaHeld
  <2>2. CASE ~ApplyQuota(f)
    <3>1. UNCHANGED <<now, entries, rot, quotaCoolUntil>>
      BY <1>3, <2>2 DEF FetcherStep, FetchFails, FetchAnswers, QuotaNotEmpty, QuotaEmpty,
         ReleaseBusy, slots
    <3> QED
      BY <3>1, SameDeadlinesHeld, NumbersInSlots
  <2> QED
    BY <2>1, <2>2
<1>4. ASSUME NEW a \in Accounts, AddAccount(a) PROVE HeldIsCooling'
  BY <1>4, AddAccountHeld
<1>5. ASSUME NEW i \in SlotSet, RemoveIndex(i) PROVE HeldIsCooling'
  BY <1>5, RemoveSlotAtHeld DEF RemoveIndex
<1>6. ASSUME NEW a \in Accounts, RemoveCredential(a) PROVE HeldIsCooling'
  BY <1>6, SlotOfMember, RemoveSlotAtHeld DEF RemoveCredential
<1>7. ASSUME NEW a \in Accounts, Remember(a) PROVE HeldIsCooling'
  BY <1>7, SameDeadlinesHeld, NumbersInSlots DEF Remember
<1>8. ASSUME NEW a \in Accounts, NEW at \in RecentPast, ClearCooldown(a, at)
      PROVE  HeldIsCooling'
  BY <1>8, ClearCooldownHeld
<1>9. CASE UNCHANGED vars
  BY <1>9, SameDeadlinesHeld, NumbersInSlots DEF vars, slots
<1> QED
  BY <1>1, <1>2, <1>3, <1>4, <1>5, <1>6, <1>7, <1>8, <1>9 DEF Next

(* An account held on quota evidence stays out of rotation until the hold  *)
(* ends, whatever is refused, retracted, added or removed meanwhile.       *)
THEOREM HoldsAreKept == Spec => []HeldIsCooling
<1>1. Init => HeldIsCooling
  BY InitAligned, NumbersInSlots DEF Init, HeldIsCooling, Held, QuotaHeldAt, SlotSet
<1>2. Spec => [](Aligned /\ HeldIsCooling)
  BY <1>1, InitAligned, NextAligned, NextHeld, PTL DEF Spec
<1> QED
  BY <1>2, PTL

-----------------------------------------------------------------------------
(* What is filed under a slot is about the account in it.                  *)

LEMMA IdentitiesWithMatch ==
  ASSUME Aligned, IdentitiesMatch, NEW a \in Accounts, entries' = entries,
         identities' = IdentitiesWith(a)
  PROVE  IdentitiesMatch'
BY SlotOfMember DEF IdentitiesMatch, IdentitiesWith

LEMMA RemoveSlotAtMatch ==
  ASSUME Aligned, IdentitiesMatch, NEW i \in SlotSet, RemoveSlotAt(i)
  PROVE  IdentitiesMatch'
<1> DEFINE n == Len(entries)
           J(j) == IF j < i THEN j ELSE j + 1
<1>1. n \in Nat \ {0} /\ i \in 1..n /\ SlotSet = 1..n
  BY AlignedParts DEF SlotSet
<1>2. \A j \in 1..(n - 1) : entries'[j] = entries[J(j)]
  <2>1. \A j \in 1..(n - 1) : entries'[j] = IF j < i THEN entries[j] ELSE entries[j + 1]
    BY PlaceAfterRemoval DEF RemoveSlotAt
  <2> QED
    BY <2>1
<1>3. identities' = [j \in {k \in SlotSet \ {n} : J(k) \in DOMAIN identities} |->
                       identities[J(j)]]
  BY DEF RemoveSlotAt
<1> HIDE DEF n, J
<1>4. SlotSet \ {n} = 1..(n - 1)
  BY <1>1
<1> QED
  BY <1>2, <1>3, <1>4 DEF IdentitiesMatch

LEMMA NextMatch == Aligned /\ IdentitiesMatch /\ [Next]_vars => IdentitiesMatch'
<1> SUFFICES ASSUME Aligned, IdentitiesMatch, [Next]_vars PROVE IdentitiesMatch'
  OBVIOUS
<1>1. CASE UNCHANGED <<entries, identities>>
  BY <1>1 DEF IdentitiesMatch
<1>2. ASSUME NEW f \in Fetchers, FetchAnswers(f) PROVE IdentitiesMatch'
  BY <1>2, FetcherHoldsAccount, IdentitiesWithMatch DEF FetchAnswers
<1>3. ASSUME NEW a \in Accounts, Remember(a) PROVE IdentitiesMatch'
  BY <1>3, IdentitiesWithMatch DEF Remember
<1>4. ASSUME NEW a \in Accounts, AddAccount(a) PROVE IdentitiesMatch'
  <2>1. entries' = Append(entries, a) /\ identities' = identities
    BY <1>4 DEF AddAccount
  <2>2. \A i \in SlotSet : entries'[i] = entries[i]
    BY <2>1 DEF SlotSet, Aligned, TypeOK
  <2> QED
    BY <2>1, <2>2 DEF IdentitiesMatch, Aligned, SlotsAligned
<1>5. ASSUME NEW i \in SlotSet, RemoveIndex(i) PROVE IdentitiesMatch'
  BY <1>5, RemoveSlotAtMatch DEF RemoveIndex
<1>6. ASSUME NEW a \in Accounts, RemoveCredential(a) PROVE IdentitiesMatch'
  BY <1>6, SlotOfMember, RemoveSlotAtMatch DEF RemoveCredential
<1>7. CASE Tick \/ UNCHANGED vars
  BY <1>1, <1>7 DEF Tick, vars, slots
<1>8. ASSUME NEW r \in Requests, RequestStep(r) PROVE IdentitiesMatch'
  BY <1>1, <1>8 DEF RequestStep, NextCredential, Report, RefreshQuota
<1>9. ASSUME NEW f \in Fetchers, FetcherStep(f), ~FetchAnswers(f) PROVE IdentitiesMatch'
  BY <1>1, <1>9 DEF FetcherStep, FetchFails, QuotaNotEmpty, QuotaEmpty, ApplyQuota,
     ReleaseBusy, slots
<1>10. ASSUME NEW a \in Accounts, NEW at \in RecentPast, ClearCooldown(a, at)
       PROVE  IdentitiesMatch'
  BY <1>1, <1>10 DEF ClearCooldown
<1> QED
  BY <1>2, <1>3, <1>4, <1>5, <1>6, <1>7, <1>8, <1>9, <1>10 DEF Next

(* A status that was asked for an account is never shown for another one,  *)
(* however the slots moved while the call was out.                         *)
THEOREM IdentitiesStay == Spec => []IdentitiesMatch
<1>1. Init => IdentitiesMatch
  BY DEF Init, IdentitiesMatch
<1>2. Spec => [](Aligned /\ IdentitiesMatch)
  BY <1>1, InitAligned, NextAligned, NextMatch, PTL DEF Spec
<1> QED
  BY <1>2, PTL

-----------------------------------------------------------------------------
(* The in-flight marks.  That a new account starts without a status call   *)
(* needs to know that nobody waits for an account that was never pooled.   *)

EverPooled ==
  \A f \in Fetchers : fetcher[f].stage # "idle" => poolIndex[fetcher[f].creds] # 0

Asking(a) == \E f \in Fetchers : fetcher[f].stage # "idle" /\ fetcher[f].creds = a

Marked == BusyIsFetching /\ EverPooled

LEMMA SameFetchersMarked ==
  ASSUME Aligned, Marked, UNCHANGED <<entries, poolIndex, busy, fetcher>>
  PROVE  Marked'
BY DEF Marked, BusyIsFetching, EverPooled, SlotSet

(* The call goes on, still about the same account.                         *)
LEMMA FetcherGoesOnMarked ==
  ASSUME Aligned, Marked, NEW f \in Fetchers, NEW s \in FetcherStates,
         fetcher[f].stage # "idle", s.stage # "idle", s.creds = fetcher[f].creds,
         fetcher' = [fetcher EXCEPT ![f] = s], UNCHANGED <<entries, poolIndex, busy>>
  PROVE  Marked'
<1>1. ASSUME NEW g \in Fetchers
      PROVE  /\ fetcher'[g].stage # "idle" <=> fetcher[g].stage # "idle"
             /\ fetcher[g].stage # "idle" => fetcher'[g].creds = fetcher[g].creds
  BY DEF Aligned, TypeOK
<1> QED
  BY <1>1 DEF Marked, BusyIsFetching, EverPooled, SlotSet

LEMMA RefreshQuotaMarked ==
  ASSUME Aligned, Marked, NEW r \in Requests, RefreshQuota(r)
  PROVE  Marked'
<1> DEFINE a == request[r].creds
           i == SlotOf(a)
<1>1. CASE UNCHANGED <<busy, fetcher>>
  BY <1>1, SameFetchersMarked DEF RefreshQuota
<1>2. ASSUME i # NoSlot, ~busy[i], busy' = [busy EXCEPT ![i] = TRUE],
             NEW f \in Fetchers, fetcher[f].stage = "idle",
             fetcher' = [fetcher EXCEPT ![f] = [stage |-> "asking", creds |-> a]]
      PROVE  Marked'
  <2>1. a \in Accounts /\ UNCHANGED <<entries, poolIndex>>
    BY RequestHoldsAccount DEF RefreshQuota
  <2>2. i \in SlotSet /\ entries[i] = a /\ \A j \in SlotSet : entries[j] = a => j = i
    BY <1>2, <2>1, SlotOfMember
  <2>3. poolIndex[a] # 0 /\ SlotSet' = SlotSet
    BY <2>1, <2>2, AlignedParts DEF Aligned, SlotsAligned, SlotSet
  <2>4. ~Asking(a)
    BY <1>2, <2>2 DEF Marked, BusyIsFetching, Asking
  <2> HIDE DEF a, i
  <2>5. fetcher'[f] = [stage |-> "asking", creds |-> a]
    BY <1>2 DEF Aligned, TypeOK
  <2>6. \A g \in Fetchers : g # f => fetcher'[g] = fetcher[g]
    BY <1>2 DEF Aligned, TypeOK
  <2>7. \A j \in SlotSet : busy'[j] = IF j = i THEN TRUE ELSE busy[j]
    BY <1>2, <2>2, SetMark
  <2>8. \A j \in SlotSet : Asking(entries[j])' <=> j = i \/ Asking(entries[j])
    BY <1>2, <2>1, <2>2, <2>5, <2>6 DEF Asking
  <2>9. \A j \in SlotSet : busy[j] <=> Asking(entries[j])
    BY DEF Marked, BusyIsFetching, Asking
  <2>10. \A j \in SlotSet' : busy'[j] <=> Asking(entries[j])'
    BY <2>3, <2>7, <2>8, <2>9
  <2>11. \A g, h \in Fetchers :
            fetcher'[g].stage # "idle" /\ fetcher'[h].stage # "idle"
               /\ fetcher'[g].creds = fetcher'[h].creds => g = h
    BY <1>2, <2>4, <2>5, <2>6 DEF Marked, BusyIsFetching, Asking
  <2>12. EverPooled'
    BY <2>1, <2>3, <2>5, <2>6 DEF Marked, EverPooled
  <2> QED
    BY <2>1, <2>10, <2>11, <2>12 DEF Marked, BusyIsFetching, Asking
<1> QED
  BY <1>1, <1>2 DEF RefreshQuota

LEMMA ReleaseBusyMarked ==
  ASSUME Aligned, Marked, NEW f \in Fetchers, ReleaseBusy(f)
  PROVE  Marked'
<1> DEFINE a == fetcher[f].creds
           i == SlotOf(a)
<1>1. /\ a \in Accounts /\ fetcher[f].stage # "idle"
      /\ UNCHANGED <<entries, poolIndex>>
      /\ busy' = IF i = NoSlot THEN busy ELSE [busy EXCEPT ![i] = FALSE]
      /\ fetcher' = [fetcher EXCEPT ![f] = [stage |-> "idle"]]
  BY FetcherHoldsAccount DEF ReleaseBusy
<1>2. /\ i # NoSlot => i \in SlotSet /\ entries[i] = a
      /\ \A j \in SlotSet : entries[j] = a => j = i
  BY <1>1, SlotOfMember
<1>3. SlotSet' = SlotSet /\ NoSlot \notin SlotSet
  BY <1>1, AlignedParts DEF SlotSet, NoSlot
<1>4. fetcher'[f] = [stage |-> "idle"] /\ \A g \in Fetchers : g # f => fetcher'[g] = fetcher[g]
  BY <1>1 DEF Aligned, TypeOK
<1>5. \A g \in Fetchers : g # f /\ fetcher[g].stage # "idle" => fetcher[g].creds # a
  BY <1>1 DEF Marked, BusyIsFetching
<1> HIDE DEF a, i
<1>6. \A j \in SlotSet : busy'[j] = IF j = i THEN FALSE ELSE busy[j]
  BY <1>1, <1>2, <1>3, SetMark
<1>7. \A j \in SlotSet : j = i <=> entries[j] = a
  BY <1>2, <1>3
<1>8. \A j \in SlotSet : Asking(entries[j])' <=> entries[j] # a /\ Asking(entries[j])
  BY <1>1, <1>4, <1>5 DEF Asking, a
<1>9. \A j \in SlotSet : busy[j] <=> Asking(entries[j])
  BY DEF Marked, BusyIsFetching, Asking
<1>10. \A j \in SlotSet' : busy'[j] <=> Asking(entries[j])'
  BY <1>3, <1>6, <1>7, <1>8, <1>9
<1>11. \A g, h \in Fetchers :
          fetcher'[g].stage # "idle" /\ fetcher'[h].stage # "idle"
             /\ fetcher'[g].creds = fetcher'[h].creds => g = h
  BY <1>4 DEF Marked, BusyIsFetching
<1>12. EverPooled'
  BY <1>1, <1>4 DEF Marked, EverPooled
<1> QED
  BY <1>1, <1>10, <1>11, <1>12 DEF Marked, BusyIsFetching, Asking

LEMMA AppendKeeps ==
  ASSUME NEW S, NEW list \in Seq(S), NEW x \in S
  PROVE  /\ \A i \in 1..Len(list) : Append(list, x)[i] = list[i]
         /\ Append(list, x)[Len(list) + 1] = x
BY AppendProperties

LEMMA AppendFalse ==
  ASSUME NEW flags \in Seq(BOOLEAN)
  PROVE  /\ \A i \in 1..Len(flags) : Append(flags, FALSE)[i] = flags[i]
         /\ Append(flags, FALSE)[Len(flags) + 1] = FALSE
<1>1. FALSE \in BOOLEAN
  OBVIOUS
<1>2. \A i \in 1..Len(flags) : Append(flags, FALSE)[i] = flags[i]
  BY <1>1, AppendKeeps, Zenon
<1>3. Append(flags, FALSE)[Len(flags) + 1] = FALSE
  BY <1>1, AppendKeeps, Zenon
<1> QED
  BY <1>2, <1>3

LEMMA AddAccountMarked ==
  ASSUME Aligned, Marked, NEW a \in Accounts, AddAccount(a)
  PROVE  Marked'
<1> DEFINE n == Len(entries)
<1>1. n \in Nat /\ SlotSet = 1..n /\ SlotSet' = 1..(n + 1)
  BY AlignedParts DEF AddAccount, SlotSet, Aligned, TypeOK
<1>2. /\ \A i \in 1..n : entries'[i] = entries[i] /\ busy'[i] = busy[i]
      /\ entries'[n + 1] = a /\ busy'[n + 1] = FALSE
  <2>1. \A i \in 1..n : entries'[i] = entries[i]
    BY <1>1 DEF AddAccount, Aligned, TypeOK
  <2>2. entries'[n + 1] = a
    BY <1>1 DEF AddAccount, Aligned, TypeOK
  <2>3. busy \in Seq(BOOLEAN) /\ Len(busy) = n /\ busy' = Append(busy, FALSE)
    BY DEF AddAccount, Aligned, TypeOK, SlotsAligned
  <2> HIDE DEF n
  <2>4. /\ \A i \in 1..n : busy'[i] = busy[i]
        /\ busy'[n + 1] = FALSE
    BY <2>3, AppendFalse, Zenon
  <2> QED
    BY <2>1, <2>2, <2>4
<1>3. /\ fetcher' = fetcher /\ poolIndex[a] = 0
      /\ poolIndex' = [poolIndex EXCEPT ![a] = n + 1]
  BY DEF AddAccount
<1> HIDE DEF n
<1>4. ~Asking(a)
  BY <1>3 DEF Marked, EverPooled, Asking
<1>5. \A i \in 1..n : busy[i] <=> Asking(entries[i])
  BY <1>1 DEF Marked, BusyIsFetching, Asking
<1>6. \A i \in SlotSet' : busy'[i] <=> Asking(entries'[i])
  <2> SUFFICES ASSUME NEW i \in SlotSet'
               PROVE  busy'[i] <=> Asking(entries'[i])
    OBVIOUS
  <2>1. i \in 1..n \/ i = n + 1
    BY <1>1
  <2>2. CASE i \in 1..n
    <3>1. busy'[i] = busy[i] /\ entries'[i] = entries[i]
      BY <2>2, <1>2
    <3> QED
      BY <3>1, <2>2, <1>5
  <2>3. CASE i = n + 1
    <3>1. ~busy'[i] /\ entries'[i] = a
      BY <2>3, <1>2
    <3> QED
      BY <3>1, <1>4
  <2> QED
    BY <2>1, <2>2, <2>3
<1>7. EverPooled'
  BY <1>1, <1>3, FetcherHoldsAccount DEF Marked, EverPooled, Aligned, TypeOK
<1> QED
  BY <1>3, <1>6, <1>7 DEF Marked, BusyIsFetching, Asking

LEMMA RemoveSlotAtMarked ==
  ASSUME Aligned, Marked, NEW i \in SlotSet, RemoveSlotAt(i), fetcher' = fetcher
  PROVE  Marked'
<1> DEFINE n == Len(entries)
           J(j) == IF j < i THEN j ELSE j + 1
           rest == RemoveAt(entries, i)
<1>1. n \in Nat \ {0} /\ i \in 1..n /\ SlotSet = 1..n
  BY AlignedParts DEF SlotSet
<1>2. /\ entries' = rest /\ Len(rest) = n - 1
      /\ \A j \in 1..(n - 1) : entries'[j] = IF j < i THEN entries[j] ELSE entries[j + 1]
  BY PlaceAfterRemoval DEF RemoveSlotAt
<1>3. \A j \in 1..(n - 1) : busy'[j] = IF j < i THEN busy[j] ELSE busy[j + 1]
  <2>1. busy \in Seq(BOOLEAN) /\ Len(busy) = n /\ busy' = RemoveAt(busy, i)
    BY DEF RemoveSlotAt, Aligned, TypeOK, SlotsAligned
  <2> HIDE DEF n
  <2> QED
    BY <1>1, <2>1, RemoveAtProperties
<1>4. poolIndex' = [a \in Accounts |-> PlaceIn(rest, a, poolIndex[a])]
  BY DEF RemoveSlotAt
<1>5. SlotSet' = 1..(n - 1)
  BY <1>2 DEF SlotSet
<1> HIDE DEF n, rest
<1>6. \A j \in 1..(n - 1) : J(j) \in 1..n /\ entries'[j] = entries[J(j)] /\ busy'[j] = busy[J(j)]
  BY <1>1, <1>2, <1>3
<1> HIDE DEF J
<1>7. \A j \in SlotSet : busy[j] <=> Asking(entries[j])
  BY DEF Marked, BusyIsFetching, Asking
<1>8. \A j \in SlotSet' : busy'[j] <=> Asking(entries'[j])
  BY <1>1, <1>5, <1>6, <1>7
<1>9. EverPooled'
  <2>1. ASSUME NEW a \in Accounts, poolIndex[a] # 0 PROVE poolIndex'[a] # 0
    <3>1. Len(rest) \in Nat
      BY <1>1, <1>2
    <3>2. PlaceIn(rest, a, poolIndex[a]) # 0
      BY <2>1, <3>1 DEF PlaceIn
    <3> QED
      BY <1>4, <3>2
  <2> QED
    BY <2>1, FetcherHoldsAccount DEF Marked, EverPooled
<1> QED
  BY <1>8, <1>9 DEF Marked, BusyIsFetching, Asking

LEMMA NextMarked == Aligned /\ Marked /\ [Next]_vars => Marked'
<1> SUFFICES ASSUME Aligned, Marked, [Next]_vars PROVE Marked'
  OBVIOUS
<1>1. CASE Tick \/ UNCHANGED vars
  BY <1>1, SameFetchersMarked DEF Tick, vars, slots
<1>2. ASSUME NEW r \in Requests, RequestStep(r) PROVE Marked'
  <2>1. CASE RefreshQuota(r)
    BY <2>1, RefreshQuotaMarked
  <2>2. CASE ~RefreshQuota(r)
    <3>1. UNCHANGED <<entries, poolIndex, busy, fetcher>>
      BY <1>2, <2>2 DEF RequestStep, NextCredential, Report
    <3> QED
      BY <3>1, SameFetchersMarked
  <2> QED
    BY <2>1, <2>2
<1>3. ASSUME NEW f \in Fetchers, FetcherStep(f) PROVE Marked'
  <2>1. ASSUME NEW stage \in {"answered", "releasing"}, fetcher[f].stage # "idle",
               FetcherMoves(f, stage), UNCHANGED <<entries, poolIndex, busy>>
        PROVE  Marked'
    <3> DEFINE s == [stage |-> stage, creds |-> fetcher[f].creds]
    <3>1. s \in FetcherStates /\ s.stage # "idle" /\ s.creds = fetcher[f].creds
      BY <2>1, FetcherHoldsAccount DEF FetcherStates
    <3>2. fetcher' = [fetcher EXCEPT ![f] = s]
      BY <2>1 DEF FetcherMoves
    <3> HIDE DEF s
    <3> QED
      BY <2>1, <3>1, <3>2, FetcherGoesOnMarked
  <2>2. ASSUME NEW delay \in ResetDelays, QuotaEmpty(f, delay) PROVE Marked'
    <3>1. /\ Aligned' /\ fetcher[f].stage # "idle"
          /\ UNCHANGED <<entries, poolIndex, busy>>
      BY <2>2, QuotaEmptyAligned DEF QuotaEmpty, slots
    <3>2. /\ fetcher'[f].stage # "idle" /\ fetcher'[f].creds = fetcher[f].creds
          /\ fetcher' = [fetcher EXCEPT ![f] = fetcher'[f]]
      BY <2>2 DEF QuotaEmpty, Aligned, TypeOK
    <3>3. fetcher'[f] \in FetcherStates
      BY <3>1 DEF Aligned, TypeOK
    <3> QED
      BY <3>1, <3>2, <3>3, FetcherGoesOnMarked
  <2>3. CASE FetchFails(f) \/ FetchAnswers(f) \/ QuotaNotEmpty(f) \/ ApplyQuota(f)
    BY <2>1, <2>3 DEF FetchFails, FetchAnswers, QuotaNotEmpty, ApplyQuota, slots
  <2> QED
    BY <1>3, <2>2, <2>3, ReleaseBusyMarked DEF FetcherStep
<1>4. ASSUME NEW a \in Accounts, AddAccount(a) PROVE Marked'
  BY <1>4, AddAccountMarked
<1>5. ASSUME NEW i \in SlotSet, RemoveIndex(i) PROVE Marked'
  BY <1>5, RemoveSlotAtMarked DEF RemoveIndex
<1>6. ASSUME NEW a \in Accounts, RemoveCredential(a) PROVE Marked'
  BY <1>6, SlotOfMember, RemoveSlotAtMarked DEF RemoveCredential
<1>7. ASSUME NEW a \in Accounts, Remember(a) PROVE Marked'
  BY <1>7, SameFetchersMarked DEF Remember
<1>8. ASSUME NEW a \in Accounts, NEW at \in RecentPast, ClearCooldown(a, at) PROVE Marked'
  BY <1>8, SameFetchersMarked DEF ClearCooldown
<1> QED
  BY <1>1, <1>2, <1>3, <1>4, <1>5, <1>6, <1>7, <1>8 DEF Next

(* An account is asked about its quota by one status call at a time, and   *)
(* the mark that says so follows the account, not the slot.                *)
THEOREM MarksFollowAccounts == Spec => []BusyIsFetching
<1>1. Init => Marked
  BY InitAligned DEF Init, Marked, BusyIsFetching, EverPooled, SlotSet
<1>2. Spec => [](Aligned /\ Marked)
  BY <1>1, InitAligned, NextAligned, NextMarked, PTL DEF Spec
<1>3. Marked => BusyIsFetching
  BY DEF Marked
<1> QED
  BY <1>2, <1>3, PTL

-----------------------------------------------------------------------------
(* No cooldown is cut short without cause.                                 *)

LEMMA MembersAreFound ==
  ASSUME Aligned, NEW a \in Members
  PROVE  a \in Accounts /\ SlotOf(a) \in SlotSet /\ entries[SlotOf(a)] = a
BY AlignedParts, SlotOfMember DEF Members

(* An account that keeps its slot keeps its deadline.                      *)
LEMMA SameCoolingKept ==
  ASSUME Aligned, UNCHANGED <<entries, poolIndex, rot.cooling>>
  PROVE  CutShortOnlyIfAllowed
<1> SUFFICES ASSUME NEW a \in Members, CoolUntil(a)' < CoolUntil(a) PROVE FALSE
  BY DEF CutShortOnlyIfAllowed
<1>1. SlotOf(a)' = SlotOf(a)
  BY DEF SlotOf, SlotSet
<1>2. CoolUntil(a)' = CoolUntil(a) /\ CoolUntil(a) \in Int
  BY <1>1, MembersAreFound, NumbersInSlots DEF CoolUntil
<1> QED
  BY <1>2

LEMMA ReportKept ==
  ASSUME Aligned, NEW r \in Requests, NEW err \in Errors \cup {Served}, Report(r, err)
  PROVE  CutShortOnlyIfAllowed
<1> DEFINE i == SlotOf(request[r].creds)
           cool == CoolPeriod(err)
           cooled == CoolOff(rot, i, now + cool)
           n == Len(entries)
           spared == SlotSet \ Held
           soon == now + CoolRateLimited
<1>1. UNCHANGED <<now, entries, poolIndex>>
  BY DEF Report
<1>2. CASE rot' = rot
  BY <1>1, <1>2, SameCoolingKept
<1>3. CASE cool # 0 /\ i # NoSlot /\ rot' = AfterRefusal(i, cool)
  <2>1. i \in SlotSet /\ SlotSet = 1..n /\ n \in Nat
    BY <1>3, RequestHoldsAccount, SlotOfMember, AlignedParts DEF Report, SlotSet
  <2>2. cool \in {CoolRejected, CoolRateLimited}
    BY <1>3, CoolPeriods
  <2>3. /\ now + cool \in Deadlines /\ soon \in Deadlines /\ soon > now
        /\ Deadlines \in SUBSET Nat
    BY <2>2, DeadlinesAreNatural, NumbersInSlots, PoolAssumption
       DEF Aligned, TypeOK, PoolAssumption
  <2>4. Sound(rot, n, Deadlines)
    BY AlignedParts
  <2>5. rot' = IF Systemic(i, cool, cooled) THEN ClampCooling(cooled, spared, soon) ELSE cooled
    BY <1>3 DEF AfterRefusal
  <2>6. /\ Systemic(i, cool, cooled) => n > 1 /\ WarmSlots(cooled, now) = {}
        /\ \A j \in spared : j \notin Held
    BY DEF Systemic
  <2> HIDE DEF i, cool, n, soon
  <2>7. Sound(cooled, n, Deadlines) /\ OnlyPushes(rot, cooled, n, i, now + cool)
    <3> DEFINE d == now + cool
    <3>1. i \in 1..n /\ n \in Nat /\ d \in Deadlines /\ Deadlines \in SUBSET Nat
      BY <2>1, <2>3
    <3> HIDE DEF d
    <3>2. Sound(CoolOff(rot, i, d), n, Deadlines) /\ OnlyPushes(rot, CoolOff(rot, i, d), n, i, d)
      BY <2>4, <3>1, CoolOffSound
    <3> QED
      BY <3>2 DEF d
  <2> HIDE DEF cooled
  <2>8. ASSUME NEW j \in SlotSet PROVE rot.cooling[j] <= cooled.cooling[j]
    <3>1. rot.cooling[j] \in Int /\ now + cool \in Int
      BY <2>3, NumbersInSlots
    <3> QED
      BY <2>1, <2>7, <3>1 DEF OnlyPushes
  <2>9. \A j \in SlotSet : cooled.cooling[j] \in Int
    <3>1. cooled.cooling \in Seq(Deadlines) /\ Len(cooled.cooling) = n
      BY <2>7 DEF Sound
    <3>2. \A j \in SlotSet : cooled.cooling[j] \in Deadlines
      BY <2>1, <3>1, ElementOfSeq
    <3> QED
      BY <3>2, NumbersInSlots
  <2> HIDE DEF spared
  <2>10. SUFFICES ASSUME NEW a \in Members, CoolUntil(a)' < CoolUntil(a)
                  PROVE  /\ CoolUntil(a)' = soon
                         /\ SlotOf(a) \notin Held
                         /\ n > 1
                         /\ WarmSlots(rot', now) = {}
    BY DEF CutShortOnlyIfAllowed, soon, n
  <2>11. SlotOf(a)' = SlotOf(a) /\ SlotOf(a) \in SlotSet
    BY <1>1, MembersAreFound DEF SlotOf, SlotSet
  <2>12. rot'.cooling[SlotOf(a)] < rot.cooling[SlotOf(a)]
    BY <2>10, <2>11 DEF CoolUntil
  <2>13. Systemic(i, cool, cooled)
    BY <2>5, <2>8, <2>9, <2>11, <2>12, NumbersInSlots
  <2>14. /\ Sound(rot', n, Deadlines)
         /\ OnlyPullsIn(cooled, rot', n, spared, soon)
    BY <2>1, <2>3, <2>5, <2>7, <2>13, ClampCoolingSound
  <2>15. rot'.cooling[SlotOf(a)] = soon /\ SlotOf(a) \in spared
    BY <2>1, <2>8, <2>9, <2>11, <2>12, <2>14, NumbersInSlots DEF OnlyPullsIn
  <2>16. \A j \in SlotSet : now < cooled.cooling[j]
    <3>1. Slots(cooled) = SlotSet
      BY <2>1, <2>7 DEF Slots, Sound
    <3> QED
      BY <2>6, <2>13, <3>1 DEF WarmSlots, IsCooling
  <2>17. Slots(rot') = SlotSet
    BY <2>1, <2>14 DEF Slots, Sound
  <2>18. \A j \in SlotSet : now < rot'.cooling[j]
    BY <2>1, <2>3, <2>14, <2>16 DEF OnlyPullsIn
  <2>19. WarmSlots(rot', now) = {}
    BY <2>17, <2>18 DEF WarmSlots, IsCooling
  <2> QED
    BY <2>6, <2>11, <2>13, <2>15, <2>19 DEF CoolUntil
<1> QED
  BY <1>2, <1>3 DEF Report

LEMMA ApplyQuotaKept ==
  ASSUME Aligned, NEW f \in Fetchers, ApplyQuota(f)
  PROVE  CutShortOnlyIfAllowed
<1> DEFINE i == SlotOf(fetcher[f].creds)
           until == fetcher[f].until
           n == Len(entries)
<1>1. UNCHANGED <<now, entries, poolIndex>>
  BY DEF ApplyQuota
<1>2. CASE UNCHANGED <<rot, quotaCoolUntil>>
  BY <1>1, <1>2, SameCoolingKept
<1>3. CASE i \in Slots(rot) /\ until > rot.cooling[i] /\ rot' = SetCooling(rot, i, until)
  <2>1. i \in SlotSet /\ SlotSet = 1..n /\ n \in Nat /\ until \in Deadlines
    BY <1>3, ApplyingState, AlignedParts DEF ApplyQuota, Slots, SlotSet, Aligned, SlotsAligned
  <2>2. Sound(rot, n, Deadlines) /\ Deadlines \in SUBSET Nat /\ i \in 1..n
    BY <2>1, AlignedParts, DeadlinesAreNatural
  <2> HIDE DEF i, until, n
  <2>3. OnlySets(rot, SetCooling(rot, i, until), n, i, until)
    <3>1. /\ Sound(SetCooling(rot, i, until), n, Deadlines)
          /\ OnlySets(rot, SetCooling(rot, i, until), n, i, until)
      BY <2>1, <2>2, SetCoolingSound
    <3> QED
      BY <3>1
  <2>4. SUFFICES ASSUME NEW a \in Members, CoolUntil(a)' < CoolUntil(a) PROVE FALSE
    BY DEF CutShortOnlyIfAllowed
  <2>5. SlotOf(a)' = SlotOf(a) /\ SlotOf(a) \in SlotSet
    BY <1>1, MembersAreFound DEF SlotOf, SlotSet
  <2>6. rot'.cooling[SlotOf(a)] < rot.cooling[SlotOf(a)]
    BY <2>4, <2>5 DEF CoolUntil
  <2> QED
    BY <1>3, <2>1, <2>2, <2>3, <2>5, <2>6, NumbersInSlots DEF OnlySets
<1> QED
  BY <1>2, <1>3 DEF ApplyQuota, CanExtend

LEMMA ClearCooldownKept ==
  ASSUME Aligned, NEW b \in Accounts, NEW at \in RecentPast, ClearCooldown(b, at)
  PROVE  CutShortOnlyIfAllowed
<1>1. UNCHANGED <<now, entries, poolIndex>>
  BY DEF ClearCooldown
<1>2. CASE SlotOf(b) = NoSlot
  BY <1>1, <1>2, SameCoolingKept DEF ClearCooldown
<1>3. CASE SlotOf(b) # NoSlot
  <2>1. SUFFICES ASSUME NEW a \in Members, CoolUntil(a)' < CoolUntil(a), a # b PROVE FALSE
    BY DEF CutShortOnlyIfAllowed
  <2>2. /\ SlotOf(a)' = SlotOf(a) /\ SlotOf(a) \in SlotSet
        /\ entries[SlotOf(a)] = a /\ entries[SlotOf(b)] = b
    BY <1>1, <1>3, MembersAreFound, SlotOfMember DEF SlotOf, SlotSet
  <2>3. rot'.cooling[SlotOf(a)] = rot.cooling[SlotOf(a)]
    BY <1>3, <2>1, <2>2, ClearCooldownSound
  <2> QED
    BY <2>1, <2>2, <2>3, NumbersInSlots DEF CoolUntil
<1> QED
  BY <1>2, <1>3

(* An addition disturbs no deadline.                                       *)
LEMMA AdditionKeepsCooling ==
  ASSUME Aligned, Aligned', NEW b \in Accounts, AddAccount(b), NEW a \in Members
  PROVE  CoolUntil(a)' = CoolUntil(a)
<1> DEFINE n == Len(entries)
<1>1. n \in Nat /\ SlotSet = 1..n /\ SlotSet' = 1..(n + 1)
  BY AlignedParts DEF AddAccount, SlotSet, Aligned, TypeOK
<1>2. \A i \in 1..n : entries'[i] = entries[i]
  BY <1>1 DEF AddAccount, Aligned, TypeOK
<1>3. /\ Deadlines \in SUBSET Nat /\ 0 \in Deadlines
      /\ Sound(rot, n, Deadlines) /\ rot' = AppendSlot(rot)
  BY AlignedParts, DeadlinesAreNatural DEF AddAccount
<1> HIDE DEF n
<1>4. \A i \in 1..n : rot'.cooling[i] = rot.cooling[i]
  BY <1>1, <1>3, AppendSlotSound
<1>5. \A i \in SlotSet' : entries'[i] = a => SlotOf(a)' = i
  BY DEF Aligned, SlotsAligned, SlotOf
<1>6. SlotOf(a) \in 1..n /\ SlotOf(a)' = SlotOf(a)
  BY <1>1, <1>2, <1>5, MembersAreFound
<1> QED
  BY <1>1, <1>4, <1>6 DEF CoolUntil

LEMMA AddAccountKept ==
  ASSUME Aligned, Aligned', NEW b \in Accounts, AddAccount(b)
  PROVE  CutShortOnlyIfAllowed
<1> SUFFICES ASSUME NEW a \in Members, CoolUntil(a)' < CoolUntil(a) PROVE FALSE
  BY DEF CutShortOnlyIfAllowed
<1>1. CoolUntil(a)' = CoolUntil(a)
  BY AdditionKeepsCooling
<1>2. CoolUntil(a) \in Int
  BY MembersAreFound, NumbersInSlots DEF CoolUntil
<1> QED
  BY <1>1, <1>2

(* A removal takes no deadline from one account to another.                *)
LEMMA RemovalKeepsCooling ==
  ASSUME Aligned, Aligned', NEW i \in SlotSet, RemoveSlotAt(i), NEW a \in Members'
  PROVE  a \in Members /\ CoolUntil(a)' = CoolUntil(a)
<1> DEFINE n == Len(entries)
           J(j) == IF j < i THEN j ELSE j + 1
<1>1. n \in Nat \ {0} /\ i \in 1..n /\ SlotSet = 1..n
  BY AlignedParts DEF SlotSet
<1>2. /\ SlotSet' = 1..(n - 1)
      /\ \A j \in 1..(n - 1) : entries'[j] = IF j < i THEN entries[j] ELSE entries[j + 1]
  BY <1>1, PlaceAfterRemoval DEF RemoveSlotAt, SlotSet
<1>3. \A j \in 1..(n - 1) :
         rot'.cooling[j] = IF j < i THEN rot.cooling[j] ELSE rot.cooling[j + 1]
  BY ZenonT(40), <1>1, AlignedParts, DeadlinesAreNatural, RemoveSlotSound DEF RemoveSlotAt
<1> HIDE DEF n
<1>4. PICK j \in 1..(n - 1) : entries'[j] = a
  BY <1>2 DEF Members
<1>5. SlotOf(a)' = j
  BY <1>2, <1>4 DEF Aligned, SlotsAligned, SlotOf
<1>6. J(j) \in SlotSet /\ entries[J(j)] = a /\ rot'.cooling[j] = rot.cooling[J(j)]
  BY <1>1, <1>2, <1>3, <1>4
<1> HIDE DEF J
<1>7. a \in Members
  BY <1>6 DEF Members
<1>8. SlotOf(a) = J(j)
  BY <1>6, <1>7, MembersAreFound, SlotOfMember
<1> QED
  BY <1>5, <1>6, <1>7, <1>8 DEF CoolUntil

LEMMA RemoveSlotAtKept ==
  ASSUME Aligned, Aligned', NEW i \in SlotSet, RemoveSlotAt(i)
  PROVE  CutShortOnlyIfAllowed
<1> SUFFICES ASSUME NEW a \in Members, a \in Members', CoolUntil(a)' < CoolUntil(a)
             PROVE  FALSE
  BY DEF CutShortOnlyIfAllowed
<1>1. CoolUntil(a)' = CoolUntil(a)
  BY RemovalKeepsCooling
<1>2. CoolUntil(a) \in Int
  BY MembersAreFound, NumbersInSlots DEF CoolUntil
<1> QED
  BY <1>1, <1>2

LEMMA NextKept == Aligned /\ Aligned' /\ [Next]_vars => [CutShortOnlyIfAllowed]_vars
<1> SUFFICES ASSUME Aligned, Aligned', Next PROVE CutShortOnlyIfAllowed
  OBVIOUS
<1>1. CASE Tick
  BY <1>1, SameCoolingKept DEF Tick, slots
<1>2. ASSUME NEW r \in Requests, RequestStep(r) PROVE CutShortOnlyIfAllowed
  <2>1. CASE NextCredential(r)
    <3>1. UNCHANGED <<entries, poolIndex>> /\ rot' = Advance(rot, Picked(rot, now))
      BY <2>1 DEF NextCredential
    <3>2. rot'.cooling = rot.cooling
      BY <3>1, CursorUpdate DEF Advance, Aligned, TypeOK
    <3> QED
      BY <3>1, <3>2, SameCoolingKept
  <2>2. CASE RefreshQuota(r)
    BY <2>2, SameCoolingKept DEF RefreshQuota
  <2> QED
    BY <1>2, <2>1, <2>2, ReportKept DEF RequestStep
<1>3. ASSUME NEW f \in Fetchers, FetcherStep(f) PROVE CutShortOnlyIfAllowed
  <2>1. CASE ApplyQuota(f)
    BY <2>1, ApplyQuotaKept
  <2>2. CASE ~ApplyQuota(f)
    <3>1. UNCHANGED <<entries, poolIndex, rot>>
      BY <1>3, <2>2 DEF FetcherStep, FetchFails, FetchAnswers, QuotaNotEmpty, QuotaEmpty,
         ReleaseBusy, slots
    <3> QED
      BY <3>1, SameCoolingKept
  <2> QED
    BY <2>1, <2>2
<1>4. ASSUME NEW a \in Accounts, AddAccount(a) PROVE CutShortOnlyIfAllowed
  BY <1>4, AddAccountKept
<1>5. ASSUME NEW i \in SlotSet, RemoveIndex(i) PROVE CutShortOnlyIfAllowed
  BY <1>5, RemoveSlotAtKept DEF RemoveIndex
<1>6. ASSUME NEW a \in Accounts, RemoveCredential(a) PROVE CutShortOnlyIfAllowed
  BY <1>6, SlotOfMember, RemoveSlotAtKept DEF RemoveCredential
<1>7. ASSUME NEW a \in Accounts, Remember(a) PROVE CutShortOnlyIfAllowed
  BY <1>7, SameCoolingKept DEF Remember
<1>8. ASSUME NEW a \in Accounts, NEW at \in RecentPast, ClearCooldown(a, at)
      PROVE  CutShortOnlyIfAllowed
  BY <1>8, ClearCooldownKept
<1> QED
  BY <1>1, <1>2, <1>3, <1>4, <1>5, <1>6, <1>7, <1>8 DEF Next

(* A running cooldown ends early only for an account a probe has just seen *)
(* working, or when the pool retracts a refusal of everybody.              *)
THEOREM CooldownsRun == Spec => CooldownCutShort
<1>1. Spec => []Aligned
  BY InitAligned, NextAligned, PTL DEF Spec
<1> QED
  BY <1>1, NextKept, PTL DEF Spec, CooldownCutShort

-----------------------------------------------------------------------------
(* A working account stays in rotation until it is refused itself.         *)

(* A step that leaves every deadline, or lifts it, benches nobody.         *)
LEMMA NoLaterServes ==
  ASSUME Aligned,
         \A a \in Members : a \in Members' => CoolUntil(a)' \in {0, CoolUntil(a)}
  PROVE  BenchedOnlyIfRefused
<1> SUFFICES ASSUME NEW a \in Members, a \in Members',
                    ~IsCooling(rot, SlotOf(a), now), now < CoolUntil(a)'
             PROVE  FALSE
  BY DEF BenchedOnlyIfRefused
<1>1. ~(now < CoolUntil(a)) /\ now \in Nat
  BY NumbersInSlots DEF IsCooling, CoolUntil
<1> QED
  BY <1>1

LEMMA SameCoolingServes ==
  ASSUME Aligned, UNCHANGED <<entries, poolIndex, rot.cooling>>
  PROVE  BenchedOnlyIfRefused
<1>1. \A a : CoolUntil(a)' = CoolUntil(a)
  BY DEF CoolUntil, SlotOf, SlotSet
<1> QED
  BY <1>1, NoLaterServes

(* Only a refusal of the account has a period to cool for.                 *)
LEMMA PeriodsAreRefusals ==
  ASSUME NEW err \in Errors \cup {Served}, CoolPeriod(err) # 0
  PROVE  err \in Errors /\ IsAccountRefusal(err)
<1>1. IsRejection(err) \/ IsRateLimit(err)
  BY DEF CoolPeriod
<1>2. RefusalStatus(err) \in {401, 403, 429}
  BY <1>1 DEF IsRejection, IsRateLimit
<1>3. err # Served
  BY <1>2 DEF RefusalStatus, Served
<1>4. CASE err \in HTTPErrors
  BY <1>2, <1>4 DEF HTTPErrors, Errors, RefusalStatus, IsAccountRefusal
<1>5. CASE err \in ConnectErrors
  BY <1>2, <1>5 DEF ConnectErrors, Errors, RefusalStatus, StatusFromConnectCode,
     IsAccountRefusal
<1>6. CASE err \in SilentErrors
  BY <1>2, <1>6 DEF SilentErrors, RefusalStatus
<1> QED
  BY <1>3, <1>4, <1>5, <1>6 DEF Errors

(* What a refusal of the account in slot i does to the deadlines of the    *)
(* others: it leaves them, or the retraction pulls them in.                *)
LEMMA OthersAreNotPushed ==
  ASSUME Aligned, NEW i \in SlotSet, NEW cool \in {CoolRejected, CoolRateLimited}
  PROVE  \A j \in SlotSet \ {i} : AfterRefusal(i, cool).cooling[j] <= rot.cooling[j]
<1> DEFINE n == Len(entries)
           d == now + cool
           soon == now + CoolRateLimited
           spared == SlotSet \ Held
           cooled == CoolOff(rot, i, d)
<1>1. /\ d \in Deadlines /\ soon \in Deadlines /\ Deadlines \in SUBSET Nat
      /\ n \in Nat /\ i \in 1..n /\ SlotSet = 1..n /\ Sound(rot, n, Deadlines)
  BY DeadlinesAreNatural, AlignedParts DEF Aligned, TypeOK, SlotSet
<1> HIDE DEF n, d, soon, spared
<1>2. Sound(cooled, n, Deadlines) /\ OnlyPushes(rot, cooled, n, i, d)
  BY <1>1, CoolOffSound
<1> HIDE DEF cooled
<1>3. OnlyPullsIn(cooled, ClampCooling(cooled, spared, soon), n, spared, soon)
  BY <1>1, <1>2, ClampCoolingSound
<1>4. ASSUME NEW j \in SlotSet \ {i}
      PROVE  /\ cooled.cooling[j] = rot.cooling[j]
             /\ ClampCooling(cooled, spared, soon).cooling[j] <= rot.cooling[j]
  <2>1. cooled.cooling[j] = rot.cooling[j]
    BY <1>1, <1>2 DEF OnlyPushes
  <2>2. ClampCooling(cooled, spared, soon).cooling[j] =
           IF j \in spared /\ soon < cooled.cooling[j] THEN soon ELSE cooled.cooling[j]
    BY <1>1, <1>3 DEF OnlyPullsIn
  <2>3. soon \in Int /\ rot.cooling[j] \in Int
    BY <1>1, NumbersInSlots
  <2> QED
    BY <2>1, <2>2, <2>3
<1>5. \A j \in SlotSet : rot.cooling[j] \in Int
  BY NumbersInSlots
<1> DEFINE after == IF Systemic(i, cool, cooled) THEN ClampCooling(cooled, spared, soon)
                                                ELSE cooled
<1>6. AfterRefusal(i, cool) = after
  BY DEF AfterRefusal, cooled, spared, soon, d
<1>7. ASSUME NEW j \in SlotSet \ {i} PROVE after.cooling[j] <= rot.cooling[j]
  BY <1>4, <1>5
<1> HIDE DEF after
<1> QED
  BY <1>6, <1>7

LEMMA ReportServes ==
  ASSUME Aligned, Aligned', NEW r \in Requests, NEW err \in Errors \cup {Served},
         Report(r, err)
  PROVE  BenchedOnlyIfRefused
<1> DEFINE i == SlotOf(request[r].creds)
           cool == CoolPeriod(err)
<1>1. UNCHANGED <<now, entries, poolIndex>>
  BY DEF Report
<1>2. CASE rot' = rot
  BY <1>1, <1>2, SameCoolingServes
<1>3. CASE cool # 0 /\ i # NoSlot /\ rot' = AfterRefusal(i, cool)
  <2>1. i \in SlotSet /\ entries[i] = request[r].creds
    BY <1>3, RequestHoldsAccount, SlotOfMember DEF Report
  <2>2. cool \in {CoolRejected, CoolRateLimited}
    BY <1>3, CoolPeriods
  <2>3. SUFFICES ASSUME NEW a \in Members, a \in Members',
                        ~IsCooling(rot, SlotOf(a), now), now < CoolUntil(a)',
                        a # request[r].creds
                 PROVE  FALSE
    <3>1. err \in Errors /\ IsAccountRefusal(err)
      BY <1>3, PeriodsAreRefusals
    <3> QED
      BY <3>1 DEF BenchedOnlyIfRefused
  <2>4. SlotOf(a)' = SlotOf(a) /\ SlotOf(a) \in SlotSet /\ SlotOf(a) # i
    BY <1>1, <2>1, <2>3, MembersAreFound DEF SlotOf, SlotSet
  <2> HIDE DEF i, cool
  <2>5. rot'.cooling[SlotOf(a)] <= rot.cooling[SlotOf(a)]
    BY <1>3, <2>1, <2>2, <2>4, OthersAreNotPushed
  <2>6. rot'.cooling[SlotOf(a)] \in Int
    <3>1. Sound(AfterRefusal(i, cool), Len(entries), Deadlines)
      BY <2>1, <2>2, AfterRefusalSound
    <3> QED
      BY <1>3, <2>4, <3>1, ElementOfSeq, NumbersInSlots DEF Sound, SlotSet
  <2> QED
    BY <2>3, <2>4, <2>5, <2>6, NumbersInSlots DEF CoolUntil, IsCooling
<1> QED
  BY <1>2, <1>3 DEF Report

LEMMA ApplyQuotaServes ==
  ASSUME Aligned, NEW f \in Fetchers, ApplyQuota(f)
  PROVE  BenchedOnlyIfRefused
<1> DEFINE i == SlotOf(fetcher[f].creds)
           until == fetcher[f].until
           n == Len(entries)
<1>1. UNCHANGED <<now, entries, poolIndex>>
  BY DEF ApplyQuota
<1>2. CASE UNCHANGED <<rot, quotaCoolUntil>>
  BY <1>1, <1>2, SameCoolingServes
<1>3. CASE i \in Slots(rot) /\ fetcher[f].at < rot.cooling[i] /\ rot' = SetCooling(rot, i, until)
  <2>1. i \in SlotSet /\ SlotSet = 1..n /\ n \in Nat /\ until \in Deadlines
    BY <1>3, ApplyingState, AlignedParts DEF ApplyQuota, Slots, SlotSet, Aligned, SlotsAligned
  <2>2. Sound(rot, n, Deadlines) /\ Deadlines \in SUBSET Nat /\ i \in 1..n
    BY <2>1, AlignedParts, DeadlinesAreNatural
  <2> HIDE DEF until, n
  <2>3. OnlySets(rot, SetCooling(rot, i, until), n, i, until)
    <3> HIDE DEF i
    <3>1. /\ Sound(SetCooling(rot, i, until), n, Deadlines)
          /\ OnlySets(rot, SetCooling(rot, i, until), n, i, until)
      BY <2>1, <2>2, SetCoolingSound
    <3> QED
      BY <3>1
  <2>4. SUFFICES ASSUME NEW a \in Members, a \in Members',
                        ~IsCooling(rot, SlotOf(a), now), now < CoolUntil(a)',
                        a # fetcher[f].creds
                 PROVE  FALSE
    BY <1>3 DEF BenchedOnlyIfRefused, CoolUntil
  <2>5. SlotOf(a)' = SlotOf(a) /\ SlotOf(a) \in SlotSet /\ entries[SlotOf(a)] = a
    BY <1>1, MembersAreFound DEF SlotOf, SlotSet
  <2>6. SlotOf(a) # i
    <3>1. fetcher[f].creds \in Accounts
      BY FetcherHoldsAccount DEF ApplyQuota
    <3> QED
      BY <2>1, <2>4, <2>5, <3>1, SlotOfMember DEF NoSlot
  <2> HIDE DEF i
  <2>7. rot'.cooling[SlotOf(a)] = rot.cooling[SlotOf(a)]
    BY <1>3, <2>1, <2>3, <2>5, <2>6 DEF OnlySets
  <2> QED
    BY <2>4, <2>5, <2>7 DEF CoolUntil, IsCooling
<1> QED
  BY <1>2, <1>3 DEF ApplyQuota, CanExtend, IsCooling

LEMMA ClearCooldownServes ==
  ASSUME Aligned, NEW b \in Accounts, NEW at \in RecentPast, ClearCooldown(b, at)
  PROVE  BenchedOnlyIfRefused
<1>1. UNCHANGED <<now, entries, poolIndex>>
  BY DEF ClearCooldown
<1>2. CASE SlotOf(b) = NoSlot
  BY <1>1, <1>2, SameCoolingServes DEF ClearCooldown
<1>3. CASE SlotOf(b) # NoSlot
  <2>1. ASSUME NEW a \in Members PROVE CoolUntil(a)' \in {0, CoolUntil(a)}
    <3>1. SlotOf(a)' = SlotOf(a) /\ SlotOf(a) \in SlotSet
      BY <1>1, MembersAreFound DEF SlotOf, SlotSet
    <3>2. rot'.cooling[SlotOf(a)] \in {0, rot.cooling[SlotOf(a)]}
      BY <1>3, <3>1, ClearCooldownSound DEF Lifted
    <3> QED
      BY <3>1, <3>2 DEF CoolUntil
  <2> QED
    BY <2>1, NoLaterServes
<1> QED
  BY <1>2, <1>3

LEMMA AddAccountServes ==
  ASSUME Aligned, Aligned', NEW b \in Accounts, AddAccount(b)
  PROVE  BenchedOnlyIfRefused
<1>1. \A a \in Members : CoolUntil(a)' = CoolUntil(a)
  BY AdditionKeepsCooling
<1> QED
  BY <1>1, NoLaterServes

LEMMA RemoveSlotAtServes ==
  ASSUME Aligned, Aligned', NEW i \in SlotSet, RemoveSlotAt(i)
  PROVE  BenchedOnlyIfRefused
<1>1. \A a \in Members' : CoolUntil(a)' = CoolUntil(a)
  BY RemovalKeepsCooling
<1> QED
  BY <1>1, NoLaterServes

LEMMA NextServes == Aligned /\ Aligned' /\ [Next]_vars => [BenchedOnlyIfRefused]_vars
<1> SUFFICES ASSUME Aligned, Aligned', Next PROVE BenchedOnlyIfRefused
  OBVIOUS
<1>1. CASE Tick
  BY <1>1, SameCoolingServes DEF Tick, slots
<1>2. ASSUME NEW r \in Requests, RequestStep(r) PROVE BenchedOnlyIfRefused
  <2>1. CASE NextCredential(r)
    <3>1. UNCHANGED <<entries, poolIndex>> /\ rot' = Advance(rot, Picked(rot, now))
      BY <2>1 DEF NextCredential
    <3>2. rot'.cooling = rot.cooling
      BY <3>1, CursorUpdate DEF Advance, Aligned, TypeOK
    <3> QED
      BY <3>1, <3>2, SameCoolingServes
  <2>2. CASE RefreshQuota(r)
    BY <2>2, SameCoolingServes DEF RefreshQuota
  <2> QED
    BY <1>2, <2>1, <2>2, ReportServes DEF RequestStep
<1>3. ASSUME NEW f \in Fetchers, FetcherStep(f) PROVE BenchedOnlyIfRefused
  <2>1. CASE ApplyQuota(f)
    BY <2>1, ApplyQuotaServes
  <2>2. CASE ~ApplyQuota(f)
    <3>1. UNCHANGED <<entries, poolIndex, rot>>
      BY <1>3, <2>2 DEF FetcherStep, FetchFails, FetchAnswers, QuotaNotEmpty, QuotaEmpty,
         ReleaseBusy, slots
    <3> QED
      BY <3>1, SameCoolingServes
  <2> QED
    BY <2>1, <2>2
<1>4. ASSUME NEW a \in Accounts, AddAccount(a) PROVE BenchedOnlyIfRefused
  BY <1>4, AddAccountServes
<1>5. ASSUME NEW i \in SlotSet, RemoveIndex(i) PROVE BenchedOnlyIfRefused
  BY <1>5, RemoveSlotAtServes DEF RemoveIndex
<1>6. ASSUME NEW a \in Accounts, RemoveCredential(a) PROVE BenchedOnlyIfRefused
  BY <1>6, SlotOfMember, RemoveSlotAtServes DEF RemoveCredential
<1>7. ASSUME NEW a \in Accounts, Remember(a) PROVE BenchedOnlyIfRefused
  BY <1>7, SameCoolingServes DEF Remember
<1>8. ASSUME NEW a \in Accounts, NEW at \in RecentPast, ClearCooldown(a, at)
      PROVE  BenchedOnlyIfRefused
  BY <1>8, ClearCooldownServes
<1> QED
  BY <1>1, <1>2, <1>3, <1>4, <1>5, <1>6, <1>7, <1>8 DEF Next

(* No account is taken out of rotation for what happened to another one,   *)
(* and none by quota evidence alone.                                       *)
THEOREM WorkersStay == Spec => WorkingAccountsServe
<1>1. Spec => []Aligned
  BY InitAligned, NextAligned, PTL DEF Spec
<1> QED
  BY <1>1, NextServes, PTL DEF Spec, WorkingAccountsServe
=============================================================================

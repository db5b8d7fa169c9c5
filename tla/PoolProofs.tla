----------------------------- MODULE PoolProofs -----------------------------
(***************************************************************************)
(* What the pool is to those who use it.                                   *)
(*                                                                         *)
(* The slot-indexed pool implements the registry, and its rotation is fair *)
(* to the accounts.  Both are proved for every set of accounts, every      *)
(* number of concurrent requests and status calls, and every setting of    *)
(* the cooldown periods that PoolAssumption allows.                        *)
(*                                                                         *)
(* What a refusal tells a client, proved for every number of requests that *)
(* walk the pool together, every pool and every length of the cooldowns.   *)
(* The argument counts.  Fresh(r) are the accounts whose cooldown ends     *)
(* before one that starts with the walk of r would.  A refusal takes an    *)
(* account out of it, and while nobody disturbs the walk none comes in; so *)
(* there are never more of them than the walk has tries left.              *)
(***************************************************************************)
EXTENDS AccountPoolRefinement, AccountTurns, Gateway, AccountPoolProofs, FiniteSetTheorems

(* A slot and the account in it say the same thing.                        *)
ReadThrough ==
  /\ \A a \in Members : /\ a \in Accounts
                        /\ SlotOf(a) \in SlotSet
                        /\ entries[SlotOf(a)] = a
                        /\ Registry!Place(a) = SlotOf(a)
                        /\ CoolsUntil[a] = rot.cooling[SlotOf(a)]
                        /\ HeldUntil[a] = quotaCoolUntil[SlotOf(a)]
  /\ \A a \in Accounts \ Members : /\ SlotOf(a) = NoSlot
                                   /\ CoolsUntil[a] = 0
                                   /\ HeldUntil[a] = 0
  /\ \A i \in SlotSet : entries[i] \in Members /\ SlotOf(entries[i]) = i

LEMMA AlignedReads == Aligned => ReadThrough
<1> SUFFICES ASSUME Aligned PROVE ReadThrough
  OBVIOUS
<1>1. ASSUME NEW a \in Members
      PROVE  /\ a \in Accounts /\ SlotOf(a) \in SlotSet /\ entries[SlotOf(a)] = a
             /\ SlotOf(a) # NoSlot
             /\ \A i \in SlotSet : entries[i] = a => i = SlotOf(a)
  BY MembersAreFound, SlotOfMember, AlignedParts DEF SlotSet, NoSlot
<1>2. ASSUME NEW a \in Members PROVE Registry!Place(a) = SlotOf(a)
  BY <1>1 DEF Registry!Place, SlotSet
<1>3. ASSUME NEW a \in Accounts \ Members PROVE SlotOf(a) = NoSlot
  BY SlotOfMember DEF Members
<1>4. \A i \in SlotSet : entries[i] \in Members /\ SlotOf(entries[i]) = i
  BY AlignedParts, SlotOfMember DEF Members
<1> QED
  BY <1>1, <1>2, <1>3, <1>4 DEF ReadThrough, CoolsUntil, HeldUntil, ByAccount

LEMMA PooledIsMembers ==
  ASSUME Aligned
  PROVE  Registry!Pooled = Members
<1>1. DOMAIN entries = SlotSet
  BY DEF Aligned, TypeOK, SlotSet
<1> QED
  BY <1>1 DEF Registry!Pooled, Registry!ToSet, Members

(* The clock, the accounts and the walk all stay.                          *)
LEMMA SameWalkTaken ==
  ASSUME UNCHANGED <<now, entries, lastRotation, rot.next>>
  PROVE  Registry!SameWalk
BY DEF Registry!SameWalk, UpNext, LastServed

(* What moves deadlines leaves the walk where it is.                       *)
LEMMA WalkStays ==
  ASSUME Aligned, NEW i, NEW d
  PROVE  SetCooling(rot, i, d).next = rot.next
BY CursorUpdate DEF SetCooling, Aligned, TypeOK

(* The accounts keep their seats.                                          *)
SameSeats == UNCHANGED <<entries, poolIndex>>

LEMMA SeatsKept ==
  ASSUME SameSeats
  PROVE  /\ SlotSet' = SlotSet /\ Members' = Members
         /\ \A a : SlotOf(a)' = SlotOf(a)
BY DEF SameSeats, SlotSet, Members, SlotOf

LEMMA SameDeadlinesRead ==
  ASSUME SameSeats
  PROVE  /\ UNCHANGED rot.cooling => UNCHANGED CoolsUntil
         /\ UNCHANGED quotaCoolUntil => UNCHANGED HeldUntil
BY SeatsKept DEF CoolsUntil, HeldUntil, ByAccount

LEMMA SameMarksRead ==
  ASSUME SameSeats
  PROVE  /\ UNCHANGED busy => UNCHANGED Asked
         /\ UNCHANGED identities => UNCHANGED OnFile
BY SeatsKept DEF Asked, OnFile, SameSeats

LEMMA SameFactsRead ==
  ASSUME UNCHANGED <<now, entries, poolIndex, rot, lastRotation, busy, quotaCoolUntil,
                     identities>>
  PROVE  UNCHANGED Registry!vars
<1>1. SameSeats /\ Registry!SameWalk
  BY SameWalkTaken DEF SameSeats
<1> QED
  BY <1>1, SameDeadlinesRead, SameMarksRead DEF Registry!vars, Registry!SameWalk

-----------------------------------------------------------------------------
(* Status calls: who is asked about, who is on file.                       *)

LEMMA RefreshQuotaAsks ==
  ASSUME Aligned, NEW r \in Requests, RefreshQuota(r)
  PROVE  Registry!Next \/ UNCHANGED Registry!vars
<1> DEFINE a == request[r].creds
           i == SlotOf(a)
<1>1. UNCHANGED <<now, entries, poolIndex, rot, lastRotation, quotaCoolUntil, identities>>
  BY DEF RefreshQuota
<1>2. CASE UNCHANGED busy
  BY <1>1, <1>2, SameFactsRead
<1>3. CASE i # NoSlot /\ ~busy[i] /\ busy' = [busy EXCEPT ![i] = TRUE]
  <2>1. a \in Accounts /\ i \in SlotSet /\ entries[i] = a
    BY <1>3, RequestHoldsAccount, SlotOfMember DEF RefreshQuota
  <2>2. \A j \in SlotSet : busy'[j] = IF j = i THEN TRUE ELSE busy[j]
    BY <1>3, <2>1, SetMark
  <2>3. ReadThrough /\ SameSeats /\ SlotSet' = SlotSet
    BY <1>1, AlignedReads, SeatsKept DEF SameSeats
  <2>4. a \notin Asked /\ a \in Members
    <3> HIDE DEF a
    <3>1. SlotOf(a) = i /\ ~busy[i]
      BY <1>3
    <3> HIDE DEF i
    <3>2. ASSUME a \in Asked PROVE FALSE
      <4>1. PICK j \in SlotSet : busy[j] /\ a = entries[j]
        BY <3>2 DEF Asked
      <4> QED
        BY <2>3, <3>1, <4>1 DEF ReadThrough
    <3> QED
      BY <2>1, <3>2 DEF Members
  <2> HIDE DEF a, i
  <2>5. Asked' = Asked \cup {a}
    BY <1>1, <2>1, <2>2, <2>3 DEF Asked
  <2>6. Registry!Ask(a)
    BY <1>1, <2>3, <2>4, <2>5, PooledIsMembers, SameWalkTaken, SameDeadlinesRead, SameMarksRead
       DEF Registry!Ask
  <2> QED
    BY <2>1, <2>6 DEF Registry!Next
<1> QED
  BY <1>2, <1>3 DEF RefreshQuota

LEMMA ReleaseBusyReleases ==
  ASSUME Aligned, NEW f \in Fetchers, ReleaseBusy(f)
  PROVE  Registry!Next \/ UNCHANGED Registry!vars
<1> DEFINE a == fetcher[f].creds
           i == SlotOf(a)
<1>1. UNCHANGED <<now, entries, poolIndex, rot, lastRotation, quotaCoolUntil, identities>>
  BY DEF ReleaseBusy
<1>2. CASE UNCHANGED busy
  BY <1>1, <1>2, SameFactsRead
<1>3. CASE i # NoSlot /\ busy' = [busy EXCEPT ![i] = FALSE]
  <2>1. a \in Accounts /\ i \in SlotSet /\ entries[i] = a
    BY <1>3, FetcherHoldsAccount, SlotOfMember DEF ReleaseBusy
  <2>2. \A j \in SlotSet : busy'[j] = IF j = i THEN FALSE ELSE busy[j]
    BY <1>3, <2>1, SetMark
  <2>3. ReadThrough /\ SameSeats /\ SlotSet' = SlotSet
    BY <1>1, AlignedReads, SeatsKept DEF SameSeats
  <2> DEFINE s == SlotOf(a)
  <2>4. \A j \in SlotSet : entries[j] = a <=> j = i
    BY <2>1, <2>3 DEF ReadThrough
  <2> HIDE DEF a, i
  <2>5. Asked' = Asked \ {a}
    BY <1>1, <2>1, <2>2, <2>3, <2>4 DEF Asked
  <2>6. Registry!Release(a)
    BY <1>1, <2>3, <2>5, SameWalkTaken, SameDeadlinesRead, SameMarksRead DEF Registry!Release
  <2> QED
    BY <2>1, <2>6 DEF Registry!Next
<1> QED
  BY <1>2, <1>3 DEF ReleaseBusy

LEMMA FilingLearns ==
  ASSUME Aligned, IdentitiesMatch, NEW a \in Accounts, identities' = IdentitiesWith(a),
         UNCHANGED <<now, entries, poolIndex, rot, lastRotation, busy, quotaCoolUntil>>
  PROVE  Registry!Next \/ UNCHANGED Registry!vars
<1>1. CASE SlotOf(a) = NoSlot
  BY <1>1, SameFactsRead DEF IdentitiesWith
<1>2. CASE SlotOf(a) # NoSlot
  <2>1. SlotOf(a) \in SlotSet /\ entries[SlotOf(a)] = a /\ a \in Members
    BY <1>2, SlotOfMember DEF Members
  <2>2. identities' = [i \in DOMAIN identities \cup {SlotOf(a)} |->
                         IF i = SlotOf(a) THEN a ELSE identities[i]]
    BY <1>2 DEF IdentitiesWith
  <2>3. SlotOf(a) \in DOMAIN identities => identities[SlotOf(a)] = a
    BY <2>1 DEF IdentitiesMatch
  <2>4. OnFile' = OnFile \cup {a}
    BY <2>2, <2>3 DEF OnFile
  <2>5. Registry!Learn(a)
    BY <2>1, <2>4, PooledIsMembers, SameWalkTaken, SameDeadlinesRead, SameMarksRead
       DEF Registry!Learn, SameSeats
  <2> QED
    BY <2>5 DEF Registry!Next
<1> QED
  BY <1>1, <1>2

-----------------------------------------------------------------------------
(* Deadlines: holding, lifting and refusing.                               *)

(* A hold ends no later than the longest quota hold from now.              *)
HoldsAreShort ==
  \A f \in Fetchers : fetcher[f].stage = "applying" => fetcher[f].until <= now + MaxQuotaCool

LEMMA HeldTimesPass ==
  ASSUME Aligned, Aligned', HoldsAreShort, now' >= now, NEW f \in Fetchers,
         NEW s \in FetcherStates, s.stage # "applying", fetcher' = [fetcher EXCEPT ![f] = s]
  PROVE  HoldsAreShort'
<1>1. ASSUME NEW g \in Fetchers, fetcher'[g].stage = "applying"
      PROVE  fetcher'[g] = fetcher[g]
  BY <1>1 DEF Aligned, TypeOK
<1>2. now \in Nat /\ now' \in Nat /\ MaxQuotaCool \in Nat
  BY PoolAssumption DEF PoolAssumption, Aligned, TypeOK
<1>3. \A g \in Fetchers : fetcher[g].stage = "applying" => fetcher[g].until \in Nat
  BY ApplyingState, DeadlinesAreNatural
<1> QED
  BY <1>1, <1>2, <1>3 DEF HoldsAreShort

LEMMA NextShort == Aligned /\ Aligned' /\ HoldsAreShort /\ [Next]_vars => HoldsAreShort'
<1> SUFFICES ASSUME Aligned, Aligned', HoldsAreShort, [Next]_vars PROVE HoldsAreShort'
  OBVIOUS
<1>1. now \in Nat /\ now' \in Nat /\ MaxQuotaCool \in Nat
  BY PoolAssumption DEF PoolAssumption, Aligned, TypeOK
<1>2. \A f \in Fetchers : fetcher[f].stage = "applying" => fetcher[f].until \in Nat
  BY ApplyingState, DeadlinesAreNatural
<1>3. CASE fetcher' = fetcher /\ now' >= now
  BY <1>1, <1>2, <1>3 DEF HoldsAreShort
<1>4. CASE Tick \/ UNCHANGED vars
  BY <1>1, <1>3, <1>4 DEF Tick, vars
<1>5. ASSUME NEW r \in Requests, RequestStep(r) PROVE HoldsAreShort'
  <2>1. now' = now
    BY <1>5 DEF RequestStep, NextCredential, Report, RefreshQuota
  <2>2. CASE fetcher' = fetcher
    BY <1>1, <1>3, <2>1, <2>2
  <2>3. ASSUME NEW f \in Fetchers, RefreshQuota(r),
               fetcher' = [fetcher EXCEPT ![f] = [stage |-> "asking", creds |-> request[r].creds]]
        PROVE  HoldsAreShort'
    <3> DEFINE s == [stage |-> "asking", creds |-> request[r].creds]
    <3>1. s \in FetcherStates /\ s.stage # "applying"
      BY <2>3, RequestHoldsAccount DEF RefreshQuota, FetcherStates
    <3>2. fetcher' = [fetcher EXCEPT ![f] = s] /\ now' >= now
      BY <1>1, <2>1, <2>3
    <3> HIDE DEF s
    <3> QED
      BY <3>1, <3>2, HeldTimesPass
  <2> QED
    BY <1>5, <2>2, <2>3 DEF RequestStep, NextCredential, Report, RefreshQuota
<1>6. ASSUME NEW f \in Fetchers, FetcherStep(f) PROVE HoldsAreShort'
  <2>1. now' = now
    BY <1>6 DEF FetcherStep, FetchFails, FetchAnswers, QuotaNotEmpty, QuotaEmpty, ApplyQuota,
       ReleaseBusy
  <2>2. ASSUME NEW stage \in {"asking", "answered", "releasing"}, fetcher[f].stage # "idle",
               FetcherMoves(f, stage)
        PROVE  HoldsAreShort'
    <3> DEFINE s == [stage |-> stage, creds |-> fetcher[f].creds]
    <3>1. s \in FetcherStates /\ s.stage # "applying"
      BY <2>2, FetcherHoldsAccount DEF FetcherStates
    <3>2. fetcher' = [fetcher EXCEPT ![f] = s] /\ now' >= now
      BY <1>1, <2>1, <2>2 DEF FetcherMoves
    <3> HIDE DEF s
    <3> QED
      BY <3>1, <3>2, HeldTimesPass
  <2>3. CASE ReleaseBusy(f)
    <3> DEFINE s == [stage |-> "idle"]
    <3>1. s \in FetcherStates /\ s.stage # "applying"
      BY DEF FetcherStates
    <3>2. fetcher' = [fetcher EXCEPT ![f] = s] /\ now' >= now
      BY <1>1, <2>1, <2>3 DEF ReleaseBusy
    <3> HIDE DEF s
    <3> QED
      BY <3>1, <3>2, HeldTimesPass
  <2>4. ASSUME NEW delay \in ResetDelays, QuotaEmpty(f, delay) PROVE HoldsAreShort'
    <3> DEFINE until == now + (IF delay > MaxQuotaCool THEN MaxQuotaCool ELSE delay)
               s == [stage |-> "applying", creds |-> fetcher[f].creds, at |-> now, until |-> until]
    <3>1. delay \in Nat
      BY PoolAssumption DEF PoolAssumption
    <3>2. until <= now + MaxQuotaCool
      BY <1>1, <3>1
    <3>3. fetcher' = [fetcher EXCEPT ![f] = s]
      BY <2>4 DEF QuotaEmpty
    <3>4. \A g \in Fetchers : fetcher'[g] = IF g = f THEN s ELSE fetcher[g]
      BY <3>3 DEF Aligned, TypeOK
    <3>5. s.until = until
      OBVIOUS
    <3> HIDE DEF until, s
    <3> QED
      BY <2>1, <3>2, <3>4, <3>5 DEF HoldsAreShort
  <2>5. CASE FetchFails(f) \/ QuotaNotEmpty(f) \/ FetchAnswers(f) \/ ApplyQuota(f)
    <3>1. fetcher[f].stage # "idle"
      BY <2>5 DEF FetchFails, QuotaNotEmpty, FetchAnswers, ApplyQuota
    <3>2. FetcherMoves(f, "answered") \/ FetcherMoves(f, "releasing")
      BY <2>5 DEF FetchFails, QuotaNotEmpty, FetchAnswers, ApplyQuota
    <3> QED
      BY <2>2, <3>1, <3>2
  <2>6. \/ FetchFails(f) \/ QuotaNotEmpty(f) \/ FetchAnswers(f) \/ ApplyQuota(f)
        \/ ReleaseBusy(f)
        \/ \E delay \in ResetDelays : QuotaEmpty(f, delay)
    BY Zenon, <1>6 DEF FetcherStep
  <2> QED
    BY <2>3, <2>4, <2>5, <2>6
<1>7. ASSUME NEW a \in Accounts, AddAccount(a) \/ RemoveCredential(a) \/ Remember(a)
      PROVE  HoldsAreShort'
  <2>1. now' = now /\ fetcher' = fetcher
    BY <1>7 DEF AddAccount, RemoveCredential, Remember
  <2> QED
    BY <1>1, <1>3, <2>1
<1>8. CASE \E i \in SlotSet : RemoveIndex(i)
  BY <1>1, <1>3, <1>8 DEF RemoveIndex
<1>9. CASE \E a \in Accounts, at \in RecentPast : ClearCooldown(a, at)
  BY <1>1, <1>3, <1>9 DEF ClearCooldown
<1> QED
  BY <1>4, <1>5, <1>6, <1>7, <1>8, <1>9 DEF Next

(* A deadline set in a slot is set for the account in it.                  *)
LEMMA SlotSetIsAccountSet ==
  ASSUME Aligned, SameSeats, NEW a \in Members, NEW d
  PROVE  /\ (\A j \in SlotSet : rot'.cooling[j] = IF j = SlotOf(a) THEN d ELSE rot.cooling[j])
              => CoolsUntil' = [CoolsUntil EXCEPT ![a] = d]
         /\ (\A j \in SlotSet :
               quotaCoolUntil'[j] = IF j = SlotOf(a) THEN d ELSE quotaCoolUntil[j])
              => HeldUntil' = [HeldUntil EXCEPT ![a] = d]
<1>1. ReadThrough
  BY AlignedReads
<1>2. \A b \in Accounts : SlotOf(b) # NoSlot =>
         /\ SlotOf(b) \in SlotSet
         /\ SlotOf(b) = SlotOf(a) <=> b = a
  BY <1>1, SlotOfMember DEF ReadThrough
<1>3. SlotOf(a) # NoSlot /\ a \in Accounts
  BY <1>1 DEF ReadThrough, SlotSet, NoSlot
<1> QED
  BY <1>2, <1>3, SeatsKept DEF CoolsUntil, HeldUntil, ByAccount

LEMMA ApplyQuotaHolds ==
  ASSUME Aligned, HoldsAreShort, NEW f \in Fetchers, ApplyQuota(f)
  PROVE  Registry!Next \/ UNCHANGED Registry!vars
<1> DEFINE a == fetcher[f].creds
           i == SlotOf(a)
           until == fetcher[f].until
           n == Len(entries)
<1>1. UNCHANGED <<now, entries, poolIndex, lastRotation, busy, identities>>
  BY DEF ApplyQuota
<1>2. CASE UNCHANGED <<rot, quotaCoolUntil>>
  BY <1>1, <1>2, SameFactsRead
<1>3. CASE /\ i \in Slots(rot) /\ until > rot.cooling[i]
           /\ rot' = SetCooling(rot, i, until)
           /\ quotaCoolUntil' = [quotaCoolUntil EXCEPT ![i] = until]
  <2>1. /\ a \in Accounts /\ i \in SlotSet /\ entries[i] = a
        /\ SlotSet = 1..n /\ n \in Nat /\ until \in Deadlines
    <3>1. a \in Accounts /\ until \in Deadlines
      BY ApplyingState DEF ApplyQuota
    <3>2. i \in 1..n /\ SlotSet = 1..n /\ n \in Nat
      BY <1>3, AlignedParts DEF Slots, SlotSet, Aligned, SlotsAligned
    <3> HIDE DEF n
    <3>3. i # NoSlot
      BY <3>2 DEF NoSlot
    <3> QED
      BY <3>1, <3>2, <3>3, SlotOfMember
  <2>2. a \in Members /\ SlotOf(a) = i
    BY <2>1 DEF Members
  <2>3. until \in 1..(now + MaxQuotaCool)
    <3>1. until <= now + MaxQuotaCool
      BY DEF HoldsAreShort, ApplyQuota
    <3>2. rot.cooling[i] \in Nat /\ until \in Nat
      BY <2>1, NumbersInSlots, DeadlinesAreNatural
    <3> HIDE DEF until, i
    <3> QED
      BY <1>3, <3>1, <3>2, NumbersInSlots, PoolAssumption DEF PoolAssumption
  <2>4. ReadThrough /\ SameSeats
    BY <1>1, AlignedReads DEF SameSeats
  <2>5. Sound(rot, n, Deadlines) /\ Deadlines \in SUBSET Nat /\ i \in 1..n
    BY <2>1, AlignedParts, DeadlinesAreNatural
  <2> HIDE DEF a, i, until, n
  <2>6. \A j \in SlotSet : rot'.cooling[j] = IF j = i THEN until ELSE rot.cooling[j]
    <3>1. n \in Nat /\ until \in Deadlines
      BY <2>1
    <3>2. OnlySets(rot, SetCooling(rot, i, until), n, i, until)
      BY <2>5, <3>1, SetCoolingSound
    <3> QED
      BY <1>3, <2>1, <3>2 DEF OnlySets
  <2>7. \A j \in SlotSet : quotaCoolUntil'[j] = IF j = i THEN until ELSE quotaCoolUntil[j]
    <3>1. i \in SlotSet /\ until \in Deadlines
      BY <2>1
    <3> QED
      BY <1>3, <3>1, SetHold
  <2>8. /\ CoolsUntil' = [CoolsUntil EXCEPT ![a] = until]
        /\ HeldUntil' = [HeldUntil EXCEPT ![a] = until]
    BY <2>2, <2>4, <2>6, <2>7, SlotSetIsAccountSet
  <2>9. CoolsUntil[a] < until
    BY <1>3, <2>2, <2>4 DEF ReadThrough
  <2>10. Registry!SameWalk
    <3>1. rot'.next = rot.next
      BY <1>3, WalkStays
    <3> QED
      BY <1>1, <3>1, SameWalkTaken
  <2>11. Registry!Hold(a, until)
    BY <1>1, <2>2, <2>4, <2>8, <2>9, <2>10, PooledIsMembers, SameMarksRead DEF Registry!Hold
  <2> QED
    BY <2>1, <2>3, <2>11 DEF Registry!Next
<1> QED
  BY <1>2, <1>3 DEF ApplyQuota, CanExtend

LEMMA ClearCooldownLifts ==
  ASSUME Aligned, NEW a \in Accounts, NEW at \in RecentPast, ClearCooldown(a, at)
  PROVE  Registry!Next \/ UNCHANGED Registry!vars
<1>1. UNCHANGED <<now, entries, poolIndex, lastRotation, busy, identities>>
  BY DEF ClearCooldown
<1>2. CASE SlotOf(a) = NoSlot
  BY <1>1, <1>2, SameFactsRead DEF ClearCooldown
<1>3. CASE SlotOf(a) # NoSlot
  <2>1. SlotOf(a) \in SlotSet /\ entries[SlotOf(a)] = a /\ a \in Members
    BY <1>3, SlotOfMember DEF Members
  <2>2. ReadThrough /\ SameSeats
    BY <1>1, AlignedReads DEF SameSeats
  <2> DEFINE cool == Lifted(rot.cooling[SlotOf(a)], at)
             hold == Lifted(quotaCoolUntil[SlotOf(a)], at)
  <2>3. /\ \A j \in SlotSet : rot'.cooling[j] = IF j = SlotOf(a) THEN cool ELSE rot.cooling[j]
        /\ \A j \in SlotSet : quotaCoolUntil'[j] =
              IF j = SlotOf(a) THEN hold ELSE quotaCoolUntil[j]
    BY <1>3, ClearCooldownSound
  <2>4. cool \in {0, CoolsUntil[a]} /\ hold \in {0, HeldUntil[a]}
    BY <2>1, <2>2 DEF ReadThrough, Lifted
  <2> HIDE DEF cool, hold
  <2>5. CoolsUntil' = [CoolsUntil EXCEPT ![a] = cool] /\ HeldUntil' = [HeldUntil EXCEPT ![a] = hold]
    BY <2>1, <2>2, <2>3, SlotSetIsAccountSet
  <2>6. [CoolsUntil EXCEPT ![a] = CoolsUntil[a]] = CoolsUntil
        /\ [HeldUntil EXCEPT ![a] = HeldUntil[a]] = HeldUntil
    BY DEF CoolsUntil, HeldUntil, ByAccount
  <2>7. Registry!SameWalk
    <3>1. rot' = SetCooling(rot, SlotOf(a), Lifted(rot.cooling[SlotOf(a)], at))
      BY <1>3 DEF ClearCooldown
    <3>2. rot'.next = rot.next
      BY <3>1, WalkStays
    <3> QED
      BY <1>1, <3>2, SameWalkTaken
  <2>8. Registry!Lift(a)
    BY <1>1, <2>1, <2>2, <2>4, <2>5, <2>6, <2>7, PooledIsMembers, SameMarksRead
       DEF Registry!Lift
  <2> QED
    BY <2>8 DEF Registry!Next
<1> QED
  BY <1>2, <1>3

(* A refusal: its own deadline is pushed out, and when nobody is left, the *)
(* deadlines of those without a hold are pulled in again.                  *)
LEMMA ReportRefuses ==
  ASSUME Aligned, Aligned', NEW r \in Requests, NEW err \in Errors \cup {Served}, Report(r, err)
  PROVE  Registry!Next \/ UNCHANGED Registry!vars
<1> DEFINE a == request[r].creds
           i == SlotOf(a)
           cool == CoolPeriod(err)
           d == now + cool
           soon == now + CoolRateLimited
           n == Len(entries)
           spared == SlotSet \ Held
           cooled == CoolOff(rot, i, d)
           pushed == [CoolsUntil EXCEPT ![a] = IF d > @ THEN d ELSE @]
           retracted == [b \in Accounts |->
              IF b \in Members /\ HeldUntil[b] <= now /\ pushed[b] > soon THEN soon ELSE pushed[b]]
<1>1. UNCHANGED <<now, entries, poolIndex, lastRotation, busy, quotaCoolUntil, identities>>
  BY DEF Report
<1>2. CASE rot' = rot
  BY <1>1, <1>2, SameFactsRead
<1>3. CASE cool # 0 /\ i # NoSlot /\ rot' = AfterRefusal(i, cool)
  <2>1. a \in Accounts /\ i \in SlotSet /\ entries[i] = a /\ a \in Members /\ SlotOf(a) = i
    <3>1. a \in Accounts
      BY RequestHoldsAccount DEF Report
    <3> QED
      BY <1>3, <3>1, SlotOfMember DEF Members
  <2>2. cool \in {CoolRejected, CoolRateLimited}
    BY <1>3, CoolPeriods
  <2>3. ReadThrough /\ SameSeats
    BY <1>1, AlignedReads DEF SameSeats
  <2>4. /\ d \in Deadlines /\ soon \in Deadlines /\ Deadlines \in SUBSET Nat
        /\ SlotSet = 1..n /\ n \in Nat /\ Sound(rot, n, Deadlines)
    BY <2>2, DeadlinesAreNatural, AlignedParts DEF Aligned, TypeOK, SlotSet
  <2> HIDE DEF a, i, cool, d, soon, n, spared
  <2>5. Sound(cooled, n, Deadlines) /\ OnlyPushes(rot, cooled, n, i, d)
    <3>1. i \in 1..n
      BY <2>1, <2>4
    <3> QED
      BY <2>4, <3>1, CoolOffSound
  <2> HIDE DEF cooled
  <2>6. /\ Sound(ClampCooling(cooled, spared, soon), n, Deadlines)
        /\ OnlyPullsIn(cooled, ClampCooling(cooled, spared, soon), n, spared, soon)
    BY <2>4, <2>5, ClampCoolingSound
  <2>7. \A b \in Members : /\ SlotOf(b) \in 1..n
                           /\ SlotOf(b) = i <=> b = a
                           /\ b \in Accounts
    BY <2>1, <2>3, <2>4 DEF ReadThrough
  <2>8. \A b \in Members : pushed[b] = cooled.cooling[SlotOf(b)]
    <3>1. \A b \in Members : CoolsUntil[b] = rot.cooling[SlotOf(b)]
      BY <2>3 DEF ReadThrough
    <3>2. \A b \in Accounts : pushed[b] =
             IF b = a THEN (IF d > CoolsUntil[a] THEN d ELSE CoolsUntil[a]) ELSE CoolsUntil[b]
      BY <2>1 DEF CoolsUntil, ByAccount
    <3> HIDE DEF pushed
    <3> QED
      BY <2>1, <2>5, <2>7, <3>1, <3>2 DEF OnlyPushes
  <2>9. \A b \in Accounts \ Members : pushed[b] = 0 /\ CoolsUntil'[b] = 0
    <3>1. \A b \in Accounts \ Members : CoolsUntil[b] = 0
      BY <2>3 DEF ReadThrough
    <3>2. \A b \in Accounts \ Members : SlotOf(b)' = NoSlot
      BY <2>3, SeatsKept DEF ReadThrough
    <3> QED
      BY <2>1, <3>1, <3>2 DEF CoolsUntil, ByAccount
  <2>10. \A b \in Members : CoolsUntil'[b] = rot'.cooling[SlotOf(b)]
    <3>1. \A b \in Members : SlotOf(b)' = SlotOf(b) /\ SlotOf(b) # NoSlot
      BY <2>3, <2>7, SeatsKept DEF NoSlot
    <3> QED
      BY <2>7, <3>1 DEF CoolsUntil, ByAccount
  <2>11. /\ pushed = [b \in Accounts |-> pushed[b]]
         /\ CoolsUntil' = [b \in Accounts |-> CoolsUntil'[b]]
    BY DEF CoolsUntil, ByAccount
  <2> HIDE DEF pushed
  <2>12. Systemic(i, cool, cooled) <=>
            /\ cool > CoolRateLimited /\ a \in Registry!Warm /\ Members # {a}
            /\ \A b \in Members : pushed[b] > now
    <3>1. a \in Registry!Warm <=> ~IsCooling(rot, i, now)
      <4>1. CoolsUntil[a] = rot.cooling[i]
        BY <2>1, <2>3 DEF ReadThrough
      <4>2. rot.cooling[i] \in Int /\ now \in Int
        BY <2>1, NumbersInSlots
      <4> QED
        BY <2>1, <4>1, <4>2, PooledIsMembers DEF Registry!Warm, IsCooling
    <3>2. Len(entries) > 1 <=> Members # {a}
      <4>1. \A j \in 1..n : entries[j] = a <=> j = i
        BY <2>1, <2>3, <2>4 DEF ReadThrough
      <4>2. Members = {entries[j] : j \in 1..n}
        BY <2>4 DEF Members
      <4>3. i \in 1..n
        BY <2>1, <2>4
      <4>4. ASSUME n > 1 PROVE \E j \in 1..n : j # i
        <5>1. 1 \in 1..n /\ 2 \in 1..n
          BY <2>4, <4>4
        <5> QED
          BY <5>1
      <4>5. ASSUME ~(n > 1) PROVE \A j \in 1..n : j = i
        BY <2>4, <4>3, <4>5
      <4> QED
        BY <4>1, <4>2, <4>3, <4>4, <4>5 DEF n
    <3>3. WarmSlots(cooled, now) = {} <=> \A b \in Members : pushed[b] > now
      <4>1. Slots(cooled) = 1..n
        BY <2>5 DEF Slots, Sound
      <4>2. WarmSlots(cooled, now) = {} <=> \A j \in 1..n : now < cooled.cooling[j]
        BY <4>1 DEF WarmSlots, IsCooling
      <4>3. \A j \in 1..n : entries[j] \in Members /\ SlotOf(entries[j]) = j
        BY <2>3, <2>4 DEF ReadThrough
      <4> QED
        BY <2>7, <2>8, <4>2, <4>3
    <3> QED
      BY <3>1, <3>2, <3>3 DEF Systemic
  <2>13. Registry!SameWalk
    <3>1. cooled.next = rot.next
      BY WalkStays DEF cooled, CoolOff
    <3>2. ClampCooling(cooled, spared, soon).next = cooled.next
      BY <2>5, CursorUpdate DEF ClampCooling, Sound
    <3>3. rot' = cooled \/ rot' = ClampCooling(cooled, spared, soon)
      BY <1>3 DEF AfterRefusal, cooled, spared, soon, d
    <3> QED
      BY <1>1, <3>1, <3>2, <3>3, SameWalkTaken
  <2>14. ASSUME ~Systemic(i, cool, cooled) PROVE CoolsUntil' = pushed
    <3>1. rot' = cooled
      BY <1>3, <2>14 DEF AfterRefusal, cooled, d
    <3>2. \A b \in Accounts : CoolsUntil'[b] = pushed[b]
      BY <2>8, <2>9, <2>10, <3>1
    <3> QED
      BY <2>11, <3>2
  <2>15. ASSUME Systemic(i, cool, cooled) PROVE CoolsUntil' = retracted
    <3>1. rot' = ClampCooling(cooled, spared, soon)
      BY <1>3, <2>15 DEF AfterRefusal, cooled, spared, soon, d
    <3>2. ASSUME NEW b \in Members PROVE CoolsUntil'[b] = retracted[b]
      <4> DEFINE j == SlotOf(b)
      <4>1. j \in 1..n /\ j \in SlotSet
        BY <2>4, <2>7
      <4>2. j \in spared <=> HeldUntil[b] <= now
        <5>1. HeldUntil[b] = quotaCoolUntil[j] /\ quotaCoolUntil[j] \in Int /\ now \in Int
          BY <2>3, <4>1, NumbersInSlots DEF ReadThrough
        <5> HIDE DEF j
        <5> QED
          BY <4>1, <5>1 DEF spared, Held, QuotaHeldAt
      <4>3. CoolsUntil'[b] = IF j \in spared /\ soon < pushed[b] THEN soon ELSE pushed[b]
        BY <2>6, <2>8, <2>10, <3>1, <4>1 DEF OnlyPullsIn
      <4>4. b \in Accounts
        BY <2>7
      <4> HIDE DEF j
      <4> QED
        BY <4>2, <4>3, <4>4
    <3>3. ASSUME NEW b \in Accounts \ Members PROVE CoolsUntil'[b] = retracted[b]
      BY <2>9, <3>3
    <3>4. retracted = [b \in Accounts |-> retracted[b]]
      OBVIOUS
    <3> HIDE DEF retracted
    <3> QED
      BY <2>11, <3>2, <3>3, <3>4
  <2>16. CoolsUntil' = IF Systemic(i, cool, cooled) THEN retracted ELSE pushed
    BY <2>14, <2>15
  <2>17. Registry!Refuse(a, cool)
    BY <1>1, <2>1, <2>3, <2>12, <2>13, <2>16, PooledIsMembers, SameMarksRead, SameDeadlinesRead
       DEF Registry!Refuse, pushed, soon, d
  <2> QED
    BY <2>1, <2>2, <2>17 DEF Registry!Next
<1> QED
  BY <1>2, <1>3 DEF Report

-----------------------------------------------------------------------------
(* Turns: the walk of the cursor is the order of the accounts' turns.      *)

(* Around n places: the one k after s, and how many p is after s.          *)
PlaceAfter(n, s, k) == ((s - 1 + k) % n) + 1
StepsTo(n, s, p)    == (p - s) % n

(* How far away a place is, without the remainder.                         *)
LEMMA StepsAround ==
  ASSUME NEW n \in Nat \ {0}, NEW s \in 1..n, NEW p \in 1..n
  PROVE  /\ StepsTo(n, s, p) = IF s <= p THEN p - s ELSE p - s + n
         /\ (p % n) + 1 = IF p = n THEN 1 ELSE p + 1
<1>1. \A x \in 0..(n - 1) : x % n = x /\ (x + n) % n = x /\ (x - n) % n = x
  OBVIOUS
<1>2. (p - s) % n = IF s <= p THEN p - s ELSE p - s + n
  <2>1. CASE s <= p
    <3>1. p - s \in 0..(n - 1)
      BY <2>1
    <3> QED
      BY <1>1, <2>1, <3>1
  <2>2. CASE p < s
    <3>1. p - s + n \in 0..(n - 1) /\ p - s = (p - s + n) - n
      BY <2>2
    <3> QED
      BY <1>1, <2>2, <3>1
  <2> QED
    BY <2>1, <2>2
<1>3. p % n = IF p = n THEN 0 ELSE p
  <2>1. CASE p = n
    <3>1. 0 \in 0..(n - 1) /\ p = 0 + n
      BY <2>1
    <3>2. (0 + n) % n = 0
      BY <1>1, <3>1
    <3> QED
      BY <2>1, <3>1, <3>2
  <2>2. CASE p # n
    <3>1. p \in 0..(n - 1)
      BY <2>2
    <3> QED
      BY <1>1, <2>2, <3>1
  <2> QED
    BY <2>1, <2>2
<1> QED
  BY <1>2, <1>3 DEF StepsTo

LEMMA PlacesAround ==
  ASSUME NEW n \in Nat \ {0}, NEW s \in 1..n, NEW p \in 1..n
  PROVE  /\ StepsTo(n, s, p) \in 0..(n - 1)
         /\ \A k \in 0..(n - 1) : PlaceAfter(n, s, k) = p <=> k = StepsTo(n, s, p)
<1>1. \A x \in 0..(n - 1) : x % n = x /\ (x + n) % n = x /\ (x - n) % n = x
  OBVIOUS
<1>2. (p - s) % n = IF s <= p THEN p - s ELSE p - s + n
  BY StepsAround DEF StepsTo
<1>3. ASSUME NEW k \in 0..(n - 1)
      PROVE  (s - 1 + k) % n = IF s - 1 + k < n THEN s - 1 + k ELSE s - 1 + k - n
  <2>1. CASE s - 1 + k < n
    <3>1. s - 1 + k \in 0..(n - 1)
      BY <2>1
    <3> QED
      BY <1>1, <2>1, <3>1
  <2>2. CASE ~(s - 1 + k < n)
    <3>1. s - 1 + k - n \in 0..(n - 1) /\ s - 1 + k = (s - 1 + k - n) + n
      BY <2>2
    <3> QED
      BY <1>1, <2>2, <3>1
  <2> QED
    BY <2>1, <2>2
<1> QED
  BY <1>2, <1>3 DEF PlaceAfter, StepsTo

LEMMA TurnsAreTheWalk ==
  ASSUME Aligned, NEW a \in Members
  PROVE  /\ Registry!Turns(a) \in 0..(Len(rot.cooling) - 1)
         /\ \A k \in 0..(Len(rot.cooling) - 1) :
               SlotAt(rot, k) = SlotOf(a) <=> k = Registry!Turns(a)
<1> DEFINE n == Len(entries)
           s == rot.next
<1>1. ReadThrough /\ SlotSet = 1..n /\ n \in Nat
  BY AlignedReads, AlignedParts DEF SlotSet
<1>2. SlotOf(a) \in 1..n
  BY <1>1 DEF ReadThrough
<1>3. n \in Nat \ {0} /\ Len(rot.cooling) = n
  BY <1>1, <1>2 DEF Aligned, SlotsAligned
<1>4. s \in 1..n
  BY <1>1, <1>3 DEF Aligned, SlotsAligned
<1>5. UpNext = entries[s] /\ Registry!Place(UpNext) = s /\ Registry!Place(a) = SlotOf(a)
  BY <1>1, <1>3, <1>4 DEF UpNext, ReadThrough
<1>6. Registry!Turns(a) = StepsTo(n, s, SlotOf(a))
  BY <1>5 DEF Registry!Turns, StepsTo
<1>7. \A k \in 0..(n - 1) : SlotAt(rot, k) = PlaceAfter(n, s, k)
  <2>1. ~(s > n)
    BY <1>3, <1>4
  <2> QED
    BY <1>3, <2>1 DEF SlotAt, PlaceAfter
<1> DEFINE p == SlotOf(a)
<1> HIDE DEF n, s, p
<1>8. p \in 1..n /\ Registry!Turns(a) = StepsTo(n, s, p)
  BY <1>2, <1>6 DEF p
<1>9. /\ StepsTo(n, s, p) \in 0..(n - 1)
      /\ \A k \in 0..(n - 1) : PlaceAfter(n, s, k) = p <=> k = StepsTo(n, s, p)
  <2>1. n \in Nat \ {0} /\ s \in 1..n /\ p \in 1..n
    BY <1>3, <1>4, <1>8
  <2> QED
    BY <2>1, PlacesAround
<1>10. \A k \in 0..(n - 1) : SlotAt(rot, k) = p <=> k = Registry!Turns(a)
  BY <1>7, <1>8, <1>9
<1> QED
  BY <1>3, <1>8, <1>9, <1>10 DEF p

(* Who is picked is the one the registry lets serve.                       *)
LEMMA PickedMayServe ==
  ASSUME Aligned, entries # <<>>
  PROVE  /\ Picked(rot, now) \in SlotSet
         /\ Registry!MayServe(entries[Picked(rot, now)])
<1> DEFINE n == Len(rot.cooling)
           walk == 0..(n - 1)
           i == Picked(rot, now)
           a == entries[i]
           warm == {k \in walk : ~IsCooling(rot, SlotAt(rot, k), now)}
           soonest == {k \in walk : \A j \in walk :
                          rot.cooling[SlotAt(rot, k)] <= rot.cooling[SlotAt(rot, j)]}
<1>1. rot \in Cursor /\ n > 0 /\ now \in Nat /\ SlotSet = Slots(rot)
  <2>1. rot \in Cursor
    BY AlignedParts, DeadlinesAreNatural, SoundIsCursor
  <2>2. n = Len(entries) /\ Len(entries) > 0
    BY DEF Aligned, TypeOK, SlotsAligned
  <2> QED
    BY <2>1, <2>2, NumbersInSlots DEF SlotSet, Slots
<1>2. i \in SlotSet
  BY <1>1, PickedIsSlot
<1>3. PICK k \in Candidates(rot, now) :
         k \in Nat /\ i = SlotAt(rot, k) /\ \A j \in Candidates(rot, now) : k <= j
  BY <1>1, PickedAlongWalk
<1>4. Candidates(rot, now) = IF warm # {} THEN warm ELSE soonest
  BY DEF Candidates
<1>5. k \in walk
  BY <1>3, <1>4
<1>6. ReadThrough
  BY AlignedReads
<1> HIDE DEF n, i
<1>7. a \in Members /\ SlotOf(a) = i
  BY <1>2, <1>6 DEF ReadThrough
<1> HIDE DEF a
<1>8. \A b \in Members : /\ Registry!Turns(b) \in walk
                         /\ SlotAt(rot, Registry!Turns(b)) = SlotOf(b)
                         /\ SlotOf(b) \in SlotSet
                         /\ CoolsUntil[b] = rot.cooling[SlotOf(b)]
                         /\ rot.cooling[SlotOf(b)] \in Int
  BY <1>6, TurnsAreTheWalk, NumbersInSlots DEF ReadThrough, n
<1>9. Registry!Turns(a) = k
  BY <1>3, <1>5, <1>7, TurnsAreTheWalk DEF n
<1>10. \A b \in Members : b \in Registry!Warm <=> Registry!Turns(b) \in warm
  BY <1>1, <1>8, PooledIsMembers DEF Registry!Warm, IsCooling
<1>11. \A j \in walk : \E b \in Members : SlotOf(b) = SlotAt(rot, j)
  BY <1>1, <1>6, SlotAtIsSlot DEF ReadThrough, n
<1>12. CASE Registry!Warm # {}
  <2>1. warm # {}
    BY <1>10, <1>12, PooledIsMembers DEF Registry!Warm
  <2>2. a \in Registry!Warm
    BY <1>3, <1>4, <1>7, <1>9, <1>10, <2>1
  <2>3. \A b \in Registry!Warm : Registry!Turns(a) <= Registry!Turns(b)
    <3>1. Registry!Warm \subseteq Members
      BY PooledIsMembers DEF Registry!Warm
    <3> HIDE DEF warm
    <3> QED
      BY <1>3, <1>4, <1>9, <1>10, <2>1, <3>1
  <2> QED
    BY <1>2, <1>7, <1>12, <2>2, <2>3, PooledIsMembers DEF Registry!MayServe, a, i
<1>13. CASE Registry!Warm = {}
  <2>1. warm = {}
    <3> SUFFICES ASSUME NEW j \in warm PROVE FALSE
      OBVIOUS
    <3>1. PICK b \in Members : SlotOf(b) = SlotAt(rot, j)
      BY <1>11
    <3>2. j = Registry!Turns(b)
      BY <3>1, TurnsAreTheWalk DEF n
    <3> HIDE DEF warm
    <3> QED
      BY <1>10, <1>13, <3>1, <3>2
  <2>2. k \in soonest /\ Candidates(rot, now) = soonest
    BY <1>3, <1>4, <2>1
  <2>3. ASSUME NEW b \in Members
        PROVE  \/ CoolsUntil[a] < CoolsUntil[b]
               \/ CoolsUntil[a] = CoolsUntil[b] /\ Registry!Turns(a) <= Registry!Turns(b)
    <3>1. CoolsUntil[a] <= CoolsUntil[b] /\ CoolsUntil[a] \in Int /\ CoolsUntil[b] \in Int
      BY <1>3, <1>7, <1>8, <2>2
    <3>2. CASE CoolsUntil[a] = CoolsUntil[b]
      <4>1. Registry!Turns(b) \in soonest
        <5>1. rot.cooling[SlotAt(rot, k)] = rot.cooling[SlotAt(rot, Registry!Turns(b))]
          BY <1>3, <1>7, <1>8, <3>2
        <5> QED
          BY <1>8, <2>2, <5>1
      <4> HIDE DEF soonest
      <4> QED
        BY <1>3, <1>9, <2>2, <3>2, <4>1
    <3> QED
      BY <3>1, <3>2
  <2> QED
    BY <1>2, <1>7, <1>13, <2>3, PooledIsMembers DEF Registry!MayServe, a, i
<1> QED
  BY <1>12, <1>13

LEMMA NextCredentialServes ==
  ASSUME Aligned, Aligned', NEW r \in Requests, NextCredential(r)
  PROVE  Registry!Next
<1> DEFINE i == Picked(rot, now)
           a == entries[i]
           n == Len(entries)
<1>1. /\ UNCHANGED <<now, entries, poolIndex, busy, quotaCoolUntil, identities>>
      /\ entries # <<>> /\ rot' = Advance(rot, i) /\ lastRotation' = i
  BY DEF NextCredential
<1>2. i \in SlotSet /\ Registry!MayServe(a)
  BY <1>1, PickedMayServe
<1>3. SlotSet = 1..n /\ n \in Nat /\ Len(rot.cooling) = n /\ ReadThrough
  BY AlignedReads, AlignedParts DEF SlotSet, Aligned, SlotsAligned
<1> HIDE DEF i, n
<1>4. a \in Accounts /\ Registry!Place(a) = i
  BY <1>2, <1>3 DEF ReadThrough
<1>5. rot' = [next |-> (i % n) + 1, cooling |-> rot.cooling]
  BY <1>1, <1>3 DEF Advance, Aligned, TypeOK
<1>6. LastServed' = a
  BY <1>1, <1>2, <1>3 DEF LastServed, NoSlot
<1>7. UpNext' = Registry!Successor(a)
  BY <1>1, <1>4, <1>5 DEF UpNext, Registry!Successor, n
<1>8. CoolsUntil' = CoolsUntil /\ HeldUntil' = HeldUntil /\ Asked' = Asked /\ OnFile' = OnFile
  BY <1>1, <1>5, SameDeadlinesRead, SameMarksRead DEF SameSeats
<1>9. Registry!Serve(a)
  BY <1>1, <1>2, <1>6, <1>7, <1>8 DEF Registry!Serve
<1> QED
  BY <1>4, <1>9 DEF Registry!Next

-----------------------------------------------------------------------------
(* Joining and leaving.                                                    *)

LEMMA AddAccountJoins ==
  ASSUME Aligned, Aligned', NEW b \in Accounts, AddAccount(b)
  PROVE  Registry!Next
<1> DEFINE n == Len(entries)
<1>1. /\ n \in Nat /\ SlotSet = 1..n /\ SlotSet' = 1..(n + 1)
      /\ \A i \in 1..n : entries'[i] = entries[i]
      /\ entries'[n + 1] = b
  BY AlignedParts DEF AddAccount, SlotSet, Aligned, TypeOK
<1>2. ReadThrough /\ ReadThrough'
  BY AlignedReads, PTL
<1>3. b \notin Members
  BY DEF AddAccount
<1>4. /\ rot'.next = rot.next
      /\ \A i \in 1..n : rot'.cooling[i] = rot.cooling[i]
      /\ rot'.cooling[n + 1] = 0
  <2>1. /\ Deadlines \in SUBSET Nat /\ 0 \in Deadlines
        /\ Sound(rot, n, Deadlines) /\ rot' = AppendSlot(rot)
    BY AlignedParts, DeadlinesAreNatural DEF AddAccount
  <2>2. AppendSlot(rot).next = rot.next
    BY CursorUpdate DEF AppendSlot, Aligned, TypeOK
  <2> HIDE DEF n
  <2>3. /\ \A i \in 1..n : AppendSlot(rot).cooling[i] = rot.cooling[i]
        /\ AppendSlot(rot).cooling[n + 1] = 0
    BY <1>1, <2>1, AppendSlotSound
  <2> QED
    BY <2>1, <2>2, <2>3
<1>5. /\ \A i \in 1..n : quotaCoolUntil'[i] = quotaCoolUntil[i] /\ busy'[i] = busy[i]
      /\ quotaCoolUntil'[n + 1] = 0 /\ busy'[n + 1] = FALSE
  <2>1. /\ quotaCoolUntil \in Seq(Deadlines) /\ Len(quotaCoolUntil) = n
        /\ quotaCoolUntil' = Append(quotaCoolUntil, 0)
        /\ busy \in Seq(BOOLEAN) /\ Len(busy) = n /\ busy' = Append(busy, FALSE)
    BY DEF AddAccount, Aligned, TypeOK, SlotsAligned
  <2> HIDE DEF n
  <2>2. (\A i \in 1..n : quotaCoolUntil'[i] = quotaCoolUntil[i]) /\ quotaCoolUntil'[n + 1] = 0
    <3>1. /\ \A i \in 1..Len(quotaCoolUntil) :
                Append(quotaCoolUntil, 0)[i] = quotaCoolUntil[i]
          /\ Append(quotaCoolUntil, 0)[Len(quotaCoolUntil) + 1] = 0
      BY <2>1, DeadlinesAreNatural, AppendKeeps
    <3> QED
      BY <2>1, <3>1
  <2>3. (\A i \in 1..n : busy'[i] = busy[i]) /\ busy'[n + 1] = FALSE
    <3>1. /\ \A i \in 1..Len(busy) : Append(busy, FALSE)[i] = busy[i]
          /\ Append(busy, FALSE)[Len(busy) + 1] = FALSE
      BY <2>1, AppendFalse
    <3> QED
      BY <2>1, <3>1
  <2> QED
    BY <2>2, <2>3
<1>6. UpNext' = IF entries = <<>> THEN b ELSE UpNext
  <2>1. entries' # <<>>
    <3>1. entries \in Seq(Accounts) /\ entries' = Append(entries, b)
      BY DEF AddAccount, Aligned, TypeOK
    <3>2. Len(entries') = Len(entries) + 1 /\ Len(entries) \in Nat
      BY <3>1
    <3> QED
      BY <3>2
  <2>2. CASE entries = <<>>
    <3>1. n = 0 /\ rot.next = 1
      BY <2>2 DEF SlotSet, Aligned, SlotsAligned
    <3> QED
      BY <1>1, <1>4, <2>1, <2>2, <3>1 DEF UpNext
  <2>3. CASE entries # <<>>
    <3>1. n # 0
      BY <2>3 DEF Aligned, TypeOK
    <3>2. rot.next \in 1..n
      BY <1>1, <3>1 DEF Aligned, SlotsAligned
    <3> QED
      BY <1>1, <1>4, <2>1, <2>3, <3>2 DEF UpNext
  <2> QED
    BY <2>2, <2>3
<1>7. LastServed' = LastServed
  <2>1. lastRotation' = lastRotation /\ lastRotation \in 1..n \cup {NoSlot}
    BY <1>1 DEF AddAccount, Aligned, SlotsAligned
  <2> QED
    BY <1>1, <2>1 DEF LastServed
<1> HIDE DEF n
<1>8. Members' = Members \cup {b}
  BY <1>1 DEF Members
<1>9. ASSUME NEW a \in Accounts
      PROVE  CoolsUntil'[a] = CoolsUntil[a] /\ HeldUntil'[a] = HeldUntil[a]
  <2>1. CASE a \in Members
    <3>1. SlotOf(a) \in 1..n /\ entries[SlotOf(a)] = a
      BY <1>1, <1>2, <2>1 DEF ReadThrough
    <3>2. SlotOf(a)' = SlotOf(a)
      <4>1. \A i \in SlotSet' : entries'[i] = a => SlotOf(a)' = i
        BY <1>2 DEF ReadThrough
      <4> QED
        BY <1>1, <3>1, <4>1
    <3> QED
      BY <1>2, <1>4, <1>5, <1>8, <2>1, <3>1, <3>2 DEF ReadThrough
  <2>2. CASE a = b
    <3>1. SlotOf(a)' = n + 1
      <4>1. \A i \in SlotSet' : entries'[i] = a => SlotOf(a)' = i
        BY <1>2 DEF ReadThrough
      <4> QED
        BY <1>1, <2>2, <4>1
    <3> QED
      BY <1>2, <1>3, <1>4, <1>5, <1>8, <2>2, <3>1 DEF ReadThrough
  <2>3. CASE a \notin Members /\ a # b
    BY <1>2, <1>8, <2>3 DEF ReadThrough
  <2> QED
    BY <2>1, <2>2, <2>3
<1>10. CoolsUntil' = CoolsUntil /\ HeldUntil' = HeldUntil
  <2>1. /\ CoolsUntil = [a \in Accounts |-> CoolsUntil[a]]
        /\ HeldUntil = [a \in Accounts |-> HeldUntil[a]]
        /\ CoolsUntil' = [a \in Accounts |-> CoolsUntil'[a]]
        /\ HeldUntil' = [a \in Accounts |-> HeldUntil'[a]]
    BY DEF CoolsUntil, HeldUntil, ByAccount
  <2> QED
    BY <1>9, <2>1
<1>11. Asked' = Asked
  BY <1>1, <1>5 DEF Asked
<1>12. OnFile' = OnFile
  BY DEF OnFile, AddAccount
<1>13. Registry!Join(b)
  BY <1>3, <1>6, <1>7, <1>10, <1>11, <1>12, PooledIsMembers DEF Registry!Join, AddAccount
<1> QED
  BY <1>13 DEF Registry!Next

(* What a removal leaves, slot by slot.                                    *)
LEMMA RemovalShifts ==
  ASSUME Aligned, Aligned', NEW i \in SlotSet, RemoveSlotAt(i)
  PROVE  LET n    == Len(entries)
             J(j) == IF j < i THEN j ELSE j + 1
         IN  /\ n \in Nat \ {0} /\ SlotSet = 1..n /\ SlotSet' = 1..(n - 1)
             /\ \A j \in 1..(n - 1) :
                   /\ J(j) \in 1..n /\ J(j) # i
                   /\ entries'[j] = entries[J(j)]
                   /\ rot'.cooling[j] = rot.cooling[J(j)]
                   /\ quotaCoolUntil'[j] = quotaCoolUntil[J(j)]
                   /\ busy'[j] = busy[J(j)]
             /\ \A k \in 1..n : k # i => \E j \in 1..(n - 1) : J(j) = k
             /\ identities' = [j \in {k \in 1..(n - 1) : J(k) \in DOMAIN identities} |->
                                 identities[J(j)]]
<1> DEFINE n == Len(entries)
           J(j) == IF j < i THEN j ELSE j + 1
<1>1. n \in Nat \ {0} /\ i \in 1..n /\ SlotSet = 1..n
  BY AlignedParts DEF SlotSet
<1>2. /\ SlotSet' = 1..(n - 1)
      /\ \A j \in 1..(n - 1) : entries'[j] = IF j < i THEN entries[j] ELSE entries[j + 1]
  BY <1>1, PlaceAfterRemoval DEF RemoveSlotAt, SlotSet
<1>3. identities' = [j \in {k \in SlotSet \ {n} : J(k) \in DOMAIN identities} |->
                       identities[J(j)]]
  BY DEF RemoveSlotAt
<1>4. SlotSet \ {n} = 1..(n - 1)
  BY <1>1
<1>5. /\ Sound(rot, n, Deadlines) /\ Deadlines \in SUBSET Nat /\ rot' = RemoveSlot(rot, i)
  BY AlignedParts, DeadlinesAreNatural DEF RemoveSlotAt
<1>6. /\ quotaCoolUntil \in Seq(Deadlines) /\ Len(quotaCoolUntil) = n
      /\ quotaCoolUntil' = RemoveAt(quotaCoolUntil, i)
  BY DEF RemoveSlotAt, Aligned, TypeOK, SlotsAligned
<1>7. busy \in Seq(BOOLEAN) /\ Len(busy) = n /\ busy' = RemoveAt(busy, i)
  BY DEF RemoveSlotAt, Aligned, TypeOK, SlotsAligned
<1> HIDE DEF n
<1>8. \A j \in 1..(n - 1) :
         rot'.cooling[j] = IF j < i THEN rot.cooling[j] ELSE rot.cooling[j + 1]
  <2>1. n \in Nat /\ i \in 1..n
    BY <1>1
  <2> QED
    BY <1>5, <2>1, RemoveSlotSound
<1>9. \A j \in 1..(n - 1) :
         quotaCoolUntil'[j] = IF j < i THEN quotaCoolUntil[j] ELSE quotaCoolUntil[j + 1]
  BY <1>1, <1>6, RemoveAtProperties
<1>10. \A j \in 1..(n - 1) : busy'[j] = IF j < i THEN busy[j] ELSE busy[j + 1]
  BY <1>1, <1>7, RemoveAtProperties
<1>11. \A j \in 1..(n - 1) : J(j) \in 1..n /\ J(j) # i
  BY <1>1
<1>12. ASSUME NEW k \in 1..n, k # i PROVE \E j \in 1..(n - 1) : J(j) = k
  <2>1. CASE k < i
    BY <1>1, <2>1
  <2>2. CASE i < k
    <3>1. k - 1 \in 1..(n - 1) /\ J(k - 1) = k
      BY <1>1, <2>2
    <3> QED
      BY <3>1
  <2> QED
    BY <1>1, <1>12, <2>1, <2>2
<1> QED
  BY <1>1, <1>2, <1>3, <1>4, <1>8, <1>9, <1>10, <1>11, <1>12 DEF n

(* Whose turn it is after the account in slot i has left.                  *)
LEMMA RemovalPassesTurn ==
  ASSUME Aligned, Aligned', NEW i \in SlotSet, RemoveSlotAt(i)
  PROVE  UpNext' = IF UpNext # entries[i] THEN UpNext
                   ELSE IF Members = {entries[i]} THEN NoAccount
                   ELSE Registry!Successor(entries[i])
<1> DEFINE n == Len(entries)
           s == rot.next
           J(j) == IF j < i THEN j ELSE j + 1
           t == rot'.next
<1>1. /\ n \in Nat \ {0} /\ i \in 1..n /\ SlotSet = 1..n /\ s \in 1..n
      /\ \A j \in 1..(n - 1) : entries'[j] = entries[J(j)]
  <2>1. /\ n \in Nat \ {0} /\ SlotSet = 1..n
        /\ \A j \in 1..(n - 1) : entries'[j] = entries[J(j)]
    BY RemovalShifts
  <2>2. s \in SlotSet \/ s = 1
    BY DEF Aligned, SlotsAligned
  <2> HIDE DEF n, s
  <2> QED
    BY <2>1, <2>2
<1>2. Len(entries') = n - 1
  BY PlaceAfterRemoval DEF RemoveSlotAt
<1>3. ReadThrough
  BY AlignedReads
<1>4. UpNext = entries[s]
  BY <1>1 DEF UpNext, Aligned, TypeOK
<1>5. UpNext = entries[i] <=> s = i
  BY <1>1, <1>3, <1>4 DEF ReadThrough
<1>6. Registry!Successor(entries[i]) = entries[(i % n) + 1]
  BY <1>1, <1>3 DEF ReadThrough, Registry!Successor
<1>7. t = LET moved == IF i < s THEN s - 1 ELSE s
          IN  IF moved > n - 1 THEN 1 ELSE moved
  BY <1>1 DEF RemoveSlotAt, RemoveSlot, Slots, Aligned, SlotsAligned
<1>8. Members = {entries[i]} <=> n = 1
  <2>1. \A j \in 1..n : entries[j] \in Members /\ (entries[j] = entries[i] <=> j = i)
    BY <1>1, <1>3 DEF ReadThrough
  <2>2. CASE n = 1
    BY <1>1, <2>2 DEF Members
  <2>3. CASE n # 1
    <3> HIDE DEF n
    <3>1. \E j \in 1..n : j # i
      <4>1. 1 \in 1..n /\ 2 \in 1..n
        BY <1>1, <2>3
      <4> QED
        BY <4>1
    <3> QED
      BY <2>1, <2>3, <3>1
  <2> QED
    BY <2>2, <2>3
<1>9. CASE n = 1
  <2>1. entries' = <<>>
    BY <1>2, <1>9 DEF Aligned, TypeOK
  <2>2. s = i
    BY <1>1, <1>9
  <2> QED
    BY <1>5, <1>8, <1>9, <2>1, <2>2 DEF UpNext
<1>10. CASE n # 1
  <2>1. UpNext' = entries'[t]
    BY <1>1, <1>2, <1>10 DEF UpNext, Aligned, TypeOK
  <2> HIDE DEF n, s, t
  <2>2. \A m \in Nat \ {0} : \A x \in 0..(m - 1) : x % m = x /\ (x + m) % m = x
    OBVIOUS
  <2>3. CASE i # s
    <3>1. t \in 1..(n - 1) /\ J(t) = s
      BY <1>1, <1>7, <1>10, <2>3
    <3> QED
      BY <1>1, <1>4, <1>5, <2>1, <2>3, <3>1
  <2>4. CASE i = s
    <3>1. t \in 1..(n - 1) /\ J(t) = IF i = n THEN 1 ELSE i + 1
      BY <1>1, <1>7, <1>10, <2>4
    <3>2. (i % n) + 1 = IF i = n THEN 1 ELSE i + 1
      <4>1. CASE i = n
        <5>1. 0 \in 0..(n - 1) /\ i = 0 + n
          BY <1>1, <4>1
        <5>2. (0 + n) % n = 0
          BY <1>1, <2>2, <5>1
        <5> QED
          BY <4>1, <5>1, <5>2
      <4>2. CASE i # n
        <5>1. i \in 0..(n - 1)
          BY <1>1, <4>2
        <5> QED
          BY <1>1, <2>2, <4>2, <5>1
      <4> QED
        BY <4>1, <4>2
    <3> QED
      BY <1>1, <1>5, <1>6, <1>8, <1>10, <2>1, <2>4, <3>1, <3>2
  <2> QED
    BY <2>3, <2>4
<1> QED
  BY <1>9, <1>10

LEMMA RemovalLeaves ==
  ASSUME Aligned, Aligned', IdentitiesMatch, NEW i \in SlotSet, RemoveSlotAt(i), now' = now
  PROVE  Registry!Next
<1> DEFINE n == Len(entries)
           J(j) == IF j < i THEN j ELSE j + 1
           b == entries[i]
<1>1. /\ n \in Nat \ {0} /\ i \in 1..n /\ SlotSet = 1..n /\ SlotSet' = 1..(n - 1)
      /\ \A j \in 1..(n - 1) : /\ J(j) \in 1..n /\ J(j) # i
                               /\ entries'[j] = entries[J(j)]
                               /\ rot'.cooling[j] = rot.cooling[J(j)]
                               /\ quotaCoolUntil'[j] = quotaCoolUntil[J(j)]
                               /\ busy'[j] = busy[J(j)]
      /\ \A k \in 1..n : k # i => \E j \in 1..(n - 1) : J(j) = k
  BY RemovalShifts
<1>2. identities' = [j \in {k \in 1..(n - 1) : J(k) \in DOMAIN identities} |-> identities[J(j)]]
  BY RemovalShifts
<1>3. ReadThrough /\ ReadThrough'
  BY AlignedReads, PTL
<1> HIDE DEF n, J
<1>4. /\ \A j \in 1..n : entries[j] \in Members /\ (entries[j] = b <=> j = i)
      /\ b \in Accounts /\ b \in Members /\ SlotOf(b) = i /\ Registry!Place(b) = i
  BY <1>1, <1>3 DEF ReadThrough
<1>5. Members' = Members \ {b}
  <2>1. Members' = {entries'[j] : j \in 1..(n - 1)}
    BY <1>1 DEF Members
  <2>2. Members = {entries[j] : j \in 1..n}
    BY <1>1 DEF Members
  <2> HIDE DEF b
  <2>3. ASSUME NEW a \in Members' PROVE a \in Members /\ a # b
    <3>1. PICK j \in 1..(n - 1) : a = entries'[j]
      BY <2>1, <2>3
    <3>2. J(j) \in 1..n /\ J(j) # i /\ a = entries[J(j)]
      BY <1>1, <3>1
    <3> QED
      BY <1>4, <3>2
  <2>4. ASSUME NEW a \in Members, a # b PROVE a \in Members'
    <3>1. PICK k \in 1..n : a = entries[k]
      BY <2>2, <2>4
    <3>2. PICK j \in 1..(n - 1) : J(j) = k
      BY <1>1, <1>4, <2>4, <3>1
    <3>3. a = entries'[j]
      BY <1>1, <3>1, <3>2
    <3> QED
      BY <2>1, <3>3
  <2> QED
    BY <2>3, <2>4
<1>6. LastServed' = IF LastServed = b THEN NoAccount ELSE LastServed
  <2>1. lastRotation \in 1..n \cup {0}
    BY <1>1 DEF Aligned, SlotsAligned, NoSlot
  <2>2. lastRotation' = IF lastRotation = i THEN 0
                        ELSE IF lastRotation > i THEN lastRotation - 1 ELSE lastRotation
    BY <1>1, <2>1 DEF RemoveSlotAt, NoSlot
  <2>3. CASE lastRotation = 0
    BY <1>1, <2>2, <2>3 DEF LastServed, NoSlot
  <2>4. CASE lastRotation = i
    BY <1>1, <2>2, <2>4 DEF LastServed, NoSlot
  <2>5. CASE lastRotation \in 1..n /\ lastRotation # i
    <3>1. lastRotation' \in 1..(n - 1) /\ J(lastRotation') = lastRotation
      BY <1>1, <2>2, <2>5 DEF J
    <3>2. entries'[lastRotation'] = entries[lastRotation]
      BY <1>1, <3>1
    <3>3. lastRotation # 0 /\ lastRotation' # 0
      BY <1>1, <2>5, <3>1
    <3> QED
      BY <1>4, <2>5, <3>2, <3>3 DEF LastServed, NoSlot
  <2> QED
    BY <2>1, <2>3, <2>4, <2>5
<1> HIDE DEF b
<1>7. ASSUME NEW a \in Accounts
      PROVE  /\ CoolsUntil'[a] = IF a = b THEN 0 ELSE CoolsUntil[a]
             /\ HeldUntil'[a] = IF a = b THEN 0 ELSE HeldUntil[a]
  <2>1. CASE a \in Members'
    <3> DEFINE j == SlotOf(a)'
    <3>1. /\ j \in 1..(n - 1) /\ entries'[j] = a
          /\ CoolsUntil'[a] = rot'.cooling[j] /\ HeldUntil'[a] = quotaCoolUntil'[j]
      BY <1>1, <1>3, <2>1 DEF ReadThrough
    <3> HIDE DEF j
    <3>2. SlotOf(a) = J(j) /\ a \in Members /\ a # b
      BY <1>1, <1>3, <1>5, <2>1, <3>1 DEF ReadThrough
    <3>3. CoolsUntil[a] = rot.cooling[J(j)] /\ HeldUntil[a] = quotaCoolUntil[J(j)]
      BY <1>3, <3>2 DEF ReadThrough
    <3> QED
      BY <1>1, <3>1, <3>2, <3>3
  <2>2. CASE a \notin Members'
    <3>1. CoolsUntil'[a] = 0 /\ HeldUntil'[a] = 0
      BY <1>3, <2>2 DEF ReadThrough
    <3>2. a # b => CoolsUntil[a] = 0 /\ HeldUntil[a] = 0
      BY <1>3, <1>5, <2>2 DEF ReadThrough
    <3> QED
      BY <3>1, <3>2
  <2> QED
    BY <2>1, <2>2
<1>8. /\ CoolsUntil' = [CoolsUntil EXCEPT ![b] = 0]
      /\ HeldUntil' = [HeldUntil EXCEPT ![b] = 0]
  <2>1. /\ CoolsUntil = [a \in Accounts |-> CoolsUntil[a]]
        /\ HeldUntil = [a \in Accounts |-> HeldUntil[a]]
        /\ CoolsUntil' = [a \in Accounts |-> CoolsUntil'[a]]
        /\ HeldUntil' = [a \in Accounts |-> HeldUntil'[a]]
    BY DEF CoolsUntil, HeldUntil, ByAccount
  <2> QED
    BY <1>7, <2>1
<1>9. Asked' = Asked \ {b}
  <2>1. Asked' = {entries'[j] : j \in {k \in 1..(n - 1) : busy'[k]}}
    BY <1>1 DEF Asked
  <2>2. Asked = {entries[j] : j \in {k \in 1..n : busy[k]}}
    BY <1>1 DEF Asked
  <2>3. ASSUME NEW a \in Asked' PROVE a \in Asked /\ a # b
    <3>1. PICK j \in 1..(n - 1) : busy'[j] /\ a = entries'[j]
      BY <2>1, <2>3
    <3>2. J(j) \in 1..n /\ J(j) # i /\ busy[J(j)] /\ a = entries[J(j)]
      BY <1>1, <3>1
    <3> QED
      BY <1>4, <2>2, <3>2
  <2>4. ASSUME NEW a \in Asked, a # b PROVE a \in Asked'
    <3>1. PICK k \in 1..n : busy[k] /\ a = entries[k]
      BY <2>2, <2>4
    <3>2. PICK j \in 1..(n - 1) : J(j) = k
      BY <1>1, <1>4, <2>4, <3>1
    <3>3. busy'[j] /\ a = entries'[j]
      BY <1>1, <3>1, <3>2
    <3> QED
      BY <2>1, <3>3
  <2> QED
    BY <2>3, <2>4
<1>10. OnFile' = OnFile \ {b}
  <2>1. DOMAIN identities' = {k \in 1..(n - 1) : J(k) \in DOMAIN identities}
    BY <1>2
  <2>2. \A j \in DOMAIN identities' : identities'[j] = identities[J(j)]
    BY <1>2
  <2>3. \A k \in DOMAIN identities : k \in 1..n /\ identities[k] = entries[k]
    BY <1>1 DEF IdentitiesMatch, Aligned, SlotsAligned
  <2>4. ASSUME NEW a \in OnFile' PROVE a \in OnFile /\ a # b
    <3>1. PICK j \in DOMAIN identities' : a = identities'[j]
      BY <2>4 DEF OnFile
    <3>2. J(j) \in DOMAIN identities /\ J(j) # i /\ a = identities[J(j)]
      BY <1>1, <2>1, <2>2, <3>1
    <3> QED
      BY <1>4, <2>3, <3>2 DEF OnFile
  <2>5. ASSUME NEW a \in OnFile, a # b PROVE a \in OnFile'
    <3>1. PICK k \in DOMAIN identities : a = identities[k]
      BY <2>5 DEF OnFile
    <3>2. PICK j \in 1..(n - 1) : J(j) = k
      BY <1>1, <1>4, <2>3, <2>5, <3>1
    <3>3. j \in DOMAIN identities' /\ identities'[j] = a
      BY <2>1, <2>2, <3>1, <3>2
    <3> QED
      BY <3>3 DEF OnFile
  <2> QED
    BY <2>4, <2>5
<1>11. UpNext' = IF UpNext # b THEN UpNext
                 ELSE IF Members = {b} THEN NoAccount ELSE Registry!Successor(b)
  BY RemovalPassesTurn DEF b
<1>12. entries' = Registry!RemoveAt(entries, Registry!Place(b))
  BY <1>4 DEF RemoveSlotAt, RemoveAt, Registry!RemoveAt
<1>13. Registry!Leave(b)
  BY <1>4, <1>6, <1>8, <1>9, <1>10, <1>11, <1>12, PooledIsMembers DEF Registry!Leave
<1> QED
  BY <1>4, <1>13 DEF Registry!Next

-----------------------------------------------------------------------------
(* The refinement.                                                         *)

LEMMA InitRefines == Init => Registry!Init
<1> SUFFICES ASSUME Init PROVE Registry!Init
  OBVIOUS
<1>1. Aligned
  BY InitAligned
<1>2. ReadThrough
  BY <1>1, AlignedReads
<1>3. /\ entries = InitialAccounts /\ rot = NewCursor(Len(InitialAccounts))
      /\ quotaCoolUntil = [i \in 1..Len(InitialAccounts) |-> 0]
      /\ busy = [i \in 1..Len(InitialAccounts) |-> FALSE]
      /\ identities = <<>> /\ now = 0 /\ lastRotation = NoSlot
  BY DEF Init
<1>4. entries \in Seq(Accounts)
  BY <1>3, PoolAssumption DEF PoolAssumption
<1>5. \A i \in SlotSet : rot.cooling[i] = 0 /\ quotaCoolUntil[i] = 0 /\ ~busy[i]
  BY <1>3 DEF SlotSet, NewCursor
<1>6. CoolsUntil = [a \in Accounts |-> 0] /\ HeldUntil = [a \in Accounts |-> 0]
  <2>1. \A a \in Accounts : CoolsUntil[a] = 0 /\ HeldUntil[a] = 0
    BY <1>2, <1>5 DEF ReadThrough
  <2>2. /\ CoolsUntil = [a \in Accounts |-> CoolsUntil[a]]
        /\ HeldUntil = [a \in Accounts |-> HeldUntil[a]]
    BY DEF CoolsUntil, HeldUntil, ByAccount
  <2> QED
    BY <2>1, <2>2
<1>7. Asked = {} /\ OnFile = {}
  <2>1. Asked = {}
    BY <1>5 DEF Asked
  <2>2. DOMAIN identities = {}
    BY <1>3
  <2> QED
    BY <2>1, <2>2 DEF OnFile
<1>8. UpNext = (IF entries = <<>> THEN NoAccount ELSE entries[1]) /\ LastServed = NoAccount
  BY <1>3 DEF UpNext, LastServed, NewCursor
<1> QED
  BY <1>3, <1>4, <1>6, <1>7, <1>8 DEF Registry!Init

LEMMA NextRefines ==
  Aligned /\ Aligned' /\ IdentitiesMatch /\ HoldsAreShort /\ [Next]_vars
    => [Registry!Next]_(Registry!vars)
<1> SUFFICES ASSUME Aligned, Aligned', IdentitiesMatch, HoldsAreShort, [Next]_vars
             PROVE  Registry!Next \/ UNCHANGED Registry!vars
  OBVIOUS
<1>1. CASE Tick
  <2>1. SameSeats /\ UNCHANGED <<entries, rot, lastRotation, busy, quotaCoolUntil, identities>>
    BY <1>1 DEF Tick, slots, SameSeats
  <2>2. UNCHANGED <<UpNext, LastServed, CoolsUntil, HeldUntil, Asked, OnFile>>
    BY <2>1, SameDeadlinesRead, SameMarksRead DEF UpNext, LastServed
  <2>3. Registry!Tick
    BY <1>1, <2>1, <2>2 DEF Tick, Registry!Tick
  <2> QED
    BY <2>3 DEF Registry!Next
<1>2. CASE UNCHANGED vars
  BY <1>2, SameFactsRead DEF vars, slots
<1>3. ASSUME NEW r \in Requests, RequestStep(r) PROVE Registry!Next \/ UNCHANGED Registry!vars
  BY <1>3, NextCredentialServes, ReportRefuses, RefreshQuotaAsks DEF RequestStep
<1>4. ASSUME NEW f \in Fetchers, FetcherStep(f) PROVE Registry!Next \/ UNCHANGED Registry!vars
  <2>1. CASE FetchAnswers(f)
    <3>1. fetcher[f].creds \in Accounts
      BY <2>1, FetcherHoldsAccount DEF FetchAnswers
    <3> QED
      BY <2>1, <3>1, FilingLearns DEF FetchAnswers
  <2>2. CASE FetchFails(f) \/ QuotaNotEmpty(f) \/ \E delay \in ResetDelays : QuotaEmpty(f, delay)
    BY <2>2, SameFactsRead DEF FetchFails, QuotaNotEmpty, QuotaEmpty, slots
  <2> QED
    BY <1>4, <2>1, <2>2, ApplyQuotaHolds, ReleaseBusyReleases DEF FetcherStep
<1>5. ASSUME NEW a \in Accounts, AddAccount(a) PROVE Registry!Next
  BY <1>5, AddAccountJoins
<1>6. ASSUME NEW i \in SlotSet, RemoveIndex(i) PROVE Registry!Next
  BY <1>6, RemovalLeaves DEF RemoveIndex
<1>7. ASSUME NEW a \in Accounts, RemoveCredential(a) PROVE Registry!Next
  BY <1>7, SlotOfMember, RemovalLeaves DEF RemoveCredential
<1>8. ASSUME NEW a \in Accounts, Remember(a) PROVE Registry!Next \/ UNCHANGED Registry!vars
  BY <1>8, FilingLearns DEF Remember
<1>9. ASSUME NEW a \in Accounts, NEW at \in RecentPast, ClearCooldown(a, at)
      PROVE  Registry!Next \/ UNCHANGED Registry!vars
  BY <1>9, ClearCooldownLifts
<1> QED
  BY <1>1, <1>2, <1>3, <1>4, <1>5, <1>6, <1>7, <1>8, <1>9 DEF Next

(* Everything the pool keeps under a slot stays with the account it is     *)
(* about, and every step is one the registry, which has no slots, allows:  *)
(* whose turn it is, who cools and until when, who is held, asked about and*)
(* on file.                                                                *)
THEOREM PoolImplementsRegistry == Spec => ImplementsRegistry
<1>1. Spec => []Aligned
  BY InitAligned, NextAligned, PTL DEF Spec
<1>2. Spec => []IdentitiesMatch
  BY IdentitiesStay
<1>3. Init => HoldsAreShort
  BY DEF Init, HoldsAreShort
<1>4. Spec => []HoldsAreShort
  BY <1>1, <1>3, NextShort, PTL DEF Spec
<1> QED
  BY <1>1, <1>2, <1>4, InitRefines, NextRefines, PTL DEF Spec, ImplementsRegistry, Registry!Spec

-----------------------------------------------------------------------------
(* Fairness of the rotation.                                               *)

(* Whoever is served goes to the end of the walk, and those who were not   *)
(* passed over keep their order.                                           *)
LEMMA ServedGoesLast ==
  ASSUME NEW n \in Nat \ {0}, NEW s \in 1..n, NEW c \in 1..n, NEW p \in 1..n, NEW q \in 1..n,
         p # c, StepsTo(n, s, c) <= StepsTo(n, s, p)
  PROVE  LET t == (c % n) + 1
         IN  /\ StepsTo(n, t, p) < StepsTo(n, t, c)
             /\ StepsTo(n, s, p) < StepsTo(n, s, q) => StepsTo(n, t, p) < StepsTo(n, t, q)
<1> DEFINE t == (c % n) + 1
           Steps(m, x) == IF m <= x THEN x - m ELSE x - m + n
<1>1. t = IF c = n THEN 1 ELSE c + 1
  BY StepsAround
<1>2. t \in 1..n
  BY <1>1
<1> HIDE DEF t
<1>3. ASSUME NEW m \in {s, t}, NEW x \in {c, p, q} PROVE StepsTo(n, m, x) = Steps(m, x)
  <2>1. m \in 1..n /\ x \in 1..n
    BY <1>2
  <2> QED
    BY <2>1, StepsAround
<1>4. Steps(s, c) <= Steps(s, p)
  BY <1>3
<1>5. Steps(t, p) < Steps(t, c)
  BY <1>1, <1>2, <1>4
<1>6. Steps(s, p) < Steps(s, q) => Steps(t, p) < Steps(t, q)
  BY <1>1, <1>2, <1>4
<1> HIDE DEF Steps
<1>7. /\ StepsTo(n, t, p) < StepsTo(n, t, c)
      /\ StepsTo(n, s, p) < StepsTo(n, s, q) => StepsTo(n, t, p) < StepsTo(n, t, q)
  BY <1>3, <1>5, <1>6
<1> QED
  BY <1>7 DEF t

LEMMA JoiningKeepsOrder ==
  ASSUME NEW n \in Nat \ {0}, NEW s \in 1..n, NEW p \in 1..n, NEW q \in 1..n,
         StepsTo(n, s, p) < StepsTo(n, s, q)
  PROVE  StepsTo(n + 1, s, p) < StepsTo(n + 1, s, q)
<1>1. \A x \in {p, q} : StepsTo(n, s, x) = IF s <= x THEN x - s ELSE x - s + n
  BY StepsAround
<1>2. ASSUME NEW x \in {p, q}
      PROVE  StepsTo(n + 1, s, x) = IF s <= x THEN x - s ELSE x - s + (n + 1)
  <2> DEFINE m == n + 1
  <2>1. m \in Nat \ {0} /\ s \in 1..m /\ x \in 1..m
    OBVIOUS
  <2> HIDE DEF m
  <2>2. StepsTo(m, s, x) = IF s <= x THEN x - s ELSE x - s + m
    BY <2>1, StepsAround
  <2> QED
    BY <2>2 DEF m
<1> QED
  BY <1>1, <1>2

LEMMA LeavingKeepsOrder ==
  ASSUME NEW n \in Nat, n > 1, NEW s \in 1..n, NEW i \in 1..n,
         NEW p \in 1..(n - 1), NEW q \in 1..(n - 1)
  PROVE  LET J(j)  == IF j < i THEN j ELSE j + 1
             moved == IF i < s THEN s - 1 ELSE s
             t     == IF moved > n - 1 THEN 1 ELSE moved
         IN  StepsTo(n, s, J(p)) < StepsTo(n, s, J(q)) => StepsTo(n - 1, t, p) < StepsTo(n - 1, t, q)
<1> DEFINE J(j)  == IF j < i THEN j ELSE j + 1
           moved == IF i < s THEN s - 1 ELSE s
           t     == IF moved > n - 1 THEN 1 ELSE moved
<1>1. t \in 1..(n - 1) /\ J(p) \in 1..n /\ J(q) \in 1..n
  OBVIOUS
<1>2. ASSUME NEW x \in {J(p), J(q)} PROVE StepsTo(n, s, x) = IF s <= x THEN x - s ELSE x - s + n
  <2> HIDE DEF J
  <2>1. x \in 1..n /\ n \in Nat \ {0}
    BY <1>1
  <2> QED
    BY <2>1, StepsAround
<1>3. ASSUME NEW x \in {p, q}
      PROVE  StepsTo(n - 1, t, x) = IF t <= x THEN x - t ELSE x - t + (n - 1)
  <2> DEFINE m == n - 1
  <2>1. m \in Nat \ {0} /\ t \in 1..m /\ x \in 1..m
    BY <1>1
  <2> HIDE DEF m, t
  <2>2. StepsTo(m, t, x) = IF t <= x THEN x - t ELSE x - t + m
    BY <2>1, StepsAround
  <2> QED
    BY <2>2 DEF m
<1>4. ASSUME StepsTo(n, s, J(p)) < StepsTo(n, s, J(q)) PROVE StepsTo(n - 1, t, p) < StepsTo(n - 1, t, q)
  BY <1>1, <1>2, <1>3, <1>4
<1> QED
  BY <1>4

(* How many turns away an account is.                                      *)
Turn(a) == StepsTo(Len(entries), rot.next, SlotOf(a))

(* Who was served while a ready account waited is behind it, or has left   *)
(* for good.                                                               *)
TurnsInv ==
  \A a \in Accounts : Ready(a) =>
    \A b \in waiting[a] : /\ b \in Accounts /\ poolIndex[b] # 0
                          /\ b \in Members => Turn(a) < Turn(b)

(* What a step may do to the order: pass nobody over, and bring nobody     *)
(* back.                                                                   *)
OrderKept ==
  \A a, b \in Members :
    a \in Members' /\ b \in Members' /\ Turn(a) < Turn(b) => Turn(a)' < Turn(b)'

NobodyReturns ==
  \A b \in Accounts : poolIndex[b] # 0 => poolIndex'[b] # 0 /\ (b \in Members' => b \in Members)

Watches ==
  waiting' = [a \in Accounts |->
    IF ~(Ready(a) /\ Ready(a)') \/ Serves(a) THEN {}
    ELSE waiting[a] \cup {b \in Members : Serves(b)}]

LEMMA WaitingGrows ==
  ASSUME Watches, NEW a \in Accounts, Ready(a)', NEW b \in waiting'[a]
  PROVE  Ready(a) /\ ~Serves(a) /\ (b \in waiting[a] \/ (b \in Members /\ Serves(b)))
BY DEF Watches

LEMMA QuietTurns ==
  ASSUME TurnsInv, Watches, OrderKept, NobodyReturns, \A b \in Members : ~Serves(b)
  PROVE  TurnsInv'
<1> SUFFICES ASSUME NEW a \in Accounts, Ready(a)', NEW b \in waiting'[a]
             PROVE  /\ b \in Accounts /\ poolIndex'[b] # 0
                    /\ b \in Members' => Turn(a)' < Turn(b)'
  BY DEF TurnsInv
<1>1. Ready(a) /\ b \in waiting[a]
  BY WaitingGrows
<1>2. b \in Accounts /\ poolIndex[b] # 0 /\ (b \in Members => Turn(a) < Turn(b))
  BY <1>1 DEF TurnsInv
<1>3. a \in Members /\ a \in Members'
  BY <1>1 DEF Ready
<1> QED
  BY <1>2, <1>3 DEF OrderKept, NobodyReturns

(* Nobody moves while the accounts keep their seats and the walk stands.   *)
LEMMA SeatedOrder ==
  ASSUME SameSeats, UNCHANGED rot.next
  PROVE  OrderKept /\ NobodyReturns
<1>1. \A a : Turn(a)' = Turn(a)
  BY SeatsKept DEF SameSeats, Turn
<1> QED
  BY <1>1, SeatsKept DEF SameSeats, OrderKept, NobodyReturns

LEMMA PooledAreIndexed ==
  ASSUME Aligned, NEW a \in Members
  PROVE  /\ a \in Accounts /\ poolIndex[a] # 0
         /\ SlotOf(a) \in SlotSet /\ entries[SlotOf(a)] = a
<1>1. a \in Accounts /\ SlotOf(a) \in SlotSet /\ entries[SlotOf(a)] = a
  BY AlignedReads DEF ReadThrough
<1> QED
  BY <1>1, AlignedParts DEF SlotOf, SlotSet, NoSlot

LEMMA TurnIsTurns ==
  ASSUME Aligned, NEW a \in Members
  PROVE  Registry!Turns(a) = Turn(a)
<1> DEFINE n == Len(entries)
           s == rot.next
<1>1. ReadThrough /\ SlotSet = 1..n /\ n \in Nat
  BY AlignedReads, AlignedParts DEF SlotSet
<1>2. SlotOf(a) \in 1..n
  BY <1>1 DEF ReadThrough
<1>3. s \in 1..n
  BY <1>1, <1>2 DEF Aligned, SlotsAligned
<1>4. UpNext = entries[s] /\ Registry!Place(UpNext) = s /\ Registry!Place(a) = SlotOf(a)
  BY <1>1, <1>2, <1>3 DEF UpNext, ReadThrough
<1> QED
  BY <1>4 DEF Registry!Turns, StepsTo, Turn

IndexesKnown == Aligned => \A a \in Members : poolIndex[a] # 0

LEMMA MembersKnown == IndexesKnown
BY PooledAreIndexed DEF IndexesKnown

(* Who is served is the first of the ready accounts on the walk.           *)
LEMMA PickedIsServed ==
  ASSUME Aligned, NEW r \in Requests, NextCredential(r)
  PROVE  LET c == entries[Picked(rot, now)]
         IN  /\ c \in Members /\ SlotOf(c) = Picked(rot, now)
             /\ \A b : Serves(b) <=> b = c
             /\ \A a \in Members : Ready(a) => Turn(c) <= Turn(a)
<1> DEFINE i == Picked(rot, now)
           c == entries[i]
<1>1. /\ entries # <<>>
      /\ \A q \in Requests : q # r => request'[q] = request[q]
      /\ request[r].stage = "idle" /\ request'[r] = [stage |-> "serving", creds |-> c]
  BY DEF NextCredential, Aligned, TypeOK
<1>2. \A b : Serves(b) <=> b = c
  BY <1>1 DEF Serves, ServedBy
<1>3. i \in SlotSet /\ Registry!MayServe(c)
  BY <1>1, PickedMayServe
<1>4. ReadThrough
  BY AlignedReads
<1>5. c \in Members /\ SlotOf(c) = i
  BY <1>3, <1>4 DEF ReadThrough
<1>6. ASSUME NEW a \in Members, Ready(a) PROVE Turn(c) <= Turn(a)
  <2>1. a \in Registry!Warm
    <3>1. /\ SlotOf(a) \in SlotSet /\ ~IsCooling(rot, SlotOf(a), now)
          /\ CoolsUntil[a] = rot.cooling[SlotOf(a)]
      BY <1>4, <1>6 DEF Ready, ReadThrough
    <3>2. rot.cooling[SlotOf(a)] \in Int /\ now \in Int
      BY <3>1, NumbersInSlots
    <3> QED
      BY <3>1, <3>2, PooledIsMembers DEF Registry!Warm, IsCooling
  <2>2. Registry!Turns(c) <= Registry!Turns(a)
    BY <1>3, <2>1 DEF Registry!MayServe
  <2> QED
    BY <1>5, <2>2, TurnIsTurns
<1> QED
  BY <1>2, <1>5, <1>6

LEMMA NextCredentialTurns ==
  ASSUME Aligned, Aligned', TurnsInv, Watches, NEW r \in Requests, NextCredential(r)
  PROVE  TurnsInv'
<1> DEFINE n == Len(entries)
           s == rot.next
           i == Picked(rot, now)
           c == entries[i]
<1>1. UNCHANGED <<now, entries, poolIndex>> /\ entries # <<>> /\ rot' = Advance(rot, i)
  BY DEF NextCredential
<1>2. /\ c \in Members /\ SlotOf(c) = i
      /\ \A b : Serves(b) <=> b = c
      /\ \A a \in Members : Ready(a) => Turn(c) <= Turn(a)
  BY PickedIsServed
<1>3. i \in SlotSet
  BY <1>1, PickedMayServe
<1>4. SlotSet = 1..n /\ n \in Nat /\ Len(rot.cooling) = n
  BY AlignedParts DEF SlotSet, Aligned, SlotsAligned
<1>6. s \in 1..n /\ n \in Nat \ {0}
  BY <1>3, <1>4 DEF Aligned, SlotsAligned
<1>9. rot'.next = (i % n) + 1
  BY <1>1, <1>4 DEF Advance, Aligned, TypeOK
<1>10. SameSeats
  BY <1>1 DEF SameSeats
<1>11. \A a : Turn(a)' = StepsTo(n, (i % n) + 1, SlotOf(a))
  BY <1>1, <1>9, <1>10, SeatsKept DEF Turn
<1> SUFFICES ASSUME NEW a \in Accounts, Ready(a)', NEW b \in waiting'[a]
             PROVE  /\ b \in Accounts /\ poolIndex'[b] # 0
                    /\ b \in Members' => Turn(a)' < Turn(b)'
  BY DEF TurnsInv
<1>12. Ready(a) /\ ~Serves(a) /\ (b \in waiting[a] \/ b = c)
  BY <1>2, WaitingGrows
<1>13. a \in Members /\ b \in Accounts /\ poolIndex[b] # 0 /\ a # c
  BY <1>2, <1>12, PooledAreIndexed DEF Ready, TurnsInv
<1>14. ASSUME b \in Members PROVE Turn(a)' < Turn(b)'
  <2> DEFINE p == SlotOf(a)
             q == SlotOf(b)
  <2>1. p \in 1..n /\ q \in 1..n /\ i \in 1..n /\ p # i /\ (b = c => q = i)
    BY <1>2, <1>3, <1>4, <1>13, <1>14, PooledAreIndexed
  <2>2. StepsTo(n, s, i) <= StepsTo(n, s, p)
    BY <1>2, <1>12, <1>13 DEF Turn
  <2>3. b = c \/ StepsTo(n, s, p) < StepsTo(n, s, q)
    BY <1>12, <1>14 DEF TurnsInv, Turn
  <2> HIDE DEF n, s, i, p, q
  <2>4. LET t == (i % n) + 1
        IN  /\ StepsTo(n, t, p) < StepsTo(n, t, i)
            /\ StepsTo(n, s, p) < StepsTo(n, s, q) => StepsTo(n, t, p) < StepsTo(n, t, q)
    BY <1>6, <2>1, <2>2, ServedGoesLast
  <2>5. Turn(a)' = StepsTo(n, (i % n) + 1, p) /\ Turn(b)' = StepsTo(n, (i % n) + 1, q)
    BY <1>11 DEF n, i, p, q
  <2> QED
    BY <2>1, <2>3, <2>4, <2>5
<1> QED
  BY <1>1, <1>10, <1>13, <1>14, SeatsKept DEF SameSeats

LEMMA AddAccountTurns ==
  ASSUME Aligned, Aligned', NEW b \in Accounts, AddAccount(b)
  PROVE  OrderKept /\ NobodyReturns
<1> DEFINE n == Len(entries)
<1>1. /\ n \in Nat /\ SlotSet = 1..n /\ SlotSet' = 1..(n + 1) /\ Len(entries') = n + 1
      /\ \A i \in 1..n : entries'[i] = entries[i]
      /\ entries'[n + 1] = b
  BY AlignedParts DEF AddAccount, SlotSet, Aligned, TypeOK
<1>2. poolIndex[b] = 0 /\ poolIndex' = [poolIndex EXCEPT ![b] = n + 1]
  BY DEF AddAccount
<1>3. Members' = Members \cup {b}
  BY <1>1 DEF Members
<1>4. rot'.next = rot.next
  <2>1. AppendSlot(rot).next = rot.next
    BY CursorUpdate DEF AppendSlot, Aligned, TypeOK
  <2> QED
    BY <2>1 DEF AddAccount
<1>5. \A a \in Members : a # b /\ SlotOf(a) \in 1..n /\ SlotOf(a)' = SlotOf(a)
  <2> SUFFICES ASSUME NEW a \in Members PROVE a # b /\ SlotOf(a) \in 1..n /\ SlotOf(a)' = SlotOf(a)
    OBVIOUS
  <2>1. a \in Accounts /\ SlotOf(a) \in 1..n /\ poolIndex[a] # 0 /\ entries[SlotOf(a)] = a
    BY <1>1, PooledAreIndexed
  <2>2. a # b
    BY <1>2, <2>1
  <2>3. ReadThrough'
    BY AlignedReads, PTL
  <2>4. \A i \in SlotSet' : entries'[i] = a => SlotOf(a)' = i
    BY <2>3 DEF ReadThrough
  <2> HIDE DEF n
  <2>5. SlotOf(a) \in 1..(n + 1) /\ entries'[SlotOf(a)] = a
    BY <1>1, <2>1
  <2> QED
    BY <1>1, <2>1, <2>2, <2>4, <2>5
<1>6. OrderKept
  <2> SUFFICES ASSUME NEW a \in Members, NEW d \in Members, Turn(a) < Turn(d)
               PROVE  Turn(a)' < Turn(d)'
    BY DEF OrderKept
  <2>1. /\ Turn(a)' = StepsTo(n + 1, rot.next, SlotOf(a))
        /\ Turn(d)' = StepsTo(n + 1, rot.next, SlotOf(d))
    BY <1>1, <1>4, <1>5 DEF Turn
  <2>2. n \in Nat \ {0} /\ rot.next \in 1..n
    BY <1>1, <1>5 DEF Aligned, SlotsAligned
  <2> HIDE DEF n
  <2>3. StepsTo(n, rot.next, SlotOf(a)) < StepsTo(n, rot.next, SlotOf(d))
    BY DEF Turn, n
  <2>4. SlotOf(a) \in 1..n /\ SlotOf(d) \in 1..n
    BY <1>5
  <2> QED
    BY <2>1, <2>2, <2>3, <2>4, JoiningKeepsOrder
<1>7. NobodyReturns
  BY <1>1, <1>2, <1>3 DEF NobodyReturns, Aligned, TypeOK
<1> QED
  BY <1>6, <1>7

LEMMA RemovalTurns ==
  ASSUME Aligned, Aligned', NEW i \in SlotSet, RemoveSlotAt(i)
  PROVE  OrderKept /\ NobodyReturns
<1> DEFINE n == Len(entries)
           s == rot.next
           J(j) == IF j < i THEN j ELSE j + 1
           t == rot'.next
<1>1. /\ n \in Nat \ {0} /\ i \in 1..n /\ SlotSet = 1..n /\ SlotSet' = 1..(n - 1)
      /\ \A j \in 1..(n - 1) : J(j) \in 1..n /\ entries'[j] = entries[J(j)]
  BY RemovalShifts
<1>2. Len(entries') = n - 1
  BY PlaceAfterRemoval DEF RemoveSlotAt
<1>3. ReadThrough
  BY AlignedReads
<1>4. ReadThrough'
  BY AlignedReads, PTL
<1>5. \A a \in Members' : a \in Members /\ SlotOf(a)' \in 1..(n - 1) /\ SlotOf(a) = J(SlotOf(a)')
  <2> SUFFICES ASSUME NEW a \in Members'
               PROVE  a \in Members /\ SlotOf(a)' \in 1..(n - 1) /\ SlotOf(a) = J(SlotOf(a)')
    OBVIOUS
  <2> DEFINE j == SlotOf(a)'
  <2>1. j \in 1..(n - 1) /\ entries'[j] = a
    BY <1>1, <1>4 DEF ReadThrough
  <2> HIDE DEF j
  <2>2. J(j) \in SlotSet /\ entries[J(j)] = a
    BY <1>1, <2>1
  <2> HIDE DEF J
  <2>3. a \in Members /\ SlotOf(a) = J(j)
    BY <1>3, <2>2 DEF ReadThrough
  <2> QED
    BY <2>1, <2>3 DEF j
<1>6. OrderKept
  <2> SUFFICES ASSUME NEW a \in Members', NEW d \in Members', Turn(a) < Turn(d)
               PROVE  Turn(a)' < Turn(d)'
    BY DEF OrderKept
  <2> DEFINE p == SlotOf(a)'
             q == SlotOf(d)'
  <2>1. p \in 1..(n - 1) /\ q \in 1..(n - 1)
    BY <1>5
  <2>2. StepsTo(n, s, J(p)) < StepsTo(n, s, J(q))
    BY <1>5 DEF Turn
  <2>3. Turn(a)' = StepsTo(n - 1, t, p) /\ Turn(d)' = StepsTo(n - 1, t, q)
    BY <1>2 DEF Turn
  <2>4. s \in 1..n
    <3>1. s \in SlotSet \/ s = 1
      BY DEF Aligned, SlotsAligned
    <3> HIDE DEF s, n
    <3> QED
      BY <1>1, <3>1
  <2>5. t = LET moved == IF i < s THEN s - 1 ELSE s
            IN  IF moved > n - 1 THEN 1 ELSE moved
    BY <1>1, <2>4 DEF RemoveSlotAt, RemoveSlot, Slots, Aligned, SlotsAligned
  <2> HIDE DEF n, s, p, q, t
  <2>6. n \in Nat /\ n > 1 /\ i \in 1..n
    BY <1>1, <2>1
  <2> QED
    BY <2>1, <2>2, <2>3, <2>4, <2>5, <2>6, LeavingKeepsOrder
<1>7. NobodyReturns
  <2> SUFFICES ASSUME NEW b \in Accounts, poolIndex[b] # 0 PROVE poolIndex'[b] # 0
    BY <1>5 DEF NobodyReturns
  <2>1. CASE b \in Members'
    <3>1. IndexesKnown'
      BY MembersKnown, PTL
    <3> QED
      BY <2>1, <3>1 DEF IndexesKnown
  <2>2. CASE b \notin Members'
    <3>1. poolIndex'[b] = PlaceIn(entries', b, poolIndex[b])
      BY DEF RemoveSlotAt
    <3>2. ~\E j \in 1..Len(entries') : entries'[j] = b
      BY <2>2 DEF Members, SlotSet
    <3> QED
      BY <3>1, <3>2 DEF PlaceIn
  <2> QED
    BY <2>1, <2>2
<1> QED
  BY <1>6, <1>7

LEMMA RefusalWalkStays ==
  ASSUME Aligned, NEW i, NEW cool
  PROVE  AfterRefusal(i, cool).next = rot.next
<1> DEFINE d == now + cool
           cooled == CoolOff(rot, i, d)
<1>1. rot = [next |-> rot.next, cooling |-> rot.cooling]
  BY DEF Aligned, TypeOK
<1>2. \E f : cooled = [next |-> rot.next, cooling |-> f]
  BY <1>1 DEF CoolOff, SetCooling
<1>3. PICK f : cooled = [next |-> rot.next, cooling |-> f]
  BY <1>2
<1> HIDE DEF cooled
<1>4. \A S, u : ClampCooling(cooled, S, u).next = rot.next
  BY <1>3 DEF ClampCooling
<1>5. AfterRefusal(i, cool) = cooled \/ \E S, u : AfterRefusal(i, cool) = ClampCooling(cooled, S, u)
  BY DEF AfterRefusal, cooled
<1> QED
  BY <1>3, <1>4, <1>5

(* Only a step of NextCredential serves anybody.                           *)
LEMMA NobodyServed ==
  ASSUME Aligned,
         \/ UNCHANGED request
         \/ \E r \in Requests : \E q : q.stage # "serving" /\ request' = [request EXCEPT ![r] = q]
  PROVE  \A b : ~Serves(b)
BY DEF Serves, ServedBy, Aligned, TypeOK

LEMMA ReportsIdle ==
  ASSUME NEW r \in Requests, RefreshQuota(r) \/ \E err \in Errors \cup {Served} : Report(r, err)
  PROVE  \E q : q.stage # "serving" /\ request' = [request EXCEPT ![r] = q]
<1>1. CASE IdleRequest(r)
  BY <1>1 DEF IdleRequest
<1>2. CASE \E a : request' = [request EXCEPT ![r] = [stage |-> "refreshing", creds |-> a]]
  BY <1>2
<1> QED
  BY <1>1, <1>2 DEF Report, RefreshQuota

LEMMA SeatedTurns ==
  ASSUME TurnsInv, Watches, SameSeats, UNCHANGED rot.next, \A b : ~Serves(b)
  PROVE  TurnsInv'
BY SeatedOrder, QuietTurns

LEMMA RequestTurns ==
  ASSUME Aligned, Aligned', TurnsInv, Watches, NEW r \in Requests, RequestStep(r)
  PROVE  TurnsInv'
<1>1. CASE NextCredential(r)
  BY <1>1, NextCredentialTurns
<1>2. ASSUME NEW err \in Errors \cup {Served}, Report(r, err) PROVE TurnsInv'
  <2>1. SameSeats /\ rot'.next = rot.next
    BY <1>2, RefusalWalkStays DEF Report, SameSeats
  <2> QED
    BY <1>2, <2>1, ReportsIdle, NobodyServed, SeatedTurns
<1>3. CASE RefreshQuota(r)
  <2>1. SameSeats /\ rot'.next = rot.next
    BY <1>3 DEF RefreshQuota, SameSeats
  <2> QED
    BY <1>3, <2>1, ReportsIdle, NobodyServed, SeatedTurns
<1> QED
  BY <1>1, <1>2, <1>3 DEF RequestStep

LEMMA FetcherTurns ==
  ASSUME Aligned, Aligned', TurnsInv, Watches, NEW f \in Fetchers, FetcherStep(f)
  PROVE  TurnsInv'
<1>1. UNCHANGED <<entries, poolIndex, request>>
  BY DEF FetcherStep, FetchFails, FetchAnswers, QuotaNotEmpty, QuotaEmpty, ApplyQuota,
         ReleaseBusy, slots
<1>2. rot'.next = rot.next
  <2>1. CASE ApplyQuota(f)
    BY <2>1, WalkStays DEF ApplyQuota
  <2>2. CASE ~ApplyQuota(f)
    BY <2>2 DEF FetcherStep, FetchFails, FetchAnswers, QuotaNotEmpty, QuotaEmpty,
                ReleaseBusy, slots
  <2> QED
    BY <2>1, <2>2
<1> QED
  BY <1>1, <1>2, NobodyServed, SeatedTurns DEF SameSeats

LEMMA TurnsStep == Aligned /\ Aligned' /\ TurnsInv /\ [RNext]_<<vars, waiting>> => TurnsInv'
<1> SUFFICES ASSUME Aligned, Aligned', TurnsInv, [RNext]_<<vars, waiting>> PROVE TurnsInv'
  OBVIOUS
<1>1. CASE UNCHANGED <<vars, waiting>>
  <2>1. /\ \A a : Ready(a)' = Ready(a) /\ Turn(a)' = Turn(a)
        /\ UNCHANGED <<waiting, poolIndex>> /\ Members' = Members
    BY <1>1 DEF vars, slots, Ready, Turn, Members, SlotSet, SlotOf
  <2> QED
    BY <2>1 DEF TurnsInv
<1>2. CASE RNext
  <2>1. Watches
    BY <1>2 DEF RNext, Watches
  <2>2. CASE Tick
    <3>1. SameSeats /\ UNCHANGED <<rot, request>>
      BY <2>2 DEF Tick, slots, SameSeats
    <3> QED
      BY <2>1, <3>1, NobodyServed, SeatedTurns
  <2>3. ASSUME NEW r \in Requests, RequestStep(r) PROVE TurnsInv'
    BY <2>1, <2>3, RequestTurns
  <2>4. ASSUME NEW f \in Fetchers, FetcherStep(f) PROVE TurnsInv'
    BY <2>1, <2>4, FetcherTurns
  <2>5. ASSUME NEW a \in Accounts, AddAccount(a) PROVE TurnsInv'
    <3>1. UNCHANGED request
      BY <2>5 DEF AddAccount
    <3> QED
      BY <2>1, <2>5, <3>1, NobodyServed, AddAccountTurns, QuietTurns
  <2>6. ASSUME NEW i \in SlotSet, RemoveSlotAt(i), UNCHANGED request PROVE TurnsInv'
    BY <2>1, <2>6, NobodyServed, RemovalTurns, QuietTurns
  <2>7. ASSUME NEW i \in SlotSet, RemoveIndex(i) PROVE TurnsInv'
    BY <2>6, <2>7 DEF RemoveIndex
  <2>8. ASSUME NEW a \in Accounts, RemoveCredential(a) PROVE TurnsInv'
    BY <2>6, <2>8, SlotOfMember DEF RemoveCredential
  <2>9. ASSUME NEW a \in Accounts, Remember(a) PROVE TurnsInv'
    <3>1. SameSeats /\ UNCHANGED <<rot, request>>
      BY <2>9 DEF Remember, SameSeats
    <3> QED
      BY <2>1, <3>1, NobodyServed, SeatedTurns
  <2>10. ASSUME NEW a \in Accounts, NEW at \in RecentPast, ClearCooldown(a, at) PROVE TurnsInv'
    <3>1. SameSeats /\ UNCHANGED request
      BY <2>10 DEF ClearCooldown, SameSeats
    <3>2. rot'.next = rot.next
      BY <2>10, WalkStays DEF ClearCooldown
    <3> QED
      BY <2>1, <3>1, <3>2, NobodyServed, SeatedTurns
  <2> QED
    BY <1>2, <2>2, <2>3, <2>4, <2>5, <2>7, <2>8, <2>9, <2>10 DEF RNext, Next
<1> QED
  BY <1>1, <1>2

LEMMA OnlyNextCredentialServes ==
  ASSUME Aligned, [RNext]_<<vars, waiting>>, NEW b, Serves(b)
  PROVE  \E r \in Requests : NextCredential(r)
<1> SUFFICES ASSUME \A r \in Requests : ~NextCredential(r)
             PROVE  \/ UNCHANGED request
                    \/ \E r \in Requests : \E q : q.stage # "serving" /\ request' = [request EXCEPT ![r] = q]
  BY NobodyServed
<1>1. ASSUME NEW r \in Requests, RequestStep(r)
      PROVE  \E q : q.stage # "serving" /\ request' = [request EXCEPT ![r] = q]
  BY <1>1, ReportsIdle DEF RequestStep
<1>2. ASSUME NEW f \in Fetchers, FetcherStep(f) PROVE UNCHANGED request
  BY <1>2 DEF FetcherStep, FetchFails, FetchAnswers, QuotaNotEmpty, QuotaEmpty, ApplyQuota,
         ReleaseBusy, slots
<1> QED
  BY <1>1, <1>2 DEF RNext, Next, Tick, AddAccount, RemoveIndex, RemoveCredential, Remember,
                    ClearCooldown, vars

(* The rotation is fair: nobody is served a second time while an account   *)
(* that is pooled and not cooling waits, whatever is added, removed, refused *)
(* and put back in between.                                                *)
THEOREM RotationIsFair == RSpec => FairTurns
<1> DEFINE Fair == \A a, b \in Members : Serves(b) /\ Ready(a) /\ a # b => b \notin waiting[a]
<1>1. RSpec => []Aligned
  <2>1. RInit => Aligned
    BY InitAligned DEF RInit
  <2>2. Aligned /\ [RNext]_<<vars, waiting>> => Aligned'
    BY NextAligned DEF RNext, vars
  <2> QED
    BY <2>1, <2>2, PTL DEF RSpec
<1>2. RInit => TurnsInv
  BY DEF RInit, TurnsInv
<1>3. RSpec => []TurnsInv
  BY <1>1, <1>2, TurnsStep, PTL DEF RSpec
<1>4. Aligned /\ TurnsInv /\ [RNext]_<<vars, waiting>> => [Fair]_<<vars, waiting>>
  <2> SUFFICES ASSUME Aligned, TurnsInv, [RNext]_<<vars, waiting>>,
                      NEW a \in Members, NEW b \in Members,
                      Serves(b), Ready(a), a # b, b \in waiting[a]
               PROVE  FALSE
    OBVIOUS
  <2>1. PICK r \in Requests : NextCredential(r)
    BY OnlyNextCredentialServes
  <2>2. Turn(b) <= Turn(a)
    BY <2>1, PickedIsServed
  <2>3. Turn(a) < Turn(b)
    BY PooledAreIndexed DEF TurnsInv
  <2>4. Turn(a) \in Int /\ Turn(b) \in Int
    BY TurnIsTurns, TurnsAreTheWalk
  <2> QED
    BY <2>2, <2>3, <2>4
<1> QED
  BY <1>1, <1>3, <1>4, PTL DEF RSpec, FairTurns

-----------------------------------------------------------------------------
(* The walk of a request, and what a refusal means.                        *)

(* The members whose cooldown ends before the deadline d.                  *)
Soon(d) == {a \in Members : CoolUntil(a) < d}

(* A walk and its hold on the pool are a chat c and a request q.           *)
Fresh(c) == Soon(c.began + CoolRateLimited)

(* The walk is undisturbed, and no cooldown that began with it is over.    *)
Trusted(c) == c.undisturbed /\ now < c.began + CoolRateLimited

InUse(q) == IF q.stage = "idle" THEN {} ELSE {q.creds}

Bounded(c, q) ==
  /\ c.stage = "walking" => Cardinality(Fresh(c)) <= c.limit - c.tries
  /\ c.stage = "asking"  => Cardinality(Fresh(c) \ InUse(q)) < c.limit - c.tries
  /\ c.stage = "refused" => Fresh(c) = {}

Good(c, q) ==
  /\ c.stage # "idle" => c.began <= now
  /\ c.stage = "asking" => q.stage \in {"idle", "serving"}
  /\ Trusted(c) => Bounded(c, q)

Stages == {"walking", "asking", "relaying", "refused", "answered"}

Walks ==
  [stage : Stages, tries : Nat, limit : Nat, began : Nat, undisturbed : BOOLEAN]

ChatStates == Walks \cup [stage : {"idle"}]

WalkInv ==
  /\ Aligned
  /\ chat \in [Requests -> ChatStates]
  /\ \A r \in Requests : \A c \in ChatStates, q \in RequestStates :
        chat[r] = c /\ request[r] = q => Good(c, q)

-----------------------------------------------------------------------------
(* Finite sets of accounts. *)

LEMMA MembersAreFew ==
  ASSUME Aligned
  PROVE  /\ IsFiniteSet(Members)
         /\ Cardinality(Members) <= Len(entries)
         /\ Cardinality(Members) \in Nat
<1> DEFINE n == Len(entries)
           served == [i \in 1..n |-> entries[i]]
<1>1. n \in Nat
  BY AlignedParts
<1>2. IsFiniteSet(1..n) /\ Cardinality(1..n) = n
  <2>1. 1 \in Int /\ n \in Int /\ (IF 1 > n THEN 0 ELSE n - 1 + 1) = n
    BY <1>1
  <2> QED
    BY <2>1, FS_Interval
<1>3. served \in Surjection(1..n, Members)
  BY DEF Surjection, Members, SlotSet
<1>4. IsFiniteSet(Members) /\ Cardinality(Members) <= Cardinality(1..n)
  BY <1>2, <1>3, FS_Surjection
<1> QED
  BY <1>2, <1>4, FS_CardinalityType

(* Fewer accounts, a smaller number of them.                               *)
LEMMA FewerMembers ==
  ASSUME Aligned, NEW S \in SUBSET Members, NEW T \in SUBSET S
  PROVE  /\ IsFiniteSet(S) /\ IsFiniteSet(T)
         /\ Cardinality(S) \in Nat /\ Cardinality(T) \in Nat
         /\ Cardinality(T) <= Cardinality(S)
<1>1. IsFiniteSet(S)
  BY MembersAreFew, FS_Subset
<1>2. IsFiniteSet(T) /\ Cardinality(T) <= Cardinality(S)
  BY <1>1, FS_Subset
<1> QED
  BY <1>1, <1>2, FS_CardinalityType

-----------------------------------------------------------------------------
(* No account comes into Soon(d) unless it is added or put back.           *)

NoneSooner == \A d \in Nat : d <= now + CoolRateLimited => Soon(d)' \subseteq Soon(d)

CooldownsTyped == Aligned => \A a \in Members : CoolUntil(a) \in Nat

LEMMA NumbersOfMembers == CooldownsTyped
BY MembersAreFound, NumbersInSlots, DeadlinesAreNatural DEF CoolUntil, CooldownsTyped

LEMMA SameCoolingNoneSooner ==
  ASSUME Aligned, UNCHANGED <<entries, poolIndex, rot.cooling>>
  PROVE  NoneSooner
<1>1. Members' = Members /\ SlotSet' = SlotSet
  BY DEF Members, SlotSet
<1>2. \A a \in Accounts : SlotOf(a)' = SlotOf(a)
  BY <1>1 DEF SlotOf
<1>3. \A a \in Members : CoolUntil(a)' = CoolUntil(a)
  BY <1>2, MembersAreFound DEF CoolUntil
<1> QED
  BY <1>1, <1>3 DEF NoneSooner, Soon

LEMMA KeptNoneSooner ==
  ASSUME Aligned, Aligned', CutShortOnlyIfAllowed, Members' \subseteq Members,
         \A a \in Members, at \in RecentPast : ~ClearCooldown(a, at)
  PROVE  NoneSooner
<1>1. SUFFICES ASSUME NEW d \in Nat, d <= now + CoolRateLimited,
                      NEW a \in Members', CoolUntil(a)' < d
               PROVE  CoolUntil(a) < d
  BY DEF NoneSooner, Soon
<1>2. a \in Members /\ CoolUntil(a) \in Nat /\ CoolUntil(a)' \in Nat
  <2>1. CoolUntil(a) \in Nat
    BY <1>1, NumbersOfMembers DEF CooldownsTyped
  <2>2. CooldownsTyped'
    BY NumbersOfMembers, PTL
  <2> QED
    BY <1>1, <2>1, <2>2 DEF CooldownsTyped
<1>3. ~(CoolUntil(a)' < CoolUntil(a) /\ CoolUntil(a)' # now + CoolRateLimited)
  BY <1>2 DEF CutShortOnlyIfAllowed
<1>4. now + CoolRateLimited \in Nat
  BY NumbersInSlots, PoolAssumption DEF PoolAssumption
<1> QED
  BY <1>1, <1>2, <1>3, <1>4

LEMMA NextCredentialNoneSooner ==
  ASSUME Aligned, NEW r \in Requests, NextCredential(r)
  PROVE  NoneSooner
<1>1. UNCHANGED <<entries, poolIndex>> /\ rot' = Advance(rot, Picked(rot, now))
  BY DEF NextCredential
<1>2. rot'.cooling = rot.cooling
  BY <1>1, CursorUpdate DEF Advance, Aligned, TypeOK
<1> QED
  BY <1>1, <1>2, SameCoolingNoneSooner

LEMMA ReportNoneSooner ==
  ASSUME Aligned, NEW r \in Requests, NEW err \in Errors \cup {Served}, Report(r, err)
  PROVE  NoneSooner
<1>1. UNCHANGED entries /\ request' # request
  <2>1. request'[r].stage # "serving" /\ request[r].stage = "serving"
    BY DEF Report, IdleRequest, Aligned, TypeOK
  <2> QED
    BY <2>1 DEF Report
<1>2. Members' = Members /\ \A a \in Members, at \in RecentPast : ~ClearCooldown(a, at)
  BY <1>1 DEF Members, SlotSet, ClearCooldown
<1>3. CutShortOnlyIfAllowed
  BY ReportKept
<1>4. Aligned'
  BY ReportAligned
<1> QED
  BY <1>2, <1>3, <1>4, KeptNoneSooner

LEMMA FetcherNoneSooner ==
  ASSUME Aligned, NEW f \in Fetchers, FetcherStep(f)
  PROVE  NoneSooner
<1>1. CASE ApplyQuota(f)
  <2>1. UNCHANGED entries /\ fetcher' # fetcher
    <3>1. fetcher'[f].stage # "applying" /\ fetcher[f].stage = "applying"
      BY <1>1 DEF ApplyQuota, FetcherMoves, Aligned, TypeOK
    <3> QED
      BY <1>1, <3>1 DEF ApplyQuota
  <2>2. Members' = Members /\ \A a \in Members, at \in RecentPast : ~ClearCooldown(a, at)
    BY <2>1 DEF Members, SlotSet, ClearCooldown
  <2> QED
    BY <1>1, <2>2, ApplyQuotaKept, ApplyQuotaAligned, KeptNoneSooner
<1>2. CASE ~ApplyQuota(f)
  <2>1. UNCHANGED <<entries, poolIndex, rot>>
    BY <1>2 DEF FetcherStep, FetchFails, FetchAnswers, QuotaNotEmpty, QuotaEmpty,
       ReleaseBusy, slots
  <2> QED
    BY <2>1, SameCoolingNoneSooner
<1> QED
  BY <1>1, <1>2

LEMMA RemovalNoneSooner ==
  ASSUME Aligned, NEW i \in SlotSet, RemoveSlotAt(i), UNCHANGED <<now, request, fetcher>>
  PROVE  NoneSooner
<1> DEFINE n == Len(entries)
<1>1. n \in Nat /\ SlotSet = 1..n /\ i \in 1..n
  BY AlignedParts DEF SlotSet
<1>2. /\ SlotSet' = 1..(n - 1)
      /\ \A j \in 1..(n - 1) : entries'[j] = IF j < i THEN entries[j] ELSE entries[j + 1]
      /\ Len(entries') = n - 1
  BY <1>1, PlaceAfterRemoval DEF RemoveSlotAt, SlotSet
<1> HIDE DEF n
<1>3. Members' \subseteq Members
  BY <1>1, <1>2 DEF Members
<1>4. entries' # entries
  BY <1>1, <1>2 DEF n
<1>5. Aligned' /\ CutShortOnlyIfAllowed
  <2>1. Aligned'
    BY RemoveSlotAtAligned
  <2> QED
    BY <2>1, RemoveSlotAtKept
<1> QED
  BY <1>3, <1>4, <1>5, KeptNoneSooner DEF ClearCooldown

(* Everything the pool does apart from taking an account in or back.       *)
LEMMA PoolWorksNoneSooner ==
  ASSUME Aligned, PoolWorks
  PROVE  Aligned' /\ NoneSooner /\ now' \in Nat /\ now' >= now /\ UNCHANGED request
<1>1. CASE Tick
  <2>1. UNCHANGED <<entries, poolIndex, rot, request>> /\ now' = now + 1
    BY <1>1 DEF Tick, slots
  <2> QED
    BY <1>1, <2>1, TickAligned, SameCoolingNoneSooner, NumbersInSlots
<1>2. ASSUME NEW f \in Fetchers, FetcherStep(f)
      PROVE  Aligned' /\ NoneSooner /\ now' \in Nat /\ now' >= now /\ UNCHANGED request
  <2>1. UNCHANGED <<now, request>>
    BY <1>2 DEF FetcherStep, FetchFails, FetchAnswers, QuotaNotEmpty, QuotaEmpty,
       ApplyQuota, ReleaseBusy
  <2> QED
    BY <1>2, <2>1, FetcherStepAligned, FetcherNoneSooner, NumbersInSlots
<1>3. ASSUME NEW i \in SlotSet, RemoveSlotAt(i), UNCHANGED <<now, request, fetcher>>
      PROVE  Aligned' /\ NoneSooner /\ now' \in Nat /\ now' >= now /\ UNCHANGED request
  BY <1>3, RemoveSlotAtAligned, RemovalNoneSooner, NumbersInSlots
<1> QED
  BY <1>1, <1>2, <1>3, SlotOfMember DEF PoolWorks, RemoveIndex, RemoveCredential
-----------------------------------------------------------------------------
(* What a try does to the count. *)

(* The account picked is one of those that count, unless none is left.     *)
LEMMA PickedCounts ==
  ASSUME Aligned, NEW r \in Requests, NextCredential(r), NEW d \in Nat, now < d
  PROVE  /\ request'[r].stage = "serving"
         /\ request'[r].creds \in Soon(d) \/ Soon(d) = {}
<1> DEFINE n == Len(entries)
           i == Picked(rot, now)
<1>1. Sound(rot, n, Deadlines) /\ n \in Nat \ {0} /\ now \in Nat /\ SlotSet = 1..n
  BY AlignedParts, NumbersInSlots, EmptySeq DEF NextCredential, Aligned, TypeOK, SlotSet
<1>2. rot \in Cursor /\ Len(rot.cooling) = n /\ Slots(rot) = SlotSet
  BY <1>1, DeadlinesAreNatural, SoundIsCursor DEF Sound, Slots
<1>3. /\ i \in SlotSet
      /\ WarmSlots(rot, now) # {} => i \in WarmSlots(rot, now)
      /\ WarmSlots(rot, now) = {} =>
           \A j \in SlotSet : rot.cooling[i] <= rot.cooling[j]
  BY <1>1, <1>2, PickedIsBest
<1>4. request'[r] = [stage |-> "serving", creds |-> entries[i]]
  BY DEF NextCredential, Aligned, TypeOK
<1> HIDE DEF i
<1>5. entries[i] \in Members /\ CoolUntil(entries[i]) = rot.cooling[i]
  BY <1>3, SlotOfMember, AlignedParts DEF Members, CoolUntil
<1>6. \A j \in SlotSet : rot.cooling[j] \in Nat
  BY NumbersInSlots, DeadlinesAreNatural
<1>7. CASE rot.cooling[i] < d
  BY <1>4, <1>5, <1>7 DEF Soon
<1>8. CASE ~(rot.cooling[i] < d)
  <2>1. WarmSlots(rot, now) = {}
    BY <1>1, <1>3, <1>6, <1>8 DEF WarmSlots, IsCooling
  <2>2. ASSUME NEW a \in Members PROVE ~(CoolUntil(a) < d)
    BY <1>3, <1>6, <1>8, <2>1, MembersAreFound DEF CoolUntil
  <2> QED
    BY <1>4, <2>2 DEF Soon
<1> QED
  BY <1>7, <1>8

(* A refusal that is reported keeps its account out for at least the       *)
(* shorter of the two periods, even when the pool retracts it.             *)
LEMMA RefusedIsCooled ==
  ASSUME Aligned, NEW r \in Requests, NEW err \in Errors, Report(r, err),
         CoolPeriod(err) # 0, NEW d \in Nat, d <= now + CoolRateLimited,
         NEW a \in Accounts, a = request[r].creds
  PROVE  a \notin Soon(d)'
<1> DEFINE i == SlotOf(a)
           cool == CoolPeriod(err)
           cooled == CoolOff(rot, i, now + cool)
           n == Len(entries)
           spared == SlotSet \ Held
           soon == now + CoolRateLimited
<1>1. /\ UNCHANGED <<now, entries, poolIndex>>
      /\ i # NoSlot => rot' = AfterRefusal(i, cool)
  BY DEF Report
<1>2. SlotOf(a)' = i /\ Members' = Members
  BY <1>1 DEF SlotOf, SlotSet, Members
<1>3. CASE i = NoSlot
  <2>1. a \notin Members
    BY <1>3, MembersAreFound, AlignedParts DEF NoSlot, SlotSet
  <2> QED
    BY <1>2, <2>1 DEF Soon
<1>4. CASE i # NoSlot
  <2>1. i \in SlotSet /\ SlotSet = 1..n /\ n \in Nat
    BY <1>2, <1>4, SlotOfMember, AlignedParts DEF SlotSet
  <2>2. cool \in {CoolRejected, CoolRateLimited}
    BY CoolPeriods
  <2>3. /\ now + cool \in Deadlines /\ soon \in Deadlines /\ Deadlines \in SUBSET Nat
        /\ now + cool >= soon
    <3>1. now \in 0..MaxNow /\ now \in Nat
      BY NumbersInSlots DEF Aligned, TypeOK
    <3>2. now + cool \in Deadlines /\ soon \in Deadlines /\ Deadlines \in SUBSET Nat
      BY <2>2, <3>1, DeadlinesAreNatural
    <3>3. now + cool >= soon
      BY <2>2, <3>1, PoolAssumption DEF PoolAssumption
    <3> QED
      BY <3>2, <3>3
  <2>4. Sound(rot, n, Deadlines)
    BY AlignedParts
  <2>5. rot' = IF Systemic(i, cool, cooled) THEN ClampCooling(cooled, spared, soon) ELSE cooled
    BY <1>1, <1>4 DEF AfterRefusal
  <2> HIDE DEF i, cool, n, soon, spared
  <2>6. Sound(cooled, n, Deadlines) /\ OnlyPushes(rot, cooled, n, i, now + cool)
    <3> DEFINE e == now + cool
    <3>1. i \in 1..n /\ n \in Nat /\ e \in Deadlines /\ Deadlines \in SUBSET Nat
      BY <2>1, <2>3
    <3> HIDE DEF e
    <3>2. Sound(CoolOff(rot, i, e), n, Deadlines) /\ OnlyPushes(rot, CoolOff(rot, i, e), n, i, e)
      BY <2>4, <3>1, CoolOffSound
    <3> QED
      BY <3>2 DEF e
  <2> HIDE DEF cooled
  <2>7. ClampCooling(cooled, spared, soon) = rot' =>
           OnlyPullsIn(cooled, rot', n, spared, soon)
    BY <2>1, <2>3, <2>6, ClampCoolingSound
  <2>8. cooled.cooling[i] >= soon /\ cooled.cooling[i] \in Int /\ soon \in Int
    <3>1. rot.cooling[i] \in Int /\ now + cool \in Int /\ soon \in Int
      BY <2>1, <2>3, NumbersInSlots
    <3> QED
      BY <2>1, <2>3, <2>6, <3>1 DEF OnlyPushes
  <2>9. rot'.cooling[i] >= soon /\ rot'.cooling[i] \in Int
    BY <2>1, <2>5, <2>7, <2>8 DEF OnlyPullsIn
  <2>10. ~(CoolUntil(a)' < d)
    BY <1>2, <2>8, <2>9 DEF CoolUntil, soon
  <2> QED
    BY <2>10 DEF Soon
<1> QED
  BY <1>3, <1>4

(* A walk goes on only from a refusal that cools.                          *)
LEMMA RefusalsCool ==
  ASSUME NEW err \in Errors, IsAccountRefusal(err)
  PROVE  CoolPeriod(err) # 0
<1>1. RefusalStatus(err) \in {401, 403, 429}
  BY DEF IsAccountRefusal, RefusalStatus, StatusFromConnectCode
<1> QED
  BY <1>1, PoolAssumption DEF CoolPeriod, IsRejection, IsRateLimit, PoolAssumption
-----------------------------------------------------------------------------
(* The steps of a walk. *)

LEMMA WalkFields ==
  ASSUME NEW c \in Walks
  PROVE  /\ c.stage # "idle"
         /\ c.tries \in Nat /\ c.limit \in Nat /\ c.began \in Nat
         /\ c.began + CoolRateLimited \in Nat
BY PoolAssumption DEF Walks, Stages, PoolAssumption

LEMMA WalkMoves ==
  ASSUME NEW c \in Walks, NEW s \in Stages
  PROVE  /\ [c EXCEPT !.stage = s] \in Walks
         /\ [c EXCEPT !.stage = s].stage = s
         /\ [c EXCEPT !.stage = s].tries = c.tries
         /\ [c EXCEPT !.stage = s].limit = c.limit
         /\ [c EXCEPT !.stage = s].began = c.began
         /\ [c EXCEPT !.stage = s].undisturbed = c.undisturbed
BY DEF Walks

LEMMA WalkCounts ==
  ASSUME NEW c \in Walks, NEW t \in Nat
  PROVE  /\ [c EXCEPT !.tries = t] \in Walks
         /\ [c EXCEPT !.tries = t].stage = c.stage
         /\ [c EXCEPT !.tries = t].tries = t
         /\ [c EXCEPT !.tries = t].limit = c.limit
         /\ [c EXCEPT !.tries = t].began = c.began
         /\ [c EXCEPT !.tries = t].undisturbed = c.undisturbed
BY DEF Walks

(* What is true of a walk stays true while others work, as long as they    *)
(* neither add an account nor put one back.                                *)
LEMMA GoodStays ==
  ASSUME Aligned, NoneSooner, now' \in Nat, now' >= now,
         NEW c \in ChatStates, NEW q \in RequestStates, Good(c, q)
  PROVE  Good(c, q)'
<1>1. CASE c.stage = "idle"
  BY <1>1 DEF Good, Bounded
<1>2. CASE c.stage # "idle"
  <2>1. c \in Walks
    BY <1>2 DEF ChatStates
  <2>2. now \in Nat /\ c.began <= now /\ c.began <= now'
    BY <1>2, <2>1, NumbersInSlots, WalkFields DEF Good
  <2>3. SUFFICES ASSUME Trusted(c)' PROVE Bounded(c, q)'
    BY <2>2 DEF Good
  <2>4. Trusted(c) /\ Bounded(c, q)
    BY <2>1, <2>2, <2>3, WalkFields DEF Trusted, Good
  <2>5. Fresh(c)' \subseteq Fresh(c)
    <3>1. c.began + CoolRateLimited \in Nat /\ c.began + CoolRateLimited <= now + CoolRateLimited
      BY <2>1, <2>2, WalkFields, PoolAssumption DEF PoolAssumption
    <3> QED
      BY <3>1 DEF NoneSooner, Fresh
  <2> DEFINE F == Fresh(c)
             G == Fresh(c)'
             U == InUse(q)
  <2>6. F \subseteq Members
    BY DEF Fresh, Soon
  <2>7. /\ Cardinality(G) <= Cardinality(F)
        /\ Cardinality(G) \in Nat /\ Cardinality(F) \in Nat
    BY <2>5, <2>6, FewerMembers
  <2>8. /\ Cardinality(G \ U) <= Cardinality(F \ U)
        /\ Cardinality(G \ U) \in Nat /\ Cardinality(F \ U) \in Nat
    <3> HIDE DEF F, G, U
    <3>1. F \ U \in SUBSET Members /\ G \ U \in SUBSET (F \ U)
      BY <2>5, <2>6 DEF F, G
    <3> QED
      BY <3>1, FewerMembers
  <2>9. c.limit - c.tries \in Int
    BY <2>1, WalkFields
  <2> QED
    BY <2>4, <2>5, <2>7, <2>8, <2>9 DEF Bounded, InUse
<1> QED
  BY <1>1, <1>2

(* A step of one walk: what is left to show is that it is good itself.     *)
LEMMA WalkStep ==
  ASSUME WalkInv, NEW r \in Requests, NEW w \in ChatStates, NEW s \in RequestStates,
         Chat(r, w), request' = [request EXCEPT ![r] = s],
         Aligned', NoneSooner, UNCHANGED now, Good(w, s)'
  PROVE  WalkInv'
<1>1. chat' \in [Requests -> ChatStates]
  BY DEF Chat, WalkInv
<1>2. ASSUME NEW x \in Requests, NEW c \in ChatStates, NEW q \in RequestStates,
             chat'[x] = c, request'[x] = q
      PROVE  Good(c, q)'
  <2>1. CASE x = r
    <3>1. c = w /\ q = s
      BY <1>2, <2>1 DEF Chat, WalkInv, Aligned, TypeOK
    <3> QED
      BY <3>1
  <2>2. CASE x # r
    <3>1. chat[x] = c /\ request[x] = q
      BY <1>2, <2>2 DEF Chat, WalkInv, Aligned, TypeOK
    <3>2. Good(c, q) /\ Aligned
      BY <3>1 DEF WalkInv
    <3>3. now' \in Nat /\ now' >= now
      BY <3>2, NumbersInSlots
    <3> QED
      BY <3>2, <3>3, GoodStays
  <2> QED
    BY <2>1, <2>2
<1> QED
  BY <1>1, <1>2 DEF WalkInv
(* Where a request is, as the invariant knows it.                          *)
LEMMA WalkKnown ==
  ASSUME WalkInv, NEW r \in Requests
  PROVE  /\ Aligned
         /\ \E c \in ChatStates, q \in RequestStates :
               /\ chat[r] = c /\ request[r] = q
               /\ Good(c, q)
               /\ c.stage # "idle" => c \in Walks
               /\ chat = [chat EXCEPT ![r] = c]
               /\ request = [request EXCEPT ![r] = q]
<1>1. chat[r] \in ChatStates /\ request[r] \in RequestStates /\ Aligned
  BY DEF WalkInv, Aligned, TypeOK
<1>2. Good(chat[r], request[r])
  BY <1>1 DEF WalkInv
<1>3. chat = [chat EXCEPT ![r] = chat[r]] /\ request = [request EXCEPT ![r] = request[r]]
  BY DEF WalkInv, Aligned, TypeOK
<1> QED
  BY <1>1, <1>2, <1>3 DEF ChatStates

LEMMA QuietGood ==
  ASSUME NEW w \in ChatStates, NEW s \in RequestStates, UNCHANGED now,
         w.stage \in {"idle", "relaying", "answered"},
         w.stage # "idle" => w.began <= now
  PROVE  Good(w, s)'
BY DEF Good, Bounded

LEMMA ChatBeginsWalks ==
  ASSUME WalkInv, NEW r \in Requests, ChatBegins(r)
  PROVE  WalkInv'
<1>1. PICK c \in ChatStates, q \in RequestStates :
         request[r] = q /\ request = [request EXCEPT ![r] = q]
  BY WalkKnown
<1>2. Aligned /\ Len(entries) \in Nat /\ now \in Nat
  BY AlignedParts, NumbersInSlots DEF WalkInv
<1>3. PICK l \in Nat : l = Limit /\ l >= Len(entries)
  BY <1>2 DEF Limit
<1>4. PICK t \in Nat : t = now
  BY <1>2
<1> DEFINE w == [stage |-> "walking", tries |-> 0, limit |-> l, began |-> t,
                 undisturbed |-> TRUE]
<1>5. Chat(r, w) /\ UNCHANGED vars /\ w \in ChatStates
  BY <1>3, <1>4 DEF ChatBegins, ChatStates, Walks, Stages
<1>6. UNCHANGED <<now, entries, poolIndex, rot, request>>
  BY <1>5 DEF vars, slots
<1>7. Aligned'
  BY <1>2, <1>5, NextAligned
<1>8. NoneSooner
  BY <1>2, <1>6, SameCoolingNoneSooner
<1>9. Good(w, q)'
  <2>1. Cardinality(Members) <= l /\ Cardinality(Members) \in Nat /\ Members' = Members
    BY <1>2, <1>3, <1>6, MembersAreFew DEF Members, SlotSet
  <2>2. Soon(t + CoolRateLimited) \in SUBSET Members
    BY DEF Soon
  <2>3. /\ Cardinality(Soon(t + CoolRateLimited)) <= Cardinality(Members)
        /\ Cardinality(Soon(t + CoolRateLimited)) \in Nat
    BY <1>2, <2>2, FewerMembers
  <2>4. Soon(t + CoolRateLimited)' = Soon(t + CoolRateLimited)
    BY <1>6 DEF Soon, Members, SlotSet, CoolUntil, SlotOf
  <2>5. Cardinality(Fresh(w)') <= l
    BY <2>1, <2>3, <2>4 DEF Fresh
  <2> QED
    BY <1>3, <1>4, <1>6, <2>5 DEF Good, Bounded
<1> HIDE DEF w
<1> QED
  BY <1>1, <1>5, <1>6, <1>7, <1>8, <1>9, WalkStep

LEMMA AskNextWalks ==
  ASSUME WalkInv, NEW r \in Requests, AskNext(r)
  PROVE  WalkInv'
<1>1. PICK c \in ChatStates, q \in RequestStates :
         chat[r] = c /\ Good(c, q) /\ (c.stage # "idle" => c \in Walks)
  BY WalkKnown
<1>2. /\ c \in Walks /\ c.stage = "walking" /\ c.tries < c.limit
      /\ NextCredential(r) /\ Aligned
  BY <1>1 DEF AskNext, WalkInv
<1> DEFINE w == [c EXCEPT !.stage = "asking"]
<1>3. /\ Chat(r, w) /\ w \in Walks /\ w.stage = "asking" /\ w.tries = c.tries
      /\ w.limit = c.limit /\ w.began = c.began /\ w.undisturbed = c.undisturbed
  <2>1. Chat(r, w)
    BY <1>1 DEF AskNext, At
  <2>2. "asking" \in Stages
    BY DEF Stages
  <2> QED
    BY <1>2, <2>1, <2>2, WalkMoves
<1> HIDE DEF w
<1>4. PICK s \in RequestStates :
         /\ s = request'[r] /\ s.stage = "serving"
         /\ request' = [request EXCEPT ![r] = s]
  <2>1. Picked(rot, now) \in SlotSet
    <3>1. Sound(rot, Len(entries), Deadlines) /\ Len(entries) \in Nat \ {0} /\ now \in Nat
      BY <1>2, AlignedParts, NumbersInSlots, EmptySeq DEF NextCredential, Aligned, TypeOK
    <3>2. rot \in Cursor /\ Len(rot.cooling) = Len(entries)
      BY <3>1, DeadlinesAreNatural, SoundIsCursor DEF Sound
    <3> QED
      BY <3>1, <3>2, PickedIsSlot DEF Slots, SlotSet
  <2>2. [stage |-> "serving", creds |-> entries[Picked(rot, now)]] \in RequestStates
    BY <1>2, <2>1, AlignedParts DEF RequestStates
  <2> QED
    BY <1>2, <2>2 DEF NextCredential, Aligned, TypeOK
<1>5. Aligned' /\ NoneSooner /\ UNCHANGED now
  BY <1>2, NextCredentialAligned, NextCredentialNoneSooner DEF NextCredential
<1>6. ASSUME Trusted(c) PROVE Cardinality(Fresh(c)' \ InUse(s)) < c.limit - c.tries
  <2> DEFINE F == Fresh(c)
             G == Fresh(c)'
             d == c.began + CoolRateLimited
  <2>1. d \in Nat /\ now < d /\ d <= now + CoolRateLimited /\ c.limit - c.tries \in Nat \ {0}
    <3>1. c.began <= now /\ now \in Nat /\ CoolRateLimited \in Nat
      BY <1>1, <1>2, NumbersInSlots, PoolAssumption DEF Good, PoolAssumption
    <3> QED
      BY <1>2, <1>6, <3>1, WalkFields DEF Trusted
  <2>2. Cardinality(F) <= c.limit - c.tries
    BY <1>1, <1>2, <1>6 DEF Good, Bounded
  <2>3. s.creds \in F \/ F = {}
    BY <1>2, <1>4, <2>1, PickedCounts DEF Fresh
  <2>4. G \subseteq F
    BY <1>5, <2>1 DEF NoneSooner, Fresh
  <2>5. F \in SUBSET Members
    BY DEF Fresh, Soon
  <2>6. InUse(s) = {s.creds}
    BY <1>4 DEF InUse
  <2> HIDE DEF F, G, d
  <2>7. IsFiniteSet(F) /\ Cardinality(F) \in Nat
    BY <1>2, <2>5, FewerMembers
  <2>8. /\ Cardinality(G \ {s.creds}) <= Cardinality(F \ {s.creds})
        /\ Cardinality(G \ {s.creds}) \in Nat /\ Cardinality(F \ {s.creds}) \in Nat
    <3>1. F \ {s.creds} \in SUBSET Members /\ G \ {s.creds} \in SUBSET (F \ {s.creds})
      BY <2>4, <2>5
    <3> QED
      BY <1>2, <3>1, FewerMembers
  <2>9. Cardinality(F \ {s.creds}) = Cardinality(F) - 1 \/ Cardinality(F \ {s.creds}) = 0
    BY <2>3, <2>7, FS_RemoveElement, FS_EmptySet
  <2>10. Cardinality(G \ {s.creds}) < c.limit - c.tries
    BY <2>1, <2>2, <2>7, <2>8, <2>9
  <2> QED
    BY <2>6, <2>10 DEF G
<1>7. Good(w, s)'
  <2>1. Fresh(w)' = Fresh(c)' /\ (Trusted(w)' => Trusted(c))
    BY <1>3, <1>5 DEF Fresh, Soon, Trusted
  <2> QED
    BY <1>1, <1>2, <1>3, <1>4, <1>5, <1>6, <2>1 DEF Good, Bounded, InUse
<1> QED
  BY <1>3, <1>4, <1>5, <1>7, WalkStep DEF ChatStates

(* A step that does nothing to the pool.                                   *)
LEMMA PoolUntouched ==
  ASSUME Aligned, UNCHANGED vars
  PROVE  Aligned' /\ NoneSooner /\ UNCHANGED <<now, request>>
<1>1. UNCHANGED <<now, entries, poolIndex, rot, request>>
  BY DEF vars, slots
<1>2. Aligned'
  BY NextAligned
<1> QED
  BY <1>1, <1>2, SameCoolingNoneSooner

(* With an empty pool the stored credential is used: nobody counts.        *)
LEMMA AskStoredWalks ==
  ASSUME WalkInv, NEW r \in Requests, AskStored(r)
  PROVE  WalkInv'
<1>1. PICK c \in ChatStates, q \in RequestStates :
         /\ chat[r] = c /\ request[r] = q /\ Good(c, q)
         /\ c.stage # "idle" => c \in Walks
         /\ request = [request EXCEPT ![r] = q]
  BY WalkKnown
<1>2. /\ c \in Walks /\ c.stage = "walking" /\ c.tries < c.limit /\ q.stage = "idle"
      /\ entries = <<>> /\ Aligned /\ UNCHANGED vars
  BY <1>1 DEF AskStored, WalkInv
<1>3. PICK stage \in {"asking", "answered"} : Chat(r, [c EXCEPT !.stage = stage])
  BY <1>1 DEF AskStored, At
<1> DEFINE w == [c EXCEPT !.stage = stage]
<1>4. /\ Chat(r, w) /\ w \in Walks /\ w.stage = stage /\ w.tries = c.tries
      /\ w.limit = c.limit /\ w.began = c.began
  <2>1. stage \in Stages
    BY DEF Stages
  <2> QED
    BY <1>2, <1>3, <2>1, WalkMoves
<1> HIDE DEF w
<1>5. Aligned' /\ NoneSooner /\ UNCHANGED <<now, request>>
  BY <1>2, PoolUntouched
<1>6. Cardinality(Fresh(w)' \ InUse(q)) = 0
  <2>1. Members' = {}
    BY <1>2 DEF vars, slots, Members, SlotSet
  <2>2. Fresh(w)' \ InUse(q) = {}
    BY <2>1 DEF Fresh, Soon
  <2> QED
    BY <2>2, FS_EmptySet
<1>7. Good(w, q)'
  <2>1. w.stage # "walking" /\ w.stage # "refused" /\ 0 < w.limit - w.tries
    BY <1>2, <1>4, WalkFields
  <2>2. w.began <= now'
    BY <1>1, <1>2, <1>4, <1>5 DEF Good
  <2> QED
    BY <1>2, <1>6, <2>1, <2>2 DEF Good, Bounded, InUse
<1> QED
  BY <1>1, <1>4, <1>5, <1>7, WalkStep DEF ChatStates

(* The request lets go of its account, or goes on with it.                 *)
LEMMA LetsGo ==
  ASSUME Aligned, NEW r \in Requests,
         UNCHANGED <<now, slots, fetcher>>,
         NEW s \in RequestStates, request' = [request EXCEPT ![r] = s]
  PROVE  Aligned' /\ NoneSooner
<1>1. UNCHANGED <<entries, poolIndex, rot>>
  BY DEF slots
<1>2. request' \in [Requests -> RequestStates] /\ Sound(rot', Len(entries), Deadlines)
  BY <1>1, RequestUpdate, AlignedParts
<1>3. Aligned'
  BY <1>2, SameAccountsAligned DEF Aligned, TypeOK, SlotsAligned, slots
<1> QED
  BY <1>1, <1>3, SameCoolingNoneSooner

(* A walk that is over one way or the other, whatever its account is told. *)
LEMMA WalkSettles ==
  ASSUME WalkInv, NEW r \in Requests, chat[r].stage # "idle",
         NEW stage \in {"relaying", "answered"}, Chat(r, At(r, stage)),
         \/ UNCHANGED vars
         \/ Drop(r)
         \/ \E err \in Errors : Report(r, err)
  PROVE  WalkInv'
<1>1. PICK c \in ChatStates, q \in RequestStates :
         /\ chat[r] = c /\ request[r] = q /\ Good(c, q)
         /\ c.stage # "idle" => c \in Walks
         /\ request = [request EXCEPT ![r] = q]
  BY WalkKnown
<1> DEFINE w == [c EXCEPT !.stage = stage]
<1>2. c \in Walks /\ c.began <= now /\ Aligned
  BY <1>1 DEF Good, WalkInv
<1>3. Chat(r, w) /\ w \in Walks /\ w.stage = stage /\ w.began = c.began
  <2>1. stage \in Stages
    BY DEF Stages
  <2>2. w \in Walks /\ w.stage = stage /\ w.began = c.began
    BY <1>2, <2>1, WalkMoves
  <2>3. Chat(r, w)
    BY <1>1 DEF At
  <2> QED
    BY <2>2, <2>3
<1> HIDE DEF w
<1>4. \E s \in RequestStates :
         request' = [request EXCEPT ![r] = s] /\ Aligned' /\ NoneSooner /\ UNCHANGED now
  <2>1. CASE UNCHANGED vars
    BY <1>1, <1>2, <2>1, PoolUntouched
  <2>2. CASE Drop(r)
    <3>1. [stage |-> "idle"] \in RequestStates
      BY DEF RequestStates
    <3> QED
      BY <1>2, <2>2, <3>1, LetsGo DEF Drop, IdleRequest
  <2>3. ASSUME NEW err \in Errors, Report(r, err)
        PROVE  \E s \in RequestStates :
                  request' = [request EXCEPT ![r] = s] /\ Aligned' /\ NoneSooner
                  /\ UNCHANGED now
    <3>1. Aligned' /\ NoneSooner /\ UNCHANGED now
      BY <1>2, <2>3, ReportAligned, ReportNoneSooner DEF Report
    <3>2. request[r].creds \in Accounts
      BY <1>2, <2>3, RequestHoldsAccount DEF Report
    <3>3. /\ [stage |-> "idle"] \in RequestStates
          /\ [stage |-> "refreshing", creds |-> request[r].creds] \in RequestStates
      BY <3>2 DEF RequestStates
    <3> QED
      BY <2>3, <3>1, <3>3 DEF Report, IdleRequest
  <2> QED
    BY <2>1, <2>2, <2>3
<1>5. PICK s \in RequestStates :
         request' = [request EXCEPT ![r] = s] /\ Aligned' /\ NoneSooner /\ UNCHANGED now
  BY <1>4
<1>6. Good(w, s)'
  BY <1>2, <1>3, <1>5, QuietGood DEF ChatStates
<1> QED
  BY <1>3, <1>5, <1>6, WalkStep DEF ChatStates

LEMMA WalkEndsWalks ==
  ASSUME WalkInv, NEW r \in Requests, WalkEnds(r)
  PROVE  WalkInv'
<1>1. PICK c \in ChatStates, q \in RequestStates :
         /\ chat[r] = c /\ request[r] = q /\ Good(c, q)
         /\ c.stage # "idle" => c \in Walks
         /\ request = [request EXCEPT ![r] = q]
  BY WalkKnown
<1> DEFINE w == [c EXCEPT !.stage = "refused"]
<1>2. /\ c \in Walks /\ c.stage = "walking" /\ c.tries = c.limit /\ Aligned
      /\ UNCHANGED vars
  BY <1>1 DEF WalkEnds, WalkInv
<1>3. /\ Chat(r, w) /\ w \in Walks /\ w.stage = "refused" /\ w.began = c.began
      /\ w.undisturbed = c.undisturbed
  <2>1. Chat(r, w)
    BY <1>1 DEF WalkEnds, At
  <2>2. "refused" \in Stages
    BY DEF Stages
  <2> QED
    BY <1>2, <2>1, <2>2, WalkMoves
<1> HIDE DEF w
<1>4. Aligned' /\ NoneSooner /\ UNCHANGED <<now, request>>
  BY <1>2, PoolUntouched
<1>5. Good(c, q)'
  BY <1>1, <1>2, <1>4, NumbersInSlots, GoodStays
<1>6. ASSUME Trusted(c)' PROVE Fresh(c)' = {}
  <2> DEFINE F == Fresh(c)'
  <2>1. Cardinality(F) <= 0
    <3>1. Cardinality(F) <= c.limit - c.tries
      BY <1>2, <1>5, <1>6 DEF Good, Bounded
    <3>2. c.limit - c.tries = 0
      BY <1>2, WalkFields
    <3> QED
      BY <3>1, <3>2
  <2>2. UNCHANGED <<entries, poolIndex, rot>>
    BY <1>2 DEF vars, slots
  <2>3. F \in SUBSET Members
    BY <2>2 DEF Fresh, Soon, Members, SlotSet
  <2> HIDE DEF F
  <2>4. IsFiniteSet(F) /\ Cardinality(F) \in Nat
    BY <1>2, <2>3, FewerMembers
  <2>5. Cardinality(F) = 0
    BY <2>1, <2>4
  <2> QED
    BY <2>4, <2>5, FS_EmptySet DEF F
<1>7. Good(w, q)'
  <2>1. Fresh(w)' = Fresh(c)' /\ (Trusted(w)' => Trusted(c)')
    BY <1>3 DEF Fresh, Soon, Trusted
  <2> QED
    BY <1>2, <1>3, <1>5, <1>6, <2>1 DEF Good, Bounded
<1> QED
  BY <1>1, <1>3, <1>4, <1>7, WalkStep DEF ChatStates

(* A try that was refused: one account less, and one try.                  *)
LEMMA RefusedGood ==
  ASSUME Aligned, NoneSooner, UNCHANGED now,
         NEW c \in Walks, c.stage = "asking", NEW q \in RequestStates, Good(c, q),
         NEW s \in RequestStates,
         NEW w \in Walks, w.stage = "walking", w.tries = c.tries + 1, w.limit = c.limit,
         w.began = c.began, w.undisturbed = c.undisturbed,
         Trusted(c) => Fresh(c)' \cap InUse(q) = {}
  PROVE  Good(w, s)'
<1>1. now \in Nat /\ c.began <= now
  BY NumbersInSlots DEF Good
<1>2. SUFFICES ASSUME Trusted(w)' PROVE Cardinality(Fresh(w)') <= w.limit - w.tries
  BY <1>1 DEF Good, Bounded
<1>3. Trusted(c) /\ Fresh(w)' = Fresh(c)'
  BY <1>2 DEF Trusted, Fresh, Soon
<1> DEFINE F == Fresh(c)
           G == Fresh(c)'
           U == InUse(q)
<1>4. G \subseteq F
  <2>1. c.began + CoolRateLimited \in Nat /\ c.began + CoolRateLimited <= now + CoolRateLimited
    BY <1>1, WalkFields, PoolAssumption DEF PoolAssumption
  <2> QED
    BY <2>1 DEF NoneSooner, Fresh
<1>5. G \cap U = {} /\ Cardinality(F \ U) < c.limit - c.tries
  BY <1>3 DEF Good, Bounded
<1>6. F \subseteq Members
  BY DEF Fresh, Soon
<1> HIDE DEF F, G, U
<1>7. F \ U \in SUBSET Members /\ G \in SUBSET (F \ U)
  BY <1>4, <1>5, <1>6
<1>8. Cardinality(G) <= Cardinality(F \ U) /\ Cardinality(G) \in Nat /\ Cardinality(F \ U) \in Nat
  BY <1>7, FewerMembers
<1>9. Cardinality(G) <= w.limit - w.tries
  BY <1>5, <1>8, WalkFields
<1> QED
  BY <1>3, <1>9 DEF G

LEMMA AccountFailsWalks ==
  ASSUME WalkInv, NEW r \in Requests, NEW err \in Failures, AccountFails(r, err)
  PROVE  WalkInv'
<1>1. PICK c \in ChatStates, q \in RequestStates :
         /\ chat[r] = c /\ request[r] = q /\ Good(c, q)
         /\ c.stage # "idle" => c \in Walks
  BY WalkKnown
<1>2. /\ c \in Walks /\ c.stage = "asking" /\ q.stage = "serving" /\ Aligned
      /\ Report(r, err) /\ err \in Errors
  BY <1>1, GatewayAssumption DEF AccountFails, InHand, WalkInv, GatewayAssumption
<1>3. CASE ~IsAccountRefusal(err)
  BY <1>1, <1>2, <1>3, WalkSettles DEF AccountFails, AfterFailure
<1>4. CASE IsAccountRefusal(err)
  <2> DEFINE moved == [c EXCEPT !.stage = "walking"]
             w == [moved EXCEPT !.tries = c.tries + 1]
  <2>1. CoolPeriod(err) # 0
    BY <1>2, <1>4, RefusalsCool
  <2>2. /\ moved \in Walks /\ moved.stage = "walking" /\ moved.tries = c.tries
        /\ moved.limit = c.limit /\ moved.began = c.began /\ moved.undisturbed = c.undisturbed
    <3>1. "walking" \in Stages
      BY DEF Stages
    <3> QED
      BY <1>2, <3>1, WalkMoves
  <2>3. Chat(r, w)
    BY <1>1, <1>2, <1>4, <2>2 DEF AccountFails, AfterFailure, At
  <2> HIDE DEF moved
  <2>4. /\ w \in Walks /\ w.stage = "walking" /\ w.tries = c.tries + 1
        /\ w.limit = c.limit /\ w.began = c.began /\ w.undisturbed = c.undisturbed
    <3>1. c.tries + 1 \in Nat
      BY <1>2, WalkFields
    <3> QED
      BY <2>2, <3>1, WalkCounts
  <2> HIDE DEF w
  <2>5. Aligned' /\ NoneSooner /\ UNCHANGED now
    BY <1>2, ReportAligned, ReportNoneSooner DEF Report
  <2>6. PICK s \in RequestStates : request' = [request EXCEPT ![r] = s]
    <3>1. request[r].creds \in Accounts
      BY <1>2, RequestHoldsAccount DEF Report
    <3>2. /\ [stage |-> "idle"] \in RequestStates
          /\ [stage |-> "refreshing", creds |-> request[r].creds] \in RequestStates
      BY <3>1 DEF RequestStates
    <3> QED
      BY <1>2, <3>2 DEF Report, IdleRequest
  <2>7. q.creds \in Accounts /\ InUse(q) = {q.creds}
    BY <1>1, <1>2, RequestHoldsAccount DEF InUse
  <2>8. q.creds \notin Fresh(c)'
    <3> DEFINE d == c.began + CoolRateLimited
    <3>1. d \in Nat /\ d <= now + CoolRateLimited
      BY <1>1, <1>2, WalkFields, NumbersInSlots, PoolAssumption DEF Good, PoolAssumption
    <3>2. Fresh(c)' = Soon(d)'
      BY DEF Fresh
    <3> HIDE DEF d
    <3>3. q.creds \notin Soon(d)'
      BY <1>1, <1>2, <2>1, <2>7, <3>1, RefusedIsCooled
    <3> QED
      BY <3>2, <3>3
  <2>9. Good(w, s)'
    <3>1. Fresh(c)' \cap InUse(q) = {}
      BY <2>7, <2>8
    <3> QED
      BY <1>1, <1>2, <2>4, <2>5, <3>1, RefusedGood
  <2> QED
    BY <2>3, <2>4, <2>5, <2>6, <2>9, WalkStep DEF ChatStates
<1> QED
  BY <1>3, <1>4

LEMMA StoredFailsWalks ==
  ASSUME WalkInv, NEW r \in Requests, NEW err \in Failures, StoredFails(r, err)
  PROVE  WalkInv'
<1>1. PICK c \in ChatStates, q \in RequestStates :
         /\ chat[r] = c /\ request[r] = q /\ Good(c, q)
         /\ c.stage # "idle" => c \in Walks
         /\ request = [request EXCEPT ![r] = q]
  BY WalkKnown
<1>2. c \in Walks /\ c.stage = "asking" /\ q.stage = "idle" /\ Aligned /\ UNCHANGED vars
  BY <1>1 DEF StoredFails, InHand, WalkInv
<1>3. CASE ~IsAccountRefusal(err)
  BY <1>1, <1>2, <1>3, WalkSettles DEF StoredFails, AfterFailure
<1>4. CASE IsAccountRefusal(err)
  <2> DEFINE moved == [c EXCEPT !.stage = "walking"]
             w == [moved EXCEPT !.tries = c.tries + 1]
  <2>1. /\ moved \in Walks /\ moved.stage = "walking" /\ moved.tries = c.tries
        /\ moved.limit = c.limit /\ moved.began = c.began /\ moved.undisturbed = c.undisturbed
    <3>1. "walking" \in Stages
      BY DEF Stages
    <3> QED
      BY <1>2, <3>1, WalkMoves
  <2>2. Chat(r, w)
    BY <1>1, <1>2, <1>4, <2>1 DEF StoredFails, AfterFailure, At
  <2> HIDE DEF moved
  <2>3. /\ w \in Walks /\ w.stage = "walking" /\ w.tries = c.tries + 1
        /\ w.limit = c.limit /\ w.began = c.began /\ w.undisturbed = c.undisturbed
    <3>1. c.tries + 1 \in Nat
      BY <1>2, WalkFields
    <3> QED
      BY <2>1, <3>1, WalkCounts
  <2> HIDE DEF w
  <2>4. Aligned' /\ NoneSooner /\ UNCHANGED <<now, request>>
    BY <1>2, PoolUntouched
  <2>5. InUse(q) = {}
    BY <1>2 DEF InUse
  <2>6. Good(w, q)'
    BY <1>1, <1>2, <2>3, <2>4, <2>5, RefusedGood
  <2> QED
    BY <1>1, <2>2, <2>3, <2>4, <2>6, WalkStep DEF ChatStates
<1> QED
  BY <1>3, <1>4

LEMMA FinishReportWalks ==
  ASSUME WalkInv, NEW r \in Requests, FinishReport(r)
  PROVE  WalkInv'
<1>1. PICK c \in ChatStates, q \in RequestStates :
         /\ chat[r] = c /\ request[r] = q /\ Good(c, q)
         /\ chat = [chat EXCEPT ![r] = c]
  BY WalkKnown
<1>2. /\ q.stage = "refreshing" /\ Aligned /\ RefreshQuota(r) /\ Chat(r, c)
      /\ UNCHANGED <<now, entries, poolIndex, rot>>
  BY <1>1 DEF FinishReport, RefreshQuota, WalkInv, Chat
<1>3. Aligned' /\ NoneSooner
  BY <1>2, RefreshQuotaAligned, SameCoolingNoneSooner
<1>4. PICK s \in RequestStates : request' = [request EXCEPT ![r] = s]
  BY <1>2 DEF RefreshQuota, IdleRequest, RequestStates
<1>5. Good(c, q)'
  BY <1>1, <1>2, <1>3, NumbersInSlots, GoodStays
<1>6. c.stage # "asking"
  BY <1>1, <1>2 DEF Good
<1>7. Good(c, s)'
  BY <1>5, <1>6 DEF Good, Bounded
<1> QED
  BY <1>2, <1>3, <1>4, <1>7, WalkStep

LEMMA ClientReadsWalks ==
  ASSUME WalkInv, NEW r \in Requests, ClientReads(r)
  PROVE  WalkInv'
<1>1. PICK c \in ChatStates, q \in RequestStates :
         chat[r] = c /\ request[r] = q /\ request = [request EXCEPT ![r] = q]
  BY WalkKnown
<1> DEFINE w == [stage |-> "idle"]
<1>2. Chat(r, w) /\ w \in ChatStates /\ Aligned /\ UNCHANGED vars
  BY DEF ClientReads, WalkInv, ChatStates
<1>3. Aligned' /\ NoneSooner /\ UNCHANGED <<now, request>>
  BY <1>2, PoolUntouched
<1>4. Good(w, q)'
  BY <1>2, <1>3, QuietGood
<1> HIDE DEF w
<1> QED
  BY <1>1, <1>2, <1>3, <1>4, WalkStep

LEMMA ChatStepWalks ==
  ASSUME WalkInv, NEW r \in Requests, ChatStep(r)
  PROVE  WalkInv'
<1>1. CASE ChatBegins(r) \/ AskNext(r) \/ AskStored(r) \/ FinishReport(r) \/ WalkEnds(r)
           \/ ClientReads(r)
  BY <1>1, ChatBeginsWalks, AskNextWalks, AskStoredWalks, FinishReportWalks,
     WalkEndsWalks, ClientReadsWalks
<1>2. CASE BuildFails(r) \/ GivenUp(r) \/ Committed(r) \/ RelayEnds(r)
  BY <1>2, WalkSettles DEF BuildFails, GivenUp, Committed, RelayEnds
<1>3. ASSUME NEW err \in Failures,
             AccountFails(r, err) \/ StoredFails(r, err) \/ RelayFails(r, err)
      PROVE  WalkInv'
  <2>1. CASE RelayFails(r, err)
    <3>1. err \in Errors
      BY GatewayAssumption DEF GatewayAssumption
    <3>2. Drop(r) \/ \E e \in Errors : Report(r, e)
      BY <2>1, <3>1 DEF RelayFails
    <3> QED
      BY <2>1, <3>2, WalkSettles DEF RelayFails
  <2> QED
    BY <1>3, <2>1, AccountFailsWalks, StoredFailsWalks
<1> QED
  BY <1>1, <1>2, <1>3 DEF ChatStep

-----------------------------------------------------------------------------
(* The steps of everybody else. *)

LEMMA PoolWorksWalks ==
  ASSUME WalkInv, PoolWorks
  PROVE  WalkInv'
<1>1. /\ Aligned /\ Aligned' /\ NoneSooner /\ now' \in Nat /\ now' >= now
      /\ UNCHANGED <<request, chat>>
  BY PoolWorksNoneSooner DEF WalkInv, PoolWorks
<1>2. ASSUME NEW x \in Requests, NEW c \in ChatStates, NEW q \in RequestStates,
             chat'[x] = c, request'[x] = q
      PROVE  Good(c, q)'
  <2>1. Good(c, q)
    BY <1>1, <1>2 DEF WalkInv
  <2> QED
    BY <1>1, <2>1, GoodStays
<1> QED
  BY <1>1, <1>2 DEF WalkInv

(* An account that comes in or back ends what the walks under way promise. *)
LEMMA AccountComesWalks ==
  ASSUME WalkInv, AccountComes
  PROVE  WalkInv'
<1>1. /\ Aligned /\ Aligned' /\ UNCHANGED <<now, request>>
      /\ chat' = [r \in Requests |->
           IF chat[r].stage = "idle" THEN chat[r] ELSE [chat[r] EXCEPT !.undisturbed = FALSE]]
  BY AddAccountAligned, ClearCooldownAligned
     DEF WalkInv, AccountComes, Disturbed, AddAccount, ClearCooldown
<1>2. ASSUME NEW c \in Walks
      PROVE  /\ [c EXCEPT !.undisturbed = FALSE] \in Walks
             /\ ~[c EXCEPT !.undisturbed = FALSE].undisturbed
             /\ [c EXCEPT !.undisturbed = FALSE].stage = c.stage
             /\ [c EXCEPT !.undisturbed = FALSE].began = c.began
  BY DEF Walks
<1>3. chat' \in [Requests -> ChatStates]
  BY <1>1, <1>2 DEF WalkInv, ChatStates
<1>4. ASSUME NEW x \in Requests, NEW c \in ChatStates, NEW q \in RequestStates,
             chat'[x] = c, request'[x] = q
      PROVE  Good(c, q)'
  <2>1. PICK b \in ChatStates : chat[x] = b /\ Good(b, q)
    BY <1>1, <1>4 DEF WalkInv
  <2>2. CASE b.stage = "idle"
    BY <1>1, <1>4, <2>1, <2>2 DEF Good, Bounded
  <2>3. CASE b.stage # "idle"
    <3>1. b \in Walks /\ c = [b EXCEPT !.undisturbed = FALSE]
      BY <1>1, <1>4, <2>1, <2>3 DEF ChatStates
    <3>2. ~c.undisturbed /\ c.stage = b.stage /\ c.began = b.began
      BY <1>2, <3>1
    <3> QED
      BY <1>1, <2>1, <3>2 DEF Good, Trusted
  <2> QED
    BY <2>2, <2>3
<1> QED
  BY <1>1, <1>3, <1>4 DEF WalkInv

LEMMA InitWalks == GatewayInit => WalkInv
<1> SUFFICES ASSUME GatewayInit PROVE WalkInv
  OBVIOUS
<1>1. Aligned
  BY InitAligned DEF GatewayInit
<1>2. chat \in [Requests -> ChatStates] /\ \A r \in Requests : chat[r].stage = "idle"
  BY DEF GatewayInit, ChatStates
<1> QED
  BY <1>1, <1>2 DEF WalkInv, Good, Bounded

LEMMA NextWalks == WalkInv /\ [GatewayNext]_gatewayVars => WalkInv'
<1> SUFFICES ASSUME WalkInv, [GatewayNext]_gatewayVars PROVE WalkInv'
  OBVIOUS
<1>1. CASE UNCHANGED gatewayVars
  <2>1. UNCHANGED chat /\ UNCHANGED vars /\ Aligned
    BY <1>1 DEF gatewayVars, WalkInv
  <2>2. Aligned' /\ NoneSooner /\ UNCHANGED <<now, request>> /\ now \in Nat
    BY <2>1, PoolUntouched, NumbersInSlots
  <2>3. ASSUME NEW x \in Requests, NEW c \in ChatStates, NEW q \in RequestStates,
               chat'[x] = c, request'[x] = q
        PROVE  Good(c, q)'
    <3>1. Good(c, q)
      BY <2>1, <2>2, <2>3 DEF WalkInv
    <3> QED
      BY <2>1, <2>2, <3>1, GoodStays
  <2> QED
    BY <2>1, <2>2, <2>3 DEF WalkInv
<1> QED
  BY <1>1, ChatStepWalks, PoolWorksWalks, AccountComesWalks DEF GatewayNext

(* A refusal that reaches a client means what getChatMessage says the walk *)
(* is for: no account of the pool is in rotation.                          *)
THEOREM RefusalsAreHonest == GatewaySpec => []RefusalMeansNobodyReady
<1>1. GatewaySpec => []WalkInv
  BY InitWalks, NextWalks, PTL DEF GatewaySpec
<1>2. WalkInv => RefusalMeansNobodyReady
  <2> SUFFICES ASSUME WalkInv, NEW r \in Requests, chat[r].stage = "refused",
                      chat[r].undisturbed, now - chat[r].began < CoolRateLimited
               PROVE  WarmSlots(rot, now) = {}
    BY DEF RefusalMeansNobodyReady
  <2>1. PICK c \in ChatStates, q \in RequestStates :
           chat[r] = c /\ Good(c, q) /\ (c.stage # "idle" => c \in Walks)
    BY WalkKnown
  <2>2. /\ c \in Walks /\ c.stage = "refused" /\ Aligned
        /\ now \in Nat /\ CoolRateLimited \in Nat
    BY <2>1, NumbersInSlots, PoolAssumption DEF WalkInv, PoolAssumption
  <2>3. Fresh(c) = {} /\ c.began <= now
    BY <2>1, <2>2, WalkFields DEF Good, Bounded, Trusted
  <2>4. ASSUME NEW i \in SlotSet PROVE IsCooling(rot, i, now)
    <3>1. entries[i] \in Members /\ CoolUntil(entries[i]) = rot.cooling[i]
      BY <2>2, SlotOfMember, AlignedParts DEF Members, CoolUntil
    <3>2. ~(rot.cooling[i] < c.began + CoolRateLimited) /\ rot.cooling[i] \in Nat
      BY <2>2, <2>3, <3>1, NumbersInSlots, DeadlinesAreNatural DEF Fresh, Soon
    <3>3. now < c.began + CoolRateLimited
      BY <2>1, <2>2, WalkFields
    <3> QED
      BY <2>2, <3>2, <3>3, WalkFields DEF IsCooling
  <2>5. Slots(rot) = SlotSet
    BY <2>2 DEF Slots, SlotSet, Aligned, SlotsAligned
  <2> QED
    BY <2>4, <2>5 DEF WarmSlots
<1> QED
  BY <1>1, <1>2, PTL
=============================================================================

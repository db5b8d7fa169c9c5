---------------------------- MODULE AccountPool ----------------------------
(***************************************************************************)
(* The pool of accounts of internal/devin/pool.go.                         *)
(*                                                                         *)
(* Each request takes the next account in rotation and reports how it      *)
(* fared; a refused account cools, and a rate-limited one is asked, in the *)
(* background, how much quota it has left.  Meanwhile the dashboard adds   *)
(* and removes accounts, files what status calls said, and lifts the       *)
(* cooldown of an account that a probe has just seen working.              *)
(*                                                                         *)
(* The pool keeps one record per account in four lists and a map that are  *)
(* all indexed by the account's slot, and removing an account renumbers    *)
(* the slots after it.  Everything that waits (a request, a status call, a *)
(* probe) holds the account itself and finds its slot again afterwards.    *)
(*                                                                         *)
(* An element of Accounts is one *Credentials object: adding a token that  *)
(* was removed before makes a new object with the same token.              *)
(***************************************************************************)
EXTENDS RotationCursor, Refusals, FiniteSets

CONSTANTS
  Accounts,         \* the credential objects that can ever be made
  Token,            \* the token each of them carries
  InitialAccounts,  \* the accounts the pool is built with, in order
  Requests,         \* the requests that can be in flight together
  Fetchers,         \* the background status calls that can run together
  CoolRejected, CoolRateLimited, MaxQuotaCool,
  ResetDelays,      \* how far off a quota reset can be
  QuotaAware,       \* whether a status source was configured
  ClockLag,         \* bound: how old a clock reading can be under the lock
  MaxNow            \* bound: the clock stops here

ASSUME PoolAssumption ==
  /\ InitialAccounts \in Seq(Accounts)
  /\ \A i, j \in 1..Len(InitialAccounts) :
        Token[InitialAccounts[i]] = Token[InitialAccounts[j]] => i = j
  /\ CoolRateLimited \in Nat \ {0}
  /\ CoolRejected \in Nat /\ CoolRejected > CoolRateLimited
  /\ MaxQuotaCool \in Nat /\ MaxQuotaCool > CoolRejected
  /\ ResetDelays \subseteq Nat \ {0}
  /\ QuotaAware \in BOOLEAN
  /\ ClockLag \in Nat
  /\ MaxNow \in Nat

VARIABLES
  now,             \* the clock
  entries,         \* the accounts, by slot
  poolIndex,       \* the slot each account believes it is in; 0 if never pooled
  rot,             \* the rotation cursor
  lastRotation,    \* the slot handed out last, or NoSlot
  busy,            \* by slot: a status call is in flight
  quotaCoolUntil,  \* by slot: the deadline of the last quota hold
  identities,      \* slot -> the account whose status is filed there
  request,         \* where each request is
  fetcher          \* where each background status call is

slots == <<entries, poolIndex, rot, lastRotation, busy, quotaCoolUntil, identities>>
vars  == <<now, slots, request, fetcher>>

-----------------------------------------------------------------------------
(* Reading the pool. *)

SlotSet == 1..Len(entries)
Members == {entries[i] : i \in SlotSet}

(* Where an account is in a list of accounts, or what to say if it is not. *)
PlaceIn(list, a, otherwise) ==
  IF \E i \in 1..Len(list) : list[i] = a
  THEN CHOOSE i \in 1..Len(list) : list[i] = a
  ELSE otherwise

(* A slip: the index an account carries is trusted without a second look.  *)
SlotOfUnchecked(a) == IF poolIndex[a] \in SlotSet THEN poolIndex[a] ELSE NoSlot

(* The live slot of an account, found by its own index and then checked:   *)
(* an index from before a removal can be another account's by now.         *)
SlotOf(a) ==
  IF poolIndex[a] \in SlotSet /\ entries[poolIndex[a]] = a
  THEN poolIndex[a] ELSE NoSlot

RecentPast == {t \in 0..now : now - t <= ClockLag}

QuotaHeldAt(i) == now < quotaCoolUntil[i]
Held           == {i \in SlotSet : QuotaHeldAt(i)}

IdleRequest(r) == request' = [request EXCEPT ![r] = [stage |-> "idle"]]

(* A status call goes on to its next stage, still about the same account.  *)
FetcherMoves(f, stage) ==
  fetcher' = [fetcher EXCEPT ![f] = [stage |-> stage, creds |-> fetcher[f].creds]]

-----------------------------------------------------------------------------
(* Requests. *)

NextCredential(r) ==
  /\ request[r].stage = "idle"
  /\ entries # <<>>
  /\ LET i == Picked(rot, now)
     IN  /\ rot' = Advance(rot, i)
         /\ lastRotation' = i
         /\ request' = [request EXCEPT ![r] = [stage |-> "serving", creds |-> entries[i]]]
  /\ UNCHANGED <<now, entries, poolIndex, busy, quotaCoolUntil, identities, fetcher>>

CoolPeriod(err) ==
  CASE IsRejection(err) -> CoolRejected
    [] IsRateLimit(err) -> CoolRateLimited
    [] OTHER            -> 0

(* The refusal of an account that was in rotation leaves nobody usable.    *)
Systemic(i, cool, cooled) ==
  /\ Len(entries) > 1
  /\ ~IsCooling(rot, i, now)
  /\ cool > CoolRateLimited
  /\ WarmSlots(cooled, now) = {}

(* A slip: the retraction reaches the accounts held on quota evidence too. *)
AfterRefusalUnholding(i, cool) ==
  LET cooled == CoolOff(rot, i, now + cool)
  IN  IF Systemic(i, cool, cooled)
      THEN ClampCooling(cooled, SlotSet, now + CoolRateLimited)
      ELSE cooled

AfterRefusal(i, cool) ==
  LET cooled == CoolOff(rot, i, now + cool)
  IN  IF Systemic(i, cool, cooled)
      THEN ClampCooling(cooled, SlotSet \ Held, now + CoolRateLimited)
      ELSE cooled

Report(r, err) ==
  /\ request[r].stage = "serving"
  /\ LET a == request[r].creds
         i == SlotOf(a)
     IN  IF CoolPeriod(err) = 0 \/ i = NoSlot
         THEN IdleRequest(r) /\ UNCHANGED rot
         ELSE /\ rot' = AfterRefusal(i, CoolPeriod(err))
              /\ IF IsRateLimit(err)
                 THEN request' = [request EXCEPT ![r] = [stage |-> "refreshing", creds |-> a]]
                 ELSE IdleRequest(r)
  /\ UNCHANGED <<now, entries, poolIndex, lastRotation, busy, quotaCoolUntil,
                 identities, fetcher>>

(* The second half of reporting a rate limit, under its own lock.          *)
RefreshQuota(r) ==
  /\ request[r].stage = "refreshing"
  /\ LET a == request[r].creds
         i == SlotOf(a)
     IN  IF ~QuotaAware \/ i = NoSlot
         THEN UNCHANGED <<busy, fetcher>>
         ELSE IF busy[i] \/ QuotaHeldAt(i)
         THEN UNCHANGED <<busy, fetcher>>
         ELSE /\ busy' = [busy EXCEPT ![i] = TRUE]
              /\ \E f \in Fetchers :
                    /\ fetcher[f].stage = "idle"
                    /\ fetcher' = [fetcher EXCEPT ![f] = [stage |-> "asking", creds |-> a]]
  /\ IdleRequest(r)
  /\ UNCHANGED <<now, entries, poolIndex, rot, lastRotation, quotaCoolUntil, identities>>

-----------------------------------------------------------------------------
(* Background status calls: ask, file the answer, read the clock, apply,   *)
(* and drop the in-flight mark whichever way it went.                      *)

IdentitiesWith(a) ==
  IF SlotOf(a) = NoSlot THEN identities
  ELSE [i \in DOMAIN identities \cup {SlotOf(a)} |->
          IF i = SlotOf(a) THEN a ELSE identities[i]]

FetchFails(f) ==
  /\ fetcher[f].stage = "asking"
  /\ FetcherMoves(f, "releasing")
  /\ UNCHANGED <<now, slots, request>>

FetchAnswers(f) ==
  /\ fetcher[f].stage = "asking"
  /\ identities' = IdentitiesWith(fetcher[f].creds)
  /\ FetcherMoves(f, "answered")
  /\ UNCHANGED <<now, entries, poolIndex, rot, lastRotation, busy, quotaCoolUntil,
                 request>>

(* The status shows no empty counter, or no reset still to come.           *)
QuotaNotEmpty(f) ==
  /\ fetcher[f].stage = "answered"
  /\ FetcherMoves(f, "releasing")
  /\ UNCHANGED <<now, slots, request>>

(* The clock is read and the deadline fixed before the lock is taken.      *)
QuotaEmpty(f, delay) ==
  /\ fetcher[f].stage = "answered"
  /\ fetcher' = [fetcher EXCEPT ![f] =
       [stage |-> "applying", creds |-> fetcher[f].creds, at |-> now,
        until |-> now + (IF delay > MaxQuotaCool THEN MaxQuotaCool ELSE delay)]]
  /\ UNCHANGED <<now, slots, request>>

ApplyQuota(f) ==
  /\ fetcher[f].stage = "applying"
  /\ LET i == SlotOf(fetcher[f].creds)
         until == fetcher[f].until
     IN  IF CanExtend(rot, i, fetcher[f].at, until)
         THEN /\ rot' = SetCooling(rot, i, until)
              /\ quotaCoolUntil' = [quotaCoolUntil EXCEPT ![i] = until]
         ELSE UNCHANGED <<rot, quotaCoolUntil>>
  /\ FetcherMoves(f, "releasing")
  /\ UNCHANGED <<now, entries, poolIndex, lastRotation, busy, identities, request>>

(* A slip: the mark is dropped only when there was something to apply.     *)
ReleaseBusyForgotten(f) ==
  /\ fetcher[f].stage = "releasing"
  /\ fetcher' = [fetcher EXCEPT ![f] = [stage |-> "idle"]]
  /\ UNCHANGED <<now, slots, request>>

ReleaseBusy(f) ==
  /\ fetcher[f].stage = "releasing"
  /\ LET i == SlotOf(fetcher[f].creds)
     IN  busy' = IF i = NoSlot THEN busy ELSE [busy EXCEPT ![i] = FALSE]
  /\ fetcher' = [fetcher EXCEPT ![f] = [stage |-> "idle"]]
  /\ UNCHANGED <<now, entries, poolIndex, rot, lastRotation, quotaCoolUntil, identities,
                 request>>

-----------------------------------------------------------------------------
(* The dashboard. *)

AddAccount(a) ==
  /\ poolIndex[a] = 0
  /\ \A b \in Members : Token[b] # Token[a]
  /\ entries' = Append(entries, a)
  /\ poolIndex' = [poolIndex EXCEPT ![a] = Len(entries) + 1]
  /\ rot' = AppendSlot(rot)
  /\ busy' = Append(busy, FALSE)
  /\ quotaCoolUntil' = Append(quotaCoolUntil, 0)
  /\ UNCHANGED <<now, lastRotation, identities, request, fetcher>>

(* Slips of a removal: a list that is not spliced with the others, and     *)
(* identities that stay under the slot numbers they had.                   *)
RemoveSlotAtBusyKept(i) ==
  /\ entries' = RemoveAt(entries, i)
  /\ poolIndex' = [a \in Accounts |-> PlaceIn(RemoveAt(entries, i), a, poolIndex[a])]
  /\ rot' = RemoveSlot(rot, i)
  /\ lastRotation' = IF lastRotation = i THEN NoSlot
                     ELSE IF lastRotation > i THEN lastRotation - 1 ELSE lastRotation
  /\ quotaCoolUntil' = RemoveAt(quotaCoolUntil, i)
  /\ UNCHANGED <<busy, identities>>

RemoveSlotAtIdentitiesKept(i) ==
  /\ entries' = RemoveAt(entries, i)
  /\ poolIndex' = [a \in Accounts |-> PlaceIn(RemoveAt(entries, i), a, poolIndex[a])]
  /\ rot' = RemoveSlot(rot, i)
  /\ lastRotation' = IF lastRotation = i THEN NoSlot
                     ELSE IF lastRotation > i THEN lastRotation - 1 ELSE lastRotation
  /\ busy' = RemoveAt(busy, i)
  /\ quotaCoolUntil' = RemoveAt(quotaCoolUntil, i)
  /\ identities' = [j \in DOMAIN identities \ {Len(entries)} |-> identities[j]]

(* removeLocked: every per-slot list is spliced, and the indexes shift.    *)
RemoveSlotAt(i) ==
  /\ entries' = RemoveAt(entries, i)
  /\ poolIndex' = [a \in Accounts |-> PlaceIn(RemoveAt(entries, i), a, poolIndex[a])]
  /\ rot' = RemoveSlot(rot, i)
  /\ lastRotation' = CASE lastRotation = i -> NoSlot
                       [] lastRotation > i -> lastRotation - 1
                       [] OTHER            -> lastRotation
  /\ busy' = RemoveAt(busy, i)
  /\ quotaCoolUntil' = RemoveAt(quotaCoolUntil, i)
  /\ identities' = [j \in {k \in SlotSet \ {Len(entries)} :
                             (IF k < i THEN k ELSE k + 1) \in DOMAIN identities} |->
                      identities[IF j < i THEN j ELSE j + 1]]

RemoveIndex(i) ==
  /\ i \in SlotSet
  /\ RemoveSlotAt(i)
  /\ UNCHANGED <<now, request, fetcher>>

RemoveCredential(a) ==
  /\ SlotOf(a) # NoSlot
  /\ RemoveSlotAt(SlotOf(a))
  /\ UNCHANGED <<now, request, fetcher>>

(* A status call the dashboard made for an account it resolved earlier.    *)
Remember(a) ==
  /\ poolIndex[a] # 0
  /\ identities' = IdentitiesWith(a)
  /\ UNCHANGED <<now, entries, poolIndex, rot, lastRotation, busy, quotaCoolUntil,
                 request, fetcher>>

(* A probe of that account came back with an answer: its two holds are     *)
(* lifted if they were running when the handler read the clock, which it   *)
(* does before it takes the lock, so possibly a little earlier.            *)
Lifted(deadline, at) == IF at < deadline THEN 0 ELSE deadline

ClearCooldown(a, at) ==
  /\ poolIndex[a] # 0
  /\ LET i == SlotOf(a)
     IN  IF i = NoSlot
         THEN UNCHANGED <<rot, quotaCoolUntil>>
         ELSE /\ rot' = SetCooling(rot, i, Lifted(rot.cooling[i], at))
              /\ quotaCoolUntil' = [quotaCoolUntil EXCEPT ![i] = Lifted(@, at)]
  /\ UNCHANGED <<now, entries, poolIndex, lastRotation, busy, identities, request, fetcher>>

-----------------------------------------------------------------------------
(* Time, and the whole. *)

Tick ==
  /\ now < MaxNow
  /\ now' = now + 1
  /\ UNCHANGED <<slots, request, fetcher>>

Init ==
  /\ now = 0
  /\ entries = InitialAccounts
  /\ poolIndex = [a \in Accounts |-> PlaceIn(InitialAccounts, a, 0)]
  /\ rot = NewCursor(Len(InitialAccounts))
  /\ lastRotation = NoSlot
  /\ busy = [i \in 1..Len(InitialAccounts) |-> FALSE]
  /\ quotaCoolUntil = [i \in 1..Len(InitialAccounts) |-> 0]
  /\ identities = <<>>
  /\ request = [r \in Requests |-> [stage |-> "idle"]]
  /\ fetcher = [f \in Fetchers |-> [stage |-> "idle"]]

FetcherStep(f) ==
  \/ FetchFails(f)
  \/ FetchAnswers(f)
  \/ QuotaNotEmpty(f)
  \/ \E delay \in ResetDelays : QuotaEmpty(f, delay)
  \/ ApplyQuota(f)
  \/ ReleaseBusy(f)

RequestStep(r) ==
  \/ NextCredential(r)
  \/ \E err \in Errors \cup {Served} : Report(r, err)
  \/ RefreshQuota(r)

Next ==
  \/ Tick
  \/ \E r \in Requests : RequestStep(r)
  \/ \E f \in Fetchers : FetcherStep(f)
  \/ \E a \in Accounts : AddAccount(a)
  \/ \E i \in SlotSet : RemoveIndex(i)
  \/ \E a \in Accounts : RemoveCredential(a)
  \/ \E a \in Accounts : Remember(a)
  \/ \E a \in Accounts, at \in RecentPast : ClearCooldown(a, at)

Spec == Init /\ [][Next]_vars

(* A status call runs under a timeout and in a goroutine of its own, so    *)
(* each of its steps is eventually taken.                                  *)
FairSpec == Spec /\ \A f \in Fetchers : WF_vars(FetcherStep(f))

-----------------------------------------------------------------------------
(* Properties. *)

Deadlines == 0..(MaxNow + MaxQuotaCool)

RequestStates ==
  [stage : {"idle"}] \cup [stage : {"serving", "refreshing"}, creds : Accounts]

FetcherStates ==
  [stage : {"idle"}] \cup [stage : {"asking", "answered", "releasing"}, creds : Accounts]
    \cup [stage : {"applying"}, creds : Accounts, at : 0..MaxNow, until : Deadlines]

(* The shape of the state; deadlines are bounded by the longest hold.      *)
TypeOK ==
  /\ now \in 0..MaxNow
  /\ entries \in Seq(Accounts)
  /\ poolIndex \in [Accounts -> Nat]
  /\ rot \in [next : Nat \ {0}, cooling : Seq(Deadlines)]
  /\ lastRotation \in Nat
  /\ busy \in Seq(BOOLEAN)
  /\ quotaCoolUntil \in Seq(Deadlines)
  /\ DOMAIN identities \subseteq Nat
  /\ \A i \in DOMAIN identities : identities[i] \in Accounts
  /\ request \in [Requests -> RequestStates]
  /\ fetcher \in [Fetchers -> FetcherStates]

(* Every per-slot list is as long as the list of accounts, every account   *)
(* knows its own slot, no token is pooled twice, and the walk position and *)
(* the last slot served are slots that exist: the invariant pool.go states *)
(* at Add and relies on wherever it indexes one list by a slot of another. *)
SlotsAligned ==
  /\ Len(rot.cooling) = Len(entries)
  /\ Len(busy) = Len(entries)
  /\ Len(quotaCoolUntil) = Len(entries)
  /\ DOMAIN identities \subseteq SlotSet
  /\ \A i \in SlotSet : poolIndex[entries[i]] = i
  /\ \A i, j \in SlotSet : Token[entries[i]] = Token[entries[j]] => i = j
  /\ rot.next \in SlotSet \/ rot.next = 1
  /\ lastRotation \in SlotSet \cup {NoSlot}

(* What a status call said is filed under the account it was about, however*)
(* the slots moved while the call was out.                                 *)
IdentitiesMatch == \A i \in DOMAIN identities : identities[i] = entries[i]

(* An account held on quota evidence is out of rotation for at least as    *)
(* long: a refusal never shortens a quota hold, and the pool-wide          *)
(* retraction leaves held accounts alone.                                  *)
HeldIsCooling == \A i \in Held : quotaCoolUntil[i] <= rot.cooling[i]

(* A slot is marked busy exactly while one status call is out for the      *)
(* account in it, through every removal and renumbering in between.        *)
BusyIsFetching ==
  /\ \A i \in SlotSet : busy[i] <=>
        \E f \in Fetchers : fetcher[f].stage # "idle" /\ fetcher[f].creds = entries[i]
  /\ \A f, g \in Fetchers :
        fetcher[f].stage # "idle" /\ fetcher[g].stage # "idle"
           /\ fetcher[f].creds = fetcher[g].creds => f = g

(* The deadline of an account the pool holds both before and after a step. *)
CoolUntil(a) == rot.cooling[SlotOf(a)]

(* A running cooldown is cut short only by a probe that has just seen that *)
(* account answer, or by the pool-wide retraction, which needs nobody left *)
(* usable, spares quota holds and leaves the rate-limit period.            *)
CutShortOnlyIfAllowed ==
  \A a \in Members : a \in Members' /\ CoolUntil(a)' < CoolUntil(a) =>
    \/ \E at \in RecentPast : ClearCooldown(a, at)
    \/ /\ CoolUntil(a)' = now + CoolRateLimited
       /\ SlotOf(a) \notin Held
       /\ Len(entries) > 1
       /\ WarmSlots(rot', now) = {}

CooldownCutShort == [][CutShortOnlyIfAllowed]_vars

(* A working account leaves the rotation only because the backend refused  *)
(* it: the step is the report of a refusal of that very account, or the    *)
(* late end of a status call that saw the account's cooldown still running *)
(* when it read the clock.  "The property that matters most" of quota_test.*)
BenchedOnlyIfRefused ==
  \A a \in Members :
    a \in Members' /\ ~IsCooling(rot, SlotOf(a), now) /\ now < CoolUntil(a)' =>
      \/ \E r \in Requests, err \in Errors :
            Report(r, err) /\ request[r].creds = a /\ IsAccountRefusal(err)
      \/ \E f \in Fetchers :
            ApplyQuota(f) /\ fetcher[f].creds = a /\ fetcher[f].at < CoolUntil(a)

WorkingAccountsServe == [][BenchedOnlyIfRefused]_vars

(* A refusal that leaves nobody usable holds the accounts out for the      *)
(* rate-limit period and not for the rejection period each, so one         *)
(* incident cannot park the whole pool: what pool.go says above Report, the*)
(* README says of the pool, and the code does only for the first refusals. *)
NotParked ==
  Len(entries) > 1 =>
    \E i \in SlotSet : i \in Held \/ rot.cooling[i] <= now + CoolRateLimited

(* The in-flight mark is always dropped again, or the account would never  *)
(* be asked about its quota for as long as it stays in the pool.           *)
BusyIsReleased ==
  \A a \in Accounts :
    (a \in Members /\ busy[SlotOf(a)]) ~> ~(a \in Members /\ busy[SlotOf(a)])
=============================================================================

---------------------------- MODULE AccountStatus ----------------------------
(***************************************************************************)
(* What a refused account's status says about when to ask it again:        *)
(* internal/devin/status.go, between an account whose daily and weekly     *)
(* windows empty and refill, and the hold applyQuota of pool.go puts on    *)
(* it.  The account pool takes the deadline for granted (QuotaEmpty of     *)
(* AccountPool); here it is read from an answer that may lack any of its   *)
(* fields, and that may be older than the refill it tells of when it is    *)
(* read.                                                                   *)
(*                                                                         *)
(* The windows and their refills are the backend's, known only by how the  *)
(* code reads them.  `basis` is kept for the properties: the answer the    *)
(* last hold rests on, and when it was applied.                            *)
(***************************************************************************)
EXTENDS Integers, FiniteSetsExt

CONSTANTS
  Period,           \* by window: the time from one refill to the next
  Full,             \* by window: what it holds after a refill
  CoolRateLimited,  \* the hold a refusal earns
  MaxQuotaCool,     \* the longest hold on the word of a status
  LastMoment        \* bound: the clock

Windows == {"daily", "weekly"}

ASSUME StatusParameters ==
  /\ Period \in [Windows -> Nat \ {0}] /\ Full \in [Windows -> Nat \ {0}]
  /\ CoolRateLimited \in Nat \ {0} /\ MaxQuotaCool \in Nat \ {0} /\ LastMoment \in Nat

VARIABLES
  clock,
  left,      \* by window: what is left of it
  refill,    \* by window: when it refills next
  cooling,   \* until when the account is out of rotation
  answer,    \* the status response that has not been applied yet: at most one
  basis

statusVars == <<clock, left, refill, cooling, answer, basis>>

-----------------------------------------------------------------------------
(* The response: a user status or one wrapped in another, with a plan      *)
(* block of numbered fields, none of them twice.                           *)

Percent == [daily |-> 14, weekly |-> 15]
Reset   == [daily |-> 17, weekly |-> 18]
Unnamed == 8      \* one of the counters whose meaning is not known

Absent == <<>>    \* of a field that may be missing

UserStatus(plan)  == [known |-> TRUE, plan |-> plan, inner |-> Absent]
Wrapped(response) == [known |-> FALSE, plan |-> {}, inner |-> <<response>>]

NamedFields == {Percent[w] : w \in Windows} \cup {Reset[w] : w \in Windows}

NoStatus == [percent  |-> [w \in Windows |-> Absent],
             reset    |-> [w \in Windows |-> 0],
             counters |-> {}]

(* decodePlan: the named fields are kept out of the other counters.  A     *)
(* reset that is missing is the zero time.                                 *)
Fields(response, status) ==
  LET sent(n)  == \E f \in response.plan : f.number = n
      value(n) == (CHOOSE f \in response.plan : f.number = n).value
  IN  [percent  |-> [w \in Windows |-> IF sent(Percent[w]) THEN <<value(Percent[w])>>
                                       ELSE status.percent[w]],
       reset    |-> [w \in Windows |-> IF sent(Reset[w]) THEN value(Reset[w]) ELSE status.reset[w]],
       counters |-> status.counters
                      \cup {f.value : f \in {g \in response.plan : g.number \notin NamedFields}}]

(* The account of a response that names none is the one inside it.         *)
DecodeAccountStatus(response) ==
  LET outer == Fields(response, NoStatus)
  IN  IF ~response.known /\ response.inner # Absent
        THEN Fields(response.inner[1], outer)
        ELSE outer

-----------------------------------------------------------------------------
(* ResetDeadline. *)

Named(status)    == {w \in Windows : status.percent[w] # Absent}
ToldEmpty(status) == {w \in Named(status) : status.percent[w][1] = 0}

Soonest(times, at) ==
  LET ahead == {t \in times : t > at} IN IF ahead = {} THEN 0 ELSE Min(ahead)

(* A slip: a zero on any counter counts, whatever the percentages say.     *)
ResetDeadlineOfAll(status, at) ==
  LET resets == {status.reset[w] : w \in Windows}
      failed == {status.reset[w] : w \in ToldEmpty(status)}
                  \cup (IF 0 \in status.counters THEN resets ELSE {})
  IN  IF ToldEmpty(status) = {} /\ 0 \notin status.counters THEN 0
      ELSE IF Soonest(failed, at) # 0 THEN Soonest(failed, at)
      ELSE Soonest(resets, at)

(* The percentages settle the question where there is one; otherwise a     *)
(* zero on any counter counts.  If no window that is empty has its refill  *)
(* still ahead, the next refill of either is waited for.                   *)
ResetDeadline(status, at) ==
  LET resets  == {status.reset[w] : w \in Windows}
      guessed == Named(status) = {} /\ 0 \in status.counters
      failed  == IF guessed THEN resets ELSE {status.reset[w] : w \in ToldEmpty(status)}
  IN  IF ToldEmpty(status) = {} /\ ~guessed THEN 0
      ELSE IF Soonest(failed, at) # 0 THEN Soonest(failed, at)
      ELSE Soonest(resets, at)

-----------------------------------------------------------------------------
(* The account. *)

Works == \A w \in Windows : left[w] > 0

Passes ==
  /\ clock < LastMoment
  /\ clock' = clock + 1
  /\ left'   = [w \in Windows |-> IF refill[w] = clock' THEN Full[w] ELSE left[w]]
  /\ refill' = [w \in Windows |-> IF refill[w] = clock' THEN refill[w] + Period[w] ELSE refill[w]]
  /\ UNCHANGED <<cooling, answer, basis>>

Serves ==
  /\ cooling <= clock /\ Works
  /\ left' = [w \in Windows |-> left[w] - 1]
  /\ UNCHANGED <<clock, refill, cooling, answer, basis>>

(* FetchAccountStatus: the percentages and the resets the backend sends    *)
(* along, and a counter that means nothing.                                *)
Response ==
  \E percents, resets \in SUBSET Windows, counter \in {0, 1}, wrapped \in BOOLEAN :
    LET plan == {[number |-> Percent[w], value |-> left[w]] : w \in percents}
                  \cup {[number |-> Reset[w], value |-> refill[w]] : w \in resets}
                  \cup {[number |-> Unnamed, value |-> counter]}
    IN  answer' = <<IF wrapped THEN Wrapped(UserStatus(plan)) ELSE UserStatus(plan)>>

(* A refusal, which may have another reason than an empty window, is what  *)
(* makes the pool ask for the status.                                      *)
AccountRefused ==
  /\ cooling <= clock /\ answer = Absent
  /\ cooling' = clock + CoolRateLimited
  /\ basis' = Absent
  /\ Response
  /\ UNCHANGED <<clock, left, refill>>

(* applyQuota: an account that is back in the rotation is left alone.      *)
Apply ==
  /\ answer # Absent
  /\ LET status   == DecodeAccountStatus(answer[1])
         deadline == ResetDeadline(status, clock)
         until    == Min({deadline, clock + MaxQuotaCool})
     IN  IF deadline # 0 /\ cooling > clock /\ until > cooling
           THEN cooling' = until /\ basis' = <<[status |-> status, at |-> clock]>>
           ELSE UNCHANGED <<cooling, basis>>
  /\ answer' = Absent
  /\ UNCHANGED <<clock, left, refill>>

StatusInit ==
  /\ clock = 1
  /\ left \in [Windows -> 0..Max({Full[w] : w \in Windows})] /\ \A w \in Windows : left[w] <= Full[w]
  /\ refill = [w \in Windows |-> 1 + Period[w]]
  /\ cooling = 0 /\ answer = Absent /\ basis = Absent

StatusNext == Passes \/ Serves \/ AccountRefused \/ Apply

StatusSpec == StatusInit /\ [][StatusNext]_statusVars

-----------------------------------------------------------------------------
(* Properties. *)

(* A hold on the word of a status is worth its while.  An account that     *)
(* told what is left of its windows is held only if one of them is empty,  *)
(* whatever its other counters read; while it is held none of the empty    *)
(* windows whose refill was ahead has come back, so a working account is   *)
(* not benched; and, unless the longest hold cuts it short, it is asked    *)
(* again only when one of them has.                                        *)
HoldsAreWorthIt ==
  basis # Absent =>
    LET status == basis[1].status
        empty  == ToldEmpty(status)
        ahead  == {w \in empty : status.reset[w] > basis[1].at}
    IN  /\ Named(status) # {} => empty # {}
        /\ ahead # {} /\ clock < cooling => \A w \in ahead : left[w] = 0
        /\ ahead # {} /\ clock >= cooling /\ cooling < basis[1].at + MaxQuotaCool =>
             \E w \in ahead : clock >= status.reset[w]
=============================================================================

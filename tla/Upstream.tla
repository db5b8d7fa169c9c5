------------------------------ MODULE Upstream ------------------------------
(***************************************************************************)
(* The calls of internal/devin/client.go to the backend, over the outbound *)
(* routes of internal/devin/egress.go.                                     *)
(*                                                                         *)
(* A call takes one of the client's concurrency slots for every attempt,   *)
(* goes out through the next route of the pool that is installed at that   *)
(* moment, and reports a failed attempt to the pool installed when the     *)
(* failure is known.  A route that could not be used at all is taken out   *)
(* of rotation and the call goes on without waiting; a 429 makes it wait,  *)
(* for as long as the caller's budget allows; anything else ends it.  A    *)
(* stream that opens keeps its slot until it is closed or, when it is      *)
(* dropped without being closed, until the runtime finds it unreachable.   *)
(* Meanwhile the dashboard may replace the whole list of routes.           *)
(*                                                                         *)
(* The n-th list of routes to be installed is generation n, and a route is *)
(* the pair of its generation and its place: routes are compared by        *)
(* identity, and every list is built of new ones.                          *)
(***************************************************************************)
EXTENDS RotationCursor, FiniteSets

CONSTANTS
  Streams,                \* the streaming calls that can be made together
  Unary,                  \* the status, catalogue and sign-in calls
  Routes,                 \* how many routes each generation of the list has
  MaxConcurrent,          \* the client's concurrency slots
  MaxStreamAttempts,      \* attempts, and refusals, of a call by default
  MaxAttemptsWithRoutes,  \* attempts at most, however long the list is
  Budgets,                \* the rate-limit budgets a caller can ask for
  CoolEgress,             \* how long a broken route is out of rotation
  MaxNow                  \* bound: the clock stops here

Calls == Streams \cup Unary

ASSUME UpstreamAssumption ==
  /\ Streams \cap Unary = {}
  /\ Routes \in Seq(Nat) /\ Routes # <<>>
  /\ MaxConcurrent \in Nat \ {0}
  /\ MaxStreamAttempts \in Nat \ {0}
  /\ MaxAttemptsWithRoutes \in Nat /\ MaxAttemptsWithRoutes >= MaxStreamAttempts
  /\ Budgets \subseteq Nat \ {0}
  /\ CoolEgress \in Nat \ {0}
  /\ MaxNow \in Nat

VARIABLES
  now,     \* the clock
  egress,  \* the generation installed in the client
  rot,     \* by generation: the rotation cursor of its pool
  last,    \* by generation: the route handed out last, or NoSlot
  sem,     \* concurrency slots taken
  call     \* where each call is

vars == <<now, egress, rot, last, sem, call>>

-----------------------------------------------------------------------------
(* A route, and the machine's own connection. *)

Generations == 1..Len(Routes)
Direct == <<0, 0>>

(* A pool of no routes is a nil pool: everything goes out directly.        *)
RouteOf(g, i) == IF i = NoSlot THEN Direct ELSE <<g, i>>

(* A slip: the place a route had in its own list is looked up in this one. *)
PlaceOfAnyList(route, g) == IF route[2] <= Routes[g] THEN route[2] ELSE NoSlot

(* Where a route is in a list, or NoSlot when it is of another list.       *)
PlaceOf(route, g) == IF route[1] = g THEN route[2] ELSE NoSlot

(* A slip: the attempts do not grow with the list.                         *)
AttemptsFixed == MaxStreamAttempts

(* How many attempts a call may make, asked anew before each of them.      *)
Attempts ==
  LET n == IF Routes[egress] + 1 > MaxStreamAttempts THEN Routes[egress] + 1
           ELSE MaxStreamAttempts
  IN  IF n > MaxAttemptsWithRoutes THEN MaxAttemptsWithRoutes ELSE n

-----------------------------------------------------------------------------
(* Records.  A call in its loop knows the attempt it is on, how many 429s  *)
(* it has had and how the last attempt failed, and while an attempt is out *)
(* its route.  `began`, `under` and `broken` are kept for the properties:  *)
(* when and under which list the call began, and whether every failure so  *)
(* far was of a route that could not be used.                              *)

NewCall ==
  [stage |-> "choosing", attempt |-> 1, limited |-> 0, route |-> Direct,
   failure |-> "none", began |-> now, under |-> egress, broken |-> TRUE]

Becomes(c, record) == call' = [call EXCEPT ![c] = record]

(* The outcome the caller is handed.                                       *)
Ended(c, outcome) ==
  [stage |-> "ended", outcome |-> outcome, began |-> call[c].began,
   under |-> call[c].under, broken |-> call[c].broken]

To(c, stage) == [call[c] EXCEPT !.stage = stage]
On(stage)    == [stage |-> stage]

Holding == {"sent", "reporting unary", "open", "abandoned"}
Holders == {c \in Calls : call[c].stage \in Holding}

-----------------------------------------------------------------------------
(* One call. *)

Start(c) ==
  /\ call[c].stage = "idle"
  /\ Becomes(c, NewCall)
  /\ UNCHANGED <<now, egress, rot, last, sem>>

BeginAttempt(c) ==
  /\ call[c].stage = "choosing"
  /\ Becomes(c, CASE c \in Streams /\ call[c].attempt > Attempts -> Ended(c, call[c].failure)
                  [] call[c].failure = "rate limited"             -> To(c, "waiting")
                  [] OTHER                                        -> To(c, "queueing"))
  /\ UNCHANGED <<now, egress, rot, last, sem>>

WaitOver(c) ==
  /\ call[c].stage = "waiting"
  /\ Becomes(c, To(c, "queueing"))
  /\ UNCHANGED <<now, egress, rot, last, sem>>

(* The caller goes away while the call waits for time or for a slot.       *)
CancelWaiting(c) ==
  /\ call[c].stage \in {"waiting", "queueing"}
  /\ Becomes(c, Ended(c, "cancelled"))
  /\ UNCHANGED <<now, egress, rot, last, sem>>

(* A slot comes free; the next route of the installed pool is used.        *)
Send(c) ==
  /\ call[c].stage = "queueing"
  /\ sem < MaxConcurrent
  /\ sem' = sem + 1
  /\ LET i == Picked(rot[egress], now)
     IN  /\ rot'  = IF i = NoSlot THEN rot ELSE [rot EXCEPT ![egress] = Advance(@, i)]
         /\ last' = IF i = NoSlot THEN last ELSE [last EXCEPT ![egress] = i]
         /\ Becomes(c, [To(c, "sent") EXCEPT !.route = RouteOf(egress, i)])
  /\ UNCHANGED <<now, egress>>

(* The caller goes away while the request is out: the route is not judged, *)
(* and a slip that forgets the slot on this way out.                       *)
CancelSentLeaking(c) ==
  /\ call[c].stage = "sent"
  /\ Becomes(c, Ended(c, "cancelled"))
  /\ UNCHANGED <<now, egress, rot, last, sem>>

CancelSent(c) ==
  /\ call[c].stage = "sent"
  /\ sem' = sem - 1
  /\ Becomes(c, Ended(c, "cancelled"))
  /\ UNCHANGED <<now, egress, rot, last>>

(* No answer: the route could not be used ("route"), or the request went   *)
(* out over it, or over the machine's own connection, and nothing came back*)
(* in time ("unanswered").  A stream gives its slot back before it reports;*)
(* a unary call gives it back when it returns.                             *)
RoundTripFails(c, failure) ==
  /\ call[c].stage = "sent"
  /\ failure = "route" => call[c].route # Direct
  /\ sem' = IF c \in Streams THEN sem - 1 ELSE sem
  /\ Becomes(c, [To(c, IF c \in Streams THEN "reporting" ELSE "reporting unary") EXCEPT
                   !.failure = failure, !.broken = @ /\ failure = "route"])
  /\ UNCHANGED <<now, egress, rot, last>>

(* EgressPool.Report: only a route that could not be used is cooled, and   *)
(* only when the pool that is installed now still holds it.                *)
Judged(c) ==
  LET i == PlaceOf(call[c].route, egress)
  IN  IF call[c].failure = "route" /\ i # NoSlot
      THEN [rot EXCEPT ![egress] = CoolOff(@, i, now + CoolEgress)]
      ELSE rot

(* A slip: only refusals count as attempts.                                *)
ReportFailureUncounted(c) ==
  /\ call[c].stage = "reporting"
  /\ rot' = Judged(c)
  /\ Becomes(c, [To(c, "choosing") EXCEPT !.route = Direct])
  /\ UNCHANGED <<now, egress, last, sem>>

ReportFailure(c) ==
  /\ call[c].stage = "reporting"
  /\ rot' = Judged(c)
  /\ Becomes(c, [To(c, "choosing") EXCEPT !.attempt = @ + 1, !.route = Direct])
  /\ UNCHANGED <<now, egress, last, sem>>

ReportUnaryFailure(c) ==
  /\ call[c].stage = "reporting unary"
  /\ rot' = Judged(c)
  /\ sem' = sem - 1
  /\ Becomes(c, Ended(c, call[c].failure))
  /\ UNCHANGED <<now, egress, last>>

(* The answer of a unary call, whatever its status.                        *)
UnaryAnswers(c) ==
  /\ c \in Unary
  /\ call[c].stage = "sent"
  /\ sem' = sem - 1
  /\ Becomes(c, Ended(c, "answered"))
  /\ UNCHANGED <<now, egress, rot, last>>

StreamOpens(c) ==
  /\ c \in Streams
  /\ call[c].stage = "sent"
  /\ Becomes(c, On("open"))
  /\ UNCHANGED <<now, egress, rot, last, sem>>

(* Any status but 200 and 429 is the caller's business.                    *)
BackendRefuses(c) ==
  /\ c \in Streams
  /\ call[c].stage = "sent"
  /\ sem' = sem - 1
  /\ Becomes(c, Ended(c, "refused"))
  /\ UNCHANGED <<now, egress, rot, last>>

(* A 429 is retried after a wait until the budget, asked anew each time,   *)
(* is spent.                                                               *)
RateLimited(c, budget) ==
  /\ c \in Streams
  /\ call[c].stage = "sent"
  /\ sem' = sem - 1
  /\ LET limited == call[c].limited + 1
     IN  Becomes(c, IF limited >= budget THEN Ended(c, "rate limited")
                    ELSE [To(c, "choosing") EXCEPT
                            !.attempt = @ + 1, !.limited = limited, !.route = Direct,
                            !.failure = "rate limited", !.broken = FALSE])
  /\ UNCHANGED <<now, egress, rot, last>>

(* An open stream gives its slot back once: when it is closed, or, dropped *)
(* without that, when the runtime's clean-up of it runs.                   *)
CloseStream(c) ==
  /\ call[c].stage = "open"
  /\ sem' = sem - 1
  /\ Becomes(c, On("idle"))
  /\ UNCHANGED <<now, egress, rot, last>>

AbandonStream(c) ==
  /\ call[c].stage = "open"
  /\ Becomes(c, On("abandoned"))
  /\ UNCHANGED <<now, egress, rot, last, sem>>

CollectStream(c) ==
  /\ call[c].stage = "abandoned"
  /\ sem' = sem - 1
  /\ Becomes(c, On("idle"))
  /\ UNCHANGED <<now, egress, rot, last>>

Return(c) ==
  /\ call[c].stage = "ended"
  /\ Becomes(c, On("idle"))
  /\ UNCHANGED <<now, egress, rot, last, sem>>

-----------------------------------------------------------------------------
(* The dashboard installs the next list of routes; time passes. *)

SetEgress ==
  /\ egress < Len(Routes)
  /\ egress' = egress + 1
  /\ UNCHANGED <<now, rot, last, sem, call>>

Tick ==
  /\ now < MaxNow
  /\ now' = now + 1
  /\ UNCHANGED <<egress, rot, last, sem, call>>

Init ==
  /\ now = 0
  /\ egress = 1
  /\ rot = [g \in Generations |-> NewCursor(Routes[g])]
  /\ last = [g \in Generations |-> NoSlot]
  /\ sem = 0
  /\ call = [c \in Calls |-> On("idle")]

RoundTripEnds(c) ==
  \/ \E failure \in {"route", "unanswered"} : RoundTripFails(c, failure)
  \/ UnaryAnswers(c)
  \/ StreamOpens(c)
  \/ BackendRefuses(c)
  \/ \E budget \in Budgets : RateLimited(c, budget)

(* What the client and the backend do without the caller.                  *)
Progress(c) ==
  \/ BeginAttempt(c)
  \/ WaitOver(c)
  \/ RoundTripEnds(c)
  \/ ReportFailure(c)
  \/ ReportUnaryFailure(c)

Leaves(c) == CloseStream(c) \/ CollectStream(c) \/ Return(c)

Next ==
  \/ Tick
  \/ SetEgress
  \/ \E c \in Calls :
       \/ Start(c) \/ Progress(c) \/ Send(c) \/ Leaves(c)
       \/ CancelWaiting(c) \/ CancelSent(c) \/ AbandonStream(c)

Spec == Init /\ [][Next]_vars

(* The backend answers or a header timeout fires; a caller closes what it  *)
(* opened (a deferred Close), and the collector finds what it dropped.     *)
(* A send on a full channel queues in order of arrival, so a call that is  *)
(* waiting for a slot gets one if slots keep coming free.                  *)
FairSpec ==
  /\ Spec
  /\ \A c \in Calls : WF_vars(Progress(c)) /\ WF_vars(Leaves(c)) /\ SF_vars(Send(c))

-----------------------------------------------------------------------------
(* Properties. *)

(* Every slot taken is held by one call that will give it back, on every   *)
(* way out of an attempt, so the slots neither run dry nor are exceeded.   *)
SlotsAccounted ==
  /\ sem = Cardinality(Holders)
  /\ sem <= MaxConcurrent

(* A route leaves the rotation only because a call that went out through   *)
(* it could not use it, also when the whole list was replaced while the    *)
(* call was out.                                                           *)
RoutesJudgedFairly ==
  [][\A g \in Generations : \A i \in 1..Routes[g] :
       rot'[g].cooling[i] # rot[g].cooling[i] =>
         \E c \in Calls : /\ ReportFailure(c) \/ ReportUnaryFailure(c)
                          /\ call[c].route = <<g, i>>
                          /\ call[c].failure = "route"]_vars

(* A run of dead routes is survivable: a call that found nothing but dead  *)
(* ones gives up only when the whole list is out of rotation, provided the *)
(* list was not replaced, is not longer than the cap, and no cooldown      *)
(* that began during the call has run out.                                 *)
GivesUpInformed ==
  \A c \in Streams :
    /\ call[c].stage = "ended"
    /\ call[c].outcome = "route"
    /\ call[c].broken
    /\ call[c].under = egress
    /\ now - call[c].began < CoolEgress
    /\ Routes[egress] <= MaxAttemptsWithRoutes
    => WarmSlots(rot[egress], now) = {}

(* Every call is answered, opens its stream or fails: no call waits for a  *)
(* slot for ever, and no retry loop goes round without end.                *)
CallsEnd ==
  \A c \in Calls : call[c].stage = "choosing" ~> call[c].stage \in {"idle", "ended", "open"}
=============================================================================

--------------------------- MODULE OutboundProofs ---------------------------
(***************************************************************************)
(* A request's way out, proved part by part.                               *)
(*                                                                         *)
(* The calls to the backend, for every number of calls, slots and routes,  *)
(* every list of routes they are replaced by, and every cooldown: slots    *)
(* balance, no route is cooled for what was not its fault, and a call      *)
(* gives up only on a list of which no route is left.                      *)
(*                                                                         *)
(* What a dial makes of a proxy's answer, for every scheme, every length   *)
(* of an address and any amount of data behind the answer.                 *)
(*                                                                         *)
(* What a refused account's status makes of its hold, for every length of  *)
(* the windows and of the holds.                                           *)
(***************************************************************************)
EXTENDS Upstream, Tunnel, AccountStatus, CommonProofs, FiniteSetTheorems,
        SequenceTheorems, TLAPS

(* A call in its loop, one that has its outcome, and one that is neither.  *)
Active   == {"choosing", "waiting", "queueing", "sent", "reporting", "reporting unary"}
Failures == {"none", "route", "unanswered", "rate limited"}
Outcomes == Failures \cup {"cancelled", "answered", "refused"}

InLoop ==
  [stage : Active, attempt : Nat \ {0}, limited : Nat, route : Nat \X Nat,
   failure : Failures, began : Nat, under : Generations, broken : BOOLEAN]
HasEnded ==
  [stage : {"ended"}, outcome : Outcomes, began : Nat, under : Generations, broken : BOOLEAN]
Outside  == [stage : {"idle", "open", "abandoned"}]

CallStates == InLoop \cup HasEnded \cup Outside

(* A route of a list is one of its places. *)
RouteExists(route) == \A g \in Generations : route[1] = g => route[2] \in 1..Routes[g]

TypeOK ==
  /\ now \in Nat
  /\ egress \in Generations
  /\ DOMAIN rot = Generations
  /\ \A g \in Generations : Sound(rot[g], Routes[g], Nat)
  /\ call \in [Calls -> CallStates]
  /\ \A c \in Calls : call[c].stage \in Active => RouteExists(call[c].route)

-----------------------------------------------------------------------------
(* What the constants give. *)
LEMMA GenerationFacts ==
  /\ Len(Routes) \in Nat
  /\ \A g \in Generations : g \in Nat \ {0} /\ Routes[g] \in Nat
  /\ 1 \in Generations
BY UpstreamAssumption, ElementOfSeq DEF UpstreamAssumption, Generations

LEMMA DirectExists == Direct \in Nat \X Nat /\ RouteExists(Direct)
BY GenerationFacts DEF Direct, RouteExists

LEMMA StageShapes ==
  ASSUME NEW k \in CallStates
  PROVE  /\ k.stage \in Active => k \in InLoop
         /\ k.stage = "ended" => k \in HasEnded
BY DEF CallStates, InLoop, HasEnded, Outside, Active

(* One call moves, the others stay where they are.                         *)
LEMMA CallUpdate ==
  ASSUME NEW c \in Calls, NEW k, call \in [Calls -> CallStates], Becomes(c, k)
  PROVE  /\ call'[c] = k
         /\ \A d \in Calls : d # c => call'[d] = call[d]
         /\ k \in CallStates => call' \in [Calls -> CallStates]
BY DEF Becomes

LEMMA EndedStates ==
  ASSUME NEW c \in Calls, call[c] \in InLoop, NEW o \in Outcomes
  PROVE  Ended(c, o) \in HasEnded
BY DEF Ended, InLoop, HasEnded

(* A step of one call, seen from its records.                              *)
LEMMA RecordsStep ==
  ASSUME TypeOK, NEW c \in Calls, NEW k \in CallStates, Becomes(c, k),
         now' = now, egress' = egress,
         DOMAIN rot' = Generations,
         \A g \in Generations : Sound(rot'[g], Routes[g], Nat),
         k.stage \in Active => RouteExists(k.route)
  PROVE  TypeOK'
<1>1. /\ call'[c] = k
      /\ \A d \in Calls : d # c => call'[d] = call[d]
      /\ call' \in [Calls -> CallStates]
  BY CallUpdate DEF TypeOK
<1>2. ASSUME NEW d \in Calls, call'[d].stage \in Active
      PROVE  RouteExists(call[d].route)'
  BY <1>1, <1>2 DEF TypeOK, RouteExists, Generations
<1> QED
  BY <1>1, <1>2 DEF TypeOK, Generations

(* One lemma per action on the type of the state.                          *)

LEMMA InitType == Init => TypeOK
<1> SUFFICES ASSUME Init PROVE TypeOK
  OBVIOUS
<1>1. \A g \in Generations : Sound(rot[g], Routes[g], Nat)
  BY GenerationFacts, NewCursorSound DEF Init
<1>2. \A c \in Calls : call[c] = On("idle")
  BY DEF Init
<1>3. On("idle") \in CallStates /\ On("idle").stage \notin Active
  BY DEF On, CallStates, Outside, Active
<1> QED
  BY <1>1, <1>2, <1>3, GenerationFacts DEF Init, TypeOK

LEMMA SendType ==
  ASSUME TypeOK, NEW c \in Calls, Send(c)
  PROVE  /\ DOMAIN rot' = Generations
         /\ \A g \in Generations : Sound(rot'[g], Routes[g], Nat) /\ rot'[g].cooling = rot[g].cooling
         /\ Picked(rot[egress], now) \in 0..Routes[egress]
         /\ Picked(rot[egress], now) = NoSlot => Routes[egress] = 0
         /\ \E r \in Nat \X Nat : /\ RouteExists(r)
                                /\ r = RouteOf(egress, Picked(rot[egress], now))
                                /\ Becomes(c, [call[c] EXCEPT !.stage = "sent", !.route = r])
<1> DEFINE i == Picked(rot[egress], now)
           n == Routes[egress]
<1>1. egress \in Generations /\ n \in Nat /\ Sound(rot[egress], n, Nat) /\ now \in Nat
  BY GenerationFacts DEF TypeOK
<1>2. rot[egress] \in Cursor /\ Len(rot[egress].cooling) = n /\ Slots(rot[egress]) = 1..n
  BY <1>1, SoundIsCursor DEF Sound, Slots
<1>3. i \in 0..n /\ (i = NoSlot => n = 0)
  <2>1. CASE n = 0
    BY <1>2, <2>1 DEF Picked, NoSlot
  <2>2. CASE n > 0
    <3>1. i \in 1..n
      BY <1>1, <1>2, <2>2, PickedIsSlot
    <3> HIDE DEF i, n
    <3> QED
      BY <1>1, <3>1 DEF NoSlot
  <2> HIDE DEF i, n
  <2> QED
    BY <1>1, <2>1, <2>2
<1> HIDE DEF i, n
<1>4. CASE i = NoSlot
  <2>1. rot' = rot /\ RouteOf(egress, i) = Direct
    BY <1>4 DEF Send, i, RouteOf
  <2>2. Becomes(c, [call[c] EXCEPT !.stage = "sent", !.route = RouteOf(egress, i)])
    BY DEF Send, To, i
  <2> QED
    BY <1>3, <2>1, <2>2, DirectExists DEF TypeOK, i, n
<1>5. CASE i # NoSlot
  <2>1. rot' = [rot EXCEPT ![egress] = Advance(@, i)] /\ RouteOf(egress, i) = <<egress, i>>
    BY <1>5 DEF Send, i, RouteOf
  <2>2. i \in 1..n
    BY <1>1, <1>3, <1>5 DEF NoSlot
  <2>3. Sound(Advance(rot[egress], i), n, Nat) /\ Advance(rot[egress], i).cooling = rot[egress].cooling
    BY <1>1, <2>2, AdvanceSound
  <2>4. \A g \in Generations : Sound(rot'[g], Routes[g], Nat) /\ rot'[g].cooling = rot[g].cooling
    BY <1>1, <2>1, <2>3 DEF TypeOK, n
  <2>5. <<egress, i>> \in Nat \X Nat /\ RouteExists(<<egress, i>>)
    BY <1>1, <2>2, GenerationFacts DEF RouteExists, n
  <2>6. Becomes(c, [call[c] EXCEPT !.stage = "sent", !.route = RouteOf(egress, i)])
    BY DEF Send, To, i
  <2>7. DOMAIN rot' = Generations
    BY <2>1 DEF TypeOK
  <2> QED
    BY <1>3, <2>1, <2>4, <2>5, <2>6, <2>7 DEF i, n
<1> QED
  BY <1>4, <1>5

(* A report touches the route it is about, if that is still of the list in *)
(* use and could not be used, and pushes its cooldown out.                 *)
LEMMA JudgedType ==
  ASSUME TypeOK, NEW c \in Calls, call[c].stage \in Active, rot' = Judged(c)
  PROVE  /\ DOMAIN rot' = Generations
         /\ \A g \in Generations : Sound(rot'[g], Routes[g], Nat)
         /\ \A g \in Generations : \A i \in 1..Routes[g] :
               rot'[g].cooling[i] =
                 IF /\ call[c].failure = "route" /\ call[c].route = <<g, i>> /\ g = egress
                    /\ now + CoolEgress > rot[g].cooling[i]
                 THEN now + CoolEgress ELSE rot[g].cooling[i]
<1> DEFINE i == PlaceOf(call[c].route, egress)
           n == Routes[egress]
           until == now + CoolEgress
<1>1. egress \in Generations /\ n \in Nat /\ Sound(rot[egress], n, Nat) /\ until \in Nat /\ egress # 0
  BY GenerationFacts, UpstreamAssumption DEF TypeOK, UpstreamAssumption
<1>2. call[c].route \in Nat \X Nat /\ RouteExists(call[c].route)
  <2>1. call[c] \in InLoop
    BY StageShapes DEF TypeOK
  <2> QED
    BY <2>1 DEF TypeOK, InLoop
<1>3. i # NoSlot => i \in 1..n
  BY <1>1, <1>2 DEF PlaceOf, NoSlot, RouteExists
<1>4. \A g \in Generations : \A j \in 1..Routes[g] :
         call[c].route = <<g, j>> /\ g = egress <=> i # NoSlot /\ g = egress /\ j = i
  BY <1>1, <1>2, GenerationFacts DEF PlaceOf, NoSlot
<1> HIDE DEF i, n, until
<1>5. CASE call[c].failure = "route" /\ i # NoSlot
  <2>1. rot' = [rot EXCEPT ![egress] = CoolOff(@, i, until)]
    BY <1>5 DEF Judged, i, until
  <2>2. /\ Sound(CoolOff(rot[egress], i, until), n, Nat)
        /\ OnlyPushes(rot[egress], CoolOff(rot[egress], i, until), n, i, until)
    BY <1>1, <1>3, <1>5, CoolOffSound
  <2>3. rot'[egress] = CoolOff(rot[egress], i, until) /\ \A g \in Generations : g # egress => rot'[g] = rot[g]
    BY <1>1, <2>1 DEF TypeOK
  <2>4. \A g \in Generations : Sound(rot'[g], Routes[g], Nat)
    BY <2>2, <2>3 DEF TypeOK, n
  <2>5. \A g \in Generations : \A j \in 1..Routes[g] :
          rot'[g].cooling[j] = IF g = egress /\ j = i /\ until > rot[g].cooling[j]
                               THEN until ELSE rot[g].cooling[j]
    BY <2>2, <2>3 DEF OnlyPushes, n
  <2>6. DOMAIN rot' = Generations
    BY <2>1 DEF TypeOK
  <2> QED
    BY <1>4, <1>5, <2>4, <2>5, <2>6 DEF until
<1>6. CASE ~(call[c].failure = "route" /\ i # NoSlot)
  <2>1. rot' = rot
    BY <1>6 DEF Judged, i
  <2> QED
    BY <1>4, <1>6, <2>1 DEF TypeOK
<1> QED
  BY <1>5, <1>6
-----------------------------------------------------------------------------
(* The type of the state is kept: a step for each action.                  *)

LEMMA QuietStep ==
  ASSUME TypeOK, NEW c \in Calls, NEW k \in CallStates, Becomes(c, k),
         UNCHANGED <<now, egress, rot>>,
         k.stage \in Active => RouteExists(k.route)
  PROVE  TypeOK'
BY RecordsStep DEF TypeOK

(* A call that is in its loop, and where it may go from there.             *)
LEMMA LoopRecords ==
  ASSUME TypeOK, NEW c \in Calls, call[c].stage \in Active
  PROVE  /\ call[c] \in InLoop
         /\ RouteExists(call[c].route)
         /\ \A s \in Active : To(c, s) \in CallStates /\ To(c, s).route = call[c].route
         /\ \A o \in Outcomes : Ended(c, o) \in CallStates /\ Ended(c, o).stage = "ended"
<1>1. call[c] \in InLoop /\ RouteExists(call[c].route)
  BY StageShapes DEF TypeOK
<1>2. \A s \in Active : To(c, s) \in InLoop /\ To(c, s).route = call[c].route
  BY <1>1 DEF To, InLoop
<1>3. \A o \in Outcomes : Ended(c, o) \in HasEnded /\ Ended(c, o).stage = "ended"
  BY <1>1, EndedStates DEF Ended
<1> QED
  BY <1>1, <1>2, <1>3 DEF CallStates

LEMMA OnStates ==
  \A s \in {"idle", "open", "abandoned"} : On(s) \in CallStates /\ On(s).stage = s
BY DEF On, CallStates, Outside

(* A stage that an action starts from is one of the loop's.                *)
LEMMA StagesApart ==
  /\ {"choosing", "waiting", "queueing", "sent", "reporting", "reporting unary"} = Active
  /\ {"ended", "idle", "open", "abandoned"} \cap Active = {}
BY DEF Active

LEMMA StartType == ASSUME TypeOK, NEW c \in Calls, Start(c) PROVE TypeOK'
<1>1. NewCall \in InLoop /\ NewCall.route = Direct
  <2>1. now \in Nat /\ egress \in Generations
    BY DEF TypeOK
  <2> QED
    BY <2>1, DirectExists DEF NewCall, InLoop, Active, Failures
<1> QED
  BY <1>1, DirectExists, QuietStep DEF Start, CallStates

LEMMA BeginAttemptType == ASSUME TypeOK, NEW c \in Calls, BeginAttempt(c) PROVE TypeOK'
<1>1. call[c].stage \in Active /\ call[c].failure \in Outcomes
  <2>1. call[c].stage \in Active
    BY DEF BeginAttempt, Active
  <2>2. call[c] \in InLoop
    BY <2>1, LoopRecords
  <2> QED
    BY <2>1, <2>2 DEF InLoop, Outcomes
<1>2. \/ Becomes(c, Ended(c, call[c].failure))
      \/ \E s \in {"waiting", "queueing"} : Becomes(c, To(c, s))
  BY DEF BeginAttempt
<1>3. CASE Becomes(c, Ended(c, call[c].failure))
  BY <1>1, <1>3, LoopRecords, QuietStep, StagesApart DEF BeginAttempt
<1>4. ASSUME NEW s \in {"waiting", "queueing"}, Becomes(c, To(c, s))
      PROVE  TypeOK'
  <2>1. s \in Active
    BY DEF Active
  <2> QED
    BY <1>1, <1>4, <2>1, LoopRecords, QuietStep DEF BeginAttempt
<1> QED
  BY <1>2, <1>3, <1>4

LEMMA WaitOverType == ASSUME TypeOK, NEW c \in Calls, WaitOver(c) PROVE TypeOK'
<1>1. call[c].stage \in Active /\ "queueing" \in Active
  BY DEF WaitOver, Active
<1> QED
  BY <1>1, LoopRecords, QuietStep DEF WaitOver

(* A call that ends without touching a route.                              *)
LEMMA EndsType ==
  ASSUME TypeOK, NEW c \in Calls, call[c].stage \in Active, NEW o \in Outcomes,
         Becomes(c, Ended(c, o)), UNCHANGED <<now, egress, rot>>
  PROVE  TypeOK'
BY LoopRecords, QuietStep, StagesApart

LEMMA CancelType ==
  ASSUME TypeOK, NEW c \in Calls, CancelWaiting(c) \/ CancelSent(c)
  PROVE  TypeOK'
<1>1. call[c].stage \in Active /\ "cancelled" \in Outcomes
  BY DEF CancelWaiting, CancelSent, Active, Outcomes
<1> QED
  BY <1>1, EndsType DEF CancelWaiting, CancelSent

LEMMA AnswersType ==
  ASSUME TypeOK, NEW c \in Calls, UnaryAnswers(c) \/ BackendRefuses(c)
  PROVE  TypeOK'
<1>1. call[c].stage \in Active /\ "answered" \in Outcomes /\ "refused" \in Outcomes
  BY DEF UnaryAnswers, BackendRefuses, Active, Outcomes
<1> QED
  BY <1>1, EndsType DEF UnaryAnswers, BackendRefuses

LEMMA OutsideType ==
  ASSUME TypeOK, NEW c \in Calls,
         StreamOpens(c) \/ AbandonStream(c) \/ CloseStream(c) \/ CollectStream(c) \/ Return(c)
  PROVE  TypeOK'
<1>1. \E s \in {"idle", "open", "abandoned"} : Becomes(c, On(s))
  BY DEF StreamOpens, AbandonStream, CloseStream, CollectStream, Return
<1>2. UNCHANGED <<now, egress, rot>>
  BY DEF StreamOpens, AbandonStream, CloseStream, CollectStream, Return
<1> QED
  BY <1>1, <1>2, OnStates, QuietStep, StagesApart

LEMMA SendKeepsType == ASSUME TypeOK, NEW c \in Calls, Send(c) PROVE TypeOK'
<1>1. call[c].stage \in Active /\ "sent" \in Active
  BY DEF Send, Active
<1>2. PICK r \in Nat \X Nat : /\ RouteExists(r)
                              /\ Becomes(c, [call[c] EXCEPT !.stage = "sent", !.route = r])
  BY SendType
<1>3. [call[c] EXCEPT !.stage = "sent", !.route = r] \in InLoop
      /\ [call[c] EXCEPT !.stage = "sent", !.route = r].route = r
  BY <1>1, LoopRecords DEF InLoop
<1>4. UNCHANGED <<now, egress>>
  BY DEF Send
<1> QED
  BY <1>2, <1>3, <1>4, SendType, RecordsStep DEF CallStates

LEMMA RoundTripFailsType ==
  ASSUME TypeOK, NEW c \in Calls, NEW failure \in {"route", "unanswered"}, RoundTripFails(c, failure)
  PROVE  TypeOK'
<1> DEFINE s == IF c \in Streams THEN "reporting" ELSE "reporting unary"
           k == [call[c] EXCEPT !.stage = s, !.failure = failure, !.broken = @ /\ failure = "route"]
<1>1. call[c].stage \in Active /\ s \in Active /\ failure \in Failures
  BY DEF RoundTripFails, Active, Failures
<1>2. Becomes(c, k)
  BY DEF RoundTripFails, To
<1>3. k \in InLoop /\ k.route = call[c].route
  <2> HIDE DEF s
  <2> QED  BY <1>1, LoopRecords DEF InLoop
<1>4. UNCHANGED <<now, egress, rot>>
  BY DEF RoundTripFails
<1> HIDE DEF k
<1> QED
  BY <1>1, <1>2, <1>3, <1>4, LoopRecords, QuietStep DEF CallStates

(* The record of a call that goes round its loop once more.                *)
Again(c, limited, failure, broken) ==
  [call[c] EXCEPT !.stage = "choosing", !.attempt = @ + 1, !.limited = limited,
                  !.route = Direct, !.failure = failure, !.broken = broken]

LEMMA AgainStates ==
  ASSUME TypeOK, NEW c \in Calls, call[c].stage \in Active,
         NEW limited \in Nat, NEW failure \in Failures, NEW broken \in BOOLEAN
  PROVE  LET k == Again(c, limited, failure, broken)
         IN  /\ k \in InLoop /\ k \in CallStates
             /\ k.stage = "choosing" /\ k.route = Direct
             /\ k.attempt = call[c].attempt + 1
             /\ k.began = call[c].began /\ k.under = call[c].under
             /\ k.broken = broken /\ k.failure = failure
<1>1. call[c] \in InLoop /\ call[c].attempt + 1 \in Nat \ {0}
  <2>1. call[c] \in InLoop
    BY LoopRecords
  <2> QED
    BY <2>1 DEF InLoop
<1>2. Again(c, limited, failure, broken) \in InLoop
  BY <1>1, DirectExists DEF Again, InLoop, Active
<1> QED
  BY <1>1, <1>2 DEF Again, InLoop, CallStates

LEMMA RateLimitedRecord ==
  ASSUME TypeOK, NEW c \in Calls, NEW budget \in Budgets, RateLimited(c, budget)
  PROVE  \/ Becomes(c, Ended(c, "rate limited"))
         \/ Becomes(c, Again(c, call[c].limited + 1, "rate limited", FALSE))
<1>1. [To(c, "choosing") EXCEPT !.attempt = @ + 1, !.limited = call[c].limited + 1, !.route = Direct,
                                !.failure = "rate limited", !.broken = FALSE]
        = Again(c, call[c].limited + 1, "rate limited", FALSE)
  <2>1. call[c] \in InLoop
    BY LoopRecords DEF RateLimited, Active
  <2> QED
    BY <2>1 DEF Again, To, InLoop
<1> QED
  BY <1>1 DEF RateLimited

LEMMA RateLimitedType ==
  ASSUME TypeOK, NEW c \in Calls, NEW budget \in Budgets, RateLimited(c, budget)
  PROVE  TypeOK'
<1>1. call[c].stage \in Active /\ "rate limited" \in Outcomes /\ "rate limited" \in Failures
  BY DEF RateLimited, Active, Outcomes, Failures
<1>2. UNCHANGED <<now, egress, rot>>
  BY DEF RateLimited
<1>3. call[c].limited + 1 \in Nat
  <2>1. call[c] \in InLoop
    BY <1>1, LoopRecords
  <2> QED
    BY <2>1 DEF InLoop
<1>4. CASE Becomes(c, Ended(c, "rate limited"))
  BY <1>1, <1>2, <1>4, EndsType
<1>5. CASE Becomes(c, Again(c, call[c].limited + 1, "rate limited", FALSE))
  BY <1>1, <1>2, <1>3, <1>5, AgainStates, DirectExists, QuietStep
<1> QED
  BY <1>4, <1>5, RateLimitedRecord

LEMMA ReportFailureRecord ==
  ASSUME TypeOK, NEW c \in Calls, ReportFailure(c)
  PROVE  Becomes(c, Again(c, call[c].limited, call[c].failure, call[c].broken))
<1>1. call[c] \in InLoop
  BY LoopRecords DEF ReportFailure, Active
<1>2. [To(c, "choosing") EXCEPT !.attempt = @ + 1, !.route = Direct]
        = Again(c, call[c].limited, call[c].failure, call[c].broken)
  BY <1>1 DEF Again, To, InLoop
<1> QED
  BY <1>2 DEF ReportFailure

LEMMA ReportsType ==
  ASSUME TypeOK, NEW c \in Calls, ReportFailure(c) \/ ReportUnaryFailure(c)
  PROVE  TypeOK'
<1>1. call[c].stage \in Active /\ rot' = Judged(c) /\ UNCHANGED <<now, egress>>
  BY DEF ReportFailure, ReportUnaryFailure, Active
<1>2. call[c] \in InLoop
  BY <1>1, LoopRecords
<1>3. \E k \in CallStates : Becomes(c, k) /\ (k.stage \in Active => RouteExists(k.route))
  <2>1. CASE ReportFailure(c)
    BY <1>1, <1>2, <2>1, ReportFailureRecord, AgainStates, DirectExists DEF InLoop
  <2>2. CASE ReportUnaryFailure(c)
    <3>1. Becomes(c, Ended(c, call[c].failure)) /\ call[c].failure \in Outcomes
      BY <1>2, <2>2 DEF ReportUnaryFailure, InLoop, Outcomes
    <3> QED
      BY <1>1, <3>1, LoopRecords, StagesApart
  <2> QED
    BY <2>1, <2>2
<1> QED
  BY <1>1, <1>3, JudgedType, RecordsStep

(* Nobody's call moves.                                                    *)
LEMMA OthersType ==
  ASSUME TypeOK, Tick \/ SetEgress \/ UNCHANGED vars
  PROVE  TypeOK'
<1>1. rot' = rot /\ call' = call /\ now' \in Nat /\ egress' \in Generations
  BY GenerationFacts DEF TypeOK, Tick, SetEgress, vars, Generations
<1> QED
  BY <1>1 DEF TypeOK, RouteExists, Generations

LEMMA NextType == TypeOK /\ [Next]_vars => TypeOK'
<1> SUFFICES ASSUME TypeOK, [Next]_vars PROVE TypeOK'
  OBVIOUS
<1>1. CASE Tick \/ SetEgress \/ UNCHANGED vars
  BY <1>1, OthersType
<1>2. ASSUME NEW c \in Calls, Progress(c)
      PROVE  TypeOK'
  BY <1>2, BeginAttemptType, WaitOverType, RoundTripFailsType, AnswersType, OutsideType,
     RateLimitedType, ReportsType DEF Progress, RoundTripEnds
<1>3. ASSUME NEW c \in Calls, Start(c) \/ Send(c) \/ CancelWaiting(c) \/ CancelSent(c)
      PROVE  TypeOK'
  BY <1>3, StartType, SendKeepsType, CancelType
<1>4. ASSUME NEW c \in Calls, Leaves(c) \/ AbandonStream(c)
      PROVE  TypeOK'
  BY <1>4, OutsideType DEF Leaves
<1> QED
  BY <1>1, <1>2, <1>3, <1>4 DEF Next

(* The state of the calls, the slots and the routes keeps its shape.       *)
THEOREM UpstreamTyped == Spec => []TypeOK
BY InitType, NextType, PTL DEF Spec
-----------------------------------------------------------------------------
(* Slots.  Holders is counted, so it has to be finite, which it is because *)
(* it starts empty and changes by one call at a time.                      *)

SlotsInv == IsFiniteSet(Holders) /\ SlotsAccounted

LEMMA HoldersMove ==
  ASSUME TypeOK, NEW c \in Calls, NEW k, Becomes(c, k)
  PROVE  Holders' = IF k.stage \in Holding THEN Holders \cup {c} ELSE Holders \ {c}
<1>1. call'[c] = k /\ \A d \in Calls : d # c => call'[d] = call[d]
  BY CallUpdate DEF TypeOK
<1> QED
  BY <1>1 DEF Holders

(* A call takes a slot, gives it back, or keeps what it has.               *)
LEMMA SlotTaken ==
  ASSUME TypeOK, SlotsInv, NEW c \in Calls, NEW k, Becomes(c, k),
         call[c].stage \notin Holding, k.stage \in Holding,
         sem < MaxConcurrent, sem' = sem + 1
  PROVE  SlotsInv'
<1>1. Holders' = Holders \cup {c} /\ c \notin Holders
  BY HoldersMove DEF Holders
<1>2. IsFiniteSet(Holders') /\ Cardinality(Holders') = Cardinality(Holders) + 1
  BY <1>1, FS_AddElement DEF SlotsInv
<1>3. Cardinality(Holders) \in Nat /\ MaxConcurrent \in Nat
  BY FS_CardinalityType, UpstreamAssumption DEF SlotsInv, UpstreamAssumption
<1> QED
  BY <1>2, <1>3 DEF SlotsInv, SlotsAccounted

LEMMA SlotGiven ==
  ASSUME TypeOK, SlotsInv, NEW c \in Calls, NEW k, Becomes(c, k),
         call[c].stage \in Holding, k.stage \notin Holding, sem' = sem - 1
  PROVE  SlotsInv'
<1>1. Holders' = Holders \ {c} /\ c \in Holders
  BY HoldersMove DEF Holders
<1>2. IsFiniteSet(Holders') /\ Cardinality(Holders') = Cardinality(Holders) - 1
  BY <1>1, FS_RemoveElement DEF SlotsInv
<1>3. Cardinality(Holders) \in Nat /\ MaxConcurrent \in Nat
  BY FS_CardinalityType, UpstreamAssumption DEF SlotsInv, UpstreamAssumption
<1> QED
  BY <1>2, <1>3 DEF SlotsInv, SlotsAccounted

LEMMA SlotKept ==
  ASSUME TypeOK, SlotsInv, NEW c \in Calls, NEW k, Becomes(c, k),
         call[c].stage \in Holding <=> k.stage \in Holding, sem' = sem
  PROVE  SlotsInv'
<1>1. Holders' = Holders
  BY HoldersMove DEF Holders
<1> QED
  BY <1>1 DEF SlotsInv, SlotsAccounted

(* The record of a call whose attempt has failed.                          *)
Failing(c, stage, failure, broken) ==
  [call[c] EXCEPT !.stage = stage, !.failure = failure, !.broken = broken]

LEMMA FailingRecord ==
  ASSUME TypeOK, NEW c \in Calls, NEW failure \in {"route", "unanswered"}, RoundTripFails(c, failure)
  PROVE  \E s \in {"reporting", "reporting unary"} : \E broken \in BOOLEAN :
           /\ s = "reporting" <=> c \in Streams
           /\ broken <=> (call[c].broken /\ failure = "route")
           /\ Becomes(c, Failing(c, s, failure, broken))
<1> DEFINE s == IF c \in Streams THEN "reporting" ELSE "reporting unary"
<1>1. call[c] \in InLoop
  BY LoopRecords DEF RoundTripFails, Active
<1>2. Becomes(c, [To(c, s) EXCEPT !.failure = failure, !.broken = @ /\ failure = "route"])
  BY DEF RoundTripFails
<1> HIDE DEF s
<1>3. CASE failure = "route"
  <2>1. [To(c, s) EXCEPT !.failure = failure, !.broken = @ /\ failure = "route"]
          = Failing(c, s, failure, call[c].broken)
    BY <1>1, <1>3 DEF To, Failing, InLoop
  <2>2. call[c].broken \in BOOLEAN
    BY <1>1 DEF InLoop
  <2> QED
    BY <1>2, <1>3, <2>1, <2>2 DEF s
<1>4. CASE failure = "unanswered"
  <2>1. [To(c, s) EXCEPT !.failure = failure, !.broken = @ /\ failure = "route"]
          = Failing(c, s, failure, FALSE)
    BY <1>1, <1>4 DEF To, Failing, InLoop
  <2> QED
    BY <1>2, <1>4, <2>1 DEF s
<1> QED
  BY <1>3, <1>4

LEMMA FailingStates ==
  ASSUME NEW c, call[c] \in InLoop, NEW s \in {"reporting", "reporting unary"},
         NEW failure \in {"route", "unanswered"}, NEW broken \in BOOLEAN
  PROVE  LET k == Failing(c, s, failure, broken)
         IN  /\ k \in InLoop
             /\ k.stage = s /\ k.failure = failure
             /\ k.attempt = call[c].attempt /\ k.route = call[c].route
             /\ k.began = call[c].began /\ k.under = call[c].under
             /\ k.broken = broken
<1>1. s \in Active /\ failure \in Failures
  BY DEF Active, Failures
<1> QED
  BY <1>1 DEF Failing, InLoop

(* The stages a call can be moved to by an action.                         *)
LEMMA ToStages ==
  ASSUME TypeOK, NEW c \in Calls, call[c].stage \in Active
  PROVE  /\ \A s \in Active : To(c, s).stage = s
         /\ \A o : Ended(c, o).stage = "ended"
<1>1. call[c] \in InLoop
  BY LoopRecords
<1> QED
  BY <1>1 DEF To, Ended, InLoop

LEMMA SlotsStep == TypeOK /\ SlotsInv /\ [Next]_vars => SlotsInv'
<1> SUFFICES ASSUME TypeOK, SlotsInv, [Next]_vars PROVE SlotsInv'
  OBVIOUS
<1>1. CASE Tick \/ SetEgress \/ UNCHANGED vars
  BY <1>1 DEF Tick, SetEgress, vars, SlotsInv, SlotsAccounted, Holders
<1>2. ASSUME NEW c \in Calls, Start(c)
      PROVE  SlotsInv'
  <2>1. NewCall.stage = "choosing"
    BY DEF NewCall
  <2> QED
    BY <1>2, <2>1, SlotKept DEF Start, Holding
<1>3. ASSUME NEW c \in Calls, BeginAttempt(c)
      PROVE  SlotsInv'
  <2>1. \E k : Becomes(c, k) /\ k.stage \in {"ended", "waiting", "queueing"}
    BY <1>3, ToStages DEF BeginAttempt, Active
  <2> QED
    BY <1>3, <2>1, SlotKept DEF BeginAttempt, Holding
<1>4. ASSUME NEW c \in Calls, WaitOver(c) \/ CancelWaiting(c)
      PROVE  SlotsInv'
  <2>1. \E k : Becomes(c, k) /\ k.stage \in {"ended", "queueing"}
    BY <1>4, ToStages DEF WaitOver, CancelWaiting, Active
  <2> QED
    BY <1>4, <2>1, SlotKept DEF WaitOver, CancelWaiting, Holding
<1>5. ASSUME NEW c \in Calls, Send(c)
      PROVE  SlotsInv'
  <2>1. call[c] \in InLoop /\ call[c].stage = "queueing"
    BY <1>5, LoopRecords DEF Send, Active
  <2>2. \E k : Becomes(c, k) /\ k.stage = "sent"
    <3>1. PICK r \in Nat \X Nat : Becomes(c, [call[c] EXCEPT !.stage = "sent", !.route = r])
      BY <1>5, SendType
    <3>2. [call[c] EXCEPT !.stage = "sent", !.route = r].stage = "sent"
      BY <2>1 DEF InLoop
    <3> QED
      BY <3>1, <3>2
  <2> QED
    BY <1>5, <2>1, <2>2, SlotTaken DEF Send, Holding
<1>6. ASSUME NEW c \in Calls, NEW failure \in {"route", "unanswered"}, RoundTripFails(c, failure)
      PROVE  SlotsInv'
  <2>1. call[c] \in InLoop /\ call[c].stage = "sent"
    BY <1>6, LoopRecords DEF RoundTripFails, Active
  <2>2. PICK s \in {"reporting", "reporting unary"} :
          (s = "reporting" <=> c \in Streams) /\ \E k : Becomes(c, k) /\ k.stage = s
    <3>1. PICK s \in {"reporting", "reporting unary"}, broken \in BOOLEAN :
            (s = "reporting" <=> c \in Streams) /\ Becomes(c, Failing(c, s, failure, broken))
      BY <1>6, FailingRecord
    <3>2. Failing(c, s, failure, broken).stage = s
      BY <2>1 DEF Failing, InLoop
    <3> QED
      BY <3>1, <3>2
  <2>3. PICK k : Becomes(c, k) /\ k.stage = s
    BY <2>2
  <2>4. sem' = IF s = "reporting" THEN sem - 1 ELSE sem
    BY <1>6, <2>2 DEF RoundTripFails
  <2>5. CASE s = "reporting"
    BY <2>1, <2>2, <2>3, <2>4, <2>5, SlotGiven DEF Holding
  <2>6. CASE s = "reporting unary"
    BY <2>1, <2>2, <2>3, <2>4, <2>6, SlotKept DEF Holding
  <2> QED
    BY <2>5, <2>6
<1>7. ASSUME NEW c \in Calls,
             CancelSent(c) \/ UnaryAnswers(c) \/ BackendRefuses(c) \/ ReportUnaryFailure(c)
      PROVE  SlotsInv'
  <2>1. \E k : Becomes(c, k) /\ k.stage = "ended"
    BY <1>7, ToStages DEF CancelSent, UnaryAnswers, BackendRefuses, ReportUnaryFailure, Active
  <2>2. call[c].stage \in {"sent", "reporting unary"} /\ sem' = sem - 1
    BY <1>7 DEF CancelSent, UnaryAnswers, BackendRefuses, ReportUnaryFailure
  <2> QED
    BY <2>1, <2>2, SlotGiven DEF Holding
<1>8. ASSUME NEW c \in Calls, NEW budget \in Budgets, RateLimited(c, budget)
      PROVE  SlotsInv'
  <2>1. call[c].stage = "sent" /\ call[c].stage \in Active /\ sem' = sem - 1
    BY <1>8 DEF RateLimited, Active
  <2>2. \E k : Becomes(c, k) /\ k.stage \in {"ended", "choosing"}
    <3>1. call[c].limited + 1 \in Nat
      <4>1. call[c] \in InLoop
        BY <2>1, LoopRecords
      <4> QED
        BY <4>1 DEF InLoop
    <3>2. "rate limited" \in Failures
      BY DEF Failures
    <3>3. CASE Becomes(c, Ended(c, "rate limited"))
      <4>1. Ended(c, "rate limited").stage = "ended"
        BY DEF Ended
      <4> QED
        BY <3>3, <4>1
    <3>4. CASE Becomes(c, Again(c, call[c].limited + 1, "rate limited", FALSE))
      <4>1. Again(c, call[c].limited + 1, "rate limited", FALSE).stage = "choosing"
        BY <2>1, <3>1, <3>2, AgainStates
      <4> QED
        BY <3>4, <4>1
    <3> QED
      BY <1>8, <3>3, <3>4, RateLimitedRecord
  <2> QED
    BY <2>1, <2>2, SlotGiven DEF Holding
<1>9. ASSUME NEW c \in Calls, ReportFailure(c)
      PROVE  SlotsInv'
  <2>1. call[c] \in InLoop /\ call[c].stage \in Active
    BY <1>9, LoopRecords DEF ReportFailure, Active
  <2>2. \E k : Becomes(c, k) /\ k.stage = "choosing"
    <3>1. call[c].limited \in Nat /\ call[c].failure \in Failures /\ call[c].broken \in BOOLEAN
      BY <2>1 DEF InLoop
    <3> QED
      BY <1>9, <2>1, <3>1, ReportFailureRecord, AgainStates
  <2> QED
    BY <1>9, <2>2, SlotKept DEF ReportFailure, Holding
<1>10. ASSUME NEW c \in Calls, StreamOpens(c) \/ AbandonStream(c)
       PROVE  SlotsInv'
  <2>1. \E k : Becomes(c, k) /\ k.stage \in {"open", "abandoned"}
    BY <1>10, OnStates DEF StreamOpens, AbandonStream
  <2> QED
    BY <1>10, <2>1, SlotKept DEF StreamOpens, AbandonStream, Holding
<1>11. ASSUME NEW c \in Calls, CloseStream(c) \/ CollectStream(c)
       PROVE  SlotsInv'
  <2>1. \E k : Becomes(c, k) /\ k.stage = "idle"
    BY <1>11, OnStates DEF CloseStream, CollectStream
  <2> QED
    BY <1>11, <2>1, SlotGiven DEF CloseStream, CollectStream, Holding
<1>12. ASSUME NEW c \in Calls, Return(c)
       PROVE  SlotsInv'
  <2>1. \E k : Becomes(c, k) /\ k.stage = "idle"
    BY <1>12, OnStates DEF Return
  <2> QED
    BY <1>12, <2>1, SlotKept DEF Return, Holding
<1> QED
  BY <1>1, <1>2, <1>3, <1>4, <1>5, <1>6, <1>7, <1>8, <1>9, <1>10, <1>11, <1>12
     DEF Next, Progress, RoundTripEnds, Leaves

LEMMA InitSlots == Init => SlotsInv
<1> SUFFICES ASSUME Init PROVE SlotsInv
  OBVIOUS
<1>1. Holders = {}
  BY DEF Init, Holders, On, Holding
<1> QED
  BY <1>1, FS_EmptySet, UpstreamAssumption DEF Init, SlotsInv, SlotsAccounted, UpstreamAssumption

(* The slots taken are as many as the calls that hold one, and never more  *)
(* than there are: each way out of postStream and PostUnary gives back     *)
(* exactly what was taken.                                                 *)
THEOREM SlotsBalance == Spec => []SlotsAccounted
<1>1. Init => TypeOK /\ SlotsInv
  BY InitType, InitSlots
<1>2. TypeOK /\ SlotsInv /\ [Next]_vars => (TypeOK /\ SlotsInv)'
  BY NextType, SlotsStep
<1>3. SlotsInv => SlotsAccounted
  BY DEF SlotsInv
<1> QED
  BY <1>1, <1>2, <1>3, PTL DEF Spec

-----------------------------------------------------------------------------
(* Routes. *)

(* The deadlines of a list, seen from outside.                             *)
SameDeadlines == \A g \in Generations : \A i \in 1..Routes[g] : rot'[g].cooling[i] = rot[g].cooling[i]

(* Every step but a report leaves every deadline alone.                    *)
LEMMA OnlyReportsCool ==
  ASSUME TypeOK, [Next]_vars
  PROVE  SameDeadlines \/ \E c \in Calls : ReportFailure(c) \/ ReportUnaryFailure(c)
<1>1. CASE UNCHANGED rot
  BY <1>1 DEF SameDeadlines
<1>2. ASSUME NEW c \in Calls, Send(c)
      PROVE  SameDeadlines
  BY <1>2, SendType DEF SameDeadlines
<1>3. \/ UNCHANGED rot
      \/ \E c \in Calls : Send(c) \/ ReportFailure(c) \/ ReportUnaryFailure(c)
  BY DEF Next, vars, Tick, SetEgress, Progress, RoundTripEnds, Leaves, Start, BeginAttempt, WaitOver,
         RoundTripFails, UnaryAnswers, StreamOpens, BackendRefuses, RateLimited, CloseStream,
         CollectStream, Return, CancelWaiting, CancelSent, AbandonStream
<1> QED
  BY <1>1, <1>2, <1>3

(* A route leaves the rotation only by the report of a call that went out  *)
(* over it and could not use it, whatever list is installed by then.       *)
THEOREM RoutesKeepTheirFaults == Spec => RoutesJudgedFairly
<1> DEFINE Fair == \A g \in Generations : \A i \in 1..Routes[g] :
                      rot'[g].cooling[i] # rot[g].cooling[i] =>
                        \E c \in Calls : /\ ReportFailure(c) \/ ReportUnaryFailure(c)
                                         /\ call[c].route = <<g, i>>
                                         /\ call[c].failure = "route"
<1>1. TypeOK /\ [Next]_vars => Fair
  <2> SUFFICES ASSUME TypeOK, [Next]_vars PROVE Fair
    OBVIOUS
  <2>1. CASE SameDeadlines
    BY <2>1 DEF SameDeadlines
  <2>2. ASSUME NEW c \in Calls, ReportFailure(c) \/ ReportUnaryFailure(c)
        PROVE  Fair
    <3>1. call[c].stage \in Active /\ rot' = Judged(c)
      BY <2>2 DEF ReportFailure, ReportUnaryFailure, Active
    <3> QED
      BY <2>2, <3>1, JudgedType
  <2> QED
    BY <2>1, <2>2, OnlyReportsCool
<1>2. TypeOK /\ [Next]_vars => [Fair]_vars
  BY <1>1
<1> QED
  BY <1>2, UpstreamTyped, PTL DEF Spec, RoutesJudgedFairly
-----------------------------------------------------------------------------
(* Giving up.  Each failed attempt of a call has put a route of the list   *)
(* out of rotation for longer than the call has run, and the next attempt  *)
(* takes another one: so after as many failures as there are routes none   *)
(* is left.  That is counted here, while the list stays, the failures were *)
(* of routes and no cooldown that began with the call has run out.         *)

Places == 1..Routes[egress]

(* The routes of the installed list that have failed since k began.        *)
Dead(k) == {i \in Places : k.began + CoolEgress <= rot[egress].cooling[i]}

Relevant(k) == k.broken /\ k.under = egress /\ now - k.began < CoolEgress

Enough(D, P, n) == Cardinality(D) >= n \/ P \subseteq D

Between == {"choosing", "waiting", "queueing"}
Out     == {"sent", "reporting"}

Known(k) ==
  /\ k.under <= egress /\ k.began <= now
  /\ k.stage \in Between /\ Relevant(k) => Enough(Dead(k), Places, k.attempt - 1)
  /\ k.stage \in Out /\ k.route # Direct => k.under <= k.route[1] /\ k.route[1] <= egress
  /\ k.stage \in Out /\ k.route # Direct /\ Relevant(k) =>
       Enough(Dead(k) \ {k.route[2]}, Places \ {k.route[2]}, k.attempt - 1)
  /\ k.stage = "reporting" /\ k.broken => k.failure = "route" /\ k.route # Direct
  /\ k.stage = "ended" /\ k.outcome = "route" /\ Relevant(k) /\ Routes[egress] <= MaxAttemptsWithRoutes
       => Places \subseteq Dead(k)

Informed(c) ==
  /\ call[c].stage # "reporting unary"
  /\ \A k \in InLoop \cup HasEnded : call[c] = k => Known(k)

InformedInv == \A c \in Streams : Informed(c)

(* Sets of routes are finite.                                              *)
LEMMA PlacesFinite ==
  ASSUME TypeOK
  PROVE  /\ IsFiniteSet(Places) /\ Cardinality(Places) = Routes[egress]
         /\ \A D \in SUBSET Places : IsFiniteSet(D) /\ Cardinality(D) \in Nat
<1>1. Routes[egress] \in Nat
  BY GenerationFacts DEF TypeOK
<1>2. IsFiniteSet(Places) /\ Cardinality(Places) = Routes[egress]
  <2>1. PICK n \in Nat : n = Routes[egress]
    BY <1>1
  <2>2. IsFiniteSet(1..n) /\ Cardinality(1..n) = IF 1 > n THEN 0 ELSE n - 1 + 1
    BY FS_Interval
  <2> QED
    BY <2>1, <2>2 DEF Places
<1> QED
  BY <1>2, FS_Subset, FS_CardinalityType

LEMMA EnoughGrows ==
  ASSUME NEW P, IsFiniteSet(P), NEW D \in SUBSET P, NEW E \in SUBSET P, D \subseteq E,
         NEW n \in Int, Enough(D, P, n)
  PROVE  Enough(E, P, n)
<1>1. IsFiniteSet(E) /\ Cardinality(E) \in Nat
  BY FS_Subset, FS_CardinalityType
<1>2. Cardinality(D) <= Cardinality(E) /\ Cardinality(D) \in Nat
  BY <1>1, FS_Subset, FS_CardinalityType
<1> QED
  BY <1>1, <1>2 DEF Enough

LEMMA CountedStates == ASSUME NEW k \in InLoop \cup HasEnded
  PROVE  /\ k.began \in Nat /\ k.under \in Generations /\ k.under \in Nat /\ k.broken \in BOOLEAN
         /\ k.stage \in Active => k \in InLoop /\ k.attempt - 1 \in Nat
<1>1. k.stage \in Active => k \in InLoop
  BY DEF InLoop, HasEnded, Active
<1> QED
  BY <1>1, GenerationFacts DEF InLoop, HasEnded

(* Time goes on, the list is replaced, others report: what is known of a   *)
(* call stays true, since deadlines only move out.                         *)
Onwards ==
  /\ TypeOK /\ TypeOK'
  /\ egress <= egress' /\ now <= now'
  /\ \A i \in Places : rot[egress].cooling[i] <= rot'[egress].cooling[i]

LEMMA DeadGrows ==
  ASSUME Onwards, NEW k \in InLoop \cup HasEnded, k.under <= egress, Relevant(k)'
  PROVE  /\ Relevant(k) /\ egress' = egress /\ Places' = Places
         /\ Dead(k) \subseteq Dead(k)' /\ Dead(k)' \subseteq Places
<1>1. now \in Nat /\ now' \in Nat /\ egress \in Nat /\ egress' \in Nat /\ CoolEgress \in Nat
  BY GenerationFacts, UpstreamAssumption DEF Onwards, TypeOK, UpstreamAssumption, Generations
<1>2. k.began \in Nat /\ k.under \in Nat
  BY CountedStates
<1>3. k.under = egress' /\ egress' = egress
  BY <1>1, <1>2 DEF Relevant, Onwards
<1>4. Relevant(k) /\ Places' = Places
  BY <1>1, <1>2, <1>3 DEF Relevant, Onwards, Places
<1>5. \A i \in Places : rot[egress].cooling[i] \in Nat /\ rot'[egress].cooling[i] \in Nat
  <2>1. Sound(rot[egress], Routes[egress], Nat) /\ Sound(rot'[egress], Routes[egress], Nat)
    BY <1>3 DEF Onwards, TypeOK, Generations
  <2> QED
    BY <2>1, ElementOfSeq DEF Sound, Places
<1>6. Dead(k) \subseteq Dead(k)'
  BY <1>1, <1>2, <1>3, <1>4, <1>5 DEF Dead, Onwards
<1> QED
  BY <1>3, <1>4, <1>6 DEF Dead

LEMMA KnownLasts ==
  ASSUME Onwards, NEW k \in InLoop \cup HasEnded, Known(k)
  PROVE  Known(k)'
<1>1. k.began \in Nat /\ k.under \in Nat /\ k.broken \in BOOLEAN
      /\ (k.stage \in Active => k.attempt - 1 \in Nat /\ k.route[1] \in Nat)
  BY CountedStates DEF InLoop
<1>2. now \in Nat /\ now' \in Nat /\ egress \in Nat /\ egress' \in Nat /\ egress <= egress' /\ now <= now'
  BY GenerationFacts DEF Onwards, TypeOK, Generations
<1>3. k.under <= egress' /\ k.began <= now'
  BY <1>1, <1>2 DEF Known
<1>4. (k.stage \in Between \/ k.stage \in Out) => k.stage \in Active
  BY DEF Between, Out, Active
<1>5. ASSUME k.stage \in Out, k.route # Direct
      PROVE  k.under <= k.route[1] /\ k.route[1] <= egress'
  <2>1. k.under <= k.route[1] /\ k.route[1] <= egress
    BY <1>5 DEF Known
  <2> QED
    BY <1>1, <1>2, <1>4, <1>5, <2>1
<1>6. CASE ~Relevant(k)'
  BY <1>3, <1>5, <1>6 DEF Known
<1>7. CASE Relevant(k)'
  <2>1. /\ Relevant(k) /\ egress' = egress /\ Places' = Places
        /\ Dead(k) \subseteq Dead(k)' /\ Dead(k)' \subseteq Places
    BY <1>7, DeadGrows DEF Known
  <2>2. IsFiniteSet(Places)
    BY PlacesFinite DEF Onwards
  <2>3. ASSUME k.stage \in Between
        PROVE  Enough(Dead(k)', Places, k.attempt - 1)
    <3>1. Enough(Dead(k), Places, k.attempt - 1)
      BY <2>1, <2>3 DEF Known
    <3>2. k.attempt - 1 \in Int
      BY <1>1, <1>4, <2>3
    <3> QED
      BY <2>1, <2>2, <3>1, <3>2, EnoughGrows
  <2>4. ASSUME k.stage \in Out, k.route # Direct
        PROVE  Enough(Dead(k)' \ {k.route[2]}, Places \ {k.route[2]}, k.attempt - 1)
    <3>1. Enough(Dead(k) \ {k.route[2]}, Places \ {k.route[2]}, k.attempt - 1)
      BY <2>1, <2>4 DEF Known
    <3>2. k.attempt - 1 \in Int
      BY <1>1, <1>4, <2>4
    <3>3. IsFiniteSet(Places \ {k.route[2]})
      BY <2>2, FS_Subset
    <3>4. Dead(k) \ {k.route[2]} \subseteq Dead(k)' \ {k.route[2]}
          /\ Dead(k)' \ {k.route[2]} \subseteq Places \ {k.route[2]}
      BY <2>1
    <3> QED
      BY <3>1, <3>2, <3>3, <3>4, EnoughGrows
  <2>5. k.stage = "ended" /\ k.outcome = "route" /\ Routes[egress] <= MaxAttemptsWithRoutes
          => Places \subseteq Dead(k)'
    BY <2>1 DEF Known
  <2> QED
    BY <1>3, <1>5, <2>1, <2>3, <2>4, <2>5 DEF Known, Enough
<1> QED
  BY <1>6, <1>7

(* A call whose attempt starts goes out over a route it has not seen fail, *)
(* unless it has seen all of them fail.                                    *)
LEMMA PicksAlive ==
  ASSUME TypeOK, NEW k \in InLoop, Relevant(k), Routes[egress] # 0
  PROVE  /\ Picked(rot[egress], now) \in Places
         /\ Picked(rot[egress], now) \notin Dead(k) \/ Places \subseteq Dead(k)
<1> DEFINE p == Picked(rot[egress], now)
           n == Routes[egress]
<1>1. n \in Nat \ {0} /\ Sound(rot[egress], n, Nat) /\ now \in Nat /\ CoolEgress \in Nat /\ k.began \in Nat
  BY GenerationFacts, UpstreamAssumption, CountedStates DEF TypeOK, UpstreamAssumption
<1>2. rot[egress] \in Cursor /\ Len(rot[egress].cooling) = n /\ Slots(rot[egress]) = Places
  BY <1>1, SoundIsCursor DEF Sound, Slots, Places
<1>3. \A i \in Places : rot[egress].cooling[i] \in Nat
  BY <1>1, ElementOfSeq DEF Sound, Places
<1>4. /\ p \in Places
      /\ WarmSlots(rot[egress], now) # {} => p \in WarmSlots(rot[egress], now)
      /\ WarmSlots(rot[egress], now) = {} =>
           \A j \in Places : rot[egress].cooling[p] <= rot[egress].cooling[j]
  BY <1>1, <1>2, PickedIsBest
<1> HIDE DEF p
<1>5. ASSUME WarmSlots(rot[egress], now) # {}
      PROVE  p \notin Dead(k)
  <2>1. rot[egress].cooling[p] <= now
    BY <1>1, <1>3, <1>4, <1>5 DEF WarmSlots, IsCooling
  <2>2. now < k.began + CoolEgress
    BY <1>1 DEF Relevant
  <2> QED
    BY <1>1, <1>3, <1>4, <2>1, <2>2 DEF Dead
<1>6. ASSUME WarmSlots(rot[egress], now) = {}, p \in Dead(k), NEW j \in Places
      PROVE  j \in Dead(k)
  <2>1. /\ k.began + CoolEgress <= rot[egress].cooling[p]
        /\ rot[egress].cooling[p] <= rot[egress].cooling[j]
    BY <1>4, <1>6 DEF Dead
  <2> QED
    BY <1>1, <1>3, <1>4, <1>6, <2>1 DEF Dead
<1> QED
  BY <1>4, <1>5, <1>6 DEF p

(* What each way on makes of what is known.                                *)
SameCall(k, l) == k.began = l.began /\ k.under = l.under

LEMMA StillBetween ==
  ASSUME NEW k \in InLoop, NEW l \in InLoop, Known(k)', SameCall(k, l),
         k.stage \in Between, l.stage \in Between, l.attempt = k.attempt, l.broken = k.broken
  PROVE  Known(l)'
<1>1. Dead(l)' = Dead(k)' /\ (Relevant(l)' <=> Relevant(k)')
  BY DEF SameCall, Dead, Relevant
<1>2. l.stage \notin Out /\ l.stage # "ended"
  BY DEF Between, Out
<1> QED
  BY <1>1, <1>2 DEF SameCall, Known, Out, Enough

LEMMA GoesOut ==
  ASSUME TypeOK, UNCHANGED <<egress, now>>, SameDeadlines,
         NEW k \in InLoop, NEW l \in InLoop, Known(k), SameCall(k, l),
         k.stage \in Between, l.stage = "sent", l.attempt = k.attempt, l.broken = k.broken,
         l.route = RouteOf(egress, Picked(rot[egress], now)),
         Picked(rot[egress], now) \in 0..Routes[egress]
  PROVE  Known(l)'
<1> DEFINE p == Picked(rot[egress], now)
<1>1. Places' = Places /\ Dead(l)' = Dead(k) /\ (Relevant(l)' <=> Relevant(k))
  <2>1. egress \in Generations
    BY DEF TypeOK
  <2>2. Places' = Places
    BY DEF Places
  <2>3. \A i \in Places : rot'[egress].cooling[i] = rot[egress].cooling[i]
    BY <2>1 DEF SameDeadlines, Places
  <2>4. Dead(l)' = Dead(k)
    BY <2>2, <2>3 DEF SameCall, Dead
  <2> QED
    BY <2>2, <2>4 DEF SameCall, Relevant
<1>2. l.under <= egress' /\ l.began <= now'
  BY DEF Known, SameCall
<1>3. ASSUME l.route # Direct
      PROVE  /\ l.route[1] = egress /\ l.route[2] = p
             /\ Relevant(l)' =>
                  Enough(Dead(l)' \ {l.route[2]}, Places' \ {l.route[2]}, l.attempt - 1)
  <2>1. l.route = <<egress, p>>
    BY <1>3 DEF RouteOf, NoSlot
  <2>2. l.route[1] = egress /\ l.route[2] = p
    BY <2>1
  <2>3. ASSUME Relevant(l)'
        PROVE  Enough(Dead(k) \ {p}, Places \ {p}, k.attempt - 1)
    <3>1. Relevant(k) /\ Enough(Dead(k), Places, k.attempt - 1)
      BY <1>1, <2>3 DEF Known
    <3>2. Routes[egress] # 0
      <4>1. p # 0
        BY <1>3 DEF RouteOf, NoSlot
      <4> QED
        BY <4>1, GenerationFacts DEF TypeOK
    <3>3. p \notin Dead(k) \/ Places \subseteq Dead(k)
      BY <3>1, <3>2, PicksAlive
    <3>4. CASE p \notin Dead(k)
      <4>1. Dead(k) \ {p} = Dead(k)
        BY <3>4
      <4> QED
        BY <3>1, <4>1 DEF Enough
    <3> QED
      BY <3>3, <3>4 DEF Enough
  <2> QED
    BY <1>1, <2>2, <2>3
<1>4. l.stage \in Out /\ l.stage \notin Between /\ l.stage \notin {"reporting", "ended"}
  BY DEF Out, Between
<1>5. l.route # Direct => l.under <= l.route[1] /\ l.route[1] <= egress'
  BY <1>2, <1>3, GenerationFacts DEF TypeOK
<1> HIDE DEF p
<1> QED
  BY <1>2, <1>3, <1>4, <1>5 DEF Known, Enough

LEMMA AttemptFails ==
  ASSUME NEW k \in InLoop, NEW l \in InLoop, Known(k)', SameCall(k, l),
         k.stage = "sent", l.stage = "reporting", l.attempt = k.attempt, l.route = k.route,
         l.broken <=> k.broken /\ l.failure = "route",
         l.failure = "route" => k.route # Direct
  PROVE  Known(l)'
<1>1. Dead(l)' = Dead(k)' /\ (Relevant(l)' => Relevant(k)')
  BY DEF SameCall, Dead, Relevant
<1>2. k.stage \in Out /\ l.stage \in Out /\ l.stage \notin Between /\ l.stage # "ended"
  BY DEF Between, Out
<1>3. l.broken => l.failure = "route" /\ l.route # Direct
  OBVIOUS
<1> QED
  BY <1>1, <1>2, <1>3 DEF SameCall, Known, Enough

LEMMA BeginsKnown ==
  ASSUME TypeOK', NEW l \in InLoop, l.stage \in Between,
         l.began = now', l.under = egress', l.attempt = 1 \/ ~l.broken
  PROVE  Known(l)'
<1>1. now' \in Nat /\ egress' \in Nat
  BY GenerationFacts DEF TypeOK, Generations
<1>2. ASSUME l.attempt = 1
      PROVE  Enough(Dead(l)', Places', l.attempt - 1)
  <2>1. IsFiniteSet(Places')
    <3>1. Routes[egress'] \in Nat
      BY GenerationFacts DEF TypeOK, Generations
    <3> QED
      BY <3>1, FS_Interval DEF Places
  <2>2. Dead(l)' \subseteq Places'
    BY DEF Dead, Places
  <2>3. Cardinality(Dead(l)') \in Nat
    BY <2>1, <2>2, FS_Subset, FS_CardinalityType
  <2> QED
    BY <1>2, <2>3 DEF Enough
<1>3. l.stage \notin Out /\ l.stage # "ended"
  BY DEF Between, Out
<1> QED
  BY <1>1, <1>2, <1>3 DEF Known, Relevant, Enough, Out

(* A failure that was not a route's, or an end that is not one: nothing is *)
(* claimed any more.                                                       *)
LEMMA NoClaim ==
  ASSUME NEW k \in InLoop, NEW l \in InLoop \cup HasEnded, Known(k)', SameCall(k, l),
         \/ l.stage \in Between /\ l.broken = FALSE
         \/ l.stage = "ended" /\ l.outcome # "route"
  PROVE  Known(l)'
<1>1. l.stage \notin Out /\ l.stage # "reporting"
  BY DEF Between, Out
<1>2. l.stage = "ended" => l.stage \notin Between
  BY DEF Between
<1> QED
  BY <1>1, <1>2 DEF SameCall, Known, Relevant, Out

(* A route that has failed is reported, and so another one is dead.        *)
LEMMA ReportCounts ==
  ASSUME TypeOK, TypeOK', NEW c \in Calls, NEW k \in InLoop, NEW l \in InLoop,
         call[c] = k, Known(k), Known(k)', SameCall(k, l), UNCHANGED <<egress, now>>,
         rot' = Judged(c),
         k.stage = "reporting", l.stage = "choosing",
         l.attempt = k.attempt + 1, l.broken = k.broken
  PROVE  Known(l)'
<1> DEFINE p == k.route[2]
<1>1. k.attempt \in Nat \ {0} /\ k.began \in Nat /\ k.under \in Generations /\ k.route \in Nat \X Nat
  BY DEF InLoop
<1>2. l.under <= egress' /\ l.began <= now'
  BY DEF Known, SameCall
<1>3. ASSUME Relevant(l)'
      PROVE  Enough(Dead(l)', Places', l.attempt - 1)
  <2>1. /\ k.failure = "route" /\ k.route # Direct /\ k.under = egress
        /\ k.under <= k.route[1] /\ k.route[1] <= egress
    <3>1. k.broken /\ k.under = egress
      BY <1>3 DEF SameCall, Relevant
    <3> QED
      BY <3>1 DEF Known, Out
  <2>2. egress \in Generations /\ egress \in Nat /\ egress' = egress
    BY GenerationFacts DEF TypeOK
  <2>3. k.route[1] = egress /\ k.route = <<egress, p>>
    BY <1>1, <2>1, <2>2
  <2>4. p \in Places
    <3>1. RouteExists(k.route)
      BY StageShapes DEF TypeOK, Active
    <3> QED
      BY <2>2, <2>3, <3>1 DEF RouteExists, Places
  <2>5. rot'[egress].cooling[p] >= now + CoolEgress
    <3>1. call[c].stage \in Active
      BY DEF Active
    <3>2. rot'[egress].cooling[p] =
            IF now + CoolEgress > rot[egress].cooling[p] THEN now + CoolEgress ELSE rot[egress].cooling[p]
      BY <2>1, <2>2, <2>3, <2>4, <3>1, JudgedType DEF Places
    <3>3. rot[egress].cooling[p] \in Nat /\ now + CoolEgress \in Nat
      <4>1. Sound(rot[egress], Routes[egress], Nat)
        BY <2>2 DEF TypeOK
      <4>2. rot[egress].cooling[p] \in Nat
        BY <2>4, <4>1, ElementOfSeq DEF Sound, Places
      <4> QED
        BY <4>2, UpstreamAssumption DEF TypeOK, UpstreamAssumption
    <3> QED
      BY <3>2, <3>3
  <2>6. p \in Dead(l)'
    <3>1. l.began + CoolEgress <= now + CoolEgress /\ l.began + CoolEgress \in Nat /\ now + CoolEgress \in Nat
      BY <1>1, <1>2, UpstreamAssumption DEF SameCall, TypeOK, UpstreamAssumption
    <3>2. rot'[egress].cooling[p] \in Nat
      <4>1. Sound(rot'[egress], Routes[egress], Nat)
        BY <2>2 DEF TypeOK, Generations
      <4> QED
        BY <2>4, <4>1, ElementOfSeq DEF Sound, Places
    <3> QED
      BY <2>2, <2>4, <2>5, <3>1, <3>2 DEF Dead, Places
  <2>7. Dead(l)' = Dead(k)' /\ Relevant(k)'
    BY <1>3 DEF SameCall, Dead, Relevant
  <2>8. Enough(Dead(k)' \ {p}, Places' \ {p}, k.attempt - 1)
    BY <2>1, <2>7 DEF Known, Out, Enough
  <2>9. IsFiniteSet(Dead(l)')
    <3>1. Places' = Places /\ Dead(l)' \subseteq Places
      BY DEF Places, Dead
    <3> QED
      BY <3>1, PlacesFinite
  <2>10. CASE Cardinality(Dead(l)' \ {p}) >= k.attempt - 1
    <3>1. Cardinality(Dead(l)' \ {p}) = Cardinality(Dead(l)') - 1 /\ Cardinality(Dead(l)') \in Nat
      BY <2>6, <2>9, FS_RemoveElement, FS_CardinalityType
    <3> QED
      BY <1>1, <2>10, <3>1 DEF Enough
  <2>11. CASE Places' \ {p} \subseteq Dead(l)' \ {p}
    BY <2>6, <2>11 DEF Enough
  <2> QED
    BY <2>7, <2>8, <2>10, <2>11 DEF Enough
<1>4. l.stage \notin Out /\ l.stage # "ended"
  BY DEF Out
<1> QED
  BY <1>2, <1>3, <1>4 DEF Known, Enough, Out

(* Out of attempts: as many routes have failed as there are.               *)
LEMMA GivingUp ==
  ASSUME TypeOK, NEW k \in InLoop, NEW l \in HasEnded, Known(k), SameCall(k, l),
         UNCHANGED <<egress, now, rot>>,
         k.stage = "choosing", l.broken = k.broken, k.attempt > Attempts
  PROVE  Known(l)'
<1>1. /\ k.attempt \in Nat /\ Routes[egress] \in Nat
      /\ MaxStreamAttempts \in Nat /\ MaxAttemptsWithRoutes \in Nat
  BY GenerationFacts, UpstreamAssumption DEF TypeOK, InLoop, UpstreamAssumption
<1>2. l.under <= egress' /\ l.began <= now'
  BY DEF Known, SameCall
<1>3. Dead(l)' = Dead(k) /\ (Relevant(l)' <=> Relevant(k)) /\ Places' = Places
  BY DEF SameCall, Dead, Relevant, Places
<1>4. ASSUME Relevant(k), Routes[egress] <= MaxAttemptsWithRoutes
      PROVE  Places \subseteq Dead(k)
  <2>1. Enough(Dead(k), Places, k.attempt - 1)
    BY <1>4 DEF Known, Between
  <2>2. k.attempt - 1 >= Routes[egress]
    BY <1>1, <1>4 DEF Attempts
  <2>3. /\ IsFiniteSet(Places) /\ Cardinality(Places) = Routes[egress]
        /\ Dead(k) \in SUBSET Places /\ Cardinality(Dead(k)) \in Nat
    BY PlacesFinite DEF Dead
  <2>4. Cardinality(Dead(k)) <= Cardinality(Places)
        /\ (Cardinality(Places) = Cardinality(Dead(k)) => Places = Dead(k))
    BY <2>3, FS_Subset
  <2> QED
    BY <1>1, <2>1, <2>2, <2>3, <2>4 DEF Enough
<1>5. l.stage = "ended" /\ l.stage \notin Between /\ l.stage \notin Out
  BY DEF HasEnded, Between, Out
<1> QED
  BY <1>2, <1>3, <1>4, <1>5 DEF Known, Out

(* The steps of one stream, from the record before to the record after.    *)
LEMMA OnwardsStep ==
  ASSUME TypeOK, TypeOK', [Next]_vars
  PROVE  Onwards
<1>1. egress \in Generations /\ egress \in Nat /\ now \in Nat
  BY GenerationFacts DEF TypeOK
<1>2. \A i \in Places : rot[egress].cooling[i] \in Nat
  <2>1. Sound(rot[egress], Routes[egress], Nat)
    BY <1>1 DEF TypeOK
  <2> QED
    BY <2>1, ElementOfSeq DEF Sound, Places
<1>3. \A i \in Places : rot[egress].cooling[i] <= rot'[egress].cooling[i]
  <2>1. CASE SameDeadlines
    BY <1>1, <1>2, <2>1 DEF SameDeadlines, Places
  <2>2. ASSUME NEW c \in Calls, ReportFailure(c) \/ ReportUnaryFailure(c)
        PROVE  \A i \in Places : rot[egress].cooling[i] <= rot'[egress].cooling[i]
    <3>1. call[c].stage \in Active /\ rot' = Judged(c)
      BY <2>2 DEF ReportFailure, ReportUnaryFailure, Active
    <3>2. \A i \in Places : rot'[egress].cooling[i] = rot[egress].cooling[i]
                          \/ /\ rot'[egress].cooling[i] = now + CoolEgress
                             /\ now + CoolEgress > rot[egress].cooling[i]
      BY <1>1, <3>1, JudgedType DEF Places
    <3>3. now + CoolEgress \in Nat
      BY <1>1, UpstreamAssumption DEF UpstreamAssumption
    <3> QED
      BY <1>2, <3>2, <3>3
  <2> QED
    BY <2>1, <2>2, OnlyReportsCool
<1>4. \/ UNCHANGED <<egress, now>>
      \/ Tick \/ SetEgress
  BY DEF Next, vars, Progress, RoundTripEnds, Leaves, Start, BeginAttempt, WaitOver, Send,
         RoundTripFails, UnaryAnswers, StreamOpens, BackendRefuses, RateLimited, CloseStream,
         CollectStream, Return, CancelWaiting, CancelSent, AbandonStream, ReportFailure, ReportUnaryFailure
<1>5. egress <= egress' /\ now <= now'
  BY <1>1, <1>4 DEF Tick, SetEgress
<1> QED
  BY <1>3, <1>5 DEF Onwards

LEMMA KnownBefore ==
  ASSUME Onwards, NEW c \in Streams, Informed(c), call[c].stage \in Active
  PROVE  \E k \in InLoop : call[c] = k /\ Known(k) /\ Known(k)'
<1>1. call[c] \in InLoop
  BY StageShapes DEF Onwards, TypeOK, Calls
<1>2. PICK k \in InLoop : call[c] = k
  BY <1>1
<1>3. Known(k)
  BY <1>2 DEF Informed
<1>4. Known(k)'
  BY <1>3, KnownLasts
<1> QED
  BY <1>2, <1>3, <1>4

LEMMA SameStays ==
  ASSUME Onwards, NEW c \in Streams, Informed(c), call'[c] = call[c]
  PROVE  Informed(c)'
<1>1. ASSUME NEW k \in InLoop \cup HasEnded, call'[c] = k
      PROVE  Known(k)'
  BY <1>1, KnownLasts DEF Informed
<1> QED
  BY <1>1 DEF Informed

LEMMA StartInformed ==
  ASSUME Onwards, NEW c \in Streams, Start(c)
  PROVE  Informed(c)'
<1>1. call'[c] = NewCall /\ UNCHANGED <<now, egress>>
  BY CallUpdate DEF Start, Onwards, TypeOK, Calls
<1>2. ASSUME NEW l \in InLoop \cup HasEnded, call'[c] = l
      PROVE  Known(l)'
  <2>1. l.stage = "choosing" /\ l.attempt = 1 /\ l.began = now' /\ l.under = egress'
    BY <1>1, <1>2 DEF NewCall
  <2>2. l \in InLoop /\ l.stage \in Between
    BY <2>1 DEF HasEnded, Between
  <2> QED
    BY <2>1, <2>2, BeginsKnown DEF Onwards
<1> QED
  BY <1>1, <1>2 DEF Informed, NewCall

LEMMA ToRecord ==
  ASSUME NEW k \in InLoop, NEW c, call[c] = k, NEW s \in Active, NEW l, l = To(c, s)
  PROVE  /\ l \in InLoop /\ l.stage = s /\ SameCall(k, l)
         /\ l.attempt = k.attempt /\ l.broken = k.broken /\ l.route = k.route
BY DEF To, InLoop, SameCall

LEMMA EndedRecord ==
  ASSUME NEW k \in InLoop, NEW c, call[c] = k, NEW o \in Outcomes, NEW l, l = Ended(c, o)
  PROVE  /\ l \in HasEnded /\ l.stage = "ended" /\ SameCall(k, l)
         /\ l.outcome = o /\ l.broken = k.broken
BY DEF Ended, InLoop, HasEnded, SameCall

LEMMA BeginAttemptInformed ==
  ASSUME Onwards, NEW c \in Streams, Informed(c), BeginAttempt(c)
  PROVE  Informed(c)'
<1>1. call[c].stage = "choosing" /\ call[c].stage \in Active /\ UNCHANGED <<now, egress, rot>>
  BY DEF BeginAttempt, Active
<1>2. PICK k \in InLoop : call[c] = k /\ Known(k) /\ Known(k)'
  BY <1>1, KnownBefore
<1>3. \/ k.attempt > Attempts /\ call'[c] = Ended(c, k.failure)
      \/ \E s \in {"waiting", "queueing"} : call'[c] = To(c, s)
  BY <1>2, CallUpdate DEF BeginAttempt, Onwards, TypeOK, Calls
<1>4. CASE k.attempt > Attempts /\ call'[c] = Ended(c, k.failure)
  <2>1. k.failure \in Outcomes
    BY DEF InLoop, Outcomes
  <2>2. PICK l : l = Ended(c, k.failure)
    OBVIOUS
  <2>3. l \in HasEnded /\ l.stage = "ended" /\ SameCall(k, l) /\ l.broken = k.broken
    BY <1>2, <2>1, <2>2, EndedRecord
  <2>4. Known(l)'
    BY <1>1, <1>2, <1>4, <2>3, GivingUp DEF Onwards
  <2> QED
    BY <1>4, <2>2, <2>3, <2>4 DEF Informed
<1>5. ASSUME NEW s \in {"waiting", "queueing"}, call'[c] = To(c, s)
      PROVE  Informed(c)'
  <2>1. PICK l : l = To(c, s)
    OBVIOUS
  <2>2. s \in Active /\ s \in Between /\ k.stage \in Between
    BY <1>1, <1>2 DEF Active, Between
  <2>3. l \in InLoop /\ l.stage = s /\ SameCall(k, l) /\ l.attempt = k.attempt /\ l.broken = k.broken
    BY <1>2, <2>1, <2>2, ToRecord
  <2>4. Known(l)'
    BY <1>2, <2>2, <2>3, StillBetween
  <2> QED
    BY <1>5, <2>1, <2>3, <2>4 DEF Informed
<1> QED
  BY <1>3, <1>4, <1>5

LEMMA WaitOverInformed ==
  ASSUME Onwards, NEW c \in Streams, Informed(c), WaitOver(c)
  PROVE  Informed(c)'
<1>1. call[c].stage = "waiting" /\ call[c].stage \in Active /\ "queueing" \in Active
  BY DEF WaitOver, Active
<1>2. PICK k \in InLoop : call[c] = k /\ Known(k) /\ Known(k)'
  BY <1>1, KnownBefore
<1>3. PICK l : l = To(c, "queueing")
  OBVIOUS
<1>4. call'[c] = l
  BY <1>3, CallUpdate DEF WaitOver, Onwards, TypeOK, Calls
<1>5. l \in InLoop /\ l.stage = "queueing" /\ SameCall(k, l) /\ l.attempt = k.attempt /\ l.broken = k.broken
  BY <1>1, <1>2, <1>3, ToRecord
<1>6. Known(l)'
  BY <1>1, <1>2, <1>5, StillBetween DEF Between
<1> QED
  BY <1>4, <1>5, <1>6 DEF Informed

LEMMA SendInformed ==
  ASSUME Onwards, NEW c \in Streams, Informed(c), Send(c)
  PROVE  Informed(c)'
<1>1. call[c].stage = "queueing" /\ call[c].stage \in Active /\ UNCHANGED <<now, egress>> /\ c \in Calls
  BY DEF Send, Active, Calls
<1>2. PICK k \in InLoop : call[c] = k /\ Known(k) /\ Known(k)'
  BY <1>1, KnownBefore
<1>3. PICK r \in Nat \X Nat :
        /\ r = RouteOf(egress, Picked(rot[egress], now))
        /\ Becomes(c, [call[c] EXCEPT !.stage = "sent", !.route = r])
  BY <1>1, SendType DEF Onwards
<1>4. PICK l : l = [call[c] EXCEPT !.stage = "sent", !.route = r]
  OBVIOUS
<1>5. call'[c] = l
  BY <1>1, <1>3, <1>4, CallUpdate DEF Onwards, TypeOK
<1>6. l \in InLoop /\ l.stage = "sent" /\ SameCall(k, l) /\ l.attempt = k.attempt
      /\ l.broken = k.broken /\ l.route = r
  BY <1>2, <1>4 DEF InLoop, SameCall, Active
<1>7. SameDeadlines /\ Picked(rot[egress], now) \in 0..Routes[egress]
  BY <1>1, SendType DEF Onwards, SameDeadlines
<1>8. Known(l)'
  BY <1>1, <1>2, <1>3, <1>6, <1>7, GoesOut DEF Onwards, Between
<1> QED
  BY <1>5, <1>6, <1>8 DEF Informed

LEMMA RoundTripFailsInformed ==
  ASSUME Onwards, NEW c \in Streams, Informed(c),
         NEW failure \in {"route", "unanswered"}, RoundTripFails(c, failure)
  PROVE  Informed(c)'
<1>1. call[c].stage = "sent" /\ call[c].stage \in Active /\ c \in Calls
      /\ (failure = "route" => call[c].route # Direct)
  BY DEF RoundTripFails, Active, Calls
<1>2. PICK k \in InLoop : call[c] = k /\ Known(k) /\ Known(k)'
  BY <1>1, KnownBefore
<1>3. PICK broken \in BOOLEAN : /\ broken <=> (k.broken /\ failure = "route")
                               /\ Becomes(c, Failing(c, "reporting", failure, broken))
  BY <1>1, <1>2, FailingRecord DEF Onwards
<1>4. PICK l : l = Failing(c, "reporting", failure, broken)
  OBVIOUS
<1>5. call'[c] = l
  BY <1>1, <1>3, <1>4, CallUpdate DEF Onwards, TypeOK
<1>6. l \in InLoop /\ l.stage = "reporting" /\ SameCall(k, l) /\ l.attempt = k.attempt
      /\ l.broken = broken /\ l.route = k.route /\ l.failure = failure
  <2>1. failure \in Failures
    BY DEF Failures
  <2> QED
    BY <1>2, <1>4, <2>1 DEF Failing, InLoop, SameCall, Active
<1>7. Known(l)'
  BY <1>1, <1>2, <1>3, <1>6, AttemptFails
<1> QED
  BY <1>5, <1>6, <1>7 DEF Informed

LEMMA ReportInformed ==
  ASSUME Onwards, NEW c \in Streams, Informed(c), ReportFailure(c)
  PROVE  Informed(c)'
<1>1. call[c].stage = "reporting" /\ call[c].stage \in Active /\ c \in Calls
      /\ UNCHANGED <<now, egress>> /\ rot' = Judged(c)
  BY DEF ReportFailure, Active, Calls
<1>2. PICK k \in InLoop : call[c] = k /\ Known(k) /\ Known(k)'
  BY <1>1, KnownBefore
<1>3. PICK l : l = Again(c, k.limited, k.failure, k.broken)
  OBVIOUS
<1>4. call'[c] = l
  BY <1>1, <1>2, <1>3, ReportFailureRecord, CallUpdate DEF Onwards, TypeOK
<1>5. k.limited \in Nat /\ k.failure \in Failures /\ k.broken \in BOOLEAN
  BY DEF InLoop
<1>6. l \in InLoop /\ l.stage = "choosing" /\ SameCall(k, l) /\ l.attempt = k.attempt + 1 /\ l.broken = k.broken
  BY <1>1, <1>2, <1>3, <1>5, AgainStates DEF SameCall, Onwards
<1>7. Known(l)'
  BY <1>1, <1>2, <1>6, ReportCounts DEF Onwards
<1> QED
  BY <1>4, <1>6, <1>7 DEF Informed

(* Ends that are not of a route that could not be used.                    *)
LEMMA EndsInformed ==
  ASSUME Onwards, NEW c \in Streams, Informed(c), call[c].stage \in Active,
         NEW o \in Outcomes \ {"route"}, Becomes(c, Ended(c, o))
  PROVE  Informed(c)'
<1>1. PICK k \in InLoop : call[c] = k /\ Known(k) /\ Known(k)'
  BY KnownBefore
<1>2. PICK l : l = Ended(c, o)
  OBVIOUS
<1>3. call'[c] = l
  BY <1>2, CallUpdate DEF Onwards, TypeOK, Calls
<1>4. l \in HasEnded /\ l.stage = "ended" /\ SameCall(k, l) /\ l.outcome = o
  BY <1>1, <1>2, EndedRecord
<1>5. Known(l)'
  BY <1>1, <1>4, NoClaim
<1> QED
  BY <1>3, <1>4, <1>5 DEF Informed

LEMMA RateLimitedInformed ==
  ASSUME Onwards, NEW c \in Streams, Informed(c), NEW budget \in Budgets, RateLimited(c, budget)
  PROVE  Informed(c)'
<1>1. call[c].stage = "sent" /\ call[c].stage \in Active /\ c \in Calls
  BY DEF RateLimited, Active, Calls
<1>2. PICK k \in InLoop : call[c] = k /\ Known(k) /\ Known(k)'
  BY <1>1, KnownBefore
<1>3. CASE Becomes(c, Ended(c, "rate limited"))
  <2>1. "rate limited" \in Outcomes \ {"route"}
    BY DEF Outcomes, Failures
  <2> QED
    BY <1>1, <1>3, <2>1, EndsInformed
<1>4. CASE Becomes(c, Again(c, call[c].limited + 1, "rate limited", FALSE))
  <2>1. PICK n \in Nat, failure \in Failures, no \in BOOLEAN :
          n = k.limited + 1 /\ failure = "rate limited" /\ no = FALSE
    <3>1. k.limited + 1 \in Nat
      BY DEF InLoop
    <3>2. "rate limited" \in Failures
      BY DEF Failures
    <3> QED
      BY <3>1, <3>2
  <2>2. PICK l : l = Again(c, n, failure, no)
    OBVIOUS
  <2>3. call'[c] = l
    BY <1>1, <1>2, <1>4, <2>1, <2>2, CallUpdate DEF Onwards, TypeOK
  <2>4. TypeOK
    BY DEF Onwards
  <2>5. l \in InLoop /\ l.stage = "choosing" /\ SameCall(k, l) /\ l.broken = no
    BY <1>1, <1>2, <2>2, <2>4, AgainStates DEF SameCall
  <2>6. Known(l)'
    BY <1>2, <2>1, <2>5, NoClaim DEF Between
  <2> QED
    BY <2>5, <2>6, <2>3 DEF Informed
<1> QED
  BY <1>1, <1>3, <1>4, RateLimitedRecord DEF Onwards

LEMMA OutsideInformed ==
  ASSUME Onwards, NEW c \in Streams, NEW s \in {"idle", "open", "abandoned"}, Becomes(c, On(s))
  PROVE  Informed(c)'
<1>1. call'[c] = On(s)
  BY CallUpdate DEF Onwards, TypeOK, Calls
<1>2. On(s).stage = s /\ s \notin Active /\ s # "ended"
  BY DEF On, Active
<1>3. ASSUME NEW k \in InLoop \cup HasEnded PROVE k # On(s)
  BY <1>2 DEF InLoop, HasEnded
<1> QED
  BY <1>1, <1>2, <1>3 DEF Informed, Active

LEMMA InformedStep == TypeOK /\ TypeOK' /\ InformedInv /\ [Next]_vars => InformedInv'
<1> SUFFICES ASSUME TypeOK, TypeOK', InformedInv, [Next]_vars, NEW c \in Streams
             PROVE  Informed(c)'
  BY DEF InformedInv
<1>1. Onwards /\ Informed(c) /\ c \in Calls
  BY OnwardsStep DEF InformedInv, Calls
<1>2. CASE Tick \/ SetEgress \/ UNCHANGED vars
  BY <1>1, <1>2, SameStays DEF Tick, SetEgress, vars
<1>3. ASSUME NEW d \in Calls, d # c,
             \/ Start(d) \/ Progress(d) \/ Send(d) \/ Leaves(d)
             \/ CancelWaiting(d) \/ CancelSent(d) \/ AbandonStream(d)
      PROVE  Informed(c)'
  <2>1. \E k : Becomes(d, k)
    BY <1>3 DEF Progress, RoundTripEnds, Leaves, Start, BeginAttempt, WaitOver, Send,
       RoundTripFails, UnaryAnswers, StreamOpens, BackendRefuses, RateLimited, CloseStream,
       CollectStream, Return, CancelWaiting, CancelSent, AbandonStream, ReportFailure, ReportUnaryFailure
  <2>2. call'[c] = call[c]
    BY <1>1, <1>3, <2>1, CallUpdate DEF TypeOK
  <2> QED
    BY <1>1, <2>2, SameStays
<1>4. CASE Start(c) \/ BeginAttempt(c) \/ WaitOver(c) \/ Send(c) \/ ReportFailure(c)
  BY <1>1, <1>4, StartInformed, BeginAttemptInformed, WaitOverInformed, SendInformed, ReportInformed
<1>5. CASE RoundTripEnds(c)
  <2>1. CASE \E failure \in {"route", "unanswered"} : RoundTripFails(c, failure)
    BY <1>1, <2>1, RoundTripFailsInformed
  <2>2. CASE UnaryAnswers(c)
    BY <2>2, UpstreamAssumption DEF UnaryAnswers, UpstreamAssumption
  <2>3. CASE StreamOpens(c)
    BY <1>1, <2>3, OutsideInformed DEF StreamOpens
  <2>4. CASE BackendRefuses(c)
    <3>1. call[c].stage \in Active /\ "refused" \in Outcomes \ {"route"} /\ Becomes(c, Ended(c, "refused"))
      BY <2>4 DEF BackendRefuses, Active, Outcomes, Failures
    <3> QED
      BY <1>1, <3>1, EndsInformed
  <2>5. CASE \E budget \in Budgets : RateLimited(c, budget)
    BY <1>1, <2>5, RateLimitedInformed
  <2> QED
    BY <1>5, <2>1, <2>2, <2>3, <2>4, <2>5 DEF RoundTripEnds
<1>6. CASE CancelWaiting(c) \/ CancelSent(c)
  <2>1. call[c].stage \in Active /\ "cancelled" \in Outcomes \ {"route"} /\ Becomes(c, Ended(c, "cancelled"))
    BY <1>6 DEF CancelWaiting, CancelSent, Active, Outcomes, Failures
  <2> QED
    BY <1>1, <2>1, EndsInformed
<1>7. CASE ReportUnaryFailure(c)
  BY <1>1, <1>7 DEF ReportUnaryFailure, Informed
<1>8. CASE Leaves(c) \/ AbandonStream(c)
  <2>1. \E s \in {"idle", "open", "abandoned"} : Becomes(c, On(s))
    BY <1>8 DEF Leaves, CloseStream, CollectStream, Return, AbandonStream
  <2> QED
    BY <1>1, <2>1, OutsideInformed
<1> QED
  BY <1>2, <1>3, <1>4, <1>5, <1>6, <1>7, <1>8 DEF Next, Progress

LEMMA InitInformed == Init => InformedInv
<1> SUFFICES ASSUME Init, NEW c \in Streams PROVE Informed(c)
  BY DEF InformedInv
<1>1. call[c] = On("idle") /\ On("idle").stage = "idle"
  BY DEF Init, On, Calls
<1>2. ASSUME NEW k \in InLoop \cup HasEnded PROVE k # On("idle")
  BY <1>1 DEF InLoop, HasEnded, Active
<1> QED
  BY <1>1, <1>2 DEF Informed

LEMMA InformedGivesUp == TypeOK /\ InformedInv => GivesUpInformed
<1> SUFFICES ASSUME TypeOK, InformedInv, NEW c \in Streams,
                    call[c].stage = "ended", call[c].outcome = "route", call[c].broken,
                    call[c].under = egress, now - call[c].began < CoolEgress,
                    Routes[egress] <= MaxAttemptsWithRoutes
             PROVE  WarmSlots(rot[egress], now) = {}
  BY DEF GivesUpInformed
<1>1. call[c] \in HasEnded
  BY StageShapes DEF TypeOK, Calls
<1>2. PICK k \in HasEnded : call[c] = k
  BY <1>1
<1>3. Places \subseteq Dead(k)
  BY <1>2 DEF InformedInv, Informed, Known, Relevant
<1>4. Sound(rot[egress], Routes[egress], Nat)
  BY DEF TypeOK
<1>5. Slots(rot[egress]) = Places /\ \A i \in Places : rot[egress].cooling[i] \in Nat
  BY <1>4, ElementOfSeq DEF Sound, Places, Slots
<1>6. now \in Nat /\ k.began \in Nat /\ CoolEgress \in Nat /\ now < k.began + CoolEgress
  BY <1>2, UpstreamAssumption DEF TypeOK, HasEnded, UpstreamAssumption
<1> QED
  BY <1>3, <1>5, <1>6 DEF WarmSlots, IsCooling, Dead

(* A call that gives up on routes that could not be used has tried all of  *)
(* them: none is in rotation, for a list that was not replaced and is not  *)
(* longer than the cap on attempts, and while its cooldowns last.          *)
THEOREM NobodyGivesUpEarly == Spec => []GivesUpInformed
<1>1. Init => InformedInv
  BY InitInformed
<1>2. TypeOK /\ TypeOK' /\ InformedInv /\ [Next]_vars => InformedInv'
  BY InformedStep
<1>3. TypeOK /\ InformedInv => GivesUpInformed
  BY InformedGivesUp
<1> QED
  BY <1>1, <1>2, <1>3, UpstreamTyped, PTL DEF Spec


-----------------------------------------------------------------------------
(* The dial: the shape of its state.                                       *)

Kinds == {"method", "auth", "code", "type", "length", "byte", "status", "end", "open", "data"}
Units == [is : Kinds, n : Int]

Stages == Dialing \cup {"up", "failed", "probed"}

Dials ==
  [at : Stages, scheme : {"socks5", "http", "https", "direct"}, auth : BOOLEAN, good : BOOLEAN,
   probe : BOOLEAN, skip : Int, status : Int, broken : BOOLEAN, ok : BOOLEAN]

Buffers == inbox \in Seq(Units) /\ buffer \in Seq(Units) /\ owed \in Seq(Units) /\ got \in Seq(Units)

TunnelTyped ==
  /\ dial = [at |-> "new"] \/ dial \in Dials
  /\ conn \in {"none", "open", "closed"}
  /\ peer \in {"there", "gone"}
  /\ caller \in {"waiting", "gone"}
  /\ deadline \in BOOLEAN
  /\ arrived \in Int
  /\ Buffers

LEMMA DialMoves ==
  ASSUME NEW d \in Dials, NEW x \in Stages
  PROVE  /\ [d EXCEPT !.at = x] \in Dials
         /\ [d EXCEPT !.at = x].at = x
         /\ [d EXCEPT !.at = x].scheme = d.scheme
         /\ [d EXCEPT !.at = x].skip = d.skip
BY DEF Dials

LEMMA DialFailsAs ==
  ASSUME NEW d \in Dials, NEW y \in BOOLEAN
  PROVE  /\ [d EXCEPT !.at = "failed", !.broken = y] \in Dials
         /\ [d EXCEPT !.at = "failed", !.broken = y].at = "failed"
         /\ [d EXCEPT !.at = "failed", !.broken = y].broken = y
         /\ [d EXCEPT !.at = "failed", !.broken = y].scheme = d.scheme
BY DEF Dials, Stages

LEMMA DialSkips ==
  ASSUME NEW d \in Dials, NEW k \in Int
  PROVE  /\ [d EXCEPT !.at = "skip", !.skip = k] \in Dials
         /\ [d EXCEPT !.at = "skip", !.skip = k].at = "skip"
         /\ [d EXCEPT !.at = "skip", !.skip = k].skip = k
         /\ [d EXCEPT !.at = "skip", !.skip = k].scheme = d.scheme
BY DEF Dials, Stages, Dialing

LEMMA DialWaitsForBody ==
  ASSUME NEW d \in Dials, NEW k \in Int
  PROVE  /\ [d EXCEPT !.at = "body", !.status = k] \in Dials
         /\ [d EXCEPT !.at = "body", !.status = k].at = "body"
         /\ [d EXCEPT !.at = "body", !.status = k].scheme = d.scheme
BY DEF Dials, Stages, Dialing

LEMMA DialProbed ==
  ASSUME NEW d \in Dials, NEW y \in BOOLEAN
  PROVE  /\ [d EXCEPT !.at = "probed", !.ok = y] \in Dials
         /\ [d EXCEPT !.at = "probed", !.ok = y].at = "probed"
BY DEF Dials, Stages

-----------------------------------------------------------------------------
(* Sequences: what is left when the first units are taken.                 *)

Rest(s, k) == SubSeq(s, k + 1, Len(s))

LEMMA RestTyped ==
  ASSUME NEW S, NEW s \in Seq(S), NEW k \in Nat, k <= Len(s)
  PROVE  /\ Rest(s, k) \in Seq(S)
         /\ Len(Rest(s, k)) = Len(s) - k
         /\ \A i \in 1..(Len(s) - k) : Rest(s, k)[i] = s[i + k]
<1>1. Len(s) \in Nat /\ \A i \in (k + 1)..Len(s) : s[i] \in S
  BY ElementOfSeq, LenProperties
<1>2. /\ Rest(s, k) \in Seq(S)
      /\ Len(Rest(s, k)) = IF k + 1 <= Len(s) THEN Len(s) - (k + 1) + 1 ELSE 0
      /\ \A i \in 1..(Len(s) - (k + 1) + 1) : Rest(s, k)[i] = s[k + 1 + i - 1]
  BY <1>1, SubSeqProperties DEF Rest
<1>3. Len(Rest(s, k)) = Len(s) - k
  BY <1>1, <1>2
<1>4. ASSUME NEW i \in 1..(Len(s) - k)
      PROVE  Rest(s, k)[i] = s[i + k]
  <2>1. i \in 1..(Len(s) - (k + 1) + 1) /\ k + 1 + i - 1 = i + k
    BY <1>1, <1>4
  <2> QED
    BY <1>2, <2>1
<1> QED
  BY <1>2, <1>3, <1>4

LEMMA RestOfConcat ==
  ASSUME NEW S, NEW s \in Seq(S), NEW t \in Seq(S), NEW k \in Nat, k <= Len(s)
  PROVE  Rest(s \o t, k) = Rest(s, k) \o t
<1> DEFINE w == s \o t
           r == Rest(s, k)
           u == Rest(w, k)
           v == r \o t
<1>1. /\ Len(s) \in Nat /\ Len(t) \in Nat
      /\ w \in Seq(S) /\ Len(w) = Len(s) + Len(t)
      /\ \A i \in 1..(Len(s) + Len(t)) : w[i] = IF i <= Len(s) THEN s[i] ELSE t[i - Len(s)]
  BY ConcatProperties, LenProperties
<1>2. r \in Seq(S) /\ Len(r) = Len(s) - k /\ \A i \in 1..(Len(s) - k) : r[i] = s[i + k]
  BY RestTyped
<1>3. /\ v \in Seq(S) /\ Len(v) = Len(r) + Len(t)
      /\ \A i \in 1..(Len(r) + Len(t)) : v[i] = IF i <= Len(r) THEN r[i] ELSE t[i - Len(r)]
  <2> HIDE DEF r
  <2> QED
    BY <1>2, ConcatProperties
<1>4. u \in Seq(S) /\ Len(u) = Len(w) - k /\ \A i \in 1..(Len(w) - k) : u[i] = w[i + k]
  <2> HIDE DEF w
  <2>1. k <= Len(w)
    BY <1>1
  <2> QED
    BY <1>1, <2>1, RestTyped
<1> HIDE DEF u, v, w, r
<1>5. Len(u) = Len(v)
  BY <1>1, <1>2, <1>3, <1>4
<1>6. ASSUME NEW i \in 1..Len(u) PROVE u[i] = v[i]
  <2>1. i \in 1..(Len(w) - k) /\ i + k \in 1..(Len(s) + Len(t)) /\ i \in 1..(Len(r) + Len(t))
    BY <1>1, <1>2, <1>4, <1>6
  <2>2. u[i] = IF i + k <= Len(s) THEN s[i + k] ELSE t[i + k - Len(s)]
    BY <1>1, <1>4, <2>1
  <2>3. CASE i <= Len(r)
    <3>1. i \in 1..(Len(s) - k) /\ i + k <= Len(s)
      BY <1>1, <1>2, <2>1, <2>3
    <3> QED
      BY <1>2, <1>3, <2>1, <2>2, <2>3, <3>1
  <2>4. CASE ~(i <= Len(r))
    <3>1. ~(i + k <= Len(s)) /\ i + k - Len(s) = i - Len(r)
      BY <1>1, <1>2, <2>1, <2>4
    <3> QED
      BY <1>3, <2>1, <2>2, <2>4, <3>1
  <2> QED
    BY <2>3, <2>4
<1>7. u = v
  BY <1>3, <1>4, <1>5, <1>6, SeqEqual
<1> QED
  BY <1>7 DEF u, v, w, r

(* Passing the first unit on.                                              *)
LEMMA PassedOn ==
  ASSUME NEW S, NEW s \in Seq(S), NEW t \in Seq(S), t # <<>>
  PROVE  Append(s, Head(t)) \o Tail(t) = s \o t
<1>1. Head(t) \in S /\ Tail(t) \in Seq(S) /\ t = <<Head(t)>> \o Tail(t)
  BY HeadTailProperties, ConcatProperties
<1>2. Append(s, Head(t)) = s \o <<Head(t)>> /\ <<Head(t)>> \in Seq(S)
  BY <1>1, AppendIsConcat
<1>3. (s \o <<Head(t)>>) \o Tail(t) = s \o (<<Head(t)>> \o Tail(t))
  BY <1>1, <1>2, ConcatAssociative
<1> QED
  BY <1>1, <1>2, <1>3

LEMMA AppendBehind ==
  ASSUME NEW S, NEW s \in Seq(S), NEW t \in Seq(S), NEW e \in S
  PROVE  s \o Append(t, e) = Append(s \o t, e)
<1>1. Append(t, e) = t \o <<e>> /\ <<e>> \in Seq(S) /\ s \o t \in Seq(S)
  BY AppendIsConcat, ConcatProperties
<1>2. Append(s \o t, e) = (s \o t) \o <<e>>
  BY <1>1, AppendIsConcat
<1> QED
  BY <1>1, <1>2, ConcatAssociative

-----------------------------------------------------------------------------
(* What has been read, x, and what is owed, o, are together what was to    *)
(* come: the units b of an answer and, if it grants a tunnel, the opening  *)
(* t, or else all n units that the destination has sent.                   *)

Plain(b) == b \in Seq(Units) /\ \A i \in 1..Len(b) : b[i].is # "open"

Behind(x, o, n, b, t) ==
  /\ Plain(b) /\ t \in {<<>>, Open}
  /\ \/ n = -1 /\ x \o o = b \o t /\ (o = <<>> => t = <<>>)
     \/ n \in Nat /\ t = Open /\ o = <<>> /\ x = b \o Sent(n)

LEMMA UnitTyped ==
  ASSUME NEW is \in Kinds, NEW n \in Int
  PROVE  Unit(is, n) \in Units /\ Unit(is, n).is = is /\ Unit(is, n).n = n
BY DEF Unit, Units

LEMMA OpenTyped == Open \in Seq(Units) /\ Len(Open) = 1 /\ Open[1].is = "open" /\ Open # <<>>
<1>1. Unit("open", 0) \in Units /\ Unit("open", 0).is = "open"
  BY UnitTyped DEF Kinds
<1> QED
  BY <1>1 DEF Open

LEMMA SentTyped ==
  ASSUME NEW n \in Nat
  PROVE  /\ Sent(n) \in Seq(Units) /\ Sent(0) = <<>>
         /\ Datum(n + 1) \in Units
         /\ Sent(n + 1) = Append(Sent(n), Datum(n + 1))
<1>1. \A i \in Nat : Datum(i) \in Units
  BY UnitTyped DEF Datum, Kinds
<1>2. \A m \in Nat : Sent(m) \in Seq(Units) /\ Len(Sent(m)) = m
                     /\ \A i \in 1..m : Sent(m)[i] = Datum(i)
  BY <1>1 DEF Sent
<1>3. Sent(0) = <<>>
  BY <1>2
<1>4. Sent(n + 1) = Append(Sent(n), Datum(n + 1))
  <2> DEFINE u == Sent(n + 1)
             v == Append(Sent(n), Datum(n + 1))
  <2>1. /\ u \in Seq(Units) /\ Len(u) = n + 1 /\ \A i \in 1..(n + 1) : u[i] = Datum(i)
    BY <1>2
  <2>2. /\ v \in Seq(Units) /\ Len(v) = n + 1 /\ v[n + 1] = Datum(n + 1)
        /\ \A i \in 1..n : v[i] = Datum(i)
    BY <1>1, <1>2, AppendProperties
  <2> HIDE DEF u, v
  <2>3. ASSUME NEW i \in 1..Len(u) PROVE u[i] = v[i]
    BY <2>1, <2>2
  <2>4. u = v
    BY <2>1, <2>2, <2>3, SeqEqual
  <2> QED
    BY <2>4 DEF u, v
<1> QED
  BY <1>1, <1>2, <1>3, <1>4

(* The units of the answer arrive as they were sent.                       *)
LEMMA AnswerAhead ==
  ASSUME NEW x \in Seq(Units), NEW o \in Seq(Units), NEW n, NEW b, NEW t, Behind(x, o, n, b, t),
         NEW i \in Nat \ {0}, i <= Len(x), i <= Len(b)
  PROVE  x[i] = b[i]
<1>1. Len(x) \in Nat /\ Len(o) \in Nat /\ Len(b) \in Nat /\ b \in Seq(Units) /\ t \in Seq(Units)
  BY OpenTyped, EmptySeq, LenProperties DEF Behind, Plain
<1>2. CASE x \o o = b \o t
  <2>1. (x \o o)[i] = x[i]
    BY <1>1, ConcatProperties
  <2>2. (b \o t)[i] = b[i]
    BY <1>1, ConcatProperties
  <2> QED
    BY <1>2, <2>1, <2>2
<1>3. CASE n \in Nat /\ x = b \o Sent(n)
  <2>1. Sent(n) \in Seq(Units)
    BY <1>3, SentTyped
  <2> QED
    BY <1>1, <1>3, <2>1, ConcatProperties
<1> QED
  BY <1>2, <1>3 DEF Behind

(* Taking units of the answer leaves the others to come.                   *)
LEMMA TakenAhead ==
  ASSUME NEW x \in Seq(Units), NEW o \in Seq(Units), NEW n, NEW b, NEW t, Behind(x, o, n, b, t),
         NEW k \in Nat, k <= Len(x), k <= Len(b)
  PROVE  Behind(Rest(x, k), o, n, Rest(b, k), t) /\ Len(Rest(b, k)) = Len(b) - k
<1>1. b \in Seq(Units) /\ t \in Seq(Units) /\ Len(b) \in Nat
  BY OpenTyped, EmptySeq, LenProperties DEF Behind, Plain
<1>2. /\ Rest(b, k) \in Seq(Units) /\ Len(Rest(b, k)) = Len(b) - k
      /\ \A i \in 1..(Len(b) - k) : Rest(b, k)[i] = b[i + k]
  BY <1>1, RestTyped
<1>3. Plain(Rest(b, k))
  <2> SUFFICES ASSUME NEW i \in 1..Len(Rest(b, k)) PROVE Rest(b, k)[i].is # "open"
    BY <1>2 DEF Plain
  <2>1. i \in 1..(Len(b) - k) /\ i + k \in 1..Len(b)
    BY <1>1, <1>2
  <2> QED
    BY <1>2, <2>1 DEF Behind, Plain
<1>4. CASE n = -1 /\ x \o o = b \o t /\ (o = <<>> => t = <<>>)
  <2>1. Rest(x \o o, k) = Rest(x, k) \o o /\ Rest(b \o t, k) = Rest(b, k) \o t
    BY <1>1, RestOfConcat
  <2> QED
    BY <1>2, <1>3, <1>4, <2>1 DEF Behind
<1>5. CASE n \in Nat /\ t = Open /\ o = <<>> /\ x = b \o Sent(n)
  <2>1. Rest(x, k) = Rest(b, k) \o Sent(n)
    BY <1>1, <1>5, SentTyped, RestOfConcat
  <2> QED
    BY <1>2, <1>3, <1>5, <2>1 DEF Behind
<1> QED
  BY <1>4, <1>5 DEF Behind

(* The proxy sends on; its opening comes when all of the answer has.       *)
LEMMA OpeningIsLast ==
  ASSUME NEW x \in Seq(Units), NEW o \in Seq(Units), NEW b, NEW t, Behind(x, o, -1, b, t),
         o # <<>>, Head(o).is = "open"
  PROVE  Behind(x, Tail(o), 0, b, t)
<1>1. /\ b \in Seq(Units) /\ t \in Seq(Units) /\ Len(b) \in Nat /\ Len(x) \in Nat
      /\ Len(o) \in Nat \ {0} /\ Len(t) \in {0, 1}
  BY OpenTyped, EmptySeq, LenProperties DEF Behind, Plain
<1>2. x \o o = b \o t
  BY DEF Behind
<1>3. Len(x) + Len(o) = Len(b) + Len(t)
  BY <1>1, <1>2, ConcatProperties
<1>4. (x \o o)[Len(x) + 1] = Head(o)
  <2>1. Head(o) = o[1] /\ Len(x) + 1 \in 1..(Len(x) + Len(o)) /\ ~(Len(x) + 1 <= Len(x))
        /\ Len(x) + 1 - Len(x) = 1
    BY <1>1, HeadTailProperties
  <2> QED
    BY <2>1, ConcatProperties
<1>5. ~(Len(x) + 1 <= Len(b))
  <2> SUFFICES ASSUME Len(x) + 1 <= Len(b) PROVE FALSE
    OBVIOUS
  <2>1. Len(x) + 1 \in 1..Len(b) /\ Len(x) + 1 \in 1..(Len(b) + Len(t))
    BY <1>1
  <2>2. (b \o t)[Len(x) + 1] = b[Len(x) + 1]
    BY <1>1, <2>1, ConcatProperties
  <2> QED
    BY <1>2, <1>4, <2>1, <2>2 DEF Behind, Plain
<1>6. Len(x) = Len(b) /\ Len(o) = 1 /\ Len(t) = 1
  BY <1>1, <1>3, <1>5
<1>7. x = b
  <2>1. \A i \in 1..Len(x) : i \in Nat \ {0} /\ i <= Len(x) /\ i <= Len(b)
    BY <1>1, <1>6
  <2>2. \A i \in 1..Len(x) : x[i] = b[i]
    BY <2>1, AnswerAhead
  <2> QED
    BY <1>1, <1>6, <2>2, SeqEqual
<1>8. t = Open /\ Tail(o) = <<>>
  <2>1. Tail(o) \in Seq(Units) /\ Len(Tail(o)) = 0
    BY <1>1, <1>6, HeadTailProperties
  <2> QED
    BY <1>6, <2>1, EmptySeq DEF Behind
<1>9. b = b \o Sent(0)
  BY <1>1, SentTyped, ConcatEmptySeq
<1> QED
  BY <1>7, <1>8, <1>9 DEF Behind

LEMMA AnswerGoesOn ==
  ASSUME NEW x \in Seq(Units), NEW o \in Seq(Units), NEW n, NEW b, NEW t, Behind(x, o, n, b, t),
         o # <<>>, Head(o).is # "open"
  PROVE  Behind(Append(x, Head(o)), Tail(o), n, b, t)
<1>1. n = -1 /\ x \o o = b \o t
  BY DEF Behind
<1>2. Append(x, Head(o)) \o Tail(o) = b \o t
  BY <1>1, PassedOn
<1>3. ASSUME Tail(o) = <<>>, t = Open PROVE FALSE
  <2>1. Append(x, Head(o)) = b \o Open
    <3>1. Append(x, Head(o)) \in Seq(Units)
      BY HeadTailProperties, AppendProperties
    <3> QED
      BY <1>2, <1>3, <3>1, ConcatEmptySeq
  <2>2. b \in Seq(Units) /\ Open[1].is = "open"
    BY OpenTyped DEF Behind, Plain
  <2>3. b \o Open = Append(b, Unit("open", 0))
    BY <2>2, OpenTyped, UnitTyped, AppendIsConcat DEF Open, Kinds
  <2>4. Head(o) = Unit("open", 0)
    <3>1. Head(o) \in Units /\ Unit("open", 0) \in Units
      BY HeadTailProperties, UnitTyped DEF Kinds
    <3>2. Append(x, Head(o)) = Append(b, Unit("open", 0))
      BY <2>1, <2>3
    <3> QED
      BY <2>2, <3>1, <3>2, AppendInjective
  <2> QED
    BY <2>4, UnitTyped DEF Kinds
<1> QED
  BY <1>1, <1>2, <1>3 DEF Behind

(* The destination sends through the tunnel.                               *)
LEMMA DestinationComes ==
  ASSUME NEW x \in Seq(Units), NEW o \in Seq(Units), NEW n \in Nat, NEW b, NEW t,
         Behind(x, o, n, b, t)
  PROVE  Behind(Append(x, Datum(n + 1)), o, n + 1, b, t)
<1>1. b \in Seq(Units) /\ t = Open /\ o = <<>> /\ x = b \o Sent(n)
  BY DEF Behind, Plain
<1>2. /\ Sent(n) \in Seq(Units) /\ Datum(n + 1) \in Units
      /\ Sent(n + 1) = Append(Sent(n), Datum(n + 1))
  BY SentTyped
<1>3. b \o Sent(n + 1) = Append(x, Datum(n + 1))
  <2> DEFINE s == Sent(n)
             e == Datum(n + 1)
  <2>1. b \in Seq(Units) /\ s \in Seq(Units) /\ e \in Units
    BY <1>1, <1>2
  <2> HIDE DEF s, e
  <2>2. b \o Append(s, e) = Append(b \o s, e)
    BY <2>1, AppendBehind
  <2> QED
    BY <1>1, <1>2, <2>2 DEF s, e
<1>4. Plain(b) /\ n + 1 \in Nat /\ t \in {<<>>, Open}
  BY DEF Behind
<1> QED
  BY <1>1, <1>3, <1>4 DEF Behind

(* Of a tunnel whose answer is read, all that comes is the destination's.  *)
LEMMA NothingElseComes ==
  ASSUME NEW x \in Seq(Units), NEW o \in Seq(Units), NEW n \in Int, Behind(x, o, n, <<>>, Open)
  PROVE  x = Sent(IF n = -1 THEN 0 ELSE n)
<1>1. CASE n = -1 /\ x \o o = <<>> \o Open /\ o # <<>>
  <2>1. Len(x) + Len(o) = 1 /\ Len(x) \in Nat /\ Len(o) \in Nat \ {0}
    <3>1. <<>> \o Open = Open /\ Len(Open) = 1
      BY OpenTyped, ConcatEmptySeq
    <3>2. Len(x \o o) = Len(x) + Len(o)
      BY ConcatProperties
    <3> QED
      BY <1>1, <3>1, <3>2, EmptySeq, LenProperties
  <2>2. Len(x) = 0
    BY <2>1
  <2> QED
    BY <1>1, <2>2, EmptySeq, SentTyped
<1>2. CASE n \in Nat /\ x = <<>> \o Sent(n)
  <2>1. <<>> \o Sent(n) = Sent(n)
    BY <1>2, SentTyped, ConcatEmptySeq
  <2>2. n # -1
    BY <1>2
  <2> QED
    BY <1>2, <2>1, <2>2
<1> QED
  BY <1>1, <1>2, OpenTyped DEF Behind

-----------------------------------------------------------------------------
(* What each answer is made of.                                            *)

Awaits(d, b, t) ==
  /\ d.at \in {"new", "connecting", "tls"} => b = <<>> /\ t = <<>>
  /\ d.at \in {"method", "auth"} => Len(b) = 1 /\ t = <<>>
  /\ d.at = "reply" =>
       /\ Len(b) >= 2
       /\ b[1].n = 0 /\ b[2].n \in {1, 4} => t = Open /\ Len(b) = 2 + Skip(b[2].n, 0)
       /\ b[1].n = 0 /\ b[2].n = 3 =>
            t = Open /\ Len(b) >= 3 /\ b[3].n \in Nat /\ Len(b) = 3 + Skip(3, b[3].n)
  /\ d.at = "length" => t = Open /\ Len(b) >= 1 /\ b[1].n \in Nat /\ Len(b) = 1 + Skip(3, b[1].n)
  /\ d.at = "skip" => t = Open /\ Len(b) = d.skip
  /\ d.at = "head" => Len(b) >= 1 /\ (b[1].n = 200 => t = Open /\ Len(b) = 2)
  /\ d.at = "up" => b = <<>> /\ t = Open

LEMMA AnswerComes ==
  ASSUME NEW w \in Seq(Units), NEW b, Plain(b), NEW t \in {<<>>, Open}, w = b \o t, w # <<>>
  PROVE  Behind(<<>>, w, -1, b, t)
BY ConcatEmptySeq DEF Behind

LEMMA PaddingTyped ==
  ASSUME NEW k \in Nat
  PROVE  Plain(Padding(k)) /\ Len(Padding(k)) = k
<1>1. Unit("byte", 0) \in Units /\ Unit("byte", 0).is # "open"
  BY UnitTyped DEF Kinds
<1> QED
  BY <1>1 DEF Padding, Plain

LEMMA PlainConcat ==
  ASSUME NEW a, NEW b, Plain(a), Plain(b)
  PROVE  /\ Plain(a \o b) /\ Len(a \o b) = Len(a) + Len(b)
         /\ \A i \in 1..Len(a) : (a \o b)[i] = a[i]
<1>1. a \in Seq(Units) /\ b \in Seq(Units) /\ Len(a) \in Nat /\ Len(b) \in Nat
  BY LenProperties DEF Plain
<1>2. /\ a \o b \in Seq(Units) /\ Len(a \o b) = Len(a) + Len(b)
      /\ \A i \in 1..(Len(a) + Len(b)) : (a \o b)[i] = IF i <= Len(a) THEN a[i] ELSE b[i - Len(a)]
  BY <1>1, ConcatProperties
<1>3. ASSUME NEW i \in 1..Len(a \o b) PROVE (a \o b)[i].is # "open"
  <2>1. CASE i <= Len(a)
    <3>1. i \in 1..Len(a) /\ i \in 1..(Len(a) + Len(b))
      BY <1>1, <1>2, <2>1
    <3> QED
      BY <1>2, <2>1, <3>1 DEF Plain
  <2>2. CASE ~(i <= Len(a))
    <3>1. i - Len(a) \in 1..Len(b) /\ i \in 1..(Len(a) + Len(b))
      BY <1>1, <1>2, <2>2
    <3> QED
      BY <1>2, <2>2, <3>1 DEF Plain
  <2> QED
    BY <2>1, <2>2
<1> QED
  BY <1>1, <1>2, <1>3 DEF Plain

LEMMA MethodComes ==
  ASSUME NEW w \in Methods \cup Verdicts
  PROVE  w \in Seq(Units) /\ Len(w) = 1 /\ Behind(<<>>, w, -1, w, <<>>)
<1>1. PICK is \in {"method", "auth"}, n \in Int : w = <<Unit(is, n)>>
  BY DEF Methods, Verdicts
<1>2. Unit(is, n) \in Units /\ Unit(is, n).is # "open"
  BY UnitTyped DEF Kinds
<1>3. w \in Seq(Units) /\ Len(w) = 1 /\ Plain(w) /\ w # <<>>
  BY <1>1, <1>2 DEF Plain
<1> QED
  BY <1>3, ConcatEmptySeq, AnswerComes

(* A grant has as many units as its address and its port.                  *)
LEMMA GrantComes ==
  ASSUME NEW h, Plain(h), h # <<>>, NEW k \in Nat
  PROVE  LET b == h \o Padding(k)
         IN  /\ b \o Open \in Seq(Units)
             /\ Behind(<<>>, b \o Open, -1, b, Open)
             /\ Len(b) = Len(h) + k
             /\ \A i \in 1..Len(h) : b[i] = h[i]
<1> DEFINE b == h \o Padding(k)
<1>1. Plain(b) /\ Len(b) = Len(h) + k /\ \A i \in 1..Len(h) : b[i] = h[i]
  BY PaddingTyped, PlainConcat
<1> HIDE DEF b
<1>2. b \in Seq(Units) /\ b \o Open \in Seq(Units) /\ b \o Open # <<>>
  <2>1. b \in Seq(Units)
    BY <1>1 DEF Plain
  <2> QED
    BY <2>1, OpenTyped, ConcatProperties, ConcatEqualIffEmpty
<1>3. Behind(<<>>, b \o Open, -1, b, Open)
  BY <1>1, <1>2, AnswerComes
<1> QED
  BY <1>1, <1>2, <1>3 DEF b

LEMMA HeadTyped ==
  /\ \A m, n \in Int : LET h == <<Unit("code", m), Unit("type", n)>>
                       IN  Plain(h) /\ Len(h) = 2 /\ h # <<>> /\ h[1].n = m /\ h[2].n = n
  /\ \A m, n, l \in Int :
       LET h == <<Unit("code", m), Unit("type", n), Unit("length", l)>>
       IN  Plain(h) /\ Len(h) = 3 /\ h # <<>> /\ h[1].n = m /\ h[2].n = n /\ h[3].n = l
<1>1. \A is \in {"code", "type", "length"}, n \in Int :
        Unit(is, n) \in Units /\ Unit(is, n).is # "open" /\ Unit(is, n).n = n
  BY UnitTyped DEF Kinds
<1> QED
  BY <1>1 DEF Plain

LEMMA ReplyComes ==
  ASSUME NEW w \in Granted \cup Refused, NEW d, d.at = "reply"
  PROVE  /\ w \in Seq(Units)
         /\ \E b, t : Behind(<<>>, w, -1, b, t) /\ Awaits(d, b, t)
<1>1. ASSUME NEW m \in Int, NEW n \in Int, w = <<Unit("code", m), Unit("type", n)>>,
             m # 0 \/ n = 2
      PROVE  w \in Seq(Units) /\ Behind(<<>>, w, -1, w, <<>>) /\ Awaits(d, w, <<>>)
  <2>1. Plain(w) /\ Len(w) = 2 /\ w # <<>> /\ w[1].n = m /\ w[2].n = n
    BY <1>1, HeadTyped
  <2>2. w \in Seq(Units) /\ w = w \o <<>>
    BY <2>1, ConcatEmptySeq DEF Plain
  <2>3. Behind(<<>>, w, -1, w, <<>>)
    BY <2>1, <2>2, AnswerComes
  <2> QED
    BY <1>1, <2>1, <2>2, <2>3 DEF Awaits
<1>2. ASSUME NEW n \in {1, 4}, NEW k \in Nat, k = Skip(n, 0),
             w = <<Unit("code", 0), Unit("type", n)>> \o Padding(k) \o Open
      PROVE  w \in Seq(Units) /\ \E b, t : Behind(<<>>, w, -1, b, t) /\ Awaits(d, b, t)
  <2> DEFINE h == <<Unit("code", 0), Unit("type", n)>>
             b == h \o Padding(k)
  <2>1. Plain(h) /\ Len(h) = 2 /\ h # <<>> /\ h[1].n = 0 /\ h[2].n = n
    BY <1>2, HeadTyped
  <2> HIDE DEF h
  <2>2. /\ b \o Open \in Seq(Units) /\ Behind(<<>>, b \o Open, -1, b, Open)
        /\ Len(b) = Len(h) + k /\ \A i \in 1..Len(h) : b[i] = h[i]
    BY <2>1, GrantComes
  <2> HIDE DEF b
  <2>3. b[1].n = 0 /\ b[2].n = n /\ Len(b) = 2 + k
    BY <2>1, <2>2
  <2>4. Awaits(d, b, Open)
    BY <1>2, <2>3 DEF Awaits
  <2>5. w = b \o Open
    BY <1>2 DEF b, h
  <2> QED
    BY <2>2, <2>4, <2>5
<1>3. ASSUME NEW l \in NameSizes, NEW k \in Nat, k = Skip(3, l), l \in Nat,
             w = <<Unit("code", 0), Unit("type", 3), Unit("length", l)>> \o Padding(k) \o Open
      PROVE  w \in Seq(Units) /\ \E b, t : Behind(<<>>, w, -1, b, t) /\ Awaits(d, b, t)
  <2> DEFINE h == <<Unit("code", 0), Unit("type", 3), Unit("length", l)>>
             b == h \o Padding(k)
  <2>1. Plain(h) /\ Len(h) = 3 /\ h # <<>> /\ h[1].n = 0 /\ h[2].n = 3 /\ h[3].n = l
    BY <1>3, HeadTyped
  <2> HIDE DEF h
  <2>2. /\ b \o Open \in Seq(Units) /\ Behind(<<>>, b \o Open, -1, b, Open)
        /\ Len(b) = Len(h) + k /\ \A i \in 1..Len(h) : b[i] = h[i]
    BY <2>1, GrantComes
  <2> HIDE DEF b
  <2>3. b[1].n = 0 /\ b[2].n = 3 /\ b[3].n = l /\ Len(b) = 3 + k
    BY <2>1, <2>2
  <2>4. Awaits(d, b, Open)
    BY <1>3, <2>3 DEF Awaits
  <2>5. w = b \o Open
    BY <1>3 DEF b, h
  <2> QED
    BY <2>2, <2>4, <2>5
<1>4. CASE w \in Refused
  <2>1. PICK m \in {-1} \cup 1..9 : w = <<Unit("code", m), Unit("type", 1)>>
    BY <1>4 DEF Refused
  <2> QED
    BY <1>1, <2>1
<1>5. CASE w = <<Unit("code", 0), Unit("type", 2)>>
  BY <1>1, <1>5
<1>6. CASE w \in {<<Unit("code", 0), Unit("type", 1)>> \o Padding(6) \o Open,
                  <<Unit("code", 0), Unit("type", 4)>> \o Padding(18) \o Open}
  <2>1. Skip(1, 0) = 6 /\ Skip(4, 0) = 18
    BY DEF Skip
  <2>2. CASE w = <<Unit("code", 0), Unit("type", 1)>> \o Padding(6) \o Open
    BY <1>2, <2>1, <2>2
  <2>3. CASE w = <<Unit("code", 0), Unit("type", 4)>> \o Padding(18) \o Open
    BY <1>2, <2>1, <2>3
  <2> QED
    BY <1>6, <2>2, <2>3
<1>7. CASE \E l \in NameSizes :
             w = <<Unit("code", 0), Unit("type", 3), Unit("length", l)>> \o Padding(l + 2) \o Open
  <2>1. PICK l \in NameSizes :
          w = <<Unit("code", 0), Unit("type", 3), Unit("length", l)>> \o Padding(l + 2) \o Open
    BY <1>7
  <2>2. l \in Nat /\ l + 2 \in Nat /\ l + 2 = Skip(3, l)
    BY TunnelAssumption DEF Skip
  <2> DEFINE k == l + 2
  <2> HIDE DEF k
  <2>3. w = <<Unit("code", 0), Unit("type", 3), Unit("length", l)>> \o Padding(k) \o Open
        /\ k \in Nat /\ k = Skip(3, l)
    BY <2>1, <2>2 DEF k
  <2> QED
    BY <1>3, <2>2, <2>3
<1> QED
  BY <1>4, <1>5, <1>6, <1>7 DEF Granted

LEMMA StatusComes ==
  ASSUME NEW w \in Statuses, NEW d, d.at = "head"
  PROVE  /\ w \in Seq(Units)
         /\ \E b, t : Behind(<<>>, w, -1, b, t) /\ Awaits(d, b, t)
<1>1. \A is \in {"status", "end", "byte"}, n \in Int :
        Unit(is, n) \in Units /\ Unit(is, n).is # "open" /\ Unit(is, n).n = n
  BY UnitTyped DEF Kinds
<1>2. ASSUME Plain(w), w # <<>>, Len(w) >= 1, w[1].n # 200
      PROVE  w \in Seq(Units) /\ Behind(<<>>, w, -1, w, <<>>) /\ Awaits(d, w, <<>>)
  <2>1. w \in Seq(Units) /\ w = w \o <<>>
    BY <1>2, ConcatEmptySeq DEF Plain
  <2>2. Behind(<<>>, w, -1, w, <<>>)
    BY <1>2, <2>1, AnswerComes
  <2> QED
    BY <1>2, <2>1, <2>2 DEF Awaits
<1>3. CASE w = <<Unit("status", 200), Unit("end", 0)>> \o Open
  <2> DEFINE b == <<Unit("status", 200), Unit("end", 0)>>
  <2>1. Plain(b) /\ Len(b) = 2
    BY <1>1 DEF Plain
  <2> HIDE DEF b
  <2>2. b \o Open \in Seq(Units) /\ b \o Open # <<>>
    BY <2>1, OpenTyped, ConcatProperties, ConcatEqualIffEmpty DEF Plain
  <2>3. Behind(<<>>, w, -1, b, Open)
    BY <1>3, <2>1, <2>2, AnswerComes DEF b
  <2>4. Awaits(d, b, Open)
    BY <2>1 DEF Awaits
  <2> QED
    BY <1>3, <2>2, <2>3, <2>4 DEF b
<1>4. CASE w = <<Unit("status", -1)>>
  <2>1. Plain(w) /\ w # <<>> /\ Len(w) = 1 /\ w[1].n = -1
    BY <1>1, <1>4 DEF Plain
  <2> QED
    BY <1>2, <2>1
<1>5. CASE \E n \in {403, 407, 429, 502} : w = <<Unit("status", n), Unit("end", 0), Unit("byte", 0)>>
  <2>1. PICK n \in {403, 407, 429, 502} : w = <<Unit("status", n), Unit("end", 0), Unit("byte", 0)>>
    BY <1>5
  <2>2. Plain(w) /\ w # <<>> /\ Len(w) = 3 /\ w[1].n = n
    BY <1>1, <2>1 DEF Plain
  <2> QED
    BY <1>2, <2>2
<1> QED
  BY <1>3, <1>4, <1>5 DEF Statuses

-----------------------------------------------------------------------------
(* The invariant.                                                          *)

Waits == {"new", "up"} \cup (Dialing \ {"body"})

(* All that was read ahead, handed over or not.                            *)
Unread == (got \o buffer) \o inbox

Awaited ==
  /\ dial.at \in Waits => \E b, t : Behind(Unread, owed, arrived, b, t) /\ Awaits(dial, b, t)
  /\ dial.at \in Waits \ {"up"} => got = <<>>
  /\ dial.at \in Waits \ {"up", "head"} => buffer = <<>>

Socketed ==
  /\ dial.at \in {"new", "connecting"} => conn = "none"
  /\ dial.at \in (Dialing \ {"connecting"}) \cup {"up"} => conn = "open"
  /\ dial.at = "up" => ~deadline
  /\ dial.at \in {"failed", "probed"} => conn # "open"

Proxied == dial.at \in Dialing \ {"connecting"} => dial.scheme # "direct"

TunnelInv == TunnelTyped /\ Proxied /\ RoutesBlamedFairly /\ Socketed /\ Awaited

LEMMA Dialled ==
  ASSUME TunnelTyped, dial.at # "new"
  PROVE  dial \in Dials
BY DEF TunnelTyped

(* A step that ends the dial, and blames it fairly.                        *)
LEMMA FailsInv ==
  ASSUME TunnelInv, dial.at \in Dialing,
         NEW why, NEW broken \in BOOLEAN, Fails(why, broken),
         broken => dial.scheme # "direct" /\ why \in RouteFaults,
         ~broken => \/ caller = "gone" \/ dial.scheme = "direct"
                    \/ why \in {"elsewhere", "target"},
         peer' \in {"there", "gone"}, arrived' \in Int, inbox' \in Seq(Units), owed' \in Seq(Units)
  PROVE  TunnelInv'
<1>1. /\ dial' = [dial EXCEPT !.at = "failed", !.broken = broken]
      /\ conn' = IF conn = "open" THEN "closed" ELSE conn
      /\ evidence' = evidence \cup {why}
      /\ UNCHANGED <<deadline, buffer, got, caller>>
  BY DEF Fails
<1>2. dial \in Dials
  BY Dialled DEF TunnelInv, Dialing
<1>3. /\ dial' \in Dials /\ dial'.at = "failed" /\ dial'.broken = broken
      /\ dial'.scheme = dial.scheme
  BY <1>1, <1>2, DialFailsAs
<1>4. TunnelTyped'
  BY <1>1, <1>3 DEF TunnelInv, TunnelTyped, Buffers
<1>5. RoutesBlamedFairly'
  BY <1>1, <1>3 DEF RoutesBlamedFairly
<1>6. Proxied' /\ Socketed' /\ Awaited'
  BY <1>1, <1>3 DEF Proxied, Socketed, Awaited, Waits, Dialing, TunnelInv, TunnelTyped
<1> QED
  BY <1>4, <1>5, <1>6 DEF TunnelInv

LEMMA RouteFailsInv ==
  ASSUME TunnelInv, dial.at \in Dialing, dial.scheme # "direct", NEW why, RouteFails(why),
         why \in RouteFaults \/ caller = "gone",
         peer' \in {"there", "gone"}, arrived' \in Int, inbox' \in Seq(Units), owed' \in Seq(Units)
  PROVE  TunnelInv'
<1> DEFINE broken == (caller = "waiting")
<1>1. /\ broken \in BOOLEAN /\ Fails(why, broken)
      /\ broken => why \in RouteFaults
      /\ ~broken => caller = "gone"
  BY DEF RouteFails, Blame, TunnelInv, TunnelTyped
<1> HIDE DEF broken
<1> QED
  BY <1>1, FailsInv

(* A step on the dialer's way: what it has still to read is what comes.    *)
LEMMA GoesOnInv ==
  ASSUME TunnelInv, dial.at \in Dialing, dial' \in Dials, dial'.at \in Dialing \cup {"up"},
         dial'.scheme = dial.scheme, dial'.at # "connecting",
         dial.scheme = "direct" => dial'.at = "up",
         conn' = "open", deadline' \in BOOLEAN, dial'.at = "up" => ~deadline',
         inbox' \in Seq(Units), owed' \in Seq(Units), buffer' \in Seq(Units),
         got' = got, peer' = peer, arrived' = arrived, caller' = caller,
         dial'.at \notin {"up", "head", "body"} => buffer' = <<>>,
         dial'.at # "body" => \E b, t : Behind(Unread', owed', arrived, b, t) /\ Awaits(dial', b, t),
         dial'.at \notin {"up", "body"} => got = <<>>
  PROVE  TunnelInv'
<1>1. TunnelTyped'
  BY DEF TunnelInv, TunnelTyped, Buffers
<1>2. Proxied' /\ Socketed' /\ RoutesBlamedFairly'
  BY DEF Proxied, Socketed, RoutesBlamedFairly, Dialing
<1>3. Awaited'
  BY DEF Awaited, Waits, Dialing
<1> QED
  BY <1>1, <1>2, <1>3 DEF TunnelInv

(* A step of the others leaves the dialer alone.                           *)
LEMMA OthersInv ==
  ASSUME TunnelInv, UNCHANGED <<dial, conn, deadline, buffer, got>>,
         peer' \in {"there", "gone"}, caller' \in {"waiting", "gone"},
         dial.at = "failed" => UNCHANGED <<caller, evidence>>,
         arrived' \in Int, inbox' \in Seq(Units), owed' \in Seq(Units),
         \A b, t : Behind(Unread, owed, arrived, b, t) => Behind(Unread', owed', arrived', b, t)
  PROVE  TunnelInv'
<1>1. TunnelTyped'
  BY DEF TunnelInv, TunnelTyped, Buffers
<1>2. Proxied' /\ Socketed'
  BY DEF TunnelInv, Proxied, Socketed
<1>3. RoutesBlamedFairly'
  BY DEF TunnelInv, RoutesBlamedFairly
<1>4. Awaited'
  BY DEF TunnelInv, Awaited
<1> QED
  BY <1>1, <1>2, <1>3, <1>4 DEF TunnelInv

-----------------------------------------------------------------------------
(* The steps of the proxy, the destination and the caller.                 *)

LEMMA UnreadTyped ==
  ASSUME Buffers
  PROVE  /\ Unread \in Seq(Units) /\ got \o buffer \in Seq(Units)
         /\ got = <<>> /\ buffer = <<>> => Unread = inbox
         /\ got = <<>> => Unread = buffer \o inbox
BY ConcatProperties, ConcatEmptySeq DEF Buffers, Unread

LEMMA ProxySendsInv ==
  ASSUME TunnelInv, ProxySends
  PROVE  TunnelInv'
<1>1. Buffers /\ arrived \in Int /\ caller \in {"waiting", "gone"} /\ peer \in {"there", "gone"}
  BY DEF TunnelInv, TunnelTyped
<1>2. /\ owed \in Seq(Units) /\ owed # <<>> /\ Head(owed) \in Units /\ Tail(owed) \in Seq(Units)
      /\ inbox \in Seq(Units) /\ Unread \in Seq(Units) /\ got \o buffer \in Seq(Units)
  BY <1>1, UnreadTyped, HeadTailProperties DEF ProxySends, Buffers
<1>3. UNCHANGED <<dial, conn, peer, deadline, buffer, got, caller, evidence>> /\ owed' = Tail(owed)
  BY DEF ProxySends
<1>4. CASE Head(owed).is = "open"
  <2>1. arrived' = 0 /\ inbox' = inbox /\ Unread' = Unread
    BY <1>3, <1>4 DEF ProxySends, Unread
  <2>2. ASSUME NEW b, NEW t, Behind(Unread, owed, arrived, b, t)
        PROVE  Behind(Unread, Tail(owed), 0, b, t)
    <3>1. arrived = -1
      BY <1>2, <2>2 DEF Behind
    <3> QED
      BY <1>2, <1>4, <2>2, <3>1, OpeningIsLast
  <2>3. \A b, t : Behind(Unread, owed, arrived, b, t) => Behind(Unread', owed', arrived', b, t)
    BY <1>3, <2>1, <2>2
  <2>4. arrived' \in Int /\ inbox' \in Seq(Units) /\ owed' \in Seq(Units)
    BY <1>2, <1>3, <2>1
  <2> QED
    BY <1>1, <1>3, <2>3, <2>4, OthersInv
<1>5. CASE Head(owed).is # "open"
  <2>1. arrived' = arrived /\ inbox' = Append(inbox, Head(owed)) /\ inbox' \in Seq(Units)
    <3>1. arrived' = arrived /\ inbox' = Append(inbox, Head(owed))
      BY <1>5 DEF ProxySends
    <3> QED
      BY <1>2, <3>1, AppendProperties
  <2>2. Unread' = Append(Unread, Head(owed))
    BY <1>2, <1>3, <2>1, AppendBehind DEF Unread
  <2>3. ASSUME NEW b, NEW t, Behind(Unread, owed, arrived, b, t)
        PROVE  Behind(Append(Unread, Head(owed)), Tail(owed), arrived, b, t)
    BY <1>2, <1>5, <2>3, AnswerGoesOn
  <2>4. \A b, t : Behind(Unread, owed, arrived, b, t) => Behind(Unread', owed', arrived', b, t)
    BY <1>3, <2>1, <2>2, <2>3
  <2>5. arrived' \in Int /\ owed' \in Seq(Units)
    BY <1>1, <1>2, <1>3, <2>1
  <2> QED
    BY <1>1, <1>3, <2>1, <2>4, <2>5, OthersInv
<1> QED
  BY <1>4, <1>5

LEMMA DestinationSendsInv ==
  ASSUME TunnelInv, DestinationSends
  PROVE  TunnelInv'
<1>1. /\ Buffers /\ caller \in {"waiting", "gone"} /\ peer \in {"there", "gone"}
      /\ arrived \in Nat /\ arrived' = arrived + 1 /\ inbox' = Append(inbox, Datum(arrived + 1))
      /\ UNCHANGED <<dial, conn, peer, deadline, buffer, owed, got, caller, evidence>>
  BY TunnelAssumption DEF TunnelInv, TunnelTyped, DestinationSends
<1>2. /\ inbox \in Seq(Units) /\ owed \in Seq(Units) /\ Unread \in Seq(Units)
      /\ got \o buffer \in Seq(Units) /\ Datum(arrived + 1) \in Units
  BY <1>1, UnreadTyped, SentTyped DEF Buffers
<1>3. inbox' \in Seq(Units) /\ Unread' = Append(Unread, Datum(arrived + 1))
  BY <1>1, <1>2, AppendProperties, AppendBehind DEF Unread
<1>4. ASSUME NEW b, NEW t, Behind(Unread, owed, arrived, b, t)
      PROVE  Behind(Append(Unread, Datum(arrived + 1)), owed, arrived + 1, b, t)
  BY <1>1, <1>2, <1>4, DestinationComes
<1>5. arrived' \in Int /\ owed' \in Seq(Units)
  BY <1>1, <1>2
<1>6. \A b, t : Behind(Unread, owed, arrived, b, t) => Behind(Unread', owed', arrived', b, t)
  BY <1>1, <1>3, <1>4
<1> QED
  BY <1>1, <1>3, <1>5, <1>6, OthersInv

LEMMA HangsUpInv ==
  ASSUME TunnelInv, ProxyHangsUp \/ CallerLeaves
  PROVE  TunnelInv'
<1>1. Buffers /\ arrived \in Int /\ caller \in {"waiting", "gone"} /\ peer \in {"there", "gone"}
  BY DEF TunnelInv, TunnelTyped
<1>2. /\ UNCHANGED <<dial, conn, deadline, buffer, got, inbox, owed, arrived, evidence>>
      /\ peer' \in {"there", "gone"} /\ caller' \in {"waiting", "gone"}
      /\ dial.at = "failed" => UNCHANGED caller
  BY <1>1 DEF ProxyHangsUp, CallerLeaves, Dialing
<1>3. Unread' = Unread
  BY <1>2 DEF Unread
<1> QED
  BY <1>1, <1>2, <1>3, OthersInv DEF Buffers

-----------------------------------------------------------------------------
(* The dialer's steps.                                                     *)

LEMMA NothingComes ==
  ASSUME NEW x \in Seq(Units), NEW o \in Seq(Units), NEW n, Behind(x, o, n, <<>>, <<>>)
  PROVE  n = -1 /\ x = <<>> /\ o = <<>>
<1>1. n = -1 /\ x \o o = <<>> \o <<>>
  BY OpenTyped DEF Behind
<1>2. <<>> \o <<>> = <<>>
  BY EmptySeq, ConcatEmptySeq
<1> QED
  BY <1>1, <1>2, ConcatEqualIffEmpty

LEMMA Ahead ==
  ASSUME TunnelInv, dial.at \in Waits
  PROVE  /\ Buffers /\ arrived \in Int /\ peer \in {"there", "gone"}
         /\ inbox \in Seq(Units) /\ buffer \in Seq(Units) /\ owed \in Seq(Units)
         /\ dial.at \notin {"up", "head"} => got = <<>> /\ buffer = <<>> /\ Unread = inbox
         /\ dial.at = "head" => got = <<>> /\ Unread = buffer \o inbox
         /\ \E b, t : Behind(Unread, owed, arrived, b, t) /\ Awaits(dial, b, t)
BY UnreadTyped DEF TunnelInv, TunnelTyped, Awaited, Buffers

LEMMA NothingYet ==
  ASSUME TunnelInv, dial.at \in {"connecting", "tls"}
  PROVE  arrived = -1 /\ owed = <<>> /\ inbox = <<>> /\ buffer = <<>> /\ got = <<>> /\ Unread = <<>>
<1>1. /\ got = <<>> /\ buffer = <<>> /\ Unread = inbox /\ inbox \in Seq(Units) /\ owed \in Seq(Units)
      /\ \E b, t : Behind(Unread, owed, arrived, b, t) /\ Awaits(dial, b, t)
  BY Ahead DEF Waits, Dialing
<1>2. Behind(inbox, owed, arrived, <<>>, <<>>)
  BY <1>1 DEF Awaits
<1> QED
  BY <1>1, <1>2, NothingComes

(* What a dialer that has let go of the answer so far may hope for.        *)
LEMMA MethodAwaited ==
  ASSUME NEW w \in Methods \cup Verdicts, NEW d, d.at \in {"method", "auth"}
  PROVE  w \in Seq(Units) /\ \E b, t : Behind(<<>>, w, -1, b, t) /\ Awaits(d, b, t)
BY MethodComes DEF Awaits

LEMMA OpenAwaited ==
  ASSUME NEW d, d.at = "up"
  PROVE  Open \in Seq(Units) /\ Behind(<<>>, Open, -1, <<>>, Open) /\ Awaits(d, <<>>, Open)
<1>1. Plain(<<>>) /\ Open = <<>> \o Open
  BY OpenTyped, EmptySeq, ConcatEmptySeq DEF Plain
<1> QED
  BY <1>1, OpenTyped, AnswerComes DEF Awaits

(* A dialer that waits for a new answer and has read the ones before.      *)
LEMMA AsksInv ==
  ASSUME TunnelInv, dial.at \in {"connecting", "tls", "method", "auth"},
         dial' \in Dials, dial'.at \in {"method", "auth", "reply", "head", "up"},
         dial'.scheme = dial.scheme, dial.scheme = "direct" => dial'.at = "up",
         conn' = "open", deadline' \in BOOLEAN, dial'.at = "up" => ~deadline',
         arrived = -1, got = <<>>, buffer = <<>>, inbox' = <<>>,
         UNCHANGED <<peer, buffer, arrived, got, caller, evidence>>,
         dial'.at \in {"method", "auth"} => owed' \in Methods \cup Verdicts,
         dial'.at = "reply" => owed' \in Granted \cup Refused,
         dial'.at = "head" => owed' \in Statuses,
         dial'.at = "up" => owed' = Open
  PROVE  TunnelInv'
<1>1. /\ owed' \in Seq(Units)
      /\ \E b, t : Behind(<<>>, owed', -1, b, t) /\ Awaits(dial', b, t)
  <2>1. CASE dial'.at \in {"method", "auth"}
    BY <2>1, MethodAwaited
  <2>2. CASE dial'.at = "reply"
    BY <2>2, ReplyComes
  <2>3. CASE dial'.at = "head"
    BY <2>3, StatusComes
  <2>4. CASE dial'.at = "up"
    BY <2>4, OpenAwaited
  <2> QED
    BY <2>1, <2>2, <2>3, <2>4
<1>2. Unread' = <<>> /\ <<>> \in Seq(Units)
  BY EmptySeq, ConcatEmptySeq DEF Unread
<1>3. /\ dial.at \in Dialing /\ dial'.at \in Dialing \cup {"up"} /\ dial'.at # "connecting"
      /\ inbox' \in Seq(Units) /\ buffer' \in Seq(Units) /\ buffer' = <<>>
  BY <1>2 DEF Dialing
<1> QED
  BY <1>1, <1>2, <1>3, GoesOnInv

LEMMA ConnectedInv ==
  ASSUME TunnelInv, Connected
  PROVE  TunnelInv'
<1>1. /\ dial.at = "connecting" /\ conn' = "open"
      /\ UNCHANGED <<peer, inbox, buffer, arrived, got, caller, evidence>>
  BY DEF Connected
<1>2. arrived = -1 /\ owed = <<>> /\ inbox = <<>> /\ buffer = <<>> /\ got = <<>> /\ Unread = <<>>
  BY <1>1, NothingYet
<1>3. dial \in Dials /\ dial.scheme \in {"socks5", "http", "https", "direct"} /\ deadline \in BOOLEAN
  BY <1>1, Dialled DEF TunnelInv, TunnelTyped, Dials
<1>4. \A x \in Stages : [dial EXCEPT !.at = x] \in Dials /\ [dial EXCEPT !.at = x].at = x
                        /\ [dial EXCEPT !.at = x].scheme = dial.scheme
  BY <1>3, DialMoves
<1>5. CASE dial.scheme = "direct"
  <2>1. dial' = [dial EXCEPT !.at = "up"] /\ deadline' = FALSE /\ owed' = Open
    BY <1>5 DEF Connected, HandOver
  <2>2. dial' \in Dials /\ dial'.at = "up" /\ dial'.scheme = dial.scheme
    BY <1>4, <2>1 DEF Stages
  <2> QED
    BY <1>1, <1>2, <2>1, <2>2, AsksInv
<1>6. CASE dial.scheme = "socks5"
  <2>1. dial' = [dial EXCEPT !.at = "method"] /\ deadline' = TRUE /\ owed' \in Methods
    BY <1>6 DEF Connected, Goes, SetDeadline
  <2>2. dial' \in Dials /\ dial'.at = "method" /\ dial'.scheme = dial.scheme
    BY <1>4, <2>1 DEF Stages, Dialing
  <2> QED
    BY <1>1, <1>2, <1>6, <2>1, <2>2, AsksInv
<1>7. CASE dial.scheme = "http"
  <2>1. dial' = [dial EXCEPT !.at = "head"] /\ deadline' = TRUE /\ owed' \in Statuses
    BY <1>7 DEF Connected, Goes, SetDeadline
  <2>2. dial' \in Dials /\ dial'.at = "head" /\ dial'.scheme = dial.scheme
    BY <1>4, <2>1 DEF Stages, Dialing
  <2> QED
    BY <1>1, <1>2, <1>7, <2>1, <2>2, AsksInv
<1>8. CASE dial.scheme = "https"
  <2>1. dial' = [dial EXCEPT !.at = "tls"] /\ deadline' = deadline /\ owed' = owed
    BY <1>8 DEF Connected, Goes
  <2>2. dial' \in Dials /\ dial'.at = "tls" /\ dial'.scheme = dial.scheme
    BY <1>4, <2>1 DEF Stages, Dialing
  <2>3. \E b, t : Behind(<<>>, <<>>, -1, b, t) /\ Awaits(dial', b, t)
    <3>1. \E b, t : Behind(Unread, owed, arrived, b, t) /\ Awaits(dial, b, t)
      BY <1>1, Ahead DEF Waits, Dialing
    <3> QED
      BY <1>1, <1>2, <2>2, <3>1 DEF Awaits
  <2>4. Unread' = <<>> /\ <<>> \in Seq(Units)
    BY <1>1, <1>2, EmptySeq, ConcatEmptySeq DEF Unread
  <2>5. dial.at \in Dialing /\ dial'.at \in Dialing \cup {"up"}
    BY <1>1, <2>2 DEF Dialing
  <2> QED
    BY <1>1, <1>2, <1>3, <1>8, <2>1, <2>2, <2>3, <2>4, <2>5, GoesOnInv
<1> QED
  BY <1>3, <1>5, <1>6, <1>7, <1>8

LEMMA ProxyScheme ==
  ASSUME TunnelInv, dial.at \in Dialing \ {"connecting"}
  PROVE  /\ dial \in Dials /\ dial.scheme # "direct" /\ conn = "open" /\ deadline \in BOOLEAN
         /\ caller \in {"waiting", "gone"} /\ peer \in {"there", "gone"} /\ arrived \in Int
         /\ inbox \in Seq(Units) /\ owed \in Seq(Units) /\ dial.at \in Dialing
BY Dialled DEF TunnelInv, TunnelTyped, Proxied, Socketed, Dialing, Buffers

LEMMA TLSInv ==
  ASSUME TunnelInv, TLSToProxy
  PROVE  TunnelInv'
<1>1. /\ dial.at = "tls" /\ dial' = [dial EXCEPT !.at = "head"] /\ deadline' = TRUE
      /\ owed' \in Statuses
      /\ UNCHANGED <<conn, peer, inbox, buffer, arrived, got, caller, evidence>>
  BY DEF TLSToProxy, Goes, SetDeadline
<1>2. arrived = -1 /\ inbox = <<>> /\ buffer = <<>> /\ got = <<>>
  BY <1>1, NothingYet
<1>3. dial \in Dials /\ dial.scheme # "direct" /\ conn = "open"
  BY <1>1, ProxyScheme DEF Dialing
<1>4. dial' \in Dials /\ dial'.at = "head" /\ dial'.scheme = dial.scheme
  BY <1>1, <1>3, DialMoves DEF Stages, Dialing
<1> QED
  BY <1>1, <1>2, <1>3, <1>4, AsksInv

LEMMA TakesTyped ==
  ASSUME NEW k \in Nat, inbox \in Seq(Units), Takes(k)
  PROVE  /\ inbox' = Rest(inbox, k) /\ inbox' \in Seq(Units) /\ k <= Len(inbox)
         /\ \A i \in 1..k : inbox[i].n \in Int
<1>1. k <= Len(inbox) /\ inbox' = Rest(inbox, k) /\ Len(inbox) \in Nat
  BY LenProperties DEF Takes, Rest
<1>2. \A i \in 1..k : i \in 1..Len(inbox)
  BY <1>1
<1>3. \A i \in 1..k : inbox[i] \in Units
  BY <1>2, ElementOfSeq
<1> QED
  BY <1>1, <1>3, RestTyped DEF Units

(* The method and the verdict are read off the socket whole.               *)
LEMMA AnswerRead ==
  ASSUME TunnelInv, dial.at \in {"method", "auth"}, Takes(1)
  PROVE  arrived = -1 /\ got = <<>> /\ buffer = <<>> /\ inbox' = <<>> /\ inbox[1].n \in Int
<1>1. /\ got = <<>> /\ buffer = <<>> /\ Unread = inbox /\ inbox \in Seq(Units) /\ owed \in Seq(Units)
      /\ \E b, t : Behind(Unread, owed, arrived, b, t) /\ Awaits(dial, b, t)
  BY Ahead DEF Waits, Dialing
<1>2. PICK b, t : Behind(inbox, owed, arrived, b, t) /\ Len(b) = 1 /\ t = <<>>
  BY <1>1 DEF Awaits
<1>3. inbox' = Rest(inbox, 1) /\ inbox' \in Seq(Units) /\ 1 <= Len(inbox) /\ inbox[1].n \in Int
  BY <1>1, TakesTyped
<1>4. Behind(Rest(inbox, 1), owed, arrived, Rest(b, 1), t) /\ Len(Rest(b, 1)) = 0
  <2> DEFINE k == 1
  <2>1. k \in Nat /\ k <= Len(inbox) /\ k <= Len(b) /\ Len(b) - k = 0
    BY <1>2, <1>3
  <2> HIDE DEF k
  <2>2. /\ inbox \in Seq(Units) /\ owed \in Seq(Units) /\ Behind(inbox, owed, arrived, b, t)
        /\ k \in Nat /\ k <= Len(inbox) /\ k <= Len(b)
    BY <1>1, <1>2, <2>1
  <2>3. Behind(Rest(inbox, k), owed, arrived, Rest(b, k), t) /\ Len(Rest(b, k)) = Len(b) - k
    BY <2>2, TakenAhead
  <2> QED
    BY <2>1, <2>3 DEF k
<1>5. Rest(b, 1) = <<>>
  BY <1>4, EmptySeq DEF Behind, Plain
<1> QED
  BY <1>1, <1>2, <1>3, <1>4, <1>5, NothingComes

LEMMA AskForInv ==
  ASSUME TunnelInv, dial.at \in {"method", "auth"}, Takes(1), AskFor, UNCHANGED <<peer, arrived>>
  PROVE  TunnelInv'
<1>1. arrived = -1 /\ got = <<>> /\ buffer = <<>> /\ inbox' = <<>>
  BY AnswerRead
<1>2. /\ dial \in Dials /\ dial.scheme # "direct" /\ conn = "open" /\ deadline \in BOOLEAN
      /\ peer \in {"there", "gone"} /\ arrived \in Int /\ owed \in Seq(Units) /\ dial.at \in Dialing
  BY ProxyScheme DEF Dialing
<1>3. CASE dial.good
  <2>1. /\ dial' = [dial EXCEPT !.at = "reply"] /\ owed' \in Granted \cup Refused
        /\ UNCHANGED <<conn, deadline, buffer, got, caller, evidence>>
    BY <1>3 DEF AskFor, Goes
  <2>2. dial' \in Dials /\ dial'.at = "reply" /\ dial'.scheme = dial.scheme
    BY <1>2, <2>1, DialMoves DEF Stages, Dialing
  <2> QED
    BY <1>1, <1>2, <2>1, <2>2, AsksInv
<1>4. CASE ~dial.good
  <2>1. Fails("target", FALSE) /\ owed' = owed
    BY <1>4 DEF AskFor
  <2>2. inbox' \in Seq(Units)
    BY <1>1, EmptySeq
  <2> QED
    BY <1>2, <2>1, <2>2, FailsInv
<1> QED
  BY <1>3, <1>4

LEMMA ReadMethodInv ==
  ASSUME TunnelInv, ReadMethod
  PROVE  TunnelInv'
<1>1. dial.at = "method" /\ Takes(1) /\ UNCHANGED <<peer, arrived>>
  BY DEF ReadMethod
<1>2. arrived = -1 /\ got = <<>> /\ buffer = <<>> /\ inbox' = <<>> /\ inbox' \in Seq(Units)
  BY <1>1, AnswerRead, EmptySeq
<1>3. /\ dial \in Dials /\ dial.scheme # "direct" /\ conn = "open" /\ deadline \in BOOLEAN
      /\ peer \in {"there", "gone"} /\ arrived \in Int /\ owed \in Seq(Units) /\ dial.at \in Dialing
  BY <1>1, ProxyScheme DEF Dialing
<1>4. CASE AskFor
  BY <1>1, <1>4, AskForInv
<1>5. CASE /\ Goes("auth") /\ owed' \in Verdicts
           /\ UNCHANGED <<conn, deadline, buffer, got, caller, evidence>>
  <2>1. dial' \in Dials /\ dial'.at = "auth" /\ dial'.scheme = dial.scheme
    BY <1>3, <1>5, DialMoves DEF Goes, Stages, Dialing
  <2> QED
    BY <1>1, <1>2, <1>3, <1>5, <2>1, AsksInv
<1>6. CASE RouteFails("garbage") /\ owed' = owed
  BY <1>1, <1>2, <1>3, <1>6, RouteFailsInv DEF RouteFaults
<1> QED
  BY <1>4, <1>5, <1>6 DEF ReadMethod

LEMMA ReadAuthInv ==
  ASSUME TunnelInv, ReadAuth
  PROVE  TunnelInv'
<1>1. dial.at = "auth" /\ Takes(1) /\ UNCHANGED <<peer, arrived>>
  BY DEF ReadAuth
<1>2. inbox' \in Seq(Units)
  BY <1>1, AnswerRead, EmptySeq
<1>3. /\ dial.scheme # "direct" /\ dial.at \in Dialing
      /\ peer \in {"there", "gone"} /\ arrived \in Int /\ owed \in Seq(Units)
  BY <1>1, ProxyScheme DEF Dialing
<1>4. CASE AskFor
  BY <1>1, <1>4, AskForInv
<1>5. CASE RouteFails("refused us") /\ owed' = owed
  BY <1>1, <1>2, <1>3, <1>5, RouteFailsInv DEF RouteFaults
<1> QED
  BY <1>4, <1>5 DEF ReadAuth

(* Units are taken off the socket, of an answer that has at least as many. *)
LEMMA TakesAhead ==
  ASSUME TunnelInv, dial.at \in {"reply", "length", "skip"}, NEW k \in Nat, Takes(k),
         NEW b, NEW t, Behind(Unread, owed, arrived, b, t), k <= Len(b)
  PROVE  /\ inbox' = Rest(inbox, k) /\ inbox' \in Seq(Units)
         /\ Behind(inbox', owed, arrived, Rest(b, k), t)
         /\ \A i \in 1..k : inbox[i] = b[i]
         /\ b \in Seq(Units) /\ Len(Rest(b, k)) = Len(b) - k
         /\ \A i \in 1..(Len(b) - k) : Rest(b, k)[i] = b[i + k]
<1>1. Unread = inbox /\ inbox \in Seq(Units) /\ owed \in Seq(Units)
  BY Ahead DEF Waits, Dialing
<1>2. inbox' = Rest(inbox, k) /\ inbox' \in Seq(Units) /\ k <= Len(inbox)
  BY <1>1, TakesTyped
<1>3. b \in Seq(Units) /\ Len(b) \in Nat
  BY LenProperties DEF Behind, Plain
<1>4. Behind(Rest(inbox, k), owed, arrived, Rest(b, k), t)
  BY <1>1, <1>2, TakenAhead
<1>5. ASSUME NEW i \in 1..k PROVE inbox[i] = b[i]
  <2>1. i \in Nat \ {0} /\ i <= Len(inbox) /\ i <= Len(b)
    BY <1>1, <1>2, <1>3, LenProperties
  <2> QED
    BY <1>1, <2>1, AnswerAhead
<1> QED
  BY <1>2, <1>3, <1>4, <1>5, RestTyped

(* The dialer is further in the same answer.                               *)
LEMMA ReadsOnInv ==
  ASSUME TunnelInv, dial.at \in {"reply", "length", "skip"},
         dial' \in Dials, dial'.at \in {"length", "skip", "up"}, dial'.scheme = dial.scheme,
         deadline' \in BOOLEAN, dial'.at = "up" => ~deadline',
         inbox' \in Seq(Units), UNCHANGED <<conn, peer, buffer, owed, arrived, got, caller, evidence>>,
         NEW b, NEW t, Behind(inbox', owed, arrived, b, t), Awaits(dial', b, t)
  PROVE  TunnelInv'
<1>1. /\ got = <<>> /\ buffer = <<>> /\ owed \in Seq(Units) /\ buffer \in Seq(Units)
      /\ dial.at \in Dialing \ {"connecting"} /\ dial'.at \in Dialing \cup {"up"}
  BY Ahead DEF Waits, Dialing
<1>2. dial.scheme # "direct" /\ conn = "open"
  BY <1>1, ProxyScheme
<1>3. Unread' = inbox'
  BY <1>1, EmptySeq, ConcatEmptySeq DEF Unread
<1> QED
  BY <1>1, <1>2, <1>3, GoesOnInv

LEMMA ReadReplyInv ==
  ASSUME TunnelInv, ReadReply
  PROVE  TunnelInv'
<1>1. dial.at = "reply" /\ Takes(2) /\ UNCHANGED <<peer, owed, arrived>>
  BY DEF ReadReply
<1>2. /\ dial \in Dials /\ dial.scheme # "direct" /\ conn = "open" /\ deadline \in BOOLEAN
      /\ peer \in {"there", "gone"} /\ arrived \in Int /\ owed \in Seq(Units) /\ dial.at \in Dialing
  BY <1>1, ProxyScheme DEF Dialing
<1>3. PICK b, t : Behind(Unread, owed, arrived, b, t) /\ Awaits(dial, b, t)
  BY <1>1, Ahead DEF Waits, Dialing
<1>4. Len(b) \in Nat /\ 2 <= Len(b)
  BY <1>1, <1>3, LenProperties DEF Awaits, Behind, Plain
<1>5. /\ inbox' \in Seq(Units) /\ Behind(inbox', owed, arrived, Rest(b, 2), t)
      /\ \A i \in 1..2 : inbox[i] = b[i]
      /\ Len(Rest(b, 2)) = Len(b) - 2 /\ \A i \in 1..(Len(b) - 2) : Rest(b, 2)[i] = b[i + 2]
  BY <1>1, <1>3, <1>4, TakesAhead
<1>6. inbox[1] = b[1] /\ inbox[2] = b[2]
  BY <1>5
<1> DEFINE code == inbox[1].n
           type == inbox[2].n
<1>7. CASE code = -1 /\ RouteFails("garbage")
  BY <1>1, <1>2, <1>5, <1>7, RouteFailsInv DEF RouteFaults
<1>8. CASE Fails("refused us", TRUE)
  BY <1>1, <1>2, <1>5, <1>8, FailsInv DEF RouteFaults
<1>9. CASE Fails("elsewhere", FALSE)
  BY <1>1, <1>2, <1>5, <1>9, FailsInv
<1>10. CASE /\ code = 0 /\ type \in {1, 4}
            /\ dial' = [dial EXCEPT !.at = "skip", !.skip = Skip(type, 0)]
            /\ UNCHANGED <<conn, deadline, buffer, got, caller, evidence>>
  <2>1. t = Open /\ Len(b) = 2 + Skip(type, 0)
    BY <1>1, <1>3, <1>6, <1>10 DEF Awaits
  <2>2. Skip(type, 0) \in Int
    BY <1>10 DEF Skip
  <2>3. dial' \in Dials /\ dial'.at = "skip" /\ dial'.skip = Skip(type, 0) /\ dial'.scheme = dial.scheme
    BY <1>2, <1>10, <2>2, DialSkips
  <2>4. Len(Rest(b, 2)) = Skip(type, 0)
    <3> HIDE DEF type
    <3> QED
      BY <1>5, <2>1, <2>2
  <2>5. Awaits(dial', Rest(b, 2), t)
    BY <2>1, <2>3, <2>4 DEF Awaits
  <2>6. deadline' \in BOOLEAN /\ UNCHANGED <<conn, peer, buffer, owed, arrived, got, caller, evidence>>
    BY <1>1, <1>2, <1>10
  <2> QED
    BY <1>1, <1>5, <2>3, <2>5, <2>6, ReadsOnInv
<1>11. CASE /\ code = 0 /\ type = 3 /\ Goes("length")
            /\ UNCHANGED <<conn, deadline, buffer, got, caller, evidence>>
  <2>1. t = Open /\ Len(b) >= 3 /\ b[3].n \in Nat /\ Len(b) = 3 + Skip(3, b[3].n)
    BY <1>1, <1>3, <1>6, <1>11 DEF Awaits
  <2>2. dial' \in Dials /\ dial'.at = "length" /\ dial'.scheme = dial.scheme
    BY <1>2, <1>11, DialMoves DEF Goes, Stages, Dialing
  <2>3. Rest(b, 2)[1] = b[3]
    BY <1>5, <2>1
  <2>4. Skip(3, b[3].n) \in Int
    BY <2>1 DEF Skip
  <2>5. Len(Rest(b, 2)) = 1 + Skip(3, b[3].n) /\ Len(Rest(b, 2)) >= 1
    BY <1>4, <1>5, <2>1, <2>4
  <2>6. Awaits(dial', Rest(b, 2), t)
    BY <2>1, <2>2, <2>3, <2>5 DEF Awaits
  <2>7. deadline' \in BOOLEAN /\ UNCHANGED <<conn, peer, buffer, owed, arrived, got, caller, evidence>>
    BY <1>1, <1>2, <1>11
  <2> QED
    BY <1>1, <1>5, <2>2, <2>6, <2>7, ReadsOnInv
<1>12. CASE RouteFails("garbage")
  BY <1>1, <1>2, <1>5, <1>12, RouteFailsInv DEF RouteFaults
<1> QED
  BY <1>7, <1>8, <1>9, <1>10, <1>11, <1>12 DEF ReadReply

LEMMA ReadLengthInv ==
  ASSUME TunnelInv, ReadLength
  PROVE  TunnelInv'
<1>1. /\ dial.at = "length" /\ Takes(1)
      /\ dial' = [dial EXCEPT !.at = "skip", !.skip = Skip(3, inbox[1].n)]
      /\ UNCHANGED <<conn, peer, deadline, buffer, owed, arrived, got, caller, evidence>>
  BY DEF ReadLength
<1>2. dial \in Dials /\ deadline \in BOOLEAN
  BY <1>1, ProxyScheme DEF Dialing
<1>3. PICK b, t : Behind(Unread, owed, arrived, b, t) /\ Awaits(dial, b, t)
  BY <1>1, Ahead DEF Waits, Dialing
<1>4. t = Open /\ 1 <= Len(b) /\ b[1].n \in Nat /\ Len(b) = 1 + Skip(3, b[1].n)
  BY <1>1, <1>3, LenProperties DEF Awaits, Behind, Plain
<1>5. /\ inbox' \in Seq(Units) /\ Behind(inbox', owed, arrived, Rest(b, 1), t)
      /\ \A i \in 1..1 : inbox[i] = b[i]
      /\ Len(Rest(b, 1)) = Len(b) - 1
  BY <1>1, <1>3, <1>4, TakesAhead
<1>6. inbox[1] = b[1] /\ Skip(3, b[1].n) \in Int
  BY <1>4, <1>5 DEF Skip
<1>7. /\ dial' \in Dials /\ dial'.at = "skip" /\ dial'.skip = Skip(3, b[1].n)
      /\ dial'.scheme = dial.scheme
  <2> DEFINE k == Skip(3, b[1].n)
  <2>1. dial' = [dial EXCEPT !.at = "skip", !.skip = k] /\ k \in Int
    BY <1>1, <1>6
  <2> HIDE DEF k
  <2>2. dial' \in Dials /\ dial'.at = "skip" /\ dial'.skip = k /\ dial'.scheme = dial.scheme
    BY <1>2, <2>1, DialSkips
  <2> QED
    BY <2>2 DEF k
<1>8. Len(Rest(b, 1)) = Skip(3, b[1].n)
  BY <1>4, <1>5, <1>6
<1>9. Awaits(dial', Rest(b, 1), t)
  BY <1>4, <1>7, <1>8 DEF Awaits
<1> QED
  BY <1>1, <1>2, <1>5, <1>7, <1>9, ReadsOnInv

LEMMA SkipAddressInv ==
  ASSUME TunnelInv, SkipAddress
  PROVE  TunnelInv'
<1>1. /\ dial.at = "skip" /\ Takes(dial.skip) /\ dial' = [dial EXCEPT !.at = "up"] /\ deadline' = FALSE
      /\ UNCHANGED <<conn, peer, buffer, owed, arrived, got, caller, evidence>>
  BY DEF SkipAddress, HandOver
<1>2. dial \in Dials
  BY <1>1, ProxyScheme DEF Dialing
<1>3. PICK b, t : Behind(Unread, owed, arrived, b, t) /\ Awaits(dial, b, t)
  BY <1>1, Ahead DEF Waits, Dialing
<1>4. t = Open /\ dial.skip = Len(b) /\ dial.skip \in Nat
  BY <1>1, <1>3, LenProperties DEF Awaits, Behind, Plain
<1>5. /\ inbox' \in Seq(Units) /\ Behind(inbox', owed, arrived, Rest(b, dial.skip), t)
      /\ b \in Seq(Units) /\ Len(Rest(b, dial.skip)) = Len(b) - dial.skip
  BY <1>1, <1>3, <1>4, TakesAhead
<1>6. Rest(b, dial.skip) = <<>>
  <2>1. Len(Rest(b, dial.skip)) = 0
    BY <1>4, <1>5
  <2> QED
    BY <1>5, <2>1, EmptySeq DEF Behind, Plain
<1>7. dial' \in Dials /\ dial'.at = "up" /\ dial'.scheme = dial.scheme
  BY <1>1, <1>2, DialMoves DEF Stages
<1>8. Awaits(dial', <<>>, t)
  BY <1>4, <1>7 DEF Awaits
<1> QED
  BY <1>1, <1>5, <1>6, <1>7, <1>8, ReadsOnInv

LEMMA ReadAheadInv ==
  ASSUME TunnelInv, ReadAhead
  PROVE  TunnelInv'
<1>1. /\ dial.at = "head" /\ buffer' = buffer \o inbox /\ inbox' = <<>>
      /\ UNCHANGED <<dial, conn, peer, deadline, owed, arrived, got, caller, evidence>>
  BY DEF ReadAhead
<1>2. /\ got = <<>> /\ Unread = buffer \o inbox /\ owed \in Seq(Units)
      /\ buffer \in Seq(Units) /\ inbox \in Seq(Units)
      /\ \E b, t : Behind(Unread, owed, arrived, b, t) /\ Awaits(dial, b, t)
  BY <1>1, Ahead DEF Waits, Dialing
<1>3. /\ dial \in Dials /\ dial.scheme # "direct" /\ conn = "open" /\ deadline \in BOOLEAN
      /\ dial.at \in Dialing
  BY <1>1, ProxyScheme DEF Dialing
<1>4. buffer' \in Seq(Units) /\ inbox' \in Seq(Units) /\ Unread' = Unread
  <2>1. buffer \o inbox \in Seq(Units)
    BY <1>2, ConcatProperties
  <2> QED
    BY <1>1, <1>2, <2>1, EmptySeq, ConcatEmptySeq DEF Unread
<1> QED
  BY <1>1, <1>2, <1>3, <1>4, GoesOnInv

(* Past the end of the headers only the destination is left.               *)
LEMMA ReadHeadInv ==
  ASSUME TunnelInv, ReadHead
  PROVE  TunnelInv'
<1>1. dial.at = "head" /\ buffer # <<>> /\ UNCHANGED peerVars
  BY DEF ReadHead
<1>2. /\ got = <<>> /\ Unread = buffer \o inbox /\ owed \in Seq(Units)
      /\ buffer \in Seq(Units) /\ inbox \in Seq(Units)
      /\ \E b, t : Behind(Unread, owed, arrived, b, t) /\ Awaits(dial, b, t)
  BY <1>1, Ahead DEF Waits, Dialing
<1>3. /\ dial \in Dials /\ dial.scheme # "direct" /\ conn = "open" /\ deadline \in BOOLEAN
      /\ peer \in {"there", "gone"} /\ arrived \in Int /\ dial.at \in Dialing
  BY <1>1, ProxyScheme DEF Dialing
<1>4. CASE RouteFails("garbage")
  BY <1>1, <1>2, <1>3, <1>4, RouteFailsInv DEF RouteFaults, peerVars
<1>5. ASSUME Len(buffer) >= 2, buffer' = SubSeq(buffer, 3, Len(buffer)),
             UNCHANGED <<conn, got, caller, evidence>>
      PROVE  buffer' = Rest(buffer, 2) /\ buffer' \in Seq(Units) /\ buffer[1].n \in Int
  <2>1. buffer' = Rest(buffer, 2)
    BY <1>5 DEF Rest
  <2>2. buffer[1].n \in Int
    <3>1. 1 \in 1..Len(buffer)
      BY <1>2, <1>5, LenProperties
    <3>2. buffer[1] \in Units
      BY <1>2, <3>1, ElementOfSeq
    <3> QED
      BY <3>2 DEF Units
  <2> DEFINE k == 2
  <2>3. k \in Nat /\ k <= Len(buffer)
    BY <1>2, <1>5, LenProperties
  <2> HIDE DEF k
  <2>4. Rest(buffer, k) \in Seq(Units)
    BY <1>2, <2>3, RestTyped
  <2> QED
    BY <2>1, <2>2, <2>4 DEF k
<1>6. CASE /\ Len(buffer) >= 2 /\ buffer' = SubSeq(buffer, 3, Len(buffer))
           /\ UNCHANGED <<conn, got, caller, evidence>>
           /\ buffer[1].n = 200 /\ HandOver
  <2> DEFINE k == 2
  <2>1. PICK b, t : Behind(Unread, owed, arrived, b, t) /\ Awaits(dial, b, t)
    BY <1>2
  <2>2. Len(Unread) = Len(buffer) + Len(inbox) /\ Len(buffer) \in Nat /\ Len(inbox) \in Nat
        /\ Unread \in Seq(Units)
    BY <1>2, ConcatProperties, LenProperties
  <2>3. Unread[1] = buffer[1]
    BY <1>2, <1>6, <2>2, ConcatProperties
  <2>4. Len(b) >= 1 /\ b \in Seq(Units) /\ Len(b) \in Nat
    BY <1>1, <2>1, LenProperties DEF Awaits, Behind, Plain
  <2>5. Unread[1] = b[1]
    <3> DEFINE i == 1
    <3>1. /\ Unread \in Seq(Units) /\ owed \in Seq(Units) /\ Behind(Unread, owed, arrived, b, t)
          /\ i \in Nat \ {0} /\ i <= Len(Unread) /\ i <= Len(b)
      BY <1>2, <1>6, <2>1, <2>2, <2>4
    <3> HIDE DEF i
    <3>2. Unread[i] = b[i]
      BY <3>1, AnswerAhead
    <3> QED
      BY <3>2 DEF i
  <2>6. t = Open /\ Len(b) = 2
    BY <1>1, <1>6, <2>1, <2>3, <2>5 DEF Awaits
  <2>7. k \in Nat /\ k <= Len(buffer) /\ k <= Len(Unread) /\ k <= Len(b) /\ Len(b) - k = 0
    BY <1>6, <2>2, <2>6
  <2>8. buffer' = Rest(buffer, k)
    BY <1>5, <1>6
  <2> HIDE DEF k
  <2>9. Behind(Rest(Unread, k), owed, arrived, Rest(b, k), t) /\ Len(Rest(b, k)) = Len(b) - k
    <3>1. /\ Unread \in Seq(Units) /\ owed \in Seq(Units) /\ Behind(Unread, owed, arrived, b, t)
          /\ k \in Nat /\ k <= Len(Unread) /\ k <= Len(b)
      BY <1>2, <2>1, <2>2, <2>7
    <3> HIDE DEF Unread
    <3> QED
      BY <3>1, TakenAhead
  <2>10. Rest(b, k) = <<>>
    BY <2>7, <2>9, EmptySeq DEF Behind, Plain
  <2>11. Unread' = Rest(Unread, k)
    <3>1. Rest(Unread, k) = Rest(buffer, k) \o inbox
      BY <1>2, <2>7, RestOfConcat
    <3>2. Unread' = buffer' \o inbox
      BY <1>1, <1>2, <1>5, <1>6, ConcatEmptySeq DEF Unread, peerVars
    <3> QED
      BY <2>8, <3>1, <3>2
  <2>12. dial' \in Dials /\ dial'.at = "up" /\ dial'.scheme = dial.scheme /\ deadline' = FALSE
    BY <1>3, <1>6, DialMoves DEF HandOver, Stages
  <2>13. Awaits(dial', <<>>, t)
    BY <2>6, <2>12 DEF Awaits
  <2>14. Behind(Unread', owed', arrived', <<>>, t)
    BY <1>1, <2>9, <2>10, <2>11 DEF peerVars
  <2>15. /\ inbox' \in Seq(Units) /\ owed' \in Seq(Units) /\ buffer' \in Seq(Units)
         /\ UNCHANGED <<conn, got, peer, arrived, caller>>
    BY <1>1, <1>2, <1>5, <1>6 DEF peerVars
  <2> QED
    BY <1>3, <2>12, <2>13, <2>14, <2>15, GoesOnInv
<1>7. CASE /\ Len(buffer) >= 2 /\ buffer' = SubSeq(buffer, 3, Len(buffer))
           /\ UNCHANGED <<conn, got, caller, evidence>>
           /\ dial' = [dial EXCEPT !.at = "body", !.status = buffer[1].n] /\ deadline' = deadline
  <2>1. buffer[1].n \in Int /\ buffer' \in Seq(Units)
    BY <1>5, <1>7
  <2>2. dial' \in Dials /\ dial'.at = "body" /\ dial'.scheme = dial.scheme
    <3> DEFINE k == buffer[1].n
    <3>1. dial' = [dial EXCEPT !.at = "body", !.status = k] /\ k \in Int
      BY <1>7, <2>1
    <3> HIDE DEF k
    <3> QED
      BY <1>3, <3>1, DialWaitsForBody
  <2>3. /\ inbox' \in Seq(Units) /\ owed' \in Seq(Units) /\ dial'.at \in Dialing
        /\ UNCHANGED <<conn, got, peer, arrived, caller>>
    BY <1>1, <1>2, <1>7, <2>2 DEF peerVars, Dialing
  <2> QED
    BY <1>3, <1>7, <2>1, <2>2, <2>3, GoesOnInv
<1> QED
  BY <1>4, <1>6, <1>7 DEF ReadHead

LEMMA ReadBodyInv ==
  ASSUME TunnelInv, ReadBody
  PROVE  TunnelInv'
<1>1. dial.at = "body" /\ UNCHANGED peerVars
  BY DEF ReadBody
<1>2. /\ dial.scheme # "direct" /\ dial.at \in Dialing /\ peer' \in {"there", "gone"}
      /\ arrived' \in Int /\ inbox' \in Seq(Units) /\ owed' \in Seq(Units)
  BY <1>1, ProxyScheme DEF Dialing, peerVars
<1>3. CASE Fails("refused us", TRUE)
  BY <1>2, <1>3, FailsInv DEF RouteFaults
<1>4. CASE Fails("elsewhere", FALSE)
  BY <1>2, <1>4, FailsInv
<1> QED
  BY <1>3, <1>4 DEF ReadBody

(* A refused dial, a caller who leaves, a deadline and a hang-up.          *)
LEMMA EndsInv ==
  ASSUME TunnelInv,
         DialFails \/ DialStopped \/ TLSToProxyFails \/ DeadlinePasses \/ HangUpSeen
  PROVE  TunnelInv'
<1>1. dial.at \in Dialing /\ UNCHANGED peerVars
  BY DEF DialFails, DialStopped, TLSToProxyFails, DeadlinePasses, HangUpSeen, Dialing
<1>2. /\ peer' \in {"there", "gone"} /\ arrived' \in Int
      /\ inbox' \in Seq(Units) /\ owed' \in Seq(Units)
  BY <1>1 DEF TunnelInv, TunnelTyped, Buffers, peerVars
<1>3. dial.at # "connecting" => dial.scheme # "direct"
  BY <1>1 DEF TunnelInv, Proxied
<1>4. ASSUME NEW why, dial.scheme = "direct", Fails(why, FALSE) PROVE TunnelInv'
  BY <1>1, <1>2, <1>4, FailsInv
<1>5. ASSUME NEW why, dial.scheme # "direct", RouteFails(why), why \in RouteFaults \/ caller = "gone"
      PROVE  TunnelInv'
  BY <1>1, <1>2, <1>5, RouteFailsInv
<1>6. CASE DialFails
  BY <1>4, <1>5, <1>6 DEF DialFails, RouteFaults
<1>7. CASE DialStopped
  BY <1>4, <1>5, <1>7 DEF DialStopped
<1>8. CASE TLSToProxyFails
  BY <1>3, <1>5, <1>8 DEF TLSToProxyFails, RouteFaults
<1>9. CASE DeadlinePasses
  BY <1>4, <1>5, <1>9 DEF DeadlinePasses, RouteFaults
<1>10. CASE HangUpSeen
  BY <1>3, <1>5, <1>10 DEF HangUpSeen, RouteFaults
<1> QED
  BY <1>6, <1>7, <1>8, <1>9, <1>10

-----------------------------------------------------------------------------
(* A dial begins; a tunnel is used.                                        *)

LEMMA BeginInv ==
  ASSUME TunnelInv, Begin
  PROVE  TunnelInv'
<1>1. PICK scheme \in Schemes, auth \in BOOLEAN, good \in BOOLEAN, probe \in BOOLEAN :
        dial' = [at |-> "connecting", scheme |-> scheme, auth |-> auth, good |-> good,
                 probe |-> probe, skip |-> 0, status |-> 0, broken |-> FALSE, ok |-> FALSE]
  BY DEF Begin
<1>2. dial' \in Dials /\ dial'.at = "connecting"
  BY <1>1, TunnelAssumption DEF Dials, Stages, Dialing
<1>3. /\ dial.at = "new"
      /\ UNCHANGED <<conn, peer, deadline, inbox, buffer, owed, arrived, got, caller, evidence>>
  BY DEF Begin
<1>4. TunnelTyped'
  BY <1>2, <1>3 DEF TunnelInv, TunnelTyped, Buffers
<1>5. Proxied' /\ Socketed' /\ RoutesBlamedFairly'
  BY <1>2, <1>3 DEF TunnelInv, Proxied, Socketed, RoutesBlamedFairly, Dialing
<1>6. Awaited'
  <2>1. Unread' = Unread
    BY <1>3 DEF Unread
  <2>2. \A b, t : Awaits(dial, b, t) => Awaits(dial', b, t)
    BY <1>2, <1>3 DEF Awaits
  <2>3. \E b, t : Behind(Unread, owed, arrived, b, t) /\ Awaits(dial, b, t)
    BY <1>3 DEF TunnelInv, Awaited, Waits
  <2>4. got = <<>> /\ buffer = <<>>
    BY <1>3 DEF TunnelInv, Awaited, Waits
  <2> QED
    BY <1>2, <1>3, <2>1, <2>2, <2>3, <2>4 DEF Awaited
<1> QED
  BY <1>4, <1>5, <1>6 DEF TunnelInv

LEMMA TunnelReadInv ==
  ASSUME TunnelInv, TunnelRead
  PROVE  TunnelInv'
<1>1. /\ dial.at = "up"
      /\ UNCHANGED <<dial, conn, peer, deadline, owed, arrived, caller, evidence>>
  BY DEF TunnelRead
<1>2. /\ got \in Seq(Units) /\ buffer \in Seq(Units) /\ inbox \in Seq(Units) /\ owed \in Seq(Units)
  BY DEF TunnelInv, TunnelTyped, Buffers
<1>3. /\ got' \in Seq(Units) /\ buffer' \in Seq(Units) /\ inbox' \in Seq(Units)
      /\ Unread' = Unread
  <2>1. CASE /\ buffer # <<>> /\ got' = Append(got, Head(buffer)) /\ buffer' = Tail(buffer)
             /\ inbox' = inbox
    <3>1. Append(got, Head(buffer)) \o Tail(buffer) = got \o buffer
      BY <1>2, <2>1, PassedOn
    <3> QED
      BY <1>2, <2>1, <3>1, HeadTailProperties, AppendProperties DEF Unread
  <2>2. CASE /\ buffer = <<>> /\ inbox # <<>> /\ got' = Append(got, Head(inbox))
             /\ inbox' = Tail(inbox) /\ buffer' = buffer
    <3>1. Append(got, Head(inbox)) \o Tail(inbox) = got \o inbox
      BY <1>2, <2>2, PassedOn
    <3>2. Append(got, Head(inbox)) \in Seq(Units) /\ Tail(inbox) \in Seq(Units)
      BY <1>2, <2>2, HeadTailProperties, AppendProperties
    <3>3. Unread = got \o inbox
      BY <1>2, <2>2, ConcatEmptySeq DEF Unread
    <3>4. Unread' = Append(got, Head(inbox)) \o Tail(inbox)
      BY <2>2, <3>2, ConcatEmptySeq DEF Unread
    <3> QED
      BY <1>2, <2>2, <3>1, <3>2, <3>3, <3>4
  <2> QED
    BY <2>1, <2>2 DEF TunnelRead
<1>4. TunnelTyped'
  BY <1>1, <1>2, <1>3 DEF TunnelInv, TunnelTyped, Buffers
<1>5. Proxied' /\ Socketed' /\ RoutesBlamedFairly'
  BY <1>1 DEF TunnelInv, Proxied, Socketed, RoutesBlamedFairly
<1>6. Awaited'
  BY <1>1, <1>3 DEF TunnelInv, Awaited
<1> QED
  BY <1>4, <1>5, <1>6 DEF TunnelInv

LEMMA ProbeEndsInv ==
  ASSUME TunnelInv, ProbeEnds
  PROVE  TunnelInv'
<1>1. /\ dial.at = "up" /\ conn' = "closed"
      /\ \E ok \in BOOLEAN : dial' = [dial EXCEPT !.at = "probed", !.ok = ok]
      /\ UNCHANGED <<peer, deadline, inbox, buffer, owed, arrived, got, caller, evidence>>
  BY DEF ProbeEnds
<1>2. dial \in Dials
  BY <1>1, Dialled DEF TunnelInv
<1>3. dial' \in Dials /\ dial'.at = "probed"
  BY <1>1, <1>2, DialProbed
<1>4. TunnelTyped'
  BY <1>1, <1>3 DEF TunnelInv, TunnelTyped, Buffers
<1>5. Proxied' /\ Socketed' /\ RoutesBlamedFairly' /\ Awaited'
  BY <1>1, <1>3 DEF Proxied, Socketed, RoutesBlamedFairly, Awaited, Waits, Dialing
<1> QED
  BY <1>4, <1>5 DEF TunnelInv

-----------------------------------------------------------------------------
(* The whole.                                                              *)

LEMMA InitTunnel == TunnelInit => TunnelInv
<1> SUFFICES ASSUME TunnelInit PROVE TunnelInv
  OBVIOUS
<1>1. dial.at = "new" /\ got = <<>> /\ buffer = <<>> /\ inbox = <<>> /\ owed = <<>> /\ arrived = -1
  BY DEF TunnelInit
<1>2. Buffers
  BY <1>1, EmptySeq DEF Buffers
<1>3. TunnelTyped
  <2>1. /\ dial = [at |-> "new"] /\ conn = "none" /\ peer = "there" /\ caller = "waiting"
        /\ deadline = FALSE /\ arrived \in Int
    BY DEF TunnelInit
  <2> QED
    BY <1>2, <2>1 DEF TunnelTyped
<1>4. Proxied /\ Socketed /\ RoutesBlamedFairly
  BY DEF TunnelInit, Proxied, Socketed, RoutesBlamedFairly, Dialing
<1>5. Behind(Unread, owed, arrived, <<>>, <<>>)
  <2>1. Unread = <<>> /\ Plain(<<>>) /\ <<>> \o <<>> = <<>>
    BY <1>1, EmptySeq, ConcatEmptySeq DEF Unread, Plain
  <2> QED
    BY <1>1, <2>1 DEF Behind
<1>6. Awaited
  BY <1>1, <1>5 DEF Awaited, Awaits
<1> QED
  BY <1>3, <1>4, <1>6 DEF TunnelInv

LEMMA TunnelStep == TunnelInv /\ [TunnelNext]_tunnelVars => TunnelInv'
<1> SUFFICES ASSUME TunnelInv, [TunnelNext]_tunnelVars PROVE TunnelInv'
  OBVIOUS
<1>1. CASE UNCHANGED tunnelVars
  <2>1. UNCHANGED <<dial, conn, peer, deadline, inbox, buffer, owed, arrived, got, caller, evidence>>
        /\ Unread' = Unread
    BY <1>1 DEF tunnelVars, Unread
  <2> QED
    BY <2>1 DEF TunnelInv, TunnelTyped, Buffers, Proxied, Socketed, RoutesBlamedFairly, Awaited
<1>2. CASE Begin
  BY <1>2, BeginInv
<1>3. CASE DialFails \/ DialStopped \/ TLSToProxyFails \/ DeadlinePasses \/ HangUpSeen
  BY <1>3, EndsInv
<1>4. CASE Connected \/ TLSToProxy
  BY <1>4, ConnectedInv, TLSInv
<1>5. CASE ReadMethod \/ ReadAuth
  BY <1>5, ReadMethodInv, ReadAuthInv
<1>6. CASE ReadReply \/ ReadLength \/ SkipAddress
  BY <1>6, ReadReplyInv, ReadLengthInv, SkipAddressInv
<1>7. CASE ReadAhead \/ ReadHead \/ ReadBody
  BY <1>7, ReadAheadInv, ReadHeadInv, ReadBodyInv
<1>8. CASE TunnelRead \/ ProbeEnds
  BY <1>8, TunnelReadInv, ProbeEndsInv
<1>9. CASE ProxySends \/ DestinationSends \/ ProxyHangsUp \/ CallerLeaves
  BY <1>9, ProxySendsInv, DestinationSendsInv, HangsUpInv
<1> QED
  BY <1>1, <1>2, <1>3, <1>4, <1>5, <1>6, <1>7, <1>8, <1>9 DEF TunnelNext, DialerStep

LEMMA TunnelInvHolds == TunnelSpec => []TunnelInv
BY InitTunnel, TunnelStep, PTL DEF TunnelSpec

(* A failed dial costs the route its place in the rotation exactly when    *)
(* the route is at fault.                                                  *)
THEOREM BlameIsFair == TunnelSpec => []RoutesBlamedFairly
<1>1. TunnelInv => RoutesBlamedFairly
  BY DEF TunnelInv
<1> QED
  BY <1>1, TunnelInvHolds, PTL

(* A tunnel starts where the proxy's answer ends, wherever the answer was  *)
(* cut, whatever the length of the address in it, and whatever came right  *)
(* behind it.                                                              *)
THEOREM TunnelsAreClean == TunnelSpec => []TunnelsStartClean
<1>1. TunnelInv => TunnelsStartClean
  <2> SUFFICES ASSUME TunnelInv PROVE TunnelsStartClean
    OBVIOUS
  <2>1. ASSUME dial.at = "up"
        PROVE  Unread = Sent(IF arrived = -1 THEN 0 ELSE arrived)
    <3>1. \E b, t : Behind(Unread, owed, arrived, b, t) /\ Awaits(dial, b, t)
      BY <2>1 DEF TunnelInv, Awaited, Waits
    <3>2. Behind(Unread, owed, arrived, <<>>, Open)
      BY <2>1, <3>1 DEF Awaits
    <3>3. Unread \in Seq(Units) /\ owed \in Seq(Units) /\ arrived \in Int
      BY UnreadTyped DEF TunnelInv, TunnelTyped, Buffers
    <3> QED
      BY <3>2, <3>3, NothingElseComes
  <2> QED
    BY <2>1 DEF TunnelInv, TunnelsStartClean, Socketed, Unread
<1> QED
  BY <1>1, TunnelInvHolds, PTL

-----------------------------------------------------------------------------
(* A hold on the word of a status is worth its while.                      *)

StatusTypes ==
  /\ clock \in Nat /\ cooling \in Int
  /\ left \in [Windows -> Nat] /\ refill \in [Windows -> Nat]
  /\ \A w \in Windows : clock < refill[w]

(* What a status tells is of the windows as they are, or of windows that   *)
(* were refilled since.                                                    *)
Truthful(status, time, l, f) ==
  /\ status.reset \in [Windows -> Nat]
  /\ \A w \in ToldEmpty(status) :
       status.reset[w] # 0 => time >= status.reset[w] \/ (f[w] = status.reset[w] /\ l[w] = 0)

(* The hold is the one the status earned when it was applied. *)
Earned(status, at, until, time) ==
  /\ at \in Nat /\ at <= time
  /\ ResetDeadline(status, at) # 0
  /\ until = Min({ResetDeadline(status, at), at + MaxQuotaCool})

StatusInv ==
  /\ StatusTypes
  /\ answer # Absent => Truthful(DecodeAccountStatus(answer[1]), clock, left, refill)
  /\ basis # Absent => /\ Truthful(basis[1].status, clock, left, refill)
                       /\ Earned(basis[1].status, basis[1].at, cooling, clock)

-----------------------------------------------------------------------------
(* Reading a response. *)

LEMMA Numbers ==
  /\ Windows = {"daily", "weekly"}
  /\ Percent["daily"] = 14 /\ Percent["weekly"] = 15
  /\ Reset["daily"] = 17 /\ Reset["weekly"] = 18
  /\ Unnamed = 8
BY DEF Windows, Percent, Reset, Unnamed

LEMMA NumbersApart ==
  /\ \A w, x \in Windows : Percent[w] = Percent[x] => w = x
  /\ \A w, x \in Windows : Reset[w] = Reset[x] => w = x
  /\ \A w, x \in Windows : Percent[w] # Reset[x]
  /\ \A w \in Windows : Percent[w] # Unnamed /\ Reset[w] # Unnamed
BY Numbers

(* The plan block that tells of the given windows. *)
PlanOf(percents, resets, counter, l, f) ==
  {[number |-> Percent[w], value |-> l[w]] : w \in percents}
    \cup {[number |-> Reset[w], value |-> f[w]] : w \in resets}
    \cup {[number |-> Unnamed, value |-> counter]}

Tells(plan, percents, resets, l, f) ==
  \A w \in Windows :
    /\ (\E g \in plan : g.number = Percent[w]) <=> w \in percents
    /\ \A g \in plan : g.number = Percent[w] => g.value = l[w]
    /\ (\E g \in plan : g.number = Reset[w]) <=> w \in resets
    /\ \A g \in plan : g.number = Reset[w] => g.value = f[w]

LEMMA PlanTells ==
  ASSUME NEW percents \in SUBSET Windows, NEW resets \in SUBSET Windows, NEW counter, NEW l, NEW f
  PROVE  Tells(PlanOf(percents, resets, counter, l, f), percents, resets, l, f)
<1>0. PICK plan : plan = PlanOf(percents, resets, counter, l, f)
  OBVIOUS
<1> SUFFICES ASSUME NEW w \in Windows
             PROVE  /\ (\E g \in plan : g.number = Percent[w]) <=> w \in percents
                    /\ \A g \in plan : g.number = Percent[w] => g.value = l[w]
                    /\ (\E g \in plan : g.number = Reset[w]) <=> w \in resets
                    /\ \A g \in plan : g.number = Reset[w] => g.value = f[w]
  BY <1>0 DEF Tells
<1>1. \A g \in plan :
        \/ \E x \in percents : g.number = Percent[x] /\ g.value = l[x]
        \/ \E x \in resets : g.number = Reset[x] /\ g.value = f[x]
        \/ g.number = Unnamed
  BY <1>0 DEF PlanOf
<1>2. \A g \in plan : g.number = Percent[w] => w \in percents /\ g.value = l[w]
  BY <1>1, NumbersApart
<1>3. \A g \in plan : g.number = Reset[w] => w \in resets /\ g.value = f[w]
  BY <1>1, NumbersApart
<1>4. w \in percents => \E g \in plan : g.number = Percent[w]
  <2>1. PICK g : g = [number |-> Percent[w], value |-> l[w]]
    OBVIOUS
  <2>2. w \in percents => g \in {[number |-> Percent[x], value |-> l[x]] : x \in percents}
    BY <2>1
  <2>3. w \in percents => g \in plan
    BY <1>0, <2>2 DEF PlanOf
  <2>4. g.number = Percent[w]
    BY <2>1
  <2> QED
    BY <2>3, <2>4
<1>5. w \in resets => \E g \in plan : g.number = Reset[w]
  <2>1. PICK g : g = [number |-> Reset[w], value |-> f[w]]
    OBVIOUS
  <2>2. w \in resets => g \in {[number |-> Reset[x], value |-> f[x]] : x \in resets}
    BY <2>1
  <2>3. w \in resets => g \in plan
    BY <1>0, <2>2 DEF PlanOf
  <2>4. g.number = Reset[w]
    BY <2>1
  <2> QED
    BY <2>3, <2>4
<1> QED
  BY <1>2, <1>3, <1>4, <1>5

(* A status about which nothing was told yet. *)
Blank(status) ==
  status.percent = [w \in Windows |-> Absent] /\ status.reset = [w \in Windows |-> 0]

LEMMA FieldsTell ==
  ASSUME NEW percents \in SUBSET Windows, NEW resets \in SUBSET Windows, NEW counter,
         NEW l, NEW f, NEW response, response.plan = PlanOf(percents, resets, counter, l, f),
         NEW status, Blank(status)
  PROVE  /\ Fields(response, status).percent =
              [w \in Windows |-> IF w \in percents THEN <<l[w]>> ELSE Absent]
         /\ Fields(response, status).reset =
              [w \in Windows |-> IF w \in resets THEN f[w] ELSE 0]
<1>0. PICK plan : plan = response.plan /\ plan = PlanOf(percents, resets, counter, l, f)
  OBVIOUS
<1> DEFINE sent(n) == \E g \in plan : g.number = n
           value(n) == (CHOOSE g \in plan : g.number = n).value
<1>4. Tells(plan, percents, resets, l, f)
  BY <1>0, PlanTells
<1>1. \A w \in Windows : /\ sent(Percent[w]) <=> w \in percents
                         /\ w \in percents => value(Percent[w]) = l[w]
  <2> SUFFICES ASSUME NEW w \in Windows
               PROVE  /\ sent(Percent[w]) <=> w \in percents
                      /\ w \in percents => value(Percent[w]) = l[w]
    OBVIOUS
  <2>1. sent(Percent[w]) <=> w \in percents
    BY <1>4 DEF Tells
  <2>2. \A g \in plan : g.number = Percent[w] => g.value = l[w]
    BY <1>4 DEF Tells
  <2>3. sent(Percent[w]) => value(Percent[w]) = l[w]
    BY <2>2
  <2> QED
    BY <2>1, <2>3
<1>2. \A w \in Windows : /\ sent(Reset[w]) <=> w \in resets
                         /\ w \in resets => value(Reset[w]) = f[w]
  <2> SUFFICES ASSUME NEW w \in Windows
               PROVE  /\ sent(Reset[w]) <=> w \in resets
                      /\ w \in resets => value(Reset[w]) = f[w]
    OBVIOUS
  <2>1. sent(Reset[w]) <=> w \in resets
    BY <1>4 DEF Tells
  <2>2. \A g \in plan : g.number = Reset[w] => g.value = f[w]
    BY <1>4 DEF Tells
  <2>3. sent(Reset[w]) => value(Reset[w]) = f[w]
    BY <2>2
  <2> QED
    BY <2>1, <2>3
<1>3. /\ Fields(response, status).percent =
           [w \in Windows |-> IF sent(Percent[w]) THEN <<value(Percent[w])>> ELSE status.percent[w]]
      /\ Fields(response, status).reset =
           [w \in Windows |-> IF sent(Reset[w]) THEN value(Reset[w]) ELSE status.reset[w]]
  BY <1>0 DEF Fields
<1> HIDE DEF sent, value
<1> QED
  BY <1>1, <1>2, <1>3 DEF Blank

(* What an answer says of the account it is about. *)
LEMMA ToldAsItIs ==
  ASSUME NEW percents \in SUBSET Windows, NEW resets \in SUBSET Windows,
         NEW l \in [Windows -> Nat], NEW f \in [Windows -> Nat], NEW time, NEW status,
         status.percent = [w \in Windows |-> IF w \in percents THEN <<l[w]>> ELSE Absent],
         status.reset = [w \in Windows |-> IF w \in resets THEN f[w] ELSE 0]
  PROVE  Truthful(status, time, l, f)
<1>1. status.reset \in [Windows -> Nat]
  OBVIOUS
<1>2. ASSUME NEW w \in ToldEmpty(status), status.reset[w] # 0
      PROVE  f[w] = status.reset[w] /\ l[w] = 0
  <2>1. w \in Windows /\ status.percent[w] # Absent /\ status.percent[w][1] = 0
    BY DEF ToldEmpty, Named
  <2>2. status.percent[w] = <<l[w]>>
    BY <2>1
  <2>3. l[w] = 0
    BY <2>1, <2>2
  <2> QED
    BY <1>2, <2>1, <2>3
<1> QED
  BY <1>1, <1>2 DEF Truthful

LEMMA DecodeTells ==
  ASSUME NEW percents \in SUBSET Windows, NEW resets \in SUBSET Windows, NEW counter,
         NEW l \in [Windows -> Nat], NEW f \in [Windows -> Nat], NEW time,
         NEW wrapped \in BOOLEAN, NEW told, told = UserStatus(PlanOf(percents, resets, counter, l, f))
  PROVE  Truthful(DecodeAccountStatus(IF wrapped THEN Wrapped(told) ELSE told), time, l, f)
<1>1. Blank(NoStatus)
  BY DEF Blank, NoStatus
<1>2. told.plan = PlanOf(percents, resets, counter, l, f) /\ told.known
  BY DEF UserStatus
<1>3. CASE ~wrapped
  <2>1. PICK status : status = Fields(told, NoStatus)
    OBVIOUS
  <2>2. DecodeAccountStatus(told) = status
    BY <1>2, <2>1 DEF DecodeAccountStatus
  <2>3. /\ status.percent = [w \in Windows |-> IF w \in percents THEN <<l[w]>> ELSE Absent]
        /\ status.reset = [w \in Windows |-> IF w \in resets THEN f[w] ELSE 0]
    BY <1>1, <1>2, <2>1, FieldsTell
  <2>4. Truthful(status, time, l, f)
    BY <2>3, ToldAsItIs, ZenonT(40)
  <2> QED
    BY <1>3, <2>2, <2>4, Zenon
<1>4. CASE wrapped
  <2>1. PICK wrapper : wrapper = Wrapped(told)
    OBVIOUS
  <2>2. ~wrapper.known /\ wrapper.plan = {} /\ wrapper.inner = <<told>> /\ wrapper.inner # Absent
    BY <2>1 DEF Wrapped, Absent
  <2>3. PICK outer : outer = Fields(wrapper, NoStatus)
    OBVIOUS
  <2>4. Blank(outer)
    BY <1>1, <2>2, <2>3 DEF Blank, Fields
  <2>5. DecodeAccountStatus(wrapper) = Fields(told, outer)
    BY <2>2, <2>3 DEF DecodeAccountStatus
  <2>6. PICK status : status = Fields(told, outer)
    OBVIOUS
  <2>7. /\ status.percent = [w \in Windows |-> IF w \in percents THEN <<l[w]>> ELSE Absent]
        /\ status.reset = [w \in Windows |-> IF w \in resets THEN f[w] ELSE 0]
    BY <1>2, <2>4, <2>6, FieldsTell
  <2>8. Truthful(status, time, l, f)
    BY <2>7, ToldAsItIs, ZenonT(40)
  <2>9. (IF wrapped THEN Wrapped(told) ELSE told) = wrapper
    BY <1>4, <2>1
  <2>10. DecodeAccountStatus(wrapper) = status
    BY <2>5, <2>6, Zenon
  <2> QED
    BY <2>8, <2>9, <2>10, Zenon
<1> QED
  BY <1>3, <1>4

-----------------------------------------------------------------------------
(* Deadlines.                                                              *)

LEMMA SoonestIsNext ==
  ASSUME NEW T \in SUBSET Nat, NEW at \in Nat
  PROVE  /\ Soonest(T, at) \in Nat
         /\ Soonest(T, at) # 0 =>
              /\ Soonest(T, at) \in T /\ Soonest(T, at) > at
              /\ \A n \in T : n > at => Soonest(T, at) <= n
         /\ (\E n \in T : n > at) => Soonest(T, at) # 0
<1> DEFINE later == {t \in T : t > at}
<1>1. CASE later = {}
  BY <1>1 DEF Soonest
<1>2. CASE later # {}
  <2>1. PICK n : n = Min(later)
    OBVIOUS
  <2>2. n \in later /\ \A m \in later : n <= m
    BY <1>2, <2>1, MinIsLeast
  <2>3. Soonest(T, at) = n
    BY <1>2, <2>1 DEF Soonest
  <2> QED
    BY <2>2, <2>3
<1> QED
  BY <1>1, <1>2

(* The hold of a status that told an empty window with a refill ahead ends *)
(* at the first of those refills; a status that named its windows earned   *)
(* one only if a window is empty.                                          *)
LEMMA DeadlineIsRefill ==
  ASSUME NEW status, status.reset \in [Windows -> Nat], NEW at \in Nat,
         ResetDeadline(status, at) # 0
  PROVE  /\ Named(status) # {} => ToldEmpty(status) # {}
         /\ ResetDeadline(status, at) \in Nat
         /\ (\E w \in ToldEmpty(status) : status.reset[w] > at) =>
              /\ \E w \in ToldEmpty(status) :
                   status.reset[w] > at /\ ResetDeadline(status, at) = status.reset[w]
              /\ \A w \in ToldEmpty(status) :
                   status.reset[w] > at => ResetDeadline(status, at) <= status.reset[w]
<1> DEFINE every == {status.reset[w] : w \in Windows}
           guessed == Named(status) = {} /\ 0 \in status.counters
           told == {status.reset[w] : w \in ToldEmpty(status)}
           failed == IF guessed THEN every ELSE told
<1>1. ToldEmpty(status) \subseteq Named(status) /\ Named(status) \subseteq Windows
  BY DEF ToldEmpty, Named
<1>2. every \in SUBSET Nat /\ told \in SUBSET Nat /\ failed \in SUBSET Nat
  BY <1>1
<1>3. ResetDeadline(status, at) =
        IF ToldEmpty(status) = {} /\ ~guessed THEN 0
        ELSE IF Soonest(failed, at) # 0 THEN Soonest(failed, at) ELSE Soonest(every, at)
  BY DEF ResetDeadline
<1>4. Named(status) # {} => ToldEmpty(status) # {}
  BY <1>3
<1>5. ResetDeadline(status, at) \in Nat
  BY <1>2, <1>3, SoonestIsNext
<1>6. ASSUME NEW x \in ToldEmpty(status), status.reset[x] > at
      PROVE  /\ \E w \in ToldEmpty(status) :
                  status.reset[w] > at /\ ResetDeadline(status, at) = status.reset[w]
             /\ \A w \in ToldEmpty(status) :
                  status.reset[w] > at => ResetDeadline(status, at) <= status.reset[w]
  <2>1. failed = told /\ ToldEmpty(status) # {}
    BY <1>1, <1>6
  <2>2. PICK d : d = Soonest(told, at)
    OBVIOUS
  <2>3. status.reset[x] \in told
    OBVIOUS
  <2> HIDE DEF every, guessed, told, failed
  <2>4. /\ d # 0 /\ d \in told /\ d > at
        /\ \A n \in told : n > at => d <= n
    BY <1>2, <1>6, <2>2, <2>3, SoonestIsNext
  <2>5. ResetDeadline(status, at) = d
    BY <1>3, <2>1, <2>2, <2>4
  <2> USE DEF told
  <2> QED
    BY <2>4, <2>5
<1> QED
  BY <1>4, <1>5, <1>6

-----------------------------------------------------------------------------
(* The account.                                                            *)

LEMMA InitStatus == StatusInit => StatusInv
<1> SUFFICES ASSUME StatusInit  PROVE StatusInv
  OBVIOUS
<1>1. left \in [Windows -> Nat]
  <2>1. PICK most : left \in [Windows -> 0..most]
    BY DEF StatusInit
  <2>2. 0..most \subseteq Nat
    OBVIOUS
  <2> QED
    BY <2>1, <2>2
<1>2. refill \in [Windows -> Nat] /\ \A w \in Windows : clock < refill[w]
  BY StatusParameters DEF StatusInit
<1> QED
  BY <1>1, <1>2 DEF StatusInit, StatusInv, StatusTypes

LEMMA PassesInv == StatusInv /\ Passes => StatusInv'
<1> SUFFICES ASSUME StatusInv, Passes  PROVE StatusInv'
  OBVIOUS
<1>0. /\ clock \in Nat /\ clock' = clock + 1 /\ clock' \in Nat
      /\ left \in [Windows -> Nat] /\ refill \in [Windows -> Nat]
      /\ left' = [w \in Windows |-> IF refill[w] = clock' THEN Full[w] ELSE left[w]]
      /\ refill' = [w \in Windows |-> IF refill[w] = clock' THEN refill[w] + Period[w] ELSE refill[w]]
      /\ \A w \in Windows : clock < refill[w]
      /\ cooling' = cooling /\ answer' = answer /\ basis' = basis
  BY DEF StatusInv, StatusTypes, Passes
<1>1. StatusTypes'
  BY <1>0, StatusParameters DEF StatusTypes, StatusInv
<1>2. ASSUME NEW status, Truthful(status, clock, left, refill)
      PROVE  Truthful(status, clock', left', refill')
  <2> SUFFICES ASSUME NEW w \in ToldEmpty(status), status.reset[w] # 0
               PROVE  clock' >= status.reset[w] \/ (refill'[w] = status.reset[w] /\ left'[w] = 0)
    BY <1>2 DEF Truthful
  <2>1. w \in Windows
    BY DEF ToldEmpty, Named
  <2>2. status.reset[w] \in Nat
    BY <1>2, <2>1 DEF Truthful
  <2>3. clock >= status.reset[w] \/ (refill[w] = status.reset[w] /\ left[w] = 0)
    BY <1>2 DEF Truthful
  <2> QED
    BY <1>0, <2>1, <2>2, <2>3
<1>3. answer' # Absent => Truthful(DecodeAccountStatus(answer'[1]), clock', left', refill')
  BY <1>0, <1>2 DEF StatusInv
<1>4. basis' # Absent => /\ Truthful(basis'[1].status, clock', left', refill')
                         /\ Earned(basis'[1].status, basis'[1].at, cooling', clock')
  BY <1>0, <1>2 DEF StatusInv, Earned
<1> QED
  BY <1>1, <1>3, <1>4 DEF StatusInv

LEMMA ServesInv == StatusInv /\ Serves => StatusInv'
<1> SUFFICES ASSUME StatusInv, Serves  PROVE StatusInv'
  OBVIOUS
<1>0. /\ left \in [Windows -> Nat]
      /\ left' = [w \in Windows |-> left[w] - 1]
      /\ \A w \in Windows : left[w] > 0
      /\ clock' = clock /\ refill' = refill /\ cooling' = cooling /\ answer' = answer /\ basis' = basis
  BY DEF StatusInv, StatusTypes, Serves, Works
<1>1. StatusTypes'
  BY <1>0 DEF StatusTypes, StatusInv
<1>2. ASSUME NEW status, Truthful(status, clock, left, refill)
      PROVE  Truthful(status, clock', left', refill')
  <2>1. \A w \in ToldEmpty(status) : w \in Windows
    BY DEF ToldEmpty, Named
  <2> QED
    BY <1>0, <1>2, <2>1 DEF Truthful
<1>3. answer' # Absent => Truthful(DecodeAccountStatus(answer'[1]), clock', left', refill')
  BY <1>0, <1>2 DEF StatusInv
<1>4. basis' # Absent => /\ Truthful(basis'[1].status, clock', left', refill')
                         /\ Earned(basis'[1].status, basis'[1].at, cooling', clock')
  BY <1>0, <1>2 DEF StatusInv
<1> QED
  BY <1>1, <1>3, <1>4 DEF StatusInv

LEMMA RefusedInv == StatusInv /\ AccountRefused => StatusInv'
<1> SUFFICES ASSUME StatusInv, AccountRefused  PROVE StatusInv'
  OBVIOUS
<1>0. /\ left \in [Windows -> Nat] /\ refill \in [Windows -> Nat]
      /\ clock' = clock /\ refill' = refill /\ left' = left /\ basis' = Absent
  BY DEF StatusInv, StatusTypes, AccountRefused
<1>1. StatusTypes'
  BY StatusParameters DEF StatusTypes, StatusInv, AccountRefused
<1>2. PICK percents \in SUBSET Windows, resets \in SUBSET Windows, counter \in {0, 1}, wrapped \in BOOLEAN :
        answer' = <<IF wrapped THEN Wrapped(UserStatus(PlanOf(percents, resets, counter, left, refill)))
                    ELSE UserStatus(PlanOf(percents, resets, counter, left, refill))>>
  BY DEF AccountRefused, Response, PlanOf
<1>3. PICK told : told = UserStatus(PlanOf(percents, resets, counter, left, refill))
  OBVIOUS
<1>4. Truthful(DecodeAccountStatus(IF wrapped THEN Wrapped(told) ELSE told), clock, left, refill)
  BY <1>0, <1>3, DecodeTells
<1>5. PICK response : response = IF wrapped THEN Wrapped(told) ELSE told
  OBVIOUS
<1>6. answer' = <<response>>
  BY <1>2, <1>3, <1>5
<1>7. answer'[1] = response
  BY <1>6
<1>8. Truthful(DecodeAccountStatus(answer'[1]), clock', left', refill')
  BY <1>0, <1>4, <1>5, <1>7
<1> QED
  BY <1>0, <1>1, <1>8 DEF StatusInv

LEMMA ApplyInv == StatusInv /\ Apply => StatusInv'
<1> SUFFICES ASSUME StatusInv, Apply  PROVE StatusInv'
  OBVIOUS
<1>0. /\ clock \in Nat /\ cooling \in Int
      /\ clock' = clock /\ refill' = refill /\ left' = left /\ answer' = Absent
  BY DEF StatusInv, StatusTypes, Apply
<1> DEFINE status == DecodeAccountStatus(answer[1])
           due == ResetDeadline(status, clock)
           until == Min({due, clock + MaxQuotaCool})
<1>1. Truthful(status, clock, left, refill)
  BY DEF StatusInv, Apply
<1>2. due # 0 => until \in Nat
  <2>1. due # 0 => due \in Nat
    BY <1>0, <1>1, DeadlineIsRefill DEF Truthful
  <2>2. ASSUME NEW d \in Nat  PROVE Min({d, clock + MaxQuotaCool}) \in Nat
    <3>1. {d, clock + MaxQuotaCool} \in SUBSET Nat
      BY <1>0, StatusParameters
    <3> QED
      BY <3>1, MinIsLeast
  <2> QED
    BY <2>1, <2>2
<1>3. \/ due # 0 /\ cooling' = until /\ basis' = <<[status |-> status, at |-> clock]>>
      \/ cooling' = cooling /\ basis' = basis
  BY DEF Apply
<1>4. CASE due # 0 /\ cooling' = until /\ basis' = <<[status |-> status, at |-> clock]>>
  <2>1. PICK told : told = status
    OBVIOUS
  <2>2. basis'[1].status = told /\ basis'[1].at = clock
    BY <1>4, <2>1
  <2>3. Earned(told, clock, cooling', clock)
    BY <1>0, <1>4, <2>1 DEF Earned
  <2>4. StatusTypes'
    BY <1>0, <1>2, <1>4 DEF StatusTypes, StatusInv
  <2> QED
    BY <1>0, <1>1, <2>1, <2>2, <2>3, <2>4 DEF StatusInv
<1>5. CASE cooling' = cooling /\ basis' = basis
  BY <1>0, <1>5 DEF StatusInv, StatusTypes
<1> QED
  BY <1>3, <1>4, <1>5

LEMMA StatusStep == StatusInv /\ [StatusNext]_statusVars => StatusInv'
<1> SUFFICES ASSUME StatusInv, [StatusNext]_statusVars  PROVE StatusInv'
  OBVIOUS
<1>1. CASE UNCHANGED statusVars
  BY <1>1 DEF statusVars, StatusInv, StatusTypes
<1> QED
  BY <1>1, PassesInv, ServesInv, RefusedInv, ApplyInv DEF StatusNext

LEMMA StatusInvHolds == StatusSpec => []StatusInv
BY InitStatus, StatusStep, PTL DEF StatusSpec

LEMMA StatusIsWorthIt == StatusInv => HoldsAreWorthIt
<1> SUFFICES ASSUME StatusInv, basis # Absent
             PROVE  LET status == basis[1].status
                        ahead  == {w \in ToldEmpty(status) : status.reset[w] > basis[1].at}
                    IN  /\ Named(status) # {} => ToldEmpty(status) # {}
                        /\ ahead # {} /\ clock < cooling => \A w \in ahead : left[w] = 0
                        /\ ahead # {} /\ clock >= cooling /\ cooling < basis[1].at + MaxQuotaCool =>
                             \E w \in ahead : clock >= status.reset[w]
  BY DEF HoldsAreWorthIt
<1>1. PICK told, at : told = basis[1].status /\ at = basis[1].at
  OBVIOUS
<1>2. PICK due : due = ResetDeadline(told, at)
  OBVIOUS
<1>3. /\ Truthful(told, clock, left, refill)
      /\ at \in Nat /\ due # 0 /\ cooling = Min({due, at + MaxQuotaCool})
      /\ clock \in Nat
  BY <1>1, <1>2 DEF StatusInv, Earned, StatusTypes
<1>4. told.reset \in [Windows -> Nat]
  BY <1>3 DEF Truthful
<1>5. /\ Named(told) # {} => ToldEmpty(told) # {}
      /\ due \in Nat
      /\ (\E w \in ToldEmpty(told) : told.reset[w] > at) =>
           /\ \E w \in ToldEmpty(told) : told.reset[w] > at /\ due = told.reset[w]
           /\ \A w \in ToldEmpty(told) : told.reset[w] > at => due <= told.reset[w]
  BY <1>2, <1>3, <1>4, DeadlineIsRefill
<1>6. /\ cooling \in {due, at + MaxQuotaCool} /\ cooling \in Nat
      /\ cooling <= due
  BY <1>3, <1>5, MinIsLeast, StatusParameters
<1>7. \A w \in ToldEmpty(told) : w \in Windows /\ told.reset[w] \in Nat
  BY <1>4 DEF ToldEmpty, Named
<1>8. ASSUME NEW w \in ToldEmpty(told), told.reset[w] > at, clock < cooling
      PROVE  left[w] = 0
  <2>1. clock < told.reset[w] /\ told.reset[w] # 0
    BY <1>3, <1>5, <1>6, <1>7, <1>8
  <2> QED
    BY <1>3, <1>7, <1>8, <2>1 DEF Truthful
<1>9. ASSUME NEW w \in ToldEmpty(told), told.reset[w] > at,
             clock >= cooling, cooling < at + MaxQuotaCool
      PROVE  \E x \in ToldEmpty(told) : told.reset[x] > at /\ clock >= told.reset[x]
  BY <1>3, <1>5, <1>6, <1>7, <1>9, StatusParameters
<1> QED
  BY <1>1, <1>5, <1>8, <1>9

(* A hold on the word of a status pays off: an account that told what is   *)
(* left of its windows is held only if one of them is empty, none of the   *)
(* empty ones it waits for comes back before the hold ends, and it is      *)
(* asked again only when one of them has, or after the longest hold.       *)
THEOREM HoldsPayOff == StatusSpec => []HoldsAreWorthIt
BY StatusInvHolds, StatusIsWorthIt, PTL
=============================================================================

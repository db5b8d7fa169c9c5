----------------------------- MODULE LoginFlows -----------------------------
(***************************************************************************)
(* The sign-ins by which accounts are added, between the page that starts  *)
(* one and the page that brings back its code (internal/dashboard/         *)
(* oauth.go).  A started sign-in waits under a fresh random state; to      *)
(* finish it is to take it out and to exchange the code, in two steps.  A  *)
(* page that has lost its state may finish the only sign-in that waits,    *)
(* and that one is looked up before it is taken.                           *)
(***************************************************************************)
EXTENDS Integers, FiniteSets, Functions

CONSTANTS
  States,         \* bound: the states that sign-ins are started under
  Finishers,      \* the requests that can be finishing one
  MaxLoginFlows,
  LoginFlowTTL,
  MaxClock,       \* bound: the clock
  MaxBoots        \* bound: restarts

ASSUME FlowsAssumption == MaxLoginFlows \in Nat /\ LoginFlowTTL \in Nat

VARIABLES
  clock,
  flows,      \* from the states that wait to when each was started
  finish,     \* by finisher: what it is doing
  begun,      \* the states that were drawn
  exchanged,  \* how often the code of each was sent to the backend
  boots       \* how often the process has restarted

flowVars == <<clock, flows, finish, begun, exchanged, boots>>

NotFinishing == [at |-> "idle"]

(* What is left of the sign-ins after those that waited too long are gone. *)
Pruned == Restrict(flows, {s \in DOMAIN flows : clock - flows[s] <= LoginFlowTTL})

With(pending, s, t) == [r \in DOMAIN pending \cup {s} |-> IF r = s THEN t ELSE pending[r]]
Without(pending, s) == Restrict(pending, DOMAIN pending \ {s})

(* A slip: a newcomer takes the place of another sign-in. *)
StartEvicting(s) ==
  /\ s \notin begun
  /\ begun' = begun \cup {s}
  /\ IF Cardinality(DOMAIN Pruned) >= MaxLoginFlows
     THEN \E r \in DOMAIN Pruned : flows' = With(Without(Pruned, r), s, clock)
     ELSE flows' = With(Pruned, s, clock)
  /\ UNCHANGED <<clock, finish, exchanged, boots>>

(* Starting a sign-in, which is refused when too many are waiting. *)
Start(s) ==
  /\ s \notin begun
  /\ begun' = begun \cup {s}
  /\ flows' = IF Cardinality(DOMAIN Pruned) >= MaxLoginFlows THEN Pruned ELSE With(Pruned, s, clock)
  /\ UNCHANGED <<clock, finish, exchanged, boots>>

(* A code comes back with its state, ...                                   *)
Named(f) ==
  /\ finish[f] = NotFinishing
  /\ \E s \in begun : finish' = [finish EXCEPT ![f] = [at |-> "named", state |-> s]]
  /\ UNCHANGED <<clock, flows, begun, exchanged, boots>>

(* ... or without: it can only be for the one that waits, if one does.     *)
OnlyPending(f) ==
  /\ finish[f] = NotFinishing
  /\ flows' = Pruned
  /\ finish' = IF Cardinality(DOMAIN Pruned) = 1
               THEN [finish EXCEPT ![f] = [at |-> "named", state |-> CHOOSE s \in DOMAIN Pruned : TRUE]]
               ELSE finish
  /\ UNCHANGED <<clock, begun, exchanged, boots>>

(* A slip: the sign-in is looked up and left waiting. *)
TakeKept(f) ==
  /\ finish[f].at = "named"
  /\ flows' = Pruned
  /\ finish' = [finish EXCEPT ![f] = IF @.state \in DOMAIN Pruned
                                     THEN [at |-> "exchanging", state |-> @.state] ELSE NotFinishing]
  /\ UNCHANGED <<clock, begun, exchanged, boots>>

(* The sign-in is taken out, or it is gone and the request is refused. *)
Take(f) ==
  /\ finish[f].at = "named"
  /\ flows' = Without(Pruned, finish[f].state)
  /\ finish' = [finish EXCEPT ![f] = IF @.state \in DOMAIN Pruned
                                     THEN [at |-> "exchanging", state |-> @.state] ELSE NotFinishing]
  /\ UNCHANGED <<clock, begun, exchanged, boots>>

(* The code is sent, whatever comes of it. *)
Exchange(f) ==
  /\ finish[f].at = "exchanging"
  /\ exchanged' = [exchanged EXCEPT ![finish[f].state] = @ + 1]
  /\ finish' = [finish EXCEPT ![f] = NotFinishing]
  /\ UNCHANGED <<clock, flows, begun, boots>>

(* Nothing of this is in a file. *)
Reboot ==
  /\ boots < MaxBoots
  /\ boots' = boots + 1
  /\ flows' = [s \in {} |-> 0]
  /\ finish' = [f \in Finishers |-> NotFinishing]
  /\ UNCHANGED <<clock, begun, exchanged>>

TimePasses ==
  /\ clock < MaxClock
  /\ clock' = clock + 1
  /\ UNCHANGED <<flows, finish, begun, exchanged, boots>>

FlowsInit ==
  /\ clock = 0 /\ boots = 0
  /\ flows = [s \in {} |-> 0]
  /\ finish = [f \in Finishers |-> NotFinishing]
  /\ begun = {}
  /\ exchanged = [s \in States |-> 0]

FlowsNext ==
  \/ \E s \in States : Start(s)
  \/ \E f \in Finishers : Named(f) \/ OnlyPending(f) \/ Take(f) \/ Exchange(f)
  \/ Reboot \/ TimePasses

FlowsSpec == FlowsInit /\ [][FlowsNext]_flowVars

-----------------------------------------------------------------------------
(* "A code is exchanged at most once" (take), by however many requests,    *)
(* with the state or without it.                                           *)
ExchangedOnce == \A s \in States : exchanged[s] <= 1

(* A sign-in waits until a request takes it to exchange its code, its time *)
(* is up or the process ends; no other sign-in ends it.                    *)
PendingKept ==
  [][\A s \in DOMAIN flows \ DOMAIN flows' :
       \/ boots' # boots
       \/ clock - flows[s] > LoginFlowTTL
       \/ \E f \in Finishers : finish[f] # finish'[f]
                               /\ finish'[f] = [at |-> "exchanging", state |-> s]]_flowVars

(* A sign-in is refused only when as many as may wait are waiting, and     *)
(* none of these has waited too long.                                      *)
RefusedWhenFull ==
  [][\A s \in begun' \ begun :
       s \notin DOMAIN flows' =>
         Cardinality({r \in DOMAIN flows : clock - flows[r] <= LoginFlowTTL}) >= MaxLoginFlows]_flowVars
=============================================================================

----------------------------- MODULE AccountTurns -----------------------------
(* The rotation under removals and additions, with two requests in flight. *)
(* `waiting` is a history variable: for an account that is pooled and warm *)
(* it is the set of accounts served since it was served itself.            *)
EXTENDS AccountPool

VARIABLE waiting

ServedBy(r) == request[r].stage = "idle" /\ request'[r].stage = "serving"
Serves(a)   == \E r \in Requests : ServedBy(r) /\ request'[r].creds = a

Ready(a) == a \in Members /\ ~IsCooling(rot, SlotOf(a), now)

RInit == Init /\ waiting = [a \in Accounts |-> {}]

RNext ==
  /\ Next
  /\ waiting' = [a \in Accounts |->
       IF ~(Ready(a) /\ Ready(a)') \/ Serves(a) THEN {}
       ELSE waiting[a] \cup {b \in Members : Serves(b)}]

RSpec == RInit /\ [][RNext]_<<vars, waiting>>

(* Nobody is served twice while a warm account waits for its turn, also    *)
(* when accounts join and leave between the two turns.                     *)
FairTurns ==
  [][\A a, b \in Members : Serves(b) /\ Ready(a) /\ a # b => b \notin waiting[a]]_<<vars, waiting>>
=============================================================================

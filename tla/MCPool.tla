------------------------------- MODULE MCPool -------------------------------
(* The pool as it serves, and the pool as two requests of the dashboard    *)
(* edit it at once and store its list.  Each has the part of the pool it   *)
(* is about; `part` picks the one that moves in a behaviour.               *)
EXTENDS MCAccountPool, AccountAdmin

CONSTANTS o1, o2

VARIABLE part

MCOperators == {o1, o2}

MCSymmetry == FetcherSymmetry \cup Permutations(MCOperators)

MCInit == Init /\ AdminInit /\ part \in {"serving", "editing"}

MCNext ==
  /\ part' = part
  /\ \/ part = "serving" /\ Next /\ UNCHANGED adminVars
     \/ part = "editing" /\ AdminNext /\ UNCHANGED vars

MCSpec == MCInit /\ [][MCNext]_<<part, vars, adminVars>>
=============================================================================

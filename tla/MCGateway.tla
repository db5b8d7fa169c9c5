----------------------------- MODULE MCGateway ------------------------------
(* Two requests and the pool they walk, of one account that a second may   *)
(* join, with one failure of each class.                                   *)
EXTENDS Gateway

CONSTANTS a1, a2, r1, r2

MCAccounts == {a1, a2}
MCToken    == [a \in MCAccounts |-> a]
MCInitial  == <<a1>>

MCFailures == {[kind |-> "http", status |-> 403], [kind |-> "http", status |-> 500],
               [kind |-> "connect", code |-> "resource_exhausted"],
               [kind |-> "route"]}
=============================================================================

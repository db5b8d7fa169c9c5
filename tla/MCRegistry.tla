----------------------------- MODULE MCRegistry -----------------------------
(* A pool of up to three slots: every object has a token of its own.       *)
EXTENDS MCAccountPool, AccountPoolRefinement, AccountTurns

MCOwnToken == [a \in MCAccounts |-> a]

MCFairSpec == RSpec /\ \A f \in Fetchers : WF_vars(FetcherStep(f))
=============================================================================

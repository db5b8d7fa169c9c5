--------------------------- MODULE MCAccountPool ---------------------------
(* A small pool: three accounts of which the third is a new object for the *)
(* token of the first, so a token can leave the pool and come back.        *)
EXTENDS AccountPool

CONSTANTS a1, a2, a3, f1, f2

MCAccounts == {a1, a2, a3}
MCToken    == [a \in MCAccounts |-> IF a = a3 THEN a1 ELSE a]
MCInitial  == <<a1, a2>>

MCFetchers == {f1, f2}

FetcherSymmetry == Permutations(MCFetchers)
=============================================================================

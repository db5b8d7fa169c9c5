----------------------------- MODULE MCUpstream -----------------------------
(* Two streams and a unary call over two slots, two of them at a time; a   *)
(* list of two routes is replaced by a list of one.                        *)
EXTENDS Upstream

CONSTANTS s1, s2, u1

MCRoutes == <<2, 1>>

(* The bound: how many calls are under way together.                       *)
TwoAtATime == Cardinality({c \in Calls : call[c].stage # "idle"}) <= 2

StreamSymmetry == Permutations({s1, s2})
=============================================================================

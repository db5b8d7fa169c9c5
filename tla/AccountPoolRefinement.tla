----------------------- MODULE AccountPoolRefinement -----------------------
(***************************************************************************)
(* The slot-indexed pool implements the registry: each fact filed under a  *)
(* slot is, at every moment, a fact about the account in that slot.        *)
(***************************************************************************)
EXTENDS AccountPool

CONSTANT NoAccount

(* A per-slot list read as a function of the account; absent is `none`.    *)
ByAccount(list, none) ==
  [a \in Accounts |-> IF SlotOf(a) = NoSlot THEN none ELSE list[SlotOf(a)]]

(* What the registry would say of this pool.                               *)
UpNext     == IF entries = <<>> THEN NoAccount ELSE entries[rot.next]
LastServed == IF lastRotation = NoSlot THEN NoAccount ELSE entries[lastRotation]
CoolsUntil == ByAccount(rot.cooling, 0)
HeldUntil  == ByAccount(quotaCoolUntil, 0)
Asked      == {entries[i] : i \in {j \in SlotSet : busy[j]}}
OnFile     == {identities[i] : i \in DOMAIN identities}

Registry == INSTANCE AccountRegistry WITH
  members <- entries, upNext <- UpNext, served <- LastServed, coolUntil <- CoolsUntil,
  holdUntil <- HeldUntil, asking <- Asked, known <- OnFile

(* Every step of the pool is one the registry allows: adding and removing  *)
(* accounts never moves a cooldown, a quota hold, an in-flight mark, an    *)
(* identity or a place in the rotation from one account to another.        *)
ImplementsRegistry == Registry!Spec
=============================================================================

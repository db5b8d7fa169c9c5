-------------------------- MODULE AccountRegistry --------------------------
(***************************************************************************)
(* What the account pool promises, with no slots and no indexes in it:     *)
(* everything the pool knows about an account is attached to the account.  *)
(* The pool of pool.go keeps the same facts in lists indexed by a slot     *)
(* that changes whenever an account before it is removed; AccountPool is   *)
(* shown to implement this module.                                         *)
(***************************************************************************)
EXTENDS Integers, SequencesExt

CONSTANTS Accounts, NoAccount, CoolRejected, CoolRateLimited, MaxQuotaCool

VARIABLES
  now,
  members,    \* the pooled accounts, in the order they joined
  upNext,     \* whose turn is next, NoAccount when the pool is empty
  served,     \* who was served last, NoAccount if it has left since
  coolUntil,  \* account -> the end of its cooldown
  holdUntil,  \* account -> the end of its quota hold
  asking,     \* accounts a status call is out for
  known       \* accounts whose status is on file

vars == <<now, members, upNext, served, coolUntil, holdUntil, asking, known>>

Pooled   == ToSet(members)
Warm     == {a \in Pooled : coolUntil[a] <= now}
Place(a) == CHOOSE i \in 1..Len(members) : members[i] = a

(* How many turns away an account is, and whose turn follows its own.      *)
Turns(a)     == (Place(a) - Place(upNext)) % Len(members)
Successor(a) == members[(Place(a) % Len(members)) + 1]

(* The first account in turn that is not cooling; when all are cooling,    *)
(* the first in turn of those that recover soonest.                        *)
MayServe(a) ==
  /\ a \in Pooled
  /\ IF Warm # {}
     THEN a \in Warm /\ \A b \in Warm : Turns(a) <= Turns(b)
     ELSE \A b \in Pooled : \/ coolUntil[a] < coolUntil[b]
                            \/ coolUntil[a] = coolUntil[b] /\ Turns(a) <= Turns(b)

Serve(a) ==
  /\ served' = a
  /\ MayServe(a)
  /\ upNext' = Successor(a)
  /\ UNCHANGED <<now, members, coolUntil, holdUntil, asking, known>>

(* Evidence about an account moves nobody along the walk.                  *)
SameWalk == UNCHANGED <<now, members, upNext, served>>

(* A refusal pushes the account's own cooldown out; one that leaves nobody *)
(* usable pulls everyone without a quota hold back to the short period.    *)
Refuse(a, cool) ==
  LET pushed == [coolUntil EXCEPT ![a] = IF now + cool > @ THEN now + cool ELSE @]
      soon   == now + CoolRateLimited
      retracted == [b \in Accounts |->
         IF b \in Pooled /\ holdUntil[b] <= now /\ pushed[b] > soon THEN soon ELSE pushed[b]]
  IN  /\ SameWalk
      /\ a \in Pooled
      /\ coolUntil' = IF /\ cool > CoolRateLimited /\ a \in Warm /\ Pooled # {a}
                         /\ \A b \in Pooled : pushed[b] > now
                      THEN retracted ELSE pushed
      /\ UNCHANGED <<holdUntil, asking, known>>

Hold(a, until) ==
  /\ SameWalk
  /\ a \in Pooled
  /\ coolUntil[a] < until
  /\ coolUntil' = [coolUntil EXCEPT ![a] = until]
  /\ holdUntil' = [holdUntil EXCEPT ![a] = until]
  /\ UNCHANGED <<asking, known>>

Lift(a) ==
  /\ SameWalk
  /\ a \in Pooled
  /\ coolUntil' \in {coolUntil, [coolUntil EXCEPT ![a] = 0]}
  /\ holdUntil' \in {holdUntil, [holdUntil EXCEPT ![a] = 0]}
  /\ UNCHANGED <<asking, known>>

Ask(a) ==
  /\ SameWalk
  /\ a \in Pooled \ asking
  /\ asking' = asking \cup {a}
  /\ UNCHANGED <<coolUntil, holdUntil, known>>

Release(a) ==
  /\ SameWalk
  /\ asking' = asking \ {a}
  /\ UNCHANGED <<coolUntil, holdUntil, known>>

Learn(a) ==
  /\ SameWalk
  /\ a \in Pooled
  /\ known' = known \cup {a}
  /\ UNCHANGED <<coolUntil, holdUntil, asking>>

(* A newcomer takes the last place and disturbs nobody.                    *)
Join(a) ==
  /\ a \notin Pooled
  /\ members' = Append(members, a)
  /\ upNext' = IF members = <<>> THEN a ELSE upNext
  /\ UNCHANGED <<now, served, coolUntil, holdUntil, asking, known>>

(* A leaver takes its own facts with it and nobody else's.                 *)
Leave(a) ==
  /\ a \in Pooled
  /\ members' = RemoveAt(members, Place(a))
  /\ upNext' = IF upNext # a THEN upNext
               ELSE IF Pooled = {a} THEN NoAccount ELSE Successor(a)
  /\ served' = IF served = a THEN NoAccount ELSE served
  /\ coolUntil' = [coolUntil EXCEPT ![a] = 0]
  /\ holdUntil' = [holdUntil EXCEPT ![a] = 0]
  /\ asking' = asking \ {a}
  /\ known' = known \ {a}
  /\ UNCHANGED now

Tick ==
  /\ now' = now + 1
  /\ UNCHANGED <<members, upNext, served, coolUntil, holdUntil, asking, known>>

Init ==
  /\ now = 0
  /\ members \in Seq(Accounts)
  /\ upNext = IF members = <<>> THEN NoAccount ELSE members[1]
  /\ served = NoAccount
  /\ coolUntil = [a \in Accounts |-> 0]
  /\ holdUntil = [a \in Accounts |-> 0]
  /\ asking = {}
  /\ known = {}

Next ==
  \/ Tick
  \/ \E a \in Accounts :
       \/ Release(a)
       \/ Serve(a)
       \/ \E cool \in {CoolRejected, CoolRateLimited} : Refuse(a, cool)
       \/ \E until \in 1..(now + MaxQuotaCool) : Hold(a, until)
       \/ Lift(a)
       \/ Ask(a)
       \/ Learn(a)
       \/ Join(a)
       \/ Leave(a)

Spec == Init /\ [][Next]_vars
=============================================================================

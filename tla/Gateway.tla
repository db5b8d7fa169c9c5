------------------------------ MODULE Gateway -------------------------------
(***************************************************************************)
(* How internal/server/server.go walks one completion request over the     *)
(* accounts of the pool (getChatMessage), and what it reports to the pool  *)
(* once the answer is being relayed (reportQuotaRefusal).                  *)
(*                                                                         *)
(* A request may try as many accounts as the pool held when it began.  It  *)
(* moves on only from an account that was refused, after reporting it; an  *)
(* opened stream commits it to the account.  When the pool is empty the    *)
(* credential stored by the command-line client is used instead, which the *)
(* pool does not hold, so its refusals are reported to nobody.             *)
(*                                                                         *)
(* The pool, its other users and the clock are those of AccountPool, whose *)
(* request[r] is the hold that request r has on an account.                *)
(***************************************************************************)
EXTENDS AccountPool

CONSTANT Failures   \* how an upstream call can fail

ASSUME GatewayAssumption == Failures \subseteq Errors

VARIABLE chat   \* where each request of a client is in its walk

gatewayVars == <<vars, chat>>

Chat(r, record) == chat' = [chat EXCEPT ![r] = record]

(* `began` and `undisturbed` are kept for the properties: when the walk    *)
(* began, and whether no account was added or put back since.              *)
At(r, stage) == [chat[r] EXCEPT !.stage = stage]

InHand(r, pooled) ==
  chat[r].stage = "asking" /\ IF pooled THEN request[r].stage = "serving"
                              ELSE request[r].stage = "idle"

(* The account is let go of without a word to the pool.                    *)
Drop(r) ==
  /\ IdleRequest(r)
  /\ UNCHANGED <<now, slots, fetcher>>

-----------------------------------------------------------------------------
(* The walk. *)

(* One try, or one per account of the pool.                                *)
Limit == IF Len(entries) > 1 THEN Len(entries) ELSE 1

ChatBegins(r) ==
  /\ chat[r].stage = "idle"
  /\ Chat(r, [stage |-> "walking", tries |-> 0, limit |-> Limit,
              began |-> now, undisturbed |-> TRUE])
  /\ UNCHANGED vars

AskNext(r) ==
  /\ chat[r].stage = "walking"
  /\ chat[r].tries < chat[r].limit
  /\ NextCredential(r)
  /\ Chat(r, At(r, "asking"))

AskStored(r) ==
  /\ chat[r].stage = "walking"
  /\ request[r].stage = "idle"
  /\ chat[r].tries < chat[r].limit
  /\ entries = <<>>
  /\ \/ Chat(r, At(r, "asking"))
     \/ Chat(r, At(r, "answered"))      \* no stored credential either: 502
  /\ UNCHANGED vars

(* A request the backend would not take: 400, and no account is asked.     *)
BuildFails(r) ==
  /\ chat[r].stage = "asking"
  /\ Drop(r)
  /\ Chat(r, At(r, "answered"))

(* The client has gone, or the request has run out of time.                *)
GivenUp(r) ==
  /\ chat[r].stage = "asking"
  /\ Drop(r)
  /\ Chat(r, At(r, "answered"))

(* The stream opened and its first frame is not a refusal.                 *)
Committed(r) ==
  /\ chat[r].stage = "asking"
  /\ Chat(r, At(r, "relaying"))
  /\ UNCHANGED vars

(* A slip: a refusal does not count as a try.                              *)
AfterFailureUncounted(r, err) ==
  Chat(r, IF IsAccountRefusal(err) THEN At(r, "walking") ELSE At(r, "answered"))

AfterFailure(r, err) ==
  Chat(r, IF IsAccountRefusal(err)
          THEN [At(r, "walking") EXCEPT !.tries = @ + 1]
          ELSE At(r, "answered"))

(* A slip: an account that is only out of quota is moved on from without a  *)
(* word to the pool.                                                       *)
AccountFailsUnreported(r, err) ==
  /\ InHand(r, TRUE)
  /\ IF IsRateLimit(err) THEN Drop(r) ELSE Report(r, err)
  /\ AfterFailure(r, err)

AccountFails(r, err) ==
  /\ InHand(r, TRUE)
  /\ Report(r, err)
  /\ AfterFailure(r, err)

StoredFails(r, err) ==
  /\ InHand(r, FALSE)
  /\ AfterFailure(r, err)
  /\ UNCHANGED vars

(* The second half of the report of a rate limit.                          *)
FinishReport(r) ==
  /\ RefreshQuota(r)
  /\ UNCHANGED chat

(* Every try was refused: the client gets the last refusal.                *)
WalkEnds(r) ==
  /\ chat[r].stage = "walking"
  /\ request[r].stage = "idle"
  /\ chat[r].tries = chat[r].limit
  /\ Chat(r, At(r, "refused"))
  /\ UNCHANGED vars

-----------------------------------------------------------------------------
(* The relay, as far as the pool sees it. *)

RelayEnds(r) ==
  /\ chat[r].stage = "relaying"
  /\ Drop(r)
  /\ Chat(r, At(r, "answered"))

(* Only the backend's word that no quota is left is filed.                 *)
RelayFails(r, err) ==
  /\ chat[r].stage = "relaying"
  /\ IF IsQuotaRefusal(err) /\ request[r].stage = "serving" THEN Report(r, err) ELSE Drop(r)
  /\ Chat(r, At(r, "answered"))

ClientReads(r) ==
  /\ chat[r].stage \in {"answered", "refused"}
  /\ request[r].stage = "idle"
  /\ Chat(r, [stage |-> "idle"])
  /\ UNCHANGED vars

-----------------------------------------------------------------------------
(* The dashboard's part that puts an account in reach of a walk under way, *)
(* and the rest of the pool.                                               *)

Disturbed ==
  chat' = [r \in Requests |->
    IF chat[r].stage = "idle" THEN chat[r] ELSE [chat[r] EXCEPT !.undisturbed = FALSE]]

AccountComes ==
  /\ \/ \E a \in Accounts : AddAccount(a)
     \/ \E a \in Accounts, at \in RecentPast : ClearCooldown(a, at)
  /\ Disturbed

PoolWorks ==
  /\ \/ Tick
     \/ \E f \in Fetchers : FetcherStep(f)
     \/ \E i \in SlotSet : RemoveIndex(i)
     \/ \E a \in Accounts : RemoveCredential(a)
  /\ UNCHANGED chat

GatewayInit == Init /\ chat = [r \in Requests |-> [stage |-> "idle"]]

ChatStep(r) ==
  \/ ChatBegins(r) \/ AskNext(r) \/ AskStored(r) \/ BuildFails(r) \/ GivenUp(r)
  \/ Committed(r) \/ FinishReport(r) \/ WalkEnds(r) \/ RelayEnds(r) \/ ClientReads(r)
  \/ \E err \in Failures :
       AccountFails(r, err) \/ StoredFails(r, err) \/ RelayFails(r, err)

GatewayNext == PoolWorks \/ AccountComes \/ \E r \in Requests : ChatStep(r)

GatewaySpec == GatewayInit /\ [][GatewayNext]_gatewayVars

(* A request runs under a timeout, and so does each step of its walk.      *)
FairGatewaySpec ==
  /\ GatewaySpec
  /\ \A r \in Requests : WF_gatewayVars(ChatStep(r) /\ ~ChatBegins(r))

-----------------------------------------------------------------------------
(* Properties. *)

(* A refusal reaches a client only when no healthy account remains: at the *)
(* end of the walk every account of the pool is out of rotation, unless one*)
(* was added or put back during the walk or a cooldown of its length could *)
(* have run out.  What getChatMessage says the walk is for, and it has to  *)
(* hold although other requests walk the same rotation.                    *)
RefusalMeansNobodyReady ==
  \A r \in Requests :
    /\ chat[r].stage = "refused"
    /\ chat[r].undisturbed
    /\ now - chat[r].began < CoolRateLimited
    => WarmSlots(rot, now) = {}

(* Every request is answered: a walk does not go round for ever, whatever  *)
(* happens to the accounts under it.                                       *)
ChatsAreAnswered ==
  \A r \in Requests :
    chat[r].stage = "walking" ~> chat[r].stage \in {"idle", "answered", "refused"}
=============================================================================

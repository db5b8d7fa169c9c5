------------------------------ MODULE Refusals ------------------------------
(***************************************************************************)
(* How a failed upstream call is classified.  Four places in the code look *)
(* at the same error value and decide, independently of one another,       *)
(* whether it cools the account (Pool.Report), whether another account is  *)
(* tried (isAccountRefusal), whether a failure in the middle of a stream   *)
(* is filed (reportQuotaRefusal), and whether a credential being added is  *)
(* turned away (IsCredentialRejection).                                    *)
(*                                                                         *)
(* An error is a record: its kind, and the HTTP status or Connect code the *)
(* backend gave.  "context" is a cancel or a timeout wrapped in anything,  *)
(* "route" an EgressError, "transport" any other error without a status.   *)
(***************************************************************************)
EXTENDS Integers

HTTPStatuses == {400, 401, 403, 429, 500}
ConnectCodes == {"unauthenticated", "permission_denied", "resource_exhausted",
                 "invalid_argument", "unavailable"}

HTTPErrors    == [kind : {"http"}, status : HTTPStatuses]
ConnectErrors == [kind : {"connect"}, code : ConnectCodes]
SilentErrors  == [kind : {"context", "route", "transport"}]
Served        == [kind |-> "none"]

Errors == HTTPErrors \cup ConnectErrors \cup SilentErrors

(* The HTTP status a Connect code stands for; 0 is "nothing to learn".     *)
StatusFromConnectCode(code) ==
  CASE code = "unauthenticated"    -> 401
    [] code = "permission_denied"  -> 403
    [] code = "resource_exhausted" -> 429
    [] OTHER                       -> 0

RefusalStatus(err) ==
  CASE err.kind = "http"    -> err.status
    [] err.kind = "connect" -> StatusFromConnectCode(err.code)
    [] OTHER                -> 0

IsRejection(err) == RefusalStatus(err) \in {401, 403}
IsRateLimit(err) == RefusalStatus(err) = 429

(* What moves a request on to the next account.                            *)
IsAccountRefusal(err) ==
  \/ err.kind = "http" /\ err.status \in {401, 403, 429}
  \/ /\ err.kind = "connect"
     /\ err.code \in {"unauthenticated", "permission_denied", "resource_exhausted"}

(* What is filed against the account when it arrives mid-stream.           *)
IsQuotaRefusal(err) ==
  \/ err.kind = "http" /\ err.status = 429
  \/ err.kind = "connect" /\ err.code = "resource_exhausted"
=============================================================================

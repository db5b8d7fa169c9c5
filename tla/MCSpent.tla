------------------------------ MODULE MCSpent ------------------------------
(* How often one call is paid for.  `spent` is a history variable: for each*)
(* stream the attempts that the backend may have begun to generate for: it *)
(* answered with a stream, or it was sent the request and was not heard of *)
(* again.                                                                  *)
EXTENDS Upstream

CONSTANT s1

VARIABLE spent

MCRoutes == <<1>>

Unheard(c) == call[c].stage = "sent" /\ call'[c].stage = "reporting" /\ call'[c].failure = "unanswered"
Opened(c)  == call[c].stage = "sent" /\ call'[c].stage = "open"

SInit == Init /\ spent = [c \in Streams |-> 0]

SNext ==
  /\ Next
  /\ spent' = [c \in Streams |->
       IF call[c].stage = "idle" THEN 0
       ELSE IF Unheard(c) \/ Opened(c) THEN spent[c] + 1 ELSE spent[c]]

SSpec == SInit /\ [][SNext]_<<vars, spent>>

(* A request the backend may already have processed is not sent again, so  *)
(* no call spends an account's quota twice: what client.go says of its     *)
(* retries, though it retries every failed round trip.                     *)
SpentOnce == \A c \in Streams : spent[c] <= 1
=============================================================================

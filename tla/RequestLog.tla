----------------------------- MODULE RequestLog -----------------------------
(***************************************************************************)
(* What the log view learns of a request: internal/server/observe.go       *)
(* around the handlers of server.go, the ring of internal/eventlog, and    *)
(* the page of dashboard.go that polls it.                                 *)
(*                                                                         *)
(* A handler reports its failures in two ways that the observer puts       *)
(* together when it has returned or panicked: it writes them into the      *)
(* trace of its request, and it writes a status and an error body to the   *)
(* client, which the recording writer reads along.  Once a response has    *)
(* been committed a failure can only be told in-band, and a panic only by  *)
(* tearing the connection down.                                            *)
(*                                                                         *)
(* `log` (all that was ever emitted), `told` (how the client learned of    *)
(* the end) and `spoiled` (an account was tried in vain) are kept for the  *)
(* properties.                                                             *)
(***************************************************************************)
EXTENDS Refusals, SequencesExt

CONSTANTS
  Posts,        \* requests to /v1
  NoPost,       \* whom a line of the process itself is of
  Capacity,     \* how many events the ring keeps
  PageSize,     \* how many of them the page may ask for at once
  MaxAttempts,  \* bound: accounts one request tries
  MaxLines      \* bound: lines the process itself logs

ASSUME RequestLogAssumption ==
  /\ NoPost \notin Posts
  /\ Capacity \in Nat \ {0} /\ PageSize \in Nat \ {0}
  /\ MaxAttempts \in Nat \ {0} /\ MaxLines \in Nat

VARIABLES
  post,     \* by request: [at, attempts]
  trace,    \* by request: the error its trace holds, or no words
  written,  \* by request: what the recording writer saw, [status, error, code]
  ring, start, count,   \* the hub's ring, its oldest slot, how many it holds
  log, told, spoiled

logVars == <<post, trace, written, ring, start, count, log, told, spoiled>>

-----------------------------------------------------------------------------
(* What a failure is answered with: [status, code].                        *)

NoWords == ""

Answer(status, code) == [status |-> status, code |-> code]

(* The refusals that need no account: the wrong method, a body that is too *)
(* long or no request, a wrong or missing key, an endpoint there is not.   *)
LocalRefusals ==
  {Answer(405, NoWords), Answer(413, "body_too_large"), Answer(400, NoWords), Answer(401, "invalid_api_key"),
   Answer(503, NoWords), Answer(501, "not_implemented")}

NoCredential  == Answer(502, "no_credential")
BadRequest    == Answer(400, NoWords)
TimedOut      == Answer(504, "timeout")
InternalError == Answer(500, "internal_error")

(* Of a failure that tells nothing of the account, the log has one more to *)
(* tell apart: a plan that does not serve the model.                       *)
Failures == Errors \cup {[kind |-> "connect", code |-> "failed_precondition"]}

ServedAs(status) ==
  CASE status \in {401, 403} -> Answer(502, "credential_rejected")
    [] status = 429          -> Answer(429, "rate_limit_exceeded")
    [] OTHER                 -> Answer(502, "upstream_error")

UpstreamAnswer(err) ==
  CASE err.kind = "http"  -> ServedAs(err.status)
    [] err.kind = "route" -> Answer(502, "egress_unavailable")
    [] err.kind = "connect" /\ err.code = "invalid_argument" -> Answer(400, "invalid_argument")
    [] err.kind = "connect" /\ err.code = "failed_precondition" -> Answer(502, "model_unavailable")
    [] err.kind = "connect" /\ err.code \notin {"invalid_argument", "failed_precondition"} ->
         ServedAs(StatusFromConnectCode(err.code))
    [] OTHER -> Answer(502, "upstream_error")

(* What a failure is described with; one word stands for all that is said  *)
(* of it.                                                                  *)
Words(answer) ==
  CASE answer.code # NoWords    -> answer.code
    [] answer.status = 400 -> "bad_request"
    [] answer.status = 405 -> "method_not_allowed"
    [] OTHER               -> "unavailable"

(* The failures an operator has to act on.                                 *)
Errorish(code) ==
  code \in {"upstream_error", "model_unavailable", "egress_unavailable", "credential_rejected",
            "no_credential", "configuration_error"}

-----------------------------------------------------------------------------
(* What a handler can do to its trace and to its response. *)

NotWritten == [status |-> 0, error |-> NoWords, code |-> NoWords]

At(q, stages)   == post[q].at \in stages
GoesTo(q, at)   == post' = [post EXCEPT ![q].at = at]
Tell(q, how)    == told' = [told EXCEPT ![q] = how]
Quietly(q)      == told' = told

(* The first failure a trace is told of is the one it keeps.               *)
Fail(q, words) == trace' = [trace EXCEPT ![q] = IF @ = NoWords THEN words ELSE @]

(* writeError: the status of a response is set once.                       *)
WriteError(q, answer) ==
  /\ written' = [written EXCEPT ![q] =
       IF @.status # 0 THEN @
       ELSE [status |-> answer.status, error |-> Words(answer), code |-> answer.code]]
  /\ Tell(q, Words(answer))
  /\ GoesTo(q, "returned")

Commit(q, status) == written' = [written EXCEPT ![q].status = IF @ = 0 THEN status ELSE @]

hub == <<ring, start, count, log>>

-----------------------------------------------------------------------------
(* A request through its handler. *)

Receive(q) ==
  /\ At(q, {"none"})
  /\ GoesTo(q, "checking")
  /\ UNCHANGED <<trace, written, told, spoiled, hub>>

Refuse(q) ==
  /\ At(q, {"checking"})
  /\ \E answer \in LocalRefusals : WriteError(q, answer)
  /\ UNCHANGED <<trace, spoiled, hub>>

(* A credential that cannot be found, or a request that cannot be built,   *)
(* ends the walk over the accounts with a word to the client only, unless  *)
(* the client has gone or the request is out of time.                      *)
AskAccount(q) ==
  /\ At(q, {"checking", "walking"})
  /\ post[q].attempts < MaxAttempts
  /\ \/ /\ post' = [post EXCEPT ![q] = [at |-> "asking", attempts |-> @.attempts + 1]]
        /\ UNCHANGED <<trace, written, told>>
     \/ WriteError(q, NoCredential) /\ trace' = trace
     \/ WriteError(q, BadRequest) /\ trace' = trace
     \/ WriteError(q, TimedOut) /\ Fail(q, Words(TimedOut))
     \/ GoesTo(q, "returned") /\ Quietly(q) /\ UNCHANGED <<trace, written>>
  /\ UNCHANGED <<spoiled, hub>>

(* A try that fails is traced.  The next account is asked after a refusal, *)
(* unless the client has gone or the request is out of time.               *)
AttemptFails(q) ==
  /\ At(q, {"asking"})
  /\ spoiled' = spoiled \cup {q}
  /\ \E err \in Failures :
       LET answer == UpstreamAnswer(err)
       IN  /\ Fail(q, Words(answer))
           /\ \/ IsAccountRefusal(err) /\ post[q].attempts < MaxAttempts
                 /\ GoesTo(q, "walking") /\ UNCHANGED <<written, told>>
              \/ WriteError(q, answer)
              \/ WriteError(q, TimedOut)
              \/ GoesTo(q, "returned") /\ Quietly(q) /\ written' = written
  /\ UNCHANGED hub

(* A stream commits its response when it opens, a whole answer at its end. *)
StreamOpens(q) ==
  /\ At(q, {"asking"})
  /\ \/ GoesTo(q, "streaming") /\ Commit(q, 200)
     \/ GoesTo(q, "collecting") /\ written' = written
  /\ UNCHANGED <<trace, told, spoiled, hub>>

AnswerEnds(q) ==
  /\ At(q, {"streaming", "collecting"})
  /\ Commit(q, 200)
  /\ Tell(q, "answer")
  /\ GoesTo(q, "returned")
  /\ UNCHANGED <<trace, spoiled, hub>>

(* A slip: what is told in-band is not traced.                             *)
StreamFailsUntraced(q) ==
  /\ At(q, {"streaming"})
  /\ Tell(q, "in_band")
  /\ GoesTo(q, "returned")
  /\ UNCHANGED <<trace, written, spoiled, hub>>

StreamFails(q) ==
  /\ At(q, {"streaming"})
  /\ Fail(q, "stream_failed")
  /\ Tell(q, "in_band")
  /\ GoesTo(q, "returned")
  /\ UNCHANGED <<written, spoiled, hub>>

CollectFails(q) ==
  /\ At(q, {"collecting"})
  /\ \/ \E err \in Failures : Fail(q, Words(UpstreamAnswer(err))) /\ WriteError(q, UpstreamAnswer(err))
     \/ Fail(q, Words(TimedOut)) /\ WriteError(q, TimedOut)
  /\ UNCHANGED <<spoiled, hub>>

(* A client that hangs up is routine and answered with silence.            *)
HangsUp(q) ==
  /\ At(q, {"streaming", "collecting"})
  /\ Quietly(q)
  /\ GoesTo(q, "returned")
  /\ UNCHANGED <<trace, written, spoiled, hub>>

(* A panic is answered with 500 if nothing was sent yet; otherwise only a  *)
(* torn connection can say that the answer is not complete.                *)
Panics(q) ==
  /\ At(q, {"checking", "asking", "streaming", "collecting"})
  /\ Fail(q, "panic")
  /\ IF written[q].status = 0 THEN WriteError(q, InternalError)
     ELSE Tell(q, "torn") /\ GoesTo(q, "returned") /\ written' = written
  /\ UNCHANGED <<spoiled, hub>>

-----------------------------------------------------------------------------
(* The hub and its page. *)

Slot(i) == (i % Capacity) + 1

Emit(e) ==
  /\ log' = Append(log, e)
  /\ IF count < Capacity
       THEN ring' = [ring EXCEPT ![Slot(start + count)] = e] /\ count' = count + 1 /\ start' = start
       ELSE ring' = [ring EXCEPT ![Slot(start)] = e] /\ start' = (start + 1) % Capacity
            /\ count' = count

(* What the client was told wins over what the trace holds.                *)
EventOf(q) ==
  LET w     == written[q]
      error == IF w.error # NoWords THEN w.error ELSE trace[q]
  IN  [post |-> q, seq |-> Len(log) + 1, status |-> w.status, error |-> error,
       level |-> IF w.status >= 500 \/ Errorish(w.code) THEN "error"
                 ELSE IF w.status >= 400 \/ error # NoWords THEN "warn" ELSE "info"]

EmitRequest(q) ==
  /\ At(q, {"returned"})
  /\ Emit(EventOf(q))
  /\ GoesTo(q, "logged")
  /\ UNCHANGED <<trace, written, told, spoiled>>

(* A line of the standard logger becomes an event, too.                    *)
LogLine ==
  /\ Cardinality({i \in DOMAIN log : log[i].post = NoPost}) < MaxLines
  /\ Emit([post |-> NoPost, seq |-> Len(log) + 1, status |-> 0, error |-> NoWords, level |-> "info"])
  /\ UNCHANGED <<post, trace, written, told, spoiled>>

Recent == [i \in 1..count |-> ring[Slot(start + i - 1)]]

(* handleLogsRecent: the page asks for its own window of the history; what *)
(* is no number, zero or too large counts as the most there is.            *)
Page(asked) ==
  LET limit == IF asked \in 1..PageSize THEN asked ELSE PageSize
  IN  IF count <= limit THEN Reverse(Recent) ELSE Reverse(SubSeq(Recent, count - limit + 1, count))

LogInit ==
  /\ post = [q \in Posts |-> [at |-> "none", attempts |-> 0]]
  /\ trace = [q \in Posts |-> NoWords]
  /\ written = [q \in Posts |-> NotWritten]
  /\ ring = [i \in 1..Capacity |-> [seq |-> 0]] /\ start = 0 /\ count = 0
  /\ log = <<>>
  /\ told = [q \in Posts |-> "nothing"]
  /\ spoiled = {}

LogNext ==
  \/ \E q \in Posts :
       \/ Receive(q) \/ Refuse(q) \/ AskAccount(q) \/ AttemptFails(q) \/ StreamOpens(q)
       \/ AnswerEnds(q) \/ StreamFails(q) \/ CollectFails(q) \/ HangsUp(q) \/ Panics(q)
       \/ EmitRequest(q)
  \/ LogLine

LogSpec == LogInit /\ [][LogNext]_logVars

-----------------------------------------------------------------------------
(* Properties. *)

EventsOf(q) == {i \in DOMAIN log : log[i].post = q}

(* The log tells of every request once, and tells the truth: a request     *)
(* that failed, for its client or behind a response that had begun, is     *)
(* never an information only, and carries the words its client was given;  *)
(* an answer is a warning exactly if an account failed before it; and a    *)
(* client that hangs up is no error, and no warning either as long as no   *)
(* account has failed its request ("lands on info on its own").            *)
RequestsLogged ==
  \A q \in Posts :
    /\ Cardinality(EventsOf(q)) = IF post[q].at = "logged" THEN 1 ELSE 0
    /\ \A i \in EventsOf(q) :
         LET e == log[i]
         IN  CASE told[q] \in {"in_band", "torn"} -> e.level # "info" /\ e.error # NoWords
               [] told[q] = "answer"  -> (e.level = "info" <=> q \notin spoiled)
               [] told[q] = "nothing" -> e.level # "error" /\ (q \notin spoiled => e.level = "info")
               [] OTHER -> /\ e.error = told[q] /\ e.status >= 400
                           /\ e.level = "error" <=> e.status >= 500

(* The page shows the newest events there are, newest first, as many as it *)
(* asked for: none is missing, doubled or out of place once the ring has   *)
(* come round.                                                             *)
LogShowsLatest ==
  \A asked \in 0..(PageSize + 1) :
    LET limit == IF asked \in 1..PageSize THEN asked ELSE PageSize
        page  == Page(asked)
    IN  /\ Len(page) = Min({limit, Capacity, Len(log)})
        /\ \A i \in DOMAIN page : page[i] = log[Len(log) + 1 - i]

(* What an operator reads on the page is the truth about the latest        *)
(* requests.                                                               *)
LogTells == RequestsLogged /\ LogShowsLatest
=============================================================================

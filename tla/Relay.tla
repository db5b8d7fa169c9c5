------------------------------- MODULE Relay --------------------------------
(***************************************************************************)
(* How internal/server/server.go relays one stream of the backend to a     *)
(* client.  Four handlers do it: chat and legacy text completions, each as *)
(* a stream of events or as one whole answer (streamChunks,                *)
(* writeWholeCompletion, streamCompletion, handleCompletions), and each    *)
(* has its own copy of the loop over the frames.                           *)
(*                                                                         *)
(* In a run both handlers of one endpoint read the same frames, each at    *)
(* its own pace, for its own client and under its own deadline, so their   *)
(* answers can be compared.  A frame carries a fragment of text, fragments *)
(* of tool calls, a stop reason or usage counts.  Reasoning text is passed *)
(* through untouched and left out.                                         *)
(***************************************************************************)
EXTENDS StopFilter

CONSTANTS
  Names,      \* the ids and names of tool calls, "" among them
  Frames,     \* the frames the backend can send
  Prompt,     \* what a legacy completion echoes, or <<>>
  MaxFrames   \* bound: the longest stream

Fragments == [id : Names, name : Names, args : Seq(Bytes)]

(* A frame's text is whole characters.                                     *)
ASSUME FrameAssumption ==
  /\ "" \in Names /\ Prompt \in WholeTexts /\ MaxFrames \in Nat
  /\ Frames \subseteq [text : WholeTexts, calls : Seq(Fragments),
                       stop : {"none", "stop", "max_tokens", "function_call", "error"},
                       usage : {"none", "zero", "counts"}]

(* No stop sequence is empty; that is all that is asked of them.           *)
ASSUME StopAssumption == IsFiniteSet(Stops) /\ Stops \subseteq WholeTexts \ {<<>>}

Handlers == {"stream", "whole"}

VARIABLES
  endpoint,  \* "chat" or "legacy"
  sent,      \* the frames the backend has sent
  ending,    \* how its stream ended, or "open"
  ctx,       \* by handler: the request is live, its client is gone, or it is out of time
  relay      \* by handler: what it has read, gathered and written

vars == <<endpoint, sent, ending, ctx, relay>>

-----------------------------------------------------------------------------
(* Tool calls: fragments are appended to the call that was opened last.    *)

Opens(calls, d) == d.id # "" \/ calls = <<>>

(* A slip: a fragment without an id opens a call when the last one has     *)
(* arguments already.                                                      *)
AddCallSplitting(calls, d) ==
  LET n == Len(calls)
  IN  IF Opens(calls, d) \/ calls[n].args # <<>>
      THEN Append(calls, d)
      ELSE [calls EXCEPT ![n].name = IF @ = "" THEN d.name ELSE @,
                         ![n].args = @ \o d.args]

AddCall(calls, d) ==
  LET n == Len(calls)
  IN  IF Opens(calls, d)
      THEN Append(calls, d)
      ELSE [calls EXCEPT ![n].name = IF @ = "" THEN d.name ELSE @,
                         ![n].args = @ \o d.args]

AddCalls(calls, ds) == FoldLeft(AddCall, calls, ds)

(* The id of a call, one made up for it when the backend gave none.        *)
IdOf(d) == IF d.id = "" THEN "made_up" ELSE d.id

(* The events the fragments of a frame are streamed as: a call keeps its   *)
(* index, and only the fragment that opens it carries the id.              *)
CallEvents(calls, ds) ==
  [i \in 1..Len(ds) |->
     LET before == AddCalls(calls, SubSeq(ds, 1, i - 1))
     IN  [kind |-> "call", index |-> Len(AddCall(before, ds[i])),
          id   |-> IF Opens(before, ds[i]) THEN IdOf(ds[i]) ELSE "",
          name |-> ds[i].name, args |-> ds[i].args]]

-----------------------------------------------------------------------------
(* What a handler writes.  A stream is a sequence of events; a whole       *)
(* answer, or its failure, is one.                                         *)

Text(t)      == IF t = <<>> THEN <<>> ELSE <<[kind |-> "text", text |-> t]>>
Finish(why)  == <<[kind |-> "finish", why |-> why]>>
Failure(why) == <<[kind |-> "error", why |-> why]>>
Done         == <<[kind |-> "done"]>>

(* Counts of zero are no counts.                                           *)
UsageOf(counts) == IF counts = "zero" THEN "none" ELSE counts
Usage(counts)   == <<[kind |-> "usage", usage |-> UsageOf(counts)]>>

Echo == IF endpoint = "legacy" THEN Prompt ELSE <<>>

NewRelay(h) ==
  [stage |-> "relaying", read |-> 0, filter |-> NewFilter, finish |-> "", usage |-> "none",
   calls |-> <<>>, text |-> Echo, out |-> IF h = "stream" THEN Text(Echo) ELSE <<>>,
   filed |-> FALSE]

Relaying(h) == relay[h].stage = "relaying"

(* The handler returns, with these last words.                             *)
Over(r, stage, words) == [r EXCEPT !.stage = stage, !.out = @ \o words]

Failed(h, r, why) == Over(r, "failed", IF h = "stream" THEN Failure(why) \o Done ELSE Failure(why))

FinishReason(stop) ==
  CASE stop = "max_tokens"    -> "length"
    [] stop = "function_call" -> "tool_calls"
    [] OTHER                  -> "stop"

(* Delivered tool calls turn a normal stop into "tool_calls", unless a     *)
(* stop sequence cut the answer short.  A legacy completion gathers none.  *)
FinishOf(r) ==
  CASE r.filter.stopped                           -> "stop"
    [] ~r.filter.stopped /\ r.finish \notin {"", "stop"} -> r.finish
    [] OTHER -> IF r.calls = <<>> THEN "stop" ELSE "tool_calls"

(* The end of the stream, or a stop sequence: let out what is held back    *)
(* and name the reason; a stream's client has asked for the usage, too.    *)
Complete(h, r) ==
  LET tail  == Flush(r.filter)
      whole == [kind |-> "answer", text |-> r.text \o tail, why |-> FinishOf(r),
                usage |-> UsageOf(r.usage),
                calls |-> [i \in DOMAIN r.calls |-> [r.calls[i] EXCEPT !.id = IdOf(r.calls[i])]]]
  IN  Over(r, "answered",
           IF h = "stream" THEN Text(tail) \o Finish(FinishOf(r)) \o Usage(r.usage) \o Done
           ELSE <<whole>>)

(* What one frame adds. *)
Gathered(h, r, frame) ==
  LET written == Write(r.filter, frame.text)
      calls   == IF endpoint = "chat" THEN frame.calls ELSE <<>>
  IN  [r EXCEPT
        !.finish = IF frame.stop = "none" THEN @ ELSE FinishReason(frame.stop),
        !.usage  = IF frame.usage = "none" THEN @ ELSE frame.usage,
        !.calls  = AddCalls(@, calls),
        !.filter = written.filter,
        !.text   = @ \o written.out,
        !.out    = IF h = "stream" THEN @ \o CallEvents(r.calls, calls) \o Text(written.out)
                   ELSE @]

(* A slip: the backend's error stop is taken for the end of the answer.    *)
HandleErrorAsStop(h, r, frame) ==
  LET after == Gathered(h, r, frame)
  IN  IF after.filter.stopped \/ frame.stop = "error" THEN Complete(h, after) ELSE after

(* One turn of the loop. *)
Handle(h, r, frame) ==
  LET after == Gathered(h, r, frame)
  IN  CASE frame.stop = "error"                          -> Failed(h, r, "backend")
        [] frame.stop # "error" /\ after.filter.stopped  -> Complete(h, after)
        [] OTHER                                         -> after

-----------------------------------------------------------------------------
(* The backend.  A stream that fails before its first frame is answered    *)
(* before there is anything to relay, see Gateway.                         *)

SendFrame(frame) ==
  /\ ending = "open"
  /\ Len(sent) < MaxFrames
  /\ sent' = Append(sent, frame)
  /\ UNCHANGED <<endpoint, ending, ctx, relay>>

EndStream(how) ==
  /\ ending = "open"
  /\ how = "clean" \/ sent # <<>>
  /\ ending' = how
  /\ UNCHANGED <<endpoint, sent, ctx, relay>>

-----------------------------------------------------------------------------
(* The handlers. *)

ReadFrame(h) ==
  /\ Relaying(h)
  /\ relay[h].read < Len(sent)
  /\ LET n == relay[h].read + 1
     IN  relay' = [relay EXCEPT ![h] = Handle(h, [@ EXCEPT !.read = n], sent[n])]
  /\ UNCHANGED <<endpoint, sent, ending, ctx>>

ReadToEnd(h) ==
  /\ Relaying(h)
  /\ relay[h].read = Len(sent)
  /\ ending = "clean"
  /\ relay' = [relay EXCEPT ![h] = Complete(h, @)]
  /\ UNCHANGED <<endpoint, sent, ending, ctx>>

(* The stream breaks off, or carries the word that the account has no      *)
(* quota left, which is filed with the pool.                               *)
ReadFails(h) ==
  /\ Relaying(h)
  /\ ctx[h] = "live"
  /\ relay[h].read = Len(sent)
  /\ ending \in {"broken", "no_quota"}
  /\ relay' = [relay EXCEPT ![h] = [Failed(h, @, "upstream") EXCEPT !.filed = ending = "no_quota"]]
  /\ UNCHANGED <<endpoint, sent, ending, ctx>>

(* A slip: a read that is out of time is not given up.                     *)
NoticeOnlyTheClient(h) ==
  /\ Relaying(h)
  /\ ctx[h] = "gone"
  /\ relay' = [relay EXCEPT ![h] = Over(@, "silent", <<>>)]
  /\ UNCHANGED <<endpoint, sent, ending, ctx>>

(* A read or a write fails because the request is over: a client that left *)
(* is answered with silence, one that still waits is told of the timeout.  *)
Notice(h) ==
  /\ Relaying(h)
  /\ ctx[h] # "live"
  /\ relay' = [relay EXCEPT ![h] =
       IF ctx[h] = "gone" THEN Over(@, "silent", <<>>) ELSE Failed(h, @, "timeout")]
  /\ UNCHANGED <<endpoint, sent, ending, ctx>>

-----------------------------------------------------------------------------
(* The client and the clock.  The first of the two decides: a context has  *)
(* one cause.                                                              *)

EndRequest(h, how) ==
  /\ Relaying(h)
  /\ ctx[h] = "live"
  /\ ctx' = [ctx EXCEPT ![h] = how]
  /\ UNCHANGED <<endpoint, sent, ending, relay>>

ClientLeaves(h)    == EndRequest(h, "gone")
RequestTimesOut(h) == EndRequest(h, "out_of_time")

Init ==
  /\ endpoint \in {"chat", "legacy"}
  /\ sent = <<>>
  /\ ending = "open"
  /\ ctx = [h \in Handlers |-> "live"]
  /\ relay = [h \in Handlers |-> NewRelay(h)]

Next ==
  \/ \E frame \in Frames : SendFrame(frame)
  \/ \E how \in {"clean", "broken", "no_quota"} : EndStream(how)
  \/ \E h \in Handlers : \/ ReadFrame(h) \/ ReadToEnd(h) \/ ReadFails(h) \/ Notice(h)
                         \/ ClientLeaves(h) \/ RequestTimesOut(h)

Spec == Init /\ [][Next]_vars

(* Every request has a deadline, and a read under it returns.              *)
FairSpec ==
  Spec /\ \A h \in Handlers : WF_vars(RequestTimesOut(h)) /\ WF_vars(Notice(h))

-----------------------------------------------------------------------------
(* What the client of a stream puts together from its events. *)

PutCall(calls, e) ==
  IF e.index \in DOMAIN calls
    THEN [calls EXCEPT ![e.index].args = @ \o e.args,
                       ![e.index].name = IF @ = "" THEN e.name ELSE @]
    ELSE Append(calls, [id |-> e.id, name |-> e.name, args |-> e.args])

Put(seen, e) ==
  CASE e.kind = "text"   -> [seen EXCEPT !.text = @ \o e.text]
    [] e.kind = "call"   -> [seen EXCEPT !.calls = PutCall(@, e)]
    [] e.kind = "finish" -> [seen EXCEPT !.why = e.why]
    [] e.kind = "usage"  -> [seen EXCEPT !.usage = e.usage]
    [] OTHER             -> seen

Nothing == [kind |-> "answer", text |-> <<>>, why |-> "", usage |-> "none", calls |-> <<>>]

PutTogether(events) == FoldLeft(Put, Nothing, events)

(* All the text of the frames. *)
AddText(text, frame) == text \o frame.text

AllText(frames) == FoldLeft(AddText, <<>>, frames)

TextSent == AllText(sent)

(* The text that is due to a client: everything before the first stop      *)
(* sequence, as the text stood when a frame first completed one.  Of two   *)
(* stops one of which lies inside the other the inner may be complete in a *)
(* frame that leaves the outer one under way.                              *)
TextUpTo(k) == AllText(SubSeq(sent, 1, k))
StoppedBy   == {k \in DOMAIN sent : StopStarts(TextUpTo(k)) # {}}
TextDue     == IF StoppedBy = {} THEN TextSent ELSE BeforeStop(TextUpTo(Min(StoppedBy)))

Delivered(h) == IF h = "stream" THEN PutTogether(relay["stream"].out).text ELSE relay[h].text

Answered(h) == relay[h].stage = "answered"

-----------------------------------------------------------------------------
(* A client that streams and puts the events together has the answer the   *)
(* other handler writes in one piece: the two copies of the loop agree on  *)
(* text, tool calls, finish reason and usage.                              *)
PathsAgree ==
  Answered("stream") /\ Answered("whole") =>
    <<PutTogether(relay["stream"].out)>> = relay["whole"].out

(* What is written to a client never runs past the stop sequence that ends *)
(* it, however the frames cut the text, and an answer is everything before *)
(* it.  Every event of a stream is encoded for itself, so none of them     *)
(* begins or ends inside a character.                                      *)
TextIsClean ==
  /\ \A h \in Handlers :
       /\ relay[h].stage # "silent" => IsPrefix(Delivered(h), Echo \o TextDue)
       /\ Answered("stream") => Delivered("stream") = Echo \o TextDue
       /\ Answered("whole")  => relay["whole"].out[1].text = Echo \o TextDue
  /\ \A i \in DOMAIN relay["stream"].out :
       relay["stream"].out[i].kind = "text" => relay["stream"].out[i].text[1] \notin Continuations

(* The client is told truthfully how a generation ended.  One that failed  *)
(* is never presented as a complete answer: an answer comes from a stream  *)
(* that ended cleanly, or was cut at a stop, and no frame that was read    *)
(* before reported an error.  A client that is given tool calls is not     *)
(* told to skip them: only a stop sequence makes such an answer end with   *)
(* "stop".  And only a client that left is met with silence; one whose     *)
(* request ran out of time is told so, in the stream or as the answer.     *)
EndsAreTold ==
  \A h \in Handlers :
    /\ Answered(h) =>
         /\ relay[h].filter.stopped \/ (ending = "clean" /\ relay[h].read = Len(sent))
         /\ \A i \in 1..relay[h].read : sent[i].stop # "error"
         /\ FinishOf(relay[h]) = "stop" /\ relay[h].calls # <<>> => StopStarts(TextSent) # {}
    /\ relay[h].stage = "silent" => ctx[h] = "gone"

(* Every handler returns, also when the backend stops sending.             *)
RelaysEnd == <>(\A h \in Handlers : ~Relaying(h))
=============================================================================

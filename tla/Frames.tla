------------------------------- MODULE Frames -------------------------------
(***************************************************************************)
(* Reading a Connect stream off the body of a response: Recv and Peek of   *)
(* internal/devin/client.go, with the envelopes of connect.go.             *)
(*                                                                         *)
(* The body arrives in pieces and may end anywhere: because the backend    *)
(* ends it ("ended", which a read reports as io.EOF) or because the        *)
(* connection is lost ("lost").  An envelope is a header of two units, so  *)
(* that a body may end inside it, and as many units of payload as it has   *)
(* bytes.                                                                  *)
(***************************************************************************)
EXTENDS Integers, SequencesExt

CONSTANTS
  Sizes,     \* the payload lengths of envelopes
  MaxFrames, \* bound: envelopes the backend sends
  MaxSize    \* the longest plausible payload

ASSUME FramesAssumption == Sizes \subseteq Nat /\ MaxFrames \in Nat /\ MaxSize \in Nat

VARIABLES
  sent,    \* the envelopes the backend has begun to send
  rest,    \* what it has still to send of the last one
  wire,    \* units that have arrived and were not read
  body,    \* "open", "ended" or "lost"
  op,      \* "idle", "peek" or "recv": the call in progress; "over" after an error
  header,  \* the header read last, or NoHeader
  held,    \* the result of a Peek that was not handed on: at most one
  handed,  \* the data frames Recv has returned, by their places in `sent`
  outcome  \* what the caller takes the end for, "" before it

frameVars == <<sent, rest, wire, body, op, header, held, handed, outcome>>

-----------------------------------------------------------------------------
(* Envelopes.  `good` is what the payload says: a message that parses to   *)
(* its end, or an end of stream that carries no error.                     *)

Envelopes ==
  {e \in [flag : {"data", "end", "other"}, size : Sizes, good : BOOLEAN] :
     /\ e.size = 0 => e.good
     /\ e.flag = "other" => e.good}

NoHeader == [place |-> 0]

Units(e, place) ==
  <<[is |-> "flag", place |-> place], [is |-> "length", place |-> place]>>
    \o [i \in 1..e.size |-> [is |-> "payload", place |-> place]]

Frame(place) == [frame |-> place, err |-> ""]
Error(err)   == [frame |-> 0, err |-> err]

(* What errors.Is(err, io.EOF) holds of: ReadFull reports io.EOF when the  *)
(* body ends before the first byte it wants, and the error that wraps it   *)
(* is one too.                                                             *)
IsEOF(err) == err \in {"end", "end before payload"}

(* What every caller of Recv makes of an error.                            *)
TakenFor(err) == IF IsEOF(err) THEN "complete" ELSE err

-----------------------------------------------------------------------------
(* The backend and the connection. *)

SendEnvelope ==
  /\ body = "open" /\ rest = <<>> /\ Len(sent) < MaxFrames
  /\ \A i \in DOMAIN sent : sent[i].flag # "end"
  /\ \E e \in Envelopes :
       /\ sent' = Append(sent, e)
       /\ rest' = Units(e, Len(sent'))
  /\ UNCHANGED <<wire, body, op, header, held, handed, outcome>>

Arrive ==
  /\ body = "open" /\ rest # <<>>
  /\ wire' = Append(wire, Head(rest))
  /\ rest' = Tail(rest)
  /\ UNCHANGED <<sent, body, op, header, held, handed, outcome>>

BodyStops ==
  /\ body = "open"
  /\ body' \in {"ended", "lost"}
  /\ UNCHANGED <<sent, rest, wire, op, header, held, handed, outcome>>

-----------------------------------------------------------------------------
(* The caller: Peek and Recv.  A Peek that has its frame already returns   *)
(* at once, and Recv hands on what was peeked at first.                    *)

GiveBack(result) ==
  /\ header' = NoHeader
  /\ IF op = "peek"
       THEN /\ held' = <<result>>
            /\ op' = "idle" /\ UNCHANGED <<handed, outcome>>
       ELSE /\ held' = held
            /\ IF result.err = ""
                 THEN op' = "idle" /\ handed' = Append(handed, result.frame) /\ outcome' = ""
                 ELSE op' = "over" /\ handed' = handed
                      /\ outcome' = TakenFor(result.err)

CallPeek ==
  /\ op = "idle" /\ held = <<>>
  /\ op' = "peek"
  /\ UNCHANGED <<sent, rest, wire, body, header, held, handed, outcome>>

(* A slip: what was peeked at stays there for the next call, too.          *)
CallRecvKeeping ==
  /\ op = "idle"
  /\ IF held = <<>> THEN op' = "recv" /\ UNCHANGED <<held, handed, outcome>>
     ELSE /\ held' = held
          /\ IF held[1].err = ""
               THEN op' = op /\ handed' = Append(handed, held[1].frame) /\ outcome' = outcome
               ELSE op' = "over" /\ handed' = handed /\ outcome' = TakenFor(held[1].err)
  /\ UNCHANGED <<sent, rest, wire, body, header>>

CallRecv ==
  /\ op = "idle"
  /\ IF held = <<>> THEN op' = "recv" /\ UNCHANGED <<held, handed, outcome>>
     ELSE /\ held' = <<>>
          /\ IF held[1].err = ""
               THEN op' = op /\ handed' = Append(handed, held[1].frame) /\ outcome' = outcome
               ELSE op' = "over" /\ handed' = handed /\ outcome' = TakenFor(held[1].err)
  /\ UNCHANGED <<sent, rest, wire, body, header>>

-----------------------------------------------------------------------------
(* recv: a header, then its payload, until a data frame or the end.        *)

Reading == op \in {"peek", "recv"}

ReadHeader ==
  /\ Reading /\ header = NoHeader
  /\ Len(wire) >= 2
  /\ wire' = SubSeq(wire, 3, Len(wire))
  /\ IF sent[wire[1].place].size > MaxSize
       THEN GiveBack(Error("implausible length"))
       ELSE header' = [place |-> wire[1].place] /\ UNCHANGED <<op, held, handed, outcome>>
  /\ UNCHANGED <<sent, rest, body>>

(* The body stops before the header is whole.                              *)
HeaderMissing ==
  /\ Reading /\ header = NoHeader
  /\ body # "open" /\ Len(wire) < 2
  /\ wire' = <<>>
  /\ GiveBack(Error(CASE body = "lost"                    -> "lost"
                    [] body = "ended" /\ wire = <<>>    -> "end"
                    [] body = "ended" /\ Len(wire) = 1  -> "truncated header"))
  /\ UNCHANGED <<sent, rest, body>>

Envelope == sent[header.place]

(* An end of stream is an end or the failure it carries, a frame with an   *)
(* unknown flag is skipped, and a message that is torn is reported.        *)
ReadPayload ==
  /\ Reading /\ header # NoHeader
  /\ Len(wire) >= Envelope.size
  /\ wire' = SubSeq(wire, Envelope.size + 1, Len(wire))
  /\ CASE Envelope.flag = "end"  -> GiveBack(Error(IF Envelope.good THEN "end" ELSE "refused"))
       [] Envelope.flag = "data" ->
            GiveBack(IF Envelope.good THEN Frame(header.place) ELSE Error("torn frame"))
       [] Envelope.flag = "other" -> header' = NoHeader /\ UNCHANGED <<op, held, handed, outcome>>
  /\ UNCHANGED <<sent, rest, body>>

PayloadMissing ==
  /\ Reading /\ header # NoHeader
  /\ body # "open" /\ Len(wire) < Envelope.size
  /\ wire' = <<>>
  /\ GiveBack(Error(CASE body = "lost"                   -> "lost"
                    [] body = "ended" /\ wire = <<>>   -> "end before payload"
                    [] body = "ended" /\ wire # <<>>   -> "truncated payload"))
  /\ UNCHANGED <<sent, rest, body>>

FramesInit ==
  /\ sent = <<>> /\ rest = <<>> /\ wire = <<>> /\ body = "open"
  /\ op = "idle" /\ header = NoHeader /\ held = <<>>
  /\ handed = <<>> /\ outcome = ""

FramesNext ==
  \/ SendEnvelope \/ Arrive \/ BodyStops
  \/ CallPeek \/ CallRecv
  \/ ReadHeader \/ HeaderMissing \/ ReadPayload \/ PayloadMissing

FramesSpec == FramesInit /\ [][FramesNext]_frameVars

-----------------------------------------------------------------------------
(* Properties. *)

(* The caller is handed the messages of the stream in order, each once and *)
(* whole, however the body was cut, whichever frames were peeked at and    *)
(* whatever else was sent between them; an answer taken for complete lacks *)
(* no message whose envelope arrived, and hides no failure the stream      *)
(* reported.                                                               *)
FramesHandedOn ==
  /\ \A i, j \in DOMAIN handed : i < j => handed[i] < handed[j]
  /\ \A i \in DOMAIN handed :
       /\ sent[handed[i]].flag = "data" /\ sent[handed[i]].good
       /\ \A place \in 1..handed[i] : sent[place].flag = "data" => Contains(handed, place)
  /\ outcome = "complete" =>
       \A i \in DOMAIN sent :
         i < Len(sent) \/ rest = <<>> =>
           sent[i].good /\ (sent[i].flag = "data" => Contains(handed, i))

(* "It reports io.EOF when the server ends the stream cleanly" (Recv): a   *)
(* body that stops inside an envelope, some of which has arrived, is never *)
(* taken for a complete answer.                                            *)
TruncationIsNoEnd ==
  outcome = "complete" => rest = <<>> \/ rest = Units(Last(sent), Len(sent))
=============================================================================

----------------------------- MODULE StopFilter -----------------------------
(***************************************************************************)
(* The stop filter of internal/openai/translate.go: generated text comes   *)
(* in fragments and is passed on up to the first stop sequence, which may  *)
(* straddle fragments, so the end of the text that could still become one  *)
(* is held back.                                                           *)
(*                                                                         *)
(* Text is a sequence of bytes, which are model values; the ones that      *)
(* continue a character (they are not utf8.RuneStart) are given.           *)
(***************************************************************************)
EXTENDS Integers, SequencesExt

CONSTANTS
  Bytes,
  Stops,         \* the stop sequences of the request
  Continuations  \* the bytes that continue a character

(* Text that does not begin inside a character.                            *)
WholeTexts == {text \in Seq(Bytes) : text # <<>> => text[1] \notin Continuations}

NewFilter == [pending |-> <<>>, stopped |-> FALSE]

Longest == IF Stops = {} THEN 0 ELSE Max({Len(s) : s \in Stops})

OccursAt(text, s, i) == i + Len(s) - 1 <= Len(text) /\ SubSeq(text, i, i + Len(s) - 1) = s

StopStarts(text) == {i \in 1..Len(text) : \E s \in Stops : OccursAt(text, s, i)}

(* A slip: one byte too few of a stop that could be under way is held      *)
(* back.                                                                   *)
CutTooLate(text) == IF Longest - 2 > Len(text) THEN 0 ELSE Len(text) - (Longest - 2)

(* How much of a text without a stop in it may be let out: all but a stop  *)
(* that could be under way, and never half a character.                    *)
Cut(text) ==
  LET want == IF Longest - 1 > Len(text) THEN 0 ELSE Len(text) - (Longest - 1)
  IN  Max({c \in 0..want : c \in {0, Len(text)} \/ text[c + 1] \notin Continuations})

(* The filter after a fragment, and the text it lets out.                  *)
Write(f, fragment) ==
  LET text == f.pending \o fragment
  IN  CASE Stops = {} -> [filter |-> f, out |-> fragment]
        [] Stops # {} /\ f.stopped -> [filter |-> f, out |-> <<>>]
        [] Stops # {} /\ ~f.stopped /\ StopStarts(text) # {} ->
             [filter |-> [pending |-> <<>>, stopped |-> TRUE],
              out    |-> SubSeq(text, 1, Min(StopStarts(text)) - 1)]
        [] OTHER ->
             [filter |-> [pending |-> SubSeq(text, Cut(text) + 1, Len(text)), stopped |-> FALSE],
              out    |-> SubSeq(text, 1, Cut(text))]

(* What is still held back when the text has ended.                        *)
Flush(f) == IF f.stopped THEN <<>> ELSE f.pending

(* The reference: everything before the first stop sequence of the text.   *)
BeforeStop(text) ==
  IF StopStarts(text) = {} THEN text ELSE SubSeq(text, 1, Min(StopStarts(text)) - 1)
=============================================================================

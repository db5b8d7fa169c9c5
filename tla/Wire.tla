-------------------------------- MODULE Wire --------------------------------
(***************************************************************************)
(* The wire format: Writer and Reader of internal/pb/pb.go, and the loop   *)
(* over fields that every decoder of internal/devin (wire.go, status.go)   *)
(* is built from.                                                          *)
(*                                                                         *)
(* A byte is a digit of a varint and the bit that says that more follow.   *)
(* How many digits a word has and how large they are is a parameter: a     *)
(* word of 64 bits in digits of 7 is more than a model checker enumerates, *)
(* and what can go wrong - the last digit has room for a part of its bits  *)
(* only, a length is as large as a word, the end of the message falls      *)
(* anywhere - goes wrong in a small word too.                              *)
(*                                                                         *)
(* `message` and `cut` are what was written and how much of it arrived;    *)
(* what was not `authored` by a Writer may be any bytes.                   *)
(***************************************************************************)
EXTENDS Integers, SequencesExt, FiniteSetsExt

CONSTANTS
  Radix,      \* what one byte of a varint counts to
  MaxDigits,  \* the bytes of the longest varint
  LastRoom,   \* what the last of them has room for
  Wide,       \* the bytes of a fixed64
  Narrow,     \* the bytes of a fixed32
  Authored,   \* what writers write: sequences of fields
  MaxNoise    \* bound: the length of a message that nobody wrote

VARIABLES
  authored, message, cut,  \* what was written, and how many of its bytes arrived
  bytes, place, torn,  \* the Reader: its bytes, the bytes read, whether it failed
  heading,  \* the field Field() returned and nobody has read yet, or NoField
  taken,    \* the fields a decoder has taken or skipped
  over      \* Field() has said that there is nothing more

wireVars == <<authored, message, cut, bytes, place, torn, heading, taken, over>>

-----------------------------------------------------------------------------
(* Varints. *)

Bytes == [more : BOOLEAN, digit : 0..(Radix - 1)]

(* What a digit counts for, by the digits in front of it, and the number   *)
(* of words.                                                               *)
Weight[k \in Nat] == IF k = 0 THEN 1 ELSE Radix * Weight[k - 1]
WordSize == LastRoom * Weight[MaxDigits - 1]

ASSUME WordParameters ==
  /\ Radix \in Nat /\ Radix > 1
  /\ MaxDigits \in Nat \ {0}
  /\ LastRoom \in 1..Radix
  /\ Wide \in Nat \ {0} /\ Narrow \in Nat \ {0} /\ MaxNoise \in Nat

(* Writer.varint: a digit at a time, until nothing is left of the word.    *)
Digits(v) ==
  LET left[k \in Nat] == IF k = 0 THEN v ELSE left[k - 1] \div Radix
      n == Min({k \in 1..MaxDigits : left[k] = 0})
  IN  [k \in 1..n |-> [more |-> k < n, digit |-> left[k - 1] % Radix]]

(* The number a run of bytes stands for, however large.                    *)
Number(run) ==
  LET sum[k \in 0..Len(run)] == IF k = 0 THEN 0 ELSE sum[k - 1] + run[k].digit * Weight[k - 1]
  IN  sum[Len(run)]

(* Reader.varint: the value and the bytes it took, or a failure.  The last *)
(* digit a word has room for is not full, and nothing may follow it.       *)
Varint(run) ==
  LET most == IF Len(run) < MaxDigits THEN Len(run) ELSE MaxDigits
      ends == {k \in 1..most : ~run[k].more}
      took == IF ends # {} THEN Min(ends) ELSE most
      fits == ends # {} /\ (took = MaxDigits => run[took].digit < LastRoom)
  IN  [ok |-> fits, took |-> took, value |-> IF fits THEN Number(SubSeq(run, 1, took)) ELSE 0]

(* A word as an int: the upper half of the words are negative.             *)
Signed(v) == IF 2 * v >= WordSize THEN v - WordSize ELSE v

-----------------------------------------------------------------------------
(* Writer: a field is [number, type, value].  Its value is a word, the     *)
(* bytes of a fixed, or the bytes of a string, a message or a pack.        *)

WireVarint == 0
WireFixed64 == 1
WireBytes == 2
WireFixed32 == 5

Fixed(type) == IF type = WireFixed64 THEN Wide ELSE Narrow

Tag(f) == f.number * 8 + f.type

(* A field that a Writer can be asked for: its tag and its length are      *)
(* words, and so is the value of a varint.                                 *)
Writable(f) ==
  /\ f.number \in Nat \ {0} /\ f.type \in {WireVarint, WireFixed64, WireBytes, WireFixed32}
  /\ f.omits \in BOOLEAN /\ Tag(f) < WordSize
  /\ f.type = WireVarint => f.value \in 0..(WordSize - 1)
  /\ f.type # WireVarint => f.value \in Seq(Bytes) /\ Len(f.value) < WordSize
  /\ f.type \in {WireFixed64, WireFixed32} => Len(f.value) = Fixed(f.type)

ASSUME AuthoredAssumption ==
  \A fs \in Authored :
    /\ fs = [k \in 1..Len(fs) |-> fs[k]] /\ Len(fs) \in Nat
    /\ \A k \in 1..Len(fs) : Writable(fs[k])

Written(f) ==
  Digits(Tag(f)) \o
    CASE f.type = WireVarint -> Digits(f.value)
      [] f.type = WireBytes  -> Digits(Len(f.value)) \o f.value
      [] f.type \in {WireFixed64, WireFixed32} -> f.value

(* Uint64, Int64, Enum, Bool, Double and String leave out what is zero;    *)
(* Varint, Float32 and RawBytes do not.                                    *)
Zero(f) ==
  CASE f.type = WireVarint -> f.value = 0
    [] f.type = WireBytes  -> f.value = <<>>
    [] f.type \in {WireFixed64, WireFixed32} ->
         \A k \in DOMAIN f.value : f.value[k].digit = 0 /\ ~f.value[k].more

Kept(fs)   == FlattenSeq([k \in DOMAIN fs |-> IF Zero(fs[k]) /\ fs[k].omits THEN <<>> ELSE <<fs[k]>>])
Encode(fs) == FlattenSeq([k \in DOMAIN fs |-> Written(fs[k])])

-----------------------------------------------------------------------------
(* Reader. *)

NoField == [number |-> 0, type |-> 0, at |-> 0]

Rest      == SubSeq(bytes, place + 1, Len(bytes))
Left      == Len(bytes) - place
Tears     == torn' = TRUE
Holds     == torn' = torn
Take(n)   == SubSeq(bytes, place + 1, place + n)

(* Field: the number and type of the next field, unless the message is     *)
(* over or broken.                                                         *)
Field ==
  /\ heading = NoField /\ ~over
  /\ IF torn \/ place >= Len(bytes)
       THEN over' = TRUE /\ UNCHANGED <<place, torn, heading>>
       ELSE LET tag == Varint(Rest)
            IN  /\ place' = place + tag.took
                /\ IF tag.ok /\ tag.value \div 8 # 0
                     THEN /\ heading' = [number |-> tag.value \div 8, type |-> tag.value % 8, at |-> place]
                          /\ Holds /\ over' = over
                     ELSE Tears /\ over' = TRUE /\ heading' = heading
  /\ UNCHANGED <<authored, message, cut, bytes, taken>>

(* What a decoder has of a field: its number, type and value, whether it   *)
(* has read or skipped it, and where it began and the reader then stood.   *)
(* A word is kept as the bytes it would be written as.                     *)
Gives(value, to, read) ==
  /\ taken' = Append(taken, [number |-> heading.number, type |-> heading.type, value |-> value,
                             read |-> read, from |-> heading.at, to |-> to])
  /\ place' = to
  /\ heading' = NoField

Reads(value, to) == Gives(value, to, TRUE)
Skips(to)        == Gives(<<>>, to, FALSE)

(* Varint, Uint64, Bool: zero where the varint is broken.                  *)
ReadVarint ==
  /\ heading # NoField /\ heading.type = WireVarint
  /\ LET v == Varint(Rest)
     IN  Reads(Digits(v.value), place + v.took) /\ torn' = (torn \/ ~v.ok)
  /\ UNCHANGED <<authored, message, cut, bytes, over>>

(* Double and Fixed32 stay where they are when too little is left.         *)
ReadFixed ==
  /\ heading # NoField /\ heading.type \in {WireFixed64, WireFixed32}
  /\ IF Fixed(heading.type) > Left
       THEN Reads(<<>>, place) /\ Tears
       ELSE Reads(Take(Fixed(heading.type)), place + Fixed(heading.type)) /\ Holds
  /\ UNCHANGED <<authored, message, cut, bytes, over>>

(* Bytes: the length is compared before it becomes an int.                 *)
ReadBytes ==
  /\ heading # NoField /\ heading.type = WireBytes
  /\ LET n  == Varint(Rest)
         at == place + n.took
     IN  IF n.ok /\ n.value <= Len(bytes) - at
           THEN Reads(SubSeq(bytes, at + 1, at + n.value), at + n.value) /\ Holds
           ELSE Reads(<<>>, at) /\ Tears
  /\ UNCHANGED <<authored, message, cut, bytes, over>>

(* A slip: a length becomes an int before it is compared.                  *)
SkipNarrowed ==
  /\ heading # NoField
  /\ LET n  == Varint(Rest)
         at == place + n.took
     IN  CASE heading.type = WireVarint -> Skips(at) /\ torn' = (torn \/ ~n.ok)
           [] heading.type = WireBytes  ->
                IF n.ok /\ Signed(n.value) <= Len(bytes) - at
                  THEN Skips(at + Signed(n.value)) /\ Holds
                  ELSE Skips(at) /\ Tears
           [] heading.type \in {WireFixed64, WireFixed32} ->
                Skips(place + Fixed(heading.type)) /\ torn' = (torn \/ Fixed(heading.type) > Left)
           [] OTHER -> Skips(place) /\ Tears
  /\ UNCHANGED <<authored, message, cut, bytes, over>>

(* Skip: any field of a type there is; a fixed moves first and looks then. *)
SkipField ==
  /\ heading # NoField
  /\ LET n  == Varint(Rest)
         at == place + n.took
     IN  CASE heading.type = WireVarint -> Skips(at) /\ torn' = (torn \/ ~n.ok)
           [] heading.type = WireBytes  ->
                IF n.ok /\ n.value <= Len(bytes) - at
                  THEN Skips(at + n.value) /\ Holds
                  ELSE Skips(at) /\ Tears
           [] heading.type \in {WireFixed64, WireFixed32} ->
                Skips(place + Fixed(heading.type)) /\ torn' = (torn \/ Fixed(heading.type) > Left)
           [] OTHER -> Skips(place) /\ Tears
  /\ UNCHANGED <<authored, message, cut, bytes, over>>

WireInit ==
  /\ \/ /\ authored = TRUE
        /\ message \in Authored
        /\ cut \in 0..Len(Encode(Kept(message)))
        /\ bytes = SubSeq(Encode(Kept(message)), 1, cut)
     \/ /\ authored = FALSE /\ message = <<>>
        /\ cut \in 0..MaxNoise
        /\ bytes \in [1..cut -> Bytes]
  /\ place = 0 /\ torn = FALSE /\ heading = NoField /\ taken = <<>> /\ over = FALSE

(* The loop of a decoder: the fields it knows are read, the others skipped,*)
(* until there is nothing more; a message is torn when the reader failed.  *)
WireNext == Field \/ ReadVarint \/ ReadFixed \/ ReadBytes \/ SkipField

WireSpec == WireInit /\ [][WireNext]_wireVars

Truncated == over /\ torn

-----------------------------------------------------------------------------
(* Properties. *)

Composed == Kept(message)

IsFor(g, f) ==
  /\ g.number = f.number /\ g.type = f.type
  /\ g.read => g.value = IF f.type = WireVarint THEN Digits(f.value) ELSE f.value

(* How many fields arrived whole.                                          *)
Whole == Cardinality({k \in DOMAIN Composed : Len(Encode(SubSeq(Composed, 1, k))) <= cut})

(* Wherever a message was cut, a decoder knows: what it has taken without  *)
(* an error is what was written, in order, every field that arrived whole  *)
(* is among it, and the message counts as torn exactly if the cut went     *)
(* through a field.  Over any bytes at all the reader moves forward, one   *)
(* field behind the other without a gap, and never past the end without    *)
(* saying so; and no word it returns without an error is out of range.     *)
FieldsSurvive ==
  /\ torn \/ place \in 0..Len(bytes)
  /\ over /\ ~torn => place = Len(bytes)
  /\ \A k \in DOMAIN taken :
       /\ taken[k].from = IF k = 1 THEN 0 ELSE taken[k - 1].to
       /\ taken[k].to > taken[k].from
       /\ taken[k].type = WireVarint /\ taken[k].read => Number(taken[k].value) < WordSize
  /\ authored =>
       /\ \A k \in DOMAIN taken : k <= Whole => IsFor(taken[k], Composed[k])
       /\ ~torn => Len(taken) <= Whole
       /\ over => Len(taken) >= Whole
       /\ over => (Truncated <=> cut # Len(Encode(SubSeq(Composed, 1, Whole))))
=============================================================================

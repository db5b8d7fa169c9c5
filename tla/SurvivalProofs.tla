--------------------------- MODULE SurvivalProofs ----------------------------
(***************************************************************************)
(* What survives: a restart, because it is in a file, and a cut, of a      *)
(* message that was on its way.                                            *)
(*                                                                         *)
(* The key and the certificate clients were given, for any number of       *)
(* starts and of requests.  The argument follows main through a start: a   *)
(* generated key is served only from the step after it was written, a pair *)
(* only from the step after both of its halves were found in place; and no *)
(* later start replaces a file that is there.                              *)
(*                                                                         *)
(* The list of accounts, for any number of them, any failures of saves and *)
(* any number of dashboard requests at once: it is in the file unless the  *)
(* list stored last was overtaken.  The argument follows the lists that    *)
(* are held between the pool, the store's memory and its file.  What is    *)
(* promised of a single account is shown for one request at a time.        *)
(*                                                                         *)
(* The fields of a message, for words of any length in digits of any size, *)
(* and any message a Writer can be asked for, cut anywhere.  The digits of *)
(* a word are read back as the word, and one digit fewer is not a word;    *)
(* so the reader stands at the end of a field it has taken, or behind the  *)
(* tag of the next, until it is in the field that was cut.                 *)
(***************************************************************************)
EXTENDS Process, AccountAdmin, Wire, CommonProofs, FiniteSetTheorems, TLAPS

-----------------------------------------------------------------------------
(* The key and the certificate. *)

Keyed   == {"keyed", "certifying", "renaming certificate", "renaming key", "loading pair",
            "listening", "serving", "draining"}

(* The numbers of the files are those of keys and pairs that were made.    *)
NumbersMade ==
  /\ made \in Nat
  /\ config \in Int /\ NoFile <= config /\ config <= made
  /\ certFile \in Int /\ keyFile \in Int
  /\ certFile = NoFile \/ certFile > 0

(* The key: on its way to the file, or there, or the environment's.        *)
KeyInPlace ==
  /\ handedOut # {} => handedOut = {config} /\ config > 0
  /\ at = "saving" => config \in {NoFile, NoKey} /\ apiKey = made /\ made > 0
  /\ at \in Keyed => apiKey = EnvKey \/ (apiKey = config /\ config > 0)

(* The pair: what clients know is in place, and what is being put there    *)
(* replaces nothing.                                                       *)
PairInPlace ==
  /\ pinned # {} => pinned = {certFile} /\ certFile = keyFile /\ certFile # NoFile
  /\ at = "renaming certificate" => certFile = NoFile /\ keyFile = NoFile /\ made > 0
  /\ at = "renaming key" => certFile = made /\ made > 0 /\ keyFile = NoFile
  /\ at = "loading pair" => certFile # NoFile /\ keyFile # NoFile

FilesInv == NumbersMade /\ KeyInPlace /\ PairInPlace

LEMMA FilesInvInit == ProcessInit => FilesInv
BY DEF ProcessInit, FilesInv, NumbersMade, KeyInPlace, PairInPlace, Keyed, NoFile, NoKey, files

LEMMA NumbersKept == FilesInv /\ [ProcessNext]_processVars => NumbersMade'
<1> SUFFICES ASSUME FilesInv, [ProcessNext]_processVars PROVE NumbersMade'
    OBVIOUS
<1> USE DEF FilesInv, NumbersMade, files, known, served
<1>1. CASE Launch BY <1>1 DEF Launch
<1>2. CASE LoadConfig
  <2>1. made' \in {made, made + 1} /\ config' = config /\ certFile' = certFile /\ keyFile' = keyFile
        BY <1>2 DEF LoadConfig
  <2>. QED BY <2>1
<1>3. CASE WriteConfig
  <2>1. config' \in {config, made} /\ made' = made /\ certFile' = certFile /\ keyFile' = keyFile
        BY <1>3 DEF WriteConfig, KeyInPlace
  <2>. QED BY <2>1 DEF NoFile
<1>4. CASE PrintKey BY <1>4 DEF PrintKey
<1>5. CASE Assemble BY <1>5 DEF Assemble
<1>6. CASE ServeCertificate
  <2>1. made' \in {made, made + 1} /\ config' = config /\ certFile' = certFile /\ keyFile' = keyFile
        BY <1>6 DEF ServeCertificate
  <2>. QED BY <2>1
<1>7. CASE RenameCertificate
  <2>1. made > 0
        BY <1>7 DEF RenameCertificate, PairInPlace
  <2>2. certFile' \in {certFile, made} /\ made' = made /\ config' = config /\ keyFile' = keyFile
        BY <1>7 DEF RenameCertificate
  <2>. QED BY <2>1, <2>2
<1>8. CASE RenameKey
  <2>1. keyFile' \in {keyFile, made} /\ made' = made /\ config' = config /\ certFile' = certFile
        BY <1>8 DEF RenameKey
  <2>. QED BY <2>1
<1>9. CASE LoadPair BY <1>9 DEF LoadPair
<1>10. CASE RemoveHalf
  <2>1. keyFile' = NoFile /\ made' = made /\ config' = config /\ certFile' = NoFile
        BY <1>10 DEF RemoveHalf
  <2>. QED BY <2>1 DEF NoFile
<1>11. CASE Listen BY <1>11 DEF Listen
<1>12. CASE Signal BY <1>12 DEF Signal
<1>13. CASE MainStep BY <1>13 DEF MainStep, Drain, Shutdown, GraceOver
<1>14. CASE Dies BY <1>14 DEF Dies
<1>15. CASE \E c \in Clients : Accept(c) \/ Answers(c) BY <1>15 DEF Accept, Answers
<1>16. CASE UNCHANGED processVars BY <1>16 DEF processVars
<1>. QED BY <1>1, <1>2, <1>3, <1>4, <1>5, <1>6, <1>7, <1>8, <1>9, <1>10,
            <1>11, <1>12, <1>13, <1>14, <1>15, <1>16 DEF ProcessNext

LEMMA MadeCounts ==
  ASSUME FilesInv
  PROVE  made + 1 > 0 /\ (made > 0 => made # NoFile)
<1>1. made \in Nat
      BY DEF FilesInv, NumbersMade
<1>. QED BY <1>1 DEF NoFile

LEMMA NothingSaved ==
  ASSUME FilesInv, ~(config > 0)
  PROVE  config \in {NoFile, NoKey} /\ handedOut = {}
<1>1. config \in {NoFile, NoKey}
      BY DEF FilesInv, NumbersMade, NoFile, NoKey
<1>2. handedOut = {}
      BY DEF FilesInv, KeyInPlace
<1>. QED BY <1>1, <1>2

LEMMA KeyKept == FilesInv /\ [ProcessNext]_processVars => KeyInPlace'
<1> SUFFICES ASSUME FilesInv, [ProcessNext]_processVars PROVE KeyInPlace'
    OBVIOUS
<1> USE DEF FilesInv, NumbersMade, KeyInPlace, Keyed, NoFile, NoKey, EnvKey, GoesOn, Ends, files, known, served
<1>1. CASE Launch BY <1>1 DEF Launch
<1>2. CASE LoadConfig
  <2>1. handedOut' = handedOut /\ config' = config
        BY <1>2 DEF LoadConfig
  <2>2. CASE config > 0 \/ envKey
    <3>1. at' = "keyed" /\ (apiKey' = EnvKey \/ (apiKey' = config /\ config > 0))
          BY <1>2, <2>2 DEF LoadConfig
    <3>. QED BY <2>1, <3>1
  <2>3. CASE ~(config > 0 \/ envKey)
    <3>1. at' = "saving" /\ made' = made + 1 /\ apiKey' = made'
          BY <1>2, <2>3 DEF LoadConfig
    <3>2. config \in {NoFile, NoKey} /\ handedOut = {}
          BY <2>3, NothingSaved
    <3>3. made' > 0
          BY <3>1, MadeCounts
    <3>. QED BY <2>1, <3>1, <3>2, <3>3
  <2>. QED BY <2>2, <2>3
<1>3. CASE WriteConfig
  <2>1. handedOut' = handedOut /\ apiKey' = apiKey /\ handedOut = {} /\ apiKey > 0
        BY <1>3 DEF WriteConfig
  <2>2. (at' = "keyed" /\ config' = apiKey) \/ at' = "down"
        BY <1>3 DEF WriteConfig
  <2>. QED BY <2>1, <2>2
<1>4. CASE PrintKey BY <1>4 DEF PrintKey, HandOut
<1>5. CASE Assemble BY <1>5 DEF Assemble
<1>6. CASE ServeCertificate BY <1>6 DEF ServeCertificate
<1>7. CASE RenameCertificate BY <1>7 DEF RenameCertificate
<1>8. CASE RenameKey BY <1>8 DEF RenameKey
<1>9. CASE LoadPair BY <1>9 DEF LoadPair
<1>10. CASE RemoveHalf BY <1>10 DEF RemoveHalf
<1>11. CASE Listen BY <1>11 DEF Listen, HandOut
<1>12. CASE Signal BY <1>12 DEF Signal
<1>13. CASE MainStep BY <1>13 DEF MainStep, Drain, Shutdown, GraceOver
<1>14. CASE Dies BY <1>14 DEF Dies
<1>15. CASE \E c \in Clients : Accept(c) \/ Answers(c) BY <1>15 DEF Accept, Answers
<1>16. CASE UNCHANGED processVars BY <1>16 DEF processVars
<1>. QED BY <1>1, <1>2, <1>3, <1>4, <1>5, <1>6, <1>7, <1>8, <1>9, <1>10,
            <1>11, <1>12, <1>13, <1>14, <1>15, <1>16 DEF ProcessNext

LEMMA PairKept == FilesInv /\ [ProcessNext]_processVars => PairInPlace'
<1> SUFFICES ASSUME FilesInv, [ProcessNext]_processVars PROVE PairInPlace'
    OBVIOUS
<1> USE DEF FilesInv, PairInPlace, GoesOn, Ends, Exists, files, known, served
<1>1. CASE Launch BY <1>1 DEF Launch
<1>2. CASE LoadConfig BY <1>2 DEF LoadConfig
<1>3. CASE WriteConfig BY <1>3 DEF WriteConfig
<1>4. CASE PrintKey BY <1>4 DEF PrintKey
<1>5. CASE Assemble BY <1>5 DEF Assemble
<1>6. CASE ServeCertificate
  <2>1. pinned' = pinned /\ certFile' = certFile /\ keyFile' = keyFile
        BY <1>6 DEF ServeCertificate
  <2>2. \/ at' = "loading pair" /\ certFile # NoFile /\ keyFile # NoFile
        \/ at' = "down"
        \/ at' = "renaming certificate" /\ certFile = NoFile /\ keyFile = NoFile /\ made' > 0
        BY <1>6, MadeCounts DEF ServeCertificate
  <2>. QED BY <2>1, <2>2 DEF PairInPlace
<1>7. CASE RenameCertificate BY <1>7 DEF RenameCertificate
<1>8. CASE RenameKey
  <2>1. pinned' = pinned /\ pinned = {} /\ certFile' = certFile /\ certFile = made /\ made > 0
        BY <1>8 DEF RenameKey
  <2>2. (at' = "loading pair" /\ keyFile' = made) \/ at' = "down"
        BY <1>8 DEF RenameKey
  <2>. QED BY <2>1, <2>2, MadeCounts
<1>9. CASE LoadPair BY <1>9 DEF LoadPair
<1>10. CASE RemoveHalf BY <1>10 DEF RemoveHalf
<1>11. CASE Listen BY <1>11 DEF Listen
<1>12. CASE Signal BY <1>12 DEF Signal
<1>13. CASE MainStep BY <1>13 DEF MainStep, Drain, Shutdown, GraceOver
<1>14. CASE Dies BY <1>14 DEF Dies
<1>15. CASE \E c \in Clients : Accept(c) \/ Answers(c) BY <1>15 DEF Accept, Answers
<1>16. CASE UNCHANGED processVars BY <1>16 DEF processVars
<1>. QED BY <1>1, <1>2, <1>3, <1>4, <1>5, <1>6, <1>7, <1>8, <1>9, <1>10,
            <1>11, <1>12, <1>13, <1>14, <1>15, <1>16 DEF ProcessNext

(* TrustKept (main.go:161, tls.go:152): the key and the certificate that   *)
(* clients were given are what is on disk in every state, whatever number  *)
(* of starts, kills, failed writes and keys from the environment led there.*)
THEOREM TrustIsKept == ProcessSpec => []TrustKept
<1>1. FilesInv => TrustKept
  <2>1. FilesInv => config # EnvKey
        BY DEF FilesInv, NumbersMade, NoFile, EnvKey
  <2>2. KeyInPlace => (handedOut # {} => handedOut = {config})
        BY DEF KeyInPlace
  <2>3. PairInPlace => (pinned # {} => pinned = {certFile} /\ certFile = keyFile)
        BY DEF PairInPlace
  <2>. QED BY <2>1, <2>2, <2>3 DEF FilesInv, TrustKept
<1>2. FilesInv /\ [ProcessNext]_processVars => FilesInv'
      BY NumbersKept, KeyKept, PairKept DEF FilesInv
<1>. QED BY <1>1, <1>2, FilesInvInit, PTL DEF ProcessSpec

-----------------------------------------------------------------------------
(* The account list and its file.                                          *)

Accounts == [token : TokenSet, issued : Nat]

Additions == {"paste", "sign_in", "capture", "keep"}
Backend   == {"resolving", "asking", "answering", "filing"}   \* the list is saved
Settled   == Backend \cup {"idle", "signing_out"}

AddingAt  == {"listing", "storing", "undoing", "signing_out"} \cup Backend

Adding ==
  [at : AddingAt, op : Additions \cup {"reject"}, token : TokenSet, slot : Nat, added : Nat,
   asked : Nat, list : Seq(TokenSet), tries : Nat]
Deleting ==
  [at : {"listing", "storing"}, op : {"delete"}, token : TokenSet, list : Seq(TokenSet), tries : Nat]

Tasks == {NoTask} \cup [at : {"signing_out"}] \cup Adding \cup Deleting

AdminTypes ==
  /\ pool \in Seq(Accounts) /\ issued \in Nat
  /\ stored \in Seq(TokenSet) /\ file \in Seq(TokenSet)
  /\ unsaved \in BOOLEAN /\ cli \in TokenSet \cup {NoToken}
  /\ task \in [Operators -> Tasks]

NoneTwice(s) == \A i, j \in DOMAIN s : s[i] = s[j] => i = j

(* What is promised stands in all three places, so that neither a restart  *)
(* nor a save of something else takes it back; p lists the pool's tokens,  *)
(* s the store's and f the file's.                                         *)
Listed(p, s, f, a, g, u) ==
  /\ NoneTwice(p) /\ NoneTwice(s) /\ NoneTwice(f)
  /\ ~u => f = s
  /\ a \subseteq ToSet(p) \cap ToSet(s) \cap ToSet(f)
  /\ g \cap (ToSet(p) \cup ToSet(s) \cup ToSet(f)) = {}

(* Where the request stands that edits the list: between the edit and the  *)
(* save the list in hand is the pool's, and the pool has the account of    *)
(* the CLI before that is signed out.                                      *)
Standing(w, p, s, c, u) ==
  /\ w.at \in Settled /\ ~u => s = p
  /\ w.at \in Backend => ~u
  /\ w.at = "undoing" => u
  /\ w.at = "storing" => w.list = p
  /\ w.at = "signing_out" => c # NoToken /\ (c \in ToSet(p) \/ u)
  /\ w.at \notin {"idle", "signing_out"} /\ w.op = "keep" => c = w.token /\ c \in ToSet(p)

AdminInv(o) ==
  /\ AdminTypes
  /\ Listed(Tokens(pool), stored, file, acked, gone, unsaved)
  /\ Standing(task[o], Tokens(pool), stored, cli, unsaved)

-----------------------------------------------------------------------------
(* Lists of accounts. *)

LEMMA TokensOf ==
  ASSUME NEW p \in Seq(Accounts)
  PROVE  /\ Tokens(p) \in Seq(TokenSet) /\ Len(Tokens(p)) = Len(p)
         /\ DOMAIN Tokens(p) = DOMAIN p
         /\ \A i \in DOMAIN p : Tokens(p)[i] = p[i].token /\ p[i] \in Accounts
<1>1. DOMAIN p = 1..Len(p) /\ Len(p) \in Nat /\ \A i \in 1..Len(p) : p[i] \in Accounts
  BY LenProperties, ElementOfSeq
<1>2. Tokens(p) = [i \in 1..Len(p) |-> p[i].token]
  BY <1>1 DEF Tokens
<1>3. \A i \in 1..Len(p) : p[i].token \in TokenSet
  BY <1>1 DEF Accounts
<1> QED
  BY <1>1, <1>2, <1>3

LEMMA Appended ==
  ASSUME NEW p \in Seq(Accounts), NEW e \in Accounts
  PROVE  Append(p, e) \in Seq(Accounts) /\ Tokens(Append(p, e)) = Append(Tokens(p), e.token)
<1> DEFINE q == Append(p, e)
<1>1. q \in Seq(Accounts) /\ Len(q) = Len(p) + 1 /\ Len(p) \in Nat
      /\ q[Len(p) + 1] = e /\ \A i \in 1..Len(p) : q[i] = p[i]
  BY AppendProperties, LenProperties
<1>2. DOMAIN q = 1..(Len(p) + 1) /\ DOMAIN p = 1..Len(p)
  BY <1>1
<1> HIDE DEF q
<1>3. /\ Tokens(q) \in Seq(TokenSet) /\ Len(Tokens(q)) = Len(p) + 1
      /\ \A i \in 1..(Len(p) + 1) : Tokens(q)[i] = q[i].token
  BY <1>1, <1>2, TokensOf
<1>4. /\ Tokens(p) \in Seq(TokenSet) /\ Len(Tokens(p)) = Len(p)
      /\ \A i \in 1..Len(p) : Tokens(p)[i] = p[i].token
  BY <1>2, TokensOf
<1>5. PICK t : t = e.token
  OBVIOUS
<1>6. t \in TokenSet
  BY <1>5 DEF Accounts
<1> DEFINE P == Tokens(p)
           r == Append(P, t)
<1>7. r \in Seq(TokenSet) /\ Len(r) = Len(p) + 1 /\ r[Len(p) + 1] = t
      /\ \A i \in 1..Len(p) : r[i] = P[i]
  BY <1>4, <1>6, AppendProperties
<1> HIDE DEF r, P
<1>8. \A i \in 1..(Len(p) + 1) : Tokens(q)[i] = r[i]
  BY <1>1, <1>3, <1>4, <1>5, <1>7 DEF P
<1>9. Tokens(q) = r
  BY <1>3, <1>7, <1>8, SeqEqual
<1> QED
  BY <1>1, <1>5, <1>9 DEF q, r, P

(* A list of tokens grows by one it does not have, and loses one it has.   *)
LEMMA OneMore ==
  ASSUME NEW p \in Seq(TokenSet), NEW t \in TokenSet
  PROVE  /\ ToSet(Append(p, t)) = ToSet(p) \cup {t}
         /\ NoneTwice(p) /\ t \notin ToSet(p) => NoneTwice(Append(p, t))
<1> DEFINE q == Append(p, t)
<1>1. q \in Seq(TokenSet) /\ Len(q) = Len(p) + 1 /\ Len(p) \in Nat
      /\ q[Len(p) + 1] = t /\ \A i \in 1..Len(p) : q[i] = p[i]
  BY AppendProperties, LenProperties
<1>2. DOMAIN q = 1..(Len(p) + 1) /\ DOMAIN p = 1..Len(p)
  BY <1>1
<1> HIDE DEF q
<1>3. ToSet(q) = ToSet(p) \cup {t}
  BY <1>1, <1>2 DEF ToSet
<1>4. NoneTwice(p) /\ t \notin ToSet(p) => NoneTwice(q)
  <2> SUFFICES ASSUME NoneTwice(p), t \notin ToSet(p), NEW i \in DOMAIN q, NEW j \in DOMAIN q,
                      q[i] = q[j], i < j
               PROVE  FALSE
    BY <1>2 DEF NoneTwice
  <2>1. i \in 1..Len(p) /\ q[i] = p[i]
    BY <1>1, <1>2
  <2>2. p[i] \in ToSet(p)
    BY <1>2, <2>1 DEF ToSet
  <2>3. j # Len(p) + 1
    BY <1>1, <2>1, <2>2
  <2>4. j \in 1..Len(p) /\ q[j] = p[j]
    BY <1>1, <1>2, <2>3
  <2>5. i \in DOMAIN p /\ j \in DOMAIN p /\ p[i] = p[j]
    BY <1>2, <2>1, <2>4
  <2>6. i = j
    BY <2>5 DEF NoneTwice
  <2> QED
    BY <1>1, <1>2, <2>6
<1> QED
  BY <1>3, <1>4 DEF q

LEMMA OneLess ==
  ASSUME NEW p \in Seq(Accounts), NEW i \in DOMAIN p
  PROVE  /\ RemoveAt(p, i) \in Seq(Accounts)
         /\ Pooled(RemoveAt(p, i)) \subseteq Pooled(p)
         /\ NoneTwice(Tokens(p)) =>
              /\ NoneTwice(Tokens(RemoveAt(p, i)))
              /\ Pooled(p) \ {p[i].token} \subseteq Pooled(RemoveAt(p, i))
<1> DEFINE q == RemoveAt(p, i)
<1>1. Len(p) \in Nat /\ DOMAIN p = 1..Len(p) /\ i \in 1..Len(p)
  BY LenProperties, Zenon
<1>2. /\ q \in Seq(Accounts) /\ Len(q) = Len(p) - 1
      /\ \A j \in 1..(Len(p) - 1) : q[j] = IF j < i THEN p[j] ELSE p[j + 1]
  BY <1>1, RemoveAtProperties
<1> HIDE DEF q
<1>3. DOMAIN q = 1..(Len(p) - 1)
  BY <1>2
<1>4. /\ DOMAIN Tokens(q) = 1..(Len(p) - 1)
      /\ \A j \in 1..(Len(p) - 1) : Tokens(q)[j] = q[j].token
  BY <1>2, <1>3, TokensOf
<1>5. /\ DOMAIN Tokens(p) = 1..Len(p)
      /\ \A j \in 1..Len(p) : Tokens(p)[j] = p[j].token
  BY <1>1, TokensOf
<1>6. \A j \in 1..(Len(p) - 1) :
        Tokens(q)[j] = IF j < i THEN Tokens(p)[j] ELSE Tokens(p)[j + 1]
  BY <1>1, <1>2, <1>4, <1>5
<1>7. Pooled(q) \subseteq Pooled(p)
  BY <1>1, <1>4, <1>5, <1>6 DEF Pooled, ToSet
<1>8. ASSUME NoneTwice(Tokens(p)) PROVE NoneTwice(Tokens(q))
  <2> SUFFICES ASSUME NEW j \in 1..(Len(p) - 1), NEW k \in 1..(Len(p) - 1),
                      Tokens(q)[j] = Tokens(q)[k]
               PROVE  j = k
    BY <1>4 DEF NoneTwice
  <2>1. PICK jj \in 1..Len(p) : jj = (IF j < i THEN j ELSE j + 1) /\ Tokens(q)[j] = Tokens(p)[jj]
    BY <1>1, <1>6
  <2>2. PICK kk \in 1..Len(p) : kk = (IF k < i THEN k ELSE k + 1) /\ Tokens(q)[k] = Tokens(p)[kk]
    BY <1>1, <1>6
  <2>3. jj = kk
    BY <1>5, <1>8, <2>1, <2>2 DEF NoneTwice
  <2> QED
    BY <1>1, <2>1, <2>2, <2>3
<1>9. ASSUME NEW t \in Pooled(p) \ {p[i].token} PROVE t \in Pooled(q)
  <2>1. PICK j \in 1..Len(p) : t = Tokens(p)[j]
    BY <1>5 DEF Pooled, ToSet
  <2>2. j # i
    BY <1>1, <1>5, <2>1, <1>9
  <2>3. PICK k \in 1..(Len(p) - 1) : j = (IF k < i THEN k ELSE k + 1)
    <3>1. CASE j < i
      BY <1>1, <3>1
    <3>2. CASE j > i
      <4>1. j - 1 \in 1..(Len(p) - 1) /\ ~(j - 1 < i) /\ j = (j - 1) + 1
        BY <1>1, <3>2
      <4> QED
        BY <4>1
    <3> QED
      BY <1>1, <2>2, <3>1, <3>2
  <2>4. Tokens(q)[k] = t
    BY <1>6, <2>1, <2>3
  <2> QED
    BY <1>4, <2>4 DEF Pooled, ToSet
<1> QED
  BY <1>2, <1>7, <1>8, <1>9 DEF q

LEMMA FromFile ==
  ASSUME NEW f \in Seq(TokenSet), NEW p, p = [i \in DOMAIN f |-> [token |-> f[i], issued |-> i]]
  PROVE  p \in Seq(Accounts) /\ Tokens(p) = f
<1>1. DOMAIN f = 1..Len(f) /\ Len(f) \in Nat /\ \A i \in 1..Len(f) : f[i] \in TokenSet
  BY LenProperties, ElementOfSeq
<1>2. DOMAIN p = 1..Len(f) /\ \A i \in 1..Len(f) : p[i] = [token |-> f[i], issued |-> i]
  BY <1>1
<1>3. \A i \in 1..Len(f) : p[i] \in Accounts /\ p[i].token = f[i]
  BY <1>1, <1>2 DEF Accounts
<1>4. p \in [1..Len(f) -> Accounts]
  BY <1>1, <1>3
<1>5. p \in Seq(Accounts)
  BY <1>1, <1>4, SeqDef
<1>6. /\ Tokens(p) \in Seq(TokenSet) /\ Len(Tokens(p)) = Len(p)
      /\ \A i \in DOMAIN p : Tokens(p)[i] = p[i].token
  BY <1>5, TokensOf
<1>7. Len(p) = Len(f)
  BY <1>1, <1>2, <1>5, LenProperties
<1>8. Tokens(p) = f
  <2>1. \A i \in 1..Len(f) : Tokens(p)[i] = f[i]
    BY <1>2, <1>3, <1>6
  <2>2. Len(Tokens(p)) = Len(f) /\ Len(Tokens(p)) \in Nat
    BY <1>1, <1>6, <1>7
  <2> DEFINE q == Tokens(p)
  <2>3. q \in Seq(TokenSet) /\ Len(q) = Len(f) /\ \A i \in 1..Len(f) : q[i] = f[i]
    BY <1>6, <2>1, <2>2
  <2> HIDE DEF q
  <2>4. q = f
    BY <2>3, SeqEqual
  <2> QED
    BY <2>4 DEF q
<1> QED
  BY <1>5, <1>8

-----------------------------------------------------------------------------
(* The request's own record. *)

LEMMA KindsOfTask ==
  ASSUME NEW w \in Tasks
  PROVE  /\ w.at = "idle" <=> w = NoTask
         /\ w.at \in {"listing", "storing"} => w \in Adding \cup Deleting
         /\ w.at \in {"undoing"} \cup Backend => w \in Adding
BY DEF Tasks, Adding, Deleting, NoTask, AddingAt, Backend

(* The request goes on with the record v, the others with theirs. *)
Becomes(o, v) ==
  /\ v \in Tasks /\ task' \in [Operators -> Tasks] /\ task'[o] = v
  /\ \A p \in Operators : p # o => task'[p] = task[p]

LEMMA TaskSet ==
  ASSUME AdminTypes, NEW o \in Operators, NEW v \in Tasks, task' = [task EXCEPT ![o] = v]
  PROVE  Becomes(o, v)
BY DEF AdminTypes, Becomes

(* A step of the request that leaves the lists alone. *)
LEMMA OnlyTypes ==
  ASSUME AdminTypes, NEW o \in Operators, NEW v \in Tasks, task' = [task EXCEPT ![o] = v],
         UNCHANGED <<pool, issued, stored, file, cli, unsaved>>
  PROVE  AdminTypes' /\ Becomes(o, v)
<1>1. Becomes(o, v)
  BY TaskSet
<1> QED
  BY <1>1 DEF AdminTypes, Becomes

LEMMA OnlyTheTask ==
  ASSUME NEW o \in Operators, AdminInv(o), AdminTypes', NEW v, Becomes(o, v),
         UNCHANGED <<pool, issued, stored, file, cli, acked, gone, unsaved>>,
         Standing(v, Tokens(pool), stored, cli, unsaved)
  PROVE  AdminInv(o)'
<1>1. Listed(Tokens(pool'), stored', file', acked', gone', unsaved')
  BY DEF AdminInv
<1>2. Standing(task'[o], Tokens(pool'), stored', cli', unsaved')
  BY DEF Becomes
<1> QED
  BY <1>1, <1>2 DEF AdminInv

-----------------------------------------------------------------------------
(* What the steps do to the request's record. *)

LEMMA JoinMoves ==
  ASSUME AdminTypes, NEW o \in Operators, NEW op \in Additions, NEW t \in TokenSet, Join(o, op, t)
  PROVE  /\ AdminTypes' /\ Tokens(pool') = Append(Tokens(pool), t)
         /\ \E v : Becomes(o, v) /\ v.at = "listing" /\ v.op = op /\ v.token = t
<1>1. /\ issued' = issued + 1 /\ pool' = Append(pool, [token |-> t, issued |-> issued'])
      /\ UNCHANGED <<stored, file, cli, unsaved>>
      /\ task' = [task EXCEPT ![o] = [at |-> "listing", op |-> op, token |-> t, slot |-> Len(pool'),
                                      added |-> 0, asked |-> 0, list |-> <<>>, tries |-> 1]]
  BY DEF Join
<1>2. PICK e : e = [token |-> t, issued |-> issued']
  OBVIOUS
<1>3. e \in Accounts /\ e.token = t
  BY <1>1, <1>2 DEF Accounts, AdminTypes
<1>4. pool' \in Seq(Accounts) /\ Tokens(pool') = Append(Tokens(pool), t)
  BY <1>1, <1>2, <1>3, Appended DEF AdminTypes
<1>5. PICK v : v = [at |-> "listing", op |-> op, token |-> t, slot |-> Len(pool'),
                    added |-> 0, asked |-> 0, list |-> <<>>, tries |-> 1]
  OBVIOUS
<1>6. v \in Tasks /\ v.at = "listing" /\ v.op = op /\ v.token = t
  <2>1. Len(pool') \in Nat
    BY <1>4, LenProperties
  <2>2. <<>> \in Seq(TokenSet)
    BY EmptySeq
  <2> QED
    BY <1>5, <2>1, <2>2 DEF Tasks, Adding, AddingAt
<1>7. Becomes(o, v)
  BY <1>1, <1>5, <1>6, TaskSet
<1>8. AdminTypes'
  BY <1>1, <1>4, <1>7 DEF AdminTypes, Becomes
<1> QED
  BY <1>4, <1>6, <1>7, <1>8

LEMMA LogoutMoves ==
  ASSUME AdminTypes, NEW o \in Operators, LogoutCLI(o), ~Join(o, "keep", cli)
  PROVE  /\ AdminTypes' /\ cli # NoToken /\ cli \in Pooled(pool)
         /\ UNCHANGED <<pool, issued, stored, file, cli, acked, gone, unsaved, readings>>
         /\ \E v : Becomes(o, v) /\ v.at = "signing_out"
<1>1. /\ cli # NoToken /\ cli \in Pooled(pool) /\ task' = [task EXCEPT ![o] = [at |-> "signing_out"]]
      /\ UNCHANGED <<pool, issued, stored, file, cli, acked, gone, unsaved, readings>>
  BY DEF LogoutCLI
<1>2. PICK v : v = [at |-> "signing_out"]
  OBVIOUS
<1>3. v \in Tasks /\ v.at = "signing_out"
  BY <1>2 DEF Tasks
<1> QED
  BY <1>1, <1>2, <1>3, OnlyTypes

LEMMA DeleteMoves ==
  ASSUME AdminTypes, NEW o \in Operators, Delete(o)
  PROVE  AdminTypes' /\ \E v : Becomes(o, v) /\ v.at = "listing" /\ v.op = "delete"
<1>1. PICK i \in DOMAIN pool :
        /\ pool' = RemoveAt(pool, i)
        /\ task' = [task EXCEPT ![o] = [at |-> "listing", op |-> "delete", token |-> pool[i].token,
                                        list |-> <<>>, tries |-> 2]]
        /\ UNCHANGED <<issued, stored, file, cli, unsaved>>
  BY DEF Delete
<1>2. PICK v : v = [at |-> "listing", op |-> "delete", token |-> pool[i].token,
                    list |-> <<>>, tries |-> 2]
  OBVIOUS
<1>3. v \in Tasks /\ v.at = "listing" /\ v.op = "delete"
  <2>1. pool[i].token \in TokenSet
    BY TokensOf DEF AdminTypes, Accounts
  <2>2. <<>> \in Seq(TokenSet)
    BY EmptySeq
  <2> QED
    BY <1>2, <2>1, <2>2 DEF Tasks, Deleting
<1>4. Becomes(o, v)
  BY <1>1, <1>2, <1>3, TaskSet
<1>5. pool' \in Seq(Accounts)
  BY <1>1, OneLess DEF AdminTypes
<1>6. AdminTypes'
  BY <1>1, <1>4, <1>5 DEF AdminTypes, Becomes
<1> QED
  BY <1>3, <1>4, <1>6

LEMMA ReadTokensMoves ==
  ASSUME AdminTypes, NEW o \in Operators, ReadTokens(o)
  PROVE  /\ AdminTypes' /\ task[o].at = "listing"
         /\ \E v : /\ Becomes(o, v) /\ v.at = "storing" /\ v.list = Tokens(pool)
                   /\ v.op = task[o].op /\ v.token = task[o].token
<1> DEFINE w == task[o]
<1>1. /\ w.at = "listing" /\ task' = [task EXCEPT ![o].at = "storing", ![o].list = Tokens(pool)]
      /\ UNCHANGED <<pool, issued, stored, file, cli, unsaved>>
  BY DEF ReadTokens
<1>2. w \in Tasks /\ task \in [Operators -> Tasks] /\ pool \in Seq(Accounts)
  BY DEF AdminTypes
<1>3. w \in Adding \cup Deleting
  BY <1>1, <1>2, KindsOfTask
<1>4. PICK p : p = Tokens(pool)
  OBVIOUS
<1>5. p \in Seq(TokenSet)
  BY <1>2, <1>4, TokensOf
<1>6. PICK v : v = [w EXCEPT !.at = "storing", !.list = p]
  OBVIOUS
<1>7. v \in Tasks /\ v.at = "storing" /\ v.list = p /\ v.op = w.op /\ v.token = w.token
  BY <1>3, <1>5, <1>6 DEF Adding, Deleting, Tasks, AddingAt
<1>8. task' = [task EXCEPT ![o] = v]
  BY <1>1, <1>2, <1>4, <1>6
<1> QED
  BY <1>1, <1>4, <1>7, <1>8, OnlyTypes

(* The list in hand is stored. *)
LEMMA StoringTyped ==
  ASSUME AdminTypes, NEW o \in Operators, task[o].at = "storing"
  PROVE  /\ task[o] \in Tasks /\ task[o] \in Adding \cup Deleting /\ task[o].list \in Seq(TokenSet)
         /\ task \in [Operators -> Tasks]
<1>1. task[o] \in Tasks /\ task \in [Operators -> Tasks]
  BY DEF AdminTypes
<1>2. task[o] \in Adding \cup Deleting
  BY <1>1, KindsOfTask
<1>3. task[o].list \in Seq(TokenSet)
  BY <1>2 DEF Adding, Deleting
<1> QED
  BY <1>1, <1>2, <1>3

LEMMA SavedMoves ==
  ASSUME AdminTypes, NEW o \in Operators, Saved(o)
  PROVE  /\ AdminTypes' /\ task[o].at = "storing"
         /\ gone' \subseteq gone \cup ({task[o].token} \ Pooled(pool))
         /\ \E v : /\ Becomes(o, v) /\ v.at \in Backend \cup {"idle"}
                   /\ v.at # "idle" => v.op = task[o].op /\ v.token = task[o].token
<1> DEFINE w == task[o]
<1>1. /\ w.at = "storing" /\ stored' = w.list /\ file' = w.list /\ unsaved' = FALSE
      /\ UNCHANGED <<pool, issued, cli>>
  BY DEF Saved, Stores
<1>2. w \in Adding \cup Deleting /\ w.list \in Seq(TokenSet) /\ task \in [Operators -> Tasks]
  BY <1>1, StoringTyped
<1>3. PICK v \in Tasks :
        /\ task' = [task EXCEPT ![o] = v]
        /\ v.at \in Backend \cup {"idle"}
        /\ v.at # "idle" => v.op = w.op /\ v.token = w.token
        /\ gone' \subseteq gone \cup ({w.token} \ Pooled(pool))
  <2>1. /\ w.op = "paste" => Do(o, "resolving") /\ gone' = gone
        /\ w.op \in {"capture", "keep"} => Do(o, "asking") /\ gone' = gone
        /\ w.op = "sign_in" => Do(o, "filing") /\ gone' = gone
        /\ w.op \in {"delete", "reject"} => Idles(o) /\ gone' = gone \cup ({w.token} \ Pooled(pool))
    BY DEF Saved
  <2>2. CASE w.op \in {"delete", "reject"}
    BY <2>1, <2>2 DEF Idles, Tasks, NoTask
  <2>3. CASE w.op \notin {"delete", "reject"}
    <3>1. w \in Adding
      BY <1>2, <2>3 DEF Deleting
    <3>2. PICK stage \in {"resolving", "asking", "filing"} : Do(o, stage) /\ gone' = gone
      BY <2>1, <2>3, <3>1 DEF Adding, Additions
    <3>3. PICK v : v = [w EXCEPT !.at = stage]
      OBVIOUS
    <3>4. v \in Tasks /\ v.at = stage /\ v.op = w.op /\ v.token = w.token
      BY <3>1, <3>3 DEF Adding, AddingAt, Backend, Tasks
    <3>5. task' = [task EXCEPT ![o] = v]
      BY <1>2, <3>2, <3>3 DEF Do
    <3> QED
      BY <3>2, <3>4, <3>5 DEF Backend
  <2> QED
    BY <2>2, <2>3
<1>4. Becomes(o, v)
  BY <1>3, TaskSet
<1>5. AdminTypes'
  BY <1>1, <1>2, <1>4 DEF AdminTypes, Becomes
<1> QED
  BY <1>1, <1>3, <1>4, <1>5

LEMMA SaveFailsMoves ==
  ASSUME AdminTypes, NEW o \in Operators, SaveFails(o)
  PROVE  /\ AdminTypes' /\ task[o].at = "storing"
         /\ \E v : /\ Becomes(o, v) /\ v.at \in {"undoing", "listing", "idle"}
                   /\ v.at # "idle" => v.op = task[o].op /\ v.token = task[o].token
<1> DEFINE w == task[o]
<1>1. /\ w.at = "storing" /\ stored' = w.list /\ unsaved' = TRUE
      /\ UNCHANGED <<pool, issued, file, cli>>
  BY DEF SaveFails, Stores
<1>2. w \in Adding \cup Deleting /\ w.list \in Seq(TokenSet) /\ task \in [Operators -> Tasks]
  BY <1>1, StoringTyped
<1>3. PICK v \in Tasks :
        /\ task' = [task EXCEPT ![o] = v]
        /\ v.at \in {"undoing", "listing", "idle"}
        /\ v.at # "idle" => v.op = w.op /\ v.token = w.token
  <2>1. \/ w.op \notin {"delete", "reject"} /\ Do(o, "undoing")
        \/ task' = [task EXCEPT ![o].at = "listing", ![o].tries = 2]
        \/ Idles(o)
    BY DEF SaveFails
  <2>2. CASE Idles(o)
    <3>1. task' = [task EXCEPT ![o] = NoTask] /\ NoTask \in Tasks /\ NoTask.at = "idle"
      BY <2>2 DEF Idles, Tasks, NoTask
    <3> QED
      BY <3>1
  <2>3. CASE w.op \notin {"delete", "reject"} /\ Do(o, "undoing")
    <3>1. w \in Adding
      BY <1>2, <2>3 DEF Deleting
    <3>2. PICK v : v = [w EXCEPT !.at = "undoing"]
      OBVIOUS
    <3>3. v \in Tasks /\ v.at = "undoing" /\ v.op = w.op /\ v.token = w.token
      BY <3>1, <3>2 DEF Adding, AddingAt, Tasks
    <3>4. task' = [task EXCEPT ![o] = v]
      BY <1>2, <2>3, <3>2 DEF Do
    <3> QED
      BY <3>3, <3>4
  <2>4. CASE task' = [task EXCEPT ![o].at = "listing", ![o].tries = 2]
    <3>1. PICK v : v = [w EXCEPT !.at = "listing", !.tries = 2]
      OBVIOUS
    <3>2. v \in Tasks /\ v.at = "listing" /\ v.op = w.op /\ v.token = w.token
      BY <1>2, <3>1 DEF Adding, Deleting, AddingAt, Tasks
    <3>3. task' = [task EXCEPT ![o] = v]
      BY <1>2, <2>4, <3>1
    <3> QED
      BY <3>2, <3>3
  <2> QED
    BY <2>1, <2>2, <2>3, <2>4
<1>4. Becomes(o, v)
  BY <1>3, TaskSet
<1>5. AdminTypes'
  BY <1>1, <1>2, <1>4 DEF AdminTypes, Becomes
<1> QED
  BY <1>1, <1>3, <1>4, <1>5

(* A request that is done with its addition, or with taking it back. *)
LEMMA DoneMoves ==
  ASSUME AdminTypes, NEW o \in Operators, task[o].at \in {"undoing"} \cup Backend,
         IF task[o].op = "keep" THEN Do(o, "signing_out") ELSE Idles(o)
  PROVE  /\ task[o] \in Adding
         /\ \E v : Becomes(o, v) /\ (v.at = "idle" \/ (v.at = "signing_out" /\ task[o].op = "keep"))
<1> DEFINE w == task[o]
<1>1. w \in Tasks /\ w \in Adding /\ task \in [Operators -> Tasks]
  BY KindsOfTask DEF AdminTypes
<1>2. CASE w.op = "keep"
  <2>1. PICK v : v = [w EXCEPT !.at = "signing_out"]
    OBVIOUS
  <2>2. v \in Tasks /\ v.at = "signing_out"
    BY <1>1, <2>1 DEF Adding, AddingAt, Tasks
  <2>3. task' = [task EXCEPT ![o] = v]
    BY <1>1, <1>2, <2>1 DEF Do
  <2> QED
    BY <1>1, <1>2, <2>2, <2>3, TaskSet
<1>3. CASE w.op # "keep"
  <2>1. task' = [task EXCEPT ![o] = NoTask] /\ NoTask \in Tasks /\ NoTask.at = "idle"
    BY <1>3 DEF Idles, Tasks, NoTask
  <2> QED
    BY <1>1, <2>1, TaskSet
<1> QED
  BY <1>2, <1>3

LEMMA CredentialNumber == ASSUME AdminTypes, NEW i PROVE CredentialAt(i) \in Nat
<1>1. \A j \in DOMAIN pool : pool[j].issued \in Nat
  BY TokensOf DEF AdminTypes, Accounts
<1> QED
  BY <1>1 DEF CredentialAt

LEMMA AskingMoves ==
  ASSUME AdminTypes, NEW o \in Operators,
         Resolve(o) \/ AskStatus(o) \/ BackendAnswers(o) \/ File(o)
  PROVE  /\ AdminTypes' /\ task[o].at \in Backend
         /\ UNCHANGED <<pool, issued, stored, file, cli, gone, unsaved, readings>>
         /\ \/ Added(o)
            \/ /\ acked' = acked
               /\ \E v : /\ Becomes(o, v) /\ v.at \in {"asking", "answering"}
                         /\ v.op = task[o].op /\ v.token = task[o].token
<1> DEFINE w == task[o]
<1>1. /\ task \in [Operators -> Tasks] /\ w \in Tasks /\ w.at \in Backend
      /\ UNCHANGED <<pool, issued, stored, file, cli, gone, unsaved, readings>>
  BY DEF AdminTypes, Resolve, AskStatus, BackendAnswers, File, Backend
<1>2. w \in Adding
  BY <1>1, KindsOfTask
<1>3. CASE Added(o)
  <2>1. \E v : Becomes(o, v)
    BY <1>1, <1>3, DoneMoves DEF Added
  <2> QED
    BY <1>1, <1>3, <2>1 DEF AdminTypes, Becomes
<1>4. CASE Resolve(o)
  <2>1. PICK c \in Nat : c = CredentialAt(w.slot)
    BY CredentialNumber
  <2>2. PICK v : v = [w EXCEPT !.at = "asking", !.added = c]
    OBVIOUS
  <2>3. v \in Tasks /\ v.at = "asking" /\ v.op = w.op /\ v.token = w.token
    BY <1>2, <2>1, <2>2 DEF Adding, AddingAt, Backend, Tasks
  <2>4. task' = [task EXCEPT ![o] = v] /\ acked' = acked
    BY <1>1, <1>4, <2>1, <2>2 DEF Resolve
  <2> QED
    BY <1>1, <2>3, <2>4, OnlyTypes
<1>5. CASE AskStatus(o) /\ ~Added(o)
  <2>1. PICK c \in Nat : c = CredentialAt(w.slot)
    BY CredentialNumber
  <2>2. task' = [task EXCEPT ![o].at = "answering", ![o].asked = c] /\ acked' = acked
    BY <1>5, <2>1 DEF AskStatus
  <2>3. PICK v : v = [w EXCEPT !.at = "answering", !.asked = c]
    OBVIOUS
  <2>4. v \in Tasks /\ v.at = "answering" /\ v.op = w.op /\ v.token = w.token
    BY <1>2, <2>1, <2>3 DEF Adding, AddingAt, Backend, Tasks
  <2>5. task' = [task EXCEPT ![o] = v]
    BY <1>1, <2>2, <2>3
  <2> QED
    BY <1>1, <2>2, <2>4, <2>5, OnlyTypes
<1>6. CASE BackendAnswers(o) \/ File(o)
  BY <1>3, <1>6 DEF BackendAnswers, File
<1> QED
  BY <1>3, <1>4, <1>5, <1>6

LEMMA PlaceRemoved ==
  ASSUME AdminTypes, NEW i
  PROVE  /\ RemovePlace(i) \in Seq(Accounts)
         /\ NoneTwice(Tokens(pool)) => NoneTwice(Tokens(RemovePlace(i)))
         /\ Pooled(RemovePlace(i)) \subseteq Pooled(pool)
<1>1. CASE i \in DOMAIN pool
  BY <1>1, OneLess DEF RemovePlace, AdminTypes
<1>2. CASE i \notin DOMAIN pool
  BY <1>2 DEF RemovePlace, AdminTypes
<1> QED
  BY <1>1, <1>2

LEMMA UndoMoves ==
  ASSUME AdminTypes, NEW o \in Operators, Undo(o)
  PROVE  /\ AdminTypes' /\ task[o].at = "undoing" /\ task[o] \in Adding
         /\ \E v : Becomes(o, v) /\ (v.at = "idle" \/ (v.at = "signing_out" /\ task[o].op = "keep"))
<1>1. /\ task[o].at = "undoing" /\ pool' = RemovePlace(task[o].slot)
      /\ IF task[o].op = "keep" THEN Do(o, "signing_out") ELSE Idles(o)
      /\ UNCHANGED <<issued, stored, file, cli, unsaved>>
  BY DEF Undo
<1>2. /\ task[o] \in Adding
      /\ \E v : Becomes(o, v) /\ (v.at = "idle" \/ (v.at = "signing_out" /\ task[o].op = "keep"))
  BY <1>1, DoneMoves
<1>3. pool' \in Seq(Accounts)
  BY <1>1, PlaceRemoved
<1>4. AdminTypes'
  BY <1>1, <1>2, <1>3 DEF AdminTypes, Becomes
<1> QED
  BY <1>1, <1>2, <1>4

LEMMA RejectedMoves ==
  ASSUME AdminTypes, NEW o \in Operators, Rejected(o)
  PROVE  /\ AdminTypes' /\ task[o].at = "answering" /\ \E i : pool' = RemovePlace(i)
         /\ \E v : Becomes(o, v) /\ v.at = "listing" /\ v.op = "reject"
<1> DEFINE w == task[o]
<1>1. /\ w.at = "answering" /\ UNCHANGED <<issued, stored, file, cli, unsaved>>
      /\ task' = [task EXCEPT ![o].at = "listing", ![o].op = "reject", ![o].tries = 1]
  BY DEF Rejected
<1>2. PICK i : pool' = RemovePlace(i)
  BY DEF Rejected, RemoveIssued
<1>3. task \in [Operators -> Tasks] /\ w \in Tasks /\ w \in Adding
  BY <1>1, KindsOfTask DEF AdminTypes, Backend
<1>4. PICK v : v = [w EXCEPT !.at = "listing", !.op = "reject", !.tries = 1]
  OBVIOUS
<1>5. v \in Tasks /\ v.at = "listing" /\ v.op = "reject"
  BY <1>3, <1>4 DEF Adding, AddingAt, Tasks
<1>6. task' = [task EXCEPT ![o] = v]
  BY <1>1, <1>3, <1>4
<1>7. Becomes(o, v)
  BY <1>5, <1>6, TaskSet
<1>8. pool' \in Seq(Accounts)
  BY <1>2, PlaceRemoved
<1>9. AdminTypes'
  BY <1>1, <1>7, <1>8 DEF AdminTypes, Becomes
<1> QED
  BY <1>1, <1>2, <1>5, <1>7, <1>9

LEMMA SignOutMoves ==
  ASSUME AdminTypes, NEW o \in Operators, SignOut(o)
  PROVE  /\ AdminTypes' /\ task[o].at = "signing_out" /\ cli' \in {cli, NoToken}
         /\ UNCHANGED <<pool, issued, stored, file, acked, gone, unsaved, readings>>
         /\ Becomes(o, NoTask) /\ NoTask.at = "idle"
<1>1. /\ task' = [task EXCEPT ![o] = NoTask] /\ task[o].at = "signing_out" /\ cli' \in {cli, NoToken}
      /\ UNCHANGED <<pool, issued, stored, file, acked, gone, unsaved, readings>>
  BY DEF SignOut, Idles
<1>2. NoTask \in Tasks /\ NoTask.at = "idle"
  BY DEF Tasks, NoTask
<1>3. Becomes(o, NoTask)
  BY <1>1, <1>2, TaskSet
<1> QED
  BY <1>1, <1>2, <1>3 DEF AdminTypes, Becomes

LEMMA StoreMoves ==
  ASSUME AdminTypes, CLISignsIn \/ SaveTheRest \/ StartFromFile
  PROVE  /\ AdminTypes'
         /\ StartFromFile => /\ Tokens(pool') = file /\ stored' = file /\ ~unsaved' /\ UNCHANGED file
                             /\ \A o \in Operators : task'[o] = NoTask /\ NoTask.at = "idle"
<1>1. CASE CLISignsIn /\ ~StartFromFile
  BY <1>1 DEF AdminTypes, CLISignsIn
<1>2. CASE SaveTheRest /\ ~StartFromFile
  BY <1>2 DEF AdminTypes, SaveTheRest
<1>3. CASE StartFromFile
  <2>1. /\ stored' = file /\ issued' = Len(file)
        /\ pool' = [i \in DOMAIN file |-> [token |-> file[i], issued |-> i]]
        /\ task' = [p \in Operators |-> NoTask] /\ unsaved' = FALSE
        /\ UNCHANGED <<file, cli>>
    BY <1>3 DEF StartFromFile
  <2>2. file \in Seq(TokenSet) /\ Len(file) \in Nat
    BY LenProperties DEF AdminTypes
  <2>3. pool' \in Seq(Accounts) /\ Tokens(pool') = file
    BY <2>1, <2>2, FromFile
  <2>4. NoTask \in Tasks /\ NoTask.at = "idle"
    BY DEF Tasks, NoTask
  <2>5. AdminTypes'
    BY <2>1, <2>2, <2>3, <2>4 DEF AdminTypes
  <2> QED
    BY <2>1, <2>3, <2>4, <2>5
<1> QED
  BY <1>1, <1>2, <1>3

LEMMA InitTypes ==
  ASSUME AdminInit
  PROVE  /\ AdminTypes /\ Tokens(pool) = <<>> /\ NoTask.at = "idle"
         /\ \A o \in Operators : task[o] = NoTask
<1>1. /\ pool = <<>> /\ issued = 0 /\ stored = <<>> /\ file = <<>> /\ cli = NoToken
      /\ task = [p \in Operators |-> NoTask] /\ unsaved = FALSE
  BY DEF AdminInit
<1>2. NoTask \in Tasks /\ NoTask.at = "idle"
  BY DEF Tasks, NoTask
<1>3. pool \in Seq(Accounts) /\ stored \in Seq(TokenSet)
  BY <1>1, EmptySeq
<1>4. AdminTypes
  BY <1>1, <1>2, <1>3 DEF AdminTypes
<1>5. Tokens(pool) = <<>>
  <2>1. Tokens(pool) \in Seq(TokenSet) /\ Len(Tokens(pool)) = Len(pool)
    BY <1>3, TokensOf
  <2>2. Len(pool) = 0
    BY <1>1
  <2> QED
    BY <2>1, <2>2, EmptySeq
<1> QED
  BY <1>1, <1>2, <1>4, <1>5

-----------------------------------------------------------------------------
(* Any number of requests at once.                                         *)

(* When nobody is about to read the list, the pool's is in the hand of him *)
(* who read last, or in the store, unless that one was overtaken.          *)
Newest(p) ==
  IF held = <<>> THEN overtaken \/ stored = p ELSE task[held[Len(held)]].list = p

HeldInv ==
  /\ AdminTypes
  /\ held \in Seq(Operators) /\ NoneTwice(held)
  /\ \A i \in DOMAIN held : task[held[i]].at = "storing"
  /\ ~unsaved => file = stored
  /\ (\A o \in Operators : task[o].at # "listing") => Newest(Tokens(pool))

(* Those who read after him, or all when he is not among them. *)
Behind(h, o) == SubSeq(h, SelectInSeq(h, LAMBDA p : p = o) + 1, Len(h))

LEMMA StillHeld ==
  ASSUME NEW h \in Seq(Operators), NoneTwice(h), NEW o, NEW g, g = Behind(h, o)
  PROVE  /\ g \in Seq(Operators) /\ NoneTwice(g)
         /\ \A i \in DOMAIN g : g[i] # o /\ \E j \in DOMAIN h : g[i] = h[j]
         /\ g # <<>> => h # <<>> /\ g[Len(g)] = h[Len(h)]
         /\ g = <<>> /\ o \in ToSet(h) => h # <<>> /\ h[Len(h)] = o
<1>1. PICK n : n = Len(h)
  OBVIOUS
<1>2. n \in Nat /\ DOMAIN h = 1..n /\ \A i \in 1..n : h[i] \in Operators
  BY <1>1, SeqFacts
<1>3. PICK k : k = SelectInSeq(h, LAMBDA p : p = o)
  OBVIOUS
<1>4. PICK hits : hits = {i \in 1..n : h[i] = o}
  OBVIOUS
<1>5. k = IF hits # {} THEN Min(hits) ELSE 0
  BY <1>1, <1>3, <1>4 DEF SelectInSeq
<1>6. k \in 0..n /\ (k # 0 => h[k] = o) /\ (o \in ToSet(h) => k # 0)
  <2>1. hits \in SUBSET Nat /\ (o \in ToSet(h) => hits # {})
    BY <1>2, <1>4 DEF ToSet
  <2>2. CASE hits = {}
    BY <1>2, <1>5, <2>1, <2>2
  <2>3. CASE hits # {}
    <3>1. k \in hits
      BY <1>5, <2>1, <2>3, MinIsLeast
    <3> QED
      BY <1>2, <1>4, <3>1
  <2> QED
    BY <2>2, <2>3
<1>7. /\ g \in Seq(Operators) /\ Len(g) = n - k
      /\ \A i \in 1..(n - k) : g[i] = h[k + i]
  <2>1. PICK m : m = k + 1
    OBVIOUS
  <2>2. m \in Int /\ n \in Int /\ \A i \in m..n : h[i] \in Operators
    BY <1>2, <1>6, <2>1
  <2>3. g = SubSeq(h, m, n)
    BY <1>1, <1>3, <2>1 DEF Behind
  <2>4. /\ g \in Seq(Operators) /\ Len(g) = IF m <= n THEN n - m + 1 ELSE 0
        /\ \A i \in 1..(n - m + 1) : g[i] = h[m + i - 1]
    BY <2>2, <2>3, SubSeqProperties
  <2>5. n - m + 1 = n - k /\ \A i \in Int : m + i - 1 = k + i
    BY <1>2, <1>6, <2>1
  <2>6. Len(g) = n - k
    BY <1>2, <1>6, <2>1, <2>4
  <2>7. ASSUME NEW i \in 1..(n - k)  PROVE g[i] = h[k + i]
    <3>1. i \in 1..(n - m + 1) /\ m + i - 1 = k + i
      BY <2>5
    <3> QED
      BY <2>4, <3>1
  <2> QED
    BY <2>4, <2>6, <2>7
<1>8. DOMAIN g = 1..(n - k)
  BY <1>7, SeqFacts
<1>9. \A i \in 1..(n - k) : k + i \in 1..n /\ k + i # k
  BY <1>2, <1>6
<1>10. NoneTwice(g)
  <2> SUFFICES ASSUME NEW i \in 1..(n - k), NEW j \in 1..(n - k), g[i] = g[j]  PROVE i = j
    BY <1>8 DEF NoneTwice
  <2>1. h[k + i] = h[k + j] /\ k + i \in 1..n /\ k + j \in 1..n
    BY <1>7, <1>9
  <2>2. k + i = k + j
    BY <1>2, <2>1 DEF NoneTwice
  <2> QED
    BY <1>6, <2>2
<1>11. ASSUME NEW i \in 1..(n - k)  PROVE g[i] # o /\ \E j \in DOMAIN h : g[i] = h[j]
  <2>1. g[i] = h[k + i] /\ k + i \in DOMAIN h
    BY <1>2, <1>7, <1>9
  <2>2. k # 0 => h[k + i] # h[k]
    <3>1. k # 0 => k \in DOMAIN h
      BY <1>2, <1>6
    <3> QED
      BY <1>9, <2>1, <3>1 DEF NoneTwice
  <2>3. k = 0 => o \notin ToSet(h)
    BY <1>6
  <2> QED
    BY <1>6, <2>1, <2>2, <2>3 DEF ToSet
<1>12. g # <<>> => h # <<>> /\ g[Len(g)] = h[Len(h)]
  <2> SUFFICES ASSUME g # <<>>  PROVE h # <<>> /\ g[Len(g)] = h[Len(h)]
    OBVIOUS
  <2>1. Len(g) # 0
    BY <1>7, EmptySeq
  <2>2. n - k \in 1..(n - k) /\ k + (n - k) = n /\ n # 0
    BY <1>2, <1>6, <1>7, <2>1
  <2>3. g[n - k] = h[n]
    BY <1>7, <2>2
  <2> QED
    BY <1>1, <1>7, <2>2, <2>3
<1>13. g = <<>> /\ o \in ToSet(h) => h # <<>> /\ h[Len(h)] = o
  <2> SUFFICES ASSUME g = <<>>, o \in ToSet(h)  PROVE h # <<>> /\ h[Len(h)] = o
    OBVIOUS
  <2>1. Len(g) = 0
    OBVIOUS
  <2>2. k = n /\ k # 0
    BY <1>2, <1>6, <1>7, <2>1
  <2> QED
    BY <1>1, <1>6, <2>2
<1> QED
  BY <1>7, <1>8, <1>10, <1>11, <1>12, <1>13

(* A request that has no list in hand goes on: it edits the pool and is    *)
(* about to read the list, or leaves the pool alone.                       *)
LEMMA HeldStays ==
  ASSUME HeldInv, AdminTypes', NEW o \in Operators, NEW v, Becomes(o, v),
         UNCHANGED <<stored, file, unsaved, readings>>, task[o].at # "storing",
         v.at = "listing" \/ (pool' = pool /\ task[o].at # "listing")
  PROVE  HeldInv'
<1>1. UNCHANGED <<stored, file, unsaved, held, overtaken>>
  BY DEF readings
<1>2. \A i \in DOMAIN held : held[i] \in Operators /\ held[i] # o /\ task'[held[i]] = task[held[i]]
  <2>1. \A i \in DOMAIN held : held[i] \in Operators /\ held[i] # o
    BY SeqFacts DEF HeldInv
  <2> QED
    BY <2>1 DEF Becomes
<1>3. (\A p \in Operators : task'[p].at # "listing") => Newest(Tokens(pool))'
  <2> SUFFICES ASSUME \A p \in Operators : task'[p].at # "listing"  PROVE Newest(Tokens(pool))'
    OBVIOUS
  <2>1. pool' = pool /\ task[o].at # "listing"
    BY DEF Becomes
  <2>2. \A p \in Operators : task[p].at # "listing"
    BY <2>1 DEF Becomes
  <2>3. Newest(Tokens(pool))
    BY <2>2 DEF HeldInv
  <2>4. held # <<>> => Len(held) \in DOMAIN held
    BY SeqFacts, EmptySeq DEF HeldInv
  <2> QED
    BY <1>1, <1>2, <2>1, <2>3, <2>4 DEF Newest
<1> QED
  BY <1>1, <1>2, <1>3 DEF HeldInv

LEMMA ReadTokensHeld == ASSUME HeldInv, NEW o \in Operators, ReadTokens(o) PROVE HeldInv'
<1>1. AdminTypes' /\ task[o].at = "listing"
  BY ReadTokensMoves DEF HeldInv
<1>2. PICK v : Becomes(o, v) /\ v.at = "storing" /\ v.list = Tokens(pool)
  BY ReadTokensMoves DEF HeldInv
<1>3. held' = Append(held, o) /\ UNCHANGED <<pool, stored, file, unsaved, overtaken>>
  BY DEF ReadTokens
<1>4. PICK h, n : h = held' /\ n = Len(held)
  OBVIOUS
<1>5. n \in Nat /\ DOMAIN held = 1..n /\ \A i \in 1..n : held[i] \in Operators /\ held[i] # o
  BY <1>1, <1>4, SeqFacts DEF HeldInv
<1>6. /\ h \in Seq(Operators) /\ h # <<>> /\ Len(h) = n + 1 /\ h[n + 1] = o
      /\ \A i \in 1..n : h[i] = held[i]
  BY <1>3, <1>4, AppendProperties DEF HeldInv
<1>7. DOMAIN h = 1..(n + 1)
  BY <1>6, SeqFacts
<1>8. NoneTwice(h)
  <2> SUFFICES ASSUME NEW i \in 1..(n + 1), NEW j \in 1..(n + 1), h[i] = h[j]  PROVE i = j
    BY <1>7 DEF NoneTwice
  <2>1. \A l \in 1..(n + 1) : l = n + 1 \/ l \in 1..n
    BY <1>5
  <2>2. \A l, m \in 1..n : held[l] = held[m] => l = m
    BY <1>5 DEF HeldInv, NoneTwice
  <2> QED
    BY <1>5, <1>6, <2>1, <2>2
<1>9. ASSUME NEW i \in 1..(n + 1)  PROVE task'[h[i]].at = "storing"
  <2>1. CASE i = n + 1
    BY <1>2, <1>6, <2>1 DEF Becomes
  <2>2. CASE i \in 1..n
    <3>1. h[i] \in Operators /\ h[i] # o /\ task[h[i]].at = "storing"
      BY <1>5, <1>6, <2>2 DEF HeldInv
    <3> QED
      BY <1>2, <3>1 DEF Becomes
  <2> QED
    BY <1>5, <2>1, <2>2
<1>10. Newest(Tokens(pool))'
  BY <1>2, <1>3, <1>4, <1>6 DEF Newest, Becomes
<1> QED
  BY <1>1, <1>3, <1>4, <1>6, <1>7, <1>8, <1>9, <1>10 DEF HeldInv

(* The list in hand is stored, whether or not it can be written.           *)
LEMMA StoresHeld ==
  ASSUME HeldInv, AdminTypes', NEW o \in Operators, task[o].at = "storing", Stores(o), pool' = pool,
         NEW v, Becomes(o, v), v.at # "storing", ~unsaved' => file' = stored'
  PROVE  HeldInv'
<1>1. /\ stored' = task[o].list /\ overtaken' = (o \notin ToSet(held))
      /\ held' = Behind(held, o)
  BY DEF Stores, Behind
<1>2. PICK g : g = held'
  OBVIOUS
<1>3. held \in Seq(Operators) /\ NoneTwice(held)
  BY DEF HeldInv
<1>4. /\ g \in Seq(Operators) /\ NoneTwice(g)
      /\ \A i \in DOMAIN g : g[i] # o /\ \E j \in DOMAIN held : g[i] = held[j]
      /\ g # <<>> => held # <<>> /\ g[Len(g)] = held[Len(held)]
      /\ g = <<>> /\ o \in ToSet(held) => held # <<>> /\ held[Len(held)] = o
  BY <1>1, <1>2, <1>3, StillHeld
<1>5. \A i \in DOMAIN g : g[i] \in Operators /\ task'[g[i]] = task[g[i]]
  <2>1. \A i \in DOMAIN g : g[i] \in Operators /\ g[i] # o
    BY <1>4, SeqFacts
  <2> QED
    BY <2>1 DEF Becomes
<1>6. \A i \in DOMAIN g : task'[g[i]].at = "storing"
  BY <1>4, <1>5 DEF HeldInv
<1>7. (\A p \in Operators : task'[p].at # "listing") => Newest(Tokens(pool))'
  <2> SUFFICES ASSUME \A p \in Operators : task'[p].at # "listing"  PROVE Newest(Tokens(pool))'
    OBVIOUS
  <2>1. \A p \in Operators : task[p].at # "listing"
    BY DEF Becomes
  <2>2. Newest(Tokens(pool))
    BY <2>1 DEF HeldInv
  <2>3. CASE g = <<>>
    BY <1>1, <1>2, <1>4, <2>2, <2>3 DEF Newest
  <2>4. CASE g # <<>>
    <3>1. Len(g) \in DOMAIN g
      BY <1>4, <2>4, SeqFacts, EmptySeq
    <3>2. task'[g[Len(g)]].list = Tokens(pool)
      BY <1>4, <1>5, <2>2, <2>4, <3>1 DEF Newest
    <3> QED
      BY <1>2, <2>4, <3>2 DEF Newest
  <2> QED
    BY <2>3, <2>4
<1> QED
  BY <1>2, <1>4, <1>6, <1>7 DEF HeldInv

LEMMA SaveHeld ==
  ASSUME HeldInv, NEW o \in Operators, Saved(o) \/ SaveFails(o)
  PROVE  HeldInv'
<1>1. CASE Saved(o)
  <2>1. AdminTypes' /\ task[o].at = "storing" /\ Stores(o) /\ pool' = pool /\ file' = stored'
    BY <1>1, SavedMoves DEF HeldInv, Saved
  <2>2. PICK v : Becomes(o, v) /\ v.at \in Backend \cup {"idle"}
    BY <1>1, SavedMoves DEF HeldInv
  <2>3. v.at # "storing"
    BY <2>2 DEF Backend
  <2> QED
    BY <2>1, <2>2, <2>3, StoresHeld
<1>2. CASE SaveFails(o)
  <2>1. AdminTypes' /\ task[o].at = "storing" /\ Stores(o) /\ pool' = pool /\ unsaved'
    BY <1>2, SaveFailsMoves DEF HeldInv, SaveFails
  <2>2. PICK v : Becomes(o, v) /\ v.at \in {"undoing", "listing", "idle"}
    BY <1>2, SaveFailsMoves DEF HeldInv
  <2> QED
    BY <2>1, <2>2, StoresHeld
<1> QED
  BY <1>1, <1>2

(* An account is withdrawn, and nobody holds the list without it. *)
LEMMA UndoHeld == ASSUME HeldInv, NEW o \in Operators, Undo(o) PROVE HeldInv'
<1>1. AdminTypes' /\ held' = <<>> /\ overtaken' = TRUE /\ UNCHANGED <<stored, file, unsaved>>
  BY UndoMoves DEF HeldInv, Undo
<1> QED
  BY <1>1, EmptySeq DEF HeldInv, NoneTwice, Newest

LEMMA EditHeld ==
  ASSUME HeldInv, NEW o \in Operators,
         Paste(o) \/ FinishSignIn(o) \/ Capture(o) \/ LogoutCLI(o) \/ Delete(o) \/ Rejected(o)
  PROVE  HeldInv'
<1>1. AdminTypes /\ cli \in TokenSet \cup {NoToken}
  BY DEF HeldInv, AdminTypes
<1>2. Unoccupied(o) => task[o].at = "idle"
  BY DEF Unoccupied, NoTask
<1>3. ASSUME NEW op \in Additions, NEW t \in TokenSet, Join(o, op, t), Unoccupied(o)  PROVE HeldInv'
  <2>1. AdminTypes' /\ UNCHANGED <<stored, file, unsaved, readings>>
    BY <1>1, <1>3, JoinMoves DEF Join
  <2>2. PICK v : Becomes(o, v) /\ v.at = "listing"
    BY <1>1, <1>3, JoinMoves
  <2> QED
    BY <1>2, <1>3, <2>1, <2>2, HeldStays
<1>4. CASE Paste(o) \/ FinishSignIn(o) \/ Capture(o) \/ (LogoutCLI(o) /\ Join(o, "keep", cli))
  BY <1>1, <1>3, <1>4 DEF Paste, FinishSignIn, Capture, LogoutCLI, Additions
<1>5. CASE LogoutCLI(o) /\ ~Join(o, "keep", cli)
  <2>1. AdminTypes' /\ UNCHANGED <<pool, stored, file, unsaved, readings>> /\ Unoccupied(o)
    BY <1>1, <1>5, LogoutMoves DEF LogoutCLI
  <2>2. PICK v : Becomes(o, v)
    BY <1>1, <1>5, LogoutMoves
  <2> QED
    BY <1>2, <2>1, <2>2, HeldStays
<1>6. CASE Delete(o)
  <2>1. AdminTypes' /\ UNCHANGED <<stored, file, unsaved, readings>> /\ Unoccupied(o)
    BY <1>1, <1>6, DeleteMoves DEF Delete
  <2>2. PICK v : Becomes(o, v) /\ v.at = "listing"
    BY <1>1, <1>6, DeleteMoves
  <2> QED
    BY <1>2, <2>1, <2>2, HeldStays
<1>7. CASE Rejected(o)
  <2>1. AdminTypes' /\ UNCHANGED <<stored, file, unsaved, readings>> /\ task[o].at # "storing"
    BY <1>1, <1>7, RejectedMoves DEF Rejected
  <2>2. PICK v : Becomes(o, v) /\ v.at = "listing"
    BY <1>1, <1>7, RejectedMoves
  <2> QED
    BY <2>1, <2>2, HeldStays
<1> QED
  BY <1>4, <1>5, <1>6, <1>7

LEMMA AskingHeld ==
  ASSUME HeldInv, NEW o \in Operators,
         Resolve(o) \/ AskStatus(o) \/ BackendAnswers(o) \/ File(o) \/ SignOut(o)
  PROVE  HeldInv'
<1>1. AdminTypes
  BY DEF HeldInv
<1>2. CASE SignOut(o)
  <2>1. /\ AdminTypes' /\ task[o].at = "signing_out" /\ Becomes(o, NoTask)
        /\ UNCHANGED <<pool, stored, file, unsaved, readings>>
    BY <1>1, <1>2, SignOutMoves
  <2> QED
    BY <2>1, HeldStays
<1>3. CASE ~SignOut(o)
  <2>1. /\ AdminTypes' /\ task[o].at \in Backend /\ UNCHANGED <<pool, stored, file, unsaved, readings>>
        /\ Added(o) \/ \E v : Becomes(o, v)
    BY <1>1, <1>3, AskingMoves
  <2>2. PICK v : Becomes(o, v)
    BY <1>1, <2>1, DoneMoves DEF Added
  <2>3. task[o].at \notin {"storing", "listing"}
    BY <2>1 DEF Backend
  <2> QED
    BY <2>1, <2>2, <2>3, HeldStays
<1> QED
  BY <1>2, <1>3

LEMMA StoreHeld == ASSUME HeldInv, CLISignsIn \/ SaveTheRest \/ StartFromFile PROVE HeldInv'
<1>1. AdminTypes'
  BY StoreMoves DEF HeldInv
<1>2. CASE CLISignsIn
  <2>1. UNCHANGED <<pool, stored, file, task, unsaved, held, overtaken>>
    BY <1>2 DEF CLISignsIn, readings
  <2> QED
    BY <1>1, <2>1 DEF HeldInv, Newest
<1>3. CASE SaveTheRest
  <2>1. file' = stored' /\ UNCHANGED <<pool, stored, task, unsaved, held, overtaken>>
    BY <1>3 DEF SaveTheRest, readings
  <2> QED
    BY <1>1, <2>1 DEF HeldInv, Newest
<1>4. CASE StartFromFile
  <2>1. Tokens(pool') = file /\ stored' = file /\ UNCHANGED file
    BY <1>4, StoreMoves DEF HeldInv
  <2>2. held' = <<>>
    BY <1>4 DEF StartFromFile
  <2> QED
    BY <1>1, <2>1, <2>2, EmptySeq DEF HeldInv, NoneTwice, Newest
<1> QED
  BY <1>2, <1>3, <1>4

LEMMA HeldAlways == AdminSpec => []HeldInv
<1>1. AdminInit => HeldInv
  <2> SUFFICES ASSUME AdminInit  PROVE HeldInv
    OBVIOUS
  <2>1. AdminTypes /\ Tokens(pool) = <<>>
    BY InitTypes
  <2>2. held = <<>> /\ stored = <<>> /\ file = <<>>
    BY DEF AdminInit
  <2> QED
    BY <2>1, <2>2, EmptySeq DEF HeldInv, NoneTwice, Newest
<1>2. HeldInv /\ [AdminNext]_adminVars => HeldInv'
  <2> SUFFICES ASSUME HeldInv, [AdminNext]_adminVars  PROVE HeldInv'
    OBVIOUS
  <2>1. CASE UNCHANGED adminVars
    <3>1. UNCHANGED <<pool, issued, stored, file, cli, task, unsaved, held, overtaken>>
      BY <2>1 DEF adminVars, readings
    <3>2. AdminTypes'
      BY <3>1 DEF HeldInv, AdminTypes
    <3> QED
      BY <3>1, <3>2 DEF HeldInv, Newest
  <2>2. CASE CLISignsIn \/ SaveTheRest \/ StartFromFile
    BY <2>2, StoreHeld
  <2>3. ASSUME NEW o \in Operators,
               \/ Paste(o) \/ Capture(o) \/ FinishSignIn(o) \/ LogoutCLI(o) \/ Delete(o)
               \/ ReadTokens(o) \/ Saved(o) \/ SaveFails(o) \/ Undo(o) \/ Resolve(o)
               \/ AskStatus(o) \/ BackendAnswers(o) \/ Rejected(o) \/ File(o) \/ SignOut(o)
        PROVE  HeldInv'
    BY <2>3, EditHeld, ReadTokensHeld, SaveHeld, UndoHeld, AskingHeld
  <2> QED
    BY <2>1, <2>2, <2>3 DEF AdminNext
<1> QED
  BY <1>1, <1>2, PTL DEF AdminSpec

(* When no request is at work and the last save of the list succeeded, the *)
(* file lists the accounts the pool serves from, unless what was stored    *)
(* last was overtaken: for any number of requests at once and of accounts, *)
(* and any failures of saves.                                              *)
THEOREM FileListsThePool == AdminSpec => []StoreFollowsUnlessOvertaken
<1>1. HeldInv => StoreFollowsUnlessOvertaken
  <2> SUFFICES ASSUME HeldInv, \A o \in Operators : Unoccupied(o), ~unsaved, ~overtaken
               PROVE  file = Tokens(pool)
    BY DEF StoreFollowsUnlessOvertaken
  <2>1. \A o \in Operators : task[o].at = "idle"
    BY DEF Unoccupied, NoTask
  <2>2. held = <<>>
    <3>1. \A i \in DOMAIN held : held[i] \in Operators
      BY SeqFacts DEF HeldInv
    <3>2. DOMAIN held = {}
      BY <2>1, <3>1 DEF HeldInv
    <3> QED
      BY <3>2, EmptySeq, SeqFacts DEF HeldInv
  <2>3. Newest(Tokens(pool))
    BY <2>1 DEF HeldInv
  <2> QED
    BY <2>2, <2>3 DEF HeldInv, Newest
<1> QED
  BY <1>1, HeldAlways, PTL

-----------------------------------------------------------------------------
(* One request at a time: with two, the later of two saves may store the   *)
(* earlier list, without an account that was reported as added.            *)

LEMMA JoinKeeps ==
  ASSUME NEW o \in Operators, AdminInv(o), Unoccupied(o), NEW op \in Additions, NEW t \in TokenSet,
         op = "keep" => t = cli, Join(o, op, t)
  PROVE  AdminInv(o)'
<1>1. PICK p : p = Tokens(pool)
  OBVIOUS
<1>2. /\ t \notin ToSet(p) /\ gone' = gone \ {t} /\ UNCHANGED <<stored, file, cli, acked, unsaved>>
  BY <1>1 DEF Join, Pooled
<1>3. AdminTypes /\ Listed(p, stored, file, acked, gone, unsaved)
  BY <1>1 DEF AdminInv
<1>4. /\ AdminTypes' /\ Tokens(pool') = Append(p, t)
      /\ \E v : Becomes(o, v) /\ v.at = "listing" /\ v.op = op /\ v.token = t
  BY <1>1, <1>3, JoinMoves
<1>5. p \in Seq(TokenSet)
  BY <1>1, <1>3, TokensOf DEF AdminTypes
<1>6. ToSet(Tokens(pool')) = ToSet(p) \cup {t} /\ NoneTwice(Tokens(pool'))
  <2>1. ToSet(Append(p, t)) = ToSet(p) \cup {t} /\ NoneTwice(Append(p, t))
    BY <1>2, <1>3, <1>5, OneMore DEF Listed
  <2> QED
    BY <1>4, <2>1
<1>7. Listed(Tokens(pool'), stored', file', acked', gone', unsaved')
  BY <1>2, <1>3, <1>6 DEF Listed
<1>8. Standing(task'[o], Tokens(pool'), stored', cli', unsaved')
  BY <1>2, <1>4, <1>6 DEF Becomes, Standing, Settled, Backend
<1> QED
  BY <1>4, <1>7, <1>8 DEF AdminInv

LEMMA AddKeeps ==
  ASSUME NEW o \in Operators, AdminInv(o), Paste(o) \/ FinishSignIn(o) \/ Capture(o) \/ LogoutCLI(o)
  PROVE  AdminInv(o)'
<1>1. cli \in TokenSet \cup {NoToken} /\ AdminTypes
  BY DEF AdminInv, AdminTypes
<1>2. CASE Paste(o) \/ FinishSignIn(o) \/ Capture(o)
  BY <1>1, <1>2, JoinKeeps DEF Paste, FinishSignIn, Capture, Additions
<1>3. CASE LogoutCLI(o) /\ Join(o, "keep", cli)
  BY <1>1, <1>3, JoinKeeps DEF LogoutCLI, Additions
<1>4. CASE LogoutCLI(o) /\ ~Join(o, "keep", cli)
  <2>1. /\ AdminTypes' /\ cli # NoToken /\ cli \in Pooled(pool)
        /\ UNCHANGED <<pool, issued, stored, file, cli, acked, gone, unsaved>>
    BY <1>1, <1>4, LogoutMoves
  <2>2. PICK v : Becomes(o, v) /\ v.at = "signing_out"
    BY <1>1, <1>4, LogoutMoves
  <2>3. task[o].at = "idle"
    BY <1>4 DEF LogoutCLI, Unoccupied, NoTask
  <2>4. Standing(v, Tokens(pool), stored, cli, unsaved)
    BY <2>1, <2>2, <2>3 DEF AdminInv, Standing, Settled, Backend, Pooled
  <2> QED
    BY <2>1, <2>2, <2>4, OnlyTheTask
<1> QED
  BY <1>2, <1>3, <1>4

LEMMA DeleteKeeps == ASSUME NEW o \in Operators, AdminInv(o), Delete(o) PROVE AdminInv(o)'
<1>1. PICK p : p = Tokens(pool)
  OBVIOUS
<1>2. PICK i \in DOMAIN pool :
        /\ pool' = RemoveAt(pool, i) /\ acked' = acked \ {pool[i].token}
        /\ UNCHANGED <<stored, file, cli, gone, unsaved>>
  BY DEF Delete
<1>3. AdminTypes /\ Listed(p, stored, file, acked, gone, unsaved)
  BY <1>1 DEF AdminInv
<1>4. /\ NoneTwice(Tokens(pool')) /\ ToSet(Tokens(pool')) \subseteq ToSet(p)
      /\ ToSet(p) \ {pool[i].token} \subseteq ToSet(Tokens(pool'))
  BY <1>1, <1>2, <1>3, OneLess DEF AdminTypes, Listed, Pooled
<1>5. AdminTypes' /\ \E v : Becomes(o, v) /\ v.at = "listing" /\ v.op = "delete"
  BY <1>3, DeleteMoves
<1>6. Listed(Tokens(pool'), stored', file', acked', gone', unsaved')
  BY <1>2, <1>3, <1>4 DEF Listed
<1>7. Standing(task'[o], Tokens(pool'), stored', cli', unsaved')
  BY <1>5 DEF Becomes, Standing, Settled, Backend
<1> QED
  BY <1>5, <1>6, <1>7 DEF AdminInv

LEMMA ReadTokensKeeps == ASSUME NEW o \in Operators, AdminInv(o), ReadTokens(o) PROVE AdminInv(o)'
<1>1. AdminTypes /\ UNCHANGED <<pool, issued, stored, file, cli, acked, gone, unsaved>>
  BY DEF AdminInv, ReadTokens
<1>2. AdminTypes' /\ task[o].at = "listing"
  BY <1>1, ReadTokensMoves
<1>3. PICK v : /\ Becomes(o, v) /\ v.at = "storing" /\ v.list = Tokens(pool)
               /\ v.op = task[o].op /\ v.token = task[o].token
  BY <1>1, ReadTokensMoves
<1>4. Standing(v, Tokens(pool), stored, cli, unsaved)
  BY <1>2, <1>3 DEF AdminInv, Standing, Settled, Backend
<1> QED
  BY <1>1, <1>2, <1>3, <1>4, OnlyTheTask

LEMMA SavedKeeps == ASSUME NEW o \in Operators, AdminInv(o), Saved(o) PROVE AdminInv(o)'
<1>1. PICK w, p : w = task[o] /\ p = Tokens(pool)
  OBVIOUS
<1>2. /\ w.at = "storing" /\ stored' = w.list /\ file' = w.list /\ unsaved' = FALSE
      /\ UNCHANGED <<pool, issued, cli, acked>>
  BY <1>1 DEF Saved, Stores
<1>3. /\ AdminTypes /\ Listed(p, stored, file, acked, gone, unsaved)
      /\ Standing(w, p, stored, cli, unsaved) /\ w.list = p
  BY <1>1, <1>2 DEF AdminInv, Standing
<1>4. /\ AdminTypes' /\ gone' \subseteq gone \cup ({w.token} \ ToSet(p))
      /\ \E v : /\ Becomes(o, v) /\ v.at \in Backend \cup {"idle"}
                /\ v.at # "idle" => v.op = w.op /\ v.token = w.token
  BY <1>1, <1>3, SavedMoves DEF Pooled
<1>5. Tokens(pool') = p /\ stored' = p /\ file' = p /\ acked' = acked /\ cli' = cli /\ unsaved' = FALSE
  BY <1>1, <1>2, <1>3
<1>6. Listed(Tokens(pool'), stored', file', acked', gone', unsaved')
  <2>1. NoneTwice(p) /\ acked \subseteq ToSet(p) /\ gone \cap ToSet(p) = {}
    BY <1>3 DEF Listed
  <2>2. gone' \cap ToSet(p) = {}
    BY <1>4, <2>1
  <2> QED
    BY <1>5, <2>1, <2>2 DEF Listed
<1>7. Standing(task'[o], Tokens(pool'), stored', cli', unsaved')
  <2>1. PICK v : /\ Becomes(o, v) /\ v.at \in Backend \cup {"idle"}
                 /\ v.at # "idle" => v.op = w.op /\ v.token = w.token
    BY <1>4
  <2>2. v.at \notin {"storing", "undoing", "signing_out"}
    BY <2>1 DEF Backend
  <2>3. v.at # "idle" /\ v.op = "keep" => cli = v.token /\ cli \in ToSet(p)
    BY <1>2, <1>3, <2>1 DEF Standing
  <2> QED
    BY <1>5, <2>1, <2>2, <2>3 DEF Becomes, Standing
<1> QED
  BY <1>4, <1>6, <1>7 DEF AdminInv

LEMMA SaveFailsKeeps == ASSUME NEW o \in Operators, AdminInv(o), SaveFails(o) PROVE AdminInv(o)'
<1>1. PICK w, p : w = task[o] /\ p = Tokens(pool)
  OBVIOUS
<1>2. /\ w.at = "storing" /\ stored' = w.list /\ unsaved' = TRUE
      /\ UNCHANGED <<pool, issued, file, cli, acked, gone>>
  BY <1>1 DEF SaveFails, Stores
<1>3. /\ AdminTypes /\ Listed(p, stored, file, acked, gone, unsaved)
      /\ Standing(w, p, stored, cli, unsaved) /\ w.list = p
  BY <1>1, <1>2 DEF AdminInv, Standing
<1>4. /\ AdminTypes'
      /\ \E v : /\ Becomes(o, v) /\ v.at \in {"undoing", "listing", "idle"}
                /\ v.at # "idle" => v.op = w.op /\ v.token = w.token
  BY <1>1, <1>3, SaveFailsMoves
<1>5. Tokens(pool') = p /\ stored' = p /\ UNCHANGED <<file, acked, gone, cli>> /\ unsaved' = TRUE
  BY <1>1, <1>2, <1>3
<1>6. Listed(Tokens(pool'), stored', file', acked', gone', unsaved')
  BY <1>3, <1>5 DEF Listed
<1>7. Standing(task'[o], Tokens(pool'), stored', cli', unsaved')
  <2>1. PICK v : /\ Becomes(o, v) /\ v.at \in {"undoing", "listing", "idle"}
                 /\ v.at # "idle" => v.op = w.op /\ v.token = w.token
    BY <1>4
  <2>2. v.at \notin Backend \cup {"storing", "signing_out"}
    BY <2>1 DEF Backend
  <2>3. v.at # "idle" /\ v.op = "keep" => cli = v.token /\ cli \in ToSet(p)
    BY <1>2, <1>3, <2>1 DEF Standing
  <2> QED
    BY <1>5, <2>1, <2>2, <2>3 DEF Becomes, Standing
<1> QED
  BY <1>4, <1>6, <1>7 DEF AdminInv

(* The rest of an addition: the lists stay, the request goes on or is      *)
(* done, and its account may be told to have been added.                   *)
LEMMA AskingKeeps ==
  ASSUME NEW o \in Operators, AdminInv(o), Resolve(o) \/ AskStatus(o) \/ BackendAnswers(o) \/ File(o)
  PROVE  AdminInv(o)'
<1>1. PICK w, p : w = task[o] /\ p = Tokens(pool)
  OBVIOUS
<1>2. /\ AdminTypes /\ Listed(p, stored, file, acked, gone, unsaved)
      /\ Standing(w, p, stored, cli, unsaved)
  BY <1>1 DEF AdminInv
<1>3. /\ AdminTypes' /\ w.at \in Backend
      /\ UNCHANGED <<pool, issued, stored, file, cli, gone, unsaved>>
      /\ \/ Added(o)
         \/ /\ acked' = acked
            /\ \E v : /\ Becomes(o, v) /\ v.at \in {"asking", "answering"}
                      /\ v.op = w.op /\ v.token = w.token
  BY <1>1, <1>2, AskingMoves
<1>4. ~unsaved /\ stored = p /\ file = p
  BY <1>2, <1>3 DEF Standing, Listed, Settled
<1>5. CASE ~Added(o)
  <2>1. PICK v : /\ Becomes(o, v) /\ v.at \in {"asking", "answering"} /\ v.op = w.op /\ v.token = w.token
    BY <1>3, <1>5
  <2>2. Standing(v, p, stored, cli, unsaved)
    BY <1>2, <1>3, <2>1 DEF Standing, Settled, Backend
  <2> QED
    BY <1>1, <1>3, <1>5, <2>1, <2>2, OnlyTheTask
<1>6. CASE Added(o)
  <2>1. /\ w \in Adding
        /\ \E v : Becomes(o, v) /\ (v.at = "idle" \/ (v.at = "signing_out" /\ w.op = "keep"))
    BY <1>1, <1>2, <1>3, <1>6, DoneMoves DEF Added
  <2>2. PICK v : Becomes(o, v) /\ (v.at = "idle" \/ (v.at = "signing_out" /\ w.op = "keep"))
    BY <2>1
  <2>3. w.op = "keep" => cli # NoToken /\ cli \in ToSet(p)
    <3>1. w.at \notin {"idle", "signing_out"}
      BY <1>3 DEF Backend
    <3>2. w.token # NoToken
      BY <2>1, AdminAssumption DEF Adding
    <3> QED
      BY <1>2, <3>1, <3>2 DEF Standing
  <2>4. acked' \subseteq ToSet(p) /\ Tokens(pool') = p /\ UNCHANGED <<stored, file, cli, gone, unsaved>>
    BY <1>1, <1>2, <1>3, <1>6 DEF Added, Pooled, Listed
  <2>5. Listed(Tokens(pool'), stored', file', acked', gone', unsaved')
    BY <1>2, <1>4, <2>4 DEF Listed
  <2>6. v.at \notin Backend \cup {"undoing", "storing"}
    BY <2>2 DEF Backend
  <2>7. Standing(task'[o], Tokens(pool'), stored', cli', unsaved')
    BY <1>4, <2>2, <2>3, <2>4, <2>6 DEF Becomes, Standing
  <2> QED
    BY <1>3, <2>5, <2>7 DEF AdminInv
<1> QED
  BY <1>5, <1>6

(* An addition is taken back. *)
LEMMA TakenBack ==
  ASSUME NEW o \in Operators, AdminInv(o), AdminTypes', NEW i, pool' = RemovePlace(i),
         acked' = acked \cap Pooled(pool'), UNCHANGED <<issued, stored, file, cli, gone, unsaved>>,
         NEW v, Becomes(o, v), Standing(v, Tokens(pool'), stored, cli, unsaved)
  PROVE  AdminInv(o)'
<1>1. AdminTypes /\ Listed(Tokens(pool), stored, file, acked, gone, unsaved)
  BY DEF AdminInv
<1>2. PICK p, q : p = Tokens(pool) /\ q = Tokens(pool')
  OBVIOUS
<1>3. NoneTwice(q) /\ ToSet(q) \subseteq ToSet(p) /\ acked' = acked \cap ToSet(q)
  BY <1>1, <1>2, PlaceRemoved DEF Listed, Pooled
<1>4. Listed(q, stored', file', acked', gone', unsaved')
  BY <1>1, <1>2, <1>3 DEF Listed
<1>5. Standing(task'[o], q, stored', cli', unsaved')
  BY <1>2 DEF Becomes
<1> QED
  BY <1>2, <1>4, <1>5 DEF AdminInv

LEMMA UndoKeeps == ASSUME NEW o \in Operators, AdminInv(o), Undo(o) PROVE AdminInv(o)'
<1>1. AdminTypes' /\ task[o].at = "undoing" /\ task[o] \in Adding
  BY UndoMoves DEF AdminInv
<1>2. PICK v : Becomes(o, v) /\ (v.at = "idle" \/ (v.at = "signing_out" /\ task[o].op = "keep"))
  BY UndoMoves DEF AdminInv
<1>3. unsaved /\ (task[o].op = "keep" => cli # NoToken)
  <2>1. task[o].token # NoToken
    BY <1>1, AdminAssumption DEF Adding
  <2> QED
    BY <1>1, <2>1 DEF AdminInv, Standing
<1>4. Standing(v, Tokens(pool'), stored, cli, unsaved)
  BY <1>2, <1>3 DEF Standing, Settled, Backend
<1> QED
  BY <1>1, <1>2, <1>4, TakenBack DEF Undo

LEMMA RejectedKeeps == ASSUME NEW o \in Operators, AdminInv(o), Rejected(o) PROVE AdminInv(o)'
<1>1. AdminTypes' /\ \E i : pool' = RemovePlace(i)
  BY RejectedMoves DEF AdminInv
<1>2. PICK v : Becomes(o, v) /\ v.at = "listing" /\ v.op = "reject"
  BY RejectedMoves DEF AdminInv
<1>3. Standing(v, Tokens(pool'), stored, cli, unsaved)
  BY <1>2 DEF Standing, Settled, Backend
<1> QED
  BY <1>1, <1>2, <1>3, TakenBack DEF Rejected

LEMMA CLIKeeps ==
  ASSUME NEW o \in Operators, AdminInv(o), SignOut(o) \/ (CLISignsIn /\ Operators = {o})
  PROVE  AdminInv(o)'
<1> DEFINE w == task[o]
<1>1. /\ AdminTypes /\ Listed(Tokens(pool), stored, file, acked, gone, unsaved)
      /\ Standing(w, Tokens(pool), stored, cli, unsaved) /\ w \in Tasks
  BY DEF AdminInv, AdminTypes
<1>2. CASE SignOut(o)
  <2>1. /\ AdminTypes' /\ w.at = "signing_out" /\ UNCHANGED <<pool, stored, file, acked, gone, unsaved>>
        /\ Becomes(o, NoTask) /\ NoTask.at = "idle"
    BY <1>1, <1>2, SignOutMoves
  <2>2. ~unsaved => stored = Tokens(pool)
    BY <1>1, <2>1 DEF Standing, Settled
  <2>3. Standing(NoTask, Tokens(pool), stored, cli', unsaved)
    BY <2>1, <2>2 DEF Standing, Settled, Backend
  <2>4. Standing(task'[o], Tokens(pool'), stored', cli', unsaved')
    BY <2>1, <2>3 DEF Becomes
  <2> QED
    BY <1>1, <2>1, <2>4 DEF AdminInv
<1>3. CASE CLISignsIn
  <2>1. /\ cli = NoToken /\ cli' \in TokenSet
        /\ UNCHANGED <<pool, issued, stored, file, task, acked, gone, unsaved>>
    BY <1>3 DEF CLISignsIn
  <2>2. AdminTypes'
    BY <1>1, <1>3, StoreMoves
  <2>3. w.at # "signing_out"
    BY <1>1, <2>1 DEF Standing
  <2>4. w.at # "idle" => w.op # "keep"
    <3> SUFFICES ASSUME w.at # "idle", w.op = "keep" PROVE FALSE
      OBVIOUS
    <3>1. cli = w.token
      BY <1>1, <2>3 DEF Standing
    <3>2. w \in Adding \cup Deleting
      BY <1>1, <2>3, KindsOfTask DEF Tasks, NoTask
    <3>3. w.token \in TokenSet
      BY <3>2 DEF Adding, Deleting
    <3> QED
      BY <2>1, <3>1, <3>3, AdminAssumption
  <2>5. Standing(w, Tokens(pool), stored, cli', unsaved)
    BY <1>1, <2>3, <2>4 DEF Standing
  <2>6. Standing(task'[o], Tokens(pool'), stored', cli', unsaved')
    BY <2>1, <2>5
  <2> QED
    BY <1>1, <2>1, <2>2, <2>6 DEF AdminInv
<1> QED
  BY <1>2, <1>3

LEMMA StoreKeeps ==
  ASSUME NEW o \in Operators, AdminInv(o), SaveTheRest \/ StartFromFile
  PROVE  AdminInv(o)'
<1>1. /\ AdminTypes /\ Listed(Tokens(pool), stored, file, acked, gone, unsaved)
      /\ Standing(task[o], Tokens(pool), stored, cli, unsaved)
  BY DEF AdminInv
<1>2. AdminTypes'
  BY <1>1, StoreMoves
<1>3. CASE SaveTheRest
  <2>1. file' = stored /\ UNCHANGED <<pool, issued, stored, cli, task, acked, gone, unsaved>>
    BY <1>3 DEF SaveTheRest
  <2>2. Listed(Tokens(pool), stored, stored, acked, gone, unsaved)
    BY <1>1 DEF Listed
  <2>3. Listed(Tokens(pool'), stored', file', acked', gone', unsaved')
    BY <2>1, <2>2
  <2>4. Standing(task'[o], Tokens(pool'), stored', cli', unsaved')
    BY <1>1, <2>1
  <2> QED
    BY <1>2, <2>3, <2>4 DEF AdminInv
<1>4. CASE StartFromFile
  <2>1. /\ Tokens(pool') = file /\ stored' = file /\ unsaved' = FALSE
        /\ task'[o] = NoTask /\ NoTask.at = "idle" /\ UNCHANGED <<file, cli, acked, gone>>
    BY <1>1, <1>4, StoreMoves DEF StartFromFile
  <2>2. Listed(file, file, file, acked, gone, FALSE)
    BY <1>1 DEF Listed
  <2>3. Listed(Tokens(pool'), stored', file', acked', gone', unsaved')
    BY <2>1, <2>2
  <2>4. Standing(NoTask, file, file, cli, FALSE)
    BY <2>1 DEF Standing, Settled, Backend
  <2>5. Standing(task'[o], Tokens(pool'), stored', cli', unsaved')
    BY <2>1, <2>4
  <2> QED
    BY <1>2, <2>3, <2>5 DEF AdminInv
<1> QED
  BY <1>3, <1>4

LEMMA InitAdmin == ASSUME NEW o \in Operators, AdminInit PROVE AdminInv(o)
<1>1. /\ stored = <<>> /\ file = <<>> /\ cli = NoToken /\ acked = {} /\ gone = {} /\ unsaved = FALSE
  BY DEF AdminInit
<1>2. AdminTypes /\ Tokens(pool) = <<>> /\ task[o] = NoTask /\ NoTask.at = "idle"
  BY InitTypes
<1>3. Listed(<<>>, <<>>, <<>>, {}, {}, FALSE)
  <2>1. NoneTwice(<<>>)
    BY DEF NoneTwice
  <2>2. ToSet(<<>>) = {}
    BY DEF ToSet
  <2> QED
    BY <2>1, <2>2 DEF Listed
<1>4. Standing(NoTask, <<>>, <<>>, NoToken, FALSE)
  BY <1>2 DEF Standing, Settled, Backend
<1> QED
  BY <1>1, <1>2, <1>3, <1>4 DEF AdminInv

LEMMA NextAdmin ==
  ASSUME NEW o, Operators = {o}, AdminInv(o), [AdminNext]_adminVars
  PROVE  AdminInv(o)'
<1>1. CASE Paste(o) \/ Capture(o) \/ FinishSignIn(o) \/ LogoutCLI(o)
  BY <1>1, AddKeeps
<1>2. CASE Delete(o)
  BY <1>2, DeleteKeeps
<1>3. CASE ReadTokens(o)
  BY <1>3, ReadTokensKeeps
<1>4. CASE Saved(o)
  BY <1>4, SavedKeeps
<1>5. CASE SaveFails(o)
  BY <1>5, SaveFailsKeeps
<1>6. CASE Undo(o)
  BY <1>6, UndoKeeps
<1>7. CASE Resolve(o) \/ AskStatus(o) \/ BackendAnswers(o) \/ File(o)
  BY <1>7, AskingKeeps
<1>8. CASE Rejected(o)
  BY <1>8, RejectedKeeps
<1>9. CASE SignOut(o) \/ CLISignsIn
  BY <1>9, CLIKeeps
<1>10. CASE SaveTheRest \/ StartFromFile
  BY <1>10, StoreKeeps
<1>11. CASE UNCHANGED adminVars
  <2>1. UNCHANGED <<pool, issued, stored, file, cli, task, acked, gone, unsaved>>
    BY <1>11 DEF adminVars
  <2>2. AdminTypes'
    BY <2>1 DEF AdminInv, AdminTypes
  <2> QED
    BY <2>1, <2>2 DEF AdminInv
<1> QED
  BY <1>1, <1>2, <1>3, <1>4, <1>5, <1>6, <1>7, <1>8, <1>9, <1>10, <1>11 DEF AdminNext

LEMMA AdminAlways == ASSUME NEW CONSTANT o, Operators = {o} PROVE AdminSpec => []AdminInv(o)
<1>1. AdminInit => AdminInv(o)
  BY InitAdmin
<1>2. AdminInv(o) /\ [AdminNext]_adminVars => AdminInv(o)'
  BY NextAdmin
<1> QED
  BY <1>1, <1>2, PTL DEF AdminSpec

(* An account that was reported as added is served, and is in the file, at *)
(* every moment until it is removed: also while another addition fails and *)
(* is taken back, while the list is saved, and after a restart.            *)
THEOREM AddedIsServed ==
  ASSUME NEW CONSTANT o, Operators = {o}
  PROVE  AdminSpec => []AckedIsDurable
<1>1. AdminInv(o) => AckedIsDurable
  BY DEF AdminInv, Listed, AckedIsDurable, Pooled
<1> QED
  BY <1>1, AdminAlways, PTL

(* An account that was reported as removed is nowhere to come back from:   *)
(* not in the pool, nor in the store's memory, nor in its file.            *)
THEOREM RemovedIsGone ==
  ASSUME NEW CONSTANT o, Operators = {o}
  PROVE  AdminSpec => []GoneStaysGone
<1>1. AdminInv(o) => GoneStaysGone
  BY DEF AdminInv, Listed, GoneStaysGone, Pooled
<1> QED
  BY <1>1, AdminAlways, PTL

(* Signing the CLI out finds its account in the pool, unless the list with *)
(* it could not be saved.                                                  *)
THEOREM SignOutLosesNothing ==
  ASSUME NEW CONSTANT o, Operators = {o}
  PROVE  AdminSpec => SignOutKeeps
<1>1. AdminInv(o) /\ [AdminNext]_adminVars
      => [cli # NoToken /\ cli' = NoToken => cli \in Pooled(pool) \/ unsaved]_adminVars
  <2> SUFFICES ASSUME AdminInv(o), AdminNext, cli # NoToken, cli' = NoToken
               PROVE  cli \in Pooled(pool) \/ unsaved
    BY DEF adminVars
  <2>1. SignOut(o)
    BY DEF AdminNext, Paste, FinishSignIn, Capture, LogoutCLI, Join, Delete, ReadTokens, Saved, SaveFails,
           Undo, Resolve, AskStatus, BackendAnswers, Rejected, File, CLISignsIn, SaveTheRest, StartFromFile
  <2>2. task[o].at = "signing_out"
    BY <2>1 DEF SignOut
  <2> QED
    BY <2>2 DEF AdminInv, Standing, Pooled
<1> QED
  BY <1>1, AdminAlways, PTL DEF AdminSpec, SignOutKeeps

-----------------------------------------------------------------------------
(* Words, and the digits they are written in. *)

(* A number in two parts. *)
LEMMA InTwoParts ==
  ASSUME NEW v \in Nat, NEW d \in Nat \ {0}
  PROVE  /\ v \div d \in Nat /\ v % d \in 0..(d - 1)
         /\ v = d * (v \div d) + (v % d)
OBVIOUS

LEMMA TimesNat ==
  ASSUME NEW a \in Nat, NEW b \in Nat
  PROVE  a * b \in Nat /\ (b > 0 => a <= a * b) /\ (a > 0 => b <= a * b)
OBVIOUS

LEMMA TimesGrows ==
  ASSUME NEW a \in Nat, NEW b \in Nat, NEW c \in Nat, a <= b
  PROVE  a * c <= b * c
OBVIOUS

LEMMA TimesMore ==
  ASSUME NEW a \in Nat, NEW b \in Nat, NEW c \in Nat, a + 1 <= b
  PROVE  a * c + c <= b * c
OBVIOUS

LEMMA TimesSplits ==
  ASSUME NEW a \in Nat, NEW b \in Nat, NEW c \in Nat
  PROVE  (a + b) * c = a * c + b * c /\ c * (a + b) = c * a + c * b
OBVIOUS

LEMMA TimesRegroups ==
  ASSUME NEW a \in Nat, NEW b \in Nat, NEW c \in Nat
  PROVE  (a * b) * c = b * (a * c) /\ (a * b) * c = a * (b * c)
OBVIOUS

-----------------------------------------------------------------------------
(* What a digit counts for. *)
LEMMA WeightIs ==
  /\ Weight \in [Nat -> Nat] /\ Weight[0] = 1
  /\ \A k \in Nat \ {0} : Weight[k] = Radix * Weight[k - 1]
<1>1. PICK step : step = [w \in Nat |-> Radix * w]
  OBVIOUS
<1>2. \A w \in Nat : Radix * w \in Nat
  BY WordParameters, TimesNat DEF WordParameters
<1>3. step \in [Nat -> Nat] /\ 1 \in Nat
  BY <1>1, <1>2
<1>4. PICK f : Recurs(f, Nat, 1, step)
  BY <1>3, RecursionExists
<1>5. f \in [Nat -> Nat] /\ f[0] = 1
  BY <1>4 DEF Recurs
<1>6. \A k \in Nat \ {0} : k - 1 \in Nat /\ f[k] = Radix * f[k - 1]
  BY <1>1, <1>4, <1>5 DEF Recurs
<1>7. f = [k \in Nat |-> IF k = 0 THEN 1 ELSE Radix * f[k - 1]]
  <2>1. \A k \in Nat : f[k] = IF k = 0 THEN 1 ELSE Radix * f[k - 1]
    BY <1>5, <1>6
  <2>2. f = [k \in Nat |-> f[k]]
    BY <1>5
  <2> QED
    BY <2>1, <2>2, Zenon
<1>8. Weight = [k \in Nat |-> IF k = 0 THEN 1 ELSE Radix * Weight[k - 1]]
  BY <1>7, Zenon DEF Weight
<1>9. \A k \in Nat : Weight[k] = IF k = 0 THEN 1 ELSE Radix * Weight[k - 1]
  BY <1>8, Zenon
<1>10. \A k \in Nat : Weight[k] \in Nat
  <2> SUFFICES ASSUME NEW n \in Nat  PROVE Weight[n] \in Nat
    OBVIOUS
  <2>1. PICK reached : reached = {k \in 0..n : Weight[k] \in Nat}
    OBVIOUS
  <2>2. reached \in SUBSET (0..n) /\ 0 \in reached
    BY <1>9, <2>1
  <2>3. ASSUME NEW k \in 0..(n - 1), k \in reached  PROVE k + 1 \in reached
    <3>1. k + 1 \in Nat /\ k + 1 # 0 /\ (k + 1) - 1 = k /\ k + 1 \in 0..n
      OBVIOUS
    <3>2. Weight[k + 1] = Radix * Weight[k] /\ Weight[k] \in Nat
      BY <1>9, <2>1, <2>3, <3>1
    <3> QED
      BY <1>2, <2>1, <3>1, <3>2
  <2>4. \A k \in 0..n : k \in reached
    BY <2>2, <2>3, NextByNext
  <2> QED
    BY <2>1, <2>4
<1>11. Weight = [k \in Nat |-> Weight[k]]
  BY <1>8
<1> QED
  BY <1>9, <1>10, <1>11

LEMMA WeightGrows ==
  ASSUME NEW n \in Nat
  PROVE  \A k \in 0..n : Weight[k] \in Nat \ {0} /\ Weight[k] <= Weight[n]
<1>0. Radix \in Nat /\ Radix > 1
  BY WordParameters DEF WordParameters
<1>1. ASSUME NEW k \in Nat  PROVE Weight[k + 1] = Radix * Weight[k] /\ Weight[k] \in Nat
  <2>1. k + 1 \in Nat \ {0} /\ (k + 1) - 1 = k
    OBVIOUS
  <2> QED
    BY <2>1, WeightIs
<1>2. PICK reached : reached = {k \in 0..n : Weight[k] \in Nat \ {0} /\ \A j \in 0..k : Weight[j] <= Weight[k] /\ Weight[j] # 0}
  OBVIOUS
<1>3. reached \in SUBSET (0..n) /\ 0 \in reached
  BY <1>2, WeightIs
<1>4. ASSUME NEW k \in 0..(n - 1), k \in reached  PROVE k + 1 \in reached
  <2>1. PICK w \in Nat \ {0} : w = Weight[k] /\ w <= Radix * w /\ Radix * w \in Nat
    BY <1>0, <1>2, <1>4, TimesNat
  <2>2. PICK u \in Nat \ {0} : u = Weight[k + 1] /\ w <= u
    BY <1>1, <2>1
  <2>3. ASSUME NEW j \in 0..(k + 1)  PROVE Weight[j] <= u /\ Weight[j] # 0
    <3>1. CASE j = k + 1
      BY <2>2, <3>1
    <3>2. CASE j # k + 1
      <4>1. j \in 0..k
        BY <3>2
      <4>2. PICK x \in Nat : x = Weight[j] /\ x <= w /\ x # 0
        BY <1>2, <1>4, <2>1, <4>1, WeightIs
      <4> QED
        BY <2>2, <4>2
    <3> QED
      BY <3>1, <3>2
  <2> QED
    BY <1>2, <2>2, <2>3
<1>5. n \in reached
  <2>1. \A k \in 0..n : k \in reached
    BY <1>3, <1>4, NextByNext
  <2> QED
    BY <2>1
<1> QED
  BY <1>2, <1>5, WeightIs

LEMMA WordSizeIs ==
  /\ WordSize \in Nat \ {0} /\ MaxDigits - 1 \in Nat
  /\ WordSize <= Weight[MaxDigits]
<1>0. /\ Radix \in Nat /\ LastRoom \in Nat \ {0} /\ LastRoom <= Radix
      /\ MaxDigits \in Nat \ {0} /\ MaxDigits - 1 \in Nat
  BY WordParameters DEF WordParameters
<1>1. PICK w \in Nat \ {0} : w = Weight[MaxDigits - 1]
  BY <1>0, WeightGrows
<1>2. Weight[MaxDigits] = Radix * w
  BY <1>0, <1>1, WeightIs
<1>3. LastRoom * w <= Radix * w
  BY <1>0, TimesGrows
<1>4. LastRoom * w \in Nat \ {0}
  BY <1>0, TimesNat
<1> QED
  BY <1>0, <1>1, <1>2, <1>3, <1>4 DEF WordSize

-----------------------------------------------------------------------------
(* What a run of digits counts to. *)
Sums(sum, run) ==
  /\ sum \in [0..Len(run) -> Nat] /\ sum[0] = 0
  /\ \A k \in 1..Len(run) : sum[k] = sum[k - 1] + run[k].digit * Weight[k - 1]

LEMMA NumberSums ==
  ASSUME NEW run \in Seq(Bytes)
  PROVE  \E sum : Sums(sum, run) /\ Number(run) = sum[Len(run)]
<1>1. PICK n : n = Len(run)
  OBVIOUS
<1>2. n \in Nat /\ \A k \in 1..n : run[k] \in Bytes
  BY <1>1, SeqFacts
<1>3. \A k \in 1..n : run[k].digit * Weight[k - 1] \in Nat
  <2> SUFFICES ASSUME NEW k \in 1..n  PROVE run[k].digit * Weight[k - 1] \in Nat
    OBVIOUS
  <2>1. PICK d \in Nat : d = run[k].digit
    BY <1>2, WordParameters DEF Bytes, WordParameters
  <2>2. PICK w \in Nat : w = Weight[k - 1]
    BY <1>2, WeightIs
  <2> QED
    BY <2>1, <2>2, TimesNat
<1>4. PICK step : step = [k \in 1..n |-> [s \in Nat |-> s + run[k].digit * Weight[k - 1]]]
  OBVIOUS
<1>5. Foldable(Nat, 0, n, step)
  BY <1>2, <1>3, <1>4 DEF Foldable
<1>6. PICK p : Unfolds(p, Nat, 0, n, step)
  BY <1>5, FoldWalks
<1>7. p \in [0..n -> Nat] /\ p[0] = 0 /\ \A k \in 1..n : p[k] = p[k - 1] + run[k].digit * Weight[k - 1]
  <2>1. p \in [0..n -> Nat] /\ p[0] = 0 /\ \A k \in 1..n : p[k] = step[k][p[k - 1]]
    BY <1>6 DEF Unfolds
  <2>2. \A k \in 1..n : k - 1 \in 0..n
    BY <1>2
  <2>3. \A k \in 1..n : p[k - 1] \in Nat
    BY <2>1, <2>2
  <2> QED
    BY <1>4, <2>1, <2>3
<1>8. p = [k \in 0..n |-> IF k = 0 THEN 0 ELSE p[k - 1] + run[k].digit * Weight[k - 1]]
  <2>1. \A k \in 0..n : p[k] = IF k = 0 THEN 0 ELSE p[k - 1] + run[k].digit * Weight[k - 1]
    BY <1>2, <1>7
  <2>2. p = [k \in 0..n |-> p[k]]
    BY <1>7
  <2> QED
    BY <2>1, <2>2, Zenon
<1>9. PICK f : f = CHOOSE sum : sum = [k \in 0..n |-> IF k = 0 THEN 0 ELSE sum[k - 1] + run[k].digit * Weight[k - 1]]
  OBVIOUS
<1>10. f = [k \in 0..n |-> IF k = 0 THEN 0 ELSE f[k - 1] + run[k].digit * Weight[k - 1]]
  BY <1>8, <1>9, Zenon
<1>11. Number(run) = f[n]
  BY <1>1, <1>9 DEF Number
<1>12. \A k \in 0..n : f[k] = IF k = 0 THEN 0 ELSE f[k - 1] + run[k].digit * Weight[k - 1]
  BY <1>10, Zenon
<1>13. \A k \in 0..n : f[k] \in Nat
  <2>1. PICK reached : reached = {k \in 0..n : f[k] \in Nat}
    OBVIOUS
  <2>2. reached \in SUBSET (0..n) /\ 0 \in reached
    BY <1>2, <1>12, <2>1
  <2>3. ASSUME NEW k \in 0..(n - 1), k \in reached  PROVE k + 1 \in reached
    <3>1. k + 1 \in 1..n /\ k + 1 \in 0..n /\ k + 1 # 0 /\ (k + 1) - 1 = k
      BY <1>2
    <3>2. PICK d \in Nat : d = run[k + 1].digit * Weight[k]
      BY <1>3, <3>1
    <3>3. f[k + 1] = f[k] + d /\ f[k] \in Nat
      BY <1>12, <2>1, <2>3, <3>1, <3>2
    <3> QED
      BY <2>1, <3>1, <3>3
  <2>4. \A k \in 0..n : k \in reached
    BY <1>2, <2>2, <2>3, NextByNext
  <2> QED
    BY <2>1, <2>4
<1>14. f = [k \in 0..n |-> f[k]]
  BY <1>10
<1>15. Sums(f, run)
  BY <1>1, <1>2, <1>12, <1>13, <1>14 DEF Sums
<1> QED
  BY <1>1, <1>11, <1>15

(* It is less than what the next digit would count for. *)
LEMMA SumsStayBelow ==
  ASSUME NEW run \in Seq(Bytes), NEW sum, Sums(sum, run)
  PROVE  \A k \in 0..Len(run) : sum[k] \in Nat /\ sum[k] < Weight[k]
<1>1. PICK n : n = Len(run)
  OBVIOUS
<1>2. n \in Nat /\ \A k \in 1..n : run[k] \in Bytes
  BY <1>1, SeqFacts
<1>3. /\ sum \in [0..n -> Nat] /\ sum[0] = 0
      /\ \A k \in 1..n : sum[k] = sum[k - 1] + run[k].digit * Weight[k - 1]
  BY <1>1 DEF Sums
<1>4. PICK reached : reached = {k \in 0..n : sum[k] < Weight[k]}
  OBVIOUS
<1>5. reached \in SUBSET (0..n) /\ 0 \in reached
  <2>1. 0 \in 0..n /\ 0 < 1
    BY <1>2
  <2>2. sum[0] < Weight[0]
    BY <1>3, <2>1, WeightIs, Zenon
  <2> QED
    BY <1>4, <2>1, <2>2
<1>6. ASSUME NEW k \in 0..(n - 1), k \in reached  PROVE k + 1 \in reached
  <2>1. k + 1 \in 1..n /\ k + 1 \in 0..n /\ k + 1 \in Nat \ {0} /\ (k + 1) - 1 = k /\ k \in Nat /\ k \in 0..n
    BY <1>2
  <2>2. PICK d \in Nat : d = run[k + 1].digit /\ d + 1 <= Radix /\ Radix \in Nat
    BY <1>2, <2>1, WordParameters DEF Bytes, WordParameters
  <2>3. PICK w \in Nat : w = Weight[k]
    BY <2>1, WeightIs
  <2>4. PICK s \in Nat : s = sum[k] /\ s < w
    BY <1>3, <1>4, <1>6, <2>1, <2>3
  <2>5. d * w + w <= Radix * w /\ d * w \in Nat /\ Radix * w \in Nat
    BY <2>2, TimesNat, TimesMore
  <2>6. s + d * w < Radix * w
    BY <2>4, <2>5
  <2>7. sum[k + 1] = s + d * w
    BY <1>3, <2>1, <2>2, <2>3, <2>4
  <2>8. Weight[k + 1] = Radix * w
    BY <2>1, <2>3, WeightIs
  <2> QED
    BY <1>4, <2>1, <2>6, <2>7, <2>8
<1>7. \A k \in 0..n : k \in reached
  BY <1>2, <1>5, <1>6, NextByNext
<1> QED
  BY <1>1, <1>3, <1>4, <1>7

-----------------------------------------------------------------------------
(* The digits of a word. *)
Split(v, left, n) ==
  /\ left \in [Nat -> Nat] /\ left[0] = v
  /\ \A k \in Nat \ {0} : left[k] = left[k - 1] \div Radix
  /\ n \in 1..MaxDigits /\ left[n] = 0
  /\ \A k \in 0..n : Weight[k] * left[k] <= v

LEMMA LeftExists ==
  ASSUME NEW v \in Nat
  PROVE  \E f : f = [k \in Nat |-> IF k = 0 THEN v ELSE f[k - 1] \div Radix]
<1>1. PICK step : step = [w \in Nat |-> w \div Radix]
  OBVIOUS
<1>2. \A w \in Nat : w \div Radix \in Nat
  BY WordParameters, InTwoParts DEF WordParameters
<1>3. step \in [Nat -> Nat]
  BY <1>1, <1>2
<1>4. PICK f : Recurs(f, Nat, v, step)
  BY <1>3, RecursionExists
<1>5. f \in [Nat -> Nat] /\ f[0] = v
  BY <1>4 DEF Recurs
<1>6. \A k \in Nat \ {0} : k - 1 \in Nat /\ f[k] = f[k - 1] \div Radix
  BY <1>1, <1>4, <1>5 DEF Recurs
<1>7. f = [k \in Nat |-> IF k = 0 THEN v ELSE f[k - 1] \div Radix]
  <2>1. \A k \in Nat : f[k] = IF k = 0 THEN v ELSE f[k - 1] \div Radix
    BY <1>5, <1>6
  <2>2. f = [k \in Nat |-> f[k]]
    BY <1>5
  <2> QED
    BY <2>1, <2>2, Zenon
<1> QED
  BY <1>7, Zenon

LEMMA LeftIs ==
  ASSUME NEW v \in Nat, NEW left,
         left = [k \in Nat |-> IF k = 0 THEN v ELSE left[k - 1] \div Radix]
  PROVE  /\ left \in [Nat -> Nat] /\ left[0] = v
         /\ \A k \in Nat \ {0} : left[k] = left[k - 1] \div Radix
<1>2. \A w \in Nat : w \div Radix \in Nat
  BY WordParameters, InTwoParts DEF WordParameters
<1>9. \A k \in Nat : left[k] = IF k = 0 THEN v ELSE left[k - 1] \div Radix
  OBVIOUS
<1>10. left = [k \in Nat |-> left[k]]
  OBVIOUS
<1>11. \A k \in Nat : left[k] \in Nat
  <2> SUFFICES ASSUME NEW n \in Nat  PROVE left[n] \in Nat
    OBVIOUS
  <2>1. PICK reached : reached = {k \in 0..n : left[k] \in Nat}
    OBVIOUS
  <2>2. reached \in SUBSET (0..n) /\ 0 \in reached
    BY <1>9, <2>1
  <2>3. ASSUME NEW k \in 0..(n - 1), k \in reached  PROVE k + 1 \in reached
    <3>1. k + 1 \in Nat /\ k + 1 # 0 /\ (k + 1) - 1 = k /\ k + 1 \in 0..n
      OBVIOUS
    <3>2. left[k + 1] = left[k] \div Radix /\ left[k] \in Nat
      BY <1>9, <2>1, <2>3, <3>1
    <3> QED
      BY <1>2, <2>1, <3>1, <3>2
  <2>4. \A k \in 0..n : k \in reached
    BY <2>2, <2>3, NextByNext
  <2> QED
    BY <2>1, <2>4
<1> QED
  BY <1>9, <1>10, <1>11

(* What is left of a word after some digits, and what they count for. *)
LEMMA LeftShrinks ==
  ASSUME NEW v \in Nat, NEW left \in [Nat -> Nat], left[0] = v,
         \A k \in Nat \ {0} : left[k] = left[k - 1] \div Radix
  PROVE  \A n \in Nat : Weight[n] * left[n] <= v
<1> SUFFICES ASSUME NEW n \in Nat  PROVE Weight[n] * left[n] <= v
  OBVIOUS
<1>1. Radix \in Nat \ {0}
  BY WordParameters DEF WordParameters
<1>2. PICK reached : reached = {k \in 0..n : Weight[k] * left[k] <= v}
  OBVIOUS
<1>3. reached \in SUBSET (0..n) /\ 0 \in reached
  BY <1>2, WeightIs
<1>4. ASSUME NEW k \in 0..(n - 1), k \in reached  PROVE k + 1 \in reached
  <2>1. k + 1 \in Nat \ {0} /\ (k + 1) - 1 = k /\ k \in Nat /\ k + 1 \in 0..n
    OBVIOUS
  <2>2. PICK w \in Nat : w = Weight[k] /\ Weight[k + 1] = Radix * w
    BY <2>1, WeightIs
  <2>3. PICK a \in Nat, b \in Nat : a = left[k] /\ b = left[k + 1] /\ b = a \div Radix
    BY <2>1
  <2>4. Radix * b <= a /\ Radix * b \in Nat
    <3>1. PICK r \in Nat \ {0} : r = Radix
      BY <1>1
    <3>2. r * (a \div r) <= a
      OBVIOUS
    <3> QED
      BY <2>3, <3>1, <3>2, TimesNat
  <2>5. (Radix * w) * b = w * (Radix * b)
    BY <1>1, TimesRegroups
  <2>6. w * (Radix * b) <= w * a
    <3>1. PICK r \in Nat : r = Radix * b /\ r <= a
      BY <2>4
    <3> QED
      BY <3>1, TimesGrows
  <2>7. w * a <= v
    BY <1>2, <1>4, <2>2, <2>3
  <2>8. w * (Radix * b) \in Nat /\ w * a \in Nat
    BY <2>4, TimesNat
  <2>9. (Radix * w) * b <= v
    BY <2>5, <2>6, <2>7, <2>8
  <2> QED
    BY <1>2, <2>1, <2>2, <2>3, <2>9
<1>5. \A k \in 0..n : k \in reached
  BY <1>3, <1>4, NextByNext
<1> QED
  BY <1>2, <1>5

LEMMA DigitsAre ==
  ASSUME NEW v \in 0..(WordSize - 1)
  PROVE  \E left, n : /\ Split(v, left, n)
                      /\ Digits(v) = [k \in 1..n |-> [more |-> k < n, digit |-> left[k - 1] % Radix]]
<1>1. v \in Nat /\ v < WordSize
  BY WordSizeIs
<1>2. PICK left : left = CHOOSE f : f = [k \in Nat |-> IF k = 0 THEN v ELSE f[k - 1] \div Radix]
  OBVIOUS
<1>3. /\ left \in [Nat -> Nat] /\ left[0] = v
      /\ \A k \in Nat \ {0} : left[k] = left[k - 1] \div Radix
  <2>1. left = [k \in Nat |-> IF k = 0 THEN v ELSE left[k - 1] \div Radix]
    BY <1>1, <1>2, LeftExists, Zenon
  <2> QED
    BY <1>1, <2>1, LeftIs
<1>4. \A k \in Nat : Weight[k] * left[k] <= v
  BY <1>1, <1>3, LeftShrinks
<1>5. PICK ends : ends = {k \in 1..MaxDigits : left[k] = 0}
  OBVIOUS
<1>6. MaxDigits \in ends
  <2>1. MaxDigits \in Nat /\ MaxDigits \in 1..MaxDigits
    BY WordParameters DEF WordParameters
  <2>2. PICK w \in Nat, a \in Nat, size \in Nat :
          w = Weight[MaxDigits] /\ a = left[MaxDigits] /\ size = WordSize /\ size <= w
    BY <1>3, <2>1, WeightIs, WordSizeIs
  <2>3. w * a <= v /\ v < size
    BY <1>1, <1>4, <2>1, <2>2
  <2>4. a > 0 => w <= w * a
    BY TimesNat
  <2>5. w * a \in Nat
    BY TimesNat
  <2>6. a = 0
    BY <1>1, <2>2, <2>3, <2>4, <2>5
  <2> QED
    BY <1>5, <2>1, <2>2, <2>6
<1>7. PICK n : n = Min(ends)
  OBVIOUS
<1>8. n \in ends
  <2>1. ends \in SUBSET Nat /\ ends # {}
    BY <1>5, <1>6
  <2> QED
    BY <1>7, <2>1, MinIsLeast
<1>9. Split(v, left, n)
  BY <1>3, <1>4, <1>5, <1>8 DEF Split
<1>10. Digits(v) = [k \in 1..n |-> [more |-> k < n, digit |-> left[k - 1] % Radix]]
  BY <1>2, <1>5, <1>7 DEF Digits
<1> QED
  BY <1>9, <1>10

(* Digits are bytes of which all but the last say that more follow; there  *)
(* is at least one, and no more than a word has; they count to the word.   *)
LEMMA DigitsSayWord ==
  ASSUME NEW v \in 0..(WordSize - 1)
  PROVE  /\ Digits(v) \in Seq(Bytes) /\ Len(Digits(v)) \in 1..MaxDigits
         /\ \A k \in 1..Len(Digits(v)) : Digits(v)[k].more <=> k < Len(Digits(v))
         /\ Number(Digits(v)) = v
         /\ Len(Digits(v)) = MaxDigits => Digits(v)[MaxDigits].digit < LastRoom
<1>1. PICK left, n : /\ Split(v, left, n)
                     /\ Digits(v) = [k \in 1..n |-> [more |-> k < n, digit |-> left[k - 1] % Radix]]
  BY DigitsAre
<1>2. /\ left \in [Nat -> Nat] /\ left[0] = v
      /\ \A k \in Nat \ {0} : left[k] = left[k - 1] \div Radix
      /\ n \in 1..MaxDigits /\ left[n] = 0
      /\ \A k \in 0..n : Weight[k] * left[k] <= v
  BY <1>1 DEF Split
<1>3. PICK run : run = Digits(v)
  OBVIOUS
<1>4. Radix \in Nat \ {0} /\ MaxDigits \in Nat \ {0} /\ n \in Nat \ {0} /\ v \in Nat
  BY <1>2, WordParameters DEF WordParameters
<1>5. \A k \in 1..n : k - 1 \in Nat /\ left[k - 1] % Radix \in 0..(Radix - 1)
  <2> SUFFICES ASSUME NEW k \in 1..n  PROVE k - 1 \in Nat /\ left[k - 1] % Radix \in 0..(Radix - 1)
    OBVIOUS
  <2>1. PICK a \in Nat, r \in Nat \ {0} : a = left[k - 1] /\ r = Radix
    BY <1>2, <1>4
  <2>2. a % r \in 0..(r - 1)
    OBVIOUS
  <2> QED
    BY <1>4, <2>1, <2>2
<1>6. \A k \in 1..n : [more |-> k < n, digit |-> left[k - 1] % Radix] \in Bytes
  BY <1>4, <1>5 DEF Bytes
<1>7. run \in Seq(Bytes) /\ Len(run) = n
  BY <1>1, <1>3, <1>4, <1>6
<1>8. \A k \in 1..n : (run[k].more <=> k < n) /\ run[k].digit = left[k - 1] % Radix
  <2>1. \A k \in 1..n : run[k] = [more |-> k < n, digit |-> left[k - 1] % Radix]
    BY <1>1, <1>3, Zenon
  <2>2. ASSUME NEW k \in 1..n  PROVE (run[k].more <=> k < n) /\ run[k].digit = left[k - 1] % Radix
    <3>1. PICK d, more : d = left[k - 1] % Radix /\ more = (k < n)
      OBVIOUS
    <3>2. run[k] = [more |-> more, digit |-> d]
      BY <2>1, <3>1
    <3>3. run[k].digit = d /\ run[k].more = more
      BY <3>2
    <3> QED
      BY <3>1, <3>3
  <2> QED
    BY <2>2
<1>9. PICK sum : Sums(sum, run) /\ Number(run) = sum[n]
  BY <1>7, NumberSums
<1>10. /\ sum \in [0..n -> Nat] /\ sum[0] = 0
       /\ \A k \in 1..n : sum[k] = sum[k - 1] + run[k].digit * Weight[k - 1]
  BY <1>7, <1>9 DEF Sums
<1>11. sum[n] + Weight[n] * left[n] = v
  <2>1. PICK reached : reached = {k \in 0..n : sum[k] + Weight[k] * left[k] = v}
    OBVIOUS
  <2>2. reached \in SUBSET (0..n) /\ 0 \in reached
    <3>1. sum[0] = 0 /\ Weight[0] = 1 /\ left[0] = v
      BY <1>2, <1>10, WeightIs
    <3>2. sum[0] + Weight[0] * left[0] = v
      BY <1>4, <3>1
    <3> QED
      BY <1>4, <2>1, <3>2
  <2>3. ASSUME NEW k \in 0..(n - 1), k \in reached  PROVE k + 1 \in reached
    <3>1. k + 1 \in 1..n /\ k + 1 \in Nat \ {0} /\ (k + 1) - 1 = k /\ k \in Nat /\ k \in 0..n /\ k + 1 \in 0..n
      BY <1>4
    <3>2. PICK w \in Nat : w = Weight[k] /\ Weight[k + 1] = Radix * w
      BY <3>1, WeightIs
    <3>3. PICK a \in Nat, b \in Nat, d \in Nat :
            a = left[k] /\ b = left[k + 1] /\ b = a \div Radix /\ d = a % Radix /\ d = run[k + 1].digit
      <4>1. left[k] \in Nat /\ left[k + 1] \in Nat /\ left[k + 1] = left[k] \div Radix
        BY <1>2, <3>1
      <4>2. run[k + 1].digit = left[k] % Radix /\ left[k] % Radix \in Nat
        BY <1>5, <1>8, <3>1
      <4> QED
        BY <4>1, <4>2
    <3>4. a = Radix * b + d
      <4>1. PICK r \in Nat \ {0} : r = Radix
        BY <1>4
      <4>2. a = r * (a \div r) + (a % r)
        OBVIOUS
      <4> QED
        BY <3>3, <4>1, <4>2
    <3>5. w * a = (Radix * w) * b + d * w
      <4>1. PICK r \in Nat : r = Radix * b
        BY <1>4, TimesNat
      <4>2. w * (r + d) = w * r + w * d
        BY TimesSplits
      <4>3. (Radix * w) * b = w * (Radix * b)
        BY <1>4, TimesRegroups
      <4> QED
        BY <3>4, <4>1, <4>2, <4>3
    <3>6. PICK s \in Nat : s = sum[k] /\ s + w * a = v
      BY <1>10, <2>1, <2>3, <3>1, <3>2, <3>3
    <3>7. sum[k + 1] = s + d * w
      BY <1>10, <3>1, <3>2, <3>3, <3>6
    <3>8. d * w \in Nat /\ (Radix * w) * b \in Nat
      BY <1>4, TimesNat
    <3>9. (s + d * w) + (Radix * w) * b = v
      BY <3>5, <3>6, <3>8
    <3> QED
      BY <2>1, <3>1, <3>2, <3>3, <3>7, <3>9
  <2>4. \A k \in 0..n : k \in reached
    BY <1>4, <2>2, <2>3, NextByNext
  <2>5. n \in 0..n
    BY <1>4
  <2> QED
    BY <2>1, <2>4, <2>5
<1>12. Number(run) = v
  <2>1. Weight[n] \in Nat /\ sum[n] \in Nat /\ left[n] = 0
    BY <1>2, <1>4, <1>10, WeightIs
  <2> QED
    BY <1>9, <1>11, <2>1
<1>13. ASSUME n = MaxDigits  PROVE run[MaxDigits].digit < LastRoom
  <2>1. PICK w \in Nat : w = Weight[MaxDigits - 1] /\ WordSize = LastRoom * w
    BY WeightIs, WordSizeIs DEF WordSize
  <2>2. PICK a \in Nat, room \in Nat : a = left[MaxDigits - 1] /\ room = LastRoom
    BY <1>2, WordSizeIs, WordParameters DEF WordParameters
  <2>3. w * a <= v /\ v < room * w /\ room * w \in Nat
    <3>1. MaxDigits - 1 \in 0..n
      BY <1>4, <1>13
    <3> QED
      BY <1>2, <2>1, <2>2, <3>1, TimesNat, WordSizeIs
  <2>4. a < room
    <3>1. SUFFICES ASSUME room <= a  PROVE FALSE
      OBVIOUS
    <3>2. room * w <= a * w /\ a * w \in Nat
      BY <3>1, TimesGrows, TimesNat
    <3> QED
      BY <1>4, <2>3, <3>2
  <2>5. a % Radix \in Nat /\ a % Radix <= a
    <3>1. PICK r \in Nat \ {0} : r = Radix
      BY <1>4
    <3>0. a \div r \in Nat /\ a % r \in Nat /\ a = r * (a \div r) + (a % r)
      OBVIOUS
    <3>3. PICK q \in Nat, d \in Nat : q = a \div Radix /\ d = a % Radix /\ a = Radix * q + d
      BY <3>0, <3>1
    <3>2. Radix * q \in Nat
      BY <1>4, TimesNat
    <3> QED
      BY <3>3, <3>2
  <2>6. run[MaxDigits].digit = a % Radix
    <3>1. MaxDigits \in 1..n
      BY <1>4, <1>13
    <3> QED
      BY <1>8, <2>2, <3>1
  <2> QED
    BY <2>2, <2>4, <2>5, <2>6
<1> QED
  BY <1>2, <1>3, <1>7, <1>8, <1>12, <1>13

-----------------------------------------------------------------------------
(* Varints, read from the front of a run of bytes. *)

(* The first n elements of a sequence.                                     *)
LEMMA FrontIs ==
  ASSUME NEW S, NEW s \in Seq(S), NEW n \in 0..Len(s)
  PROVE  /\ SubSeq(s, 1, n) \in Seq(S) /\ Len(SubSeq(s, 1, n)) = n
         /\ \A k \in 1..n : SubSeq(s, 1, n)[k] = s[k]
<1>1. Len(s) \in Nat /\ \A k \in 1..Len(s) : s[k] \in S
  BY SeqFacts
<1>2. (\A k \in 1..n : s[k] \in S) /\ 1 \in Int /\ n \in Int
  BY <1>1
<1>3. /\ SubSeq(s, 1, n) \in Seq(S)
      /\ Len(SubSeq(s, 1, n)) = IF 1 <= n THEN n - 1 + 1 ELSE 0
      /\ \A k \in 1..(n - 1 + 1) : SubSeq(s, 1, n)[k] = s[1 + k - 1]
  BY <1>2, SubSeqProperties
<1> QED
  BY <1>1, <1>3

(* Where a varint that is read ends, whether it fits, and what it says.    *)
ReadTo(run, ends, took, fits) ==
  /\ ends = {k \in 1..Len(run) : k <= MaxDigits /\ ~run[k].more}
  /\ took \in Nat /\ took <= Len(run) /\ took <= MaxDigits
  /\ ends # {} => took \in ends /\ \A k \in ends : took <= k
  /\ fits = (ends # {} /\ (took = MaxDigits => run[took].digit < LastRoom))
  /\ Varint(run) = [ok |-> fits, took |-> took, value |-> IF fits THEN Number(SubSeq(run, 1, took)) ELSE 0]

LEMMA VarintReads ==
  ASSUME NEW run \in Seq(Bytes)
  PROVE  \E ends, took, fits : ReadTo(run, ends, took, fits)
<1>1. PICK n \in Nat : n = Len(run)
  BY SeqFacts
<1>2. MaxDigits \in Nat \ {0}
  BY WordParameters DEF WordParameters
<1>3. PICK most \in Nat : most = IF n < MaxDigits THEN n ELSE MaxDigits
  BY <1>2
<1>4. PICK ends : ends = {k \in 1..most : ~run[k].more}
  OBVIOUS
<1>5. PICK took : took = IF ends # {} THEN Min(ends) ELSE most
  OBVIOUS
<1>6. PICK fits : fits = (ends # {} /\ (took = MaxDigits => run[took].digit < LastRoom))
  OBVIOUS
<1>7. Varint(run) = [ok |-> fits, took |-> took, value |-> IF fits THEN Number(SubSeq(run, 1, took)) ELSE 0]
  BY <1>1, <1>3, <1>4, <1>5, <1>6, Zenon DEF Varint
<1>8. ends # {} => took \in ends /\ \A k \in ends : took <= k
  <2>1. ends \in SUBSET Nat
    BY <1>4
  <2> QED
    BY <1>5, <2>1, MinIsLeast
<1>9. took \in Nat /\ took <= most
  <2>1. ends \in SUBSET (1..most)
    BY <1>4
  <2>2. CASE ends = {}
    BY <1>3, <1>5, <2>2
  <2>3. CASE ends # {}
    <3>1. took \in 1..most
      BY <1>8, <2>1, <2>3
    <3> QED
      BY <1>3, <3>1
  <2> QED
    BY <2>2, <2>3
<1>10. ends = {k \in 1..n : k <= MaxDigits /\ ~run[k].more}
  <2>1. \A k : k \in 1..most <=> k \in 1..n /\ k <= MaxDigits
    BY <1>2, <1>3
  <2> QED
    BY <1>4, <2>1
<1>11. took <= n /\ took <= MaxDigits
  BY <1>2, <1>3, <1>9
<1> QED
  BY <1>1, <1>6, <1>7, <1>8, <1>9, <1>10, <1>11 DEF ReadTo

(* Over any bytes: no more is read than there is, and a word is said. *)
LEMMA VarintIsSafe ==
  ASSUME NEW run \in Seq(Bytes)
  PROVE  /\ Varint(run).took \in Nat /\ Varint(run).took <= Len(run)
         /\ Varint(run).value \in 0..(WordSize - 1)
         /\ Varint(run).ok \in BOOLEAN
         /\ Varint(run).ok => Varint(run).took > 0
<1>1. PICK ends, took, fits : ReadTo(run, ends, took, fits)
  BY VarintReads
<1>2. /\ ends = {k \in 1..Len(run) : k <= MaxDigits /\ ~run[k].more}
      /\ took \in Nat /\ took <= Len(run) /\ took <= MaxDigits
      /\ ends # {} => took \in ends
      /\ fits = (ends # {} /\ (took = MaxDigits => run[took].digit < LastRoom))
  BY <1>1 DEF ReadTo
<1>3. PICK value : value = IF fits THEN Number(SubSeq(run, 1, took)) ELSE 0
  OBVIOUS
<1>4. Varint(run) = [ok |-> fits, took |-> took, value |-> value]
  BY <1>1, <1>3, Zenon DEF ReadTo
<1>5. fits \in BOOLEAN /\ (fits => took > 0)
  <2>1. took \in ends => took > 0
    BY <1>2
  <2> QED
    BY <1>2, <2>1
<1>6. value \in 0..(WordSize - 1)
  <2>1. CASE ~fits
    BY <1>3, <2>1, WordSizeIs
  <2>2. CASE fits
    <3>1. took \in 0..Len(run)
      BY <1>2, SeqFacts
    <3>2. PICK front : front = SubSeq(run, 1, took)
      OBVIOUS
    <3>3. /\ front \in Seq(Bytes) /\ Len(front) = took
          /\ \A k \in 1..took : front[k] = run[k]
      BY <3>1, <3>2, FrontIs
    <3>4. PICK sum : Sums(sum, front) /\ Number(front) = sum[took]
      BY <3>3, NumberSums
    <3>5. \A k \in 0..took : sum[k] \in Nat /\ sum[k] < Weight[k]
      BY <3>3, <3>4, SumsStayBelow
    <3>6. value = sum[took]
      BY <1>3, <2>2, <3>2, <3>4
    <3>7. PICK s \in Nat : s = sum[took] /\ s < Weight[took]
      BY <1>2, <3>5
    <3>8. /\ MaxDigits \in Nat \ {0} /\ LastRoom \in Nat \ {0} /\ MaxDigits - 1 \in Nat
          /\ WordSize \in Nat
      BY WordParameters, WordSizeIs DEF WordParameters
    <3>9. PICK w \in Nat : w = Weight[MaxDigits - 1] /\ WordSize = LastRoom * w
      BY <3>8, WeightIs DEF WordSize
    <3>10. CASE took = MaxDigits
      <4>1. PICK d \in Nat : d = front[took].digit /\ d + 1 <= LastRoom
        <5>1. took \in 1..took /\ took \in 1..Len(run)
          BY <1>2, <1>5, <2>2, SeqFacts
        <5>2. run[took] \in Bytes /\ front[took] = run[took]
          BY <3>3, <5>1, SeqFacts
        <5>3. run[took].digit \in Nat
          BY <5>2, WordParameters DEF Bytes, WordParameters
        <5>4. run[took].digit < LastRoom
          BY <1>2, <2>2, <3>10
        <5> QED
          BY <3>8, <5>2, <5>3, <5>4
      <4>2. PICK before \in Nat : before = sum[took - 1] /\ before < w
        <5>1. took - 1 \in 0..took
          BY <3>8, <3>10
        <5> QED
          BY <3>5, <3>9, <3>10, <5>1
      <4>3. s = before + d * w
        <5>1. took \in 1..Len(front)
          BY <3>3, <3>8, <3>10
        <5>2. sum[took] = sum[took - 1] + front[took].digit * Weight[took - 1]
          BY <3>4, <5>1 DEF Sums
        <5> QED
          BY <3>7, <3>9, <3>10, <4>1, <4>2, <5>2
      <4>4. d * w + w <= LastRoom * w /\ d * w \in Nat /\ LastRoom * w \in Nat
        BY <3>8, <4>1, TimesMore, TimesNat
      <4>5. s < LastRoom * w
        BY <4>2, <4>3, <4>4
      <4>6. PICK size \in Nat : size = LastRoom * w /\ size = WordSize
        BY <3>9, <4>4
      <4>7. s < size /\ value = s
        BY <3>6, <3>7, <4>5, <4>6
      <4> QED
        BY <4>6, <4>7
    <3>11. CASE took # MaxDigits
      <4>1. took \in 0..(MaxDigits - 1)
        BY <1>2, <3>8, <3>11
      <4>2. PICK u \in Nat : u = Weight[took] /\ u <= w
        BY <3>8, <3>9, <4>1, WeightGrows
      <4>3. w <= LastRoom * w /\ LastRoom * w \in Nat
        BY <3>8, TimesNat
      <4> QED
        BY <3>6, <3>7, <3>9, <4>2, <4>3
    <3> QED
      BY <3>10, <3>11
  <2> QED
    BY <1>5, <2>1, <2>2
<1> QED
  BY <1>2, <1>4, <1>5, <1>6

(* A word that arrived whole is read, and no more. *)
LEMMA VarintIsRead ==
  ASSUME NEW run \in Seq(Bytes), NEW v \in 0..(WordSize - 1), Len(Digits(v)) <= Len(run),
         \A k \in 1..Len(Digits(v)) : run[k] = Digits(v)[k]
  PROVE  /\ Varint(run).ok /\ Varint(run).took = Len(Digits(v)) /\ Varint(run).value = v
<1>1. PICK n, word : n = Len(word) /\ word = Digits(v)
  OBVIOUS
<1>2. /\ word \in Seq(Bytes) /\ n \in 1..MaxDigits
      /\ \A k \in 1..n : word[k].more <=> k < n
      /\ Number(word) = v
      /\ n = MaxDigits => word[n].digit < LastRoom
  BY <1>1, DigitsSayWord
<1>3. n <= Len(run) /\ \A k \in 1..n : run[k] = word[k]
  BY <1>1
<1>4. PICK ends, took, fits : ReadTo(run, ends, took, fits)
  BY VarintReads
<1>5. /\ ends = {k \in 1..Len(run) : k <= MaxDigits /\ ~run[k].more}
      /\ took \in Nat /\ took <= Len(run) /\ took <= MaxDigits
      /\ ends # {} => took \in ends /\ \A k \in ends : took <= k
      /\ fits = (ends # {} /\ (took = MaxDigits => run[took].digit < LastRoom))
      /\ Varint(run) = [ok |-> fits, took |-> took, value |-> IF fits THEN Number(SubSeq(run, 1, took)) ELSE 0]
  BY <1>4, Zenon DEF ReadTo
<1>6. Len(run) \in Nat /\ MaxDigits \in Nat \ {0} /\ n \in Nat \ {0} /\ n <= MaxDigits
  BY <1>2, SeqFacts, WordParameters DEF WordParameters
<1>7. n \in ends
  <2>1. n \in 1..n /\ n \in 1..Len(run)
    BY <1>3, <1>6
  <2>2. ~run[n].more
    BY <1>2, <1>3, <1>6, <2>1
  <2> QED
    BY <1>5, <1>6, <2>1, <2>2
<1>8. took = n
  <2>1. took \in ends /\ took <= n
    BY <1>5, <1>7
  <2>2. took \in 1..n /\ ~run[took].more
    BY <1>5, <1>6, <2>1
  <2>3. ~(took < n)
    BY <1>2, <1>3, <2>2
  <2> QED
    BY <1>5, <1>6, <2>1, <2>3
<1>9. fits = TRUE
  <2>1. n \in 1..n
    BY <1>6
  <2>2. n = MaxDigits => run[n].digit < LastRoom
    BY <1>2, <1>3, <2>1
  <2> QED
    BY <1>5, <1>7, <1>8, <2>2
<1>10. SubSeq(run, 1, n) = word
  <2>1. n \in 0..Len(run)
    BY <1>3, <1>6
  <2>2. PICK front : front = SubSeq(run, 1, n)
    OBVIOUS
  <2>3. front \in Seq(Bytes) /\ Len(front) = n /\ \A k \in 1..n : front[k] = run[k]
    BY <2>1, <2>2, FrontIs
  <2>4. front = word
    BY <1>1, <1>2, <1>3, <2>3
  <2> QED
    BY <2>2, <2>4
<1>11. Varint(run) = [ok |-> TRUE, took |-> n, value |-> v]
  BY <1>2, <1>5, <1>8, <1>9, <1>10, Zenon
<1> QED
  BY <1>1, <1>11

(* A word of which the end is missing is not. *)
LEMMA VarintIsMissed ==
  ASSUME NEW run \in Seq(Bytes), NEW v \in 0..(WordSize - 1), Len(run) < Len(Digits(v)),
         \A k \in 1..Len(run) : run[k] = Digits(v)[k]
  PROVE  ~Varint(run).ok
<1>1. PICK n, word : n = Len(word) /\ word = Digits(v)
  OBVIOUS
<1>2. n \in 1..MaxDigits /\ \A k \in 1..n : word[k].more <=> k < n
  BY <1>1, DigitsSayWord
<1>3. PICK m \in Nat : m = Len(run) /\ m < n /\ \A k \in 1..m : run[k] = word[k]
  BY <1>1, SeqFacts
<1>4. PICK ends, took, fits : ReadTo(run, ends, took, fits)
  BY VarintReads
<1>5. /\ ends = {k \in 1..m : k <= MaxDigits /\ ~run[k].more}
      /\ fits = (ends # {} /\ (took = MaxDigits => run[took].digit < LastRoom))
      /\ Varint(run) = [ok |-> fits, took |-> took, value |-> IF fits THEN Number(SubSeq(run, 1, took)) ELSE 0]
  BY <1>3, <1>4, Zenon DEF ReadTo
<1>6. ends = {}
  <2>1. ASSUME NEW k \in 1..m  PROVE run[k].more
    <3>1. k \in 1..n /\ k < n
      BY <1>2, <1>3
    <3> QED
      BY <1>2, <1>3, <3>1
  <2> QED
    BY <1>5, <2>1
<1>7. fits = FALSE
  BY <1>5, <1>6
<1> QED
  BY <1>5, <1>7

-----------------------------------------------------------------------------
(* A message as it is written. *)

(* What follows the tag of a field, and what a decoder should have of it.  *)
Body(f) ==
  CASE f.type = WireVarint -> Digits(f.value)
    [] f.type = WireBytes  -> Digits(Len(f.value)) \o f.value
    [] f.type \in {WireFixed64, WireFixed32} -> f.value

ValueOf(f) == IF f.type = WireVarint THEN Digits(f.value) ELSE f.value

WritableAll(fs) ==
  /\ fs = [k \in 1..Len(fs) |-> fs[k]] /\ Len(fs) \in Nat
  /\ \A k \in 1..Len(fs) : Writable(fs[k])

LEMMA TagIsWord ==
  ASSUME NEW f, Writable(f)
  PROVE  /\ Tag(f) \in 0..(WordSize - 1)
         /\ Tag(f) \div 8 = f.number /\ Tag(f) % 8 = f.type
<1>1. PICK number, type : number = f.number /\ type = f.type
  OBVIOUS
<1>2. number \in Nat \ {0} /\ type \in {0, 1, 2, 5} /\ number * 8 + type < WordSize /\ WordSize \in Nat
  BY <1>1, WordSizeIs DEF Writable, Tag, WireVarint, WireFixed64, WireBytes, WireFixed32
<1>3. (number * 8 + type) \div 8 = number /\ (number * 8 + type) % 8 = type
  BY <1>2
<1> QED
  BY <1>1, <1>2, <1>3 DEF Tag

LEMMA BodyIs ==
  ASSUME NEW f, Writable(f)
  PROVE  /\ Body(f) \in Seq(Bytes) /\ ValueOf(f) \in Seq(Bytes)
         /\ f.type = WireVarint => f.value \in 0..(WordSize - 1) /\ Body(f) = Digits(f.value)
         /\ f.type = WireBytes =>
              /\ f.value \in Seq(Bytes) /\ Len(f.value) \in 0..(WordSize - 1)
              /\ Body(f) = Digits(Len(f.value)) \o f.value
         /\ f.type \in {WireFixed64, WireFixed32} =>
              f.value \in Seq(Bytes) /\ Len(f.value) = Fixed(f.type) /\ Body(f) = f.value
<1>1. PICK type, value : type = f.type /\ value = f.value
  OBVIOUS
<1>2. /\ type \in {0, 1, 2, 5} /\ WordSize \in Nat
      /\ type = 0 => value \in 0..(WordSize - 1)
      /\ type # 0 => value \in Seq(Bytes) /\ Len(value) < WordSize
      /\ type \in {1, 5} => Len(value) = Fixed(type)
  BY <1>1, WordSizeIs DEF Writable, WireVarint, WireFixed64, WireBytes, WireFixed32
<1>3. type # 0 => Len(value) \in 0..(WordSize - 1)
  BY <1>2, SeqFacts
<1>4. CASE type = 0
  <2>1. Body(f) = Digits(value) /\ ValueOf(f) = Digits(value)
    BY <1>1, <1>4 DEF Body, ValueOf, WireVarint, WireFixed64, WireBytes, WireFixed32
  <2>2. Digits(value) \in Seq(Bytes)
    BY <1>2, <1>4, DigitsSayWord
  <2> QED
    BY <1>1, <1>2, <1>4, <2>1, <2>2 DEF WireVarint, WireFixed64, WireBytes, WireFixed32
<1>5. CASE type = 2
  <2>1. Body(f) = Digits(Len(value)) \o value /\ ValueOf(f) = value
    <3>1. f.type = WireBytes /\ f.type # WireVarint /\ f.type \notin {WireFixed64, WireFixed32}
      BY <1>1, <1>5 DEF WireVarint, WireFixed64, WireBytes, WireFixed32
    <3> QED
      BY <1>1, <3>1, Zenon DEF Body, ValueOf
  <2>2. Digits(Len(value)) \in Seq(Bytes)
    BY <1>3, <1>5, DigitsSayWord
  <2>3. Digits(Len(value)) \o value \in Seq(Bytes)
    BY <1>2, <1>5, <2>2, ConcatProperties
  <2> QED
    BY <1>1, <1>2, <1>3, <1>5, <2>1, <2>3 DEF WireVarint, WireFixed64, WireBytes, WireFixed32
<1>6. CASE type \in {1, 5}
  <2>1. Body(f) = value /\ ValueOf(f) = value
    BY <1>1, <1>6 DEF Body, ValueOf, WireVarint, WireFixed64, WireBytes, WireFixed32
  <2>2. type # 0 /\ type # 2
    BY <1>6
  <2>3. value \in Seq(Bytes) /\ Len(value) = Fixed(type)
    BY <1>2, <1>6, <2>2
  <2> QED
    BY <1>1, <2>1, <2>2, <2>3 DEF WireVarint, WireBytes
<1> QED
  BY <1>2, <1>4, <1>5, <1>6

(* A field is its tag and its body. *)
LEMMA WrittenIs ==
  ASSUME NEW f, Writable(f)
  PROVE  /\ Written(f) \in Seq(Bytes)
         /\ Len(Digits(Tag(f))) \in Nat \ {0} /\ Len(Body(f)) \in Nat
         /\ Len(Written(f)) = Len(Digits(Tag(f))) + Len(Body(f))
         /\ \A j \in 1..Len(Digits(Tag(f))) : Written(f)[j] = Digits(Tag(f))[j]
         /\ \A j \in 1..Len(Body(f)) : Written(f)[Len(Digits(Tag(f))) + j] = Body(f)[j]
<1>1. PICK tag, body, m, n : tag = Digits(Tag(f)) /\ body = Body(f) /\ m = Len(tag) /\ n = Len(body)
  OBVIOUS
<1>2. tag \in Seq(Bytes) /\ m \in Nat \ {0}
  BY <1>1, TagIsWord, DigitsSayWord, WordParameters DEF WordParameters
<1>3. body \in Seq(Bytes) /\ n \in Nat
  BY <1>1, BodyIs, SeqFacts
<1>4. Written(f) = tag \o body
  BY <1>1 DEF Written, Body
<1>5. /\ tag \o body \in Seq(Bytes) /\ Len(tag \o body) = m + n
      /\ \A j \in 1..(m + n) : (tag \o body)[j] = IF j <= m THEN tag[j] ELSE body[j - m]
  BY <1>1, <1>2, <1>3, ConcatProperties
<1>6. \A j \in 1..m : Written(f)[j] = tag[j]
  BY <1>2, <1>3, <1>4, <1>5
<1>7. ASSUME NEW j \in 1..n  PROVE Written(f)[m + j] = body[j]
  <2>1. m + j \in 1..(m + n) /\ ~(m + j <= m) /\ (m + j) - m = j
    BY <1>2, <1>3
  <2> QED
    BY <1>4, <1>5, <2>1
<1> QED
  BY <1>1, <1>2, <1>3, <1>4, <1>5, <1>6, <1>7

(* ends[k] is where the k-th field ends in the whole message. *)
EndsAt(ends, fs) ==
  /\ ends \in [0..Len(fs) -> Nat] /\ ends[0] = 0
  /\ \A k \in 1..Len(fs) : ends[k] = ends[k - 1] + Len(Written(fs[k]))

Spread(ends, whole, fs) ==
  /\ EndsAt(ends, fs)
  /\ whole \in Seq(Bytes) /\ Len(whole) = ends[Len(fs)]
  /\ \A k \in 1..Len(fs) : \A j \in 1..Len(Written(fs[k])) : whole[ends[k - 1] + j] = Written(fs[k])[j]

LEMMA EndsGrow ==
  ASSUME NEW fs, WritableAll(fs), NEW ends, EndsAt(ends, fs)
  PROVE  \A j, k \in 0..Len(fs) : j < k => ends[j] < ends[k]
<1>1. PICK n \in Nat : n = Len(fs)
  BY DEF WritableAll
<1>2. ends \in [0..n -> Nat] /\ \A k \in 1..n : ends[k] = ends[k - 1] + Len(Written(fs[k]))
  BY <1>1 DEF EndsAt
<1>3. \A k \in 1..n : ends[k - 1] < ends[k]
  <2> SUFFICES ASSUME NEW k \in 1..n  PROVE ends[k - 1] < ends[k]
    OBVIOUS
  <2>1. Writable(fs[k])
    BY <1>1 DEF WritableAll
  <2>2. PICK more \in Nat \ {0} : more = Len(Written(fs[k]))
    BY <2>1, WrittenIs
  <2>3. k - 1 \in 0..n
    BY <1>1
  <2> QED
    BY <1>2, <2>2, <2>3
<1> SUFFICES ASSUME NEW j \in 0..n  PROVE \A k \in 0..n : j < k => ends[j] < ends[k]
  BY <1>1
<1>4. PICK reached : reached = {k \in 0..n : j < k => ends[j] < ends[k]}
  OBVIOUS
<1>5. reached \in SUBSET (0..n) /\ 0 \in reached
  BY <1>1, <1>4
<1>6. ASSUME NEW k \in 0..(n - 1), k \in reached  PROVE k + 1 \in reached
  <2>1. k + 1 \in 1..n /\ k + 1 \in 0..n /\ (k + 1) - 1 = k /\ k \in 0..n
    BY <1>1
  <2>2. PICK a \in Nat, b \in Nat : a = ends[k] /\ b = ends[k + 1] /\ a < b
    BY <1>2, <1>3, <2>1
  <2>3. PICK c \in Nat : c = ends[j] /\ (j < k => c < a) /\ (j = k => c = a)
    BY <1>2, <1>4, <1>6, <2>2
  <2>4. j < k + 1 => c < b
    BY <2>1, <2>2, <2>3
  <2> QED
    BY <1>4, <2>1, <2>2, <2>3, <2>4
<1>7. \A k \in 0..n : k \in reached
  BY <1>1, <1>5, <1>6, NextByNext
<1> QED
  BY <1>4, <1>7

LEMMA PiecesJoin ==
  ASSUME NEW V, NEW seqs \in Seq(Seq(V)), NEW p, Joins(p, V, seqs)
  PROVE  \A k \in 1..Len(seqs) : \A i \in k..Len(seqs) : \A j \in 1..Len(seqs[k]) :
            p[i][Len(p[k - 1]) + j] = seqs[k][j]
<1>1. PICK n \in Nat : n = Len(seqs)
  BY SeqFacts
<1>2. /\ p \in [0..n -> Seq(V)] /\ \A k \in 1..n : p[k] = p[k - 1] \o seqs[k]
      /\ \A k \in 1..n : seqs[k] \in Seq(V)
  BY <1>1, SeqFacts DEF Joins
<1>3. ASSUME NEW k \in 1..n
      PROVE  /\ Len(p[k - 1]) \in Nat /\ Len(seqs[k]) \in Nat /\ Len(p[k]) = Len(p[k - 1]) + Len(seqs[k])
             /\ \A i \in 1..(Len(p[k - 1]) + Len(seqs[k])) :
                  p[k][i] = IF i <= Len(p[k - 1]) THEN p[k - 1][i] ELSE seqs[k][i - Len(p[k - 1])]
  <2>1. k - 1 \in 0..n
    BY <1>1
  <2>2. p[k - 1] \in Seq(V) /\ seqs[k] \in Seq(V) /\ p[k] = p[k - 1] \o seqs[k]
    BY <1>2, <2>1
  <2>3. PICK s, u : s = p[k - 1] /\ u = seqs[k]
    OBVIOUS
  <2>4. /\ Len(s) \in Nat /\ Len(u) \in Nat /\ Len(s \o u) = Len(s) + Len(u)
        /\ \A i \in 1..(Len(s) + Len(u)) : (s \o u)[i] = IF i <= Len(s) THEN s[i] ELSE u[i - Len(s)]
    <3>1. s \in Seq(V) /\ u \in Seq(V)
      BY <2>2, <2>3
    <3> QED
      BY <3>1, ConcatProperties, SeqFacts, Zenon
  <2>5. PICK w : w = p[k] /\ w = s \o u
    BY <2>2, <2>3
  <2>6. /\ Len(w) = Len(s) + Len(u)
        /\ \A i \in 1..(Len(s) + Len(u)) : w[i] = IF i <= Len(s) THEN s[i] ELSE u[i - Len(s)]
    BY <2>4, <2>5
  <2>7. w = p[k]
    BY <2>5
  <2> QED
    BY <2>3, <2>4, <2>6, <2>7, Zenon
<1> SUFFICES ASSUME NEW k \in 1..n, NEW j \in 1..Len(seqs[k])
             PROVE  \A i \in k..n : p[i][Len(p[k - 1]) + j] = seqs[k][j]
  BY <1>1
<1>4. PICK pos \in Nat : pos = Len(p[k - 1]) + j /\ pos \in 1..Len(p[k]) /\ p[k][pos] = seqs[k][j]
  <2>1. PICK m \in Nat, more \in Nat : m = Len(p[k - 1]) /\ more = Len(seqs[k]) /\ Len(p[k]) = m + more
    BY <1>3
  <2>0. j \in 1..more
    BY <2>1
  <2>2. m + j \in 1..(m + more) /\ ~(m + j <= m) /\ (m + j) - m = j /\ m + j \in Nat
    BY <2>0
  <2>3. p[k][m + j] = seqs[k][j]
    BY <1>3, <2>1, <2>2
  <2> QED
    BY <2>1, <2>2, <2>3
<1>5. PICK reached : reached = {i \in 0..n : k <= i => pos \in 1..Len(p[i]) /\ p[i][pos] = seqs[k][j]}
  OBVIOUS
<1>6. reached \in SUBSET (0..n) /\ 0 \in reached
  BY <1>1, <1>5
<1>7. ASSUME NEW i \in 0..(n - 1), i \in reached  PROVE i + 1 \in reached
  <2>1. i + 1 \in 1..n /\ i + 1 \in 0..n /\ (i + 1) - 1 = i
    BY <1>1
  <2>2. CASE k <= i
    <3>1. pos \in 1..Len(p[i]) /\ p[i][pos] = seqs[k][j]
      BY <1>5, <1>7, <2>2
    <3>2. PICK m \in Nat, more \in Nat : m = Len(p[i]) /\ more = Len(seqs[i + 1]) /\ Len(p[i + 1]) = m + more
      BY <1>3, <2>1
    <3>0. pos \in 1..m
      BY <3>1, <3>2
    <3>3. pos \in 1..(m + more) /\ pos <= m
      BY <3>0
    <3>4. p[i + 1][pos] = p[i][pos]
      BY <1>3, <2>1, <3>2, <3>3
    <3> QED
      BY <1>5, <2>1, <3>1, <3>2, <3>3, <3>4
  <2>3. CASE i + 1 = k
    BY <1>4, <1>5, <2>1, <2>3
  <2>4. CASE i + 1 < k
    BY <1>5, <2>1, <2>4
  <2> QED
    BY <1>1, <2>2, <2>3, <2>4
<1>8. \A i \in 0..n : i \in reached
  BY <1>1, <1>6, <1>7, NextByNext
<1> QED
  BY <1>1, <1>4, <1>5, <1>8

LEMMA EncodeIs ==
  ASSUME NEW fs, WritableAll(fs)
  PROVE  \E ends : /\ Spread(ends, Encode(fs), fs)
                   /\ \A k \in 0..Len(fs) : Len(Encode(SubSeq(fs, 1, k))) = ends[k]
<1>1. PICK n \in Nat : n = Len(fs) /\ fs = [k \in 1..n |-> fs[k]] /\ \A k \in 1..n : Writable(fs[k])
  BY DEF WritableAll
<1>2. PICK seqs : seqs = [k \in 1..n |-> Written(fs[k])]
  OBVIOUS
<1>3. /\ \A k \in 1..n : Written(fs[k]) \in Seq(Bytes) /\ Len(Written(fs[k])) \in Nat
      /\ seqs \in Seq(Seq(Bytes)) /\ Len(seqs) = n
  <2>1. \A k \in 1..n : Written(fs[k]) \in Seq(Bytes) /\ Len(Written(fs[k])) \in Nat
    BY <1>1, WrittenIs, SeqFacts
  <2> QED
    BY <1>2, <2>1
<1>4. Encode(fs) = FlattenSeq(seqs)
  <2>1. DOMAIN fs = 1..n
    BY <1>1
  <2> QED
    BY <1>2, <2>1 DEF Encode
<1>5. PICK p : Joins(p, Bytes, seqs) /\ Encode(fs) = p[n]
  BY <1>3, <1>4, FlattenJoins
<1>6. p \in [0..n -> Seq(Bytes)] /\ p[0] = <<>> /\ \A k \in 1..n : p[k] = p[k - 1] \o seqs[k]
  BY <1>3, <1>5 DEF Joins
<1>6a. \A i \in 1..Len(seqs) : \A l \in i..Len(seqs) : \A h \in 1..Len(seqs[i]) :
          p[l][Len(p[i - 1]) + h] = seqs[i][h]
  <2>1. seqs \in Seq(Seq(Bytes)) /\ Joins(p, Bytes, seqs)
    BY <1>3, <1>5
  <2> QED
    BY <2>1, PiecesJoin
<1>7. PICK ends : ends = [k \in 0..n |-> Len(p[k])]
  OBVIOUS
<1>8. EndsAt(ends, fs)
  <2>1. ends \in [0..n -> Nat] /\ ends[0] = 0
    <3>1. \A k \in 0..n : Len(p[k]) \in Nat
      BY <1>6, SeqFacts
    <3>2. Len(p[0]) = 0
      BY <1>6, EmptySeq
    <3> QED
      BY <1>1, <1>7, <3>1, <3>2
  <2>2. ASSUME NEW k \in 1..n  PROVE ends[k] = ends[k - 1] + Len(Written(fs[k]))
    <3>1. k - 1 \in 0..n /\ k \in 0..n
      BY <1>1
    <3>2. p[k - 1] \in Seq(Bytes) /\ seqs[k] \in Seq(Bytes) /\ p[k] = p[k - 1] \o seqs[k] /\ seqs[k] = Written(fs[k])
      BY <1>2, <1>3, <1>6, <3>1
    <3>3. Len(p[k]) = Len(p[k - 1]) + Len(seqs[k])
      BY <3>2, ConcatProperties
    <3> QED
      BY <1>7, <3>1, <3>2, <3>3
  <2> QED
    BY <1>1, <2>1, <2>2 DEF EndsAt
<1>9. Spread(ends, p[n], fs)
  <2>1. p[n] \in Seq(Bytes) /\ Len(p[n]) = ends[n]
    BY <1>1, <1>6, <1>7
  <2>2. ASSUME NEW k \in 1..n, NEW j \in 1..Len(Written(fs[k]))  PROVE p[n][ends[k - 1] + j] = Written(fs[k])[j]
    <3>1. n \in k..n /\ seqs[k] = Written(fs[k]) /\ k - 1 \in 0..n
      BY <1>1, <1>2
    <3>2. j \in 1..Len(seqs[k]) /\ k \in 1..Len(seqs) /\ n \in k..Len(seqs)
      BY <1>3, <3>1
    <3>4. \A i \in k..Len(seqs) : \A l \in 1..Len(seqs[k]) : p[i][Len(p[k - 1]) + l] = seqs[k][l]
      BY <1>6a, <3>2
    <3>3. p[n][Len(p[k - 1]) + j] = seqs[k][j]
      BY <3>2, <3>4, Zenon
    <3> QED
      BY <1>7, <3>1, <3>3
  <2> QED
    BY <1>1, <1>8, <2>1, <2>2 DEF Spread
<1>10. ASSUME NEW k \in 0..n  PROVE Len(Encode(SubSeq(fs, 1, k))) = ends[k]
  <2>1. PICK front : front = SubSeq(fs, 1, k)
    OBVIOUS
  <2>2. Len(front) = k /\ DOMAIN front = 1..k /\ \A j \in 1..k : front[j] = fs[j]
    <3>1. PICK V : V = {fs[j] : j \in 1..n}
      OBVIOUS
    <3>2. fs \in Seq(V)
      <4>1. fs \in [1..n -> V]
        BY <1>1, <3>1
      <4> QED
        BY <1>1, <4>1
    <3>3. front \in Seq(V) /\ Len(front) = k /\ \A j \in 1..k : front[j] = fs[j]
      BY <1>1, <2>1, <3>2, FrontIs
    <3> QED
      BY <3>3, SeqFacts
  <2>3. PICK some : some = [j \in 1..k |-> Written(fs[j])]
    OBVIOUS
  <2>4. some \in Seq(Seq(Bytes)) /\ Len(some) = k /\ \A j \in 1..k : some[j] = seqs[j]
    <3>1. \A j \in 1..k : j \in 1..n
      BY <1>1
    <3>2. \A j \in 1..k : some[j] \in Seq(Bytes) /\ some[j] = seqs[j]
      BY <1>2, <1>3, <2>3, <3>1
    <3>3. some \in Seq(Seq(Bytes)) /\ Len(some) = k
      <4>1. \A j \in 1..k : Written(fs[j]) \in Seq(Bytes)
        BY <1>3, <3>1
      <4>2. some \in [1..k -> Seq(Bytes)]
        BY <2>3, <4>1
      <4>3. k \in Nat
        BY <1>1
      <4> QED
        BY <4>2, <4>3
    <3> QED
      BY <3>2, <3>3
  <2>5. Encode(front) = FlattenSeq(some)
    <3>1. [j \in DOMAIN front |-> Written(front[j])] = some
      BY <2>2, <2>3
    <3> QED
      BY <3>1 DEF Encode
  <2>6. PICK q : Joins(q, Bytes, some) /\ FlattenSeq(some) = q[k]
    BY <2>4, FlattenJoins
  <2>7. q[0] = <<>> /\ \A j \in 1..k : q[j] = q[j - 1] \o some[j]
    BY <2>4, <2>6 DEF Joins
  <2>8. StepAlike(p, q, k)
    <3>1. \A j \in 1..k : j \in 1..n
      BY <1>1
    <3> QED
      <4>1. \A j \in 1..k : p[j] = p[j - 1] \o some[j]
        BY <1>6, <2>4, <3>1
      <4>2. \A j \in 1..k : q[j - 1] = p[j - 1] => q[j] = p[j]
        BY <2>7, <4>1, Zenon
      <4> QED
        BY <1>1, <1>6, <2>7, <4>2 DEF StepAlike
  <2>9. q[k] = p[k]
    BY <2>8, SameSteps
  <2> QED
    BY <1>7, <2>1, <2>5, <2>6, <2>9
<1> QED
  BY <1>1, <1>5, <1>9, <1>10

-----------------------------------------------------------------------------
(* What a decoder does with the body of a field. *)

(* The bytes at hand are those of the body, as far as both go.             *)
BeginsAs(run, body) == \A j \in 1..Len(run) : j <= Len(body) => run[j] = body[j]

(* The reader stands at `pos` before a body of a type, with `run` to come;  *)
(* it goes to `to`.  It fails exactly if the body is not all there.        *)
Agrees(f, run, pos, to, value, read, tore) ==
  /\ tore = (Len(run) < Len(Body(f)))
  /\ ~tore => to = pos + Len(Body(f)) /\ (read => value = ValueOf(f))

Handled(type, run, pos, to, value, read, tore) ==
  /\ to \in Nat /\ pos <= to /\ tore \in BOOLEAN /\ read \in BOOLEAN /\ value \in Seq(Bytes)
  /\ tore \/ to <= pos + Len(run)
  /\ type = WireVarint /\ read => Number(value) < WordSize
  /\ \A f : Writable(f) /\ f.type = type /\ BeginsAs(run, Body(f)) => Agrees(f, run, pos, to, value, read, tore)

LEMMA VarintHandled ==
  ASSUME NEW run \in Seq(Bytes), NEW pos \in Nat, NEW to, to = pos + Varint(run).took,
         NEW tore, tore = ~Varint(run).ok
  PROVE  /\ Handled(WireVarint, run, pos, to, Digits(Varint(run).value), TRUE, tore)
         /\ Handled(WireVarint, run, pos, to, <<>>, FALSE, tore)
<1>1. PICK ok, took, word : ok = Varint(run).ok /\ took = Varint(run).took /\ word = Varint(run).value
  OBVIOUS
<1>2. ok \in BOOLEAN /\ took \in Nat /\ took <= Len(run) /\ word \in 0..(WordSize - 1) /\ Len(run) \in Nat
  BY <1>1, VarintIsSafe, SeqFacts
<1>3. PICK value : value = Digits(word)
  OBVIOUS
<1>4. value \in Seq(Bytes) /\ Number(value) < WordSize
  <2>1. value \in Seq(Bytes) /\ Number(value) = word
    BY <1>2, <1>3, DigitsSayWord
  <2> QED
    BY <1>2, <2>1, WordSizeIs
<1>5. to = pos + took /\ tore = ~ok
  BY <1>1
<1>6. to \in Nat /\ pos <= to /\ tore \in BOOLEAN /\ to <= pos + Len(run)
  BY <1>2, <1>5
<1>7. ASSUME NEW f, Writable(f), f.type = WireVarint, BeginsAs(run, Body(f))
      PROVE  Agrees(f, run, pos, to, value, TRUE, tore) /\ Agrees(f, run, pos, to, <<>>, FALSE, tore)
  <2>1. f.value \in 0..(WordSize - 1) /\ Body(f) = Digits(f.value) /\ ValueOf(f) = Digits(f.value)
    BY <1>7, BodyIs DEF ValueOf
  <2>2. PICK n \in Nat : n = Len(Body(f))
    BY <1>7, BodyIs, SeqFacts
  <2>3. CASE Len(run) < n
    <3>1. ~ok
      <4>1. \A k \in 1..Len(run) : run[k] = Digits(f.value)[k]
        BY <1>2, <1>7, <2>1, <2>2, <2>3 DEF BeginsAs
      <4> QED
        BY <1>1, <2>1, <2>2, <2>3, <4>1, VarintIsMissed
    <3> QED
      BY <1>5, <2>2, <2>3, <3>1 DEF Agrees
  <2>4. CASE ~(Len(run) < n)
    <3>1. ok /\ took = n /\ word = f.value
      <4>1. \A k \in 1..n : k \in 1..Len(run) /\ k <= n
        BY <1>2, <2>4
      <4>2. \A k \in 1..n : run[k] = Digits(f.value)[k]
        BY <1>7, <2>1, <2>2, <4>1 DEF BeginsAs
      <4>3. n <= Len(run)
        BY <1>2, <2>4
      <4> QED
        BY <1>1, <2>1, <2>2, <4>2, <4>3, VarintIsRead
    <3> QED
      BY <1>3, <1>5, <2>1, <2>2, <2>4, <3>1 DEF Agrees
  <2> QED
    BY <2>3, <2>4
<1>8. <<>> \in Seq(Bytes)
  BY EmptySeq
<1>9. Handled(WireVarint, run, pos, to, value, TRUE, tore)
  BY <1>4, <1>6, <1>7 DEF Handled
<1>10. Handled(WireVarint, run, pos, to, <<>>, FALSE, tore)
  BY <1>6, <1>7, <1>8 DEF Handled
<1> QED
  BY <1>1, <1>3, <1>9, <1>10

(* The length, and then as many bytes. *)
BytesGone(run, pos, to, tore, value, read) ==
  /\ tore = ~(Varint(run).ok /\ Varint(run).value <= Len(run) - Varint(run).took)
  /\ tore => to = pos + Varint(run).took
  /\ ~tore => /\ to = pos + Varint(run).took + Varint(run).value
              /\ read => /\ Len(value) = Varint(run).value
                         /\ \A j \in 1..Len(value) : value[j] = run[Varint(run).took + j]

LEMMA BytesHandled ==
  ASSUME NEW run \in Seq(Bytes), NEW pos \in Nat, NEW to, NEW tore, NEW value \in Seq(Bytes), NEW read \in BOOLEAN,
         BytesGone(run, pos, to, tore, value, read)
  PROVE  Handled(WireBytes, run, pos, to, value, read, tore)
<1>1. PICK ok, took, n, m : ok = Varint(run).ok /\ took = Varint(run).took /\ n = Varint(run).value /\ m = Len(run)
  OBVIOUS
<1>2. ok \in BOOLEAN /\ took \in Nat /\ took <= m /\ n \in Nat /\ m \in Nat
  BY <1>1, VarintIsSafe, SeqFacts, WordSizeIs
<1>3. /\ tore = ~(ok /\ n <= m - took)
      /\ tore => to = pos + took
      /\ ~tore => to = pos + took + n
      /\ ~tore /\ read => Len(value) = n /\ \A j \in 1..n : value[j] = run[took + j]
  BY <1>1 DEF BytesGone
<1>4. to \in Nat /\ pos <= to /\ tore \in BOOLEAN /\ (tore \/ to <= pos + m)
  <2>1. CASE tore
    BY <1>2, <1>3, <2>1
  <2>2. ASSUME ~tore  PROVE to \in Nat /\ pos <= to /\ to <= pos + m
    <3>1. n <= m - took /\ to = pos + took + n
      BY <1>3, <2>2
    <3> QED
      BY <1>2, <3>1
  <2>3. tore \in BOOLEAN
    BY <1>3
  <2> QED
    BY <2>1, <2>2, <2>3
<1>5. ASSUME NEW f, Writable(f), f.type = WireBytes, BeginsAs(run, Body(f))
      PROVE  Agrees(f, run, pos, to, value, read, tore)
  <2>1. PICK body, size, word, mine : body = Body(f) /\ size = Len(mine) /\ word = Digits(size) /\ mine = f.value
    OBVIOUS
  <2>2. mine \in Seq(Bytes) /\ size \in 0..(WordSize - 1) /\ body = word \o mine
    BY <1>5, <2>1, BodyIs
  <2>3. PICK l \in Nat : l = Len(word) /\ word \in Seq(Bytes) /\ size \in Nat
    BY <2>1, <2>2, DigitsSayWord, SeqFacts, WordSizeIs
  <2>4. /\ Len(body) = l + size
        /\ \A j \in 1..(l + size) : body[j] = IF j <= l THEN word[j] ELSE mine[j - l]
    BY <2>1, <2>2, <2>3, ConcatProperties
  <2>5. \A j \in 1..m : j <= l + size => run[j] = body[j]
    BY <1>1, <1>5, <2>1, <2>4 DEF BeginsAs
  <2>6. ValueOf(f) = mine
    BY <1>5, <2>1 DEF ValueOf, WireBytes, WireVarint
  <2>7. \A j \in 1..m : j <= l => run[j] = word[j]
    <3> SUFFICES ASSUME NEW j \in 1..m, j <= l  PROVE run[j] = word[j]
      OBVIOUS
    <3>1. j \in 1..(l + size) /\ j <= l + size
      BY <1>2, <2>3
    <3> QED
      BY <2>4, <2>5, <3>1
  <2>8. CASE m < l
    <3>1. \A k \in 1..m : k <= l
      BY <1>2, <2>3, <2>8
    <3>2. \A k \in 1..m : run[k] = word[k]
      BY <2>7, <3>1
    <3>3. ~ok
      BY <1>1, <2>1, <2>2, <2>3, <2>8, <3>2, VarintIsMissed
    <3>4. m < l + size
      BY <1>2, <2>3, <2>8
    <3> QED
      BY <1>1, <1>3, <2>1, <2>4, <3>3, <3>4 DEF Agrees
  <2>9. CASE ~(m < l)
    <3>1. \A k \in 1..l : k \in 1..m /\ k <= l
      BY <1>2, <2>3, <2>9
    <3>2. \A k \in 1..l : run[k] = word[k]
      BY <2>7, <3>1
    <3>3. l <= m
      BY <1>2, <2>3, <2>9
    <3>4. ok /\ took = l /\ n = size
      BY <1>1, <2>1, <2>2, <2>3, <3>2, <3>3, VarintIsRead
    <3>5. tore = (m < l + size)
      BY <1>2, <1>3, <2>3, <3>4
    <3>6. ~tore => to = pos + (l + size)
      BY <1>2, <1>3, <2>3, <3>4
    <3>7. ASSUME ~tore, read  PROVE value = mine
      <4>1. Len(value) = size /\ \A j \in 1..size : value[j] = run[l + j]
        BY <1>3, <3>4, <3>7
      <4>0. ~(m < l + size)
        BY <3>5, <3>7
      <4>2. ASSUME NEW j \in 1..size  PROVE value[j] = mine[j]
        <5>1. l + j \in 1..m /\ l + j <= l + size /\ l + j \in 1..(l + size) /\ ~(l + j <= l) /\ (l + j) - l = j
          BY <1>2, <2>3, <4>0
        <5> QED
          BY <2>4, <2>5, <4>1, <5>1
      <4>3. mine \in Seq(Bytes) /\ Len(mine) = size /\ Len(value) = size /\ \A j \in 1..size : value[j] = mine[j]
        BY <2>1, <2>2, <4>1, <4>2
      <4> QED
        BY <4>3
    <3> QED
      BY <1>1, <2>1, <2>4, <2>6, <3>5, <3>6, <3>7 DEF Agrees
  <2> QED
    BY <2>8, <2>9
<1> QED
  BY <1>1, <1>4, <1>5 DEF Handled, WireBytes, WireVarint

(* A fixed has the width of its type. *)
LEMMA FixedHandled ==
  ASSUME NEW run \in Seq(Bytes), NEW pos \in Nat, NEW to, NEW tore, NEW value \in Seq(Bytes), NEW read \in BOOLEAN,
         NEW type \in {WireFixed64, WireFixed32},
         tore = (Fixed(type) > Len(run)),
         tore  => to \in {pos, pos + Fixed(type)},
         ~tore => /\ to = pos + Fixed(type)
                  /\ read => Len(value) = Fixed(type) /\ \A j \in 1..Len(value) : value[j] = run[j]
  PROVE  Handled(type, run, pos, to, value, read, tore)
<1>1. PICK n, m : n = Fixed(type) /\ m = Len(run)
  OBVIOUS
<1>2. n \in Nat /\ m \in Nat
  BY <1>1, SeqFacts, WordParameters DEF WordParameters, Fixed
<1>3. to \in Nat /\ pos <= to /\ tore \in BOOLEAN /\ (tore \/ to <= pos + m)
  <2>1. CASE tore
    BY <1>1, <1>2, <2>1
  <2>2. CASE ~tore
    <3>1. ~(n > m) /\ to = pos + n
      BY <1>1, <2>2
    <3>2. to \in Nat /\ pos <= to /\ to <= pos + m
      BY <1>2, <3>1
    <3> QED
      BY <2>2, <3>2
  <2>3. tore \in BOOLEAN
    <3>1. tore = (n > m)
      BY <1>1
    <3>2. (n > m) \in BOOLEAN
      BY <1>2
    <3> QED
      BY <3>1, <3>2
  <2> QED
    BY <2>1, <2>2, <2>3
<1>4. ASSUME NEW f, Writable(f), f.type = type, BeginsAs(run, Body(f))
      PROVE  Agrees(f, run, pos, to, value, read, tore)
  <2>1. PICK mine : mine = f.value /\ mine \in Seq(Bytes) /\ Len(mine) = n /\ Body(f) = mine
    BY <1>1, <1>4, BodyIs
  <2>2. ValueOf(f) = mine
    BY <1>4, <2>1 DEF ValueOf, WireVarint, WireFixed64, WireFixed32
  <2>3. tore = (m < n)
    BY <1>1, <1>2
  <2>4. ASSUME ~tore, read  PROVE value = mine
    <3>1. Len(value) = n /\ \A j \in 1..n : value[j] = run[j]
      BY <1>1, <2>4
    <3>0. ~(m < n)
      BY <2>3, <2>4
    <3>2. \A j \in 1..n : j \in 1..m /\ j <= n
      BY <1>2, <3>0
    <3>3. \A j \in 1..n : run[j] = mine[j]
      BY <1>1, <1>4, <2>1, <3>2 DEF BeginsAs
    <3>4. mine \in Seq(Bytes) /\ Len(mine) = Len(value) /\ \A j \in 1..Len(value) : value[j] = mine[j]
      BY <2>1, <3>1, <3>3
    <3> QED
      BY <3>4, SeqEqual
  <2> QED
    BY <1>1, <2>1, <2>2, <2>3, <2>4 DEF Agrees
<1> QED
  BY <1>1, <1>3, <1>4 DEF Handled, WireVarint, WireFixed64, WireFixed32

(* Of any other type nobody writes a field. *)
LEMMA UnknownHandled ==
  ASSUME NEW run \in Seq(Bytes), NEW pos \in Nat, NEW type, type \notin {WireVarint, WireFixed64, WireBytes, WireFixed32}
  PROVE  Handled(type, run, pos, pos, <<>>, FALSE, TRUE)
<1>1. <<>> \in Seq(Bytes)
  BY EmptySeq
<1>2. \A f : Writable(f) => f.type # type
  BY DEF Writable
<1>3. pos <= pos /\ (FALSE \in BOOLEAN) /\ (TRUE \in BOOLEAN)
  OBVIOUS
<1> QED
  BY <1>1, <1>2, <1>3, Zenon DEF Handled

-----------------------------------------------------------------------------
(* The reader, whatever the bytes are.                                     *)

Entries  == [number : Nat, type : Nat, value : Seq(Bytes), read : BOOLEAN, from : Nat, to : Nat]
Headings == [number : Nat, type : Nat, at : Nat]

EndOf(got) == IF got = <<>> THEN 0 ELSE got[Len(got)].to

(* One field behind the other, and no word out of range. *)
Forward(got) ==
  \A k \in 1..Len(got) :
    /\ got[k].from = IF k = 1 THEN 0 ELSE got[k - 1].to
    /\ got[k].to > got[k].from
    /\ got[k].type = WireVarint /\ got[k].read => Number(got[k].value) < WordSize

ReaderTypes(buf, pos, tore, h, got, done) ==
  /\ buf \in Seq(Bytes) /\ pos \in Nat /\ tore \in BOOLEAN /\ done \in BOOLEAN
  /\ h \in Headings /\ got \in Seq(Entries)

ReaderOK(buf, pos, tore, h, got, done) ==
  /\ ReaderTypes(buf, pos, tore, h, got, done)
  /\ Forward(got)
  /\ tore \/ pos <= Len(buf)
  /\ h # NoField => ~tore /\ ~done /\ h.at < pos /\ h.at = EndOf(got)
  /\ h = NoField /\ ~tore => pos = EndOf(got)
  /\ done /\ ~tore => pos = Len(buf)

LEMMA NoFieldIs == NoField \in Headings
BY DEF NoField, Headings

(* A field more. *)
LEMMA ForwardGrows ==
  ASSUME NEW got \in Seq(Entries), Forward(got), NEW e \in Entries,
         e.from = EndOf(got), e.from < e.to, e.type = WireVarint /\ e.read => Number(e.value) < WordSize
  PROVE  /\ Append(got, e) \in Seq(Entries) /\ Forward(Append(got, e)) /\ EndOf(Append(got, e)) = e.to
<1>1. PICK more, m : more = Append(got, e) /\ m = Len(got)
  OBVIOUS
<1>2. m \in Nat /\ \A k \in 1..m : got[k] \in Entries
  BY <1>1, SeqFacts
<1>3. more \in Seq(Entries) /\ Len(more) = m + 1 /\ more[m + 1] = e /\ \A k \in 1..m : more[k] = got[k]
  BY <1>1, <1>2, AppendProperties
<1>4. EndOf(more) = e.to
  <2>1. more # <<>>
    BY <1>2, <1>3, EmptySeq
  <2> QED
    BY <1>3, <2>1 DEF EndOf
<1>5. ASSUME NEW k \in 1..(m + 1)
      PROVE  /\ more[k].from = IF k = 1 THEN 0 ELSE more[k - 1].to
             /\ more[k].to > more[k].from
             /\ more[k].type = WireVarint /\ more[k].read => Number(more[k].value) < WordSize
  <2>1. CASE k \in 1..m
    <3>1. more[k] = got[k] /\ (k # 1 => more[k - 1] = got[k - 1])
      BY <1>2, <1>3, <2>1
    <3> QED
      BY <1>1, <2>1, <3>1 DEF Forward
  <2>2. CASE k = m + 1
    <3>1. more[k] = e
      BY <1>3, <2>2
    <3>2. e.from = IF k = 1 THEN 0 ELSE more[k - 1].to
      <4>1. CASE m = 0
        <5>1. got = <<>>
          BY <1>1, <4>1, EmptySeq
        <5> QED
          BY <2>2, <4>1, <5>1 DEF EndOf
      <4>2. CASE m # 0
        <5>1. got # <<>>
          BY <1>1, <4>2, EmptySeq
        <5>2. k # 1 /\ k - 1 = m /\ more[m] = got[m]
          BY <1>2, <1>3, <2>2, <4>2
        <5>3. EndOf(got) = got[m].to
          BY <1>1, <5>1 DEF EndOf
        <5> QED
          BY <5>2, <5>3
      <4> QED
        BY <4>1, <4>2
    <3>3. e.to > e.from
      BY DEF Entries
    <3> QED
      BY <3>1, <3>2, <3>3
  <2> QED
    BY <1>2, <2>1, <2>2
<1>6. Forward(more)
  BY <1>3, <1>5 DEF Forward
<1> QED
  BY <1>1, <1>3, <1>4, <1>6

EntryOf(h, value, read, to) ==
  [number |-> h.number, type |-> h.type, value |-> value, read |-> read, from |-> h.at, to |-> to]

LEMMA RestIs ==
  ASSUME NEW buf \in Seq(Bytes), NEW pos \in Nat, pos <= Len(buf), NEW run, run = SubSeq(buf, pos + 1, Len(buf))
  PROVE  /\ run \in Seq(Bytes) /\ Len(run) = Len(buf) - pos
         /\ \A j \in 1..(Len(buf) - pos) : run[j] = buf[pos + j]
<1>1. PICK n \in Nat : n = Len(buf) /\ \A j \in 1..n : buf[j] \in Bytes
  BY SeqFacts
<1>2. pos + 1 \in Int /\ n \in Int /\ \A j \in (pos + 1)..n : buf[j] \in Bytes
  BY <1>1
<1>3. /\ SubSeq(buf, pos + 1, n) \in Seq(Bytes)
      /\ Len(SubSeq(buf, pos + 1, n)) = IF pos + 1 <= n THEN n - (pos + 1) + 1 ELSE 0
      /\ \A j \in 1..(n - (pos + 1) + 1) : SubSeq(buf, pos + 1, n)[j] = buf[pos + 1 + j - 1]
  BY <1>2, SubSeqProperties
<1>4. run \in Seq(Bytes) /\ Len(run) = n - pos
  BY <1>1, <1>3
<1>5. ASSUME NEW j \in 1..(n - pos)  PROVE run[j] = buf[pos + j]
  <2>1. j \in 1..(n - (pos + 1) + 1) /\ pos + 1 + j - 1 = pos + j
    BY <1>1
  <2> QED
    BY <1>1, <1>3, <2>1
<1> QED
  BY <1>1, <1>4, <1>5

LEMMA HandlingKeeps ==
  ASSUME NEW buf, NEW pos, NEW h, NEW got, NEW done, ReaderOK(buf, pos, FALSE, h, got, done), h # NoField,
         NEW run, run = SubSeq(buf, pos + 1, Len(buf)),
         NEW to, NEW value, NEW read, NEW tore, Handled(h.type, run, pos, to, value, read, tore)
  PROVE  ReaderOK(buf, to, tore, NoField, Append(got, EntryOf(h, value, read, to)), done)
<1>1. /\ buf \in Seq(Bytes) /\ pos \in Nat /\ done \in BOOLEAN /\ h \in Headings /\ got \in Seq(Entries)
      /\ Forward(got) /\ pos <= Len(buf) /\ ~done /\ h.at < pos /\ h.at = EndOf(got)
  BY DEF ReaderOK, ReaderTypes
<1>2. PICK n \in Nat : n = Len(buf) /\ Len(run) = n - pos /\ pos <= n
  BY <1>1, RestIs, SeqFacts
<1>3. /\ to \in Nat /\ pos <= to /\ tore \in BOOLEAN /\ read \in BOOLEAN /\ value \in Seq(Bytes)
      /\ tore \/ to <= pos + Len(run)
      /\ h.type = WireVarint /\ read => Number(value) < WordSize
  BY DEF Handled
<1>4. PICK e : e = EntryOf(h, value, read, to)
  OBVIOUS
<1>5. /\ e.from = h.at /\ e.to = to /\ e.type = h.type /\ e.read = read /\ e.value = value
  BY <1>4 DEF EntryOf
<1>6. e \in Entries
  BY <1>1, <1>3, <1>4 DEF EntryOf, Entries, Headings
<1>7. h.at < to
  BY <1>1, <1>3 DEF Headings
<1>8. /\ Append(got, e) \in Seq(Entries) /\ Forward(Append(got, e)) /\ EndOf(Append(got, e)) = to
  BY <1>1, <1>3, <1>5, <1>6, <1>7, ForwardGrows
<1>9. tore \/ to <= Len(buf)
  BY <1>1, <1>2, <1>3
<1> QED
  BY <1>1, <1>3, <1>4, <1>8, <1>9, NoFieldIs, Zenon DEF ReaderOK, ReaderTypes

-----------------------------------------------------------------------------
(* What arrived of a message that was written.                             *)

SameUpTo(got, fs, m) == \A k \in 1..m : IsFor(got[k], fs[k])

(* The reader is at the end of a field, or of the tag of the next one.     *)
Stands(fs, ends, pos, h, got) ==
  /\ Len(got) <= Len(fs) /\ SameUpTo(got, fs, Len(got))
  /\ h = NoField => pos = ends[Len(got)]
  /\ h # NoField =>
       /\ Len(got) < Len(fs)
       /\ h.number = fs[Len(got) + 1].number /\ h.type = fs[Len(got) + 1].type
       /\ pos = ends[Len(got)] + Len(Digits(Tag(fs[Len(got) + 1])))

(* The cut went through a field, and the fields before it were taken.      *)
CutIn(w, fs, ends, n, got) ==
  /\ w \in 0..(Len(fs) - 1) /\ ends[w] < n /\ n < ends[w + 1]
  /\ w <= Len(got) /\ Len(got) <= w + 1 /\ SameUpTo(got, fs, w)

Arrived(fs, ends, whole, n, buf, pos, tore, h, got) ==
  /\ n \in Nat /\ n <= Len(whole) /\ Len(buf) = n /\ \A j \in 1..n : buf[j] = whole[j]
  /\ ~tore => Stands(fs, ends, pos, h, got)
  /\ tore => \E w : CutIn(w, fs, ends, n, got)

Shows(n, e, part, size, pos, run, buf, whole, piece) ==
  /\ n \in Nat /\ e \in Nat /\ part \in Nat /\ size \in Nat /\ pos \in Nat /\ pos = e + part
  /\ \A j \in 1..n : buf[j] = whole[j]
  /\ \A j \in 1..(n - pos) : run[j] = buf[pos + j]
  /\ \A i \in 1..size : whole[e + i] = piece[i]

LEMMA PieceAt ==
  ASSUME NEW n, NEW e, NEW part, NEW size, NEW pos, NEW run, NEW buf, NEW whole, NEW piece,
         Shows(n, e, part, size, pos, run, buf, whole, piece)
  PROVE  \A j \in 1..(n - pos) : part + j <= size => run[j] = piece[part + j]
<1>0. /\ n \in Nat /\ e \in Nat /\ part \in Nat /\ size \in Nat /\ pos \in Nat /\ pos = e + part
      /\ \A j \in 1..n : buf[j] = whole[j]
      /\ \A j \in 1..(n - pos) : run[j] = buf[pos + j]
      /\ \A i \in 1..size : whole[e + i] = piece[i]
  BY DEF Shows
<1> SUFFICES ASSUME NEW j \in 1..(n - pos), part + j <= size  PROVE run[j] = piece[part + j]
  OBVIOUS
<1>1. pos + j \in 1..n /\ part + j \in 1..size /\ pos + j = e + (part + j)
  BY <1>0
<1>2. run[j] = whole[pos + j]
  BY <1>0, <1>1
<1>3. whole[e + (part + j)] = piece[part + j]
  BY <1>0, <1>1
<1> QED
  BY <1>1, <1>2, <1>3

(* The bytes to come are those of the next field, from where the reader is.*)
Ahead(fs, ends, whole, n, buf, m, part, pos, run) ==
  /\ WritableAll(fs) /\ Spread(ends, whole, fs)
  /\ n \in Nat /\ pos \in Nat /\ m \in Nat /\ m < Len(fs)
  /\ \A j \in 1..n : buf[j] = whole[j]
  /\ part \in 0..Len(Written(fs[m + 1])) /\ pos = ends[m] + part
  /\ \A j \in 1..(n - pos) : run[j] = buf[pos + j]

Follows(f, n, pos, part, run) ==
  \A j \in 1..(n - pos) : part + j <= Len(Written(f)) => run[j] = Written(f)[part + j]

Lies(ends, m, f) == ends[m] \in Nat /\ ends[m + 1] = ends[m] + Len(Written(f))

LEMMA NextField ==
  ASSUME NEW fs, NEW ends, NEW whole, NEW n, NEW buf, NEW m, NEW part, NEW pos, NEW run,
         Ahead(fs, ends, whole, n, buf, m, part, pos, run)
  PROVE  /\ Lies(ends, m, fs[m + 1]) /\ Writable(fs[m + 1])
         /\ Follows(fs[m + 1], n, pos, part, run)
<1>0. PICK f : f = fs[m + 1]
  OBVIOUS
<1>a. /\ n \in Nat /\ pos \in Nat /\ m \in Nat /\ m < Len(fs)
      /\ \A j \in 1..n : buf[j] = whole[j]
      /\ part \in 0..Len(Written(f)) /\ pos = ends[m] + part
      /\ \A j \in 1..(n - pos) : run[j] = buf[pos + j]
  BY <1>0 DEF Ahead
<1>1. PICK l \in Nat : l = Len(fs) /\ \A k \in 1..l : Writable(fs[k])
  BY DEF Ahead, WritableAll
<1>2. m \in 0..l /\ m + 1 \in 1..l /\ (m + 1) - 1 = m
  BY <1>1, <1>a
<1>3. /\ ends \in [0..l -> Nat]
      /\ \A k \in 1..l : ends[k] = ends[k - 1] + Len(Written(fs[k]))
      /\ \A k \in 1..l : \A j \in 1..Len(Written(fs[k])) : whole[ends[k - 1] + j] = Written(fs[k])[j]
  BY <1>1 DEF Ahead, Spread, EndsAt
<1>4. ends[m] \in Nat /\ ends[m + 1] = ends[m] + Len(Written(f)) /\ Writable(f)
  BY <1>0, <1>1, <1>2, <1>3
<1>5. PICK e, size, piece : e = ends[m] /\ size = Len(piece) /\ piece = Written(f)
  OBVIOUS
<1>6. e \in Nat /\ size \in Nat /\ part \in Nat /\ pos = e + part
  BY <1>4, <1>5, <1>a, WrittenIs, SeqFacts
<1>7. \A i \in 1..size : whole[e + i] = piece[i]
  <2>1. \A i \in 1..Len(Written(fs[m + 1])) : whole[ends[(m + 1) - 1] + i] = Written(fs[m + 1])[i]
    BY <1>2, <1>3, Zenon
  <2> QED
    BY <1>0, <1>2, <1>5, <2>1, Zenon
<1>8. \A j \in 1..(n - pos) : part + j <= size => run[j] = piece[part + j]
  <2>1. Shows(n, e, part, size, pos, run, buf, whole, piece)
    BY <1>6, <1>7, <1>a, Zenon DEF Shows
  <2> QED
    BY <2>1, PieceAt
<1>9. Follows(f, n, pos, part, run) /\ Lies(ends, m, f)
  BY <1>4, <1>5, <1>8 DEF Follows, Lies
<1> QED
  BY <1>0, <1>4, <1>9, Zenon

LEMMA BodyBegins ==
  ASSUME NEW fs, NEW ends, NEW whole, NEW n, NEW buf, NEW m, NEW pos, NEW run \in Seq(Bytes), Len(run) = n - pos,
         Ahead(fs, ends, whole, n, buf, m, Len(Digits(Tag(fs[m + 1]))), pos, run)
  PROVE  BeginsAs(run, Body(fs[m + 1]))
<1>1. PICK f, t, b, l : f = fs[m + 1] /\ t = Len(Digits(Tag(f))) /\ b = Len(Body(f)) /\ l = Len(Written(f))
  OBVIOUS
<1>2. Writable(f) /\ \A j \in 1..(n - pos) : t + j <= l => run[j] = Written(f)[t + j]
  <2>1. Writable(fs[m + 1]) /\ Follows(fs[m + 1], n, pos, Len(Digits(Tag(fs[m + 1]))), run)
    BY NextField, Zenon
  <2>2. Writable(f) /\ Follows(f, n, pos, t, run)
    BY <1>1, <2>1
  <2> QED
    BY <1>1, <2>2 DEF Follows
<1>3. t \in Nat \ {0} /\ b \in Nat /\ l = t + b /\ \A j \in 1..b : Written(f)[t + j] = Body(f)[j]
  BY <1>1, <1>2, WrittenIs
<1>4. ASSUME NEW j \in 1..Len(run), j <= b  PROVE run[j] = Body(f)[j]
  <2>1. j \in 1..(n - pos) /\ j \in 1..b /\ t + j <= l
    BY <1>3, <1>4
  <2> QED
    BY <1>2, <1>3, <2>1
<1> QED
  BY <1>1, <1>4 DEF BeginsAs

LEMMA HandlingArrives ==
  ASSUME NEW fs, WritableAll(fs), NEW ends, NEW whole, Spread(ends, whole, fs),
         NEW n, NEW buf, NEW pos, NEW h, NEW got, NEW done, ReaderOK(buf, pos, FALSE, h, got, done),
         Arrived(fs, ends, whole, n, buf, pos, FALSE, h, got), h # NoField,
         NEW run, run = SubSeq(buf, pos + 1, Len(buf)),
         NEW to, NEW value, NEW read, NEW tore, Handled(h.type, run, pos, to, value, read, tore)
  PROVE  Arrived(fs, ends, whole, n, buf, to, tore, NoField, Append(got, EntryOf(h, value, read, to)))
<1>1. /\ buf \in Seq(Bytes) /\ pos \in Nat /\ pos <= n /\ got \in Seq(Entries)
      /\ n \in Nat /\ n <= Len(whole) /\ Len(buf) = n /\ \A j \in 1..n : buf[j] = whole[j]
  BY DEF ReaderOK, ReaderTypes, Arrived
<1>2. PICK m, f : m = Len(got) /\ f = fs[m + 1]
  OBVIOUS
<1>3. PICK t, b : t = Len(Digits(Tag(f))) /\ b = Len(Body(f))
  OBVIOUS
<1>4. /\ m < Len(fs) /\ h.number = f.number /\ h.type = f.type /\ pos = ends[m] + t
      /\ SameUpTo(got, fs, m)
  BY <1>2, <1>3 DEF Arrived, Stands
<1>5. m \in Nat /\ Len(fs) \in Nat /\ m + 1 \in 1..Len(fs) /\ Writable(f)
  <2>1. m \in Nat /\ Len(fs) \in Nat
    BY <1>1, <1>2, SeqFacts DEF WritableAll
  <2>2. m + 1 \in 1..Len(fs)
    BY <1>4, <2>1
  <2> QED
    BY <1>2, <2>1, <2>2 DEF WritableAll
<1>6. t \in Nat \ {0} /\ b \in Nat /\ Len(Written(f)) = t + b
  BY <1>3, <1>5, WrittenIs
<1>7. run \in Seq(Bytes) /\ Len(run) = n - pos /\ \A j \in 1..(n - pos) : run[j] = buf[pos + j]
  BY <1>1, RestIs
<1>8. Ahead(fs, ends, whole, n, buf, m, t, pos, run)
  <2>1. t \in 0..Len(Written(fs[m + 1]))
    BY <1>2, <1>6
  <2> QED
    BY <1>1, <1>4, <1>5, <1>7, <2>1, Zenon DEF Ahead
<1>9. ends[m] \in Nat /\ ends[m + 1] = ends[m] + (t + b)
  <2>1. Lies(ends, m, fs[m + 1])
    BY <1>8, NextField, Zenon
  <2> QED
    BY <1>2, <1>6, <2>1, Zenon DEF Lies
<1>10. BeginsAs(run, Body(f))
  <2>1. Ahead(fs, ends, whole, n, buf, m, Len(Digits(Tag(fs[m + 1]))), pos, run)
    BY <1>2, <1>3, <1>8
  <2>2. BeginsAs(run, Body(fs[m + 1]))
    <3>1. run \in Seq(Bytes) /\ Len(run) = n - pos
      BY <1>7
    <3> QED
      BY <2>1, <3>1, BodyBegins
  <2> QED
    BY <1>2, <2>2
<1>11. /\ tore = (Len(run) < b)
       /\ ~tore => to = pos + b /\ (read => value = ValueOf(f))
  BY <1>3, <1>4, <1>5, <1>10, Zenon DEF Handled, Agrees
<1>12. PICK e, more : e = EntryOf(h, value, read, to) /\ more = Append(got, e)
  OBVIOUS
<1>13. Len(more) = m + 1 /\ more[m + 1] = e /\ \A k \in 1..m : more[k] = got[k]
  BY <1>1, <1>2, <1>12
<1>14. SameUpTo(more, fs, m)
  BY <1>4, <1>13 DEF SameUpTo
<1>15. CASE tore
  <2>1. PICK a \in Nat, c \in Nat : a = ends[m] /\ c = ends[m + 1] /\ c = a + (t + b) /\ pos = a + t
    BY <1>4, <1>6, <1>9
  <2>2. n - pos < b
    BY <1>7, <1>11, <1>15
  <2>3. a < n /\ n < c
    <3>1. PICK x \in Nat, y \in Nat, z \in Nat, s \in Nat : x = n /\ y = pos /\ z = b /\ s = t
      BY <1>1, <1>6
    <3>2. y <= x /\ y = a + s /\ s >= 1 /\ c = a + (s + z) /\ x - y < z
      BY <1>1, <1>6, <2>1, <2>2, <3>1
    <3>3. a < x /\ x < c
      BY <3>2
    <3> QED
      BY <3>1, <3>3
  <2>4. m \in 0..(Len(fs) - 1) /\ m <= m + 1 /\ m + 1 <= m + 1
    BY <1>4, <1>5
  <2>5. CutIn(m, fs, ends, n, more)
    BY <1>13, <1>14, <2>1, <2>3, <2>4 DEF CutIn
  <2> QED
    BY <1>1, <1>12, <1>15, <2>5 DEF Arrived
<1>16. CASE ~tore
  <2>1. to = ends[m + 1]
    <3>1. PICK a \in Nat, c \in Nat : a = ends[m] /\ c = ends[m + 1] /\ c = a + (t + b) /\ pos = a + t
      BY <1>4, <1>6, <1>9
    <3>2. to = pos + b
      BY <1>11, <1>16
    <3>3. PICK s \in Nat, z \in Nat : s = t /\ z = b
      BY <1>6
    <3>4. to = (a + s) + z /\ c = a + (s + z)
      BY <3>1, <3>2, <3>3
    <3>5. to = c
      BY <3>4
    <3> QED
      BY <3>1, <3>5
  <2>2. IsFor(e, f)
    <3>1. /\ e.number = f.number /\ e.type = f.type /\ e.read = read /\ e.value = value
      BY <1>4, <1>12 DEF EntryOf
    <3>2. read => value = ValueOf(f)
      BY <1>11, <1>16
    <3> QED
      BY <3>1, <3>2 DEF IsFor, ValueOf
  <2>3. SameUpTo(more, fs, m + 1)
    <3>1. ASSUME NEW k \in 1..(m + 1)  PROVE IsFor(more[k], fs[k])
      <4>1. CASE k = m + 1
        BY <1>2, <1>13, <2>2, <4>1
      <4>2. CASE k # m + 1
        <5>1. k \in 1..m
          BY <1>5, <4>2
        <5> QED
          BY <1>14, <5>1 DEF SameUpTo
      <4> QED
        BY <4>1, <4>2
    <3> QED
      BY <3>1 DEF SameUpTo
  <2>4. m + 1 <= Len(fs)
    BY <1>5
  <2>5. Stands(fs, ends, to, NoField, more)
    BY <1>13, <2>1, <2>3, <2>4 DEF Stands
  <2> QED
    BY <1>1, <1>12, <1>16, <2>5 DEF Arrived
<1> QED
  BY <1>15, <1>16

(* The next tag. *)
LEMMA FieldArrives ==
  ASSUME NEW fs, WritableAll(fs), NEW ends, NEW whole, Spread(ends, whole, fs),
         NEW n, NEW buf, NEW pos, NEW got, NEW done, ReaderOK(buf, pos, FALSE, NoField, got, done),
         Arrived(fs, ends, whole, n, buf, pos, FALSE, NoField, got), pos < Len(buf),
         NEW tag, tag = Varint(SubSeq(buf, pos + 1, Len(buf)))
  PROVE  /\ tag.ok => /\ tag.value \div 8 # 0
                       /\ Arrived(fs, ends, whole, n, buf, pos + tag.took, FALSE,
                                   [number |-> tag.value \div 8, type |-> tag.value % 8, at |-> pos], got)
         /\ ~tag.ok => Arrived(fs, ends, whole, n, buf, pos + tag.took, TRUE, NoField, got)
<1>1. /\ buf \in Seq(Bytes) /\ pos \in Nat /\ pos < n /\ got \in Seq(Entries)
      /\ n \in Nat /\ n <= Len(whole) /\ Len(buf) = n /\ \A j \in 1..n : buf[j] = whole[j]
  BY DEF ReaderOK, ReaderTypes, Arrived
<1>2. PICK m, f : m = Len(got) /\ f = fs[m + 1]
  OBVIOUS
<1>3. PICK t, b : t = Len(Digits(Tag(f))) /\ b = Len(Body(f))
  OBVIOUS
<1>4. m <= Len(fs) /\ pos = ends[m] /\ SameUpTo(got, fs, m)
  BY <1>2 DEF Arrived, Stands
<1>5. m \in Nat /\ Len(fs) \in Nat /\ m < Len(fs) /\ m + 1 \in 1..Len(fs) /\ Writable(f)
  <2>1. m \in Nat /\ Len(fs) \in Nat
    BY <1>1, <1>2, SeqFacts DEF WritableAll
  <2>2. m # Len(fs)
    <3>1. Len(whole) = ends[Len(fs)]
      BY DEF Spread
    <3> QED
      BY <1>1, <1>4, <3>1
  <2>3. m < Len(fs) /\ m + 1 \in 1..Len(fs)
    BY <1>4, <2>1, <2>2
  <2> QED
    BY <1>2, <2>1, <2>3 DEF WritableAll
<1>6. t \in Nat \ {0} /\ b \in Nat /\ Len(Written(f)) = t + b /\ \A j \in 1..t : Written(f)[j] = Digits(Tag(f))[j]
  BY <1>3, <1>5, WrittenIs
<1>7a. PICK run : run = SubSeq(buf, pos + 1, Len(buf))
  OBVIOUS
<1>7. run \in Seq(Bytes) /\ Len(run) = n - pos /\ \A j \in 1..(n - pos) : run[j] = buf[pos + j]
  <2>1. buf \in Seq(Bytes) /\ pos \in Nat /\ pos <= Len(buf) /\ Len(buf) = n
    BY <1>1
  <2>2. /\ run \in Seq(Bytes) /\ Len(run) = Len(buf) - pos
        /\ \A j \in 1..(Len(buf) - pos) : run[j] = buf[pos + j]
    BY <1>7a, <2>1, RestIs
  <2> QED
    BY <2>1, <2>2, Zenon
<1>8. Ahead(fs, ends, whole, n, buf, m, 0, pos, run)
  <2>1. 0 \in 0..Len(Written(fs[m + 1])) /\ pos = ends[m] + 0
    BY <1>1, <1>2, <1>4, <1>6
  <2> QED
    BY <1>1, <1>5, <1>7, <2>1, Zenon DEF Ahead
<1>9. PICK c : ends[m] = pos /\ c = ends[m + 1] /\ c = pos + (t + b)
  <2>1. Lies(ends, m, fs[m + 1])
    BY <1>8, NextField, Zenon
  <2> QED
    BY <1>2, <1>4, <1>6, <2>1, Zenon DEF Lies
<1>10. \A j \in 1..(n - pos) : j <= t => run[j] = Digits(Tag(f))[j]
  <2>1. \A j \in 1..(n - pos) : 0 + j <= t + b => run[j] = Written(f)[0 + j]
    <3>1. Follows(fs[m + 1], n, pos, 0, run)
      BY <1>8, NextField, Zenon
    <3>2. Follows(f, n, pos, 0, run)
      BY <1>2, <3>1, Zenon
    <3> QED
      BY <1>6, <3>2 DEF Follows
  <2> SUFFICES ASSUME NEW j \in 1..(n - pos), j <= t  PROVE run[j] = Digits(Tag(f))[j]
    OBVIOUS
  <2>2. 0 + j <= t + b /\ 0 + j = j /\ j \in 1..t
    BY <1>6
  <2> QED
    BY <1>6, <2>1, <2>2
<1>11. Tag(f) \in 0..(WordSize - 1) /\ Tag(f) \div 8 = f.number /\ Tag(f) % 8 = f.type /\ f.number \in Nat \ {0}
  BY <1>5, TagIsWord DEF Writable
<1>12. CASE n - pos < t
  <2>1. ~tag.ok
    <3>1. \A j \in 1..Len(run) : run[j] = Digits(Tag(f))[j]
      BY <1>6, <1>7, <1>10, <1>12
    <3> QED
      BY <1>3, <1>7, <1>7a, <1>11, <1>12, <3>1, VarintIsMissed
  <2>2. CutIn(m, fs, ends, n, got)
    <3>1. m \in 0..(Len(fs) - 1) /\ m <= m /\ m <= m + 1
      BY <1>5
    <3>2. pos < n /\ n < c
      BY <1>1, <1>6, <1>9, <1>12
    <3> QED
      BY <1>2, <1>4, <1>9, <3>1, <3>2 DEF CutIn
  <2> QED
    BY <1>1, <2>1, <2>2 DEF Arrived
<1>13. CASE ~(n - pos < t)
  <2>1. tag.ok /\ tag.took = t /\ tag.value = Tag(f)
    <3>1. t <= Len(run)
      BY <1>1, <1>6, <1>7, <1>13
    <3>2. \A j \in 1..t : j \in 1..(n - pos) /\ j <= t
      BY <1>1, <1>6, <1>13
    <3>3. \A j \in 1..t : run[j] = Digits(Tag(f))[j]
      BY <1>10, <3>2
    <3> QED
      BY <1>3, <1>7, <1>7a, <1>11, <3>1, <3>3, VarintIsRead
  <2>2. PICK h : h = [number |-> tag.value \div 8, type |-> tag.value % 8, at |-> pos]
    OBVIOUS
  <2>3. h.number = f.number /\ h.type = f.type /\ h # NoField
    BY <1>11, <2>1, <2>2 DEF NoField
  <2>4. Stands(fs, ends, pos + t, h, got)
    BY <1>2, <1>3, <1>4, <1>5, <1>9, <2>3 DEF Stands
  <2> QED
    BY <1>1, <1>11, <2>1, <2>2, <2>4 DEF Arrived
<1> QED
  BY <1>12, <1>13

-----------------------------------------------------------------------------
(* The reader of a message that was written, and of any other.             *)

Delivered(fs, n, buf, pos, tore, h, got) ==
  /\ WritableAll(fs)
  /\ \E ends : Spread(ends, Encode(fs), fs) /\ Arrived(fs, ends, Encode(fs), n, buf, pos, tore, h, got)

(* What holds after Field, which gives a heading or says that it is over.  *)
FieldGives(buf, pos, tore, got, to, tore2, h2, done2) ==
  \/ /\ tore \/ pos >= Len(buf)
     /\ to = pos /\ tore2 = tore /\ h2 = NoField /\ done2 = TRUE
  \/ /\ ~tore /\ pos < Len(buf)
     /\ \E tag : /\ tag = Varint(SubSeq(buf, pos + 1, Len(buf))) /\ to = pos + tag.took
                 /\ \/ /\ tag.ok /\ tag.value \div 8 # 0 /\ tore2 = FALSE /\ done2 = FALSE
                       /\ h2 = [number |-> tag.value \div 8, type |-> tag.value % 8, at |-> pos]
                    \/ /\ ~(tag.ok /\ tag.value \div 8 # 0) /\ tore2 = TRUE /\ done2 = TRUE /\ h2 = NoField

LEMMA FieldKeeps ==
  ASSUME NEW buf, NEW pos, NEW tore, NEW got, ReaderOK(buf, pos, tore, NoField, got, FALSE),
         NEW to, NEW tore2, NEW h2, NEW done2, FieldGives(buf, pos, tore, got, to, tore2, h2, done2)
  PROVE  ReaderOK(buf, to, tore2, h2, got, done2)
<1>1. /\ buf \in Seq(Bytes) /\ pos \in Nat /\ tore \in BOOLEAN /\ got \in Seq(Entries)
      /\ Forward(got) /\ (tore \/ pos <= Len(buf)) /\ (~tore => pos = EndOf(got))
  BY DEF ReaderOK, ReaderTypes
<1>2. PICK n \in Nat : n = Len(buf)
  BY <1>1, SeqFacts
<1>3. CASE (tore \/ pos >= Len(buf)) /\ to = pos /\ tore2 = tore /\ h2 = NoField /\ done2 = TRUE
  <2>1. ~tore => pos = Len(buf)
    BY <1>1, <1>2, <1>3
  <2>2. TRUE \in BOOLEAN
    OBVIOUS
  <2> QED
    BY <1>1, <1>3, <2>1, <2>2, NoFieldIs, Zenon DEF ReaderOK, ReaderTypes
<1>4. ASSUME ~tore, pos < Len(buf), NEW tag, tag = Varint(SubSeq(buf, pos + 1, Len(buf))), to = pos + tag.took,
             \/ /\ tag.ok /\ tag.value \div 8 # 0 /\ tore2 = FALSE /\ done2 = FALSE
                /\ h2 = [number |-> tag.value \div 8, type |-> tag.value % 8, at |-> pos]
             \/ /\ ~(tag.ok /\ tag.value \div 8 # 0) /\ tore2 = TRUE /\ done2 = TRUE /\ h2 = NoField
      PROVE  ReaderOK(buf, to, tore2, h2, got, done2)
  <2>1. PICK run : run = SubSeq(buf, pos + 1, Len(buf))
    OBVIOUS
  <2>2. run \in Seq(Bytes) /\ Len(run) = n - pos
    <3>1. pos <= Len(buf)
      BY <1>1, <1>2, <1>4
    <3> QED
      BY <1>1, <1>2, <2>1, <3>1, RestIs
  <2>3. PICK took, word : took = tag.took /\ word = tag.value
    OBVIOUS
  <2>4. took \in Nat /\ took <= n - pos /\ word \in Nat /\ (tag.ok => took > 0)
    <3>1. tag = Varint(run)
      BY <1>4, <2>1
    <3> QED
      BY <2>2, <2>3, <3>1, VarintIsSafe, WordSizeIs
  <2>5. to = pos + took /\ to \in Nat /\ to <= n
    <3>1. to = pos + took /\ pos \in Nat
      BY <1>1, <1>4, <2>3
    <3>2. n \in Nat /\ took \in Nat /\ took <= n - pos
      BY <1>2, <2>4
    <3> QED
      BY <3>1, <3>2
  <2>6. CASE tag.ok /\ word \div 8 # 0 /\ tore2 = FALSE /\ done2 = FALSE
             /\ h2 = [number |-> word \div 8, type |-> word % 8, at |-> pos]
    <3>1. word \div 8 \in Nat /\ word % 8 \in Nat
      BY <2>4
    <3>2. h2 \in Headings /\ h2 # NoField /\ h2.at = pos
      BY <1>1, <2>6, <3>1 DEF Headings, NoField
    <3>3. pos < to
      BY <1>1, <2>4, <2>5, <2>6
    <3>4. to <= Len(buf) /\ FALSE \in BOOLEAN
      BY <1>2, <2>5
    <3>5. pos = EndOf(got)
      BY <1>1, <1>4
    <3> QED
      BY <1>1, <2>5, <2>6, <3>2, <3>3, <3>4, <3>5, Zenon DEF ReaderOK, ReaderTypes
  <2>7. CASE tore2 = TRUE /\ done2 = TRUE /\ h2 = NoField
    <3>1. TRUE \in BOOLEAN
      OBVIOUS
    <3> QED
      BY <1>1, <2>5, <2>7, <3>1, NoFieldIs, Zenon DEF ReaderOK, ReaderTypes
  <2> QED
    BY <1>4, <2>3, <2>6, <2>7
<1> QED
  BY <1>3, <1>4, Zenon DEF FieldGives

LEMMA FieldDelivers ==
  ASSUME NEW fs, NEW n, NEW buf, NEW pos, NEW tore, NEW got, ReaderOK(buf, pos, tore, NoField, got, FALSE),
         NEW to, NEW tore2, NEW h2, NEW done2, FieldGives(buf, pos, tore, got, to, tore2, h2, done2),
         Delivered(fs, n, buf, pos, tore, NoField, got)
  PROVE  Delivered(fs, n, buf, to, tore2, h2, got)
<1>1. PICK ends : Spread(ends, Encode(fs), fs) /\ Arrived(fs, ends, Encode(fs), n, buf, pos, tore, NoField, got)
  BY DEF Delivered
<1>2. WritableAll(fs)
  BY DEF Delivered
<1>3. PICK whole : whole = Encode(fs)
  OBVIOUS
<1>4. Arrived(fs, ends, whole, n, buf, to, tore2, h2, got)
  <2>1. CASE to = pos /\ tore2 = tore /\ h2 = NoField
    BY <1>1, <1>3, <2>1, Zenon
  <2>2. ASSUME ~tore, pos < Len(buf), NEW tag, tag = Varint(SubSeq(buf, pos + 1, Len(buf))), to = pos + tag.took,
               \/ /\ tag.ok /\ tag.value \div 8 # 0 /\ tore2 = FALSE
                  /\ h2 = [number |-> tag.value \div 8, type |-> tag.value % 8, at |-> pos]
               \/ /\ ~(tag.ok /\ tag.value \div 8 # 0) /\ tore2 = TRUE /\ h2 = NoField
        PROVE  Arrived(fs, ends, whole, n, buf, to, tore2, h2, got)
    <3>1. tore = FALSE
      BY <2>2 DEF ReaderOK, ReaderTypes
    <3>2. /\ ReaderOK(buf, pos, FALSE, NoField, got, FALSE) /\ Spread(ends, whole, fs)
          /\ Arrived(fs, ends, whole, n, buf, pos, FALSE, NoField, got)
      BY <1>1, <1>3, <3>1, Zenon
    <3>3. /\ tag.ok => /\ tag.value \div 8 # 0
                       /\ Arrived(fs, ends, whole, n, buf, pos + tag.took, FALSE,
                                   [number |-> tag.value \div 8, type |-> tag.value % 8, at |-> pos], got)
          /\ ~tag.ok => Arrived(fs, ends, whole, n, buf, pos + tag.took, TRUE, NoField, got)
      BY <1>2, <2>2, <3>2, FieldArrives
    <3> QED
      BY <2>2, <3>3, Zenon
  <2> QED
    BY <2>1, <2>2, Zenon DEF FieldGives
<1> QED
  BY <1>1, <1>2, <1>3, <1>4, Zenon DEF Delivered

LEMMA HandlingDelivers ==
  ASSUME NEW fs, NEW n, NEW buf, NEW pos, NEW h, NEW got, NEW done, ReaderOK(buf, pos, FALSE, h, got, done),
         h # NoField, Delivered(fs, n, buf, pos, FALSE, h, got),
         NEW run, run = SubSeq(buf, pos + 1, Len(buf)),
         NEW to, NEW value, NEW read, NEW tore, Handled(h.type, run, pos, to, value, read, tore)
  PROVE  Delivered(fs, n, buf, to, tore, NoField, Append(got, EntryOf(h, value, read, to)))
<1>1. PICK ends : Spread(ends, Encode(fs), fs) /\ Arrived(fs, ends, Encode(fs), n, buf, pos, FALSE, h, got)
  BY DEF Delivered
<1>2. WritableAll(fs)
  BY DEF Delivered
<1>3. PICK whole : whole = Encode(fs)
  OBVIOUS
<1>4. Spread(ends, whole, fs) /\ Arrived(fs, ends, whole, n, buf, pos, FALSE, h, got)
  BY <1>1, <1>3, Zenon
<1>5. Arrived(fs, ends, whole, n, buf, to, tore, NoField, Append(got, EntryOf(h, value, read, to)))
  BY <1>2, <1>4, HandlingArrives, Zenon
<1> QED
  BY <1>1, <1>2, <1>3, <1>5, Zenon DEF Delivered

LEMMA FlattenIn ==
  ASSUME NEW V, NEW seqs \in Seq(Seq(V))
  PROVE  FlattenSeq(seqs) \in Seq(V)
BY FlattenHolds

(* What is kept of what a writer writes, it can write. *)
LEMMA KeptIsWritable ==
  ASSUME NEW fs \in Authored
  PROVE  WritableAll(Kept(fs))
<1>1. PICK n \in Nat : n = Len(fs) /\ fs = [k \in 1..n |-> fs[k]] /\ \A k \in 1..n : Writable(fs[k])
  BY AuthoredAssumption
<1>2. DOMAIN fs = 1..n
  BY <1>1
<1>3. PICK V : V = {fs[k] : k \in 1..n}
  OBVIOUS
<1>4. PICK seqs : seqs = [k \in 1..n |-> IF Zero(fs[k]) /\ fs[k].omits THEN <<>> ELSE <<fs[k]>>]
  OBVIOUS
<1>5. Kept(fs) = FlattenSeq(seqs)
  BY <1>2, <1>4 DEF Kept
<1>6. seqs \in Seq(Seq(V))
  <2>1. <<>> \in Seq(V)
    BY EmptySeq
  <2>2. \A k \in 1..n : seqs[k] \in Seq(V)
    <3> SUFFICES ASSUME NEW k \in 1..n  PROVE seqs[k] \in Seq(V)
      OBVIOUS
    <3>1. fs[k] \in V
      BY <1>3
    <3>2. <<fs[k]>> \in Seq(V)
      BY <3>1
    <3> QED
      BY <1>4, <2>1, <3>2
  <2>3. seqs \in [1..n -> Seq(V)]
    BY <1>4, <2>2
  <2> QED
    BY <1>1, <2>3
<1>7. PICK kept : kept = Kept(fs) /\ kept \in Seq(V)
  <2>1. FlattenSeq(seqs) \in Seq(V)
    BY <1>6, FlattenIn, Zenon
  <2> QED
    BY <1>5, <2>1, Zenon
<1>8. PICK m \in Nat : m = Len(kept) /\ kept \in [1..m -> V]
  <2>1. Len(kept) \in Nat /\ kept \in [1..Len(kept) -> V]
    BY <1>7, LenProperties
  <2> QED
    BY <2>1
<1>9. kept = [k \in 1..m |-> kept[k]] /\ \A k \in 1..m : Writable(kept[k])
  BY <1>1, <1>3, <1>8
<1> QED
  BY <1>7, <1>8, <1>9 DEF WritableAll

WireInv ==
  /\ authored \in BOOLEAN /\ (authored => message \in Authored)
  /\ ReaderOK(bytes, place, torn, heading, taken, over)
  /\ authored => Delivered(Kept(message), cut, bytes, place, torn, heading, taken)

-----------------------------------------------------------------------------
(* The invariant says what FieldsSurvive asks for.                         *)

(* The whole fields of what arrived are those before the one it was cut in.*)
LEMMA WholeIs ==
  ASSUME NEW fs, WritableAll(fs), NEW ends, EndsAt(ends, fs), NEW n, NEW w \in 0..Len(fs),
         n \in Nat, ends[w] <= n, w < Len(fs) => n < ends[w + 1],
         \A k \in 0..Len(fs) : Len(Encode(SubSeq(fs, 1, k))) = ends[k]
  PROVE  Cardinality({k \in DOMAIN fs : Len(Encode(SubSeq(fs, 1, k))) <= n}) = w
<1>1. PICK l \in Nat : l = Len(fs) /\ fs = [k \in 1..l |-> fs[k]]
  BY DEF WritableAll
<1>2. \A j, k \in 0..l : j < k => ends[j] < ends[k]
  BY <1>1, EndsGrow
<1>3. ends \in [0..l -> Nat]
  BY <1>1 DEF EndsAt
<1>4. ASSUME NEW k \in 1..l  PROVE ends[k] <= n <=> k <= w
  <2>1. CASE k < w
    <3>1. k \in 0..l /\ w \in 0..l
      BY <1>1
    <3>2. ends[k] < ends[w] /\ ends[k] \in Nat /\ ends[w] \in Nat
      BY <1>2, <1>3, <2>1, <3>1
    <3> QED
      BY <2>1, <3>2
  <2>2. CASE k = w
    BY <2>2
  <2>3. CASE k > w
    <3>1. w < l /\ w + 1 \in 0..l /\ k \in 0..l /\ n < ends[w + 1]
      BY <1>1, <2>3
    <3>2. ends[w + 1] <= ends[k] /\ ends[w + 1] \in Nat /\ ends[k] \in Nat
      <4>1. CASE k = w + 1
        BY <1>3, <3>1, <4>1
      <4>2. CASE w + 1 < k
        BY <1>2, <1>3, <3>1, <4>2
      <4> QED
        BY <2>3, <4>1, <4>2
    <3> QED
      BY <2>3, <3>1, <3>2
  <2> QED
    BY <2>1, <2>2, <2>3
<1>5. {k \in DOMAIN fs : Len(Encode(SubSeq(fs, 1, k))) <= n} = 1..w
  <2>1. \A k \in 1..l : Len(Encode(SubSeq(fs, 1, k))) = ends[k]
    <3>1. \A k \in 1..l : k \in 0..Len(fs)
      BY <1>1
    <3> QED
      BY <3>1, Zenon
  <2>2. DOMAIN fs = 1..l /\ w \in 0..l
    BY <1>1
  <2>3. ASSUME NEW k  PROVE k \in {i \in DOMAIN fs : Len(Encode(SubSeq(fs, 1, i))) <= n} <=> k \in 1..w
    <3>1. k \in 1..w <=> k \in 1..l /\ k <= w
      BY <2>2
    <3> QED
      BY <1>4, <2>1, <2>2, <3>1
  <2> QED
    BY <2>3, Zenon
<1>6. Cardinality(1..w) = w
  BY FS_Interval
<1> QED
  BY <1>5, <1>6

(* There is one way to spread a message. *)
LEMMA OneSpread ==
  ASSUME NEW fs, WritableAll(fs), NEW ends, EndsAt(ends, fs), NEW others, EndsAt(others, fs)
  PROVE  others = ends
<1>1. PICK l \in Nat : l = Len(fs)
  BY DEF WritableAll
<1>2. /\ ends \in [0..l -> Nat] /\ ends[0] = 0 /\ \A k \in 1..l : ends[k] = ends[k - 1] + Len(Written(fs[k]))
      /\ others \in [0..l -> Nat] /\ others[0] = 0 /\ \A k \in 1..l : others[k] = others[k - 1] + Len(Written(fs[k]))
  BY <1>1 DEF EndsAt
<1>3. PICK reached : reached = {k \in 0..l : others[k] = ends[k]}
  OBVIOUS
<1>4. reached \in SUBSET (0..l) /\ 0 \in reached
  BY <1>1, <1>2, <1>3
<1>5. ASSUME NEW k \in 0..(l - 1), k \in reached  PROVE k + 1 \in reached
  <2>1. k + 1 \in 1..l /\ (k + 1) - 1 = k /\ k + 1 \in 0..l
    BY <1>1
  <2>2. others[k] = ends[k]
    BY <1>3, <1>5
  <2> QED
    BY <1>2, <1>3, <2>1, <2>2, Zenon
<1>6. \A k \in 0..l : others[k] = ends[k]
  <2>1. \A k \in 0..l : k \in reached
    BY <1>1, <1>4, <1>5, NextByNext
  <2> QED
    BY <1>3, <2>1
<1> QED
  BY <1>2, <1>6

(* Some field is the last that is whole. *)
LEMMA LastWhole ==
  ASSUME NEW fs, WritableAll(fs), NEW ends, EndsAt(ends, fs), NEW n \in Nat
  PROVE  \E w \in 0..Len(fs) : ends[w] <= n /\ (w < Len(fs) => n < ends[w + 1])
<1>1. PICK l \in Nat : l = Len(fs)
  BY DEF WritableAll
<1>2. ends \in [0..l -> Nat] /\ ends[0] = 0
  BY <1>1 DEF EndsAt
<1>3. PICK T : T = {k \in 0..l : ends[k] <= n}
  OBVIOUS
<1>4. T \in SUBSET (0..l) /\ T # {}
  BY <1>1, <1>2, <1>3
<1>5. PICK w \in T : \A k \in T : k <= w
  BY <1>1, <1>4, MaxIsGreatest
<1>6. w \in 0..l /\ ends[w] <= n
  BY <1>3, <1>5
<1>7. ASSUME w < l  PROVE n < ends[w + 1]
  <2>1. w + 1 \in 0..l /\ ~(w + 1 <= w)
    BY <1>1, <1>6, <1>7
  <2>2. w + 1 \notin T
    BY <1>5, <2>1
  <2>3. ~(ends[w + 1] <= n) /\ ends[w + 1] \in Nat
    BY <1>2, <1>3, <2>1, <2>2
  <2> QED
    BY <2>3
<1> QED
  BY <1>1, <1>6, <1>7

(* What FieldsSurvive says of a message that was written. *)
Survives(fs, n, got, tore, done) ==
  LET whole == Cardinality({k \in DOMAIN fs : Len(Encode(SubSeq(fs, 1, k))) <= n})
  IN  /\ \A k \in DOMAIN got : k <= whole => IsFor(got[k], fs[k])
      /\ ~tore => Len(got) <= whole
      /\ done => Len(got) >= whole
      /\ done => ((done /\ tore) <=> n # Len(Encode(SubSeq(fs, 1, whole))))

LEMMA DeliveredSurvives ==
  ASSUME NEW fs, NEW n, NEW buf, NEW pos, NEW tore, NEW h, NEW got, NEW done,
         ReaderOK(buf, pos, tore, h, got, done), Delivered(fs, n, buf, pos, tore, h, got)
  PROVE  Survives(fs, n, got, tore, done)
<1>1. PICK ends : /\ Spread(ends, Encode(fs), fs)
                  /\ \A k \in 0..Len(fs) : Len(Encode(SubSeq(fs, 1, k))) = ends[k]
  BY EncodeIs DEF Delivered
<1>2. WritableAll(fs) /\ EndsAt(ends, fs)
  BY <1>1 DEF Delivered, Spread
<1>3. Arrived(fs, ends, Encode(fs), n, buf, pos, tore, h, got)
  <2>1. PICK some : Spread(some, Encode(fs), fs) /\ Arrived(fs, some, Encode(fs), n, buf, pos, tore, h, got)
    BY DEF Delivered
  <2>2. some = ends
    <3>1. EndsAt(some, fs)
      BY <2>1, Zenon DEF Spread
    <3> QED
      BY <1>2, <3>1, OneSpread, Zenon
  <2> QED
    BY <2>1, <2>2
<1>4. PICK l \in Nat, m \in Nat : /\ l = Len(fs) /\ DOMAIN fs = 1..l
                                  /\ m = Len(got) /\ DOMAIN got = 1..m
  <2>1. Len(fs) \in Nat /\ DOMAIN fs = 1..Len(fs)
    BY <1>2 DEF WritableAll
  <2>2. got \in Seq(Entries)
    BY DEF ReaderOK, ReaderTypes
  <2> QED
    BY <2>1, <2>2, SeqFacts
<1>5. /\ ends \in [0..l -> Nat] /\ n \in Nat /\ pos \in Nat /\ Len(buf) = n
      /\ done \in BOOLEAN /\ tore \in BOOLEAN
      /\ n <= ends[l]
  BY <1>1, <1>2, <1>3, <1>4 DEF EndsAt, Arrived, ReaderOK, ReaderTypes, Spread
<1>6. CASE tore
  <2>1. PICK w : CutIn(w, fs, ends, n, got)
    BY <1>3, <1>6 DEF Arrived
  <2>2. /\ w \in 0..(l - 1) /\ ends[w] < n /\ n < ends[w + 1]
        /\ w <= m /\ SameUpTo(got, fs, w)
    BY <1>4, <2>1 DEF CutIn
  <2>3. w \in 0..Len(fs) /\ ends[w] \in Nat
    BY <1>4, <1>5, <2>2
  <2>4. ends[w] <= n /\ n # ends[w]
    BY <1>5, <2>2, <2>3
  <2>5. Cardinality({k \in DOMAIN fs : Len(Encode(SubSeq(fs, 1, k))) <= n}) = w
    BY <1>1, <1>2, <1>5, <2>2, <2>3, <2>4, WholeIs
  <2>6. Len(Encode(SubSeq(fs, 1, w))) = ends[w]
    BY <1>1, <2>3
  <2>7. \A k \in 1..m : k <= w => IsFor(got[k], fs[k])
    <3>1. \A k \in 1..m : k <= w => k \in 1..w
      BY <2>2
    <3> QED
      BY <2>2, <3>1 DEF SameUpTo
  <2>8. m >= w
    BY <1>4, <2>2
  <2> QED
    BY <1>4, <1>6, <2>4, <2>5, <2>6, <2>7, <2>8 DEF Survives
<1>7. CASE ~tore
  <2>1. Stands(fs, ends, pos, h, got) /\ pos <= n
    BY <1>3, <1>5, <1>7 DEF Arrived, ReaderOK
  <2>2. m <= l /\ SameUpTo(got, fs, m) /\ ends[m] <= n
    <3>1. m <= l /\ SameUpTo(got, fs, m)
      BY <1>4, <2>1 DEF Stands
    <3>2. CASE h = NoField
      BY <1>4, <2>1, <3>2 DEF Stands
    <3>3. CASE h # NoField
      <4>1. m < l /\ pos = ends[m] + Len(Digits(Tag(fs[m + 1])))
        BY <1>4, <2>1, <3>3 DEF Stands
      <4>2. ends[m] \in Nat
        BY <1>4, <1>5, <4>1
      <4>3. Len(Digits(Tag(fs[m + 1]))) \in Nat
        <5>1. m + 1 \in 1..l
          BY <1>4, <4>1
        <5>2. Writable(fs[m + 1])
          BY <1>2, <1>4, <5>1 DEF WritableAll
        <5> QED
          BY <5>2, WrittenIs
      <4>4. PICK a \in Nat, b \in Nat, c \in Nat : a = ends[m] /\ b = Len(Digits(Tag(fs[m + 1]))) /\ c = n
        BY <1>5, <4>2, <4>3
      <4>5. a + b <= c
        BY <1>5, <2>1, <4>1, <4>4
      <4>6. a <= c
        BY <4>5
      <4> QED
        BY <3>1, <4>4, <4>6
    <3> QED
      BY <3>1, <3>2, <3>3
  <2>3. PICK w \in 0..l : ends[w] <= n /\ (w < l => n < ends[w + 1])
    BY <1>2, <1>4, <1>5, LastWhole
  <2>4. Cardinality({k \in DOMAIN fs : Len(Encode(SubSeq(fs, 1, k))) <= n}) = w
    BY <1>1, <1>2, <1>4, <1>5, <2>3, WholeIs
  <2>5. m <= w
    <3>1. CASE m > w
      <4>1. w < l /\ w + 1 \in 0..l /\ n < ends[w + 1]
        BY <1>4, <2>2, <2>3, <3>1
      <4>2. ends[w + 1] <= ends[m]
        <5>1. CASE m = w + 1
          BY <1>5, <4>1, <5>1
        <5>2. CASE w + 1 < m
          <6>1. ends[w + 1] < ends[m]
            BY <1>2, <1>4, <2>2, <4>1, <5>2, EndsGrow
          <6> QED
            BY <1>4, <1>5, <2>2, <4>1, <6>1
        <5> QED
          BY <1>4, <3>1, <5>1, <5>2
      <4>3. ends[m] \in Nat /\ ends[w + 1] \in Nat
        BY <1>4, <1>5, <2>2, <4>1
      <4> QED
        BY <1>5, <2>2, <4>1, <4>2, <4>3
    <3> QED
      BY <1>4, <3>1
  <2>6. \A k \in 1..m : IsFor(got[k], fs[k])
    BY <2>2 DEF SameUpTo
  <2>7. done => m >= w /\ n = ends[w]
    <3> SUFFICES ASSUME done  PROVE m >= w /\ n = ends[w]
      OBVIOUS
    <3>1. h = NoField /\ pos = n
      <4>1. done => h = NoField /\ pos = Len(buf)
        BY <1>7 DEF ReaderOK
      <4> QED
        BY <1>5, <4>1
    <3>2. ends[m] = n
      BY <1>4, <2>1, <3>1 DEF Stands
    <3>3. CASE m < w
      <4>1. ends[m] < ends[w]
        BY <1>2, <1>4, <3>3, EndsGrow
      <4>2. ends[w] \in Nat
        BY <1>5
      <4> QED
        BY <1>5, <2>3, <3>2, <4>1, <4>2
    <3>4. m = w
      BY <1>4, <2>5, <3>3
    <3> QED
      BY <1>4, <3>2, <3>4
  <2>8. Len(Encode(SubSeq(fs, 1, w))) = ends[w]
    BY <1>1, <1>4, <2>3
  <2> QED
    BY <1>4, <1>7, <2>4, <2>5, <2>6, <2>7, <2>8 DEF Survives
<1> QED
  BY <1>5, <1>6, <1>7

LEMMA ReaderSurvives ==
  ASSUME WireInv
  PROVE  FieldsSurvive
<1>1. ReaderOK(bytes, place, torn, heading, taken, over)
  BY DEF WireInv
<1>2. /\ bytes \in Seq(Bytes) /\ place \in Nat /\ taken \in Seq(Entries) /\ Forward(taken)
      /\ torn \/ place <= Len(bytes)
      /\ over /\ ~torn => place = Len(bytes)
  BY <1>1 DEF ReaderOK, ReaderTypes
<1>3. torn \/ place \in 0..Len(bytes)
  <2>1. PICK n \in Nat : n = Len(bytes)
    BY <1>2, SeqFacts
  <2> QED
    BY <1>2, <2>1
<1>4. DOMAIN taken = 1..Len(taken)
  BY <1>2, SeqFacts
<1>5. \A k \in DOMAIN taken :
        /\ taken[k].from = IF k = 1 THEN 0 ELSE taken[k - 1].to
        /\ taken[k].to > taken[k].from
        /\ taken[k].type = WireVarint /\ taken[k].read => Number(taken[k].value) < WordSize
  BY <1>2, <1>4 DEF Forward
<1>6. authored => Survives(Composed, cut, taken, torn, over)
  <2> SUFFICES ASSUME authored  PROVE Survives(Composed, cut, taken, torn, over)
    OBVIOUS
  <2>1. Delivered(Kept(message), cut, bytes, place, torn, heading, taken)
    BY DEF WireInv
  <2> QED
    BY <1>1, <2>1, DeliveredSurvives DEF Composed
<1> QED
  BY <1>2, <1>3, <1>5, <1>6 DEF FieldsSurvive, Survives, Whole, Truncated

-----------------------------------------------------------------------------
(* The invariant is kept. *)

LEMMA BeginsDelivered ==
  ASSUME NEW fs, WritableAll(fs), NEW n \in 0..Len(Encode(fs)), NEW buf, buf = SubSeq(Encode(fs), 1, n)
  PROVE  buf \in Seq(Bytes) /\ Delivered(fs, n, buf, 0, FALSE, NoField, <<>>)
<1>1. PICK ends, whole : Spread(ends, whole, fs) /\ whole = Encode(fs)
  BY EncodeIs
<1>2. whole \in Seq(Bytes) /\ n \in 0..Len(whole) /\ ends[0] = 0 /\ Len(fs) \in Nat
  BY <1>1 DEF Spread, EndsAt, WritableAll
<1>3. buf \in Seq(Bytes) /\ Len(buf) = n /\ \A j \in 1..n : buf[j] = whole[j]
  BY <1>1, <1>2, FrontIs
<1>4. PICK got : got = <<>> /\ Len(got) = 0
  BY EmptySeq
<1>5. Stands(fs, ends, 0, NoField, got)
  <2>1. SameUpTo(got, fs, 0)
    BY DEF SameUpTo
  <2> QED
    BY <1>2, <1>4, <2>1 DEF Stands
<1>6. n \in Nat /\ n <= Len(whole)
  BY <1>1, <1>2, SeqFacts
<1>7. Arrived(fs, ends, whole, n, buf, 0, FALSE, NoField, got)
  BY <1>3, <1>5, <1>6 DEF Arrived
<1> QED
  BY <1>1, <1>3, <1>4, <1>7, Zenon DEF Delivered

LEMMA ReaderBegins ==
  ASSUME NEW buf \in Seq(Bytes)
  PROVE  ReaderOK(buf, 0, FALSE, NoField, <<>>, FALSE)
<1>1. PICK got : got = <<>> /\ Len(got) = 0 /\ got \in Seq(Entries)
  BY EmptySeq
<1>2. Forward(got) /\ EndOf(got) = 0
  BY <1>1 DEF Forward, EndOf
<1>3. 0 <= Len(buf) /\ 0 = EndOf(got)
  BY <1>2, SeqFacts
<1>4. ReaderTypes(buf, 0, FALSE, NoField, got, FALSE)
  BY <1>1, NoFieldIs DEF ReaderTypes
<1>5. ReaderOK(buf, 0, FALSE, NoField, got, FALSE)
  BY <1>2, <1>3, <1>4, Zenon DEF ReaderOK
<1> QED
  BY <1>1, <1>5

LEMMA WireInitKeeps == WireInit => WireInv
<1> SUFFICES ASSUME WireInit  PROVE WireInv
  OBVIOUS
<1>1. place = 0 /\ torn = FALSE /\ heading = NoField /\ taken = <<>> /\ over = FALSE
  BY DEF WireInit
<1>2. CASE /\ authored = TRUE /\ message \in Authored
           /\ cut \in 0..Len(Encode(Kept(message)))
           /\ bytes = SubSeq(Encode(Kept(message)), 1, cut)
  <2>1. bytes \in Seq(Bytes) /\ Delivered(Kept(message), cut, bytes, 0, FALSE, NoField, <<>>)
    BY <1>2, KeptIsWritable, BeginsDelivered
  <2> QED
    BY <1>1, <1>2, <2>1, ReaderBegins DEF WireInv
<1>3. CASE authored = FALSE /\ cut \in 0..MaxNoise /\ bytes \in [1..cut -> Bytes]
  <2>1. cut \in Nat
    BY <1>3, WordParameters DEF WordParameters
  <2>2. bytes \in Seq(Bytes)
    BY <1>3, <2>1
  <2> QED
    BY <1>1, <1>3, <2>2, ReaderBegins DEF WireInv
<1> QED
  BY <1>2, <1>3 DEF WireInit

(* A decoder takes the body of a field, or skips it. *)
LEMMA GivingKeeps ==
  ASSUME WireInv, heading # NoField, NEW value, NEW to, NEW read, NEW tore, Gives(value, to, read), torn' = tore,
         UNCHANGED <<authored, message, cut, bytes, over>>,
         Handled(heading.type, Rest, place, to, value, read, tore)
  PROVE  WireInv'
<1>1. PICK h, got, pos, run : h = heading /\ got = taken /\ pos = place /\ run = Rest
  OBVIOUS
<1>2. PICK buf, done : buf = bytes /\ done = over
  OBVIOUS
<1>3. ReaderOK(buf, pos, FALSE, h, got, done)
  <2>1. ReaderOK(buf, pos, torn, h, got, done)
    BY <1>1, <1>2 DEF WireInv
  <2>2. torn = FALSE
    BY <1>1, <2>1 DEF ReaderOK, ReaderTypes
  <2> QED
    BY <2>1, <2>2
<1>4. torn = FALSE
  BY <1>1 DEF WireInv, ReaderOK, ReaderTypes
<1>5. run = SubSeq(buf, pos + 1, Len(buf)) /\ Handled(h.type, run, pos, to, value, read, tore) /\ h # NoField
  BY <1>1, <1>2 DEF Rest
<1>6. /\ taken' = Append(got, EntryOf(h, value, read, to)) /\ place' = to /\ heading' = NoField
      /\ bytes' = buf /\ over' = done /\ authored' = authored /\ message' = message /\ cut' = cut
  BY <1>1, <1>2 DEF Gives, EntryOf
<1>7. ReaderOK(bytes', place', torn', heading', taken', over')
  <2>1. ReaderOK(buf, to, tore, NoField, Append(got, EntryOf(h, value, read, to)), done)
    BY <1>3, <1>5, HandlingKeeps, Zenon
  <2> QED
    BY <1>6, <2>1, Zenon
<1>8. authored => Delivered(Kept(message'), cut', bytes', place', torn', heading', taken')
  <2> SUFFICES ASSUME authored  PROVE Delivered(Kept(message'), cut', bytes', place', torn', heading', taken')
    OBVIOUS
  <2>1. PICK fs, n : fs = Kept(message) /\ n = cut
    OBVIOUS
  <2>2. Delivered(fs, n, buf, pos, FALSE, h, got)
    BY <1>1, <1>2, <1>4, <2>1 DEF WireInv
  <2>3. Delivered(fs, n, buf, to, tore, NoField, Append(got, EntryOf(h, value, read, to)))
    BY <1>3, <1>5, <2>2, HandlingDelivers, Zenon
  <2>4. Kept(message') = fs
    BY <1>6, <2>1
  <2> QED
    BY <1>6, <2>1, <2>3, <2>4, Zenon
<1>9. authored' \in BOOLEAN /\ (authored' => message' \in Authored) /\ authored' = authored
  BY <1>6 DEF WireInv
<1> QED
  BY <1>7, <1>8, <1>9 DEF WireInv

(* Where the reader stands when there is a field to be read. *)
LEMMA ReadingIs ==
  ASSUME WireInv, heading # NoField
  PROVE  /\ torn = FALSE /\ place \in Nat /\ bytes \in Seq(Bytes) /\ place <= Len(bytes)
         /\ Rest \in Seq(Bytes) /\ Len(Rest) = Len(bytes) - place
         /\ \A j \in 1..(Len(bytes) - place) : Rest[j] = bytes[place + j]
<1>1. torn = FALSE /\ place \in Nat /\ bytes \in Seq(Bytes) /\ place <= Len(bytes)
  BY DEF WireInv, ReaderOK, ReaderTypes
<1> QED
  BY <1>1, RestIs DEF Rest

(* A part of what is left. *)
LEMMA PartIs ==
  ASSUME NEW buf \in Seq(Bytes), NEW pos \in Nat, NEW n \in Nat, pos + n <= Len(buf)
  PROVE  /\ SubSeq(buf, pos + 1, pos + n) \in Seq(Bytes) /\ Len(SubSeq(buf, pos + 1, pos + n)) = n
         /\ \A j \in 1..n : SubSeq(buf, pos + 1, pos + n)[j] = buf[pos + j]
<1>1. PICK l \in Nat : l = Len(buf) /\ \A j \in 1..l : buf[j] \in Bytes
  BY SeqFacts
<1>2. PICK from \in Int, to \in Int : from = pos + 1 /\ to = pos + n /\ \A j \in from..to : buf[j] \in Bytes
  BY <1>1
<1>3. PICK part : part = SubSeq(buf, from, to)
  OBVIOUS
<1>4. /\ part \in Seq(Bytes)
      /\ Len(part) = IF from <= to THEN to - from + 1 ELSE 0
      /\ \A j \in 1..(to - from + 1) : part[j] = buf[from + j - 1]
  BY <1>2, <1>3, SubSeqProperties
<1>5. ASSUME NEW j \in 1..n  PROVE part[j] = buf[pos + j]
  <2>1. j \in 1..(to - from + 1) /\ from + j - 1 = pos + j
    BY <1>2
  <2> QED
    BY <1>4, <2>1
<1>6. Len(part) = n
  BY <1>2, <1>4
<1>7. part = SubSeq(buf, pos + 1, pos + n)
  BY <1>2, <1>3
<1> QED
  BY <1>4, <1>5, <1>6, <1>7

LEMMA ReadVarintKeeps ==
  ASSUME WireInv, ReadVarint
  PROVE  WireInv'
<1>1. heading # NoField /\ heading.type = WireVarint
  BY DEF ReadVarint
<1>2. torn = FALSE /\ place \in Nat /\ Rest \in Seq(Bytes)
  BY <1>1, ReadingIs
<1>3. PICK v, value, to, tore : v = Varint(Rest) /\ value = Digits(v.value) /\ to = place + v.took /\ tore = ~v.ok
  OBVIOUS
<1>4. /\ Gives(value, to, TRUE) /\ torn' = (torn \/ tore)
      /\ UNCHANGED <<authored, message, cut, bytes, over>>
  BY <1>3 DEF ReadVarint, Reads
<1>5. torn' = tore
  BY <1>2, <1>3, <1>4
<1>6. Handled(heading.type, Rest, place, to, value, TRUE, tore)
  <2>1. Handled(WireVarint, Rest, place, to, Digits(Varint(Rest).value), TRUE, tore)
    <3>1. PICK run, pos : run = Rest /\ pos = place
      OBVIOUS
    <3>2. run \in Seq(Bytes) /\ pos \in Nat /\ to = pos + Varint(run).took /\ tore = ~Varint(run).ok
      BY <1>2, <1>3, <3>1
    <3>3. Handled(WireVarint, run, pos, to, Digits(Varint(run).value), TRUE, tore)
      BY <3>2, VarintHandled
    <3> QED
      BY <3>1, <3>3
  <2> QED
    BY <1>1, <1>3, <2>1
<1> QED
  BY <1>1, <1>4, <1>5, <1>6, GivingKeeps

LEMMA ReadFixedKeeps ==
  ASSUME WireInv, ReadFixed
  PROVE  WireInv'
<1>1. heading # NoField /\ heading.type \in {WireFixed64, WireFixed32} /\ UNCHANGED <<authored, message, cut, bytes, over>>
  BY DEF ReadFixed
<1>2. /\ torn = FALSE /\ place \in Nat /\ bytes \in Seq(Bytes) /\ Rest \in Seq(Bytes)
      /\ \A j \in 1..(Len(bytes) - place) : Rest[j] = bytes[place + j]
      /\ Len(Rest) = Len(bytes) - place
  BY <1>1, ReadingIs
<1>3. PICK type, run, pos, buf : type = heading.type /\ run = Rest /\ pos = place /\ buf = bytes
  OBVIOUS
<1>4. PICK n \in Nat, l \in Nat : n = Fixed(type) /\ l = Len(buf)
  <2>1. Fixed(type) \in Nat
    BY WordParameters DEF WordParameters, Fixed
  <2> QED
    BY <1>2, <1>3, <2>1, SeqFacts
<1>5. /\ type \in {WireFixed64, WireFixed32} /\ run \in Seq(Bytes) /\ pos \in Nat /\ Len(run) = l - pos
      /\ \A j \in 1..(l - pos) : run[j] = buf[pos + j]
  BY <1>1, <1>2, <1>3, <1>4
<1>6. CASE n > l - pos
  <2>1. Gives(<<>>, pos, TRUE) /\ torn' = TRUE
    BY <1>3, <1>4, <1>6 DEF ReadFixed, Left, Reads, Tears
  <2>2. Handled(type, run, pos, pos, <<>>, TRUE, TRUE)
    <3>1. TRUE = (Fixed(type) > Len(run))
      BY <1>4, <1>5, <1>6
    <3>2. <<>> \in Seq(Bytes) /\ TRUE \in BOOLEAN /\ pos \in {pos, pos + Fixed(type)}
      BY EmptySeq
    <3> QED
      BY <1>5, <3>1, <3>2, FixedHandled
  <2> QED
    BY <1>1, <1>3, <2>1, <2>2, GivingKeeps
<1>7. CASE ~(n > l - pos)
  <2>1. PICK to, value : to = pos + n /\ value = SubSeq(buf, pos + 1, pos + n)
    OBVIOUS
  <2>2. Gives(value, to, TRUE) /\ torn' = FALSE
    BY <1>2, <1>3, <1>4, <1>7, <2>1 DEF ReadFixed, Left, Reads, Holds, Take
  <2>3. value \in Seq(Bytes) /\ Len(value) = n /\ \A j \in 1..n : value[j] = run[j]
    <3>1. pos + n <= Len(buf)
      BY <1>4, <1>5, <1>7
    <3>2. value \in Seq(Bytes) /\ Len(value) = n /\ \A j \in 1..n : value[j] = buf[pos + j]
      BY <1>2, <1>3, <1>5, <2>1, <3>1, PartIs
    <3>3. \A j \in 1..n : j \in 1..(l - pos)
      BY <1>4, <1>5, <1>7
    <3> QED
      BY <1>5, <3>2, <3>3
  <2>4. Handled(type, run, pos, to, value, TRUE, FALSE)
    <3>1. FALSE = (Fixed(type) > Len(run))
      BY <1>4, <1>5, <1>7
    <3>2. to = pos + Fixed(type) /\ Len(value) = Fixed(type) /\ \A j \in 1..Len(value) : value[j] = run[j]
      BY <1>4, <2>1, <2>3
    <3> QED
      BY <1>5, <2>3, <3>1, <3>2, FixedHandled
  <2> QED
    BY <1>1, <1>3, <2>2, <2>4, GivingKeeps
<1> QED
  BY <1>6, <1>7

(* A length and the bytes behind it: read, or skipped. *)
LengthAndBytes(run, pos, l, to, tore) ==
  LET n == Varint(run)
  IN  IF n.ok /\ n.value <= l - (pos + n.took)
        THEN to = pos + n.took + n.value /\ tore = FALSE
        ELSE to = pos + n.took /\ tore = TRUE

LEMMA LengthHandled ==
  ASSUME NEW buf \in Seq(Bytes), NEW pos \in Nat, pos <= Len(buf), NEW run, run = SubSeq(buf, pos + 1, Len(buf)),
         NEW to, NEW tore, LengthAndBytes(run, pos, Len(buf), to, tore),
         NEW value, NEW read \in BOOLEAN,
         value = IF read /\ ~tore THEN SubSeq(buf, pos + Varint(run).took + 1, pos + Varint(run).took + Varint(run).value) ELSE <<>>
  PROVE  Handled(WireBytes, run, pos, to, value, read, tore)
<1>1. PICK l \in Nat : l = Len(buf)
  BY SeqFacts
<1>2. run \in Seq(Bytes) /\ Len(run) = l - pos /\ \A j \in 1..(l - pos) : run[j] = buf[pos + j]
  BY <1>1, RestIs
<1>3. PICK ok, took, n : ok = Varint(run).ok /\ took = Varint(run).took /\ n = Varint(run).value
  OBVIOUS
<1>4. took \in Nat /\ took <= l - pos /\ n \in Nat /\ ok \in BOOLEAN
  <2>1. /\ Varint(run).took \in Nat /\ Varint(run).took <= Len(run)
        /\ Varint(run).value \in 0..(WordSize - 1) /\ Varint(run).ok \in BOOLEAN
    BY <1>2, VarintIsSafe
  <2> QED
    BY <1>2, <1>3, <2>1, WordSizeIs
<1>5. tore = ~(ok /\ n <= (l - pos) - took) /\ (tore => to = pos + took) /\ (~tore => to = pos + took + n)
  <2>1. n <= l - (pos + took) <=> n <= (l - pos) - took
    BY <1>4
  <2>2. CASE ok /\ n <= l - (pos + took)
    BY <1>1, <1>3, <2>1, <2>2 DEF LengthAndBytes
  <2>3. CASE ~(ok /\ n <= l - (pos + took))
    BY <1>1, <1>3, <2>1, <2>3 DEF LengthAndBytes
  <2> QED
    BY <2>2, <2>3
<1>6. value \in Seq(Bytes) /\ (~tore /\ read => Len(value) = n /\ \A j \in 1..n : value[j] = run[took + j])
  <2>1. CASE ~(read /\ ~tore)
    <3>1. value = <<>>
      BY <2>1
    <3> QED
      BY <2>1, <3>1, EmptySeq
  <2>2. CASE read /\ ~tore
    <3>1. PICK from \in Nat : from = pos + took
      BY <1>4
    <3>2. value = SubSeq(buf, from + 1, from + n)
      BY <1>3, <2>2, <3>1
    <3>3. from + n <= Len(buf)
      <4>1. n <= (l - pos) - took
        BY <1>5, <2>2
      <4> QED
        BY <1>1, <1>4, <3>1, <4>1
    <3>4. value \in Seq(Bytes) /\ Len(value) = n /\ \A j \in 1..n : value[j] = buf[from + j]
      <4>1. n \in Nat
        BY <1>4
      <4>2. /\ SubSeq(buf, from + 1, from + n) \in Seq(Bytes) /\ Len(SubSeq(buf, from + 1, from + n)) = n
            /\ \A j \in 1..n : SubSeq(buf, from + 1, from + n)[j] = buf[from + j]
        BY <3>3, <4>1, PartIs
      <4> QED
        BY <3>2, <4>2
    <3>5. ASSUME NEW j \in 1..n  PROVE value[j] = run[took + j]
      <4>1. took + j \in 1..(l - pos) /\ pos + (took + j) = from + j
        BY <1>1, <1>4, <3>1, <3>3
      <4> QED
        BY <1>2, <3>4, <4>1
    <3> QED
      BY <3>4, <3>5
  <2> QED
    BY <2>1, <2>2
<1>7. BytesGone(run, pos, to, tore, value, read)
  BY <1>2, <1>3, <1>5, <1>6 DEF BytesGone
<1> QED
  BY <1>2, <1>6, <1>7, BytesHandled

LEMMA ReadBytesKeeps ==
  ASSUME WireInv, ReadBytes
  PROVE  WireInv'
<1>1. heading # NoField /\ heading.type = WireBytes /\ UNCHANGED <<authored, message, cut, bytes, over>>
  BY DEF ReadBytes
<1>2. torn = FALSE /\ place \in Nat /\ bytes \in Seq(Bytes) /\ place <= Len(bytes)
  BY <1>1, ReadingIs
<1>3. PICK run, pos, buf : run = Rest /\ pos = place /\ buf = bytes
  OBVIOUS
<1>4. PICK n, from : n = Varint(run) /\ from = pos + n.took
  OBVIOUS
<1>5. run = SubSeq(buf, pos + 1, Len(buf)) /\ buf \in Seq(Bytes) /\ pos \in Nat /\ pos <= Len(buf)
  BY <1>2, <1>3 DEF Rest
<1>6. CASE n.ok /\ n.value <= Len(buf) - from
  <2>1. PICK to, value : to = from + n.value /\ value = SubSeq(buf, from + 1, from + n.value)
    OBVIOUS
  <2>2. Gives(value, to, TRUE) /\ torn' = FALSE
    BY <1>2, <1>3, <1>4, <1>6, <2>1 DEF ReadBytes, Reads, Holds
  <2>3. LengthAndBytes(run, pos, Len(buf), to, FALSE)
    BY <1>4, <1>6, <2>1 DEF LengthAndBytes
  <2>4. Handled(WireBytes, run, pos, to, value, TRUE, FALSE)
    BY <1>4, <1>5, <2>1, <2>3, LengthHandled
  <2> QED
    BY <1>1, <1>3, <2>2, <2>4, GivingKeeps
<1>7. CASE ~(n.ok /\ n.value <= Len(buf) - from)
  <2>1. Gives(<<>>, from, TRUE) /\ torn' = TRUE
    BY <1>3, <1>4, <1>7 DEF ReadBytes, Reads, Tears
  <2>2. LengthAndBytes(run, pos, Len(buf), from, TRUE)
    BY <1>4, <1>7 DEF LengthAndBytes
  <2>3. Handled(WireBytes, run, pos, from, <<>>, TRUE, TRUE)
    BY <1>4, <1>5, <2>2, LengthHandled
  <2> QED
    BY <1>1, <1>3, <2>1, <2>3, GivingKeeps
<1> QED
  BY <1>6, <1>7

(* The arms of Skip. *)
LEMMA SkipFieldIs ==
  ASSUME SkipField, NEW n, n = Varint(Rest), NEW from, from = place + n.took, NEW type, type = heading.type
  PROVE  /\ type = WireVarint => Skips(from) /\ torn' = (torn \/ ~n.ok)
         /\ type = WireBytes =>
              IF n.ok /\ n.value <= Len(bytes) - from THEN Skips(from + n.value) /\ Holds ELSE Skips(from) /\ Tears
         /\ type \in {WireFixed64, WireFixed32} =>
              Skips(place + Fixed(type)) /\ torn' = (torn \/ Fixed(type) > Left)
         /\ type \notin {WireVarint, WireBytes, WireFixed64, WireFixed32} => Skips(place) /\ Tears
<1>1. /\ WireVarint # WireBytes /\ WireVarint \notin {WireFixed64, WireFixed32}
      /\ WireBytes \notin {WireFixed64, WireFixed32}
  BY DEF WireVarint, WireBytes, WireFixed64, WireFixed32
<1>2. CASE type = WireVarint
  BY <1>1, <1>2, Zenon DEF SkipField
<1>3. CASE type = WireBytes
  BY <1>1, <1>3, Zenon DEF SkipField
<1>4. CASE type \in {WireFixed64, WireFixed32}
  BY <1>1, <1>4, Zenon DEF SkipField
<1>5. CASE type \notin {WireVarint, WireBytes, WireFixed64, WireFixed32}
  BY <1>1, <1>5, Zenon DEF SkipField
<1> QED
  BY <1>1, <1>2, <1>3, <1>4, <1>5, Zenon

LEMMA SkipFieldKeeps ==
  ASSUME WireInv, SkipField
  PROVE  WireInv'
<1>1. heading # NoField /\ UNCHANGED <<authored, message, cut, bytes, over>>
  BY DEF SkipField
<1>2. /\ torn = FALSE /\ place \in Nat /\ bytes \in Seq(Bytes) /\ place <= Len(bytes)
      /\ Rest \in Seq(Bytes) /\ Len(Rest) = Len(bytes) - place
  BY <1>1, ReadingIs
<1>3. PICK run, pos, buf, type : run = Rest /\ pos = place /\ buf = bytes /\ type = heading.type
  OBVIOUS
<1>4. PICK n, from : n = Varint(run) /\ from = pos + n.took
  OBVIOUS
<1>5. run = SubSeq(buf, pos + 1, Len(buf)) /\ buf \in Seq(Bytes) /\ pos \in Nat /\ pos <= Len(buf)
  BY <1>2, <1>3 DEF Rest
<1>6. run \in Seq(Bytes) /\ Len(run) = Len(buf) - pos
  BY <1>2, <1>3
<1>7. CASE type = WireVarint
  <2>1. Gives(<<>>, from, FALSE) /\ torn' = (torn \/ ~n.ok)
    BY <1>3, <1>4, <1>7, SkipFieldIs DEF Skips
  <2>2. PICK tore : tore = ~n.ok
    OBVIOUS
  <2>3. torn' = tore
    BY <1>2, <2>1, <2>2
  <2>4. Handled(WireVarint, run, pos, from, <<>>, FALSE, tore)
    <3>1. tore = ~Varint(run).ok /\ from = pos + Varint(run).took
      BY <1>4, <2>2
    <3> QED
      BY <1>5, <1>6, <3>1, VarintHandled
  <2> QED
    BY <1>1, <1>3, <1>7, <2>1, <2>3, <2>4, GivingKeeps
<1>8. CASE type = WireBytes
  <2>1. CASE n.ok /\ n.value <= Len(buf) - from
    <3>1. Gives(<<>>, from + n.value, FALSE) /\ torn' = FALSE
      BY <1>2, <1>3, <1>4, <1>8, <2>1, SkipFieldIs DEF Skips, Holds
    <3>2. LengthAndBytes(run, pos, Len(buf), from + n.value, FALSE)
      BY <1>4, <2>1 DEF LengthAndBytes
    <3>3. Handled(WireBytes, run, pos, from + n.value, <<>>, FALSE, FALSE)
      BY <1>4, <1>5, <3>2, LengthHandled
    <3> QED
      BY <1>1, <1>3, <1>8, <3>1, <3>3, GivingKeeps
  <2>2. CASE ~(n.ok /\ n.value <= Len(buf) - from)
    <3>1. Gives(<<>>, from, FALSE) /\ torn' = TRUE
      BY <1>3, <1>4, <1>8, <2>2, SkipFieldIs DEF Skips, Tears
    <3>2. LengthAndBytes(run, pos, Len(buf), from, TRUE)
      BY <1>4, <2>2 DEF LengthAndBytes
    <3>3. Handled(WireBytes, run, pos, from, <<>>, FALSE, TRUE)
      BY <1>4, <1>5, <3>2, LengthHandled
    <3> QED
      BY <1>1, <1>3, <1>8, <3>1, <3>3, GivingKeeps
  <2> QED
    BY <2>1, <2>2
<1>9. CASE type \in {WireFixed64, WireFixed32}
  <2>1. PICK to, tore : to = pos + Fixed(type) /\ tore = (Fixed(type) > Len(run))
    OBVIOUS
  <2>2. Gives(<<>>, to, FALSE) /\ torn' = (torn \/ Fixed(type) > Len(run))
    <3>1. Skips(place + Fixed(type)) /\ torn' = (torn \/ Fixed(type) > Left)
      BY <1>3, <1>9, SkipFieldIs
    <3>2. Left = Len(run)
      BY <1>3, <1>6 DEF Left
    <3> QED
      BY <1>3, <2>1, <3>1, <3>2 DEF Skips
  <2>3. torn' = tore
    <3>1. CASE Fixed(type) > Len(run)
      BY <2>1, <2>2, <3>1
    <3>2. CASE ~(Fixed(type) > Len(run))
      BY <1>2, <2>1, <2>2, <3>2
    <3> QED
      BY <3>1, <3>2
  <2>4. Handled(type, run, pos, to, <<>>, FALSE, tore)
    <3>1. <<>> \in Seq(Bytes) /\ FALSE \in BOOLEAN
      BY EmptySeq
    <3>2. to \in {pos, pos + Fixed(type)}
      BY <2>1
    <3> QED
      BY <1>5, <1>6, <1>9, <2>1, <3>1, <3>2, FixedHandled
  <2> QED
    BY <1>1, <1>3, <2>2, <2>3, <2>4, GivingKeeps
<1>10. CASE type \notin {WireVarint, WireFixed64, WireBytes, WireFixed32}
  <2>1. Gives(<<>>, pos, FALSE) /\ torn' = TRUE
    BY <1>3, <1>10, SkipFieldIs DEF Skips, Tears
  <2>2. Handled(type, run, pos, pos, <<>>, FALSE, TRUE)
    BY <1>5, <1>6, <1>10, UnknownHandled
  <2> QED
    BY <1>1, <1>3, <2>1, <2>2, GivingKeeps
<1> QED
  BY <1>7, <1>8, <1>9, <1>10

LEMMA FieldActionKeeps ==
  ASSUME WireInv, Field
  PROVE  WireInv'
<1>1. heading = NoField /\ over = FALSE /\ UNCHANGED <<authored, message, cut, bytes, taken>>
  BY DEF Field, WireInv, ReaderOK, ReaderTypes
<1>2. PICK buf, pos, tore, got : buf = bytes /\ pos = place /\ tore = torn /\ got = taken
  OBVIOUS
<1>3. ReaderOK(buf, pos, tore, NoField, got, FALSE)
  BY <1>1, <1>2 DEF WireInv
<1>4. PICK to, tore2, h2, done2 : to = place' /\ tore2 = torn' /\ h2 = heading' /\ done2 = over'
  OBVIOUS
<1>5. FieldGives(buf, pos, tore, got, to, tore2, h2, done2)
  <2>1. CASE torn \/ place >= Len(bytes)
    BY <1>1, <1>2, <1>4, <2>1 DEF Field, FieldGives
  <2>2. CASE ~(torn \/ place >= Len(bytes))
    <3>1. PICK tag : tag = Varint(Rest)
      OBVIOUS
    <3>2. tag = Varint(SubSeq(buf, pos + 1, Len(buf)))
      BY <1>2, <3>1 DEF Rest
    <3>3. ~tore /\ pos < Len(buf) /\ tore = FALSE
      <4>1. pos \in Nat /\ Len(buf) \in Nat /\ tore \in BOOLEAN
        BY <1>3, SeqFacts DEF ReaderOK, ReaderTypes
      <4> QED
        BY <1>2, <2>2, <4>1
    <3>4. to = pos + tag.took
      BY <1>2, <1>4, <2>2, <3>1 DEF Field
    <3>5. CASE tag.ok /\ tag.value \div 8 # 0
      <4>1. /\ tore2 = FALSE /\ done2 = FALSE
            /\ h2 = [number |-> tag.value \div 8, type |-> tag.value % 8, at |-> pos]
        BY <1>1, <1>2, <1>4, <2>2, <3>1, <3>3, <3>5 DEF Field, Holds
      <4> QED
        BY <3>2, <3>3, <3>4, <3>5, <4>1, Zenon DEF FieldGives
    <3>6. CASE ~(tag.ok /\ tag.value \div 8 # 0)
      <4>1. tore2 = TRUE /\ done2 = TRUE /\ h2 = NoField
        BY <1>1, <1>4, <2>2, <3>1, <3>6 DEF Field, Tears
      <4> QED
        BY <3>2, <3>3, <3>4, <3>6, <4>1, Zenon DEF FieldGives
    <3> QED
      BY <3>5, <3>6
  <2> QED
    BY <2>1, <2>2
<1>6. ReaderOK(bytes', place', torn', heading', taken', over')
  <2>1. ReaderOK(buf, to, tore2, h2, got, done2)
    BY <1>3, <1>5, FieldKeeps, Zenon
  <2> QED
    BY <1>1, <1>2, <1>4, <2>1
<1>7. authored => Delivered(Kept(message'), cut', bytes', place', torn', heading', taken')
  <2> SUFFICES ASSUME authored  PROVE Delivered(Kept(message'), cut', bytes', place', torn', heading', taken')
    OBVIOUS
  <2>1. PICK fs, n : fs = Kept(message) /\ n = cut
    OBVIOUS
  <2>2. Delivered(fs, n, buf, pos, tore, NoField, got)
    BY <1>1, <1>2, <2>1 DEF WireInv
  <2>3. Delivered(fs, n, buf, to, tore2, h2, got)
    BY <1>3, <1>5, <2>2, FieldDelivers, Zenon
  <2>4. Kept(message') = fs
    BY <1>1, <2>1
  <2> QED
    BY <1>1, <1>2, <1>4, <2>1, <2>3, <2>4, Zenon
<1>8. authored' \in BOOLEAN /\ (authored' => message' \in Authored) /\ authored' = authored
  BY <1>1 DEF WireInv
<1> QED
  BY <1>6, <1>7, <1>8 DEF WireInv

LEMMA WireNextKeeps == WireInv /\ [WireNext]_wireVars => WireInv'
<1> SUFFICES ASSUME WireInv, [WireNext]_wireVars  PROVE WireInv'
  OBVIOUS
<1>1. CASE UNCHANGED wireVars
  <2>1. ReaderOK(bytes', place', torn', heading', taken', over')
    BY <1>1 DEF wireVars, WireInv
  <2>2. authored => Delivered(Kept(message'), cut', bytes', place', torn', heading', taken')
    BY <1>1 DEF wireVars, WireInv
  <2> QED
    BY <1>1, <2>1, <2>2 DEF wireVars, WireInv
<1> QED
  BY <1>1, FieldActionKeeps, ReadVarintKeeps, ReadFixedKeeps, ReadBytesKeeps, SkipFieldKeeps DEF WireNext

(* FieldsSurvive of every word, however long, every fixed and every        *)
(* message that a Writer can be asked for.                                 *)
THEOREM FieldsArrive == WireSpec => []FieldsSurvive
<1>1. WireInit => WireInv
  BY WireInitKeeps
<1>2. WireInv /\ [WireNext]_wireVars => WireInv'
  BY WireNextKeeps
<1>3. WireInv => FieldsSurvive
  BY ReaderSurvives
<1> QED
  BY <1>1, <1>2, <1>3, PTL DEF WireSpec
=============================================================================

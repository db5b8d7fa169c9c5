---------------------------- MODULE Conversation ----------------------------
(***************************************************************************)
(* A chat over several rounds: BuildDevinRequest of                        *)
(* internal/openai/translate.go, the content of messages in types.go, and  *)
(* the ids of the tool calls that a client is given and sends back.        *)
(*                                                                         *)
(* The proxy keeps nothing between two rounds.  Each request carries the   *)
(* whole history, as the client remembers it, and is translated anew for   *)
(* a backend that knows only users and tools, refuses an empty prompt and  *)
(* drops an empty field.                                                   *)
(*                                                                         *)
(* A text is a sequence of words; `Blank` is one of white space.  Sampling *)
(* parameters, tool definitions and the text of the instruction are left   *)
(* out, except for what makes a request one that cannot be served.         *)
(***************************************************************************)
EXTENDS Integers, SequencesExt

CONSTANTS
  Words,      \* what texts are made of
  Pictures,   \* what images show
  Says,       \* what a client may add to the history in a round, beside tool results
  Results,    \* the contents of a tool's result
  Replies,    \* what the backend may answer: [text, calls], a call being whether it has an id
  MaxRounds   \* bound: requests in one conversation

Roles    == {"system", "user", "assistant", "tool"}
Contents == Seq([type : {"text"}, body : Seq(Words)] \cup [type : {"image", "remote"}, body : Pictures])

ToolOnly    == <<"(tool call)">>
EmptyResult == <<"(empty tool result)">>

(* A client answers only the calls it was given, "narrator" stands for any *)
(* role the proxy does not know, and nobody says what the proxy puts in    *)
(* place of an empty text.                                                 *)
ChatAssumption ==
  /\ MaxRounds \in Nat
  /\ ToolOnly[1] \notin Words /\ EmptyResult[1] \notin Words
  /\ Says \subseteq Seq([role : {"system", "user", "assistant", "narrator"}, content : Contents,
                         calls : {<<>>}, answers : {<<>>}])
  /\ Results \subseteq Contents
  /\ Replies \subseteq [text : Seq(Words), calls : Seq(BOOLEAN)]

ASSUME ChatAssumption

VARIABLES
  history,  \* the client's messages: [role, content, calls, answers]
  due,      \* the ids of the calls the client has not answered yet
  asked,    \* the request that was sent to the backend last
  turn,     \* whose turn it is: "client" or "backend"
  rounds    \* requests that were translated so far

chatVars == <<history, due, asked, turn, rounds>>

Blank == "white space"

NoId == <<>>
NoRequest == [note |-> FALSE, opening |-> TRUE, prompts |-> <<>>]

-----------------------------------------------------------------------------
(* A message's content: parts of text, inline images, images that would    *)
(* have to be fetched, and what is neither.                                *)

Part(type, body) == [type |-> type, body |-> body]
Wording(part) == IF part.type = "text" THEN part.body ELSE <<>>
Shown(part)   == IF part.type = "image" THEN <<part.body>> ELSE <<>>

TextOf(m)    == FlattenSeq([i \in DOMAIN m.content |-> Wording(m.content[i])])
ImagesOf(m)  == FlattenSeq([i \in DOMAIN m.content |-> Shown(m.content[i])])
Malformed(m) == \E i \in DOMAIN m.content : m.content[i].type \notin {"text", "image"}

Message(role, content) == [role |-> role, content |-> content, calls |-> <<>>, answers |-> NoId]

-----------------------------------------------------------------------------
(* Prompts.  `source` is what the backend is told, `label` whether the     *)
(* text begins with the label of an assistant's turn, `system` whether it  *)
(* is between the tags of a system prompt.                                 *)

(* A slip: an empty text is sent as it is.                                 *)
AsItIs(text, placeholder) == text

Otherwise(text, placeholder) == IF text = <<>> THEN placeholder ELSE text

TurnOf(source, text) ==
  [source |-> source, label |-> FALSE, system |-> FALSE, text |-> text,
   images |-> <<>>, calls |-> <<>>, answers |-> NoId]

(* An assistant's turn is sent as a user's with a label, and a turn that   *)
(* is only a call, or a result that is empty, as a placeholder.  Images of *)
(* anybody but the user are not sent on.                                   *)
PromptOf(m) ==
  CASE m.role = "user" /\ (TextOf(m) # <<>> \/ ImagesOf(m) # <<>>) ->
         <<[TurnOf("user", TextOf(m)) EXCEPT !.images = ImagesOf(m)]>>
    [] m.role = "assistant" /\ (TextOf(m) # <<>> \/ m.calls # <<>>) ->
         <<[TurnOf("user", Otherwise(TextOf(m), ToolOnly)) EXCEPT !.label = TRUE, !.calls = m.calls]>>
    [] m.role = "tool" ->
         <<[TurnOf("tool", Otherwise(TextOf(m), EmptyResult)) EXCEPT !.answers = m.answers]>>
    [] OTHER -> <<>>

Turns(messages) == FlattenSeq([i \in DOMAIN messages |-> PromptOf(messages[i])])

Instructs(m) == IF m.role = "system" THEN TextOf(m) ELSE <<>>
SystemText(messages) == FlattenSeq([i \in DOMAIN messages |-> Instructs(messages[i])])

(* The client's system prompts ride along as one block before the turns.   *)
SystemBlock(messages) ==
  IF \A i \in DOMAIN SystemText(messages) : SystemText(messages)[i] = Blank THEN <<>>
  ELSE <<[TurnOf("user", SystemText(messages)) EXCEPT !.system = TRUE]>>

(* A request the proxy answers itself: content or a role it does not know, *)
(* nothing to send, or parameters that cannot be served (n, tool_choice,   *)
(* a token budget below one, tools that are no functions).                 *)
Unserved(messages, parameters) ==
  \/ \E i \in DOMAIN messages :
       Malformed(messages[i]) \/ messages[i].role \notin Roles
  \/ Turns(messages) = <<>>
  \/ parameters # "servable"

(* The note explains the label; the opening round of a trajectory is one   *)
(* without any earlier turn.                                               *)
BuildDevinRequest(messages) ==
  LET turns == Turns(messages)
  IN  [note    |-> \E i \in DOMAIN turns : turns[i].label,
       opening |-> ~\E i \in DOMAIN turns : turns[i].label \/ turns[i].source = "tool",
       prompts |-> SystemBlock(messages) \o turns]

-----------------------------------------------------------------------------
(* The client, and the backend, whose calls reach the client with an id.   *)

(* Tools run side by side, so their results come in any order.             *)
ResultsFor(ids) ==
  {[k \in DOMAIN order |-> [Message("tool", result[order[k]]) EXCEPT !.answers = order[k]]] :
     order \in SetToSeqs(ids), result \in [ids -> Results]}

Ask(says, results, parameters) ==
  /\ turn = "client" /\ rounds < MaxRounds
  /\ LET messages == history \o results \o says
     IN  /\ ~Unserved(messages, parameters)
         /\ history' = messages /\ asked' = BuildDevinRequest(messages)
  /\ due' = {} /\ turn' = "backend" /\ rounds' = rounds + 1

(* A refused request is taken back by the client.                          *)
AskInVain(says, results, parameters) ==
  /\ turn = "client" /\ rounds < MaxRounds
  /\ Unserved(history \o results \o says, parameters)
  /\ rounds' = rounds + 1
  /\ UNCHANGED <<history, due, asked, turn>>

(* The id a call has for the client: one is made up where the backend gave *)
(* none.                                                                   *)
ClientId(named, k) == IF named THEN <<"call", rounds, k>> ELSE <<"made up", rounds, k>>

Reply(answer) ==
  /\ turn = "backend"
  /\ LET calls == [k \in DOMAIN answer.calls |-> ClientId(answer.calls[k], k)]
         words == IF answer.text = <<>> THEN <<>> ELSE <<Part("text", answer.text)>>
     IN  /\ history' = Append(history, [Message("assistant", words) EXCEPT !.calls = calls])
         /\ due' = ToSet(calls)
  /\ turn' = "client"
  /\ UNCHANGED <<asked, rounds>>

ChatInit ==
  /\ history = <<>> /\ due = {} /\ asked = NoRequest
  /\ turn = "client" /\ rounds = 0

ChatNext ==
  \/ \E says \in Says, results \in ResultsFor(due), parameters \in {"servable", "refused"} :
       Ask(says, results, parameters) \/ AskInVain(says, results, parameters)
  \/ \E answer \in Replies : Reply(answer)

ChatSpec == ChatInit /\ [][ChatNext]_chatVars

-----------------------------------------------------------------------------
(* Properties. *)

(* Who said what, word by word, in the client's history and in what the    *)
(* backend is given.                                                       *)
Attributed(who, text) == [k \in DOMAIN text |-> <<who, text[k]>>]

WordsSaid(m) == IF m.role = "system" THEN <<>> ELSE Attributed(m.role, TextOf(m))
WordsTold(prompt) ==
  LET who == IF prompt.source = "tool" THEN "tool" ELSE IF prompt.label THEN "assistant" ELSE "user"
  IN  IF prompt.system \/ prompt.text \in {ToolOnly, EmptyResult} THEN <<>>
      ELSE Attributed(who, prompt.text)

Spoken == FlattenSeq([i \in DOMAIN history |-> WordsSaid(history[i])])
Heard  == FlattenSeq([k \in DOMAIN asked.prompts |-> WordsTold(asked.prompts[k])])

PicturesSent(m) == IF m.role = "user" THEN ImagesOf(m) ELSE <<>>

(* Whatever rounds came before, the backend is given the conversation as   *)
(* the client has it: every word in its order and under its speaker, every *)
(* picture of a user, all system prompts ahead of it; every tool call      *)
(* that was ever made and, behind it, the one result that answers it; no   *)
(* prompt that is empty, which it refuses; no label without the note that  *)
(* explains it; and the mark of an opening round exactly if nothing came   *)
(* before.                                                                 *)
HistoryReachesBackend ==
  turn = "backend" =>
    LET told      == asked.prompts
        Calls(k)  == ToSet(told[k].calls)
        EveryCall == UNION {ToSet(history[i].calls) : i \in DOMAIN history}
    IN  /\ Heard = Spoken
        /\ FlattenSeq([k \in DOMAIN told |-> told[k].images])
             = FlattenSeq([i \in DOMAIN history |-> PicturesSent(history[i])])
        /\ \A i \in DOMAIN history :
             history[i].role = "system" =>
               ToSet(TextOf(history[i])) \ {Blank} \subseteq (IF told[1].system THEN ToSet(told[1].text) ELSE {})
        /\ \A k \in DOMAIN told : (told[k].system => k = 1) /\ (told[k].label => asked.note)
        /\ \A k \in DOMAIN told : told[k].text # <<>> \/ told[k].images # <<>>
        /\ \A id \in EveryCall :
             \E j, k \in DOMAIN told :
               /\ j < k /\ id \in Calls(j) /\ told[k].answers = id
               /\ \A l \in DOMAIN told : told[l].answers = id => l = k
        /\ asked.opening <=> EveryCall = {} /\ \A k \in DOMAIN Spoken : Spoken[k][1] = "user"
=============================================================================

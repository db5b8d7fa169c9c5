------------------------------ MODULE MCRelay -------------------------------
(***************************************************************************)
(* An instance of Relay: stops of two and five bytes, of which one lies    *)
(* inside another, text of one-byte letters and a two-byte character       *)
(* <<p, q>>, and frames of each kind, some of which carry two things at    *)
(* once.  And the process under it, which is started, stopped and cut off, *)
(* and a chat of several rounds that go through it: what these see of one  *)
(* answer is its end and what is gathered of it, so they share no state    *)
(* that a module models, and `part` picks the one that moves in a          *)
(* behaviour.                                                              *)
(***************************************************************************)
EXTENDS Relay, Process, Conversation

CONSTANTS a, p, q, x, y

VARIABLE part

MCBytes         == {a, p, q, x, y}
MCNames         == {"", "c1", "c2", "f"}
MCStops         == {<<x, y>>, <<x, p, q, x, y>>, <<p, q, x, y, x>>}
MCContinuations == {q}
MCPrompt        == <<a>>

Plain(text) == [text |-> text, calls |-> <<>>, stop |-> "none", usage |-> "none"]

Opening(id) == [id |-> id, name |-> "", args |-> <<a>>]
Further     == [id |-> "", name |-> "f", args |-> <<x>>]

MCFrames ==
  {Plain(<<p, q, x>>),
   [Plain(<<>>) EXCEPT !.calls = <<Opening("c1")>>, !.stop = "function_call"],
   [Plain(<<x>>) EXCEPT !.calls = <<Further, Opening("c2")>>, !.stop = "max_tokens", !.usage = "zero"],
   [Plain(<<y>>) EXCEPT !.stop = "stop", !.usage = "counts"],
   [Plain(<<y>>) EXCEPT !.stop = "error"]}

(* What is said in a round: something, nothing, white space, a picture, a  *)
(* picture that is elsewhere, and system prompts before and after.         *)
Says1(role, content) == <<Message(role, content)>>

MCSays ==
  {<<>>, Says1("user", <<Part("text", <<"this">>), Part("image", <<"cat">>), Part("text", <<"that">>)>>),
   Says1("user", <<>>), Says1("user", <<Part("image", <<"dog">>)>>), Says1("user", <<Part("remote", <<"bird">>)>>),
   Says1("system", <<Part("text", <<Blank>>)>>), Says1("narrator", <<Part("text", <<"aside">>)>>),
   Says1("system", <<Part("text", <<"rules">>)>>) \o Says1("user", <<Part("text", <<"more">>)>>)}

MCWords    == {"this", "that", "rules", "more", "aside", "found", "yes", "wait", Blank}
MCPictures == {<<"cat">>, <<"dog">>, <<"bird">>, <<"plot">>}

MCResults == {<<>>, <<Part("text", <<"found">>), Part("image", <<"plot">>)>>}

MCReplies ==
  {[text |-> <<"yes">>, calls |-> <<>>], [text |-> <<>>, calls |-> <<>>],
   [text |-> <<>>, calls |-> <<FALSE, TRUE>>], [text |-> <<"wait">>, calls |-> <<TRUE>>]}

MCInit ==
  /\ Init /\ ProcessInit /\ ChatInit /\ part \in {"relay", "process", "chat"}
  /\ part # "process" => config = NoFile
  /\ part # "relay" => endpoint = "chat"

Rests(component, moving) == part # component => UNCHANGED moving

MCNext ==
  /\ part' = part
  /\ \/ part = "relay"   /\ Next
     \/ part = "process" /\ ProcessNext
     \/ part = "chat"    /\ ChatNext
  /\ Rests("relay", vars)
  /\ Rests("process", processVars)
  /\ Rests("chat", chatVars)

(* The fairness of Relay and of Process, for the part that moves.          *)
MCFairSpec ==
  /\ MCInit /\ [][MCNext]_<<part, vars, processVars, chatVars>>
  /\ \A h \in Handlers :
       /\ WF_vars(part = "relay" /\ RequestTimesOut(h))
       /\ WF_vars(part = "relay" /\ Notice(h))
  /\ WF_processVars(part = "process" /\ MainStep)

(* Where the handlers move, every one of them returns, also when the       *)
(* backend stops sending.                                                  *)
AnswersEnd == part = "relay" => RelaysEnd
=============================================================================

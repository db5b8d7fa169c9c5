------------------------------- MODULE Probes -------------------------------
(***************************************************************************)
(* The Test button of an account: handleAccountTest of                     *)
(* internal/dashboard/test.go with ProbeChat of internal/devin/probe.go.   *)
(*                                                                         *)
(* A click names a place in the list.  The handler takes the credential    *)
(* that stands there, asks the throttle, and sends one small completion    *)
(* through that credential, which may take longer than the throttle's      *)
(* interval; accounts come, go and cool down meanwhile.  Only an answer    *)
(* has a consequence: it lifts the cooldown of the account that gave it.   *)
(*                                                                         *)
(* A credential is known by its identity: an account that is added again   *)
(* has a new one.  A pool member is [creds, cooling]; that the pool keeps  *)
(* the two in step is AccountPool's business.                              *)
(***************************************************************************)
EXTENDS Integers, SequencesExt

CONSTANTS
  Clicks,          \* the tests the dashboard can be serving at once
  Credentials,     \* the credentials there are
  ProbeInterval,   \* the shortest time between two probes of an account
  FrameLimit,      \* how many frames of an answer are read
  ProbeHorizon     \* bound: the last moment

ASSUME ProbesAssumption ==
  /\ ProbeInterval \in Nat \ {0} /\ FrameLimit \in Nat \ {0} /\ ProbeHorizon \in Nat

VARIABLES
  members,    \* the pool in order
  time,
  lastProbe,  \* by credential: when its last probe began, or NeverProbed
  test,       \* by click: what its handler is doing
  sent        \* all probes that were let through, [creds, time], for the properties

probeVars == <<members, time, lastProbe, test, sent>>

NeverProbed == -1

NoTest == [at |-> "none"]

ProbedIn(m)    == {m[i].creds : i \in DOMAIN m}
PlaceOfCreds(c) == SelectInSeq(members, LAMBDA e : e.creds = c)

-----------------------------------------------------------------------------
(* The handler. *)

(* A click that names no account, or no model, is refused and forgotten.   *)
Click(k) ==
  /\ test[k] = NoTest
  /\ \E i \in DOMAIN members :
       test' = [test EXCEPT ![k] = [at |-> "asking_leave", place |-> i,
                                    creds |-> members[i].creds, frames |-> 0]]
  /\ UNCHANGED <<members, time, lastProbe, sent>>

TooSoon(c) == lastProbe[c] # NeverProbed /\ time - lastProbe[c] < ProbeInterval

(* A slip: the check and the mark are two steps.                           *)
BeginProbeInTwo(k) ==
  LET c == test[k].creds
  IN  /\ \/ /\ test[k].at = "asking_leave"
            /\ test' = [test EXCEPT ![k] = IF TooSoon(c) THEN NoTest ELSE [@ EXCEPT !.at = "marking"]]
            /\ UNCHANGED <<lastProbe, sent>>
         \/ /\ test[k].at = "marking"
            /\ test' = [test EXCEPT ![k].at = "opening"]
            /\ lastProbe' = [lastProbe EXCEPT ![c] = time]
            /\ sent' = Append(sent, [creds |-> c, time |-> time])
      /\ UNCHANGED <<members, time>>

(* beginProbe checks and marks in one critical section.                    *)
BeginProbe(k) ==
  LET c == test[k].creds
  IN  /\ test[k].at = "asking_leave"
      /\ IF TooSoon(c)
           THEN test' = [test EXCEPT ![k] = NoTest] /\ UNCHANGED <<lastProbe, sent>>
           ELSE /\ test' = [test EXCEPT ![k].at = "opening"]
                /\ lastProbe' = [lastProbe EXCEPT ![c] = time]
                /\ sent' = Append(sent, [creds |-> c, time |-> time])
      /\ UNCHANGED <<members, time>>

-----------------------------------------------------------------------------
(* ProbeChat. *)

ProbeGoes(k, at) ==
  /\ test' = [test EXCEPT ![k].at = at]
  /\ UNCHANGED <<members, time, lastProbe, sent>>

ProbeOpens(k) == test[k].at = "opening" /\ ProbeGoes(k, "reading")

(* Frames up to the limit are proof enough, whatever would follow them.    *)
ProbeFrame(k) ==
  /\ test[k].at = "reading"
  /\ LET frames == test[k].frames + 1
     IN  test' = [test EXCEPT ![k].frames = frames,
                              ![k].at = IF frames = FrameLimit THEN "served" ELSE "reading"]
  /\ UNCHANGED <<members, time, lastProbe, sent>>

(* A clean end proves something after a frame, and only then.              *)
ProbeStreamEnds(k) ==
  /\ test[k].at = "reading"
  /\ ProbeGoes(k, IF test[k].frames = 0 THEN "failed" ELSE "served")

(* No stream, an error in it at any point, or the end of the time.         *)
ProbeBreaks(k) == test[k].at \in {"opening", "reading"} /\ ProbeGoes(k, "failed")

-----------------------------------------------------------------------------
(* What comes of it. *)

(* A slip: the account at the place that was clicked.                      *)
FileByPlace(k) ==
  /\ test[k].at \in {"served", "failed"}
  /\ test' = [test EXCEPT ![k] = NoTest]
  /\ members' = IF test[k].at = "served" /\ test[k].place \in DOMAIN members
                  THEN [members EXCEPT ![test[k].place].cooling = FALSE] ELSE members
  /\ UNCHANGED <<time, lastProbe, sent>>

(* ClearCooldown finds the credential where it is now, if it still is.     *)
FileProbe(k) ==
  /\ test[k].at \in {"served", "failed"}
  /\ test' = [test EXCEPT ![k] = NoTest]
  /\ members' = IF test[k].at = "served" /\ test[k].creds \in ProbedIn(members)
                  THEN [members EXCEPT ![PlaceOfCreds(test[k].creds)].cooling = FALSE] ELSE members
  /\ UNCHANGED <<time, lastProbe, sent>>

-----------------------------------------------------------------------------
(* Meanwhile, in the pool. *)

Leave ==
  /\ \E i \in DOMAIN members : members' = RemoveAt(members, i)
  /\ UNCHANGED <<time, lastProbe, test, sent>>

(* A new credential: one that was never in the pool.                       *)
Enter ==
  /\ \E c \in Credentials :
       /\ c \notin ProbedIn(members) /\ lastProbe[c] = NeverProbed
       /\ \A k \in Clicks : test[k] # NoTest => test[k].creds # c
       /\ members' = Append(members, [creds |-> c, cooling |-> FALSE])
  /\ UNCHANGED <<time, lastProbe, test, sent>>

(* A request is refused, or a hold runs out.                               *)
CoolsOrWarms ==
  /\ \E i \in DOMAIN members : members' = [members EXCEPT ![i].cooling = ~@]
  /\ UNCHANGED <<time, lastProbe, test, sent>>

MomentPasses ==
  /\ time < ProbeHorizon
  /\ time' = time + 1
  /\ UNCHANGED <<members, lastProbe, test, sent>>

ProbesInit ==
  /\ members = <<>>
  /\ time = 0
  /\ lastProbe = [c \in Credentials |-> NeverProbed]
  /\ test = [k \in Clicks |-> NoTest]
  /\ sent = <<>>

HandlesTest(k) ==
  Click(k) \/ BeginProbe(k) \/ ProbeOpens(k) \/ ProbeFrame(k) \/ ProbeStreamEnds(k)
  \/ ProbeBreaks(k) \/ FileProbe(k)

ProbesNext == (\E k \in Clicks : HandlesTest(k)) \/ Leave \/ Enter \/ CoolsOrWarms \/ MomentPasses

ProbesSpec == ProbesInit /\ [][ProbesNext]_probeVars

-----------------------------------------------------------------------------
(* Properties. *)

Spaced ==
  \A i, j \in DOMAIN sent :
    i < j /\ sent[i].creds = sent[j].creds => sent[j].time - sent[i].time >= ProbeInterval

ProvenLift(k) ==
  test[k] # NoTest /\ test'[k] = NoTest
  => \A i \in DOMAIN members :
       members'[i] # members[i] =>
         test[k].frames > 0 /\ members'[i] = [creds |-> test[k].creds, cooling |-> FALSE]

(* "Two simultaneous clicks" do not "both spend quota" (beginProbe): the   *)
(* probes of an account begin at least an interval apart, also when the    *)
(* first is still running, has failed, or the account has moved.  And a    *)
(* click changes the pool only by lifting the cooldown of the credential   *)
(* that was clicked, wherever it stands by then, after at least one frame  *)
(* of an answer; whatever the pool went through during the probe, no other *)
(* account is touched, and a failed probe touches none.                    *)
TestsAreFair == [][Spaced' /\ \A k \in Clicks : ProvenLift(k)]_probeVars
=============================================================================

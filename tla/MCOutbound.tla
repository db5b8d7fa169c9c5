----------------------------- MODULE MCOutbound -----------------------------
(* On its way out a request waits for a slot and a route, goes through a   *)
(* tunnel, and reads its answer in frames, the frames in fields; and the   *)
(* status of an account that was refused says when to ask it again.  Each  *)
(* of these has its own state; `part` picks the one that moves in a        *)
(* behaviour.                                                              *)
EXTENDS Upstream, Tunnel, Frames, AccountStatus, Wire

CONSTANTS
  s1, u1

VARIABLE part

MCRoutes == <<2, 1>>
MCPeriod == [daily |-> 2, weekly |-> 5]
MCFull   == [daily |-> 1, weekly |-> 2]

-----------------------------------------------------------------------------
(* What is written: words from zero to the largest, fixeds and strings     *)
(* that are zero and are not, with writers that leave zero out and writers *)
(* that do not, and a message in a message; two of them at a time.         *)

Writes(number, type, value, omits) ==
  [number |-> number, type |-> type, value |-> value, omits |-> omits]

Zeroes == [digit |-> 0, more |-> FALSE]
Ones   == [digit |-> 1, more |-> TRUE]

MCFields ==
  {Writes(1, 0, 0, TRUE), Writes(1, 0, 0, FALSE), Writes(2, 0, 5, TRUE), Writes(3, 0, WordSize - 1, TRUE),
   Writes(1, 2, <<>>, FALSE), Writes(2, 2, <<>>, TRUE), Writes(3, 2, <<Ones, Zeroes, Ones>>, FALSE),
   Writes(2, 1, <<Ones, Zeroes>>, TRUE), Writes(2, 1, <<Zeroes, Zeroes>>, TRUE), Writes(1, 5, <<Ones>>, FALSE)}

MCMessages == {<<>>} \cup {<<f>> : f \in MCFields} \cup {<<f, g>> : f, g \in MCFields}

(* Neither a call nor the dialing of its tunnel waits for ever.            *)
OutboundEnds == CallsEnd /\ DialsEnd

-----------------------------------------------------------------------------
(* Only the part that moves has more than one initial state.               *)
QuietReader  == WireInit /\ authored /\ message = <<>> /\ cut = 0
QuietAccount == StatusInit /\ \A w \in Windows : left[w] = 0

MCInit ==
  /\ Init /\ TunnelInit /\ FramesInit
  /\ \/ part \in {"calls", "tunnel", "frames"} /\ QuietReader /\ QuietAccount
     \/ part = "fields" /\ WireInit /\ QuietAccount
     \/ part = "status" /\ QuietReader /\ StatusInit

Rests(at, moving) == part # at => UNCHANGED moving

MCNext ==
  /\ part' = part
  /\ \/ part = "calls"  /\ Next
     \/ part = "tunnel" /\ TunnelNext
     \/ part = "frames" /\ FramesNext
     \/ part = "fields" /\ WireNext
     \/ part = "status" /\ StatusNext
  /\ Rests("calls", vars)
  /\ Rests("tunnel", tunnelVars)
  /\ Rests("frames", frameVars)
  /\ Rests("fields", wireVars)
  /\ Rests("status", statusVars)

(* The fairness of Upstream and of Tunnel, for the part that moves.        *)
MCFairSpec ==
  /\ MCInit /\ [][MCNext]_<<part, vars, tunnelVars, frameVars, wireVars, statusVars>>
  /\ \A c \in Calls :
       /\ WF_vars(part = "calls" /\ Progress(c))
       /\ WF_vars(part = "calls" /\ Leaves(c))
       /\ SF_vars(part = "calls" /\ Send(c))
  /\ WF_tunnelVars(part = "tunnel" /\ DialerStep)
=============================================================================

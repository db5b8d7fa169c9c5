------------------------------- MODULE Tunnel -------------------------------
(***************************************************************************)
(* Opening a tunnel through a proxy: the SOCKS5 and CONNECT dialers of     *)
(* internal/devin/egress.go, and the probe that tests a route with them.   *)
(*                                                                         *)
(* The proxy is another program: it answers in pieces, answers wrongly,    *)
(* falls silent or hangs up, and what the destination sends may arrive     *)
(* right behind its answer.  The caller may give up at any moment.  The    *)
(* route's own deadline runs until the tunnel is up.                       *)
(*                                                                         *)
(* `inbox` holds what has reached the socket and was not read, in units    *)
(* that the dialers read whole: the fields of a reply, and single bytes of *)
(* an address.  `evidence` is kept for the properties: what the route, the *)
(* destination or the configured target did wrong so far.                  *)
(***************************************************************************)
EXTENDS Integers, SequencesExt

CONSTANTS
  Schemes,   \* of "socks5", "http", "https" and "direct": the routes tried
  NameSizes, \* the lengths of a bound address that is a name
  MaxData    \* bound: units the destination sends through the tunnel

ASSUME TunnelAssumption ==
  /\ Schemes \subseteq {"socks5", "http", "https", "direct"}
  /\ NameSizes \subseteq 0..255
  /\ MaxData \in Nat

VARIABLES
  dial,      \* where the dialer is, as a record
  conn,      \* the socket: "none", "open" or "closed"
  peer,      \* the other end of it: "there" or "gone"
  deadline,  \* the handshake's deadline is set on the socket
  inbox,     \* arrived and unread
  buffer,    \* read ahead by the CONNECT dialer's reader
  owed,      \* what the proxy has still to send of its answer
  arrived,   \* units the destination has sent, or -1: no tunnel yet
  got,       \* units the user of the tunnel has read
  caller,    \* "waiting" or "gone"
  evidence   \* what went wrong, whoever's fault it is

tunnelVars == <<dial, conn, peer, deadline, inbox, buffer, owed, arrived, got, caller, evidence>>
peerVars   == <<peer, inbox, owed, arrived>>

-----------------------------------------------------------------------------
(* Units, and the answers a proxy gives to a request. *)

Unit(is, n) == [is |-> is, n |-> n]
Padding(k)  == [i \in 1..k |-> Unit("byte", 0)]
Datum(i)    == Unit("data", i)
Sent(k)     == [i \in 1..k |-> Datum(i)]

(* The method the proxy chooses: none, a password, none of those offered,  *)
(* one that was not offered; -1 stands for what is not SOCKS5 at all.      *)
Methods  == {<<Unit("method", n)>> : n \in {-1, 0, 1, 2, 255}}
Verdicts == {<<Unit("auth", n)>> : n \in {0, 1}}

(* A grant ends with the bound address; behind it the tunnel is open.      *)
Open == <<Unit("open", 0)>>

Granted ==
  {<<Unit("code", 0), Unit("type", 1)>> \o Padding(6) \o Open,
   <<Unit("code", 0), Unit("type", 4)>> \o Padding(18) \o Open,
   <<Unit("code", 0), Unit("type", 2)>>}
  \cup {<<Unit("code", 0), Unit("type", 3), Unit("length", n)>> \o Padding(n + 2) \o Open
          : n \in NameSizes}

Refused == {<<Unit("code", n), Unit("type", 1)>> : n \in {-1} \cup 1..9}

(* Of a CONNECT: a status line and the end of the headers; a refusal       *)
(* carries a body.                                                         *)
Statuses ==
  {<<Unit("status", 200), Unit("end", 0)>> \o Open, <<Unit("status", -1)>>}
  \cup {<<Unit("status", n), Unit("end", 0), Unit("byte", 0)>> : n \in {403, 407, 429, 502}}

(* How much of a SOCKS5 reply follows its head or length, and a slip that  *)
(* leaves the port in the stream.                                          *)
SkipNoPort(type, length) == CASE type = 1 -> 4 [] type = 4 -> 16 [] OTHER -> length

Skip(type, length) == (CASE type = 1 -> 4 [] type = 4 -> 16 [] OTHER -> length) + 2

(* The SOCKS5 codes that say the proxy is unusable; the others describe    *)
(* the path to the destination.                                            *)
UnusableCodes    == {1, 2, 7, 8}
UnusableStatuses == {403, 407}

-----------------------------------------------------------------------------
(* How a dial ends. *)

(* Errors of the dialers are blamed on the route unless the caller's       *)
(* context has ended; a slip blames it always.                             *)
BlameAlways == TRUE

Blame == caller = "waiting"

Fails(why, broken) ==
  /\ dial' = [dial EXCEPT !.at = "failed", !.broken = broken]
  /\ conn' = IF conn = "open" THEN "closed" ELSE conn
  /\ evidence' = evidence \cup {why}
  /\ UNCHANGED <<deadline, buffer, got, caller>>

RouteFails(why) == Fails(why, Blame)

(* The deadline bounds the handshake; a slip does without.                 *)
SetNoDeadline == deadline' = deadline

SetDeadline == deadline' = TRUE

(* The generation that follows may run for minutes: no deadline is left.   *)
HandOver ==
  /\ dial' = [dial EXCEPT !.at = "up"]
  /\ deadline' = FALSE

Goes(at) == dial' = [dial EXCEPT !.at = at]

(* The dialer reads exactly the first k units off the socket.              *)
Takes(k) == Len(inbox) >= k /\ inbox' = SubSeq(inbox, k + 1, Len(inbox))

-----------------------------------------------------------------------------
(* The dialers. *)

Dialing == {"connecting", "tls", "method", "auth", "reply", "length", "skip", "head", "body"}

Begin ==
  /\ dial.at = "new"
  /\ \E scheme \in Schemes, auth, goodTarget \in BOOLEAN, probe \in BOOLEAN :
       dial' = [at |-> "connecting", scheme |-> scheme, auth |-> auth, good |-> goodTarget,
                probe |-> probe, skip |-> 0, status |-> 0, broken |-> FALSE, ok |-> FALSE]
  /\ UNCHANGED <<conn, peer, deadline, inbox, buffer, owed, arrived, got, caller, evidence>>

(* The direct route is dialled by the transport: its failure is nobody's.  *)
DialFails ==
  /\ dial.at = "connecting"
  /\ IF dial.scheme = "direct" THEN Fails("refused", FALSE) ELSE RouteFails("refused")
  /\ UNCHANGED peerVars

(* The dial and the TLS handshake are the steps that watch the caller.     *)
DialStopped ==
  /\ dial.at \in {"connecting", "tls"}
  /\ caller = "gone"
  /\ IF dial.scheme = "direct" THEN Fails("stopped", FALSE) ELSE RouteFails("stopped")
  /\ UNCHANGED peerVars

Connected ==
  /\ dial.at = "connecting"
  /\ conn' = "open"
  /\ CASE dial.scheme = "direct" -> HandOver /\ owed' = Open
       [] dial.scheme = "socks5" -> Goes("method") /\ SetDeadline /\ owed' \in Methods
       [] dial.scheme = "http"   -> Goes("head") /\ SetDeadline /\ owed' \in Statuses
       [] dial.scheme = "https"  -> Goes("tls") /\ deadline' = deadline /\ owed' = owed
  /\ UNCHANGED <<peer, inbox, buffer, arrived, got, caller, evidence>>

TLSToProxy ==
  /\ dial.at = "tls"
  /\ Goes("head") /\ SetDeadline /\ owed' \in Statuses
  /\ UNCHANGED <<conn, peer, inbox, buffer, arrived, got, caller, evidence>>

TLSToProxyFails ==
  /\ dial.at = "tls"
  /\ RouteFails("garbage")
  /\ UNCHANGED peerVars

(* The target is looked at only once the proxy has let us in.              *)
AskFor ==
  IF dial.good
    THEN Goes("reply") /\ owed' \in Granted \cup Refused
         /\ UNCHANGED <<conn, deadline, buffer, got, caller, evidence>>
    ELSE Fails("target", FALSE) /\ owed' = owed

ReadMethod ==
  /\ dial.at = "method"
  /\ Takes(1)
  /\ CASE inbox[1].n = 0 -> AskFor
       [] inbox[1].n = 2 /\ dial.auth ->
            Goes("auth") /\ owed' \in Verdicts
            /\ UNCHANGED <<conn, deadline, buffer, got, caller, evidence>>
       [] OTHER -> RouteFails("garbage") /\ owed' = owed
  /\ UNCHANGED <<peer, arrived>>

ReadAuth ==
  /\ dial.at = "auth"
  /\ Takes(1)
  /\ IF inbox[1].n = 0 THEN AskFor ELSE RouteFails("refused us") /\ owed' = owed
  /\ UNCHANGED <<peer, arrived>>

ReadReply ==
  /\ dial.at = "reply"
  /\ Takes(2)
  /\ LET code == inbox[1].n
         type == inbox[2].n
     IN  CASE code = -1 -> RouteFails("garbage")
           [] code \in UnusableCodes -> Fails("refused us", TRUE)
           [] code > 0 /\ code \notin UnusableCodes -> Fails("elsewhere", FALSE)
           [] code = 0 /\ type \in {1, 4} ->
                dial' = [dial EXCEPT !.at = "skip", !.skip = Skip(type, 0)]
                /\ UNCHANGED <<conn, deadline, buffer, got, caller, evidence>>
           [] code = 0 /\ type = 3 ->
                Goes("length") /\ UNCHANGED <<conn, deadline, buffer, got, caller, evidence>>
           [] OTHER -> RouteFails("garbage")
  /\ UNCHANGED <<peer, owed, arrived>>

ReadLength ==
  /\ dial.at = "length"
  /\ Takes(1)
  /\ dial' = [dial EXCEPT !.at = "skip", !.skip = Skip(3, inbox[1].n)]
  /\ UNCHANGED <<conn, peer, deadline, buffer, owed, arrived, got, caller, evidence>>

SkipAddress ==
  /\ dial.at = "skip"
  /\ Takes(dial.skip)
  /\ HandOver
  /\ UNCHANGED <<conn, peer, buffer, owed, arrived, got, caller, evidence>>

(* The reader of a CONNECT takes all there is, past the end of the headers.*)
ReadAhead ==
  /\ dial.at = "head"
  /\ inbox # <<>>
  /\ buffer' = buffer \o inbox
  /\ inbox' = <<>>
  /\ UNCHANGED <<dial, conn, peer, deadline, owed, arrived, got, caller, evidence>>

ReadHead ==
  /\ dial.at = "head"
  /\ buffer # <<>>
  /\ \/ /\ buffer[1].n = -1
        /\ RouteFails("garbage")
     \/ /\ Len(buffer) >= 2
        /\ buffer' = SubSeq(buffer, 3, Len(buffer))
        /\ IF buffer[1].n = 200 THEN HandOver
           ELSE dial' = [dial EXCEPT !.at = "body", !.status = buffer[1].n] /\ deadline' = deadline
        /\ UNCHANGED <<conn, got, caller, evidence>>
  /\ UNCHANGED peerVars

(* A refusal is judged once its body is read, or is no longer waited for.  *)
ReadBody ==
  /\ dial.at = "body"
  /\ IF dial.status \in UnusableStatuses THEN Fails("refused us", TRUE) ELSE Fails("elsewhere", FALSE)
  /\ UNCHANGED peerVars

(* The route's time runs out: that of the dial, of the TLS handshake, or   *)
(* the deadline on the socket.                                             *)
DeadlinePasses ==
  /\ dial.at \in Dialing \ {"body"}
  /\ dial.at \in {"connecting", "tls"} \/ deadline
  /\ IF dial.scheme = "direct" THEN Fails("silent", FALSE) ELSE RouteFails("silent")
  /\ UNCHANGED peerVars

HangUpSeen ==
  /\ dial.at \in Dialing \ {"connecting", "tls", "body"}
  /\ peer = "gone"
  /\ RouteFails("hung up")
  /\ UNCHANGED peerVars

-----------------------------------------------------------------------------
(* The tunnel in use, by a request or by a probe of the route. *)

TunnelRead ==
  /\ dial.at = "up"
  /\ \/ buffer # <<>> /\ got' = Append(got, Head(buffer)) /\ buffer' = Tail(buffer) /\ inbox' = inbox
     \/ buffer = <<>> /\ inbox # <<>>
        /\ got' = Append(got, Head(inbox)) /\ inbox' = Tail(inbox) /\ buffer' = buffer
  /\ UNCHANGED <<dial, conn, peer, deadline, owed, arrived, caller, evidence>>

(* A probe negotiates TLS through the tunnel and closes it either way.     *)
ProbeEnds ==
  /\ dial.at = "up" /\ dial.probe
  /\ \E ok \in BOOLEAN : dial' = [dial EXCEPT !.at = "probed", !.ok = ok]
  /\ conn' = "closed"
  /\ UNCHANGED <<peer, deadline, inbox, buffer, owed, arrived, got, caller, evidence>>

-----------------------------------------------------------------------------
(* The proxy, the destination behind it, and the caller. *)

ProxySends ==
  /\ owed # <<>> /\ peer = "there"
  /\ owed' = Tail(owed)
  /\ IF Head(owed).is = "open" THEN arrived' = 0 /\ inbox' = inbox
     ELSE arrived' = arrived /\ inbox' = Append(inbox, Head(owed))
  /\ UNCHANGED <<dial, conn, peer, deadline, buffer, got, caller, evidence>>

DestinationSends ==
  /\ arrived \in 0..(MaxData - 1) /\ peer = "there"
  /\ arrived' = arrived + 1
  /\ inbox' = Append(inbox, Datum(arrived'))
  /\ UNCHANGED <<dial, conn, peer, deadline, buffer, owed, got, caller, evidence>>

ProxyHangsUp ==
  /\ conn = "open" /\ peer = "there"
  /\ peer' = "gone"
  /\ UNCHANGED <<dial, conn, deadline, inbox, buffer, owed, arrived, got, caller, evidence>>

CallerLeaves ==
  /\ dial.at \in Dialing /\ caller = "waiting"
  /\ caller' = "gone"
  /\ UNCHANGED <<dial, conn, peer, deadline, inbox, buffer, owed, arrived, got, evidence>>

TunnelInit ==
  /\ dial = [at |-> "new"]
  /\ conn = "none" /\ peer = "there" /\ deadline = FALSE
  /\ inbox = <<>> /\ buffer = <<>> /\ owed = <<>>
  /\ arrived = -1 /\ got = <<>>
  /\ caller = "waiting" /\ evidence = {}

DialerStep ==
  \/ DialFails \/ DialStopped \/ Connected \/ TLSToProxy \/ TLSToProxyFails
  \/ ReadMethod \/ ReadAuth \/ ReadReply \/ ReadLength \/ SkipAddress
  \/ ReadAhead \/ ReadHead \/ ReadBody \/ HangUpSeen \/ DeadlinePasses

TunnelNext ==
  \/ Begin \/ DialerStep \/ TunnelRead \/ ProbeEnds
  \/ ProxySends \/ DestinationSends \/ ProxyHangsUp \/ CallerLeaves

TunnelSpec == TunnelInit /\ [][TunnelNext]_tunnelVars

(* The deadline's timer fires, whatever the proxy and the caller do.       *)
TunnelFairness == WF_tunnelVars(DialerStep)

-----------------------------------------------------------------------------
(* Properties. *)

(* A tunnel that is handed over starts where the proxy's answer ends,      *)
(* however the answer was cut and whatever came right behind it: its user  *)
(* reads all that the destination sent and nothing else, and no handshake  *)
(* deadline is left to cut a long generation short.  A dial that failed    *)
(* leaves no socket behind.                                                *)
TunnelsStartClean ==
  /\ dial.at = "up" =>
       /\ got \o buffer \o inbox = Sent(IF arrived = -1 THEN 0 ELSE arrived)
       /\ conn = "open" /\ ~deadline
  /\ dial.at \in {"failed", "probed"} => conn # "open"

RouteFaults == {"refused", "garbage", "silent", "hung up", "refused us"}

(* A failed dial costs the route its place in the rotation exactly when    *)
(* the route is at fault: not when the caller gave up, not when the        *)
(* destination or the configured target is, and not the direct connection; *)
(* and a proxy that falls silent is at fault although all there is to see  *)
(* of it is a deadline, like a caller's.                                   *)
RoutesBlamedFairly ==
  dial.at = "failed" =>
    /\ dial.broken => dial.scheme # "direct" /\ evidence \cap RouteFaults # {}
    /\ ~dial.broken => \/ caller = "gone" \/ dial.scheme = "direct"
                       \/ evidence \cap {"elsewhere", "target"} # {}

(* A proxy that falls silent holds no dial for ever.                       *)
DialsEnd == dial.at \in Dialing ~> dial.at \in {"up", "failed", "probed"}
=============================================================================

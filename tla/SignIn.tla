------------------------------- MODULE SignIn -------------------------------
(***************************************************************************)
(* Signing in to the dashboard and out of it (internal/dashboard: auth.go, *)
(* dashboard.go, and the part of store.go they keep their state in).       *)
(*                                                                         *)
(* Failed logins are counted by address and earn bans of growing length; a *)
(* right password clears the address.  A session is a cookie that nothing  *)
(* is stored for: it carries the epoch it was issued in and is signed with *)
(* a secret, and a logout moves the epoch.  Counts, epoch and secret live  *)
(* in the store's memory and in its file, which are saved as a whole.      *)
(*                                                                         *)
(* job[h] is a request between two of its critical sections: checking a    *)
(* password takes long, and the ban is looked at before.                   *)
(***************************************************************************)
EXTENDS Integers, FiniteSets

CONSTANTS
  Addrs,             \* client addresses
  Handlers,          \* login and logout requests that can be under way
  BanAfterFailures,  \* the failure that earns the first ban
  FirstBan,          \* its length
  MaxBan,            \* the longest ban
  StaleAfter,        \* how long an address is remembered after its last failure
  SessionTTL,        \* how long a session lasts
  ClockLag,          \* a clock read before the lock is at most this old
  MaxNow,            \* bound: the clock
  MaxFailedSaves,    \* bound: times that writing the file fails
  MaxStrikes,        \* bound: failures of one address in a row
  MaxEpoch,          \* bound: logouts
  MaxSecrets,        \* bound: secrets generated
  MaxCookies         \* bound: sessions issued

(* A clock that was read waits for the lock a moment, and no ban is so     *)
(* short.                                                                  *)
ASSUME BansAssumption ==
  /\ BanAfterFailures \in Nat \ {0} /\ FirstBan \in Nat \ {0}
  /\ MaxBan \in Nat /\ FirstBan <= MaxBan
  /\ StaleAfter \in Nat /\ SessionTTL \in Nat
  /\ ClockLag \in Nat /\ ClockLag <= FirstBan

VARIABLES
  now,      \* the wall clock
  mem,      \* the store's memory: [bans, epoch, secret]
  disk,     \* the same, in its file
  job,      \* by handler: what it is doing
  secrets,  \* how many secrets were ever generated
  cookies,  \* the sessions issued: [secret, epoch, exp, ended]
  failed,   \* how many saves have failed
  behind,   \* the last one did
  forgot    \* the process has restarted from a file that was behind

signInVars == <<now, mem, disk, job, secrets, cookies, failed, behind, forgot>>

NoHistory == [strikes |-> 0, until |-> 0, last |-> 0]
NoSecret  == 0

Idle       == [at |-> "idle"]
Free(h)    == job[h] = Idle
Banned(a)  == mem.bans[a].until > now

(* A time that was read before a lock was taken. *)
RecentPast == {t \in (now - ClockLag)..now : t >= 0}

(* Store.save writes everything the store holds. *)
Save(data) ==
  /\ mem' = data
  /\ \/ /\ disk' = data
        /\ behind' = FALSE
        /\ failed' = failed
     \/ /\ failed < MaxFailedSaves
        /\ failed' = failed + 1
        /\ behind' = TRUE
        /\ disk' = disk

-----------------------------------------------------------------------------
(* Logging in. *)

(* Each further failure doubles the ban, until it is as long as bans get.  *)
BanLadder[rung \in Nat] ==
  IF rung = 0 THEN FirstBan
  ELSE IF 2 * BanLadder[rung - 1] >= MaxBan THEN MaxBan ELSE 2 * BanLadder[rung - 1]

(* The length of the ban that so many failures in a row earn. *)
BanDuration(strikes) ==
  IF strikes < BanAfterFailures THEN 0 ELSE BanLadder[strikes - BanAfterFailures]

(* Histories that are neither banned nor recent are dropped. *)
ForgetStale(bans, t) ==
  [a \in Addrs |->
     IF bans[a].until <= t /\ t - bans[a].last > StaleAfter THEN NoHistory ELSE bans[a]]

(* A login that is not banned goes on to its password; a banned one is     *)
(* answered at once.                                                       *)
CheckBan(h) ==
  /\ Free(h)
  /\ \E a \in Addrs :
       /\ ~Banned(a)
       /\ job' = [job EXCEPT ![h] = [at |-> "verifying", addr |-> a]]
  /\ UNCHANGED <<now, mem, disk, secrets, cookies, failed, behind, forgot>>

(* A slip: the failure is not saved. *)
RecordLoginFailureUnsaved(h) ==
  /\ job[h].at = "verifying"
  /\ mem.bans[job[h].addr].strikes < MaxStrikes
  /\ \E t \in RecentPast :
       LET n == mem.bans[job[h].addr].strikes + 1
       IN  mem' = [mem EXCEPT !.bans[job[h].addr] =
                     [strikes |-> n, until |-> IF BanDuration(n) > 0 THEN t + BanDuration(n) ELSE @.until,
                      last |-> t]]
  /\ job' = [job EXCEPT ![h] = Idle]
  /\ UNCHANGED <<now, disk, failed, behind, secrets, cookies, forgot>>

(* The password is wrong, whether or not the address was banned meanwhile. *)
RecordLoginFailure(h) ==
  /\ job[h].at = "verifying"
  /\ mem.bans[job[h].addr].strikes < MaxStrikes
  /\ \E t \in RecentPast :
       LET old  == mem.bans[job[h].addr]
           n    == old.strikes + 1
           ban  == BanDuration(n)
           new  == [strikes |-> n, until |-> IF ban > 0 THEN t + ban ELSE old.until, last |-> t]
           bans == [mem.bans EXCEPT ![job[h].addr] = new]
       IN  Save([mem EXCEPT !.bans = ForgetStale(bans, t)])
  /\ job' = [job EXCEPT ![h] = Idle]
  /\ UNCHANGED <<now, secrets, cookies, forgot>>

(* The password is right. *)
RecordLoginSuccess(h) ==
  /\ job[h].at = "verifying"
  /\ Save([mem EXCEPT !.bans[job[h].addr] = NoHistory])
  /\ job' = [job EXCEPT ![h] = [at |-> "starting a session"]]
  /\ UNCHANGED <<now, secrets, cookies, forgot>>

(* The signing secret is generated when there is none.  When it cannot be  *)
(* saved the caller gets an error, and the memory keeps the secret.        *)
GenerateSecret ==
  /\ mem.secret = NoSecret
  /\ secrets < MaxSecrets
  /\ secrets' = secrets + 1
  /\ Save([mem EXCEPT !.secret = secrets'])

SessionSecret(h) ==
  /\ job[h].at = "starting a session"
  /\ \/ /\ mem.secret # NoSecret
        /\ UNCHANGED <<mem, disk, failed, behind, secrets>>
     \/ GenerateSecret
  /\ \E t \in RecentPast :
       job' = [job EXCEPT ![h] = IF mem.secret = NoSecret /\ behind' THEN Idle
                                 ELSE [at |-> "signing", secret |-> mem'.secret, exp |-> t + SessionTTL]]
  /\ UNCHANGED <<now, cookies, forgot>>

(* The epoch is read, the cookie signed and sent. *)
NewSession(h) ==
  /\ job[h].at = "signing"
  /\ Cardinality(cookies) < MaxCookies
  /\ cookies' = cookies \cup {[secret |-> job[h].secret, epoch |-> mem.epoch,
                               exp |-> job[h].exp, ended |-> FALSE]}
  /\ job' = [job EXCEPT ![h] = Idle]
  /\ UNCHANGED <<now, mem, disk, secrets, failed, behind, forgot>>
-----------------------------------------------------------------------------
(* Being signed in, and signing out. *)

ValidSession(c) == c.secret = mem.secret /\ c.epoch = mem.epoch /\ now < c.exp

(* Looking at a cookie generates the secret too. *)
Visit ==
  /\ GenerateSecret
  /\ UNCHANGED <<now, job, cookies, forgot>>

(* A logout passes the guard with a valid session. *)
Guard(h) ==
  /\ Free(h)
  /\ \E c \in cookies : ValidSession(c)
  /\ job' = [job EXCEPT ![h] = [at |-> "signing out"]]
  /\ UNCHANGED <<now, mem, disk, secrets, cookies, failed, behind, forgot>>

(* A slip: the epoch moves in memory and is not saved. *)
LogoutUnsaved(h) ==
  /\ job[h].at = "signing out"
  /\ mem.epoch < MaxEpoch
  /\ mem' = [mem EXCEPT !.epoch = @ + 1]
  /\ cookies' = {[c EXCEPT !.ended = TRUE] : c \in cookies}
  /\ job' = [job EXCEPT ![h] = Idle]
  /\ UNCHANGED <<now, disk, failed, behind, secrets, forgot>>

Logout(h) ==
  /\ job[h].at = "signing out"
  /\ mem.epoch < MaxEpoch
  /\ Save([mem EXCEPT !.epoch = @ + 1])
  /\ cookies' = {[c EXCEPT !.ended = TRUE] : c \in cookies}
  /\ job' = [job EXCEPT ![h] = Idle]
  /\ UNCHANGED <<now, secrets, forgot>>

-----------------------------------------------------------------------------
(* The process ends at any point and starts again from the file; cookies   *)
(* are in browsers and stay.                                               *)
Restart ==
  /\ mem' = disk
  /\ job' = [h \in Handlers |-> Idle]
  /\ behind' = FALSE
  /\ forgot' = (forgot \/ behind)
  /\ UNCHANGED <<now, disk, secrets, cookies, failed>>

(* The account list or the route list is saved, and all the rest with it.  *)
SaveElsewhere ==
  /\ Save(mem)
  /\ UNCHANGED <<now, job, secrets, cookies, forgot>>

Tick ==
  /\ now < MaxNow
  /\ now' = now + 1
  /\ UNCHANGED <<mem, disk, job, secrets, cookies, failed, behind, forgot>>

SignInInit ==
  /\ now = 0
  /\ mem = [bans |-> [a \in Addrs |-> NoHistory], epoch |-> 0, secret |-> NoSecret]
  /\ disk = mem
  /\ job = [h \in Handlers |-> Idle]
  /\ secrets = 0 /\ cookies = {}
  /\ failed = 0 /\ behind = FALSE /\ forgot = FALSE

SignInNext ==
  \/ \E h \in Handlers :
       \/ CheckBan(h) \/ RecordLoginFailure(h) \/ RecordLoginSuccess(h)
       \/ SessionSecret(h) \/ NewSession(h) \/ Guard(h) \/ Logout(h)
  \/ Visit \/ SaveElsewhere \/ Restart \/ Tick

SignInSpec == SignInInit /\ [][SignInNext]_signInVars

-----------------------------------------------------------------------------
Proven(a)   == \E h \in Handlers : job[h] = [at |-> "verifying", addr |-> a]
                                   /\ job'[h] = [at |-> "starting a session"]
Mistaken(a) == \E h \in Handlers : job[h] = [at |-> "verifying", addr |-> a] /\ job'[h] = Idle

(* An address's failures and its ban outlive other addresses' logins,      *)
(* concurrent requests of its own and restarts.  They grow by a failure of *)
(* that address, which never shortens a ban that is not at its longest;    *)
(* they vanish by a right password from there, or when they are stale and  *)
(* no ban runs; and a restart loses only what could not be saved.          *)
HistoryKept ==
  [][\A a \in Addrs :
       LET old == mem.bans[a]
           new == mem'.bans[a]
       IN  \/ new = old
           \/ /\ Mistaken(a)
              /\ new.strikes = old.strikes + 1
              /\ new.until >= old.until \/ new.until = new.last + MaxBan
           \/ /\ new = NoHistory
              /\ Proven(a) \/ (old.until <= now /\ now - old.last > StaleAfter)
           \/ behind /\ mem' = disk]_signInVars

(* A cookie is good until it expires or anybody signs out, whichever is    *)
(* first, and no longer: through concurrent logins and logouts, and        *)
(* through restarts from a file that was up to date.                       *)
SessionsFollowLogout ==
  ~forgot => \A c \in cookies : ValidSession(c) <=> ~c.ended /\ now < c.exp
=============================================================================
